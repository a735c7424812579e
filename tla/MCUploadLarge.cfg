\* A large file that is saved.
SPECIFICATION FairSpec
CONSTANTS
  Docs = {d1}
  Kinds = {"text", "large"}
  None = None
PROPERTY LargeFileParsed
CHECK_DEADLOCK FALSE
