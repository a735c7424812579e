----------------------------- MODULE MCMaterial -----------------------------
(* The pages about a material, side by side: upload, list of documents,     *)
(* analysis, export of the brief.  They share no state of the browser's      *)
(* memory: each behaviour is one of one component.                           *)
EXTENDS Upload, TLC, Integers, Sequences

CONSTANTS
  ListedDocs, Texts, Named, Drafted, DOCUMENTS_PAGE_SIZE,
  Requests, Length, Notes, MaxNotes, MaxItems, MaxVisits

\* Annotations that overlap, nest, follow an empty one, and cannot be found.
SomeNotes ==
  {[at |-> 0, len |-> 2, issue_type |-> "logic", severity |-> "low", comment |-> "x"],
   [at |-> 1, len |-> 2, issue_type |-> "clarity", severity |-> "high", comment |-> "y"],
   [at |-> 1, len |-> 1, issue_type |-> "logic", severity |-> "medium", comment |-> "x"],
   [at |-> 0, len |-> 0, issue_type |-> "style", severity |-> "low", comment |-> ""],
   [at |-> -1, len |-> 1, issue_type |-> "logic", severity |-> "low", comment |-> "y"]}

\* Attempts to upload, and requests for an analysis; no component has both.
Symmetry == Permutations(Docs) \cup Permutations(Requests)

VARIABLES
  focus,
  list, search, documentsActiveFilter, currentPage, deleteTarget, deletion,
  rows, born, removing, scanned,
  shown, visits, isAnalyzing, analyzeError, refetching, sheetIdx, taps,
  mobileTab, desktopView, isDesktop, analysisActiveFilter, notes, request,
  stored,
  artifact, copied

D == INSTANCE Documents WITH
  Docs <- ListedDocs, activeFilter <- documentsActiveFilter
A == INSTANCE Analysis WITH activeFilter <- analysisActiveFilter
B == INSTANCE BriefExport

documentsVars == <<list, search, documentsActiveFilter, currentPage,
                   deleteTarget, deletion, rows, born, removing, scanned>>
analysisVars == <<shown, visits, isAnalyzing, analyzeError, refetching,
                  sheetIdx, taps, mobileTab, desktopView, isDesktop,
                  analysisActiveFilter, notes, request, stored>>
briefVars == <<artifact, copied>>

ASSUME Assumptions ==
  /\ UploadAssumption
  /\ D!DocumentsAssumption
  /\ A!AnalysisAssumption
  /\ B!BriefExportAssumption

\* A component that is not looked at has no state; the upload waits in its
\* initial one.
NoUpload == Init
NoDocuments ==
  /\ list = None /\ search = None
  /\ documentsActiveFilter = None /\ currentPage = None /\ deleteTarget = None
  /\ deletion = None /\ rows = None /\ born = None /\ removing = None
  /\ scanned = None
NoAnalysis ==
  /\ shown = None /\ visits = None /\ isAnalyzing = None
  /\ analyzeError = None /\ refetching = None /\ sheetIdx = None
  /\ taps = None /\ mobileTab = None /\ desktopView = None /\ isDesktop = None
  /\ analysisActiveFilter = None /\ notes = None /\ request = None
  /\ stored = None
NoBriefExport ==
  /\ artifact = None /\ copied = None

\* Which component is looked at.
MaterialInit ==
  \/ /\ focus = "upload" /\ Init /\ NoDocuments /\ NoAnalysis
     /\ NoBriefExport
  \/ /\ focus = "documents" /\ D!Init /\ NoUpload /\ NoAnalysis
     /\ NoBriefExport
  \/ /\ focus = "analysis" /\ A!Init /\ NoUpload /\ NoDocuments
     /\ NoBriefExport
  \/ /\ focus = "brief" /\ B!Init /\ NoUpload /\ NoDocuments /\ NoAnalysis

MaterialNext ==
  \/ /\ focus = "upload" /\ Next
     /\ UNCHANGED <<focus, documentsVars, analysisVars, briefVars>>
  \/ /\ focus = "documents" /\ D!Next
     /\ UNCHANGED <<focus, vars, analysisVars, briefVars>>
  \/ /\ focus = "analysis" /\ A!Next
     /\ UNCHANGED <<focus, vars, documentsVars, briefVars>>
  \/ /\ focus = "brief" /\ B!Next
     /\ UNCHANGED <<focus, vars, documentsVars, analysisVars>>

materialVars == <<focus, vars, documentsVars, analysisVars, briefVars>>

MaterialSpec == MaterialInit /\ [][MaterialNext]_materialVars

\* Every variable of the component that is looked at has its type.
TypesOK ==
  /\ focus = "upload" => TypeOK
  /\ focus = "documents" => D!TypeOK
  /\ focus = "analysis" => A!TypeOK
  /\ focus = "brief" => B!TypeOK

\* The page of the list that is shown has a document if any matches (Documents).
PageIsNotEmpty == focus = "documents" => D!PageIsNotEmpty

\* The segments are the whole text in its order (Analysis).
SegmentsAreTheText == focus = "analysis" => A!SegmentsAreTheText

\* The brief repeats nothing and puts the graver note first (Analysis).
BriefIsOrdered == focus = "analysis" => A!BriefIsOrdered

\* The page shows the analysis that is stored (Analysis).
ShownIsStored == focus = "analysis" => A!ShownIsStored

\* The file has the card's sections, in its order, none of them empty
\* (BriefExport).
FileIsWellFormed == focus = "brief" => B!FileIsWellFormed
=============================================================================
