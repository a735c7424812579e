------------------------------- MODULE Upload -------------------------------
(* The upload page, which takes a text or a file through three requests to  *)
(* its analysis, and behind it the documents router, the object store and   *)
(* the parsing task.  A document may be deleted on another page meanwhile.  *)
EXTENDS Naturals, FiniteSets

CONSTANTS
  Docs,          \* documents, one for each attempt to upload
  Kinds,         \* the kinds of material that are tried
  None

\* What is uploaded: a text, or a file that is parsed at once, whose parsing
\* fails or finds nothing, or that is left to the task for its size.
Kind == {"text", "file", "broken", "empty", "large"}
Files == Kinds \ {"text"}

UploadAssumption ==
  /\ Kinds \subseteq Kind /\ "text" \in Kinds
  /\ None \notin Docs \cup Kind

VARIABLES
  \* the browser
  place,         \* upload, analysis or elsewhere
  mode, file,
  text,          \* whether the text typed is long enough to be sent
  attempt,       \* what the mounted page is processing, or None
  flow,          \* how far startAnalysis has come with each document
  \* the server
  kind,          \* of each document, None before it is sent
  row,           \* the row of each document
  objects,       \* documents with an object in the store
  parsed,        \* documents whose text is extracted
  task,          \* parse_document_task of each
  draft,         \* the draft made of each
  analysed       \* drafts with an analysis

form == <<mode, file, text, attempt>>
server == <<kind, row, objects, parsed, task, draft, analysed>>
vars == <<place, form, flow, server>>

TypeOK ==
  /\ place \in {"upload", "elsewhere", "analysis"}
  /\ mode \in {"file", "text"} /\ file \in Files \cup {None}
  /\ text \in BOOLEAN /\ attempt \in Docs \cup {None}
  /\ flow \in [Docs -> {"idle", "uploading", "drafting", "analysing", "leaving",
                         "failed", "over"}]
  /\ kind \in [Docs -> Kinds \cup {None}]
  /\ row \in [Docs -> {"none", "sent", "stored", "flushed", "committed", "failed", "deleted"}]
  /\ objects \subseteq Docs /\ parsed \subseteq Docs
  /\ task \in [Docs -> {"none", "queued", "done", "not_found", "error"}]
  /\ draft \in [Docs -> {"none", "sent", "flushed", "committed", "failed", "deleted"}]
  /\ analysed \in [Docs -> {"none", "sent", "yes", "failed"}]

Init ==
  /\ place = "upload" /\ mode = "file" /\ file = None /\ text = FALSE
  /\ attempt = None /\ flow = [d \in Docs |-> "idle"]
  /\ kind = [d \in Docs |-> None] /\ row = [d \in Docs |-> "none"]
  /\ objects = {} /\ parsed = {} /\ task = [d \in Docs |-> "none"]
  /\ draft = [d \in Docs |-> "none"] /\ analysed = [d \in Docs |-> "none"]

-----------------------------------------------------------------------------
(* The upload page.                                                        *)

FormShown == place = "upload" /\ attempt = None

SetMode(m) ==
  /\ FormShown /\ mode # m
  /\ mode' = m
  /\ UNCHANGED <<place, file, text, attempt, flow, server>>

\* Dropped or chosen; one of another type or over 50 MB is refused.
ValidateAndSetFile(f) ==
  /\ FormShown /\ mode = "file"
  /\ file' = f
  /\ UNCHANGED <<place, mode, text, attempt, flow, server>>

RemoveFile ==
  /\ FormShown /\ mode = "file" /\ file # None
  /\ file' = None
  /\ UNCHANGED <<place, mode, text, attempt, flow, server>>

\* Typed, cleared, or the demo, which is long and comes with its case.
EditText(t) ==
  /\ FormShown /\ mode = "text" /\ text # t
  /\ text' = t
  /\ UNCHANGED <<place, mode, file, attempt, flow, server>>

SetDemoText ==
  /\ FormShown
  /\ mode' = "text" /\ text' = TRUE
  /\ UNCHANGED <<place, file, attempt, flow, server>>

StartEnabled == IF mode = "file" THEN file # None ELSE text

\* Each attempt sends the material again, as a new document.
StartAnalysis(d) ==
  /\ FormShown /\ StartEnabled /\ flow[d] = "idle"
  /\ attempt' = d
  /\ flow' = [flow EXCEPT ![d] = "uploading"]
  /\ kind' = [kind EXCEPT ![d] = IF mode = "text" THEN "text" ELSE file]
  /\ row' = [row EXCEPT ![d] = "sent"]
  /\ UNCHANGED <<place, mode, file, text, objects, parsed, task, draft, analysed>>

\* The answer has the text that was extracted; without one the page gives up.
ReceiveUpload(d) ==
  /\ flow[d] = "uploading" /\ row[d] \in {"flushed", "committed", "deleted"}
  /\ IF kind[d] \in {"text", "file"}
     THEN /\ flow' = [flow EXCEPT ![d] = "drafting"]
          /\ draft' = [draft EXCEPT ![d] = "sent"]
     ELSE /\ flow' = [flow EXCEPT ![d] = "failed"]
          /\ UNCHANGED draft
  /\ UNCHANGED <<place, form, kind, row, objects, parsed, task, analysed>>

ReceiveDraft(d) ==
  /\ flow[d] = "drafting" /\ draft[d] \in {"flushed", "committed", "deleted"}
  /\ flow' = [flow EXCEPT ![d] = "analysing"]
  /\ analysed' = [analysed EXCEPT ![d] = "sent"]
  /\ UNCHANGED <<place, form, kind, row, objects, parsed, task, draft>>

ReceiveAnalysis(d) ==
  /\ flow[d] = "analysing" /\ analysed[d] = "yes"
  /\ flow' = [flow EXCEPT ![d] = "leaving"]
  /\ UNCHANGED <<place, form, server>>

\* An error status, or an answer that is lost, whatever the server does with it.
RequestFails(d) ==
  /\ flow[d] \in {"uploading", "drafting", "analysing"}
  /\ flow' = [flow EXCEPT ![d] = "failed"]
  /\ UNCHANGED <<place, form, server>>

\* Variant: the waiting state is not reset.
FormStaysAway(d) ==
  /\ flow[d] = "failed"
  /\ flow' = [flow EXCEPT ![d] = "over"]
  /\ UNCHANGED <<place, form, server>>

\* The form is back after three seconds, with all that was in it.
FormReturns(d) ==
  /\ flow[d] = "failed"
  /\ flow' = [flow EXCEPT ![d] = "over"]
  /\ attempt' = IF attempt = d THEN None ELSE attempt
  /\ UNCHANGED <<place, mode, file, text, server>>

Unmount == mode' = "file" /\ file' = None /\ text' = FALSE /\ attempt' = None

\* startAnalysis and its timer outlive the page: wherever the user has gone by
\* then, the analysis is opened.
Redirect(d) ==
  /\ flow[d] = "leaving"
  /\ flow' = [flow EXCEPT ![d] = "over"]
  /\ place' = "analysis"
  /\ Unmount
  /\ UNCHANGED server

\* Another page, or back to an empty form.
Navigate(to) ==
  /\ place # to
  /\ place' = to
  /\ Unmount
  /\ UNCHANGED <<flow, server>>

\* Loaded anew, the browser forgets; what was sent goes on.
Reload ==
  /\ \E d \in Docs : flow[d] \notin {"idle", "over"}
  /\ flow' = [d \in Docs |-> IF flow[d] = "idle" THEN "idle" ELSE "over"]
  /\ Unmount
  /\ UNCHANGED <<place, server>>

-----------------------------------------------------------------------------
(* The server: POST /documents/upload and /documents/from-text.            *)

ServerOnly == UNCHANGED <<place, form, flow>>

\* A file goes to the store first; a large one to the task as well.
StoreObject(d) ==
  /\ row[d] = "sent" /\ kind[d] # "text"
  /\ row' = [row EXCEPT ![d] = "stored"]
  /\ objects' = objects \cup {d}
  /\ task' = [task EXCEPT ![d] = IF kind[d] = "large" THEN "queued" ELSE @]
  /\ UNCHANGED <<kind, parsed, draft, analysed>>
  /\ ServerOnly

\* A file that cannot be parsed, or a row that cannot be written, takes its
\* object back.
UploadFails(d) ==
  /\ row[d] \in {"sent", "stored"}
  /\ row' = [row EXCEPT ![d] = "failed"]
  /\ objects' = objects \ {d}
  /\ UNCHANGED <<kind, parsed, task, draft, analysed>>
  /\ ServerOnly

FlushDocument(d) ==
  /\ row[d] = (IF kind[d] = "text" THEN "sent" ELSE "stored")
  /\ kind[d] # "broken"
  /\ row' = [row EXCEPT ![d] = "flushed"]
  /\ parsed' = IF kind[d] \in {"text", "file"} THEN parsed \cup {d} ELSE parsed
  /\ UNCHANGED <<kind, objects, task, draft, analysed>>
  /\ ServerOnly

\* When the answer has been sent.
CommitDocument(d) ==
  /\ row[d] = "flushed"
  /\ row' = [row EXCEPT ![d] = "committed"]
  /\ UNCHANGED <<kind, objects, parsed, task, draft, analysed>>
  /\ ServerOnly

\* The counter or the commit fails: the row is lost, and its object stays.
CommitFails(d) ==
  /\ row[d] = "flushed"
  /\ row' = [row EXCEPT ![d] = "failed"]
  /\ parsed' = parsed \ {d}
  /\ UNCHANGED <<kind, objects, task, draft, analysed>>
  /\ ServerOnly

\* The task looks for the row when it is run, and is not run again.
ParseDocumentTask(d) ==
  /\ task[d] = "queued"
  /\ IF row[d] # "committed"
     THEN task' = [task EXCEPT ![d] = "not_found"] /\ UNCHANGED parsed
     ELSE IF d \in objects
     THEN task' = [task EXCEPT ![d] = "done"] /\ parsed' = parsed \cup {d}
     ELSE task' = [task EXCEPT ![d] = "error"] /\ UNCHANGED parsed
  /\ UNCHANGED <<kind, row, objects, draft, analysed>>
  /\ ServerOnly

-----------------------------------------------------------------------------
(* The server: POST /drafts and /drafts/{id}/analyze.                      *)

\* document_id refers to a row that must be there for others to see.
FlushDraft(d) ==
  /\ draft[d] = "sent"
  /\ draft' = [draft EXCEPT ![d] = IF row[d] = "committed" THEN "flushed" ELSE "failed"]
  /\ UNCHANGED <<kind, row, objects, parsed, task, analysed>>
  /\ ServerOnly

CommitDraft(d) ==
  /\ draft[d] = "flushed"
  /\ draft' = [draft EXCEPT ![d] = "committed"]
  /\ UNCHANGED <<kind, row, objects, parsed, task, analysed>>
  /\ ServerOnly

\* 404 for a draft that is not committed yet, or that is deleted before the
\* model answers.
AnalyzeDraft(d) ==
  /\ analysed[d] = "sent"
  /\ analysed' = [analysed EXCEPT ![d] = IF draft[d] = "committed" THEN "yes" ELSE "failed"]
  /\ UNCHANGED <<kind, row, objects, parsed, task, draft>>
  /\ ServerOnly

\* DELETE /documents/{id}: the object goes first, and a failure after that
\* leaves the row.
DeleteObject(d) ==
  /\ row[d] = "committed"
  /\ objects' = objects \ {d}
  /\ UNCHANGED <<kind, row, parsed, task, draft, analysed>>
  /\ ServerOnly

\* Variant: the draft's foreign key does not cascade.
CommitDeleteOfRow(d) ==
  /\ row[d] = "committed" /\ d \notin objects /\ draft[d] # "flushed"
  /\ row' = [row EXCEPT ![d] = "deleted"]
  /\ UNCHANGED <<kind, objects, parsed, task, draft, analysed>>
  /\ ServerOnly

\* The row goes with its draft and the draft's analysis; a draft that is being
\* made holds it.
CommitDelete(d) ==
  /\ row[d] = "committed" /\ d \notin objects /\ draft[d] # "flushed"
  /\ row' = [row EXCEPT ![d] = "deleted"]
  /\ draft' = [draft EXCEPT ![d] = IF @ = "committed" THEN "deleted" ELSE @]
  /\ UNCHANGED <<kind, objects, parsed, task, analysed>>
  /\ ServerOnly

Next ==
  \/ \E m \in {"file", "text"} : SetMode(m)
  \/ \E f \in Files : ValidateAndSetFile(f)
  \/ \E t \in BOOLEAN : EditText(t)
  \/ RemoveFile \/ SetDemoText \/ Reload
  \/ \E to \in {"upload", "elsewhere"} : Navigate(to)
  \/ \E d \in Docs :
       \/ StartAnalysis(d) \/ ReceiveUpload(d) \/ ReceiveDraft(d) \/ ReceiveAnalysis(d)
       \/ RequestFails(d) \/ FormReturns(d) \/ Redirect(d)
       \/ StoreObject(d) \/ UploadFails(d) \/ FlushDocument(d) \/ CommitDocument(d)
       \/ CommitFails(d) \/ ParseDocumentTask(d) \/ FlushDraft(d) \/ CommitDraft(d) \/ AnalyzeDraft(d)
       \/ DeleteObject(d) \/ CommitDelete(d)

Spec == Init /\ [][Next]_vars

RequestEnds(d) ==
  ReceiveUpload(d) \/ ReceiveDraft(d) \/ ReceiveAnalysis(d) \/ RequestFails(d)

\* Requests are answered or fail, timers fire, a queued task is run.
FairSpec ==
  /\ Spec
  /\ \A d \in Docs :
       /\ WF_vars(RequestEnds(d)) /\ WF_vars(FormReturns(d))
       /\ WF_vars(Redirect(d)) /\ WF_vars(ParseDocumentTask(d))

-----------------------------------------------------------------------------
(* Properties.                                                             *)

\* No draft or analysis outlives its document, whichever of the upload's late
\* requests and the deletion comes first (models/draft.py:20-22,
\* documents.py:189-209).
DraftHasDocument == \A d \in Docs : draft[d] \in {"flushed", "committed"} => row[d] = "committed"

\* No attempt leaves the page in its waiting state (upload/page.tsx:173-180).
ProcessingEnds == attempt # None ~> attempt = None

-----------------------------------------------------------------------------
(* What the code's comments say and does not hold.                         *)

\* "Heavy document parsing task for files > 10 MB or slow-parsing documents."
\* (worker.py:51): a large file that is saved, and not deleted, is parsed.
LargeFileParsed ==
  \A d \in Docs : (row[d] = "committed" /\ kind[d] = "large")
                    ~> (d \in parsed \/ row[d] = "deleted" \/ d \notin objects)
=============================================================================
