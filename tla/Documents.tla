----------------------------- MODULE Documents -----------------------------
(* The documents page: the list as it was last fetched, its search, filter  *)
(* and pages, and the deletion of a document.  Documents come from the      *)
(* upload page (Upload) at any time.                                        *)
EXTENDS Lists, FiniteSets, SequencesExt

CONSTANTS
  Docs,                 \* documents
  Texts,                \* those that were given as a text
  Named,                \* those whose name contains the searched word
  Drafted,              \* those that may get a draft
  DOCUMENTS_PAGE_SIZE,
  None

DocumentsAssumption ==
  /\ IsFiniteSet(Docs) /\ Docs # {}
  /\ Texts \subseteq Docs /\ Named \subseteq Docs
  /\ DOCUMENTS_PAGE_SIZE \in Nat \ {0}
  /\ None \notin Docs

VARIABLES
  list,          \* the documents as fetched, or None
  search, activeFilter, currentPage,
  deleteTarget,  \* the document of the open dialog
  deletion,      \* the document whose deletion the page waits for
  rows,          \* committed rows, the newest first
  born,          \* documents that have ever been saved
  removing,      \* those whose deletion is not committed yet
  scanned        \* documents with a draft

view == <<list, search, activeFilter, currentPage, deleteTarget>>
server == <<rows, born, removing, scanned>>
vars == <<view, deletion, server>>

TypeOK ==
  /\ list = None \/ list \in Seq([doc : Docs, scanned : BOOLEAN])
  /\ search \in BOOLEAN
  /\ activeFilter \in {"all", "files", "text"}
  /\ currentPage \in 1..Cardinality(Docs)
  /\ deleteTarget \in Docs \cup {None}
  /\ deletion \in Docs \cup {None}
  /\ rows \in Seq(Docs) /\ IsInjective(rows)
  /\ born \subseteq Docs /\ removing \subseteq Docs /\ scanned \subseteq Docs

Init ==
  /\ list = None
  /\ search = FALSE /\ activeFilter = "all" /\ currentPage = 1
  /\ deleteTarget = None /\ deletion = None
  /\ rows = <<>> /\ born = {} /\ removing = {} /\ scanned = {}

-----------------------------------------------------------------------------
(* The list.                                                               *)

MatchFilter(d) ==
  CASE activeFilter = "all" -> TRUE
    [] activeFilter = "files" -> d \notin Texts
    [] activeFilter = "text" -> d \in Texts

Filtered ==
  IF list = None THEN <<>>
  ELSE Keep(list, {i \in DOMAIN list : /\ search => list[i].doc \in Named
                                      /\ MatchFilter(list[i].doc)})

TotalPages == LET pages == (Len(Filtered) + DOCUMENTS_PAGE_SIZE - 1) \div DOCUMENTS_PAGE_SIZE
              IN IF pages = 0 THEN 1 ELSE pages

\* Variant: the page number is not brought back into range.
PageAsChosen == currentPage

SafeCurrentPage ==
  LET total == TotalPages IN IF currentPage > total THEN total ELSE currentPage

PagedDocuments ==
  LET filtered == Filtered
      start == (SafeCurrentPage - 1) * DOCUMENTS_PAGE_SIZE
      end == start + DOCUMENTS_PAGE_SIZE
  IN SubSeq(filtered, start + 1, IF end > Len(filtered) THEN Len(filtered) ELSE end)

Listed == {item.doc : item \in ToSet(PagedDocuments)}

SetSearch(s) ==
  /\ search' = s /\ currentPage' = 1
  /\ UNCHANGED <<list, activeFilter, deleteTarget, deletion, server>>

SetActiveFilter(f) ==
  /\ activeFilter' = f /\ currentPage' = 1
  /\ UNCHANGED <<list, search, deleteTarget, deletion, server>>

\* Back and on count from the chosen page, not from the page that is shown.
PagerShown == Len(Filtered) > DOCUMENTS_PAGE_SIZE

SetCurrentPage(page) ==
  /\ PagerShown
  /\ currentPage' = page
  /\ UNCHANGED <<list, search, activeFilter, deleteTarget, deletion, server>>

\* Variant: the button is not disabled on the first page.
PrevPageUnchecked == SetCurrentPage(currentPage - 1)

PrevPage == SafeCurrentPage > 1 /\ SetCurrentPage(currentPage - 1)
NextPage == SafeCurrentPage < TotalPages /\ SetCurrentPage(currentPage + 1)
GoToPage == \E page \in 1..TotalPages : SetCurrentPage(page)

\* The row's link: to its analysis, or to the upload page.
LinkOf(item) == IF item.scanned THEN "analysis" ELSE "upload"

\* GET /documents: on load, when invalidated, on return to the window.
FetchDocuments ==
  /\ list' = [i \in DOMAIN rows |-> [doc |-> rows[i], scanned |-> rows[i] \in scanned]]
  /\ UNCHANGED <<search, activeFilter, currentPage, deleteTarget, deletion, server>>

-----------------------------------------------------------------------------
(* Deleting.                                                               *)

\* Only the document whose deletion runs has its button disabled.
AskDelete(d) ==
  /\ d \in Listed /\ deletion # d
  /\ deleteTarget' = d
  /\ UNCHANGED <<list, search, activeFilter, currentPage, deletion, server>>

CancelDelete ==
  /\ deleteTarget # None
  /\ deleteTarget' = None
  /\ UNCHANGED <<list, search, activeFilter, currentPage, deletion, server>>

ConfirmDelete ==
  /\ deleteTarget # None /\ deletion = None
  /\ deletion' = deleteTarget
  /\ UNCHANGED <<view, server>>

\* The stored object is gone at once, the row when the answer has been sent.
DeleteDocument ==
  /\ deletion \in ToSet(rows) \ removing
  /\ removing' = removing \cup {deletion}
  /\ UNCHANGED <<view, deletion, rows, born, scanned>>

CommitDelete(d) ==
  /\ d \in removing
  /\ removing' = removing \ {d}
  /\ rows' = Keep(rows, {i \in DOMAIN rows : rows[i] # d})
  /\ scanned' = scanned \ {d}
  /\ UNCHANGED <<view, deletion, born>>

\* Whatever dialog is open by now is closed.
DeleteSucceeds ==
  /\ deletion # None /\ deletion \in removing \cup (born \ ToSet(rows))
  /\ deletion' = None
  /\ deleteTarget' = None
  /\ UNCHANGED <<list, search, activeFilter, currentPage, server>>

\* 404 for a row that is gone, an error status, a lost answer.
DeleteFails ==
  /\ deletion # None
  /\ deletion' = None
  /\ UNCHANGED <<view, server>>

-----------------------------------------------------------------------------
(* Elsewhere: a document is saved, its draft made.                         *)

CommitDocument(d) ==
  /\ d \notin born
  /\ rows' = <<d>> \o rows /\ born' = born \cup {d}
  /\ UNCHANGED <<view, deletion, removing, scanned>>

CommitDraft(d) ==
  /\ d \in Drafted /\ d \in ToSet(rows) \ scanned
  /\ scanned' = scanned \cup {d}
  /\ UNCHANGED <<view, deletion, rows, born, removing>>

Next ==
  \/ \E s \in BOOLEAN : SetSearch(s)
  \/ \E f \in {"all", "files", "text"} : SetActiveFilter(f)
  \/ PrevPage \/ NextPage \/ GoToPage \/ FetchDocuments
  \/ \E d \in Docs : AskDelete(d) \/ CommitDocument(d) \/ CommitDraft(d) \/ CommitDelete(d)
  \/ CancelDelete \/ ConfirmDelete \/ DeleteDocument
  \/ DeleteSucceeds \/ DeleteFails

Spec == Init /\ [][Next]_vars

-----------------------------------------------------------------------------
(* Properties.                                                             *)

\* As long as some document matches, the page shown has one, however the list
\* shrinks under the page number: by deletion, search or filter; and every
\* match is on one page or another (documents/page.tsx:75-90).
PageIsNotEmpty ==
  /\ Filtered # <<>> => PagedDocuments # <<>>
  /\ Len(Filtered) <= TotalPages * DOCUMENTS_PAGE_SIZE
=============================================================================
