--------------------------- MODULE MaterialProofs ---------------------------
(* What holds of the pages about a material, for any number of documents,    *)
(* attempts, annotations and entries: types, and each invariant the run      *)
(* checks.                                                                   *)
EXTENDS MCMaterial, ListsProofs, FiniteSetTheorems, SequenceTheorems, TLAPS

-----------------------------------------------------------------------------
(* Upload: types.                                                         *)

LEMMA TypeInit == ASSUME Init PROVE TypeOK
BY DEF Init, TypeOK

\* The steps of the page that send nothing.
LEMMA FormTypes ==
  ASSUME TypeOK,
         \/ \E m \in {"file", "text"} : SetMode(m)
         \/ \E f \in Files : ValidateAndSetFile(f)
         \/ \E t \in BOOLEAN : EditText(t)
         \/ RemoveFile \/ SetDemoText \/ Reload
         \/ \E to \in {"upload", "elsewhere"} : Navigate(to)
  PROVE  TypeOK'
<1>1. ASSUME NEW m \in {"file", "text"}, SetMode(m) PROVE TypeOK'
  BY <1>1 DEF SetMode, TypeOK, server
<1>2. ASSUME NEW f \in Files, ValidateAndSetFile(f) PROVE TypeOK'
  BY <1>2 DEF ValidateAndSetFile, TypeOK, server
<1>3. ASSUME NEW t \in BOOLEAN, EditText(t) PROVE TypeOK'
  BY <1>3 DEF EditText, TypeOK, server
<1>4. CASE RemoveFile \/ SetDemoText
  BY <1>4 DEF RemoveFile, SetDemoText, TypeOK, server
<1>5. CASE Reload
  BY <1>5 DEF Reload, Unmount, TypeOK, server
<1>6. ASSUME NEW to \in {"upload", "elsewhere"}, Navigate(to) PROVE TypeOK'
  BY <1>6 DEF Navigate, Unmount, TypeOK, server
<1> QED
  BY <1>1, <1>2, <1>3, <1>4, <1>5, <1>6

\* The steps of startAnalysis.
LEMMA FlowTypes ==
  ASSUME UploadAssumption, TypeOK, NEW d \in Docs,
         \/ StartAnalysis(d) \/ ReceiveUpload(d) \/ ReceiveDraft(d) \/ ReceiveAnalysis(d)
         \/ RequestFails(d) \/ FormReturns(d) \/ Redirect(d)
  PROVE  TypeOK'
<1>1. CASE StartAnalysis(d)
  <2>1. (IF mode = "text" THEN "text" ELSE file) \in Kinds
    BY <1>1 DEF StartAnalysis, StartEnabled, TypeOK, Files, UploadAssumption
  <2> QED
    BY <1>1, <2>1 DEF StartAnalysis, TypeOK
<1>2. CASE ReceiveUpload(d)
  BY <1>2 DEF ReceiveUpload, TypeOK, form
<1>3. CASE ReceiveDraft(d) \/ ReceiveAnalysis(d) \/ RequestFails(d)
  BY <1>3 DEF ReceiveDraft, ReceiveAnalysis, RequestFails, TypeOK, form, server
<1>4. CASE FormReturns(d) \/ Redirect(d)
  BY <1>4 DEF FormReturns, Redirect, Unmount, TypeOK, server
<1> QED
  BY <1>1, <1>2, <1>3, <1>4

\* The steps of the server.
ServerNext(d) ==
  \/ StoreObject(d) \/ UploadFails(d) \/ FlushDocument(d) \/ CommitDocument(d)
  \/ CommitFails(d) \/ ParseDocumentTask(d) \/ FlushDraft(d) \/ CommitDraft(d)
  \/ AnalyzeDraft(d) \/ DeleteObject(d) \/ CommitDelete(d)

LEMMA ServerTypes == ASSUME TypeOK, NEW d \in Docs, ServerNext(d) PROVE TypeOK'
<1> USE DEF TypeOK, ServerOnly, form
<1>1. CASE StoreObject(d) \/ UploadFails(d)
  BY <1>1 DEF StoreObject, UploadFails
<1>2. CASE FlushDocument(d) \/ CommitDocument(d) \/ CommitFails(d)
  BY <1>2 DEF FlushDocument, CommitDocument, CommitFails
<1>3. CASE ParseDocumentTask(d)
  BY <1>3 DEF ParseDocumentTask
<1>4. CASE FlushDraft(d) \/ CommitDraft(d) \/ AnalyzeDraft(d)
  BY <1>4 DEF FlushDraft, CommitDraft, AnalyzeDraft
<1>5. CASE DeleteObject(d) \/ CommitDelete(d)
  BY <1>5 DEF DeleteObject, CommitDelete
<1> QED
  BY <1>1, <1>2, <1>3, <1>4, <1>5 DEF ServerNext

LEMMA TypeStep == ASSUME UploadAssumption, TypeOK, [Next]_vars PROVE TypeOK'
<1>1. CASE UNCHANGED vars
  BY <1>1 DEF vars, form, server, TypeOK
<1> QED
  BY <1>1, FormTypes, FlowTypes, ServerTypes DEF Next, ServerNext

-----------------------------------------------------------------------------
(* Upload: a draft has its document.                                               *)

\* An attempt that has not begun has sent nothing.
UnsentInv == \A d \in Docs : flow[d] = "idle" => row[d] = "none" /\ draft[d] = "none"

\* The page writes no row, and of the drafts only one it sends.
LEMMA PageKeepsDrafts ==
  ASSUME UnsentInv, DraftHasDocument, row' = row,
         \A d \in Docs : flow'[d] = "idle" => flow[d] = "idle" /\ draft'[d] = draft[d],
         \A d \in Docs : draft'[d] = draft[d] \/ draft'[d] = "sent"
  PROVE  UnsentInv' /\ DraftHasDocument'
BY DEF UnsentInv, DraftHasDocument

LEMMA FormKeepsDrafts ==
  ASSUME TypeOK, UnsentInv, DraftHasDocument,
         \/ \E m \in {"file", "text"} : SetMode(m)
         \/ \E f \in Files : ValidateAndSetFile(f)
         \/ \E t \in BOOLEAN : EditText(t)
         \/ RemoveFile \/ SetDemoText \/ Reload
         \/ \E to \in {"upload", "elsewhere"} : Navigate(to)
         \/ UNCHANGED vars
  PROVE  UnsentInv' /\ DraftHasDocument'
<1>1. CASE Reload
  BY <1>1, PageKeepsDrafts DEF Reload, server
<1>2. CASE ~Reload
  BY <1>2, PageKeepsDrafts
  DEF SetMode, ValidateAndSetFile, EditText, RemoveFile, SetDemoText, Navigate, vars, server
<1> QED
  BY <1>1, <1>2

LEMMA FlowKeepsDrafts ==
  ASSUME TypeOK, UnsentInv, DraftHasDocument, NEW d \in Docs,
         \/ StartAnalysis(d) \/ ReceiveUpload(d) \/ ReceiveDraft(d) \/ ReceiveAnalysis(d)
         \/ RequestFails(d) \/ FormReturns(d) \/ Redirect(d)
  PROVE  UnsentInv' /\ DraftHasDocument'
<1> USE DEF TypeOK
<1>1. CASE StartAnalysis(d)
  BY <1>1 DEF StartAnalysis, UnsentInv, DraftHasDocument
<1>2. CASE ReceiveUpload(d)
  BY <1>2, PageKeepsDrafts DEF ReceiveUpload
<1>3. CASE ReceiveDraft(d) \/ ReceiveAnalysis(d) \/ RequestFails(d)
  BY <1>3, PageKeepsDrafts DEF ReceiveDraft, ReceiveAnalysis, RequestFails, server
<1>4. CASE FormReturns(d) \/ Redirect(d)
  BY <1>4, PageKeepsDrafts DEF FormReturns, Redirect, server
<1> QED
  BY <1>1, <1>2, <1>3, <1>4

\* The foreign key is checked when a draft is flushed, and a row goes together
\* with its draft, and not while one is being made.
LEMMA ServerKeepsDrafts ==
  ASSUME TypeOK, UnsentInv, DraftHasDocument, NEW d \in Docs, ServerNext(d)
  PROVE  UnsentInv' /\ DraftHasDocument'
<1> USE DEF TypeOK, ServerOnly, UnsentInv, DraftHasDocument
<1>1. CASE StoreObject(d) \/ UploadFails(d)
  BY <1>1 DEF StoreObject, UploadFails
<1>2. CASE FlushDocument(d) \/ CommitDocument(d) \/ CommitFails(d)
  BY <1>2 DEF FlushDocument, CommitDocument, CommitFails
<1>3. CASE ParseDocumentTask(d)
  BY <1>3 DEF ParseDocumentTask
<1>4. CASE FlushDraft(d) \/ CommitDraft(d) \/ AnalyzeDraft(d)
  BY <1>4 DEF FlushDraft, CommitDraft, AnalyzeDraft
<1>5. CASE DeleteObject(d)
  BY <1>5 DEF DeleteObject
<1>6. CASE CommitDelete(d)
  BY <1>6 DEF CommitDelete
<1> QED
  BY <1>1, <1>2, <1>3, <1>4, <1>5, <1>6 DEF ServerNext

U_Inv == TypeOK /\ UnsentInv /\ DraftHasDocument

LEMMA U_InitHolds == ASSUME Init PROVE U_Inv
BY TypeInit DEF Init, UnsentInv, DraftHasDocument, U_Inv

LEMMA U_Step == ASSUME UploadAssumption, U_Inv, [Next]_vars PROVE U_Inv'
<1>1. TypeOK'
  BY TypeStep DEF U_Inv
<1>2. UnsentInv' /\ DraftHasDocument'
  BY FormKeepsDrafts, FlowKeepsDrafts, ServerKeepsDrafts DEF Next, ServerNext, U_Inv
<1> QED
  BY <1>1, <1>2 DEF U_Inv

-----------------------------------------------------------------------------
(* Documents.                                                              *)

D_Keep == \A l, places : D!Keep(l, places) = Keep(l, places)

LEMMA D_KeepIs == D_Keep
BY DEF D_Keep, D!Keep, Keep, D!Fold, Fold

LEMMA D_Cardinality == \A S : D!Cardinality(S) = Cardinality(S) /\ (D!IsFiniteSet(S) <=> IsFiniteSet(S))
BY DEF D!Cardinality, Cardinality, D!IsFiniteSet, IsFiniteSet

D_Item == [doc : ListedDocs, scanned : BOOLEAN]

\* A row is saved once, and a fetched list has a document once.
D_Inv ==
  /\ D!TypeOK
  /\ D!ToSet(rows) \subseteq born
  /\ list # None => \A i, j \in DOMAIN list : list[i].doc = list[j].doc => i = j

\* Round a division up.
LEMMA PagesOf ==
  ASSUME NEW n \in Nat, NEW size \in Nat \ {0}, NEW pages, pages = (n + size - 1) \div size
  PROVE  /\ pages \in Nat /\ pages <= n /\ n <= pages * size
         /\ n > 0 => pages > 0 /\ (pages - 1) * size < n
  OBVIOUS

LEMMA D_Filtered ==
  ASSUME D!DocumentsAssumption, D_Inv
  PROVE  /\ D!Filtered \in Seq(D_Item)
         /\ Len(D!Filtered) <= Cardinality(ListedDocs)
<1>1. CASE list = None
  <2>1. D!Filtered = <<>>
    BY <1>1 DEF D!Filtered
  <2>2. Cardinality(ListedDocs) \in Nat
    BY D_Cardinality, FS_CardinalityType DEF D!DocumentsAssumption
  <2> QED
    BY <2>1, <2>2
<1>2. CASE list # None
  <2> DEFINE places == {i \in DOMAIN list : (search => list[i].doc \in Named) /\ D!MatchFilter(list[i].doc)}
             f == Keep(list, places)
             n == Len(f)
  <2>1. list \in Seq(D_Item)
    BY <1>2 DEF D_Inv, D!TypeOK, D_Item
  <2>2. D!Filtered = f
    BY <1>2, D_KeepIs DEF D!Filtered, D_Keep
  <2>3. places \in SUBSET (DOMAIN list)
    OBVIOUS
  <2> HIDE DEF places
  <2>4. f \in Seq(D_Item)
    BY <2>1, <2>3, KeepPicks
  <2>5. PICK at : Picks(list, places, f, at)
    BY <2>1, <2>3, KeepPicks
  <2> HIDE DEF f
  <2>6. n \in Nat
    BY <2>4
  <2>7. /\ at \in [1..n -> places] /\ \A k \in 1..n : f[k] = list[at[k]]
        /\ \A k, l \in 1..n : k < l => at[k] < at[l]
    BY <2>5 DEF Picks
  <2> HIDE DEF n
  <2> DEFINE docs == [k \in 1..n |-> f[k].doc]
  <2>8. docs \in [1..n -> ListedDocs]
    <3>1. \A k \in 1..n : f[k] \in D_Item
      BY <2>4 DEF n
    <3>2. \A k \in 1..n : f[k].doc \in ListedDocs
      BY <3>1 DEF D_Item
    <3> QED
      BY <3>2
  <2>9. \A k, l \in 1..n : docs[k] = docs[l] => k = l
    <3> SUFFICES ASSUME NEW k \in 1..n, NEW l \in 1..n, docs[k] = docs[l] PROVE k = l
      OBVIOUS
    <3>1. at[k] \in DOMAIN list /\ at[l] \in DOMAIN list
      BY <2>3, <2>7
    <3>2. at[k] = at[l]
      BY <1>2, <2>7, <3>1 DEF D_Inv
    <3>3. at[k] \in Int /\ at[l] \in Int
      BY <2>1, <3>1
    <3> QED
      BY <2>6, <2>7, <3>2, <3>3
  <2>10. docs \in Injection(1..n, ListedDocs)
    BY <2>8, <2>9 DEF Injection, IsInjective
  <2>11. Cardinality(1..n) <= Cardinality(ListedDocs)
    BY <2>10, D_Cardinality, FS_Injection DEF D!DocumentsAssumption
  <2>12. Cardinality(1..n) = n
    BY <2>6, FS_Interval
  <2> QED
    BY <2>2, <2>4, <2>11, <2>12 DEF n
<1> QED
  BY <1>1, <1>2

\* The pages: at least one, and no more than there are documents.
LEMMA D_Pages ==
  ASSUME D!DocumentsAssumption, D_Inv
  PROVE  /\ D!TotalPages \in 1..Cardinality(ListedDocs)
         /\ D!SafeCurrentPage \in 1..D!TotalPages
         /\ Len(D!Filtered) <= D!TotalPages * DOCUMENTS_PAGE_SIZE
         /\ Len(D!Filtered) > 0 => (D!SafeCurrentPage - 1) * DOCUMENTS_PAGE_SIZE < Len(D!Filtered)
<1> DEFINE n == Len(D!Filtered)
           size == DOCUMENTS_PAGE_SIZE
           pages == (n + size - 1) \div size
           card == Cardinality(ListedDocs)
<1>1. n \in Nat /\ n <= card
  BY D_Filtered
<1>2. card \in Nat /\ card > 0
  <2>1. card \in Nat /\ card # 0
    BY D_Cardinality, FS_CardinalityType, FS_EmptySet DEF D!DocumentsAssumption
  <2> QED
    BY <2>1
<1>3. size \in Nat \ {0}
  BY DEF D!DocumentsAssumption
<1>4. D!TotalPages = IF pages = 0 THEN 1 ELSE pages
  BY DEF D!TotalPages
<1>5. currentPage \in Nat /\ currentPage > 0
  BY <1>2, D_Cardinality DEF D_Inv, D!TypeOK
<1> HIDE DEF n, size, card
<1>6. /\ pages \in Nat /\ pages <= n /\ n <= pages * size
      /\ n > 0 => pages > 0 /\ (pages - 1) * size < n
  BY <1>1, <1>3, PagesOf
<1> HIDE DEF pages
<1>7. D!TotalPages \in 1..card /\ n <= D!TotalPages * size
  BY <1>1, <1>2, <1>3, <1>4, <1>6
<1>8. D!SafeCurrentPage \in 1..D!TotalPages
  BY <1>2, <1>5, <1>7 DEF D!SafeCurrentPage
<1>9. n > 0 => (D!SafeCurrentPage - 1) * size < n
  <2> SUFFICES ASSUME n > 0 PROVE (D!SafeCurrentPage - 1) * size < n
    OBVIOUS
  <2>1. D!TotalPages = pages /\ (pages - 1) * size < n
    BY <1>4, <1>6
  <2>2. \A a, b \in Nat : a <= b => a * size <= b * size
    BY <1>3
  <2>3. (D!SafeCurrentPage - 1) * size <= (pages - 1) * size
    <3>1. D!SafeCurrentPage - 1 \in Nat /\ pages - 1 \in Nat /\ D!SafeCurrentPage - 1 <= pages - 1
      BY <1>2, <1>7, <1>8, <2>1
    <3> QED
      BY <2>2, <3>1
  <2>4. (D!SafeCurrentPage - 1) * size \in Int /\ (pages - 1) * size \in Int
    BY <1>2, <1>3, <1>6, <1>7, <1>8
  <2> QED
    BY <1>1, <2>1, <2>3, <2>4
<1> QED
  BY <1>7, <1>8, <1>9 DEF n, size, card

LEMMA D_PageIsNotEmpty ==
  ASSUME D!DocumentsAssumption, D_Inv
  PROVE  D!PageIsNotEmpty
<1> DEFINE f == D!Filtered
           n == Len(f)
           start == (D!SafeCurrentPage - 1) * DOCUMENTS_PAGE_SIZE
           last == IF start + DOCUMENTS_PAGE_SIZE > n THEN n ELSE start + DOCUMENTS_PAGE_SIZE
<1>1. f \in Seq(D_Item)
  BY D_Filtered
<1>2. n <= D!TotalPages * DOCUMENTS_PAGE_SIZE
  BY D_Pages
<1>3. ASSUME f # <<>> PROVE D!PagedDocuments # <<>>
  <2>1. n \in Nat /\ n > 0
    BY <1>1, <1>3
  <2>2. start < n /\ start \in Nat
    <3>1. D!TotalPages \in Nat /\ D!SafeCurrentPage \in 1..D!TotalPages
      BY D_Pages, D_Cardinality, FS_CardinalityType DEF D!DocumentsAssumption
    <3>2. start \in Nat
      <4>1. D!SafeCurrentPage - 1 \in Nat /\ DOCUMENTS_PAGE_SIZE \in Nat
        BY <3>1 DEF D!DocumentsAssumption
      <4>2. \A a, b \in Nat : a * b \in Nat
        OBVIOUS
      <4> QED
        BY <4>1, <4>2
    <3> QED
      BY <2>1, <3>2, D_Pages
  <2>3. D!PagedDocuments = SubSeq(f, start + 1, last)
    BY DEF D!PagedDocuments
  <2>4. last \in Nat /\ last <= n /\ start + 1 <= last
    <3>1. DOCUMENTS_PAGE_SIZE \in Nat /\ DOCUMENTS_PAGE_SIZE > 0
      BY DEF D!DocumentsAssumption
    <3> HIDE DEF start, n
    <3> QED
      BY <2>1, <2>2, <3>1
  <2> HIDE DEF start, last, f, n
  <2>5. /\ start + 1 \in 1..(Len(f) + 1) /\ last \in 0..Len(f) /\ last >= start + 1
    BY <1>1, <2>2, <2>4 DEF n
  <2>6. Len(SubSeq(f, start + 1, last)) = last - (start + 1) + 1
    <3> DEFINE m == start + 1
    <3>1. m \in Int /\ last \in Int /\ m <= last /\ \A i \in m..last : f[i] \in D_Item
      BY <1>1, <2>5
    <3> HIDE DEF m
    <3>2. Len(SubSeq(f, m, last)) = last - m + 1
      BY <3>1, SubSeqProperties
    <3> QED
      BY <3>2 DEF m
  <2>7. Len(SubSeq(f, start + 1, last)) > 0
    BY <2>2, <2>4, <2>6
  <2>8. Len(<<>>) = 0 /\ ~(0 > 0)
    OBVIOUS
  <2>9. Len(D!PagedDocuments) > 0
    BY ONLY <2>3, <2>7
  <2> QED
    BY ONLY <2>8, <2>9
<1> QED
  BY <1>2, <1>3 DEF D!PageIsNotEmpty

LEMMA D_InitHolds == ASSUME D!DocumentsAssumption, D!Init PROVE D_Inv
<1>1. 1 \in 1..D!Cardinality(ListedDocs)
  <2>1. Cardinality(ListedDocs) \in Nat /\ Cardinality(ListedDocs) # 0
    BY D_Cardinality, FS_CardinalityType, FS_EmptySet DEF D!DocumentsAssumption
  <2> QED
    BY <2>1, D_Cardinality
<1>2. rows = <<>> /\ <<>> \in Seq(ListedDocs) /\ DOMAIN <<>> = {}
  BY DEF D!Init
<1>3. D!ToSet(rows) = {} /\ D!IsInjective(rows)
  BY <1>2 DEF D!ToSet, D!IsInjective
<1> QED
  BY <1>1, <1>2, <1>3 DEF D!Init, D_Inv, D!TypeOK

\* The steps of the page that read the list only.
LEMMA D_ViewKeeps ==
  ASSUME D!DocumentsAssumption, D_Inv,
         UNCHANGED <<list, deletion, rows, born, removing, scanned>>,
         search' \in BOOLEAN, documentsActiveFilter' \in {"all", "files", "text"},
         currentPage' \in 1..D!Cardinality(ListedDocs),
         deleteTarget' \in ListedDocs \cup {None}
  PROVE  D_Inv'
<1>1. D!IsInjective(rows)' /\ D!ToSet(rows)' = D!ToSet(rows)
  BY DEF D_Inv, D!TypeOK, D!IsInjective, D!ToSet
<1> QED
  BY <1>1 DEF D_Inv, D!TypeOK

LEMMA D_ViewStep ==
  ASSUME D!DocumentsAssumption, D_Inv,
         \/ \E s \in BOOLEAN : D!SetSearch(s)
         \/ \E f \in {"all", "files", "text"} : D!SetActiveFilter(f)
         \/ D!PrevPage \/ D!NextPage \/ D!GoToPage
         \/ \E d \in ListedDocs : D!AskDelete(d)
         \/ D!CancelDelete
  PROVE  D_Inv'
<1> DEFINE card == D!Cardinality(ListedDocs)
<1>1. /\ D!TotalPages \in 1..card /\ D!SafeCurrentPage \in 1..D!TotalPages
      /\ card \in Nat /\ 1 \in 1..card
  <2>1. D!TotalPages \in 1..card /\ D!SafeCurrentPage \in 1..D!TotalPages /\ card \in Nat
    BY D_Pages, D_Cardinality, FS_CardinalityType DEF D!DocumentsAssumption
  <2> HIDE DEF card
  <2> QED
    BY <2>1
<1>2. /\ search \in BOOLEAN /\ documentsActiveFilter \in {"all", "files", "text"}
      /\ currentPage \in 1..card /\ deleteTarget \in ListedDocs \cup {None}
  BY DEF D_Inv, D!TypeOK
<1> HIDE DEF card
<1>3. ASSUME NEW page, page \in 1..card, D!SetCurrentPage(page) PROVE D_Inv'
  BY <1>2, <1>3, D_ViewKeeps DEF D!SetCurrentPage, D!server, card
<1>4. CASE \E s \in BOOLEAN : D!SetSearch(s)
  BY <1>1, <1>2, <1>4, D_ViewKeeps DEF D!SetSearch, D!server, card
<1>5. CASE \E f \in {"all", "files", "text"} : D!SetActiveFilter(f)
  BY <1>1, <1>2, <1>5, D_ViewKeeps DEF D!SetActiveFilter, D!server, card
<1>6. CASE D!PrevPage
  <2>1. currentPage - 1 \in 1..card
    BY <1>1, <1>2, <1>6 DEF D!PrevPage, D!SafeCurrentPage
  <2> QED
    BY <1>3, <1>6, <2>1 DEF D!PrevPage
<1>7. CASE D!NextPage
  <2>1. currentPage + 1 \in 1..card
    BY <1>1, <1>2, <1>7 DEF D!NextPage, D!SafeCurrentPage
  <2> QED
    BY <1>3, <1>7, <2>1 DEF D!NextPage
<1>8. CASE D!GoToPage
  <2>1. \A page \in 1..D!TotalPages : page \in 1..card
    BY <1>1
  <2> QED
    BY <1>3, <1>8, <2>1 DEF D!GoToPage
<1>9. CASE (\E d \in ListedDocs : D!AskDelete(d)) \/ D!CancelDelete
  BY <1>2, <1>9, D_ViewKeeps DEF D!AskDelete, D!CancelDelete, D!server, card
<1> QED
  BY <1>4, <1>5, <1>6, <1>7, <1>8, <1>9

LEMMA D_FetchStep ==
  ASSUME D_Inv, D!FetchDocuments PROVE D_Inv'
<1>1. /\ rows \in Seq(ListedDocs) /\ \A i, j \in DOMAIN rows : rows[i] = rows[j] => i = j
  BY DEF D_Inv, D!TypeOK, D!IsInjective
<1>2. list' = [i \in DOMAIN rows |-> [doc |-> rows[i], scanned |-> rows[i] \in scanned]]
  BY DEF D!FetchDocuments
<1>3. list' \in Seq(D_Item)
  <2>1. DOMAIN rows = 1..Len(rows) /\ Len(rows) \in Nat
    BY <1>1
  <2>2. \A i \in DOMAIN rows : [doc |-> rows[i], scanned |-> rows[i] \in scanned] \in D_Item
    BY <1>1 DEF D_Item
  <2> QED
    BY <1>2, <2>1, <2>2
<1>4. \A i, j \in DOMAIN list' : list'[i].doc = list'[j].doc => i = j
  BY <1>1, <1>2
<1>5. UNCHANGED <<search, documentsActiveFilter, currentPage, deleteTarget, deletion,
                  rows, born, removing, scanned>>
  BY DEF D!FetchDocuments, D!server
<1>6. D!IsInjective(rows)' /\ D!ToSet(rows)' = D!ToSet(rows)
  BY <1>5 DEF D_Inv, D!TypeOK, D!IsInjective, D!ToSet
<1> QED
  BY <1>3, <1>4, <1>5, <1>6 DEF D_Inv, D!TypeOK, D_Item

\* The steps that leave rows and list as they are.
LEMMA D_DeletionStep ==
  ASSUME D_Inv,
         \/ D!ConfirmDelete \/ D!DeleteDocument \/ D!DeleteSucceeds \/ D!DeleteFails
         \/ \E d \in ListedDocs : D!CommitDraft(d)
  PROVE  D_Inv'
<1>1. UNCHANGED <<list, search, documentsActiveFilter, currentPage, rows, born>>
  BY DEF D!ConfirmDelete, D!DeleteDocument, D!DeleteSucceeds, D!DeleteFails, D!CommitDraft,
         D!view, D!server
<1>2. D!IsInjective(rows)' /\ D!ToSet(rows)' = D!ToSet(rows)
  BY <1>1 DEF D_Inv, D!TypeOK, D!IsInjective, D!ToSet
<1>3. \A d \in D!ToSet(rows) : d \in ListedDocs
  BY DEF D_Inv, D!TypeOK, D!ToSet
<1>4. /\ deleteTarget' \in ListedDocs \cup {None} /\ deletion' \in ListedDocs \cup {None}
      /\ removing' \subseteq ListedDocs /\ scanned' \subseteq ListedDocs
  BY <1>3 DEF D_Inv, D!TypeOK, D!ConfirmDelete, D!DeleteDocument, D!DeleteSucceeds,
              D!DeleteFails, D!CommitDraft, D!view, D!server
<1> QED
  BY <1>1, <1>2, <1>4 DEF D_Inv, D!TypeOK

LEMMA D_SavedStep ==
  ASSUME D_Inv, NEW d \in ListedDocs, D!CommitDocument(d) PROVE D_Inv'
<1>1. /\ rows \in Seq(ListedDocs) /\ \A i, j \in DOMAIN rows : rows[i] = rows[j] => i = j
      /\ \A i \in DOMAIN rows : rows[i] \in born
  BY DEF D_Inv, D!TypeOK, D!IsInjective, D!ToSet
<1>2. d \notin born /\ rows' = <<d>> \o rows /\ born' = born \cup {d}
  BY DEF D!CommitDocument
<1> DEFINE more == <<d>> \o rows
<1>3. /\ more \in Seq(ListedDocs) /\ DOMAIN more = 1..(Len(rows) + 1) /\ more[1] = d
      /\ Len(rows) \in Nat /\ DOMAIN rows = 1..Len(rows)
      /\ \A i \in 1..(Len(rows) + 1) : i # 1 => more[i] = rows[i - 1] /\ i - 1 \in 1..Len(rows)
  BY <1>1
<1> HIDE DEF more
<1>8. \A k \in 1..(Len(rows) + 1) :
        k # 1 => more[k] = rows[k - 1] /\ k - 1 \in DOMAIN rows /\ more[k] # d /\ more[k] \in born
  <2> SUFFICES ASSUME NEW k \in 1..(Len(rows) + 1), k # 1
               PROVE  more[k] = rows[k - 1] /\ k - 1 \in DOMAIN rows /\ more[k] # d /\ more[k] \in born
    OBVIOUS
  <2>1. more[k] = rows[k - 1] /\ k - 1 \in DOMAIN rows
    BY <1>3
  <2> QED
    BY <1>1, <1>2, <2>1
<1>4. \A i, j \in DOMAIN more : more[i] = more[j] => i = j
  <2> SUFFICES ASSUME NEW i \in 1..(Len(rows) + 1), NEW j \in 1..(Len(rows) + 1), more[i] = more[j]
               PROVE  i = j
    BY <1>3
  <2>1. CASE i # 1 /\ j # 1
    <3>1. i - 1 = j - 1
      BY <1>1, <1>8, <2>1
    <3> QED
      BY <1>3, <3>1
  <2>2. CASE i = 1 \/ j = 1
    BY <1>3, <1>8, <2>2
  <2> QED
    BY <2>1, <2>2
<1>5. D!IsInjective(more) /\ D!ToSet(more) \subseteq born'
  <2>1. \A k \in DOMAIN more : more[k] \in born'
    <3> SUFFICES ASSUME NEW k \in 1..(Len(rows) + 1) PROVE more[k] \in born'
      BY <1>3
    <3> QED
      BY <1>2, <1>3, <1>8
  <2> QED
    BY <1>4, <2>1 DEF D!IsInjective, D!ToSet
<1>6. D!IsInjective(rows)' /\ D!ToSet(rows)' \subseteq born' /\ rows' \in Seq(ListedDocs)
  BY <1>2, <1>3, <1>5 DEF more, D!IsInjective, D!ToSet
<1>7. UNCHANGED <<list, search, documentsActiveFilter, currentPage, deleteTarget, deletion, removing, scanned>>
  BY DEF D!CommitDocument, D!view
<1> QED
  BY <1>2, <1>6, <1>7 DEF D_Inv, D!TypeOK

LEMMA D_GoneStep ==
  ASSUME D_Inv, NEW d \in ListedDocs, D!CommitDelete(d) PROVE D_Inv'
<1> DEFINE places == {i \in DOMAIN rows : rows[i] # d}
           left == Keep(rows, places)
<1>1. /\ rows \in Seq(ListedDocs) /\ \A i, j \in DOMAIN rows : rows[i] = rows[j] => i = j
      /\ \A i \in DOMAIN rows : rows[i] \in born
  BY DEF D_Inv, D!TypeOK, D!IsInjective, D!ToSet
<1>2. rows' = left
  BY D_KeepIs DEF D!CommitDelete, D_Keep
<1>3. places \in SUBSET (DOMAIN rows)
  OBVIOUS
<1> HIDE DEF places
<1>4. left \in Seq(ListedDocs)
  BY <1>1, <1>3, KeepPicks
<1>5. PICK at : Picks(rows, places, left, at)
  BY <1>1, <1>3, KeepPicks
<1> HIDE DEF left
<1>6. \A i, j \in DOMAIN left : left[i] = left[j] => i = j
  <2> SUFFICES ASSUME NEW i \in 1..Len(left), NEW j \in 1..Len(left), left[i] = left[j] PROVE i = j
    BY <1>4
  <2>1. at[i] \in DOMAIN rows /\ at[j] \in DOMAIN rows /\ rows[at[i]] = rows[at[j]]
    BY <1>3, <1>5 DEF Picks
  <2>2. at[i] = at[j] /\ at[i] \in Int
    BY <1>1, <2>1
  <2> QED
    BY <1>4, <1>5, <2>2 DEF Picks
<1>7. \A i \in DOMAIN left : left[i] \in born
  BY <1>1, <1>3, <1>4, <1>5 DEF Picks
<1>8. D!IsInjective(rows)' /\ D!ToSet(rows)' \subseteq born /\ rows' \in Seq(ListedDocs)
  BY <1>2, <1>4, <1>6, <1>7 DEF D!IsInjective, D!ToSet
<1>9. UNCHANGED <<list, search, documentsActiveFilter, currentPage, deleteTarget, deletion, born>>
  BY DEF D!CommitDelete, D!view
<1>10. removing' \subseteq ListedDocs /\ scanned' \subseteq ListedDocs
  BY DEF D!CommitDelete, D_Inv, D!TypeOK
<1> QED
  BY <1>8, <1>9, <1>10 DEF D_Inv, D!TypeOK

LEMMA D_Step == ASSUME D!DocumentsAssumption, D_Inv, D!Next PROVE D_Inv'
BY D_ViewStep, D_FetchStep, D_DeletionStep, D_SavedStep, D_GoneStep DEF D!Next

LEMMA D_Idle ==
  ASSUME D_Inv, UNCHANGED documentsVars PROVE D_Inv'
<1>1. UNCHANGED <<list, search, documentsActiveFilter, currentPage, deleteTarget, deletion,
                  rows, born, removing, scanned>>
  BY DEF documentsVars
<1>2. D!IsInjective(rows)' /\ D!ToSet(rows)' = D!ToSet(rows)
  BY <1>1 DEF D_Inv, D!TypeOK, D!IsInjective, D!ToSet
<1> QED
  BY <1>1, <1>2 DEF D_Inv, D!TypeOK

-----------------------------------------------------------------------------
(* Analysis: the segments.                                                 *)

LEMMA A_KeepIs == \A l, places : A!Keep(l, places) = Keep(l, places)
BY DEF A!Keep, Keep, A!Fold, Fold

LEMMA A_FoldIs == \A step, start, n : A!Fold(step, start, n) = Fold(step, start, n)
BY DEF A!Fold, Fold

\* An analysis that the page may have to show.
Shows(annotations) ==
  /\ annotations \in Seq(A!Annotation)
  /\ \A i \in DOMAIN annotations : annotations[i].at + annotations[i].len <= Length

A_All(annotations) == [i \in DOMAIN annotations |-> A!Interval(annotations, i)]

A_Place(annotations) == [i \in DOMAIN annotations |-> annotations[i].at + 1]

LEMMA A_AllType ==
  ASSUME A!AnalysisAssumption, NEW annotations, Shows(annotations)
  PROVE  /\ A_All(annotations) \in Seq(A!ToSet(A_All(annotations)))
         /\ DOMAIN A_All(annotations) = DOMAIN annotations
         /\ A_Place(annotations) \in [DOMAIN A_All(annotations) -> Nat]
         /\ \A i \in DOMAIN annotations :
              /\ annotations[i].at \in -1..Length /\ annotations[i].len \in 0..Length
              /\ A_All(annotations)[i] = A!Interval(annotations, i)
<1>1. annotations \in Seq(A!Annotation) /\ DOMAIN annotations = 1..Len(annotations) /\ Len(annotations) \in Nat
  BY DEF Shows
<1>2. \A i \in DOMAIN annotations : annotations[i] \in A!Annotation
  BY <1>1
<1>3. \A i \in DOMAIN annotations : annotations[i].at \in -1..Length /\ annotations[i].len \in 0..Length
  BY <1>2 DEF A!Annotation
<1>4. \A i \in DOMAIN annotations : A_All(annotations)[i] = A!Interval(annotations, i)
  BY DEF A_All
<1>5. DOMAIN A_All(annotations) = DOMAIN annotations
  BY DEF A_All
<1>6. A_All(annotations) \in Seq(A!ToSet(A_All(annotations)))
  <2> DEFINE all == A_All(annotations)
  <2>1. all = [i \in DOMAIN annotations |-> A!Interval(annotations, i)]
    BY DEF A_All
  <2>2. DOMAIN all = 1..Len(annotations) /\ \A i \in DOMAIN all : all[i] \in A!ToSet(all)
    BY <1>1, <1>5 DEF A!ToSet
  <2>3. all = [i \in 1..Len(annotations) |-> all[i]]
    BY <1>1, <2>1
  <2> HIDE DEF all
  <2>4. all \in Seq(A!ToSet(all))
    BY <1>1, <2>2, <2>3
  <2> QED
    BY <2>4 DEF all
<1>7. A_Place(annotations) \in [DOMAIN annotations -> Nat]
  <2>1. \A i \in DOMAIN annotations : annotations[i].at + 1 \in Nat
    BY <1>3 DEF A!AnalysisAssumption
  <2> QED
    BY <2>1 DEF A_Place
<1> QED
  BY <1>3, <1>4, <1>5, <1>6, <1>7

\* The intervals are sorted: from[k] is the annotation of the k-th.
LEMMA A_Sorted ==
  ASSUME A!AnalysisAssumption, NEW annotations, Shows(annotations)
  PROVE  /\ A!SortedIntervals(annotations) \in Seq(A!ToSet(A_All(annotations)))
         /\ \E from : Gathers(A_All(annotations), A_Place(annotations), Length + 1,
                              A!SortedIntervals(annotations), from)
<1> DEFINE all == A_All(annotations)
           rank == A_Place(annotations)
           S == A!ToSet(all)
           step == [after \in 1..(Length + 1) |->
                      [sorted \in Seq(S) |->
                         sorted \o A!Keep(all, {i \in DOMAIN all : all[i].s = after - 1})]]
           n == Length + 1
           good == [r \in 0..n |-> {t \in Seq(S) : \E from : Gathers(all, rank, r, t, from)}]
<1>1. A!SortedIntervals(annotations) = Fold(step, <<>>, n)
  BY A_FoldIs DEF A!SortedIntervals, A_All
<1>2. n \in Nat /\ n >= 1
  BY DEF A!AnalysisAssumption
<1>3. /\ all \in Seq(S) /\ rank \in [DOMAIN all -> Nat] /\ DOMAIN all = DOMAIN annotations
      /\ \A i \in DOMAIN annotations : annotations[i].at \in -1..Length /\ all[i] = A!Interval(annotations, i)
  BY A_AllType
<1>4. \A i \in DOMAIN all : rank[i] = all[i].s + 1 /\ all[i].s \in Int
  BY <1>3 DEF A_Place, A!Interval, A!AnalysisAssumption
<1> HIDE DEF all, rank, S, n
<1>5. <<>> \in good[0]
  BY <1>2, GatherNone
<1>6. \A r \in 1..n : \A v \in good[r - 1] : step[r][v] \in good[r]
  <2> SUFFICES ASSUME NEW r \in 1..n, NEW v \in good[r - 1] PROVE step[r][v] \in good[r]
    OBVIOUS
  <2>1. r - 1 \in 0..n /\ r - 1 \in Nat /\ r \in 0..n /\ (r - 1) + 1 = r
    BY <1>2
  <2>2. v \in Seq(S) /\ \E from : Gathers(all, rank, r - 1, v, from)
    BY <2>1
  <2> DEFINE places == {i \in DOMAIN all : all[i].s = r - 1}
  <2>3. step[r][v] = v \o Keep(all, places)
    BY <2>2, A_KeepIs DEF n
  <2>4. places = {i \in DOMAIN all : rank[i] = (r - 1) + 1}
    BY <1>4, <2>1
  <2> HIDE DEF step, places
  <2>5. /\ v \o Keep(all, places) \in Seq(S)
        /\ \E to : Gathers(all, rank, (r - 1) + 1, v \o Keep(all, places), to)
    BY <1>3, <2>1, <2>2, <2>4, GatherNext
  <2> QED
    BY <2>1, <2>3, <2>5
<1> HIDE DEF step
<1>7. Fold(step, <<>>, n) \in good[n]
  <2> HIDE DEF good
  <2> QED
    BY <1>2, <1>5, <1>6, FoldKeeps
<1>8. n \in 0..n
  BY <1>2
<1>9. Fold(step, <<>>, n) \in Seq(S) /\ \E from : Gathers(all, rank, n, Fold(step, <<>>, n), from)
  BY <1>7, <1>8
<1> QED
  BY <1>1, <1>9 DEF S, all, rank, n

Segment == [s : 0..Length, e : 0..Length, idx : Nat \cup {None}]

\* The segments are the text up to cur.
Cuts(out, cur) ==
  /\ out \in Seq(Segment) /\ cur \in 0..Length
  /\ out = <<>> => cur = 0
  /\ out # <<>> => out[Len(out)].e = cur
  /\ \A k \in DOMAIN out : out[k].s = IF k = 1 THEN 0 ELSE out[k - 1].e

LEMMA CutsNone == ASSUME A!AnalysisAssumption PROVE Cuts(<<>>, 0)
<1>1. <<>> \in Seq(Segment) /\ DOMAIN <<>> = {}
  OBVIOUS
<1> QED
  BY <1>1 DEF Cuts, A!AnalysisAssumption

LEMMA CutsNext ==
  ASSUME NEW out, NEW cur, Cuts(out, cur), NEW seg \in Segment, seg.s = cur
  PROVE  Cuts(Append(out, seg), seg.e)
<1> DEFINE n == Len(out)
           more == Append(out, seg)
<1>1. /\ out \in Seq(Segment) /\ cur \in 0..Length
      /\ out = <<>> => cur = 0
      /\ out # <<>> => out[n].e = cur
      /\ \A k \in DOMAIN out : out[k].s = IF k = 1 THEN 0 ELSE out[k - 1].e
  BY DEF Cuts
<1>2. /\ n \in Nat /\ DOMAIN out = 1..n /\ (n = 0 <=> out = <<>>)
      /\ more \in Seq(Segment) /\ Len(more) = n + 1 /\ DOMAIN more = 1..(n + 1)
      /\ more[n + 1] = seg /\ \A k \in 1..n : more[k] = out[k]
  BY <1>1
<1>3. more # <<>> /\ seg.e \in 0..Length
  <2>1. seg.e \in 0..Length
    BY DEF Segment
  <2>2. Len(more) # 0 /\ Len(<<>>) = 0
    BY <1>2
  <2> QED
    BY <2>1, <2>2
<1> HIDE DEF n, more
<1>4. \A k \in 1..(n + 1) : more[k].s = IF k = 1 THEN 0 ELSE more[k - 1].e
  <2> SUFFICES ASSUME NEW k \in 1..(n + 1) PROVE more[k].s = IF k = 1 THEN 0 ELSE more[k - 1].e
    OBVIOUS
  <2>1. CASE k \in 1..n
    <3>1. more[k] = out[k] /\ (k # 1 => k - 1 \in 1..n /\ more[k - 1] = out[k - 1])
      BY <1>2, <2>1
    <3> QED
      BY <1>1, <1>2, <2>1, <3>1
  <2>2. CASE k = n + 1
    <3>1. CASE n = 0
      BY <1>1, <1>2, <2>2, <3>1
    <3>2. CASE n # 0
      <4>1. k # 1 /\ k - 1 = n /\ more[n] = out[n] /\ out[n].e = cur
        BY <1>1, <1>2, <2>2, <3>2
      <4> QED
        BY <1>2, <2>2, <4>1
    <3> QED
      BY <3>1, <3>2
  <2> QED
    BY <1>2, <2>1, <2>2
<1>5. more[Len(more)].e = seg.e
  BY <1>2
<1> QED
  BY <1>2, <1>3, <1>4, <1>5 DEF Cuts, more

Marked(out, i) == \E j \in DOMAIN out : out[j].idx = i

\* After k intervals: each is marked or begins in one that is.
CutInv(ivs, k, out, cur) ==
  /\ Cuts(out, cur)
  /\ \A j \in DOMAIN out : out[j].idx = None \/ \E l \in 1..k : out[j].idx = ivs[l].i
  /\ \A l \in 1..k : \E m \in 1..k : Marked(out, ivs[m].i) /\ (m = l \/ (ivs[m].s <= ivs[l].s /\ ivs[l].s < ivs[m].e))
  /\ cur > 0 => \E m \in 1..k : Marked(out, ivs[m].i) /\ ivs[m].e = cur

\* Intervals in their order.
IvsOK(ivs) ==
  /\ ivs \in Seq([s : 0..Length, e : 0..Length, i : Nat])
  /\ \A k \in DOMAIN ivs : ivs[k].s <= ivs[k].e
  /\ \A k, l \in DOMAIN ivs : k < l => ivs[k].s <= ivs[l].s

LEMMA CutStep ==
  ASSUME A!AnalysisAssumption, NEW ivs, IvsOK(ivs), NEW k \in DOMAIN ivs,
         NEW acc \in A!Cut, CutInv(ivs, k - 1, acc.out, acc.cur)
  PROVE  /\ A!AddInterval(acc, ivs[k]) \in A!Cut
         /\ CutInv(ivs, k, A!AddInterval(acc, ivs[k]).out, A!AddInterval(acc, ivs[k]).cur)
<1> DEFINE iv == ivs[k]
           out == acc.out
           cur == acc.cur
           new == A!AddInterval(acc, iv)
<1>1. /\ k \in Nat /\ 1..k = 1..(k - 1) \cup {k} /\ k \in 1..k /\ k \notin 1..(k - 1)
      /\ \A l \in 1..k : l \in DOMAIN ivs
  BY DEF IvsOK
<1>2. /\ iv.s \in 0..Length /\ iv.e \in 0..Length /\ iv.i \in Nat /\ iv.s <= iv.e
      /\ \A l \in 1..k : ivs[l].s \in 0..Length /\ ivs[l].e \in 0..Length /\ ivs[l].s <= iv.s
  <2> DEFINE Iv == [s : 0..Length, e : 0..Length, i : Nat]
  <2>0. ivs \in Seq(Iv)
    BY DEF IvsOK
  <2>1. \A l \in DOMAIN ivs : ivs[l] \in [s : 0..Length, e : 0..Length, i : Nat]
    <3> HIDE DEF Iv
    <3>1. \A l \in DOMAIN ivs : ivs[l] \in Iv
      BY <2>0
    <3> QED
      BY <3>1 DEF Iv
  <2>2. \A l \in DOMAIN ivs : ivs[l].s \in 0..Length /\ ivs[l].e \in 0..Length /\ ivs[l].i \in Nat
    BY <2>1
  <2>3. \A l \in 1..k : ivs[l].s <= iv.s
    <3> SUFFICES ASSUME NEW l \in 1..k PROVE ivs[l].s <= iv.s
      OBVIOUS
    <3>1. CASE l = k
      BY <2>2, <3>1
    <3>2. CASE l < k
      BY <1>1, <3>2 DEF IvsOK
    <3> QED
      BY <1>1, <3>1, <3>2
  <2> QED
    BY <1>1, <2>2, <2>3 DEF IvsOK
<1>3. /\ Cuts(out, cur)
      /\ \A j \in DOMAIN out : out[j].idx = None \/ \E l \in 1..(k - 1) : out[j].idx = ivs[l].i
      /\ \A l \in 1..(k - 1) : \E m \in 1..(k - 1) :
           Marked(out, ivs[m].i) /\ (m = l \/ (ivs[m].s <= ivs[l].s /\ ivs[l].s < ivs[m].e))
      /\ cur > 0 => \E m \in 1..(k - 1) : Marked(out, ivs[m].i) /\ ivs[m].e = cur
  <2> DEFINE K == k - 1
  <2>1. CutInv(ivs, K, out, cur)
    OBVIOUS
  <2> HIDE DEF out, cur, new, K
  <2>2. /\ Cuts(out, cur)
        /\ \A j \in DOMAIN out : out[j].idx = None \/ \E l \in 1..K : out[j].idx = ivs[l].i
        /\ \A l \in 1..K : \E m \in 1..K :
             Marked(out, ivs[m].i) /\ (m = l \/ (ivs[m].s <= ivs[l].s /\ ivs[l].s < ivs[m].e))
        /\ cur > 0 => \E m \in 1..K : Marked(out, ivs[m].i) /\ ivs[m].e = cur
    BY <2>1 DEF CutInv
  <2> QED
    BY <2>2 DEF K
<1>4. out \in Seq(Segment) /\ cur \in 0..Length /\ Length \in Nat
  BY DEF A!Cut, Segment, A!AnalysisAssumption
<1>5. CASE iv.s < cur
  <2>1. new = acc
    BY <1>5 DEF A!AddInterval
  <2>2. PICK m \in 1..(k - 1) : Marked(out, ivs[m].i) /\ ivs[m].e = cur
    <3> HIDE DEF new, out, cur
    <3>1. cur > 0
      BY <1>2, <1>4, <1>5
    <3> QED
      BY <1>3, <3>1
  <2>3. m \in 1..k /\ ivs[m].s <= iv.s /\ iv.s < ivs[m].e
    BY <1>1, <1>2, <1>5, <2>2
  <2> HIDE DEF out, cur, new
  <2>4. /\ \A j \in DOMAIN out : out[j].idx = None \/ \E l \in 1..k : out[j].idx = ivs[l].i
        /\ cur > 0 => \E p \in 1..k : Marked(out, ivs[p].i) /\ ivs[p].e = cur
    BY <1>1, <1>3
  <2>5. \A l \in 1..k : \E p \in 1..k : Marked(out, ivs[p].i) /\ (p = l \/ (ivs[p].s <= ivs[l].s /\ ivs[l].s < ivs[p].e))
    BY <1>1, <1>3, <2>2, <2>3
  <2>6. CutInv(ivs, k, out, cur)
    <3>1. Cuts(out, cur)
      BY <1>3
    <3> QED
      BY <2>4, <2>5, <3>1 DEF CutInv
  <2> QED
    BY <2>1, <2>6 DEF new, out, cur
<1>6. CASE ~(iv.s < cur)
  <2> DEFINE seg == [s |-> iv.s, e |-> iv.e, idx |-> iv.i]
             mid == IF iv.s > cur THEN Append(out, A!Plain(cur, iv.s)) ELSE out
             more == Append(mid, seg)
  <2>1. seg \in Segment /\ seg.s = iv.s /\ seg.e = iv.e /\ seg.idx = iv.i
    BY <1>2 DEF Segment
  <2>2. A!Plain(cur, iv.s) \in Segment /\ A!Plain(cur, iv.s).s = cur /\ A!Plain(cur, iv.s).e = iv.s
        /\ A!Plain(cur, iv.s).idx = None
    BY <1>2, <1>4 DEF Segment, A!Plain
  <2>3. mid \in Seq(Segment) /\ Cuts(mid, iv.s)
    <3>1. CASE iv.s > cur
      <4>1. Cuts(Append(out, A!Plain(cur, iv.s)), A!Plain(cur, iv.s).e)
        BY <1>3, <2>2, CutsNext
      <4> QED
        BY <1>4, <2>2, <3>1, <4>1
    <3>2. CASE ~(iv.s > cur)
      <4>1. iv.s = cur
        BY <1>2, <1>4, <1>6, <3>2
      <4> QED
        BY <1>3, <1>4, <3>2, <4>1
    <3> QED
      BY <3>1, <3>2
  <2>4. /\ Len(out) \in Nat /\ DOMAIN out = 1..Len(out) /\ Len(mid) \in Nat /\ DOMAIN mid = 1..Len(mid)
        /\ DOMAIN out \subseteq DOMAIN mid
        /\ \A j \in DOMAIN mid : (j \in DOMAIN out /\ mid[j] = out[j]) \/ mid[j].idx = None
        /\ \A j \in DOMAIN out : mid[j] = out[j]
    <3>1. CASE iv.s > cur
      BY <1>4, <2>2, <3>1
    <3>2. CASE ~(iv.s > cur)
      BY <1>4, <3>2
    <3> QED
      BY <3>1, <3>2
  <2>5. new = [cur |-> iv.e, out |-> more]
    <3>1. A!AddInterval(acc, iv) =
            [cur |-> iv.e,
             out |-> out \o (IF iv.s > cur THEN <<A!Plain(cur, iv.s)>> ELSE <<>>) \o <<seg>>]
      BY <1>6 DEF A!AddInterval
    <3>2. out \o (IF iv.s > cur THEN <<A!Plain(cur, iv.s)>> ELSE <<>>) = mid
      <4>1. out \o <<>> = out
        BY <1>4, ConcatEmptySeq
      <4>2. out \o <<A!Plain(cur, iv.s)>> = Append(out, A!Plain(cur, iv.s))
        BY <1>4, <2>2, AppendIsConcat
      <4> QED
        BY <4>1, <4>2
    <3>3. mid \o <<seg>> = more
      BY <2>1, <2>3, AppendIsConcat
    <3> QED
      BY <3>1, <3>2, <3>3
  <2> HIDE DEF out, cur, new, mid, seg
  <2>6. /\ more \in Seq(Segment) /\ Len(more) = Len(mid) + 1 /\ DOMAIN more = 1..(Len(mid) + 1)
        /\ more[Len(mid) + 1] = seg /\ \A j \in 1..Len(mid) : more[j] = mid[j]
    BY <2>1, <2>3
  <2>7. Cuts(more, iv.e)
    BY <2>1, <2>3, CutsNext
  <2> HIDE DEF more
  <2>8. \A j \in DOMAIN more : more[j] = seg \/ (j \in DOMAIN out /\ more[j] = out[j]) \/ more[j].idx = None
    BY <2>4, <2>6
  <2>9. \A j \in DOMAIN out : j \in DOMAIN more /\ more[j] = out[j]
    BY <2>4, <2>6
  <2>10. \A i : Marked(out, i) => Marked(more, i)
    BY <2>9 DEF Marked
  <2>11. Marked(more, iv.i)
    BY <2>1, <2>4, <2>6 DEF Marked
  <2>12. \A j \in DOMAIN more : more[j].idx = None \/ \E l \in 1..k : more[j].idx = ivs[l].i
    <3> SUFFICES ASSUME NEW j \in DOMAIN more
                 PROVE  more[j].idx = None \/ \E l \in 1..k : more[j].idx = ivs[l].i
      OBVIOUS
    <3>1. CASE more[j] = seg
      BY <1>1, <2>1, <3>1
    <3>2. CASE j \in DOMAIN out /\ more[j] = out[j]
      <4>1. out[j].idx = None \/ \E l \in 1..(k - 1) : out[j].idx = ivs[l].i
        BY <1>3, <3>2
      <4> QED
        BY <1>1, <3>2, <4>1
    <3> QED
      BY <2>8, <3>1, <3>2
  <2>13. \A l \in 1..k : \E m \in 1..k : Marked(more, ivs[m].i) /\ (m = l \/ (ivs[m].s <= ivs[l].s /\ ivs[l].s < ivs[m].e))
    <3> SUFFICES ASSUME NEW l \in 1..k
                 PROVE  \E m \in 1..k : Marked(more, ivs[m].i) /\ (m = l \/ (ivs[m].s <= ivs[l].s /\ ivs[l].s < ivs[m].e))
      OBVIOUS
    <3>1. CASE l = k
      BY <1>1, <2>11, <3>1
    <3>2. CASE l \in 1..(k - 1)
      <4>1. PICK m \in 1..(k - 1) : Marked(out, ivs[m].i) /\ (m = l \/ (ivs[m].s <= ivs[l].s /\ ivs[l].s < ivs[m].e))
        BY <1>3, <3>2
      <4> QED
        BY <1>1, <2>10, <4>1
    <3> QED
      BY <1>1, <3>1, <3>2
  <2>14. iv.e > 0 => \E m \in 1..k : Marked(more, ivs[m].i) /\ ivs[m].e = iv.e
    BY <1>1, <2>11
  <2>15. new.cur = iv.e /\ new.out = more /\ new \in A!Cut
    BY <1>2, <2>5, <2>6 DEF A!Cut, Segment
  <2>16. CutInv(ivs, k, more, iv.e)
    BY <2>7, <2>12, <2>13, <2>14 DEF CutInv
  <2> QED
    BY <2>15, <2>16 DEF new
<1> QED
  BY <1>5, <1>6

\* The intervals in their order are those of the annotations that are found.
LEMMA A_Ivs ==
  ASSUME A!AnalysisAssumption, NEW annotations, Shows(annotations)
  PROVE  LET ivs == A!SortedIntervals(annotations)
         IN /\ IvsOK(ivs)
            /\ \A k \in DOMAIN ivs : /\ ivs[k].i \in DOMAIN annotations
                                     /\ ivs[k] = A!Interval(annotations, ivs[k].i)
            /\ \A i \in DOMAIN annotations :
                 annotations[i].at # -1 => \E k \in DOMAIN ivs : ivs[k].i = i
<1> DEFINE all == A_All(annotations)
           rank == A_Place(annotations)
           ivs == A!SortedIntervals(annotations)
           n == Len(ivs)
<1>1. PICK from : Gathers(all, rank, Length + 1, ivs, from)
  BY A_Sorted
<1>2. ivs \in Seq(A!ToSet(all))
  BY A_Sorted
<1>3. /\ DOMAIN all = DOMAIN annotations
      /\ \A i \in DOMAIN annotations :
           /\ annotations[i].at \in -1..Length /\ annotations[i].len \in 0..Length
           /\ all[i] = A!Interval(annotations, i)
      /\ Length \in Nat
  BY A_AllType DEF A!AnalysisAssumption
<1>4. DOMAIN annotations \subseteq Nat
  BY DEF Shows
<1>5. \A i \in DOMAIN annotations : rank[i] = annotations[i].at + 1 /\ annotations[i].at + annotations[i].len <= Length
  BY DEF A_Place, Shows
<1> HIDE DEF all, rank, ivs
<1>6. n \in Nat /\ DOMAIN ivs = 1..n
  BY <1>2
<1>7. /\ from \in [1..n -> DOMAIN annotations]
      /\ \A k \in 1..n : ivs[k] = all[from[k]] /\ rank[from[k]] \in 1..(Length + 1)
      /\ \A k, l \in 1..n : k < l => rank[from[k]] <= rank[from[l]]
      /\ \A i \in DOMAIN annotations : rank[i] \in 1..(Length + 1) => \E k \in 1..n : from[k] = i
  BY <1>1, <1>3 DEF Gathers
<1> HIDE DEF n
<1>8. \A k \in 1..n : /\ ivs[k] = A!Interval(annotations, from[k]) /\ from[k] \in DOMAIN annotations
                       /\ ivs[k].i = from[k] /\ ivs[k].s = annotations[from[k]].at
                       /\ ivs[k].e = annotations[from[k]].at + annotations[from[k]].len
  BY <1>3, <1>7 DEF A!Interval
<1>9. ASSUME NEW k \in 1..n
      PROVE  /\ ivs[k] \in [s : 0..Length, e : 0..Length, i : Nat] /\ ivs[k].s <= ivs[k].e
             /\ rank[from[k]] = ivs[k].s + 1 /\ ivs[k].s \in 0..Length
  <2> DEFINE at == annotations[from[k]].at
             len == annotations[from[k]].len
  <2>1. /\ at \in -1..Length /\ len \in 0..Length /\ at + len <= Length /\ rank[from[k]] = at + 1
        /\ rank[from[k]] \in 1..(Length + 1) /\ from[k] \in Nat
    BY <1>3, <1>4, <1>5, <1>7, <1>8
  <2>2. ivs[k] = [s |-> at, e |-> at + len, i |-> from[k]]
    BY <1>8 DEF A!Interval
  <2> HIDE DEF at, len
  <2>3. at \in 0..Length /\ at + len \in 0..Length /\ at <= at + len
    BY <1>3, <2>1
  <2> QED
    BY <2>1, <2>2, <2>3
<1>10. IvsOK(ivs)
  <2>1. ivs \in Seq([s : 0..Length, e : 0..Length, i : Nat])
    <3> DEFINE Iv == [s : 0..Length, e : 0..Length, i : Nat]
    <3>1. \A k \in 1..n : ivs[k] \in Iv
      BY <1>9
    <3>2. ivs = [k \in 1..n |-> ivs[k]]
      BY <1>2, <1>6
    <3> HIDE DEF Iv
    <3>3. ivs \in Seq(Iv)
      BY <1>6, <3>1, <3>2
    <3> QED
      BY <3>3 DEF Iv
  <2>2. \A k, l \in 1..n : k < l => ivs[k].s <= ivs[l].s
    <3> SUFFICES ASSUME NEW k \in 1..n, NEW l \in 1..n, k < l PROVE ivs[k].s <= ivs[l].s
      OBVIOUS
    <3>1. rank[from[k]] <= rank[from[l]]
      BY <1>7
    <3> QED
      BY <1>3, <1>9, <3>1
  <2> QED
    BY <1>6, <1>9, <2>1, <2>2 DEF IvsOK
<1>11. \A k \in DOMAIN ivs : ivs[k].i \in DOMAIN annotations /\ ivs[k] = A!Interval(annotations, ivs[k].i)
  BY <1>6, <1>8
<1>12. \A i \in DOMAIN annotations : annotations[i].at # -1 => \E k \in DOMAIN ivs : ivs[k].i = i
  <2> SUFFICES ASSUME NEW i \in DOMAIN annotations, annotations[i].at # -1
               PROVE  \E k \in DOMAIN ivs : ivs[k].i = i
    OBVIOUS
  <2>1. rank[i] \in 1..(Length + 1)
    BY <1>3, <1>5
  <2>2. PICK k \in 1..n : from[k] = i
    BY <1>7, <2>1
  <2> QED
    BY <1>6, <1>8, <2>2
<1> QED
  BY <1>10, <1>11, <1>12 DEF ivs

LEMMA A_CutAll ==
  ASSUME A!AnalysisAssumption, NEW ivs, IvsOK(ivs)
  PROVE  LET cut == A!Fold([k \in DOMAIN ivs |-> [acc \in A!Cut |-> A!AddInterval(acc, ivs[k])]],
                           [cur |-> 0, out |-> <<>>], Len(ivs))
         IN CutInv(ivs, Len(ivs), cut.out, cut.cur)
<1> DEFINE step == [k \in DOMAIN ivs |-> [acc \in A!Cut |-> A!AddInterval(acc, ivs[k])]]
           start == [cur |-> 0, out |-> <<>>]
           n == Len(ivs)
           good == [k \in 0..n |-> {acc \in A!Cut : CutInv(ivs, k, acc.out, acc.cur)}]
<1>1. n \in Nat /\ DOMAIN ivs = 1..n
  BY DEF IvsOK
<1>2. start \in good[0]
  <2>1. start \in A!Cut
    <3>1. 0 \in 0..Length
      BY DEF A!AnalysisAssumption
    <3> QED
      BY <3>1 DEF A!Cut
  <2>2. CutInv(ivs, 0, <<>>, 0)
    <3>1. Cuts(<<>>, 0) /\ DOMAIN <<>> = {} /\ 1..0 = {} /\ ~(0 > 0)
      BY CutsNone
    <3> QED
      BY <3>1 DEF CutInv
  <2> QED
    BY <1>1, <2>1, <2>2
<1>3. \A k \in 1..n : \A acc \in good[k - 1] : step[k][acc] \in good[k]
  <2> SUFFICES ASSUME NEW k \in 1..n, NEW acc \in good[k - 1] PROVE step[k][acc] \in good[k]
    OBVIOUS
  <2>1. k - 1 \in 0..n /\ k \in 0..n /\ k \in DOMAIN ivs
    BY <1>1
  <2>2. acc \in A!Cut /\ CutInv(ivs, k - 1, acc.out, acc.cur)
    BY <2>1
  <2>3. step[k][acc] = A!AddInterval(acc, ivs[k])
    BY <2>1, <2>2
  <2>4. /\ A!AddInterval(acc, ivs[k]) \in A!Cut
        /\ CutInv(ivs, k, A!AddInterval(acc, ivs[k]).out, A!AddInterval(acc, ivs[k]).cur)
    BY <2>1, <2>2, CutStep
  <2> QED
    BY <2>1, <2>3, <2>4
<1> HIDE DEF step, start, n
<1>4. Fold(step, start, n) \in good[n]
  <2> HIDE DEF good
  <2> QED
    BY <1>1, <1>2, <1>3, FoldKeeps
<1>5. n \in 0..n
  BY <1>1
<1>6. CutInv(ivs, n, Fold(step, start, n).out, Fold(step, start, n).cur)
  BY <1>4, <1>5
<1> QED
  BY <1>6, A_FoldIs DEF step, start, n

\* The segments are the text, and every found annotation is marked or begins
\* in one that is.
LEMMA A_Segments ==
  ASSUME A!AnalysisAssumption, NEW annotations, Shows(annotations)
  PROVE  LET segments == A!BuildSegments(annotations)
         IN /\ Cuts(segments, Length)
            /\ \A j \in DOMAIN segments :
                 segments[j].idx = None \/ segments[j].idx \in DOMAIN annotations
            /\ \A i \in DOMAIN annotations : annotations[i].at # -1 =>
                 \E m \in DOMAIN annotations :
                   /\ Marked(segments, m)
                   /\ \/ m = i
                      \/ /\ annotations[m].at <= annotations[i].at
                         /\ annotations[i].at < annotations[m].at + annotations[m].len
<1> DEFINE ivs == A!SortedIntervals(annotations)
           n == Len(ivs)
           cut == A!Fold([k \in DOMAIN ivs |-> [acc \in A!Cut |-> A!AddInterval(acc, ivs[k])]],
                         [cur |-> 0, out |-> <<>>], Len(ivs))
           out == cut.out
           cur == cut.cur
           segments == A!BuildSegments(annotations)
           last == A!Plain(cur, Length)
<1>1. /\ IvsOK(ivs)
      /\ \A k \in DOMAIN ivs : ivs[k].i \in DOMAIN annotations /\ ivs[k] = A!Interval(annotations, ivs[k].i)
      /\ \A i \in DOMAIN annotations : annotations[i].at # -1 => \E k \in DOMAIN ivs : ivs[k].i = i
  BY A_Ivs
<1>2. segments = out \o (IF cur < Length THEN <<last>> ELSE <<>>)
  BY DEF A!BuildSegments
<1> HIDE DEF ivs
<1>3. CutInv(ivs, n, out, cur)
  BY <1>1, A_CutAll
<1> HIDE DEF cut, segments
<1>4. n \in Nat /\ DOMAIN ivs = 1..n /\ Length \in Nat
  BY <1>1 DEF IvsOK, A!AnalysisAssumption
<1> HIDE DEF n, out, cur
<1>5. out \in Seq(Segment) /\ cur \in 0..Length /\ Cuts(out, cur)
  BY <1>3 DEF CutInv, Cuts
<1>6. last \in Segment /\ last.s = cur /\ last.e = Length /\ last.idx = None
  BY <1>4, <1>5 DEF A!Plain, Segment
<1> HIDE DEF last
<1>7. segments = IF cur < Length THEN Append(out, last) ELSE out
  BY <1>2, <1>5, <1>6, ConcatEmptySeq, AppendIsConcat
<1>8. Cuts(segments, Length)
  <2>1. CASE cur < Length
    BY <1>5, <1>6, <1>7, <2>1, CutsNext
  <2>2. CASE ~(cur < Length)
    <3>1. cur = Length
      BY <1>4, <1>5, <2>2
    <3> QED
      BY <1>5, <1>7, <2>2, <3>1
  <2> QED
    BY <2>1, <2>2
<1>9. /\ \A j \in DOMAIN out : j \in DOMAIN segments /\ segments[j] = out[j]
      /\ \A j \in DOMAIN segments : (j \in DOMAIN out /\ segments[j] = out[j]) \/ segments[j].idx = None
  <2>1. CASE cur < Length
    BY <1>5, <1>6, <1>7, <2>1
  <2>2. CASE ~(cur < Length)
    BY <1>7, <2>2
  <2> QED
    BY <2>1, <2>2
<1>10. \A i : Marked(out, i) => Marked(segments, i)
  BY <1>9 DEF Marked
<1>11. \A j \in DOMAIN segments : segments[j].idx = None \/ segments[j].idx \in DOMAIN annotations
  <2>1. \A j \in DOMAIN out : out[j].idx = None \/ \E l \in 1..n : out[j].idx = ivs[l].i
    BY <1>3 DEF CutInv
  <2> QED
    BY <1>1, <1>4, <1>9, <2>1
<1>12. ASSUME NEW i \in DOMAIN annotations, annotations[i].at # -1
       PROVE  \E m \in DOMAIN annotations :
                /\ Marked(segments, m)
                /\ \/ m = i
                   \/ /\ annotations[m].at <= annotations[i].at
                      /\ annotations[i].at < annotations[m].at + annotations[m].len
  <2>1. PICK l \in 1..n : ivs[l].i = i
    BY <1>1, <1>4, <1>12
  <2>2. PICK k \in 1..n : Marked(out, ivs[k].i) /\ (k = l \/ (ivs[k].s <= ivs[l].s /\ ivs[l].s < ivs[k].e))
    BY <1>3 DEF CutInv
  <2>3. /\ ivs[k].i \in DOMAIN annotations /\ ivs[l].s = annotations[i].at
        /\ ivs[k].s = annotations[ivs[k].i].at
        /\ ivs[k].e = annotations[ivs[k].i].at + annotations[ivs[k].i].len
    BY <1>1, <1>4, <2>1 DEF A!Interval
  <2> QED
    BY <1>10, <2>1, <2>2, <2>3
<1> QED
  BY <1>8, <1>11, <1>12 DEF segments

-----------------------------------------------------------------------------
(* Analysis: the brief.                                                    *)

\* After k items: nothing twice, nothing blank, and what is missing has found
\* the list full of what comes before it.
UniqueInv(items, k, out) ==
  /\ out \in Seq(STRING) /\ Len(out) <= MaxItems
  /\ \A i, j \in DOMAIN out : out[i] = out[j] => i = j
  /\ \A j \in DOMAIN out : \E l \in 1..k : items[l] = out[j] /\ items[l] # A!Blank
  /\ \A l \in 1..k :
       items[l] = A!Blank \/ items[l] \in A!ToSet(out)
         \/ (Len(out) = MaxItems
             /\ \A j \in DOMAIN out : \E p \in 1..l : items[p] = out[j] /\ items[p] # A!Blank)

LEMMA UniqueSkips ==
  ASSUME NEW items, NEW k \in Nat \ {0}, NEW out, UniqueInv(items, k - 1, out), MaxItems \in Nat,
         items[k] = A!Blank \/ items[k] \in A!ToSet(out) \/ Len(out) >= MaxItems
  PROVE  UniqueInv(items, k, out)
<1>1. 1..k = 1..(k - 1) \cup {k} /\ k \in 1..k
  OBVIOUS
<1>2. out \in Seq(STRING) /\ Len(out) \in Nat /\ Len(out) <= MaxItems
  BY DEF UniqueInv
<1>3. \A j \in DOMAIN out : \E l \in 1..k : items[l] = out[j] /\ items[l] # A!Blank
  BY <1>1 DEF UniqueInv
<1>4. ASSUME NEW l \in 1..k
      PROVE  items[l] = A!Blank \/ items[l] \in A!ToSet(out)
               \/ (Len(out) = MaxItems
                   /\ \A j \in DOMAIN out : \E p \in 1..l : items[p] = out[j] /\ items[p] # A!Blank)
  <2>1. CASE l \in 1..(k - 1)
    BY <2>1 DEF UniqueInv
  <2>2. CASE l = k
    BY <1>2, <1>3, <2>2
  <2> QED
    BY <1>1, <2>1, <2>2
<1> QED
  BY <1>2, <1>3, <1>4 DEF UniqueInv

LEMMA UniqueAdds ==
  ASSUME NEW items, NEW k \in Nat \ {0}, NEW out, UniqueInv(items, k - 1, out), MaxItems \in Nat,
         items[k] \in STRING, items[k] # A!Blank, items[k] \notin A!ToSet(out), ~(Len(out) >= MaxItems)
  PROVE  UniqueInv(items, k, Append(out, items[k]))
<1> DEFINE n == Len(out)
           item == items[k]
           more == Append(out, item)
<1>1. 1..k = 1..(k - 1) \cup {k} /\ k \in 1..k
  OBVIOUS
<1>2. /\ out \in Seq(STRING) /\ n \in Nat /\ DOMAIN out = 1..n
      /\ \A i, j \in 1..n : out[i] = out[j] => i = j
      /\ \A j \in 1..n : \E l \in 1..(k - 1) : items[l] = out[j] /\ items[l] # A!Blank
      /\ \A l \in 1..(k - 1) : items[l] = A!Blank \/ items[l] \in A!ToSet(out)
  BY DEF UniqueInv
<1>3. /\ more \in Seq(STRING) /\ Len(more) = n + 1 /\ DOMAIN more = 1..(n + 1)
      /\ more[n + 1] = item /\ \A j \in 1..n : more[j] = out[j]
  BY <1>2
<1>4. item \notin A!ToSet(out) /\ item # A!Blank /\ ~(n >= MaxItems) /\ \A j \in 1..n : out[j] # item
  BY <1>2 DEF A!ToSet
<1> HIDE DEF n, item, more
<1>5. \A i, j \in 1..(n + 1) : more[i] = more[j] => i = j
  BY <1>2, <1>3, <1>4
<1>6. \A j \in 1..(n + 1) : \E l \in 1..k : items[l] = more[j] /\ items[l] # A!Blank
  <2> SUFFICES ASSUME NEW j \in 1..(n + 1) PROVE \E l \in 1..k : items[l] = more[j] /\ items[l] # A!Blank
    OBVIOUS
  <2>1. CASE j \in 1..n
    BY <1>1, <1>2, <1>3, <2>1
  <2>2. CASE j = n + 1
    BY <1>1, <1>3, <1>4, <2>2 DEF item
  <2> QED
    BY <1>2, <2>1, <2>2
<1>7. \A l \in 1..k : items[l] = A!Blank \/ items[l] \in A!ToSet(more)
  <2>1. \A x : x \in A!ToSet(out) => x \in A!ToSet(more)
    BY <1>2, <1>3 DEF A!ToSet
  <2>2. items[k] \in A!ToSet(more)
    BY <1>2, <1>3 DEF A!ToSet, item
  <2> QED
    BY <1>1, <1>2, <2>1, <2>2
<1>8. n + 1 <= MaxItems
  BY <1>2, <1>4
<1>9. UniqueInv(items, k, more)
  BY <1>3, <1>5, <1>6, <1>7, <1>8 DEF UniqueInv
<1> QED
  BY <1>9 DEF more, item

LEMMA A_Unique ==
  ASSUME A!AnalysisAssumption, NEW items \in Seq(STRING)
  PROVE  UniqueInv(items, Len(items), A!UniqueBriefItems(items))
<1> DEFINE step == [k \in DOMAIN items |->
                      [out \in Seq(STRING) |->
                         IF items[k] = A!Blank \/ items[k] \in A!ToSet(out) \/ Len(out) >= MaxItems THEN out
                         ELSE Append(out, items[k])]]
           n == Len(items)
           good == [k \in 0..n |-> {out \in Seq(STRING) : UniqueInv(items, k, out)}]
<1>1. n \in Nat /\ DOMAIN items = 1..n /\ MaxItems \in Nat /\ \A k \in 1..n : items[k] \in STRING
  BY DEF A!AnalysisAssumption
<1>2. A!UniqueBriefItems(items) = Fold(step, <<>>, n)
  BY A_FoldIs DEF A!UniqueBriefItems
<1>3. <<>> \in good[0]
  <2>1. <<>> \in Seq(STRING) /\ Len(<<>>) = 0 /\ DOMAIN <<>> = {} /\ 1..0 = {} /\ 0 <= MaxItems
    BY <1>1
  <2>2. UniqueInv(items, 0, <<>>)
    BY <2>1 DEF UniqueInv
  <2> QED
    BY <1>1, <2>1, <2>2
<1>4. \A k \in 1..n : \A out \in good[k - 1] : step[k][out] \in good[k]
  <2> SUFFICES ASSUME NEW k \in 1..n, NEW out \in good[k - 1] PROVE step[k][out] \in good[k]
    OBVIOUS
  <2>1. k - 1 \in 0..n /\ k \in 0..n /\ k \in DOMAIN items /\ k \in Nat \ {0} /\ items[k] \in STRING
    BY <1>1
  <2>2. out \in Seq(STRING) /\ UniqueInv(items, k - 1, out)
    BY <2>1
  <2>3. CASE items[k] = A!Blank \/ items[k] \in A!ToSet(out) \/ Len(out) >= MaxItems
    <3>1. step[k][out] = out
      BY <2>1, <2>2, <2>3
    <3>2. UniqueInv(items, k, out)
      BY <1>1, <2>1, <2>2, <2>3, UniqueSkips
    <3> QED
      BY <2>1, <2>2, <3>1, <3>2
  <2>4. CASE ~(items[k] = A!Blank \/ items[k] \in A!ToSet(out) \/ Len(out) >= MaxItems)
    <3>1. step[k][out] = Append(out, items[k])
      BY <2>1, <2>2, <2>4
    <3>2. UniqueInv(items, k, Append(out, items[k]))
      BY <1>1, <2>1, <2>2, <2>4, UniqueAdds
    <3>3. Append(out, items[k]) \in Seq(STRING)
      BY <2>1, <2>2
    <3> QED
      BY <2>1, <3>1, <3>2, <3>3
  <2> QED
    BY <2>3, <2>4
<1> HIDE DEF step, n
<1>5. Fold(step, <<>>, n) \in good[n]
  <2> HIDE DEF good
  <2> QED
    BY <1>1, <1>3, <1>4, FoldKeeps
<1>6. n \in 0..n
  BY <1>1
<1>7. UniqueInv(items, n, Fold(step, <<>>, n))
  BY <1>5, <1>6
<1> QED
  BY <1>2, <1>7 DEF n

A_Ranks(annotations) == [i \in DOMAIN annotations |-> A!Rank(annotations[i])]

LEMMA A_RankType ==
  ASSUME A!AnalysisAssumption, NEW annotations, Shows(annotations)
  PROVE  /\ A_Ranks(annotations) \in [DOMAIN annotations -> Nat]
         /\ \A i \in DOMAIN annotations : /\ A_Ranks(annotations)[i] = A!Rank(annotations[i])
                                          /\ A!Rank(annotations[i]) \in 1..3
                                          /\ annotations[i].comment \in STRING
<1>1. ASSUME NEW note \in A!Annotation PROVE A!Rank(note) \in 1..3 /\ note.comment \in STRING
  <2>1. DOMAIN A!Severity = 1..3
    BY DEF A!Severity
  <2>2. \E i \in DOMAIN A!Severity : A!Severity[i] = note.severity
    BY <1>1 DEF A!Annotation, A!ToSet
  <2>3. A!Rank(note) \in DOMAIN A!Severity
    BY <2>2 DEF A!Rank
  <2> QED
    BY <1>1, <2>1, <2>3 DEF A!Annotation
<1>2. \A i \in DOMAIN annotations : annotations[i] \in A!Annotation
  BY DEF Shows
<1> QED
  BY <1>1, <1>2 DEF A_Ranks

LEMMA A_BySeverity ==
  ASSUME A!AnalysisAssumption, NEW annotations, Shows(annotations)
  PROVE  /\ A!BySeverity(annotations) \in Seq(A!Annotation)
         /\ \E from : Gathers(annotations, A_Ranks(annotations), 3, A!BySeverity(annotations), from)
<1> DEFINE S == A!Annotation
           rank == A_Ranks(annotations)
           of(r) == {i \in DOMAIN annotations : A!Rank(annotations[i]) = r}
           one == <<>> \o Keep(annotations, of(1))
           two == one \o Keep(annotations, of(2))
           three == two \o Keep(annotations, of(3))
<1>1. annotations \in Seq(S) /\ rank \in [DOMAIN annotations -> Nat]
  BY A_RankType DEF Shows
<1>2. /\ of(1) = {i \in DOMAIN annotations : rank[i] = 0 + 1}
      /\ of(2) = {i \in DOMAIN annotations : rank[i] = 1 + 1}
      /\ of(3) = {i \in DOMAIN annotations : rank[i] = 2 + 1}
  BY A_RankType
<1> DEFINE of1 == of(1)
           of2 == of(2)
           of3 == of(3)
<1>3. A!BySeverity(annotations) = three
  <2>1. \A r : A!OfRank(annotations, r) = Keep(annotations, of(r))
    BY A_KeepIs DEF A!OfRank
  <2>2. Keep(annotations, of(1)) \in Seq(S)
    BY <1>1, KeepPicks
  <2>3. one = Keep(annotations, of(1))
    BY <2>2, ConcatEmptySeq
  <2> QED
    BY <2>1, <2>3 DEF A!BySeverity
<1>4. <<>> \in Seq(S) /\ \E from : Gathers(annotations, rank, 0, <<>>, from)
  BY GatherNone
<1> HIDE DEF rank, S, of
<1>5. one \in Seq(S) /\ \E from : Gathers(annotations, rank, 0 + 1, one, from)
  BY <1>1, <1>2, <1>4, GatherNext
<1> HIDE DEF one
<1>6. two \in Seq(S) /\ \E from : Gathers(annotations, rank, 1 + 1, two, from)
  BY <1>1, <1>2, <1>5, GatherNext
<1> HIDE DEF two
<1>7. three \in Seq(S) /\ \E from : Gathers(annotations, rank, 2 + 1, three, from)
  BY <1>1, <1>2, <1>6, GatherNext
<1> HIDE DEF three
<1> QED
  BY <1>3, <1>7 DEF S, rank

\* The comments of the logic and clarity notes, the graver first: of[k] is the
\* note of the k-th.
GapsOf(annotations, items, of) ==
  /\ items \in Seq(STRING) /\ of \in [1..Len(items) -> DOMAIN annotations]
  /\ \A k \in 1..Len(items) : /\ items[k] = annotations[of[k]].comment
                              /\ annotations[of[k]].issue_type \in {"logic", "clarity"}
  /\ \A k, l \in 1..Len(items) : k < l => A!Rank(annotations[of[k]]) <= A!Rank(annotations[of[l]])
  /\ \A i \in DOMAIN annotations :
       annotations[i].issue_type \in {"logic", "clarity"} => \E k \in 1..Len(items) : of[k] = i

LEMMA A_Gaps ==
  ASSUME A!AnalysisAssumption, NEW annotations, Shows(annotations)
  PROVE  \E items : /\ A!EvidenceGaps(annotations) = A!UniqueBriefItems(items)
                    /\ \E of : GapsOf(annotations, items, of)
<1> DEFINE sorted == A!BySeverity(annotations)
           rank == A_Ranks(annotations)
           places == {i \in DOMAIN sorted : sorted[i].issue_type \in {"logic", "clarity"}}
           kept == Keep(sorted, places)
           items == A!Comments(kept)
           m == Len(sorted)
           n == Len(kept)
<1>1. A!EvidenceGaps(annotations) = A!UniqueBriefItems(items)
  BY A_KeepIs DEF A!EvidenceGaps
<1>2. sorted \in Seq(A!Annotation)
  BY A_BySeverity
<1>3. PICK from : Gathers(annotations, rank, 3, sorted, from)
  BY A_BySeverity
<1>4. places \in SUBSET (DOMAIN sorted)
  OBVIOUS
<1>5. \A i \in DOMAIN sorted : i \in places <=> sorted[i].issue_type \in {"logic", "clarity"}
  OBVIOUS
<1> HIDE DEF sorted, places
<1>6. kept \in Seq(A!Annotation)
  BY <1>2, <1>4, KeepPicks
<1>7. PICK at : Picks(sorted, places, kept, at)
  BY <1>2, <1>4, KeepPicks
<1>8. /\ rank \in [DOMAIN annotations -> Nat]
      /\ \A i \in DOMAIN annotations : /\ rank[i] = A!Rank(annotations[i]) /\ rank[i] \in 1..3
                                       /\ annotations[i].comment \in STRING
  BY A_RankType
<1> HIDE DEF kept, rank
<1>9. m \in Nat /\ DOMAIN sorted = 1..m /\ n \in Nat /\ DOMAIN kept = 1..n
  BY <1>2, <1>6
<1>10. /\ from \in [1..m -> DOMAIN annotations]
       /\ \A k \in 1..m : sorted[k] = annotations[from[k]]
       /\ \A k, l \in 1..m : k < l => rank[from[k]] <= rank[from[l]]
       /\ \A i \in DOMAIN annotations : rank[i] \in 1..3 => \E k \in 1..m : from[k] = i
  BY <1>3 DEF Gathers
<1>11. /\ at \in [1..n -> places] /\ \A k \in 1..n : kept[k] = sorted[at[k]]
       /\ \A k, l \in 1..n : k < l => at[k] < at[l]
       /\ \A i \in places : \E k \in 1..n : at[k] = i
  BY <1>7 DEF Picks
<1>12. items = [k \in 1..n |-> kept[k].comment]
  BY <1>9 DEF A!Comments
<1> HIDE DEF m, n, items
<1> DEFINE of == [k \in 1..n |-> from[at[k]]]
<1>13. \A k \in 1..n : at[k] \in places /\ at[k] \in 1..m
  BY <1>4, <1>9, <1>11
<1>14. \A k \in 1..n : /\ of[k] = from[at[k]] /\ of[k] \in DOMAIN annotations
                        /\ kept[k] = annotations[of[k]] /\ items[k] = annotations[of[k]].comment
                        /\ annotations[of[k]].issue_type \in {"logic", "clarity"}
                        /\ items[k] \in STRING
  <2> SUFFICES ASSUME NEW k \in 1..n
               PROVE  /\ of[k] = from[at[k]] /\ of[k] \in DOMAIN annotations
                      /\ kept[k] = annotations[of[k]] /\ items[k] = annotations[of[k]].comment
                      /\ annotations[of[k]].issue_type \in {"logic", "clarity"}
                      /\ items[k] \in STRING
    OBVIOUS
  <2>1. of[k] = from[at[k]] /\ of[k] \in DOMAIN annotations /\ kept[k] = annotations[of[k]]
    BY <1>10, <1>11, <1>13
  <2>2. sorted[at[k]].issue_type \in {"logic", "clarity"}
    BY <1>5, <1>9, <1>13
  <2>3. items[k] = kept[k].comment
    BY <1>12
  <2> HIDE DEF of
  <2> QED
    BY <1>8, <1>11, <2>1, <2>2, <2>3
<1>15. of \in [1..n -> DOMAIN annotations]
  BY <1>14
<1>16. \A k, l \in 1..n : k < l => A!Rank(annotations[of[k]]) <= A!Rank(annotations[of[l]])
  <2> SUFFICES ASSUME NEW k \in 1..n, NEW l \in 1..n, k < l
               PROVE  A!Rank(annotations[of[k]]) <= A!Rank(annotations[of[l]])
    OBVIOUS
  <2>1. at[k] < at[l]
    BY <1>11
  <2>2. rank[from[at[k]]] <= rank[from[at[l]]]
    BY <1>10, <1>13, <2>1
  <2>3. of[k] = from[at[k]] /\ of[l] = from[at[l]] /\ of[k] \in DOMAIN annotations /\ of[l] \in DOMAIN annotations
    BY <1>14
  <2> HIDE DEF of
  <2> QED
    BY <1>8, <2>2, <2>3
<1>17. ASSUME NEW i \in DOMAIN annotations, annotations[i].issue_type \in {"logic", "clarity"}
       PROVE  \E k \in 1..n : of[k] = i
  <2>1. PICK l \in 1..m : from[l] = i
    BY <1>8, <1>10
  <2>2. l \in places
    BY <1>5, <1>9, <1>10, <1>17, <2>1
  <2>3. PICK k \in 1..n : at[k] = l
    BY <1>11, <2>2
  <2> QED
    BY <1>14, <2>1, <2>3
<1> HIDE DEF of
<1>18. Len(items) = n /\ items \in Seq(STRING)
  <2>1. items = [k \in 1..n |-> items[k]]
    BY <1>12
  <2>2. \A k \in 1..n : items[k] \in STRING
    BY <1>14
  <2> QED
    BY <1>9, <2>1, <2>2
<1>19. GapsOf(annotations, items, of)
  BY <1>14, <1>15, <1>16, <1>17, <1>18 DEF GapsOf
<1> QED
  BY <1>1, <1>19

LEMMA A_Brief ==
  ASSUME A!AnalysisAssumption, Shows(A!Annotations)
  PROVE  A!BriefIsOrdered
<1> DEFINE annotations == A!Annotations
           gaps == A!BuildDefenseBrief(<<>>, annotations).gaps
           of(i) == annotations[i].issue_type \in {"logic", "clarity"} /\ annotations[i].comment # A!Blank
<1>1. gaps = A!EvidenceGaps(annotations)
  <2>1. <<>> \in Seq(STRING) /\ Len(<<>>) = 0
    OBVIOUS
  <2>2. A!UniqueBriefItems(<<>>) = <<>>
    BY <2>1, A_FoldIs, FoldNone DEF A!UniqueBriefItems
  <2> QED
    BY <2>2 DEF A!BuildDefenseBrief
<1>2. PICK items : /\ A!EvidenceGaps(annotations) = A!UniqueBriefItems(items)
                   /\ \E f : GapsOf(annotations, items, f)
  BY A_Gaps
<1>3. PICK f : GapsOf(annotations, items, f)
  BY <1>2
<1> HIDE DEF annotations, gaps
<1> DEFINE n == Len(items)
<1>4. /\ items \in Seq(STRING) /\ f \in [1..n -> DOMAIN annotations]
      /\ \A k \in 1..n : /\ items[k] = annotations[f[k]].comment
                          /\ annotations[f[k]].issue_type \in {"logic", "clarity"}
      /\ \A k, l \in 1..n : k < l => A!Rank(annotations[f[k]]) <= A!Rank(annotations[f[l]])
      /\ \A i \in DOMAIN annotations :
           annotations[i].issue_type \in {"logic", "clarity"} => \E k \in 1..n : f[k] = i
  BY <1>3 DEF GapsOf
<1>5. n \in Nat
  BY <1>4
<1>6. UniqueInv(items, n, gaps)
  BY <1>1, <1>2, <1>4, A_Unique
<1> HIDE DEF n
<1>7. /\ Len(gaps) <= MaxItems /\ \A i, j \in DOMAIN gaps : gaps[i] = gaps[j] => i = j
      /\ \A l \in 1..n :
           items[l] = A!Blank \/ items[l] \in A!ToSet(gaps)
             \/ (Len(gaps) = MaxItems
                 /\ \A j \in DOMAIN gaps : \E p \in 1..l : items[p] = gaps[j] /\ items[p] # A!Blank)
  BY <1>6 DEF UniqueInv
<1>8. ASSUME NEW i \in DOMAIN annotations, of(i), annotations[i].comment \notin A!ToSet(gaps)
      PROVE  /\ Len(gaps) = MaxItems
             /\ \A k \in DOMAIN gaps : \E j \in DOMAIN annotations :
                  /\ of(j) /\ annotations[j].comment = gaps[k]
                  /\ A!Rank(annotations[j]) <= A!Rank(annotations[i])
  <2>1. PICK l \in 1..n : f[l] = i
    BY <1>4, <1>8
  <2>2. items[l] = annotations[i].comment
    BY <1>4, <2>1
  <2>3. /\ Len(gaps) = MaxItems
        /\ \A j \in DOMAIN gaps : \E p \in 1..l : items[p] = gaps[j] /\ items[p] # A!Blank
    BY <1>7, <1>8, <2>2
  <2>4. ASSUME NEW k \in DOMAIN gaps
        PROVE  \E j \in DOMAIN annotations :
                 /\ of(j) /\ annotations[j].comment = gaps[k]
                 /\ A!Rank(annotations[j]) <= A!Rank(annotations[i])
    <3>1. PICK p \in 1..l : items[p] = gaps[k] /\ items[p] # A!Blank
      BY <2>3
    <3>2. p \in 1..n /\ (p = l \/ p < l)
      BY <1>5
    <3>3. f[p] \in DOMAIN annotations /\ of(f[p]) /\ annotations[f[p]].comment = gaps[k]
      BY <1>4, <3>1, <3>2
    <3>4. A!Rank(annotations[f[p]]) <= A!Rank(annotations[i])
      <4>1. CASE p = l
        <5>1. A!Rank(annotations[i]) \in 1..3
          BY A_RankType DEF annotations
        <5> QED
          BY <2>1, <4>1, <5>1
      <4>2. CASE p < l
        BY <1>4, <2>1, <3>2, <4>2
      <4> QED
        BY <3>2, <4>1, <4>2
    <3> QED
      BY <3>3, <3>4
  <2> QED
    BY <2>3, <2>4
<1> QED
  BY <1>7, <1>8 DEF A!BriefIsOrdered, A!IsInjective, annotations, gaps

LEMMA A_SegmentsAre ==
  ASSUME A!AnalysisAssumption, Shows(A!Annotations), DOMAIN A!Annotations \subseteq 1..MaxNotes
  PROVE  /\ A!SegmentsAreTheText
         /\ A!Marks \subseteq DOMAIN A!Annotations
<1> DEFINE annotations == A!Annotations
           segments == A!BuildSegments(annotations)
<1>1. /\ Cuts(segments, Length)
      /\ \A j \in DOMAIN segments : segments[j].idx = None \/ segments[j].idx \in DOMAIN annotations
      /\ \A i \in DOMAIN annotations : annotations[i].at # -1 =>
           \E m \in DOMAIN annotations :
             /\ Marked(segments, m)
             /\ \/ m = i
                \/ /\ annotations[m].at <= annotations[i].at
                   /\ annotations[i].at < annotations[m].at + annotations[m].len
  BY A_Segments
<1>2. \A i \in DOMAIN annotations : i # None
  BY DEF A!AnalysisAssumption
<1>3. A!Marks = {seg.idx : seg \in A!ToSet(segments)} \ {None}
  BY DEF A!Marks
<1> HIDE DEF annotations, segments
<1>4. A!Marks \subseteq DOMAIN annotations
  BY <1>1, <1>3 DEF A!ToSet
<1>5. \A m \in DOMAIN annotations : Marked(segments, m) => m \in A!Marks
  BY <1>2, <1>3 DEF Marked, A!ToSet
<1>6. Length > 0 => segments # <<>> /\ segments[Len(segments)].e = Length
  BY <1>1 DEF Cuts
<1>7. \A k \in DOMAIN segments : segments[k].s = (IF k = 1 THEN 0 ELSE segments[k - 1].e)
  BY <1>1 DEF Cuts
<1>8. ASSUME NEW i \in DOMAIN annotations, annotations[i].at # -1, i \notin A!Marks
      PROVE  \E j \in A!Marks : /\ annotations[j].at <= annotations[i].at
                                 /\ annotations[i].at < annotations[j].at + annotations[j].len
  BY <1>1, <1>5, <1>8
<1> QED
  BY <1>4, <1>6, <1>7, <1>8 DEF A!SegmentsAreTheText, annotations, segments

-----------------------------------------------------------------------------
(* Analysis: the page and the server.                                      *)

\* One insert at a time, none beside a stored analysis; what is opened on the
\* page, or will be by a timer, is an annotation it shows.
A_Inv ==
  /\ A!TypeOK
  /\ \A r, q \in Requests : r \in A!Inserting /\ q \in A!Inserting => r = q
  /\ stored # None => A!Inserting = {}
  /\ shown \in Requests => stored = shown
  /\ sheetIdx # None => shown \in Requests /\ sheetIdx \in DOMAIN notes
  /\ taps # {} => shown \in Requests
  /\ taps \subseteq DOMAIN notes

LEMMA A_NotesType ==
  ASSUME A!AnalysisAssumption, NEW list0 \in A!Lists
  PROVE  Shows(list0) /\ DOMAIN list0 \subseteq 1..MaxNotes
<1>1. PICK n \in 0..MaxNotes : list0 \in [1..n -> Notes]
  BY DEF A!Lists
<1>2. n \in Nat /\ n <= MaxNotes /\ DOMAIN list0 = 1..n /\ \A i \in 1..n : list0[i] \in Notes
  BY <1>1 DEF A!AnalysisAssumption
<1>3. \A i \in 1..n : list0[i] \in A!Annotation /\ list0[i].at + list0[i].len <= Length
  BY <1>2 DEF A!AnalysisAssumption
<1>4. list0 \in Seq(A!Annotation)
  <2> DEFINE S == A!Annotation
  <2>1. \A i \in 1..n : list0[i] \in S
    BY <1>3
  <2>2. list0 = [i \in 1..n |-> list0[i]]
    BY <1>1
  <2> HIDE DEF S
  <2>3. list0 \in Seq(S)
    BY <1>2, <2>1, <2>2
  <2> QED
    BY <2>3 DEF S
<1>5. DOMAIN list0 \subseteq 1..MaxNotes
  BY <1>2 DEF A!AnalysisAssumption
<1> QED
  BY <1>2, <1>3, <1>4, <1>5 DEF Shows

LEMMA A_AnnotationsType ==
  ASSUME A!AnalysisAssumption, A_Inv
  PROVE  /\ Shows(A!Annotations) /\ DOMAIN A!Annotations \subseteq 1..MaxNotes
         /\ Shows(notes) /\ DOMAIN notes \subseteq 1..MaxNotes
         /\ DOMAIN A!Annotations \subseteq DOMAIN notes
<1>1. Shows(notes) /\ DOMAIN notes \subseteq 1..MaxNotes
  BY A_NotesType DEF A_Inv, A!TypeOK
<1>2. Shows(<<>>) /\ DOMAIN <<>> = {}
  BY DEF Shows
<1> QED
  BY <1>1, <1>2 DEF A!Annotations

LEMMA A_InitHolds == ASSUME A!AnalysisAssumption, A!Init PROVE A_Inv
<1>1. <<>> \in A!Lists
  <2>1. 0 \in 0..MaxNotes /\ <<>> \in [1..0 -> Notes]
    BY DEF A!AnalysisAssumption
  <2> QED
    BY <2>1 DEF A!Lists
<1>2. 1 \in 1..MaxVisits
  BY DEF A!AnalysisAssumption
<1>3. A!TypeOK
  BY <1>1, <1>2 DEF A!Init, A!TypeOK
<1>4. A!Inserting = {} /\ shown \notin Requests
  BY DEF A!Init, A!Inserting, A!AnalysisAssumption
<1>5. sheetIdx = None /\ taps = {}
  BY DEF A!Init
<1> QED
  BY <1>3, <1>4, <1>5 DEF A_Inv

\* The steps that only look.
LEMMA A_LookStep ==
  ASSUME A!AnalysisAssumption, A_Inv,
         UNCHANGED <<shown, visits, isAnalyzing, analyzeError, refetching, notes, request, stored>>,
         sheetIdx' # None => shown \in Requests /\ sheetIdx' \in DOMAIN notes,
         taps' # {} => shown \in Requests, taps' \subseteq DOMAIN notes,
         mobileTab' \in {"text", "issues", "improved"}, desktopView' \in {"text", "ai"},
         isDesktop' \in BOOLEAN, analysisActiveFilter' \in A!IssueType \cup {None}
  PROVE  A_Inv'
<1>1. DOMAIN notes \subseteq 1..MaxNotes
  BY A_AnnotationsType
<1>2. A!Inserting' = A!Inserting
  BY DEF A!Inserting
<1>3. A!TypeOK'
  BY <1>1 DEF A_Inv, A!TypeOK
<1> QED
  BY <1>2, <1>3 DEF A_Inv

LEMMA A_LooksStep ==
  ASSUME A!AnalysisAssumption, A_Inv,
         \/ \E i \in 1..MaxNotes : A!HandleTap(i) \/ A!ClickIssueCard(i) \/ A!DelayedTap(i)
         \/ A!CloseSheet \/ A!OnPrev \/ A!OnNext \/ A!Resize \/ A!ClearFilter
         \/ \E type \in A!IssueType : A!OnFilter(type)
         \/ \E tab \in {"text", "issues", "improved"} : A!SetMobileTab(tab)
         \/ \E view \in {"text", "ai"} : A!SetDesktopView(view)
  PROVE  A_Inv'
<1>1. /\ mobileTab \in {"text", "issues", "improved"} /\ desktopView \in {"text", "ai"}
      /\ isDesktop \in BOOLEAN /\ analysisActiveFilter \in A!IssueType \cup {None}
      /\ sheetIdx # None => shown \in Requests /\ sheetIdx \in DOMAIN notes
      /\ taps # {} => shown \in Requests
      /\ taps \subseteq DOMAIN notes
  BY DEF A_Inv, A!TypeOK
<1>2. /\ A!Marks \subseteq DOMAIN A!Annotations
      /\ DOMAIN A!Annotations \subseteq DOMAIN notes
      /\ A!HasAnalysis => A!Annotations = notes
      /\ A!HasAnalysis <=> shown \in Requests
  BY A_AnnotationsType, A_SegmentsAre DEF A!HasAnalysis, A!Annotations
<1>3. notes \in Seq(A!Annotation) /\ DOMAIN notes = 1..Len(notes) /\ Len(notes) \in Nat
  BY A_AnnotationsType DEF Shows
<1>4. A!ViewOnly => UNCHANGED <<shown, visits, isAnalyzing, analyzeError, refetching, notes, request, stored>>
  BY DEF A!ViewOnly, A!server
<1>5. ASSUME NEW i \in 1..MaxNotes, A!HandleTap(i) PROVE A_Inv'
  <2>1. A!HasAnalysis /\ i \in A!Marks
    BY <1>5 DEF A!HandleTap, A!Tappable
  <2> QED
    BY <1>1, <1>2, <1>4, <1>5, <2>1, A_LookStep DEF A!HandleTap
<1>6. ASSUME NEW i \in 1..MaxNotes, A!ClickIssueCard(i) PROVE A_Inv'
  <2>1. A!HasAnalysis /\ i \in DOMAIN notes
    BY <1>2, <1>6 DEF A!ClickIssueCard, A!Cards
  <2> QED
    BY <1>1, <1>2, <1>4, <1>6, <2>1, A_LookStep DEF A!ClickIssueCard
<1>7. ASSUME NEW i \in 1..MaxNotes, A!DelayedTap(i) PROVE A_Inv'
  BY <1>1, <1>4, <1>7, A_LookStep DEF A!DelayedTap
<1>8. CASE A!CloseSheet
  BY <1>1, <1>4, <1>8, A_LookStep DEF A!CloseSheet
<1>9. CASE A!OnPrev
  <2>1. sheetIdx - 1 \in DOMAIN notes
    BY <1>1, <1>3, <1>9 DEF A!OnPrev, A!DetailShown
  <2> QED
    BY <1>1, <1>4, <1>9, <2>1, A_LookStep DEF A!OnPrev, A!DetailShown
<1>10. CASE A!OnNext
  <2>1. sheetIdx + 1 \in DOMAIN notes
    BY <1>1, <1>2, <1>3, <1>10 DEF A!OnNext, A!DetailShown
  <2> QED
    BY <1>1, <1>4, <1>10, <2>1, A_LookStep DEF A!OnNext, A!DetailShown
<1>11. CASE A!Resize
  BY <1>1, <1>4, <1>11, A_LookStep DEF A!Resize
<1>12. CASE A!ClearFilter
  BY <1>1, <1>4, <1>12, A_LookStep DEF A!ClearFilter
<1>13. ASSUME NEW type \in A!IssueType, A!OnFilter(type) PROVE A_Inv'
  <2>1. analysisActiveFilter' \in A!IssueType \cup {None}
    BY <1>13 DEF A!OnFilter
  <2> QED
    BY <1>1, <1>4, <1>13, <2>1, A_LookStep DEF A!OnFilter
<1>14. ASSUME NEW t \in {"text", "issues", "improved"}, A!SetMobileTab(t) PROVE A_Inv'
  BY <1>1, <1>4, <1>14, A_LookStep DEF A!SetMobileTab
<1>15. ASSUME NEW v \in {"text", "ai"}, A!SetDesktopView(v) PROVE A_Inv'
  BY <1>1, <1>4, <1>15, A_LookStep DEF A!SetDesktopView
<1> QED
  BY <1>5, <1>6, <1>7, <1>8, <1>9, <1>10, <1>11, <1>12, <1>13, <1>14, <1>15

\* The steps of a request that leave the stored analysis alone, and insert none.
LEMMA A_RequestStep ==
  ASSUME A!AnalysisAssumption, A_Inv,
         UNCHANGED <<shown, visits, A!ui, notes, stored>>,
         isAnalyzing' \in Requests \cup {None}, analyzeError' \in BOOLEAN, refetching' \in BOOLEAN,
         request' \in [Requests -> {"idle", "sent", "analysing", "flushed", "responded",
                                    "answered", "done", "failed"}],
         A!Inserting' \subseteq A!Inserting
  PROVE  A_Inv'
<1>1. UNCHANGED <<shown, visits, sheetIdx, taps, mobileTab, desktopView, isDesktop, analysisActiveFilter,
                  notes, stored>>
  BY DEF A!ui
<1>2. A!TypeOK'
  BY <1>1 DEF A_Inv, A!TypeOK
<1> QED
  BY <1>1, <1>2 DEF A_Inv

A_Places == {"idle", "sent", "analysing", "flushed", "responded", "answered", "done", "failed"}

\* A request advances: no other moves.
LEMMA A_Advance ==
  ASSUME A_Inv, NEW r \in Requests, NEW pc \in A_Places, A!Advance(r, pc)
  PROVE  /\ request' \in [Requests -> A_Places]
         /\ \A q \in Requests : request'[q] = IF q = r THEN pc ELSE request[q]
  BY DEF A_Inv, A!TypeOK, A!Advance, A_Places

LEMMA A_ServesStep ==
  ASSUME A!AnalysisAssumption, A_Inv,
         \/ \E r \in Requests : A!LoadDraft(r) \/ A!AiFails(r) \/ A!RunAnalysis(r)
         \/ A!ReceiveAnalysis \/ A!AnalysisFails
  PROVE  A_Inv'
<1>1. isAnalyzing \in Requests \cup {None} /\ analyzeError \in BOOLEAN /\ refetching \in BOOLEAN
      /\ request \in [Requests -> A_Places]
  BY DEF A_Inv, A!TypeOK, A_Places
<1>2. ASSUME NEW r \in Requests, NEW pc \in A_Places, A!Advance(r, pc),
             pc \in {"flushed", "responded"} => r \in A!Inserting
      PROVE  request' \in [Requests -> A_Places] /\ A!Inserting' \subseteq A!Inserting
  BY <1>2, A_Advance DEF A!Inserting
<1>3. ASSUME NEW r \in Requests, A!LoadDraft(r) \/ A!AiFails(r) PROVE A_Inv'
  <2>1. PICK pc \in A_Places : A!Advance(r, pc) /\ pc \notin {"flushed", "responded"}
    BY <1>3 DEF A!LoadDraft, A!AiFails, A_Places
  <2>2. request' \in [Requests -> A_Places] /\ A!Inserting' \subseteq A!Inserting
    BY <1>2, <2>1
  <2>3. UNCHANGED <<shown, visits, isAnalyzing, analyzeError, refetching, A!ui, notes, stored>>
    BY <1>3 DEF A!LoadDraft, A!AiFails
  <2> QED
    BY <1>1, <2>2, <2>3, A_RequestStep DEF A_Places
<1>4. ASSUME NEW r \in Requests, A!RunAnalysis(r) PROVE A_Inv'
  <2>1. "sent" \in A_Places /\ A!Advance(r, "sent") /\ "sent" \notin {"flushed", "responded"}
    BY <1>4 DEF A!RunAnalysis, A_Places
  <2>2. request' \in [Requests -> A_Places] /\ A!Inserting' \subseteq A!Inserting
    BY <1>2, <2>1
  <2>3. UNCHANGED <<shown, visits, refetching, A!ui, notes, stored>> /\ isAnalyzing' = r /\ analyzeError' = FALSE
    BY <1>4 DEF A!RunAnalysis
  <2> QED
    BY <1>1, <2>2, <2>3, A_RequestStep DEF A_Places
<1>5. CASE A!ReceiveAnalysis
  <2>1. isAnalyzing \in Requests /\ request[isAnalyzing] \in {"flushed", "answered"}
    BY <1>1, <1>5 DEF A!ReceiveAnalysis
  <2> DEFINE pc == IF request[isAnalyzing] = "flushed" THEN "responded" ELSE "done"
  <2>2. pc \in A_Places /\ A!Advance(isAnalyzing, pc)
    BY <1>5 DEF A!ReceiveAnalysis, A_Places
  <2>3. pc \in {"flushed", "responded"} => isAnalyzing \in A!Inserting
    BY <2>1 DEF A!Inserting
  <2> HIDE DEF pc
  <2>4. request' \in [Requests -> A_Places] /\ A!Inserting' \subseteq A!Inserting
    BY <1>2, <2>1, <2>2, <2>3
  <2>5. UNCHANGED <<shown, visits, isAnalyzing, analyzeError, A!ui, notes, stored>> /\ refetching' = TRUE
    BY <1>5 DEF A!ReceiveAnalysis
  <2> QED
    BY <1>1, <2>4, <2>5, A_RequestStep DEF A_Places
<1>6. CASE A!AnalysisFails
  <2>1. UNCHANGED <<shown, visits, refetching, A!ui, notes, request, stored>>
        /\ analyzeError' = TRUE /\ isAnalyzing' = None
    BY <1>6 DEF A!AnalysisFails, A!server
  <2>2. A!Inserting' \subseteq A!Inserting
    BY <2>1 DEF A!Inserting
  <2> QED
    BY <1>1, <2>1, <2>2, A_RequestStep DEF A_Places
<1> QED
  BY <1>3, <1>4, <1>5, <1>6

LEMMA A_FlushStep ==
  ASSUME A!AnalysisAssumption, A_Inv, NEW r \in Requests, A!FlushAnalysis(r)
  PROVE  A_Inv'
<1>1. UNCHANGED <<shown, visits, isAnalyzing, analyzeError, refetching, A!ui, stored>> /\ A!Inserting = {}
  BY DEF A!FlushAnalysis
<1>2. CASE stored # None
  <2>1. A!Advance(r, "failed") /\ notes' = notes /\ "failed" \in A_Places
    BY <1>2 DEF A!FlushAnalysis, A_Places
  <2>2. request' \in [Requests -> A_Places] /\ A!Inserting' \subseteq A!Inserting
    BY <2>1, A_Advance DEF A!Inserting
  <2> QED
    BY <1>1, <2>1, <2>2, A_RequestStep DEF A_Inv, A!TypeOK, A_Places
<1>3. CASE stored = None
  <2>1. A!Advance(r, "flushed") /\ notes' \in A!Lists /\ "flushed" \in A_Places
    BY <1>3 DEF A!FlushAnalysis, A_Places
  <2>2. request' \in [Requests -> A_Places] /\ \A q \in A!Inserting' : q = r
    BY <1>1, <2>1, A_Advance DEF A!Inserting
  <2>3. shown \notin Requests
    BY <1>3 DEF A_Inv, A!AnalysisAssumption
  <2>4. UNCHANGED <<shown, visits, isAnalyzing, analyzeError, refetching, sheetIdx, taps, mobileTab,
                    desktopView, isDesktop, analysisActiveFilter, stored>>
    BY <1>1 DEF A!ui
  <2>5. sheetIdx = None /\ taps = {}
    BY <2>3 DEF A_Inv
  <2>6. A!TypeOK'
    BY <2>1, <2>2, <2>4 DEF A_Inv, A!TypeOK, A_Places
  <2> QED
    BY <1>3, <2>2, <2>3, <2>4, <2>5, <2>6 DEF A_Inv
<1> QED
  BY <1>2, <1>3

LEMMA A_CommitStep ==
  ASSUME A!AnalysisAssumption, A_Inv, NEW r \in Requests, A!Commit(r)
  PROVE  A_Inv'
<1> DEFINE pc == IF request[r] = "flushed" THEN "answered" ELSE "done"
<1>1. /\ r \in A!Inserting /\ A!Advance(r, pc) /\ stored' = r /\ pc \in A_Places
      /\ pc \notin {"flushed", "responded"}
  BY DEF A!Commit, A!Inserting, A_Places
<1> HIDE DEF pc
<1>2. UNCHANGED <<shown, visits, isAnalyzing, analyzeError, refetching, sheetIdx, taps, mobileTab,
                  desktopView, isDesktop, analysisActiveFilter, notes>>
  BY DEF A!Commit, A!ui
<1>3. stored = None /\ shown \notin Requests
  BY <1>1 DEF A_Inv, A!AnalysisAssumption
<1>4. request' \in [Requests -> A_Places] /\ A!Inserting' = {}
  <2>1. \A q \in A!Inserting : q = r
    BY <1>1 DEF A_Inv, A!Inserting
  <2> QED
    BY <1>1, <2>1, A_Advance DEF A!Inserting
<1>5. A!TypeOK'
  BY <1>1, <1>2, <1>4 DEF A_Inv, A!TypeOK, A_Places
<1> QED
  BY <1>2, <1>3, <1>4, <1>5 DEF A_Inv

LEMMA A_LoadStep ==
  ASSUME A!AnalysisAssumption, A_Inv, A!FetchDraft \/ A!FetchDraftFails \/ A!Reload
  PROVE  A_Inv'
<1>1. "loading" \notin Requests /\ "error" \notin Requests /\ None \notin Requests
  BY DEF A!AnalysisAssumption
<1>2. UNCHANGED <<notes, request, stored>> /\ A!Inserting' = A!Inserting
  BY DEF A!FetchDraft, A!FetchDraftFails, A!Reload, A!server, A!Inserting
<1>3. CASE A!FetchDraft \/ A!FetchDraftFails
  <2>1. UNCHANGED <<visits, analyzeError, sheetIdx, taps, mobileTab, desktopView, isDesktop, analysisActiveFilter>>
    BY <1>3 DEF A!FetchDraft, A!FetchDraftFails, A!ui
  <2>2. shown' \in {stored, shown, "error"} /\ (shown \in Requests => shown' = shown)
    BY <1>1, <1>3 DEF A!FetchDraft, A!FetchDraftFails, A_Inv
  <2>3. isAnalyzing' \in {isAnalyzing, None} /\ refetching' = FALSE
    BY <1>3 DEF A!FetchDraft, A!FetchDraftFails
  <2>4. A!TypeOK'
    BY <1>2, <2>1, <2>2, <2>3 DEF A_Inv, A!TypeOK
  <2>5. shown' \in Requests => stored' = shown'
    BY <1>1, <1>2, <2>2 DEF A_Inv
  <2> QED
    BY <1>2, <2>1, <2>2, <2>4, <2>5 DEF A_Inv
<1>4. CASE A!Reload
  <2>1. visits' \in 1..MaxVisits
    BY <1>4 DEF A!Reload, A_Inv, A!TypeOK, A!AnalysisAssumption
  <2>2. /\ shown' = "loading" /\ isAnalyzing' = None /\ analyzeError' = FALSE /\ refetching' = FALSE
        /\ sheetIdx' = None /\ taps' = {} /\ mobileTab' = "text" /\ desktopView' = "text"
        /\ analysisActiveFilter' = None /\ isDesktop' = isDesktop
    BY <1>4 DEF A!Reload
  <2>3. A!TypeOK'
    BY <1>2, <2>1, <2>2 DEF A_Inv, A!TypeOK
  <2> QED
    BY <1>1, <1>2, <2>2, <2>3 DEF A_Inv
<1> QED
  BY <1>3, <1>4

LEMMA A_Step == ASSUME A!AnalysisAssumption, A_Inv, A!Next PROVE A_Inv'
BY A_LooksStep, A_ServesStep, A_FlushStep, A_CommitStep, A_LoadStep DEF A!Next

LEMMA A_Idle == ASSUME A_Inv, UNCHANGED analysisVars PROVE A_Inv'
<1>1. UNCHANGED <<shown, visits, isAnalyzing, analyzeError, refetching, sheetIdx, taps, mobileTab,
                  desktopView, isDesktop, analysisActiveFilter, notes, request, stored>>
  BY DEF analysisVars
<1>2. A!Inserting' = A!Inserting
  BY <1>1 DEF A!Inserting
<1>3. A!TypeOK'
  BY <1>1 DEF A_Inv, A!TypeOK
<1> QED
  BY <1>1, <1>2, <1>3 DEF A_Inv

LEMMA A_Shown ==
  ASSUME A!AnalysisAssumption, A_Inv
  PROVE  A!ShownIsStored /\ A!SegmentsAreTheText /\ A!BriefIsOrdered
<1>1. A!ShownIsStored
  BY DEF A_Inv, A!ShownIsStored, A!HasAnalysis, A!Annotations
<1> QED
  BY <1>1, A_AnnotationsType, A_SegmentsAre, A_Brief

-----------------------------------------------------------------------------
(* BriefExport: the file.                                                  *)

LEMMA B_KeepIs == \A l, places : B!Keep(l, places) = Keep(l, places)
BY DEF B!Keep, Keep, B!Fold, Fold

LEMMA B_FoldIs == \A step, start, n : B!Fold(step, start, n) = Fold(step, start, n)
BY DEF B!Fold, Fold

-----------------------------------------------------------------------------
(* BriefExport: section after section.                                     *)

HeadingsAt(lines) == {i \in DOMAIN lines : lines[i].kind = "heading"}

\* The lines of a file as they grow.
Formed(lines) ==
  /\ lines \in Seq(B!Line) /\ lines # <<>> /\ lines[Len(lines)] # B!Blank
  /\ \A i \in DOMAIN lines :
       lines[i].kind = "heading" =>
         /\ i - 1 \in DOMAIN lines /\ lines[i - 1] = B!Blank
         /\ i < Len(lines) /\ lines[i + 1] = B!Entry(lines[i].of)
  /\ \A i \in 1..(Len(lines) - 1) : ~(lines[i] = B!Blank /\ lines[i + 1] = B!Blank)

LEMMA B_LineType ==
  /\ B!Blank \in B!Line /\ B!Title \in B!Line /\ B!Intro \in B!Line
  /\ \A section \in B!ToSet(B!Sections) : B!Heading(section) \in B!Line /\ B!Entry(section) \in B!Line
BY DEF B!Line, B!Blank, B!Title, B!Intro, B!Heading, B!Entry

LEMMA B_Cleaned ==
  ASSUME NEW texts \in Seq(B!Text)
  PROVE  B!Cleaned(texts) \in Seq(B!Text) /\ (B!Cleaned(texts) # <<>> => texts # <<>>)
<1>1. B!Cleaned(texts) = Keep(texts, {i \in DOMAIN texts : texts[i] # "blank"})
  BY B_KeepIs DEF B!Cleaned
<1>2. {i \in DOMAIN texts : texts[i] # "blank"} \in SUBSET (DOMAIN texts)
  OBVIOUS
<1> QED
  BY <1>1, <1>2, KeepPicks, KeepNone

\* A section of n entries has come to the lines.
Pushed(lines, section, more, n, added) ==
  /\ more = lines \o added
  /\ more \in Seq(B!Line) /\ Len(more) = Len(lines) + 2 + n
  /\ \A i \in 1..Len(lines) : more[i] = lines[i]
  /\ more[Len(lines) + 1] = B!Blank /\ more[Len(lines) + 2] = B!Heading(section)
  /\ \A i \in 1..Len(more) : i > Len(lines) + 2 => more[i] = B!Entry(section)

LEMMA B_PushLines ==
  ASSUME NEW lines, Formed(lines), NEW section \in B!ToSet(B!Sections),
         NEW texts \in Seq(B!Text), B!Cleaned(texts) # <<>>,
         NEW more, more = B!PushListSection(lines, section, texts)
  PROVE  \E n \in Nat \ {0} : \E added \in Seq(B!Line) : Pushed(lines, section, more, n, added)
<1> DEFINE n == Len(B!Cleaned(texts))
           m == Len(lines)
           entries == [i \in 1..n |-> B!Entry(section)]
           b == B!Blank
           h == B!Heading(section)
           e == B!Entry(section)
<1>1. n \in Nat \ {0}
  BY B_Cleaned
<1>2. b \in B!Line /\ h \in B!Line /\ e \in B!Line
  BY B_LineType
<1>3. lines \in Seq(B!Line) /\ lines # <<>> /\ lines[m] # b
  BY DEF Formed
<1>4. more = ((lines \o <<b>>) \o <<h>>) \o entries
  BY <1>3 DEF B!PushListSection, B!PushSection
<1> HIDE DEF n, b, h
<1>5. entries \in Seq(B!Line) /\ Len(entries) = n /\ \A i \in 1..n : entries[i] = e
  BY <1>1, <1>2
<1> HIDE DEF entries, e
<1> DEFINE added == (<<b>> \o <<h>>) \o entries
<1>6. added \in Seq(B!Line)
  BY <1>2, <1>5
<1>7. more = lines \o added
  BY <1>2, <1>3, <1>4, <1>5
<1> DEFINE two == (lines \o <<b>>) \o <<h>>
<1>8. /\ m \in Nat /\ two \in Seq(B!Line) /\ Len(two) = m + 2
      /\ \A i \in 1..m : two[i] = lines[i]
      /\ two[m + 1] = b /\ two[m + 2] = h
  BY <1>2, <1>3
<1> HIDE DEF two, m, added
<1>9. /\ more \in Seq(B!Line) /\ Len(more) = m + 2 + n
      /\ \A i \in 1..(m + 2) : more[i] = two[i]
      /\ \A i \in 1..Len(more) : i > m + 2 => more[i] = e
  <2>1. more = two \o entries
    BY <1>4 DEF two
  <2>2. \A i \in 1..(m + 2 + n) : i > m + 2 => more[i] = entries[i - (m + 2)] /\ i - (m + 2) \in 1..n
    BY <1>1, <1>5, <1>8, <2>1
  <2>3. more \in Seq(B!Line)
    BY <1>5, <1>8, <2>1
  <2>4. Len(more) = m + 2 + n
    <3>1. Len(two \o entries) = Len(two) + Len(entries)
      BY <1>5, <1>8
    <3>2. Len(two) = m + 2 /\ Len(entries) = n
      BY <1>5, <1>8
    <3> QED
      BY <2>1, <3>1, <3>2
  <2>5. \A i \in 1..(m + 2) : more[i] = two[i]
    BY <1>1, <1>5, <1>8, <2>1
  <2> QED
    BY <1>5, <2>2, <2>3, <2>4, <2>5
<1>10. /\ \A i \in 1..m : more[i] = lines[i]
       /\ more[m + 1] = b /\ more[m + 2] = h
  <2>1. m + 1 \in 1..(m + 2) /\ m + 2 \in 1..(m + 2) /\ \A i \in 1..m : i \in 1..(m + 2)
    BY <1>8
  <2> QED
    BY <1>8, <1>9, <2>1
<1> QED
  BY <1>1, <1>6, <1>7, <1>9, <1>10 DEF Pushed, m, b, h, e

LEMMA B_PushFormed ==
  ASSUME NEW lines, Formed(lines), NEW section \in B!ToSet(B!Sections),
         NEW texts \in Seq(B!Text), B!Cleaned(texts) # <<>>,
         NEW more, more = B!PushListSection(lines, section, texts)
  PROVE  Formed(more) /\ B!FileSections(more) = Append(B!FileSections(lines), section)
<1> DEFINE m == Len(lines)
<1>1. PICK n \in Nat \ {0}, added \in Seq(B!Line) : Pushed(lines, section, more, n, added)
  BY B_PushLines
<1>2. /\ more = lines \o added
      /\ more \in Seq(B!Line) /\ Len(more) = m + 2 + n
      /\ \A i \in 1..m : more[i] = lines[i]
      /\ more[m + 1] = B!Blank /\ more[m + 2] = B!Heading(section)
      /\ \A i \in 1..Len(more) : i > m + 2 => more[i] = B!Entry(section)
  BY <1>1 DEF Pushed
<1>3. /\ lines \in Seq(B!Line) /\ m \in Nat \ {0} /\ DOMAIN lines = 1..m /\ DOMAIN more = 1..(m + 2 + n)
      /\ lines[m] # B!Blank
      /\ \A i \in 1..m : lines[i].kind = "heading" =>
           i > 1 /\ lines[i - 1] = B!Blank /\ i < m /\ lines[i + 1] = B!Entry(lines[i].of)
      /\ \A i \in 1..(m - 1) : ~(lines[i] = B!Blank /\ lines[i + 1] = B!Blank)
  BY <1>2 DEF Formed
<1>4. /\ B!Blank.kind = "blank" /\ B!Heading(section).kind = "heading" /\ B!Heading(section).of = section
      /\ B!Entry(section).kind = "entry" /\ B!Heading(section) # B!Blank /\ B!Entry(section) # B!Blank
  BY DEF B!Blank, B!Heading, B!Entry
<1> HIDE DEF m
<1>5. \A i \in 1..(m + 2 + n) :
        more[i].kind = "heading" =>
          /\ i > 1 /\ more[i - 1] = B!Blank
          /\ i < m + 2 + n /\ more[i + 1] = B!Entry(more[i].of)
  <2> SUFFICES ASSUME NEW i \in 1..(m + 2 + n), more[i].kind = "heading"
               PROVE  /\ i > 1 /\ more[i - 1] = B!Blank
                      /\ i < m + 2 + n /\ more[i + 1] = B!Entry(more[i].of)
    OBVIOUS
  <2>1. CASE i \in 1..m
    <3>1. lines[i].kind = "heading" /\ more[i] = lines[i]
      BY <1>2, <2>1
    <3>2. i > 1 /\ lines[i - 1] = B!Blank /\ i < m /\ lines[i + 1] = B!Entry(lines[i].of)
      BY <1>3, <2>1, <3>1
    <3>3. i - 1 \in 1..m /\ i + 1 \in 1..m
      BY <1>3, <2>1, <3>2
    <3> QED
      BY <1>2, <1>3, <3>1, <3>2, <3>3
  <2>2. CASE i = m + 1
    BY <1>2, <1>4, <2>2
  <2>3. CASE i = m + 2
    <3>1. i - 1 = m + 1 /\ i + 1 \in 1..(m + 2 + n) /\ i + 1 > m + 2
      BY <1>3, <2>3
    <3>2. more[i + 1] = B!Entry(section)
      BY <1>2, <3>1
    <3> QED
      BY <1>2, <1>3, <1>4, <2>3, <3>1, <3>2
  <2>4. CASE i > m + 2
    BY <1>2, <1>4, <2>4
  <2> QED
    BY <1>3, <2>1, <2>2, <2>3, <2>4
<1>6. \A i \in 1..(m + 2 + n - 1) : ~(more[i] = B!Blank /\ more[i + 1] = B!Blank)
  <2> SUFFICES ASSUME NEW i \in 1..(m + 2 + n - 1) PROVE ~(more[i] = B!Blank /\ more[i + 1] = B!Blank)
    OBVIOUS
  <2>1. CASE i \in 1..(m - 1)
    <3>1. i \in 1..m /\ i + 1 \in 1..m
      BY <1>3, <2>1
    <3> QED
      BY <1>2, <1>3, <2>1, <3>1
  <2>2. CASE i = m
    <3>1. i \in 1..m
      BY <1>3, <2>2
    <3> QED
      BY <1>2, <1>3, <2>2, <3>1
  <2>3. CASE i = m + 1
    <3>1. i + 1 = m + 2
      BY <1>3, <2>3
    <3> QED
      BY <1>2, <1>4, <3>1
  <2>4. CASE i >= m + 2
    <3>1. i + 1 \in 1..(m + 2 + n) /\ i + 1 > m + 2
      BY <1>3, <2>4
    <3>2. more[i + 1] = B!Entry(section)
      BY <1>2, <3>1
    <3> QED
      BY <1>4, <3>2
  <2> QED
    BY <1>3, <2>1, <2>2, <2>3, <2>4
<1>7. more[m + 2 + n] = B!Entry(section)
  BY <1>2, <1>3
<1>8. Formed(more)
  <2>1. more # <<>> /\ more[Len(more)] # B!Blank
    BY <1>2, <1>3, <1>4, <1>7
  <2>2. \A i \in 1..(m + 2 + n) : i > 1 => i - 1 \in 1..(m + 2 + n)
    BY <1>3
  <2>3. \A i \in DOMAIN more :
          more[i].kind = "heading" =>
            /\ i - 1 \in DOMAIN more /\ more[i - 1] = B!Blank
            /\ i < Len(more) /\ more[i + 1] = B!Entry(more[i].of)
    BY <1>2, <1>3, <1>5, <2>2
  <2>4. \A i \in 1..(Len(more) - 1) : ~(more[i] = B!Blank /\ more[i + 1] = B!Blank)
    <3>1. Len(more) - 1 = m + 2 + n - 1
      BY <1>2, <1>3
    <3> QED
      BY <1>6, <3>1
  <2>5. more \in Seq(B!Line)
    BY <1>2
  <2> QED
    BY <2>1, <2>3, <2>4, <2>5 DEF Formed
<1> DEFINE few == HeadingsAt(lines)
           p == m + 2
           kept == Keep(lines, few)
<1>9. HeadingsAt(more) = few \cup {p} /\ few \in SUBSET (DOMAIN lines) /\ p \in DOMAIN more
  <2>1. p \in 1..(m + 2 + n)
    BY <1>3
  <2>2. \A i \in 1..(m + 2 + n) : more[i].kind = "heading" <=> (i \in 1..m /\ lines[i].kind = "heading") \/ i = p
    <3> SUFFICES ASSUME NEW i \in 1..(m + 2 + n)
                 PROVE  more[i].kind = "heading" <=> (i \in 1..m /\ lines[i].kind = "heading") \/ i = p
      OBVIOUS
    <3>1. CASE i \in 1..m
      BY <1>2, <1>3, <3>1
    <3>2. CASE i = m + 1
      BY <1>2, <1>3, <1>4, <3>2
    <3>3. CASE i = m + 2
      BY <1>2, <1>4, <3>3
    <3>4. CASE i > m + 2
      BY <1>2, <1>3, <1>4, <3>4
    <3> QED
      BY <1>3, <3>1, <3>2, <3>3, <3>4
  <2>3. 1..m \subseteq 1..(m + 2 + n)
    BY <1>3
  <2> HIDE DEF p
  <2> QED
    BY <1>3, <2>1, <2>2, <2>3 DEF HeadingsAt
<1>10. p > Len(lines)
  BY <1>3 DEF m
<1> HIDE DEF few, p
<1>11. Keep(more, few \cup {p}) = Append(kept, more[p])
  <2>1. lines \in Seq(B!Line) /\ added \in Seq(B!Line) /\ p \in DOMAIN (lines \o added)
    BY <1>2, <1>3, <1>9
  <2>2. Keep(lines \o added, few \cup {p}) = Append(Keep(lines, few), (lines \o added)[p])
    <3>1. few \in SUBSET (DOMAIN lines) /\ p > Len(lines)
      BY <1>9, <1>10
    <3> HIDE DEF kept
    <3> QED
      BY <2>1, <3>1, KeepOneMore, Zenon
  <2> QED
    BY <1>2, <2>2
<1>12. kept \in Seq(B!Line)
  BY <1>3, <1>9, KeepPicks
<1>13. B!FileSections(lines) = [i \in DOMAIN kept |-> kept[i].of]
  BY B_KeepIs DEF B!FileSections, HeadingsAt, few
<1>14. more[p] = B!Heading(section) /\ B!Heading(section) \in B!Line
  BY <1>2, B_LineType DEF p
<1> HIDE DEF kept
<1> DEFINE longer == Append(kept, B!Heading(section))
<1>15. B!FileSections(more) = [i \in DOMAIN longer |-> longer[i].of]
  BY <1>9, <1>11, <1>14, B_KeepIs DEF B!FileSections, HeadingsAt
<1>16. [i \in DOMAIN longer |-> longer[i].of] = Append([i \in DOMAIN kept |-> kept[i].of], section)
  <2> DEFINE of == [i \in DOMAIN kept |-> kept[i].of]
             k == Len(kept)
             T == B!ToSet(B!Sections) \cup {"brief"}
  <2>1. /\ k \in Nat /\ DOMAIN kept = 1..k /\ Len(longer) = k + 1 /\ DOMAIN longer = 1..(k + 1)
        /\ longer[k + 1] = B!Heading(section) /\ \A i \in 1..k : longer[i] = kept[i]
    BY <1>12, <1>14
  <2>2. of \in Seq(T) /\ Len(of) = k /\ \A i \in 1..k : of[i] = kept[i].of
    <3>1. \A i \in 1..k : kept[i] \in B!Line
      BY <1>12, <2>1
    <3>2. \A i \in 1..k : kept[i].of \in T
      BY <3>1 DEF B!Line
    <3> HIDE DEF T
    <3>3. of = [i \in 1..k |-> kept[i].of]
      BY <2>1
    <3> HIDE DEF of, k
    <3> QED
      BY <2>1, <3>2, <3>3
  <2> HIDE DEF longer, of, k, T
  <2>3. Append(of, section) = [i \in 1..(k + 1) |-> IF i <= k THEN of[i] ELSE section]
    <3> DEFINE ap == Append(of, section)
    <3>1. section \in T
      BY DEF T
    <3>2. ap \in Seq(T) /\ Len(ap) = k + 1 /\ ap[k + 1] = section /\ \A i \in 1..k : ap[i] = of[i]
      BY <2>2, <3>1
    <3> HIDE DEF ap
    <3>3. ap = [i \in 1..(k + 1) |-> ap[i]]
      BY <3>2
    <3>4. \A i \in 1..(k + 1) : ap[i] = IF i <= k THEN of[i] ELSE section
      BY <2>1, <3>2
    <3>5. ap = [i \in 1..(k + 1) |-> IF i <= k THEN of[i] ELSE section]
      BY <3>3, <3>4
    <3> QED
      BY <3>5 DEF ap
  <2>4. \A i \in 1..(k + 1) : longer[i].of = IF i <= k THEN of[i] ELSE section
    <3> SUFFICES ASSUME NEW i \in 1..(k + 1) PROVE longer[i].of = IF i <= k THEN of[i] ELSE section
      OBVIOUS
    <3>1. CASE i = k + 1
      BY <1>4, <2>1, <3>1
    <3>2. CASE i # k + 1
      BY <2>1, <2>2, <3>2
    <3> QED
      BY <3>1, <3>2
  <2>5. [i \in DOMAIN longer |-> longer[i].of] = Append(of, section)
    BY <2>1, <2>3, <2>4
  <2> QED
    BY <2>5 DEF of
<1> QED
  BY <1>8, <1>13, <1>15, <1>16
-----------------------------------------------------------------------------
(* BriefExport: the whole file.                                            *)

\* The sections that have something to say.
Spoken(a, sections) == {i \in DOMAIN sections : B!Cleaned(a[sections[i]]) # <<>>}

LEMMA B_Push ==
  ASSUME NEW a \in [B!ToSet(B!Sections) -> Seq(B!Text)],
         NEW sections \in Seq(B!ToSet(B!Sections)),
         NEW start, Formed(start), B!FileSections(start) = <<>>
  PROVE  /\ Formed(B!PushSections(a, sections, start))
         /\ B!FileSections(B!PushSections(a, sections, start)) = Keep(sections, Spoken(a, sections))
<1> DEFINE S == B!ToSet(B!Sections)
           n == Len(sections)
           P == Spoken(a, sections)
           step == [k \in DOMAIN sections |->
                      [lines \in Seq(B!Line) |-> B!PushListSection(lines, sections[k], a[sections[k]])]]
           good == [k \in 0..n |->
                      {lines \in Seq(B!Line) :
                         Formed(lines) /\ B!FileSections(lines) = Keep(SubSeq(sections, 1, k), P)}]
<1>1. n \in Nat /\ DOMAIN sections = 1..n /\ \A k \in 1..n : sections[k] \in S
  OBVIOUS
<1>2. start \in good[0]
  <2>1. SubSeq(sections, 1, 0) = <<>>
    BY <1>1
  <2>2. Keep(SubSeq(sections, 1, 0), P) = <<>>
    BY <2>1, KeepNone
  <2>3. start \in Seq(B!Line) /\ 0 \in 0..n
    BY <1>1 DEF Formed
  <2> QED
    BY <2>2, <2>3
<1>3. \A k \in 1..n : \A v \in good[k - 1] : step[k][v] \in good[k]
  <2> SUFFICES ASSUME NEW k \in 1..n, NEW v \in good[k - 1] PROVE step[k][v] \in good[k]
    OBVIOUS
  <2> DEFINE less == SubSeq(sections, 1, k - 1)
             section == sections[k]
             texts == a[section]
             more == B!PushListSection(v, section, texts)
  <2>1. k - 1 \in 0..n /\ k \in 0..n /\ k \in DOMAIN sections /\ section \in S
    BY <1>1
  <2>2. v \in Seq(B!Line) /\ Formed(v) /\ B!FileSections(v) = Keep(less, P)
    BY <2>1
  <2>3. texts \in Seq(B!Text)
    BY <2>1
  <2>4. step[k][v] = more
    BY <2>1, <2>2
  <2>5. SubSeq(sections, 1, k) = Append(less, section) /\ less \in Seq(S) /\ Len(less) + 1 = k
    BY <1>1, <2>1, SubSeqProperties
  <2>6. Keep(SubSeq(sections, 1, k), P) = IF k \in P THEN Append(Keep(less, P), section) ELSE Keep(less, P)
    <3> HIDE DEF less, section, P, S, good
    <3>1. Keep(Append(less, section), P) =
            IF Len(less) + 1 \in P THEN Append(Keep(less, P), section) ELSE Keep(less, P)
      BY <2>1, <2>5, KeepAppend
    <3> QED
      BY <2>5, <3>1
  <2>7. k \in P <=> B!Cleaned(texts) # <<>>
    BY <2>1 DEF Spoken
  <2> HIDE DEF less, section, texts, P, more
  <2>8. CASE B!Cleaned(texts) = <<>>
    <3>1. more = v
      BY <2>8 DEF more, B!PushListSection
    <3> QED
      BY <2>1, <2>2, <2>4, <2>6, <2>7, <2>8, <3>1
  <2>9. CASE B!Cleaned(texts) # <<>>
    <3>1. Formed(more) /\ B!FileSections(more) = Append(B!FileSections(v), section)
      BY <2>1, <2>2, <2>3, <2>9, B_PushFormed DEF more
    <3>2. more \in Seq(B!Line)
      BY <3>1 DEF Formed
    <3> QED
      BY <2>1, <2>2, <2>4, <2>6, <2>7, <2>9, <3>1, <3>2
  <2> QED
    BY <2>8, <2>9
<1>4. B!PushSections(a, sections, start) = Fold(step, start, n)
  BY B_FoldIs DEF B!PushSections
<1> HIDE DEF step
<1>5. Fold(step, start, n) \in good[n]
  <2> HIDE DEF good
  <2> QED
    BY <1>1, <1>2, <1>3, FoldKeeps
<1>6. n \in 0..n /\ SubSeq(sections, 1, n) = sections
  BY <1>1
<1> QED
  BY <1>4, <1>5, <1>6

\* The beginnings of the two files.
LEMMA B_Starts ==
  /\ Formed(<<B!Title, B!Blank, B!Intro>>)
  /\ B!FileSections(<<B!Title, B!Blank, B!Intro>>) = <<>>
  /\ Formed(<<B!Title, B!Blank, B!Intro, B!Blank, B!Intro>>)
  /\ B!FileSections(<<B!Title, B!Blank, B!Intro, B!Blank, B!Intro>>) = <<>>
<1>1. ASSUME NEW lines \in Seq(B!Line), \A i \in DOMAIN lines : lines[i].kind # "heading"
      PROVE  B!FileSections(lines) = <<>>
  <2>1. {i \in DOMAIN lines : lines[i].kind = "heading"} = {}
    BY <1>1
  <2>2. Keep(lines, {}) = <<>>
    <3>1. {} \in SUBSET (DOMAIN lines)
      OBVIOUS
    <3>2. PICK at : Picks(lines, {}, Keep(lines, {}), at)
      BY <3>1, KeepPicks
    <3>3. Keep(lines, {}) \in Seq(B!Line)
      BY <3>1, KeepPicks
    <3>4. Len(Keep(lines, {})) = 0
      BY <3>2, <3>3 DEF Picks
    <3> QED
      BY <3>3, <3>4
  <2>3. B!FileSections(lines) = [i \in DOMAIN <<>> |-> <<>>[i].of]
    BY <2>1, <2>2, B_KeepIs DEF B!FileSections
  <2>4. [i \in DOMAIN <<>> |-> <<>>[i].of] = <<>>
    OBVIOUS
  <2> QED
    BY <2>3, <2>4
<1>2. /\ B!Title \in B!Line /\ B!Blank \in B!Line /\ B!Intro \in B!Line
      /\ B!Title.kind = "title" /\ B!Blank.kind = "blank" /\ B!Intro.kind = "entry"
      /\ B!Title # B!Blank /\ B!Intro # B!Blank
  BY B_LineType DEF B!Title, B!Blank, B!Intro
<1> DEFINE first == <<B!Title, B!Blank, B!Intro>>
           second == <<B!Title, B!Blank, B!Intro, B!Blank, B!Intro>>
<1>3. /\ first \in Seq(B!Line) /\ Len(first) = 3 /\ DOMAIN first = 1..3
      /\ first[1] = B!Title /\ first[2] = B!Blank /\ first[3] = B!Intro
  BY <1>2
<1>4. /\ second \in Seq(B!Line) /\ Len(second) = 5 /\ DOMAIN second = 1..5
      /\ second[1] = B!Title /\ second[2] = B!Blank /\ second[3] = B!Intro
      /\ second[4] = B!Blank /\ second[5] = B!Intro
  BY <1>2
<1> HIDE DEF first, second
<1>5. \A i \in DOMAIN first : first[i].kind # "heading"
  BY <1>2, <1>3
<1>6. \A i \in DOMAIN second : second[i].kind # "heading"
  BY <1>2, <1>4
<1>7. Formed(first)
  <2>1. first # <<>> /\ first[Len(first)] # B!Blank
    <3>1. first[Len(first)] = B!Intro
      BY <1>3
    <3>2. first # <<>>
      BY <1>3
    <3> QED
      BY <1>2, <3>1, <3>2
  <2>2. \A i \in 1..(3 - 1) : ~(first[i] = B!Blank /\ first[i + 1] = B!Blank)
    <3> SUFFICES ASSUME NEW i \in 1..2 PROVE ~(first[i] = B!Blank /\ first[i + 1] = B!Blank)
      OBVIOUS
    <3>1. i = 1 \/ i = 2
      OBVIOUS
    <3> QED
      BY <1>2, <1>3, <3>1
  <2> QED
    BY <1>3, <1>5, <2>1, <2>2 DEF Formed
<1>8. Formed(second)
  <2>1. second # <<>> /\ second[Len(second)] # B!Blank
    <3>1. second[Len(second)] = B!Intro
      BY <1>4
    <3>2. second # <<>>
      <4>1. Len(second) # Len(<<>>)
        BY <1>4
      <4> QED
        BY <4>1
    <3> QED
      BY <1>2, <3>1, <3>2
  <2>2. \A i \in 1..(5 - 1) : ~(second[i] = B!Blank /\ second[i + 1] = B!Blank)
    <3> SUFFICES ASSUME NEW i \in 1..4 PROVE ~(second[i] = B!Blank /\ second[i + 1] = B!Blank)
      OBVIOUS
    <3>1. i = 1 \/ i = 2 \/ i = 3 \/ i = 4
      OBVIOUS
    <3> QED
      BY <1>2, <1>4, <3>1
  <2> QED
    BY <1>4, <1>6, <2>1, <2>2 DEF Formed
<1> QED
  BY <1>1, <1>3, <1>4, <1>5, <1>6, <1>7, <1>8 DEF first, second

-----------------------------------------------------------------------------
(* BriefExport: the file and the card.                                     *)

LEMMA B_SectionsType ==
  /\ B!Sections \in Seq(B!ToSet(B!Sections)) /\ DOMAIN B!Sections = 1..8 /\ Len(B!Sections) = 8
  /\ \A i \in 1..8 : B!Sections[i] \in B!ToSet(B!Sections)
  /\ \A i, j \in DOMAIN B!Sections : B!Sections[i] = B!Sections[j] => i = j
<1>1. DOMAIN B!Sections = 1..8 /\ Len(B!Sections) = 8
  BY DEF B!Sections
<1>2. \A i, j \in 1..8 : B!Sections[i] = B!Sections[j] => i = j
  BY DEF B!Sections
<1>3. B!Sections = [i \in 1..8 |-> B!Sections[i]]
  BY DEF B!Sections
<1>4. \A i \in 1..8 : B!Sections[i] \in B!ToSet(B!Sections)
  BY <1>1 DEF B!ToSet
<1>5. B!Sections \in Seq(B!ToSet(B!Sections))
  <2> DEFINE T == B!ToSet(B!Sections)
             s == B!Sections
  <2>1. s = [i \in 1..8 |-> s[i]] /\ \A i \in 1..8 : s[i] \in T
    BY <1>3, <1>4
  <2> HIDE DEF s, T
  <2>2. s \in Seq(T)
    BY <2>1
  <2> QED
    BY <2>2 DEF s, T
<1> QED
  BY <1>1, <1>2, <1>4, <1>5

LEMMA B_ArtifactType ==
  ASSUME B!BriefExportAssumption, NEW a \in B!DefenseBriefArtifact
  PROVE  a \in [B!ToSet(B!Sections) -> Seq(B!Text)]
<1>1. B!List \subseteq Seq(B!Text)
  BY DEF B!List, B!BriefExportAssumption
<1>2. a \in [B!ToSet(B!Sections) -> B!List]
  BY DEF B!DefenseBriefArtifact
<1> QED
  BY <1>1, <1>2

\* The file has some of the card's sections, in the order of all.
Abridges(lines, a) ==
  \E few \in SUBSET (DOMAIN B!Sections) :
    /\ \A i \in few : a[B!Sections[i]] # <<>>
    /\ B!FileSections(lines) = Keep(B!Sections, few)

LEMMA B_SpokenShown ==
  ASSUME NEW a \in [B!ToSet(B!Sections) -> Seq(B!Text)],
         NEW section \in B!ToSet(B!Sections), B!Cleaned(a[section]) # <<>>
  PROVE  a[section] # <<>>
<1>1. a[section] \in Seq(B!Text)
  OBVIOUS
<1> QED
  BY <1>1, B_Cleaned

LEMMA B_Markdown ==
  ASSUME NEW a \in [B!ToSet(B!Sections) -> Seq(B!Text)],
         NEW lines, lines = B!FormatDefenseBriefMarkdown(a)
  PROVE  Formed(lines) /\ Abridges(lines, a)
<1> DEFINE few == Spoken(a, B!Sections)
<1>1. Formed(lines) /\ B!FileSections(lines) = Keep(B!Sections, few)
  BY B_SectionsType, B_Starts, B_Push DEF B!FormatDefenseBriefMarkdown
<1>2. few \in SUBSET (DOMAIN B!Sections)
  BY DEF Spoken
<1>3. \A i \in few : a[B!Sections[i]] # <<>>
  <2> SUFFICES ASSUME NEW i \in few PROVE a[B!Sections[i]] # <<>>
    OBVIOUS
  <2>1. B!Cleaned(a[B!Sections[i]]) # <<>> /\ i \in DOMAIN B!Sections
    BY DEF Spoken
  <2>2. B!Sections[i] \in B!ToSet(B!Sections)
    BY <2>1, B_SectionsType
  <2> QED
    BY <2>1, <2>2, B_SpokenShown
<1> QED
  BY <1>1, <1>2, <1>3 DEF Abridges
\* The file of an analysis has the second, third and fourth section.
LEMMA B_Analysis ==
  ASSUME NEW a \in [B!ToSet(B!Sections) -> Seq(B!Text)],
         NEW lines, lines = B!FormatAnalysisDefenseBriefMarkdown(a)
  PROVE  Formed(lines) /\ Abridges(lines, a)
<1> DEFINE three == <<"evidence_gaps", "pressure_questions", "next_moves">>
           P == Spoken(a, three)
           S == B!ToSet(B!Sections)
           kept == Keep(three, P)
           n == Len(kept)
           few == {i \in 2..4 : i - 1 \in P}
<1>1. /\ DOMAIN three = 1..3 /\ Len(three) = 3
      /\ \A i \in 1..3 : three[i] = B!Sections[i + 1] /\ i + 1 \in DOMAIN B!Sections
  <2>1. DOMAIN three = 1..3 /\ Len(three) = 3
    OBVIOUS
  <2>2. three[1] = B!Sections[2] /\ three[2] = B!Sections[3] /\ three[3] = B!Sections[4]
    BY DEF B!Sections
  <2>3. \A i \in 1..3 : i = 1 \/ i = 2 \/ i = 3
    OBVIOUS
  <2> HIDE DEF three
  <2> QED
    BY <2>1, <2>2, <2>3, B_SectionsType
<1>2. \A i \in 1..3 : three[i] \in S
  <2> HIDE DEF three, S
  <2> QED
    BY <1>1, B_SectionsType DEF S
<1>3. three \in Seq(S)
  <2>1. three = [i \in 1..3 |-> three[i]]
    OBVIOUS
  <2> HIDE DEF three, S
  <2> QED
    BY <1>2, <2>1
<1>4. lines = B!PushSections(a, three, <<B!Title, B!Blank, B!Intro, B!Blank, B!Intro>>)
  BY DEF B!FormatAnalysisDefenseBriefMarkdown
<1> HIDE DEF three
<1>5. Formed(lines) /\ B!FileSections(lines) = kept
  BY <1>3, <1>4, B_Starts, B_Push
<1>6. P \in SUBSET (DOMAIN three) /\ \A i \in P : B!Cleaned(a[three[i]]) # <<>>
  BY DEF Spoken
<1> HIDE DEF P
<1>7. kept \in Seq(S)
  BY <1>3, <1>6, KeepPicks
<1>8. PICK at : Picks(three, P, kept, at)
  BY <1>3, <1>6, KeepPicks
<1> HIDE DEF kept, S
<1>9. n \in Nat
  BY <1>7
<1>10. /\ at \in [1..n -> P] /\ \A k \in 1..n : kept[k] = three[at[k]]
       /\ \A k, l \in 1..n : k < l => at[k] < at[l]
       /\ \A i \in P : \E k \in 1..n : at[k] = i
  BY <1>8 DEF Picks
<1> HIDE DEF n
<1> DEFINE to == [k \in 1..n |-> at[k] + 1]
<1>11. \A k \in 1..n : at[k] \in 1..3 /\ at[k] \in P
  BY <1>1, <1>6, <1>10
<1>12. \A k \in 1..n : to[k] = at[k] + 1 /\ to[k] \in few /\ kept[k] = B!Sections[to[k]]
  <2> SUFFICES ASSUME NEW k \in 1..n
               PROVE  to[k] = at[k] + 1 /\ to[k] \in few /\ kept[k] = B!Sections[to[k]]
    OBVIOUS
  <2>1. at[k] \in 1..3 /\ at[k] \in P /\ kept[k] = three[at[k]]
    BY <1>10, <1>11
  <2>2. to[k] \in 2..4 /\ to[k] - 1 = at[k] /\ to[k] = at[k] + 1
    BY <2>1
  <2> QED
    BY <1>1, <2>1, <2>2
<1>13. to \in [1..n -> few]
  <2>1. to = [k \in 1..n |-> to[k]]
    OBVIOUS
  <2> HIDE DEF to, few
  <2> QED
    BY <1>12, <2>1
<1>14. \A k, l \in 1..n : k < l => to[k] < to[l]
  <2> SUFFICES ASSUME NEW k \in 1..n, NEW l \in 1..n, k < l PROVE to[k] < to[l]
    OBVIOUS
  <2>1. at[k] \in 1..3 /\ at[l] \in 1..3 /\ at[k] < at[l]
    BY <1>10, <1>11
  <2> QED
    BY <1>12, <2>1
<1>15. \A i \in few : \E k \in 1..n : to[k] = i
  <2> SUFFICES ASSUME NEW i \in few PROVE \E k \in 1..n : to[k] = i
    OBVIOUS
  <2>1. i \in 2..4 /\ i - 1 \in P
    OBVIOUS
  <2>2. PICK k \in 1..n : at[k] = i - 1
    BY <1>10, <2>1
  <2>3. to[k] = i
    BY <1>12, <2>1, <2>2
  <2> QED
    BY <2>3
<1>16. Picks(B!Sections, few, kept, to)
  <2> HIDE DEF to, few
  <2> QED
    BY <1>12, <1>13, <1>14, <1>15 DEF Picks, n
<1>17. few \in SUBSET (DOMAIN B!Sections)
  BY B_SectionsType
<1>18. \A i \in few : a[B!Sections[i]] # <<>>
  <2> SUFFICES ASSUME NEW i \in few PROVE a[B!Sections[i]] # <<>>
    OBVIOUS
  <2>1. i - 1 \in P /\ i - 1 \in 1..3 /\ (i - 1) + 1 = i
    BY <1>1, <1>6
  <2>2. three[i - 1] = B!Sections[i] /\ i \in DOMAIN B!Sections
    BY <1>1, <2>1
  <2>3. B!Cleaned(a[B!Sections[i]]) # <<>>
    BY <1>6, <2>1, <2>2
  <2>4. B!Sections[i] \in B!ToSet(B!Sections)
    BY <2>2, B_SectionsType
  <2> QED
    BY <2>3, <2>4, B_SpokenShown
<1> HIDE DEF few, to
<1>19. kept = Keep(B!Sections, few)
  <2> DEFINE all == B!Sections
             T == B!ToSet(B!Sections)
  <2>1. all \in Seq(T) /\ few \in SUBSET (DOMAIN all) /\ kept \in Seq(T) /\ Picks(all, few, kept, to)
    BY <1>7, <1>16, <1>17, B_SectionsType DEF S
  <2> HIDE DEF all, T
  <2>2. kept = Keep(all, few)
    BY <2>1, PicksOnce
  <2> QED
    BY <2>2 DEF all
<1> QED
  BY <1>5, <1>17, <1>18, <1>19 DEF Abridges

\* A file that is Formed and Abridges the card is well formed.
LEMMA B_WellFormed ==
  ASSUME NEW a \in [B!ToSet(B!Sections) -> Seq(B!Text)], a = artifact,
         copied = <<>> \/ Formed(copied), Abridges(copied, a)
  PROVE  B!FileIsWellFormed
<1> DEFINE S == B!ToSet(B!Sections)
           many == {i \in DOMAIN B!Sections : a[B!Sections[i]] # <<>>}
           card == Keep(B!Sections, many)
           written == B!FileSections(copied)
           places == {i \in DOMAIN card : card[i] \in B!ToSet(written)}
<1>1. PICK few \in SUBSET (DOMAIN B!Sections) :
        (\A i \in few : a[B!Sections[i]] # <<>>) /\ written = Keep(B!Sections, few)
  BY DEF Abridges
<1>2. few \subseteq many /\ many \in SUBSET (DOMAIN B!Sections)
  BY <1>1
<1>3. B!CardSections(artifact) = card
  BY B_KeepIs DEF B!CardSections
<1> HIDE DEF many, written
<1>4. B!IsInjective(written)
  <2>1. \A k, m \in DOMAIN written : written[k] = written[m] => k = m
    <3> DEFINE all == B!Sections
    <3>1. /\ all \in Seq(S) /\ few \in SUBSET (DOMAIN all)
          /\ \A i, j \in DOMAIN all : all[i] = all[j] => i = j
      BY B_SectionsType
    <3> HIDE DEF all, S
    <3>2. \A k, m \in DOMAIN Keep(all, few) : Keep(all, few)[k] = Keep(all, few)[m] => k = m
      BY <3>1, PicksDistinct
    <3> QED
      BY <1>1, <3>2 DEF all
  <2> QED
    BY <2>1 DEF B!IsInjective
<1>5. B!Keep(card, places) = written
  <2>1. places = {i \in DOMAIN card : \E k \in DOMAIN Keep(B!Sections, few) :
                                        card[i] = Keep(B!Sections, few)[k]}
    BY <1>1 DEF B!ToSet
  <2> HIDE DEF places
  <2>2. Keep(card, places) = Keep(B!Sections, few)
    <3> DEFINE all == B!Sections
    <3>1. /\ all \in Seq(S) /\ few \in SUBSET (DOMAIN all) /\ many \in SUBSET (DOMAIN all)
          /\ few \subseteq many /\ \A i, j \in DOMAIN all : all[i] = all[j] => i = j
      BY <1>2, B_SectionsType
    <3>2. places = {i \in DOMAIN Keep(all, many) : \E k \in DOMAIN Keep(all, few) :
                                        Keep(all, many)[i] = Keep(all, few)[k]}
      BY <2>1
    <3> HIDE DEF all, S
    <3>3. Keep(Keep(all, many), places) = Keep(all, few)
      BY <3>1, <3>2, PicksWithin
    <3> QED
      BY <3>3 DEF all
  <2> QED
    BY <1>1, <2>2, B_KeepIs
<1>6. \A i \in DOMAIN copied :
        copied[i].kind = "heading" =>
          /\ copied[i - 1] = B!Blank
          /\ i < Len(copied) /\ copied[i + 1] = B!Entry(copied[i].of)
  BY DEF Formed
<1>7. \A i \in 1..(Len(copied) - 1) : ~(copied[i] = B!Blank /\ copied[i + 1] = B!Blank)
  <2>1. CASE copied = <<>>
    BY <2>1
  <2>2. CASE Formed(copied)
    BY <2>2 DEF Formed
  <2> QED
    BY <2>1, <2>2
<1> QED
  BY <1>3, <1>4, <1>5, <1>6, <1>7 DEF B!FileIsWellFormed, written

-----------------------------------------------------------------------------
(* BriefExport: the steps.                                                 *)

B_Inv ==
  /\ artifact \in B!DefenseBriefArtifact
  /\ copied \in {<<>>, B!FormatDefenseBriefMarkdown(artifact),
                 B!FormatAnalysisDefenseBriefMarkdown(artifact)}

LEMMA B_InitHolds == ASSUME B!Init PROVE B_Inv
BY DEF B!Init, B_Inv

LEMMA B_Step == ASSUME B_Inv, B!Next PROVE B_Inv'
BY DEF B_Inv, B!Next, B!HandleCopyMarkdown, B!HandleCopyAnalysis

LEMMA B_Idle == ASSUME B_Inv, UNCHANGED briefVars PROVE B_Inv'
BY DEF B_Inv, briefVars

LEMMA B_Holds ==
  ASSUME B!BriefExportAssumption, B_Inv
  PROVE  B!TypeOK /\ B!FileIsWellFormed
<1>1. artifact \in [B!ToSet(B!Sections) -> Seq(B!Text)]
  BY B_ArtifactType DEF B_Inv
<1>2. copied = <<>> => Abridges(copied, artifact)
  <2>1. SUFFICES ASSUME copied = <<>> PROVE Abridges(copied, artifact)
    OBVIOUS
  <2>2. {i \in DOMAIN <<>> : <<>>[i].kind = "heading"} = {}
    OBVIOUS
  <2>3. B!FileSections(<<>>) = [i \in DOMAIN <<>> |-> <<>>[i].of]
    BY B_KeepIs, KeepNone DEF B!FileSections
  <2>4. [i \in DOMAIN <<>> |-> <<>>[i].of] = <<>>
    OBVIOUS
  <2>5. {} \in SUBSET (DOMAIN B!Sections)
    OBVIOUS
  <2>6. PICK at : Picks(B!Sections, {}, Keep(B!Sections, {}), at)
    BY <2>5, B_SectionsType, KeepPicks
  <2>7. Keep(B!Sections, {}) \in Seq(B!ToSet(B!Sections))
    BY <2>5, B_SectionsType, KeepPicks
  <2>8. Len(Keep(B!Sections, {})) = 0
    BY <2>6, <2>7 DEF Picks
  <2>9. Keep(B!Sections, {}) = <<>>
    BY <2>7, <2>8
  <2> QED
    BY <2>1, <2>3, <2>4, <2>5, <2>9 DEF Abridges
<1>3. copied = <<>> \/ Formed(copied)
  BY <1>1, B_Markdown, B_Analysis DEF B_Inv
<1>4. Abridges(copied, artifact)
  BY <1>1, <1>2, B_Markdown, B_Analysis DEF B_Inv
<1>5. B!FileIsWellFormed
  BY <1>1, <1>3, <1>4, B_WellFormed
<1>6. copied \in Seq(B!Line)
  <2>1. <<>> \in Seq(B!Line)
    OBVIOUS
  <2> QED
    BY <1>3, <2>1 DEF Formed
<1> QED
  BY <1>5, <1>6 DEF B!TypeOK, B_Inv

-----------------------------------------------------------------------------
(* All components.                                                         *)

MaterialInv ==
  /\ focus \in {"upload", "documents", "analysis", "brief"}
  /\ U_Inv
  /\ focus = "documents" => D_Inv
  /\ focus = "analysis" => A_Inv
  /\ focus = "brief" => B_Inv

LEMMA MaterialInitHolds == ASSUME MaterialInit PROVE MaterialInv
BY Assumptions, U_InitHolds, D_InitHolds, A_InitHolds, B_InitHolds
DEF MaterialInit, NoUpload, MaterialInv

LEMMA MaterialStep == ASSUME MaterialInv, [MaterialNext]_materialVars PROVE MaterialInv'
<1> USE Assumptions DEF MaterialInv
<1>1. CASE focus = "upload" /\ Next /\ focus' = focus
  BY <1>1, U_Step
<1>2. CASE focus = "documents" /\ D!Next /\ UNCHANGED vars /\ focus' = focus
  BY <1>2, U_Step, D_Step
<1>3. CASE focus = "analysis" /\ A!Next /\ UNCHANGED vars /\ focus' = focus
  BY <1>3, U_Step, A_Step
<1>4. CASE focus = "brief" /\ B!Next /\ UNCHANGED vars /\ focus' = focus
  BY <1>4, U_Step, B_Step
<1>5. CASE UNCHANGED materialVars
  <2>1. /\ UNCHANGED vars /\ UNCHANGED documentsVars /\ UNCHANGED analysisVars
        /\ UNCHANGED briefVars /\ focus' = focus
    BY <1>5 DEF materialVars
  <2> QED
    BY <2>1, U_Step, D_Idle, A_Idle, B_Idle
<1> QED
  BY <1>1, <1>2, <1>3, <1>4, <1>5 DEF MaterialNext

LEMMA MaterialInductive == MaterialSpec => []MaterialInv
<1>1. MaterialInit => MaterialInv
  BY MaterialInitHolds
<1>2. MaterialInv /\ [MaterialNext]_materialVars => MaterialInv'
  BY MaterialStep
<1> QED
  BY <1>1, <1>2, PTL DEF MaterialSpec

\* Every variable of Upload, Documents, Analysis and BriefExport keeps its type,
\* the lines of the exported file among them, whatever the page and the server
\* do (page.tsx, drafts.py:70-118, defense-brief-export.ts:29-103).
THEOREM TypeCorrect == MaterialSpec => []TypesOK
<1>1. MaterialInv => TypesOK
  BY Assumptions, B_Holds DEF MaterialInv, TypesOK, U_Inv, D_Inv, A_Inv
<1> QED
  BY <1>1, MaterialInductive, PTL

\* No draft outlives its document, whichever of the upload's late requests and
\* the deletion comes first (models/draft.py:20-22, documents.py:189-209).
THEOREM DraftsHaveDocuments == MaterialSpec => []DraftHasDocument
<1>1. MaterialInv => DraftHasDocument
  BY DEF MaterialInv, U_Inv
<1> QED
  BY <1>1, MaterialInductive, PTL

\* The list never shows an empty page while documents match, whatever is
\* deleted, searched and filtered on the last one, for any number of documents
\* and any size of a page (documents/page.tsx:75-90).
THEOREM NoEmptyPage == MaterialSpec => []PageIsNotEmpty
<1>1. MaterialInv => PageIsNotEmpty
  BY Assumptions, D_PageIsNotEmpty DEF MaterialInv, PageIsNotEmpty
<1> QED
  BY <1>1, MaterialInductive, PTL

\* However annotations overlap, nest or miss the text, the segments are the
\* whole text in its order, and an annotation that is not marked begins within
\* a marked one (analysis/[id]/page.tsx:139-154).
THEOREM WholeText == MaterialSpec => []SegmentsAreTheText
<1>1. MaterialInv => SegmentsAreTheText
  BY Assumptions, A_Shown DEF MaterialInv, SegmentsAreTheText
<1> QED
  BY <1>1, MaterialInductive, PTL

\* The brief of any analysis repeats nothing, keeps its limit, and leaves a note
\* out only for notes that are as grave (analysis/[id]/page.tsx:89-137).
THEOREM GraverFirst == MaterialSpec => []BriefIsOrdered
<1>1. MaterialInv => BriefIsOrdered
  BY Assumptions, A_Shown DEF MaterialInv, BriefIsOrdered
<1> QED
  BY <1>1, MaterialInductive, PTL

\* The page shows the analysis that is stored, and the opened annotation is one
\* of it, however many requests, reloads and timers there are
\* (drafts.py:70-118, analysis/[id]/page.tsx:694-709, 1093).
THEOREM ShownStored == MaterialSpec => []ShownIsStored
<1>1. MaterialInv => ShownIsStored
  BY Assumptions, A_Shown DEF MaterialInv, ShownIsStored
<1> QED
  BY <1>1, MaterialInductive, PTL

\* Both files of any brief have sections of the card only, in its order and once,
\* each with an entry under a heading that one empty line sets off
\* (defense-brief-export.ts:29-103, PrepCard.tsx:132-278).
THEOREM FileWellFormed == MaterialSpec => []FileIsWellFormed
<1>1. MaterialInv => FileIsWellFormed
  BY Assumptions, B_Holds DEF MaterialInv, FileIsWellFormed
<1> QED
  BY <1>1, MaterialInductive, PTL
=============================================================================
