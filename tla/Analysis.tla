------------------------------ MODULE Analysis ------------------------------
(* The analysis of a material: POST /drafts/{id}/analyze, and the page that *)
(* asks for it and shows it: the text cut into segments by its annotations, *)
(* the Defense Brief made of them, the panel or sheet of one annotation.    *)
EXTENDS Integers, Lists, FiniteSets, SequencesExt

CONSTANTS
  Requests,    \* POST /drafts/{id}/analyze requests
  Length,      \* characters of the material
  Notes,       \* the annotations an analysis may have
  MaxNotes,    \* bound: annotations of an analysis
  MaxItems,    \* entries of a section of the brief
  MaxVisits,   \* bound: page loads
  None

IssueType == {"grammar", "logic", "clarity", "style"}
Severity == <<"high", "medium", "low">>

\* text.indexOf gives the first place of the quoted text, or -1; comment is
\* what is left of the note after shortening, Blank if nothing is.
Annotation == [at : -1..Length, len : 0..Length, issue_type : IssueType,
               severity : ToSet(Severity), comment : STRING]

AnalysisAssumption ==
  /\ Length \in Nat /\ MaxNotes \in Nat /\ {MaxItems, MaxVisits} \subseteq Nat \ {0}
  /\ Notes \subseteq Annotation
  /\ \A note \in Notes : note.at + note.len <= Length
  /\ {None, "loading", "error"} \cap Requests = {}
  /\ None \notin 1..MaxNotes

VARIABLES
  \* the page
  shown,         \* the draft as the page has it: its analysis, None, or "loading"
  visits,
  isAnalyzing,   \* the request the page waits for, or None
  analyzeError,
  refetching,
  sheetIdx,      \* the opened annotation, or None
  taps,          \* timers that will open an annotation
  mobileTab, desktopView, isDesktop, activeFilter,
  \* the server
  notes,         \* the annotations of the analysis that is inserted
  request,       \* where each request is
  stored         \* the request whose analysis is the draft's, or None

ui == <<sheetIdx, taps, mobileTab, desktopView, isDesktop, activeFilter>>
server == <<notes, request, stored>>
vars == <<shown, visits, isAnalyzing, analyzeError, refetching, ui, server>>

Lists == UNION {[1..n -> Notes] : n \in 0..MaxNotes}

Init ==
  /\ shown = "loading" /\ visits = 1
  /\ isAnalyzing = None /\ analyzeError = FALSE /\ refetching = FALSE
  /\ sheetIdx = None /\ taps = {}
  /\ mobileTab = "text" /\ desktopView = "text" /\ activeFilter = None
  /\ isDesktop \in BOOLEAN
  /\ notes = <<>>
  /\ request = [r \in Requests |-> "idle"] /\ stored = None

HasAnalysis == shown \in Requests
Annotations == IF HasAnalysis THEN notes ELSE <<>>

-----------------------------------------------------------------------------
(* The text as segments.                                                   *)

\* An annotation whose quotation is not in the text has no interval.
Interval(annotations, i) ==
  [s |-> annotations[i].at, e |-> annotations[i].at + annotations[i].len, i |-> i]

\* The sort is stable: place after place, each with its intervals as they come.
SortedIntervals(annotations) ==
  LET all == [i \in DOMAIN annotations |-> Interval(annotations, i)]
  IN Fold([place \in 1..(Length + 1) |->
             [sorted \in Seq(ToSet(all)) |->
                sorted \o Keep(all, {i \in DOMAIN all : all[i].s = place - 1})]],
          <<>>, Length + 1)

Plain(s, e) == [s |-> s, e |-> e, idx |-> None]

\* Variant: overlapping intervals are not left out.
AddEveryInterval(acc, iv) ==
  [cur |-> iv.e,
   out |-> acc.out
             \o (IF iv.s > acc.cur THEN <<Plain(acc.cur, iv.s)>> ELSE <<>>)
             \o <<[s |-> iv.s, e |-> iv.e, idx |-> iv.i]>>]

\* One interval: it is left out if it begins before what is already cut.
AddInterval(acc, iv) ==
  IF iv.s < acc.cur THEN acc
  ELSE [cur |-> iv.e,
        out |-> acc.out
                  \o (IF iv.s > acc.cur THEN <<Plain(acc.cur, iv.s)>> ELSE <<>>)
                  \o <<[s |-> iv.s, e |-> iv.e, idx |-> iv.i]>>]

Cut == [cur : 0..Length, out : Seq([s : 0..Length, e : 0..Length, idx : Nat \cup {None}])]

BuildSegments(annotations) ==
  LET ivs == SortedIntervals(annotations)
      cut == Fold([k \in DOMAIN ivs |-> [acc \in Cut |-> AddInterval(acc, ivs[k])]],
                  [cur |-> 0, out |-> <<>>], Len(ivs))
  IN cut.out \o (IF cut.cur < Length THEN <<Plain(cut.cur, Length)>> ELSE <<>>)

-----------------------------------------------------------------------------
(* The Defense Brief of the page.                                          *)

\* A text of which nothing is left.
Blank == ""

\* Blank and repeated entries are dropped, and what is over the limit.
UniqueBriefItems(items) ==
  Fold([k \in DOMAIN items |->
          [out \in Seq(STRING) |->
             IF items[k] = Blank \/ items[k] \in ToSet(out) \/ Len(out) >= MaxItems THEN out
             ELSE Append(out, items[k])]],
       <<>>, Len(items))

Rank(note) == CHOOSE i \in DOMAIN Severity : Severity[i] = note.severity

OfRank(annotations, rank) ==
  Keep(annotations, {i \in DOMAIN annotations : Rank(annotations[i]) = rank})

\* Variant: the notes stay in the order of the analysis.
AsAnalysed(annotations) == annotations

BySeverity(annotations) ==
  OfRank(annotations, 1) \o OfRank(annotations, 2) \o OfRank(annotations, 3)

Comments(annotations) == [i \in DOMAIN annotations |-> annotations[i].comment]

PressureQuestions(annotations) == UniqueBriefItems(Comments(BySeverity(annotations)))

EvidenceGaps(annotations) ==
  LET sorted == BySeverity(annotations)
  IN UniqueBriefItems(Comments(Keep(sorted,
       {i \in DOMAIN sorted : sorted[i].issue_type \in {"logic", "clarity"}})))

\* A section of the model's own brief goes before the page's.
BuildDefenseBrief(own, annotations) ==
  [gaps      |-> IF UniqueBriefItems(own) # <<>> THEN UniqueBriefItems(own)
                 ELSE EvidenceGaps(annotations),
   questions |-> PressureQuestions(annotations)]

-----------------------------------------------------------------------------
(* The server.                                                             *)

Advance(r, pc) == request' = [request EXCEPT ![r] = pc]

\* The draft is read: a stored analysis is returned as it is.
LoadDraft(r) ==
  /\ request[r] = "sent"
  /\ Advance(r, IF stored # None THEN "answered" ELSE "analysing")
  /\ UNCHANGED <<shown, visits, isAnalyzing, analyzeError, refetching, ui, notes, stored>>

AiFails(r) ==
  /\ request[r] = "analysing"
  /\ Advance(r, "failed")
  /\ UNCHANGED <<shown, visits, isAnalyzing, analyzeError, refetching, ui, notes, stored>>

Inserting == {r \in Requests : request[r] \in {"flushed", "responded"}}

\* Variant: draft_id is not unique.
FlushAnotherAnalysis(r) ==
  /\ request[r] = "analysing" /\ Inserting = {}
  /\ Advance(r, "flushed") /\ notes' \in Lists
  /\ UNCHANGED <<shown, visits, isAnalyzing, analyzeError, refetching, ui, stored>>

\* draft_id is unique: the insert waits for one that is not committed yet,
\* and fails once it is.
FlushAnalysis(r) ==
  /\ request[r] = "analysing" /\ Inserting = {}
  /\ IF stored = None
     THEN Advance(r, "flushed") /\ notes' \in Lists
     ELSE Advance(r, "failed") /\ notes' = notes
  /\ UNCHANGED <<shown, visits, isAnalyzing, analyzeError, refetching, ui, stored>>

\* get_db commits when the response may already be with the page.
Commit(r) ==
  /\ request[r] \in {"flushed", "responded"}
  /\ Advance(r, IF request[r] = "flushed" THEN "answered" ELSE "done")
  /\ stored' = r
  /\ UNCHANGED <<shown, visits, isAnalyzing, analyzeError, refetching, ui, notes>>

-----------------------------------------------------------------------------
(* The page: loading, asking, showing.                                     *)

\* GET /drafts/{id}, on load and after an analysis.
FetchDraft ==
  /\ shown = "loading" \/ refetching
  /\ shown' = stored
  /\ refetching' = FALSE
  /\ isAnalyzing' = IF refetching THEN None ELSE isAnalyzing
  /\ UNCHANGED <<visits, analyzeError, ui, server>>

\* On load the page says so; a refetch keeps the draft it has.
FetchDraftFails ==
  /\ shown = "loading" \/ refetching
  /\ shown' = IF refetching THEN shown ELSE "error"
  /\ refetching' = FALSE
  /\ isAnalyzing' = IF refetching THEN None ELSE isAnalyzing
  /\ UNCHANGED <<visits, analyzeError, ui, server>>

\* The page without an analysis has one button.
AnalyzeOffered == shown = None /\ isAnalyzing = None

RunAnalysis(r) ==
  /\ AnalyzeOffered /\ request[r] = "idle"
  /\ isAnalyzing' = r /\ analyzeError' = FALSE
  /\ Advance(r, "sent")
  /\ UNCHANGED <<shown, visits, refetching, ui, notes, stored>>

ReceiveAnalysis ==
  /\ isAnalyzing # None /\ request[isAnalyzing] \in {"flushed", "answered"}
  /\ refetching' = TRUE
  /\ Advance(isAnalyzing, IF request[isAnalyzing] = "flushed" THEN "responded" ELSE "done")
  /\ UNCHANGED <<shown, visits, isAnalyzing, analyzeError, ui, notes, stored>>

\* An error status, or an answer that is lost while the request goes on.
AnalysisFails ==
  /\ isAnalyzing # None /\ ~refetching
  /\ analyzeError' = TRUE /\ isAnalyzing' = None
  /\ UNCHANGED <<shown, visits, refetching, ui, server>>

\* Loaded anew, the page knows nothing of a request that still runs.
Reload ==
  /\ visits < MaxVisits
  /\ visits' = visits + 1
  /\ shown' = "loading"
  /\ isAnalyzing' = None /\ analyzeError' = FALSE /\ refetching' = FALSE
  /\ sheetIdx' = None /\ taps' = {}
  /\ mobileTab' = "text" /\ desktopView' = "text" /\ activeFilter' = None
  /\ UNCHANGED <<isDesktop, server>>

-----------------------------------------------------------------------------
(* The page: moving through the annotations.                               *)

ViewOnly == UNCHANGED <<shown, visits, isAnalyzing, analyzeError, refetching, server>>

Passes(i) == activeFilter = None \/ Annotations[i].issue_type = activeFilter

\* The marks in the text that can be pressed: those of the filter.
TextShown == IF isDesktop THEN desktopView = "text" ELSE mobileTab = "text"
Marks == {seg.idx : seg \in ToSet(BuildSegments(Annotations))} \ {None}
Tappable == IF HasAnalysis /\ TextShown THEN {i \in Marks : Passes(i)} ELSE {}

HandleTap(i) ==
  /\ i \in Tappable
  /\ sheetIdx' = i
  /\ UNCHANGED <<taps, mobileTab, desktopView, isDesktop, activeFilter>>
  /\ ViewOnly

\* On the desktop a click beside the marks closes, so does Escape anywhere.
CloseSheet ==
  /\ HasAnalysis
  /\ sheetIdx' = None
  /\ UNCHANGED <<taps, mobileTab, desktopView, isDesktop, activeFilter>>
  /\ ViewOnly

\* The narrow page's cards, in the order of the analysis.
Cards == IF HasAnalysis /\ ~isDesktop /\ mobileTab = "issues"
         THEN {i \in DOMAIN Annotations : Passes(i)} ELSE {}

\* A card opens the text, and its annotation 250 ms later.
ClickIssueCard(i) ==
  /\ i \in Cards
  /\ mobileTab' = "text"
  /\ taps' = taps \cup {i}
  /\ UNCHANGED <<sheetIdx, desktopView, isDesktop, activeFilter>>
  /\ ViewOnly

\* The timer outlives the page's own state.
DelayedTap(i) ==
  /\ i \in taps
  /\ sheetIdx' = i /\ taps' = taps \ {i}
  /\ UNCHANGED <<mobileTab, desktopView, isDesktop, activeFilter>>
  /\ ViewOnly

\* The side panel of the wide page, or the sheet of the narrow one.
DetailShown == HasAnalysis /\ sheetIdx # None

OnPrev ==
  /\ DetailShown /\ sheetIdx # 1
  /\ sheetIdx' = sheetIdx - 1
  /\ UNCHANGED <<taps, mobileTab, desktopView, isDesktop, activeFilter>>
  /\ ViewOnly

OnNext ==
  /\ DetailShown /\ sheetIdx # Len(Annotations)
  /\ sheetIdx' = sheetIdx + 1
  /\ UNCHANGED <<taps, mobileTab, desktopView, isDesktop, activeFilter>>
  /\ ViewOnly

\* The pills: one for each type that occurs; on the wide page they are in the
\* summary, which a detail replaces.
Pills ==
  IF ~HasAnalysis \/ (isDesktop /\ DetailShown) \/ (~isDesktop /\ mobileTab = "improved")
  THEN {} ELSE {Annotations[i].issue_type : i \in DOMAIN Annotations}

OnFilter(type) ==
  /\ type \in Pills
  /\ activeFilter' = IF activeFilter = type THEN None ELSE type
  /\ UNCHANGED <<sheetIdx, taps, mobileTab, desktopView, isDesktop>>
  /\ ViewOnly

ClearFilter ==
  /\ Pills # {}
  /\ activeFilter' = None
  /\ UNCHANGED <<sheetIdx, taps, mobileTab, desktopView, isDesktop>>
  /\ ViewOnly

SetMobileTab(tab) ==
  /\ HasAnalysis /\ ~isDesktop
  /\ mobileTab' = tab
  /\ UNCHANGED <<sheetIdx, taps, desktopView, isDesktop, activeFilter>>
  /\ ViewOnly

SetDesktopView(view) ==
  /\ HasAnalysis /\ isDesktop
  /\ desktopView' = view
  /\ UNCHANGED <<sheetIdx, taps, mobileTab, isDesktop, activeFilter>>
  /\ ViewOnly

Resize ==
  /\ isDesktop' = ~isDesktop
  /\ UNCHANGED <<sheetIdx, taps, mobileTab, desktopView, activeFilter>>
  /\ ViewOnly

Next ==
  \/ \E r \in Requests :
       LoadDraft(r) \/ AiFails(r) \/ FlushAnalysis(r) \/ Commit(r) \/ RunAnalysis(r)
  \/ FetchDraft \/ FetchDraftFails \/ ReceiveAnalysis \/ AnalysisFails \/ Reload
  \/ \E i \in 1..MaxNotes : HandleTap(i) \/ ClickIssueCard(i) \/ DelayedTap(i)
  \/ CloseSheet \/ OnPrev \/ OnNext \/ Resize \/ ClearFilter
  \/ \E type \in IssueType : OnFilter(type)
  \/ \E tab \in {"text", "issues", "improved"} : SetMobileTab(tab)
  \/ \E view \in {"text", "ai"} : SetDesktopView(view)

Spec == Init /\ [][Next]_vars

-----------------------------------------------------------------------------
(* Properties.                                                             *)

TypeOK ==
  /\ shown \in Requests \cup {None, "loading", "error"}
  /\ visits \in 1..MaxVisits
  /\ isAnalyzing \in Requests \cup {None}
  /\ analyzeError \in BOOLEAN /\ refetching \in BOOLEAN
  /\ sheetIdx \in 1..MaxNotes \cup {None} /\ taps \subseteq 1..MaxNotes
  /\ mobileTab \in {"text", "issues", "improved"} /\ desktopView \in {"text", "ai"}
  /\ isDesktop \in BOOLEAN /\ activeFilter \in IssueType \cup {None}
  /\ notes \in Lists
  /\ request \in [Requests -> {"idle", "sent", "analysing", "flushed", "responded",
                               "answered", "done", "failed"}]
  /\ stored \in Requests \cup {None}

\* However the annotations overlap, the segments are the whole text in its
\* order, and a quotation that is found but not marked begins within a marked
\* one (page.tsx:139-154).
SegmentsAreTheText ==
  LET segments == BuildSegments(Annotations)
  IN /\ Length > 0 => segments # <<>> /\ segments[Len(segments)].e = Length
     /\ \A k \in DOMAIN segments :
          segments[k].s = (IF k = 1 THEN 0 ELSE segments[k - 1].e)
     /\ \A i \in DOMAIN Annotations :
          Annotations[i].at # -1 /\ i \notin Marks =>
            \E j \in Marks : /\ Annotations[j].at <= Annotations[i].at
                             /\ Annotations[i].at < Annotations[j].at + Annotations[j].len

\* The brief never repeats itself, and the graver note goes first: an entry
\* that is missing although there was room repeats one that is there
\* (page.tsx:89-137).
BriefIsOrdered ==
  LET gaps == BuildDefenseBrief(<<>>, Annotations).gaps
      of(i) == Annotations[i].issue_type \in {"logic", "clarity"} /\ Annotations[i].comment # Blank
  IN /\ IsInjective(gaps) /\ Len(gaps) <= MaxItems
     /\ \A i \in DOMAIN Annotations :
          of(i) /\ Annotations[i].comment \notin ToSet(gaps) =>
            /\ Len(gaps) = MaxItems
            /\ \A k \in DOMAIN gaps : \E j \in DOMAIN Annotations :
                 /\ of(j) /\ Annotations[j].comment = gaps[k]
                 /\ Rank(Annotations[j]) <= Rank(Annotations[i])

\* What the page shows is what is stored, and the opened annotation is one of
\* it: neither a second request that runs after a reload nor a late timer
\* changes that (drafts.py:70-118, page.tsx:694-709, 1093).
ShownIsStored ==
  HasAnalysis => /\ stored = shown
                 /\ sheetIdx # None => sheetIdx \in DOMAIN Annotations
                 /\ taps \subseteq DOMAIN Annotations
=============================================================================
