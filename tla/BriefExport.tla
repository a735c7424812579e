---------------------------- MODULE BriefExport ----------------------------
(* The Defense Brief as a card and as a Markdown file.  A text is blank,   *)
(* or not: what the file does with it depends on no more.                  *)
EXTENDS Lists, SequencesExt

CONSTANTS MaxItems   \* bound: entries of a list

BriefExportAssumption == MaxItems \in Nat

VARIABLES artifact, copied

vars == <<artifact, copied>>

\* A text of the model's answer; an argument or a zone counts as blank when
\* all its parts are.
Text == {"blank", "words"}
List == UNION {[1..n -> Text] : n \in 0..MaxItems}

\* The sections in the order in which both the card and the file have them.
Sections == <<"opening_move", "evidence_gaps", "pressure_questions", "next_moves",
              "top_arguments", "anchor_phrases", "danger_zones", "key_numbers">>

\* A brief has a list of texts for each section; the opening move is one.
DefenseBriefArtifact ==
  {a \in [ToSet(Sections) -> List] : Len(a["opening_move"]) <= 1}

\* The lines of the file: the title, section headings, entries, empty lines.
Line == [kind : {"title", "blank", "heading", "entry"},
         of : ToSet(Sections) \cup {"brief"}]
Blank == [kind |-> "blank", of |-> "brief"]
Title == [kind |-> "title", of |-> "brief"]
Intro == [kind |-> "entry", of |-> "brief"]
Heading(section) == [kind |-> "heading", of |-> section]
Entry(section) == [kind |-> "entry", of |-> section]

-----------------------------------------------------------------------------
\* A heading is set off from what comes before it.
PushSection(lines, section) ==
  lines \o (IF lines # <<>> /\ lines[Len(lines)] # Blank THEN <<Blank>> ELSE <<>>)
        \o <<Heading(section)>>

Cleaned(list) == Keep(list, {i \in DOMAIN list : list[i] # "blank"})

\* Variant: only a list without entries is left out.
PushAnyListSection(lines, section, list) ==
  IF list = <<>> THEN lines
  ELSE PushSection(lines, section) \o [i \in 1..Len(Cleaned(list)) |-> Entry(section)]

\* A section whose entries are all blank is left out.
PushListSection(lines, section, list) ==
  IF Cleaned(list) = <<>> THEN lines
  ELSE PushSection(lines, section) \o [i \in 1..Len(Cleaned(list)) |-> Entry(section)]

PushSections(a, sections, start) ==
  Fold([k \in DOMAIN sections |->
          [lines \in Seq(Line) |-> PushListSection(lines, sections[k], a[sections[k]])]],
       start, Len(sections))

FormatDefenseBriefMarkdown(a) == PushSections(a, Sections, <<Title, Blank, Intro>>)

\* The file for the analysis of a material has three of the sections.
FormatAnalysisDefenseBriefMarkdown(a) ==
  PushSections(a, <<"evidence_gaps", "pressure_questions", "next_moves">>,
               <<Title, Blank, Intro, Blank, Intro>>)

\* What the card shows: the opening move unless it is empty, and every list
\* that has entries, blank or not.
CardSections(a) ==
  Keep(Sections, {i \in DOMAIN Sections : a[Sections[i]] # <<>>})

FileSections(lines) ==
  LET headings == Keep(lines, {i \in DOMAIN lines : lines[i].kind = "heading"})
  IN [i \in DOMAIN headings |-> headings[i].of]

Init == artifact \in DefenseBriefArtifact /\ copied = <<>>

HandleCopyMarkdown ==
  /\ copied' = FormatDefenseBriefMarkdown(artifact)
  /\ UNCHANGED artifact

HandleCopyAnalysis ==
  /\ copied' = FormatAnalysisDefenseBriefMarkdown(artifact)
  /\ UNCHANGED artifact

Next == HandleCopyMarkdown \/ HandleCopyAnalysis

Spec == Init /\ [][Next]_vars

-----------------------------------------------------------------------------
(* Properties.                                                             *)

TypeOK == artifact \in DefenseBriefArtifact /\ copied \in Seq(Line)

\* The file has no section that the card has not, the sections stand in the
\* card's order, and each has an entry under a heading that an empty line sets
\* off (defense-brief-export.ts:29-103, PrepCard.tsx:132-278).
FileIsWellFormed ==
  /\ IsInjective(FileSections(copied))
  /\ LET card == CardSections(artifact)
         file == FileSections(copied)
     IN Keep(card, {i \in DOMAIN card : card[i] \in ToSet(file)}) = file
  /\ \A i \in DOMAIN copied :
       copied[i].kind = "heading" =>
         /\ copied[i - 1] = Blank
         /\ i < Len(copied) /\ copied[i + 1] = Entry(copied[i].of)
  /\ \A i \in 1..(Len(copied) - 1) : ~(copied[i] = Blank /\ copied[i + 1] = Blank)
=============================================================================
