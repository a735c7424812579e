----------------------------- MODULE MCSessions -----------------------------
(* Small sets of sessions for Sessions. *)
EXTENDS Sessions, TLC

CONSTANTS s1, s2

Row0(asked, answered) ==
  [status |-> "active", asked |-> asked, answered |-> answered,
   evaluations |-> 0, briefs |-> 0]

\* As /start and /rerun leave it.
Started == {Row0(1, 0)}

Scenarios == [s \in Sessions |-> "scenario"]
DraftAndDocument == [s \in Sessions |-> IF s = s1 THEN "draft" ELSE "document"]

\* A session that was cancelled without an answer.
Ended == [Row0(1, 0) EXCEPT !.status = "cancelled"]

\* The session about the document has just been started, or the one about the
\* draft has an answer and is at its limit; the other one ended long ago.
OneActive ==
  /\ \E open \in Sessions :
       /\ row = [s \in Sessions |->
                  CASE s # open -> Ended
                    [] s = open /\ Source[s] = "draft" -> Row0(MaxTurns, 1)
                    [] OTHER -> Row0(1, 0)]
       /\ old = Sessions \ {open}
  /\ lock = [s \in Sessions |-> None]
  /\ work = [s \in Sessions |-> "active"]
  /\ pc = [t \in Txns |-> "idle"]
  /\ target = [t \in Txns |-> None]
  /\ object = [t \in Txns |-> [s \in Sessions |-> None]]
  /\ assigned = [t \in Txns |-> [s \in Sessions |-> None]]
  /\ inserts = [t \in Txns |-> {}]

OneActiveSpec == OneActive /\ [][Next]_vars

Symmetry == Permutations(Sends)
=============================================================================
