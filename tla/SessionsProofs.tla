--------------------------- MODULE SessionsProofs ---------------------------
(* Theorems about Sessions, for any sessions, any number of requests in     *)
(* progress and any limit of turns.                                        *)
EXTENDS Sessions, FiniteSetTheorems, TLAPS

-----------------------------------------------------------------------------
(* Types.                                                                  *)

\* The task knows which session it is evaluating.
TypeInv ==
  /\ TypeOK
  /\ pc[Expirer] \in {"source", "evaluate"} => target[Expirer] # None

\* None is none of the things it stands for the lack of.
LEMMA NoneIsNone ==
  /\ None \notin Txns /\ None \notin Sessions /\ None \notin Object
  /\ None \notin Status /\ None # "same"
  BY SessionsAssumption DEF SessionsAssumption

\* The task is none of the requests.
LEMMA ExpirerApart ==
  Expirer \in Txns /\ Expirer \notin Requests
  BY SessionsAssumption DEF SessionsAssumption, Txns

\* A transaction that closes leaves everything well typed.
LEMMA CloseTypes ==
  ASSUME TypeInv, NEW t \in Txns, Close(t), row' \in [Sessions -> Row]
  PROVE  TypeInv'
<1> USE DEF TypeInv, TypeOK, Close, GoTo
<1>1. /\ pc' \in [Txns -> Place] /\ pc' = [pc EXCEPT ![t] = "idle"]
      /\ target' \in [Txns -> Sessions \cup {None}]
      /\ inserts' \in [Txns -> SUBSET (Sessions \X Kind)]
  BY DEF Place
<1>2. /\ lock' \in [Sessions -> Txns \cup {None}]
      /\ work' \in [Sessions -> Status]
      /\ old' \subseteq Sessions
  BY DEF Status
<1>3. object' \in [Txns -> [Sessions -> Object \cup {None}]]
  OBVIOUS
<1>4. assigned' \in [Txns -> [Sessions -> Assignment]]
  BY DEF Assignment
<1>5. \A u \in Txns : pc'[u] = "idle" => inserts'[u] = {}
  OBVIOUS
<1>6. \A u \in Requests : pc'[u] # "idle" => target'[u] # None
  BY DEF Txns
<1>7. pc'[Expirer] \in {"source", "evaluate"} => target'[Expirer] # None
  BY ExpirerApart
<1> QED
  BY <1>1, <1>2, <1>3, <1>4, <1>5, <1>6, <1>7

\* A transaction that goes on.
LEMMA GoToTypes ==
  ASSUME TypeInv, NEW t \in Txns, NEW place \in Place \ {"idle"}, GoTo(t, place),
         t \in Requests => target'[t] # None,
         t = Expirer /\ place \in {"source", "evaluate"} => target'[t] # None,
         \A u \in Txns \ {t} : target'[u] = target[u] /\ inserts'[u] = inserts[u]
  PROVE  /\ pc' \in [Txns -> Place]
         /\ \A u \in Txns : pc'[u] = "idle" => inserts'[u] = {}
         /\ \A u \in Requests : pc'[u] # "idle" => target'[u] # None
         /\ pc'[Expirer] \in {"source", "evaluate"} => target'[Expirer] # None
<1>1. pc' \in [Txns -> Place] /\ pc' = [pc EXCEPT ![t] = place]
  BY DEF GoTo, TypeInv, TypeOK
<1> QED
  BY <1>1, ExpirerApart DEF TypeInv, TypeOK, Txns

\* Inserting rows of a session.
LEMMA StoreTypes ==
  ASSUME TypeInv, NEW t \in Txns, NEW s \in Sessions, NEW kinds \in SUBSET Kind,
         Store(t, s, kinds)
  PROVE  /\ inserts' \in [Txns -> SUBSET (Sessions \X Kind)]
         /\ inserts'[t] = inserts[t] \cup ({s} \X kinds)
         /\ \A u \in Txns \ {t} : inserts'[u] = inserts[u]
<1>1. {s} \X kinds \subseteq Sessions \X Kind
  OBVIOUS
<1> QED
  BY <1>1 DEF TypeInv, TypeOK, Store

\* The UPDATE of a row.
LEMMA UpdateTypes ==
  ASSUME TypeInv, NEW t \in Txns, NEW s \in Sessions, Update(t, s)
  PROVE  /\ lock' \in [Sessions -> Txns \cup {None}]
         /\ work' \in [Sessions -> Status]
         /\ assigned' \in [Txns -> [Sessions -> Assignment]]
<1>1. row[s].status \in Status
  BY DEF TypeInv, TypeOK, Row
<1>2. assigned[t][s] \in Assignment
  BY DEF TypeInv, TypeOK
<1>3. work' \in [Sessions -> Status]
  BY <1>1, <1>2 DEF TypeInv, TypeOK, Update, Assignment
<1>4. lock' \in [Sessions -> Txns \cup {None}]
  BY DEF TypeInv, TypeOK, Update
<1>5. assigned' \in [Txns -> [Sessions -> Assignment]]
  BY DEF TypeInv, TypeOK, Update, Assignment
<1> QED
  BY <1>3, <1>4, <1>5

\* What has been inserted is counted.
LEMMA StoredIsNat ==
  ASSUME NEW t, NEW s, NEW kind
  PROVE  Stored(t, s, kind) \in {0, 1}
  BY DEF Stored

\* A commit leaves the sessions well typed.
LEMMA CommitRow ==
  ASSUME TypeInv, NEW t \in Txns, Commit(t)
  PROVE  row' \in [Sessions -> Row]
<1> SUFFICES ASSUME NEW s \in Sessions
             PROVE  row'[s] \in Row
  BY DEF Commit
<1>1. row[s] \in Row /\ work[s] \in Status
  BY DEF TypeInv, TypeOK
<1>2. /\ Stored(t, s, "question") \in Nat /\ Stored(t, s, "answer") \in Nat
      /\ Stored(t, s, "evaluation") \in Nat /\ Stored(t, s, "brief") \in Nat
  BY StoredIsNat
<1> QED
  BY <1>1, <1>2 DEF Commit, Row

\* Loading the messages of a session.
LEMMA LoadTypes ==
  ASSUME TypeInv, NEW t \in Requests, NEW place \in Place \ {"idle"},
         LoadMessages(t, place)
  PROVE  TypeInv'
<1>1. t \in Txns /\ t # Expirer /\ target[t] \in Sessions
  BY ExpirerApart DEF Txns, LoadMessages, TypeInv, TypeOK
<1>2. row[target[t]] \in Row
  BY <1>1 DEF TypeInv, TypeOK
<1>3. object' \in [Txns -> [Sessions -> Object \cup {None}]]
  <2>1. [status |-> "active", asked |-> row[target[t]].asked,
         answered |-> row[target[t]].answered, evaluations |-> 0] \in Object
    BY <1>2 DEF Row, Object, Status
  <2> QED
    BY <2>1, <1>1 DEF LoadMessages, TypeInv, TypeOK
<1>4. target'[t] # None
  BY <1>1, NoneIsNone DEF LoadMessages
<1> QED
  BY <1>1, <1>3, <1>4, GoToTypes DEF LoadMessages, TypeInv, TypeOK

\* The steps of a request are well typed.
LEMMA RequestTypes ==
  ASSUME TypeInv, NEW t \in Requests,
         Proceed(t) \/ \E s \in Sessions : Open(t, s)
  PROVE  TypeInv'
<1>a. t \in Txns /\ t # Expirer /\ Expirer \in Txns
  BY ExpirerApart DEF Txns
<1>b. ASSUME pc[t] # "idle"
      PROVE  target[t] \in Sessions
  BY <1>a, <1>b DEF TypeInv, TypeOK
<1>1. ASSUME NEW s \in Sessions, Open(t, s)
      PROVE  TypeInv'
  <2>1. target' \in [Txns -> Sessions \cup {None}] /\ target'[t] = s
        /\ \A u \in Txns \ {t} : target'[u] = target[u]
    BY <1>1, <1>a DEF Open, TypeInv, TypeOK
  <2> QED
    BY <1>1, <1>a, <2>1, NoneIsNone, GoToTypes DEF Open, TypeInv, TypeOK, Place
<1>2. ASSUME LoadForSend(t) \/ LoadToAbandon(t) \/ LoadToComplete(t)
      PROVE  TypeInv'
  BY <1>2, LoadTypes DEF LoadForSend, LoadToAbandon, LoadToComplete, Place
<1>3. ASSUME Detected(t) \/ RefuseComplete(t)
      PROVE  TypeInv'
  BY <1>3, <1>a, CloseTypes DEF Detected, RefuseComplete, Rollback, TypeInv, TypeOK
<1>4. ASSUME StoreAnswer(t) \/ AskQuestion(t)
      PROVE  TypeInv'
  <2> DEFINE s == target[t]
  <2>1. s \in Sessions
    BY <1>4, <1>b DEF StoreAnswer, AskQuestion
  <2>2. \E kinds \in SUBSET Kind : Store(t, s, kinds)
    <3>1. {"answer"} \in SUBSET Kind /\ {"question"} \in SUBSET Kind
      BY DEF Kind
    <3> QED
      BY <1>4, <3>1 DEF StoreAnswer, AskQuestion
  <2>3. \E place \in {"evaluate", "ask", "commit"} : GoTo(t, place)
    BY <1>4 DEF StoreAnswer, AskQuestion
  <2>4. UNCHANGED <<row, old, lock, work, target, object, assigned>>
    BY <1>4 DEF StoreAnswer, AskQuestion
  <2>5. inserts' \in [Txns -> SUBSET (Sessions \X Kind)]
        /\ \A u \in Txns \ {t} : inserts'[u] = inserts[u]
    BY <2>1, <2>2, <1>a, StoreTypes
  <2> QED
    BY <1>a, <2>1, <2>3, <2>4, <2>5, NoneIsNone, GoToTypes DEF TypeInv, TypeOK, Place
<1>5. ASSUME Leave(t)
      PROVE  TypeInv'
  <2> DEFINE s == target[t]
             end == IF object[t][s].answered > 0 THEN "completed" ELSE "cancelled"
  <2>1. s \in Sessions
    BY <1>5, <1>b DEF Leave
  <2>2. row' \in [Sessions -> Row]
    <3>1. row[s] \in Row /\ end \in Status
      BY <2>1 DEF TypeInv, TypeOK, Status
    <3>2. row' = [row EXCEPT ![s].status = end]
      BY <1>5 DEF Leave
    <3> HIDE DEF end, s
    <3> QED
      BY <2>1, <3>1, <3>2 DEF TypeInv, TypeOK, Row
  <2>3. CASE object[t][s].answered > 0
    BY <1>5, <1>a, <2>1, <2>2, <2>3, NoneIsNone, GoToTypes
       DEF Leave, TypeInv, TypeOK, Place, locals
  <2>4. CASE ~(object[t][s].answered > 0)
    BY <1>5, <1>a, <2>2, <2>4, CloseTypes DEF Leave
  <2> QED
    BY <2>3, <2>4
<1>6. ASSUME Reload(t)
      PROVE  TypeInv'
  <2>1. target[t] \in Sessions
    BY <1>6, <1>b DEF Reload
  <2>2. row[target[t]] \in Row
    BY <2>1 DEF TypeInv, TypeOK
  <2>3. object' \in [Txns -> [Sessions -> Object \cup {None}]]
    <3>1. [status |-> row[target[t]].status, asked |-> row[target[t]].asked,
           answered |-> row[target[t]].answered, evaluations |-> 0] \in Object
      BY <2>2 DEF Row, Object
    <3> QED
      BY <3>1, <2>1, <1>6, <1>a DEF Reload, TypeInv, TypeOK
  <2> QED
    BY <1>6, <1>a, <2>1, <2>3, NoneIsNone, GoToTypes DEF Reload, TypeInv, TypeOK, Place
<1>7. ASSUME Evaluate(t)
      PROVE  TypeInv'
  <2>1. target[t] \in Sessions
    BY <1>7, <1>b DEF Evaluate
  <2>2. PICK kinds \in SUBSET {"evaluation"} : Store(t, target[t], kinds)
    BY <1>7 DEF Evaluate
  <2>3. inserts' \in [Txns -> SUBSET (Sessions \X Kind)]
        /\ \A u \in Txns \ {t} : inserts'[u] = inserts[u]
    <3>1. kinds \in SUBSET Kind
      BY DEF Kind
    <3> QED
      BY <3>1, <1>a, <2>1, <2>2, StoreTypes
  <2>4. assigned' \in [Txns -> [Sessions -> Assignment]]
    BY <1>7, <1>a, <2>1 DEF Evaluate, TypeInv, TypeOK, Assignment, Status
  <2> QED
    BY <1>7, <1>a, <2>1, <2>3, <2>4, NoneIsNone, GoToTypes
       DEF Evaluate, TypeInv, TypeOK, Place
<1>8. ASSUME Flush(t)
      PROVE  TypeInv'
  <2>1. target[t] \in Sessions
    BY <1>8, <1>b DEF Flush
  <2>2. /\ lock' \in [Sessions -> Txns \cup {None}]
        /\ work' \in [Sessions -> Status]
        /\ assigned' \in [Txns -> [Sessions -> Assignment]]
    BY <1>8, <1>a, <2>1, UpdateTypes DEF Flush
  <2> QED
    BY <1>8, <1>a, <2>1, <2>2, NoneIsNone, GoToTypes
       DEF Flush, Update, TypeInv, TypeOK, Place
<1>9. ASSUME FindBrief(t)
      PROVE  TypeInv'
  <2>1. target[t] \in Sessions
    BY <1>9, <1>b DEF FindBrief
  <2>2. CASE Rollback(t)
    BY <2>2, <1>a, CloseTypes DEF Rollback, TypeInv, TypeOK
  <2>3. CASE ~Rollback(t)
    BY <1>9, <1>a, <2>1, <2>3, NoneIsNone, GoToTypes
       DEF FindBrief, TypeInv, TypeOK, Place, locals
  <2> QED
    BY <2>2, <2>3
<1>10. ASSUME WriteBrief(t)
       PROVE  TypeInv'
  <2>1. target[t] \in Sessions
    BY <1>10, <1>b DEF WriteBrief
  <2>2. row' \in [Sessions -> Row]
    <3>1. row[target[t]] \in Row
      BY <2>1 DEF TypeInv, TypeOK
    <3>2. [row[target[t]] EXCEPT !.briefs = @ + 1] \in Row
      BY <3>1 DEF Row
    <3>3. row' = row \/ row' = [row EXCEPT ![target[t]].briefs = @ + 1]
      BY <1>10 DEF WriteBrief
    <3> QED
      BY <2>1, <3>2, <3>3 DEF TypeInv, TypeOK
  <2>3. inserts' \in [Txns -> SUBSET (Sessions \X Kind)]
        /\ \A u \in Txns \ {t} : inserts'[u] = inserts[u]
    <3>1. {"brief"} \in SUBSET Kind
      BY DEF Kind
    <3>2. CASE Store(t, target[t], {"brief"})
      BY <3>1, <3>2, <1>a, <2>1, StoreTypes
    <3>3. CASE inserts' = inserts
      BY <3>3 DEF TypeInv, TypeOK
    <3> QED
      BY <1>10, <3>2, <3>3 DEF WriteBrief
  <2> QED
    BY <1>10, <1>a, <2>1, <2>2, <2>3, NoneIsNone, GoToTypes
       DEF WriteBrief, TypeInv, TypeOK, Place
<1>11. ASSUME Commit(t)
       PROVE  TypeInv'
  BY <1>11, <1>a, CommitRow, CloseTypes DEF Commit
<1> QED
  BY <1>1, <1>2, <1>3, <1>4, <1>5, <1>6, <1>7, <1>8, <1>9, <1>10, <1>11
     DEF Proceed, SendStep, CompleteStep, AbandonStep, FinalizeStep

\* The steps of the task are well typed.
LEMMA ExpirerTypes ==
  ASSUME TypeInv, ExpirerStep
  PROVE  TypeInv'
<1>a. Expirer \in Txns /\ Expirer \notin Requests
  BY ExpirerApart
<1>b. /\ object[Expirer] \in [Sessions -> Object \cup {None}]
      /\ \A s \in Todo : object[Expirer][s] \in Object
      /\ \A s \in Sessions : row[s] \in Row
  BY <1>a DEF TypeInv, TypeOK, Todo
<1>1. ASSUME SelectStale
      PROVE  TypeInv'
  <2>1. [status |-> "active", asked |-> 0, answered |-> 0, evaluations |-> 0]
          \in Object
    BY DEF Object, Status
  <2>2. object' \in [Txns -> [Sessions -> Object \cup {None}]]
    BY <1>1, <2>1, <1>a DEF SelectStale, TypeInv, TypeOK
  <2> QED
    BY <1>1, <1>a, <2>2, GoToTypes DEF SelectStale, TypeInv, TypeOK, Place
<1>2. ASSUME SelectMessages
      PROVE  TypeInv'
  <2>1. \A s \in Todo :
          [object[Expirer][s] EXCEPT !.asked = row[s].asked,
                                     !.answered = row[s].answered] \in Object
    BY <1>b DEF Object, Row, Todo
  <2>2. object' \in [Txns -> [Sessions -> Object \cup {None}]]
    BY <1>2, <2>1, <1>a DEF SelectMessages, TypeInv, TypeOK
  <2> QED
    BY <1>2, <1>a, <2>2, GoToTypes DEF SelectMessages, TypeInv, TypeOK, Place
<1>3. ASSUME SelectMetrics
      PROVE  TypeInv'
  <2>1. \A s \in Todo :
          [object[Expirer][s] EXCEPT !.evaluations = row[s].evaluations] \in Object
    BY <1>b DEF Object, Row, Todo
  <2>2. object' \in [Txns -> [Sessions -> Object \cup {None}]]
    BY <1>3, <2>1, <1>a DEF SelectMetrics, TypeInv, TypeOK
  <2> QED
    BY <1>3, <1>a, <2>2, GoToTypes DEF SelectMetrics, TypeInv, TypeOK, Place
<1>4. ASSUME NEW s \in Sessions, NEW status \in {"completed", "cancelled"},
             Assign(s, status)
      PROVE  /\ object' \in [Txns -> [Sessions -> Object \cup {None}]]
             /\ assigned' \in [Txns -> [Sessions -> Assignment]]
  BY <1>4, <1>a DEF Assign, TypeInv, TypeOK, Assignment, Status
<1>5. ASSUME NEW s \in Sessions, ExpireAtOnce(s)
      PROVE  TypeInv'
  BY <1>5, <1>4 DEF ExpireAtOnce, TypeInv, TypeOK
<1>6. ASSUME NEW s \in Sessions, ExpireAnswered(s)
      PROVE  TypeInv'
  <2>1. /\ target' \in [Txns -> Sessions \cup {None}] /\ target'[Expirer] = s
        /\ \A u \in Txns \ {Expirer} : target'[u] = target[u]
    BY <1>6, <1>a DEF ExpireAnswered, TypeInv, TypeOK
  <2> QED
    BY <1>6, <1>a, <2>1, NoneIsNone, GoToTypes
       DEF ExpireAnswered, TypeInv, TypeOK, Place
<1>7. ASSUME ReadSource
      PROVE  TypeInv'
  BY <1>7, <1>a, GoToTypes DEF ReadSource, TypeInv, TypeOK, Place, locals
<1>8. ASSUME SelectUnbound
      PROVE  TypeInv'
  BY <1>8, <1>a, CloseTypes DEF SelectUnbound, Rollback, TypeInv, TypeOK
<1>9. ASSUME EvaluateStale
      PROVE  TypeInv'
  <2>1. target[Expirer] \in Sessions
    BY <1>9, <1>a DEF EvaluateStale, TypeInv, TypeOK
  <2>2. \E status \in {"completed", "cancelled"} : Assign(target[Expirer], status)
    BY <1>9 DEF EvaluateStale
  <2>3. /\ object' \in [Txns -> [Sessions -> Object \cup {None}]]
        /\ assigned' \in [Txns -> [Sessions -> Assignment]]
    BY <2>1, <2>2, <1>4
  <2>4. inserts' \in [Txns -> SUBSET (Sessions \X Kind)]
        /\ \A u \in Txns \ {Expirer} : inserts'[u] = inserts[u]
    <3>1. CASE inserts' = inserts
      BY <3>1 DEF TypeInv, TypeOK
    <3>2. ASSUME NEW kinds \in SUBSET {"evaluation"},
                 Store(Expirer, target[Expirer], kinds)
          PROVE  inserts' \in [Txns -> SUBSET (Sessions \X Kind)]
                 /\ \A u \in Txns \ {Expirer} : inserts'[u] = inserts[u]
      <4>1. kinds \in SUBSET Kind
        BY DEF Kind
      <4> QED
        BY <3>2, <4>1, <2>1, <1>a, StoreTypes
    <3> QED
      BY <1>9, <3>1, <3>2 DEF EvaluateStale
  <2>5. target' \in [Txns -> Sessions \cup {None}]
        /\ \A u \in Txns \ {Expirer} : target'[u] = target[u]
    BY <1>9, <1>a DEF EvaluateStale, TypeInv, TypeOK
  <2> QED
    BY <1>9, <1>a, <2>3, <2>4, <2>5, GoToTypes DEF EvaluateStale, TypeInv, TypeOK, Place
<1>10. ASSUME NEW s \in Sessions, FlushRow(s)
       PROVE  TypeInv'
  BY <1>10, <1>a, UpdateTypes DEF FlushRow, Update, TypeInv, TypeOK
<1>11. ASSUME FinishLoop
       PROVE  TypeInv'
  BY <1>11, <1>a, GoToTypes DEF FinishLoop, TypeInv, TypeOK, Place, locals
<1>12. ASSUME Commit(Expirer)
       PROVE  TypeInv'
  BY <1>12, <1>a, CommitRow, CloseTypes DEF Commit
<1> QED
  BY <1>1, <1>2, <1>3, <1>5, <1>6, <1>7, <1>8, <1>9, <1>10, <1>11, <1>12
     DEF ExpirerStep

\* Sessions begin well typed and stay so.
LEMMA TypesInvariant == Spec => []TypeInv
<1>1. Init => TypeInv
  <2> SUFFICES ASSUME Init
               PROVE  TypeInv
    OBVIOUS
  <2>1. row \in [Sessions -> Row]
    BY SessionsAssumption DEF Init, SessionsAssumption
  <2> QED
    BY <2>1, ExpirerApart
       DEF Init, TypeInv, TypeOK, Status, Place, Assignment, Txns
<1>2. TypeInv /\ [Next]_vars => TypeInv'
  <2> SUFFICES ASSUME TypeInv, [Next]_vars
               PROVE  TypeInv'
    OBVIOUS
  <2>1. CASE UNCHANGED vars
    BY <2>1 DEF TypeInv, TypeOK, vars, locals
  <2>2. ASSUME NEW s \in Sessions, Age(s)
        PROVE  TypeInv'
    BY <2>2 DEF Age, TypeInv, TypeOK, locals
  <2>3. ASSUME NEW t \in Txns, Fail(t)
        PROVE  TypeInv'
    BY <2>3, CloseTypes DEF Fail, Rollback, TypeInv, TypeOK
  <2>4. ASSUME NEW t \in Requests, NEW s \in Sessions, Refuse(t, s)
        PROVE  TypeInv'
    BY <2>4, <2>1 DEF Refuse
  <2> QED
    BY <2>1, <2>2, <2>3, <2>4, RequestTypes, ExpirerTypes DEF Next
<1> QED
  BY <1>1, <1>2, PTL DEF Spec

\* Every variable of the model keeps its type, an idle transaction has
\* nothing uncommitted and a request that has begun has a session.
THEOREM TypeCorrect == Spec => []TypeOK
<1>1. TypeInv => TypeOK
  BY DEF TypeInv
<1> QED
  BY <1>1, TypesInvariant, PTL

-----------------------------------------------------------------------------
(* How sessions end.                                                       *)

\* There is an answer to s, or t is about to commit one.
Answered(t, s) == row[s].answered > 0 \/ <<s, "answer">> \in inserts[t]

RowInv ==
  \A s \in Sessions :
    /\ row[s].status = "completed" => row[s].answered > 0
    /\ row[s].evaluations > 0 => row[s].answered > 0 /\ row[s].status # "active"

LockInv ==
  \A s \in Sessions :
    lock[s] # None =>
      work[s] # "active" /\ (work[s] = "completed" => Answered(lock[s], s))

\* What t has assigned, inserted and loaded: answers, evaluations and the end
\* of a session are never taken back, so that what was loaded bounds them.
Justified(t, s) ==
  /\ assigned[t][s] # "active"
  /\ assigned[t][s] = "completed" => Answered(t, s)
  /\ assigned[t][s] = "same" => row[s].status # "active"
  /\ <<s, "evaluation">> \in inserts[t] =>
       /\ Answered(t, s)
       /\ row[s].status # "active" \/ assigned[t][s] # None \/ lock[s] = t
  /\ object[t][s] # None =>
       /\ object[t][s].answered <= row[s].answered
       /\ object[t][s].evaluations <= row[s].evaluations
       /\ object[t][s].status # "active" => row[s].status # "active"

TxnInv(t) == \A s \in Sessions : Justified(t, s)

PlaceInv(t) ==
  /\ pc[t] \in {"evaluate", "source"} => Answered(t, target[t])
  /\ t \in Requests /\ pc[t] = "reload" => Answered(t, target[t])
  /\ t \in Requests /\ pc[t] \in {"detect", "leave", "evaluate"} =>
       object[t][target[t]] # None

EndInv ==
  /\ RowInv /\ LockInv
  /\ \A t \in Txns : TxnInv(t) /\ PlaceInv(t)

\* Nothing a transaction may have relied on is taken back.
Grows ==
  \A s \in Sessions :
    /\ row'[s].answered >= row[s].answered
    /\ row'[s].evaluations >= row[s].evaluations
    /\ row[s].status # "active" => row'[s].status # "active"

\* Only t's own variables change.
Own(t) ==
  \A u \in Txns \ {t} :
    /\ pc'[u] = pc[u] /\ target'[u] = target[u] /\ object'[u] = object[u]
    /\ assigned'[u] = assigned[u] /\ inserts'[u] = inserts[u]

\* The counts of a session and of what was loaded of it are numbers.
LEMMA Counts ==
  ASSUME TypeInv, NEW s \in Sessions
  PROVE  /\ row[s].answered \in Nat /\ row[s].evaluations \in Nat
         /\ row[s].asked \in Nat /\ row[s].briefs \in Nat
         /\ \A t \in Txns : object[t][s] # None =>
              /\ object[t][s].answered \in Nat
              /\ object[t][s].evaluations \in Nat
              /\ object[t][s].asked \in Nat
<1>1. row[s] \in Row
  BY DEF TypeInv, TypeOK
<1>2. ASSUME NEW t \in Txns, object[t][s] # None
      PROVE  object[t][s] \in Object
  BY <1>2 DEF TypeInv, TypeOK
<1> QED
  BY <1>1, <1>2 DEF Row, Object

\* A step that leaves the sessions as they are takes nothing back.
LEMMA SameRowGrows ==
  ASSUME TypeInv, UNCHANGED row
  PROVE  Grows /\ (RowInv => RowInv')
  BY Counts DEF Grows, RowInv

\* An answer that t has seen, or is about to commit, stays.
LEMMA AnsweredStays ==
  ASSUME TypeInv, TypeInv', Grows, NEW u \in Txns, NEW s \in Sessions,
         inserts[u] \subseteq inserts'[u], Answered(u, s)
  PROVE  Answered(u, s)'
<1>1. row[s].answered \in Nat /\ row'[s].answered \in Nat
  <2>1. row'[s] \in Row
    BY DEF TypeInv, TypeOK
  <2> QED
    BY <2>1, Counts DEF Row
<1> QED
  BY <1>1 DEF Answered, Grows

\* What a transaction has assigned, inserted and loaded stays justified.
LEMMA TxnStays ==
  ASSUME TypeInv, TypeInv', EndInv, Grows, NEW u \in Txns,
         object'[u] = object[u], assigned'[u] = assigned[u],
         inserts'[u] = inserts[u],
         \A s \in Sessions : lock[s] = u => lock'[s] = u
  PROVE  TxnInv(u)'
<1> SUFFICES ASSUME NEW s \in Sessions
             PROVE  Justified(u, s)'
  BY DEF TxnInv
<1>1. /\ row[s].answered \in Nat /\ row[s].evaluations \in Nat
      /\ row'[s].answered \in Nat /\ row'[s].evaluations \in Nat
      /\ object[u][s] # None =>
           object[u][s].answered \in Nat /\ object[u][s].evaluations \in Nat
  <2>1. row'[s] \in Row
    BY DEF TypeInv, TypeOK
  <2> QED
    BY <2>1, Counts DEF Row
<1>2. Answered(u, s) => Answered(u, s)'
  BY AnsweredStays
<1> QED
  BY <1>1, <1>2 DEF EndInv, TxnInv, Justified, Grows

\* What a transaction relies on stays true while others go on.
LEMMA OthersKeep ==
  ASSUME TypeInv, TypeInv', EndInv, Grows, NEW t, Own(t), NEW u \in Txns \ {t},
         \A s \in Sessions : lock[s] = u => lock'[s] = u
  PROVE  TxnInv(u)' /\ PlaceInv(u)'
<1>1. TxnInv(u)'
  BY TxnStays DEF Own
<1>2. PlaceInv(u)'
  <2>1. /\ pc[u] \in {"evaluate", "source"} => target[u] \in Sessions
        /\ u \in Requests /\ pc[u] = "reload" => target[u] \in Sessions
    BY DEF TypeInv, TypeOK, Txns
  <2>2. \A s \in Sessions : Answered(u, s) => Answered(u, s)'
    BY AnsweredStays DEF Own
  <2> QED
    BY <2>1, <2>2 DEF EndInv, PlaceInv, Own
<1> QED
  BY <1>1, <1>2

\* A lock that is kept, by a transaction that takes no insert back.
LEMMA LockKept ==
  ASSUME TypeInv, TypeInv', EndInv, Grows, NEW s \in Sessions,
         lock'[s] = lock[s], work'[s] = work[s],
         lock[s] # None => inserts[lock[s]] \subseteq inserts'[lock[s]],
         lock[s] # None
  PROVE  work'[s] # "active" /\ (work'[s] = "completed" => Answered(lock[s], s)')
<1>1. row[s].answered \in Nat /\ row'[s].answered \in Nat
  <2>1. row'[s] \in Row
    BY DEF TypeInv, TypeOK
  <2> QED
    BY <2>1, Counts DEF Row
<1> QED
  BY <1>1 DEF EndInv, LockInv, Answered, Grows

\* A transaction that closes.
LEMMA CloseKeeps ==
  ASSUME TypeInv, TypeInv', EndInv, NEW t \in Txns, Close(t), Grows, RowInv'
  PROVE  EndInv'
<1>1. Own(t)
  BY DEF Own, Close, GoTo, TypeInv, TypeOK
<1>2. ASSUME NEW u \in Txns \ {t}
      PROVE  TxnInv(u)' /\ PlaceInv(u)'
  <2>1. \A s \in Sessions : lock[s] = u => lock'[s] = u
    BY DEF Close
  <2> QED
    BY <1>1, <2>1, OthersKeep
<1>3. TxnInv(t)'
  <2>1. /\ inserts'[t] = {}
        /\ \A s \in Sessions : assigned'[t][s] = None /\ object'[t][s] = None
    BY DEF Close, TypeInv, TypeOK
  <2>2. None # "active" /\ None # "completed" /\ None # "same"
    BY NoneIsNone DEF Status
  <2> QED
    BY <2>1, <2>2 DEF TxnInv, Justified
<1>4. PlaceInv(t)'
  BY DEF Close, GoTo, PlaceInv, TypeInv, TypeOK
<1>5. LockInv'
  <2> SUFFICES ASSUME NEW s \in Sessions, lock'[s] # None
               PROVE  /\ work'[s] # "active"
                      /\ work'[s] = "completed" => Answered(lock[s], s)'
                      /\ lock'[s] = lock[s]
    BY DEF LockInv, Answered
  <2>1. lock'[s] = lock[s] /\ work'[s] = work[s] /\ lock[s] \in Txns \ {t}
    BY DEF Close, TypeInv, TypeOK
  <2>2. inserts'[lock[s]] = inserts[lock[s]]
    BY <2>1, <1>1 DEF Own
  <2> QED
    BY <2>1, <2>2, LockKept
<1> QED
  BY <1>2, <1>3, <1>4, <1>5 DEF EndInv

\* A transaction that goes on and takes no lock.
LEMMA StepKeeps ==
  ASSUME TypeInv, TypeInv', EndInv, NEW t \in Txns, Own(t), Grows, RowInv',
         UNCHANGED <<lock, work>>, inserts[t] \subseteq inserts'[t],
         TxnInv(t)', PlaceInv(t)'
  PROVE  EndInv'
<1>1. ASSUME NEW u \in Txns \ {t}
      PROVE  TxnInv(u)' /\ PlaceInv(u)'
  BY OthersKeep
<1>2. LockInv'
  <2> SUFFICES ASSUME NEW s \in Sessions, lock[s] # None
               PROVE  /\ work'[s] # "active"
                      /\ work'[s] = "completed" => Answered(lock[s], s)'
    BY DEF LockInv, Answered
  <2>1. inserts[lock[s]] \subseteq inserts'[lock[s]]
    <3>1. lock[s] \in Txns
      BY DEF TypeInv, TypeOK
    <3>2. CASE lock[s] = t
      BY <3>2
    <3>3. CASE lock[s] # t
      BY <3>1, <3>3 DEF Own
    <3> QED
      BY <3>2, <3>3
  <2> QED
    BY <2>1, LockKept
<1> QED
  BY <1>1, <1>2 DEF EndInv

\* The UPDATE of one row.
LEMMA UpdateKeeps ==
  ASSUME TypeInv, TypeInv', EndInv, NEW t \in Txns, NEW s \in Sessions,
         Update(t, s), Own(t), t \in Requests => pc'[t] = "brief",
         t = Expirer => pc'[t] = pc[t]
  PROVE  EndInv'
<1>1. Grows /\ RowInv'
  BY SameRowGrows DEF Update, EndInv
<1>2. assigned[t][s] \in Assignment \ {None, "active"} /\ lock[s] = None
  <2>1. assigned[t][s] \in Assignment
    BY DEF TypeInv, TypeOK
  <2>2. assigned[t][s] # "active"
    BY DEF EndInv, TxnInv, Justified
  <2> QED
    BY <2>1, <2>2 DEF Update
<1>3. \A r \in Sessions \ {s} :
        /\ lock'[r] = lock[r] /\ work'[r] = work[r]
        /\ assigned'[t][r] = assigned[t][r]
  BY DEF Update, TypeInv, TypeOK
<1>4. lock'[s] = t /\ assigned'[t][s] = None
  BY DEF Update, TypeInv, TypeOK
<1>5. ASSUME NEW u \in Txns \ {t}
      PROVE  TxnInv(u)' /\ PlaceInv(u)'
  <2>1. \A r \in Sessions : lock[r] = u => lock'[r] = u
    BY <1>2, <1>3, NoneIsNone
  <2> QED
    BY <2>1, <1>1, OthersKeep
<1>6. \A r \in Sessions : Answered(t, r) => Answered(t, r)'
  BY <1>1, AnsweredStays DEF Update
<1>7. TxnInv(t)'
  <2> SUFFICES ASSUME NEW r \in Sessions
               PROVE  Justified(t, r)'
    BY DEF TxnInv
  <2>1. CASE r = s
    BY <2>1, <1>4, <1>6, NoneIsNone DEF Update, EndInv, TxnInv, Justified, Status
  <2>2. CASE r # s
    BY <2>2, <1>3, <1>6 DEF Update, EndInv, TxnInv, Justified
  <2> QED
    BY <2>1, <2>2
<1>8. PlaceInv(t)'
  <2>1. CASE t \in Requests
    BY <2>1 DEF PlaceInv
  <2>2. CASE t = Expirer
    <3>1. pc[t] \in {"evaluate", "source"} => target[t] \in Sessions
      BY <2>2 DEF TypeInv, TypeOK
    <3> QED
      BY <2>2, <3>1, <1>6, ExpirerApart DEF EndInv, PlaceInv, Update
  <2> QED
    BY <2>1, <2>2 DEF Txns
<1>9. LockInv'
  <2> SUFFICES ASSUME NEW r \in Sessions, lock'[r] # None
               PROVE  /\ work'[r] # "active"
                      /\ work'[r] = "completed" => Answered(lock[r], r)'
    BY DEF LockInv, Answered
  <2>1. CASE r # s
    <3>1. inserts'[lock[r]] = inserts[lock[r]]
      BY DEF Update
    <3> QED
      BY <2>1, <3>1, <1>1, <1>3, LockKept
  <2>2. CASE r = s
    <3>1. work'[s] = IF assigned[t][s] = "same" THEN row[s].status ELSE assigned[t][s]
      BY DEF Update, TypeInv, TypeOK
    <3>2. /\ work'[s] # "active"
          /\ work'[s] = "completed" => Answered(t, s)
      BY <3>1, <1>2 DEF EndInv, TxnInv, Justified, RowInv, Answered
    <3> QED
      BY <2>2, <3>2, <1>4, <1>6 DEF Answered
  <2> QED
    BY <2>1, <2>2
<1> QED
  BY <1>1, <1>5, <1>7, <1>8, <1>9 DEF EndInv

\* What a commit makes of a session.
LEMMA CommitEnds ==
  ASSUME TypeInv, TypeInv', EndInv, NEW t \in Txns, Commit(t)
  PROVE  EndInv'
<1> SUFFICES ASSUME NEW s \in Sessions
             PROVE  /\ row'[s].answered >= row[s].answered
                    /\ row'[s].evaluations >= row[s].evaluations
                    /\ row[s].status # "active" => row'[s].status # "active"
                    /\ row'[s].status = "completed" => row'[s].answered > 0
                    /\ row'[s].evaluations > 0 =>
                         row'[s].answered > 0 /\ row'[s].status # "active"
  BY CloseKeeps DEF Commit, Grows, RowInv
<1> DEFINE answer == Stored(t, s, "answer")
           evaluation == Stored(t, s, "evaluation")
           end == IF lock[s] = t THEN work[s] ELSE row[s].status
<1>1. /\ row'[s].answered = row[s].answered + answer
      /\ row'[s].evaluations = row[s].evaluations + evaluation
      /\ row'[s].status = end
  BY DEF Commit
<1>2. answer \in {0, 1} /\ evaluation \in {0, 1}
  BY StoredIsNat
<1>3. /\ row[s].answered \in Nat /\ row[s].evaluations \in Nat
  BY Counts
<1>4. Answered(t, s) => row[s].answered > 0 \/ answer = 1
  BY DEF Answered, Stored
<1>5. lock[s] = t => work[s] # "active" /\ (work[s] = "completed" => Answered(t, s))
  BY NoneIsNone DEF EndInv, LockInv
<1>6. evaluation = 1 => Answered(t, s) /\ (row[s].status # "active" \/ lock[s] = t)
  BY DEF Stored, Commit, EndInv, TxnInv, Justified
<1>7. /\ row[s].status = "completed" => row[s].answered > 0
      /\ row[s].evaluations > 0 => row[s].answered > 0 /\ row[s].status # "active"
  BY DEF EndInv, RowInv
<1>8. row[s].status # "active" => end # "active"
  BY <1>5
<1>9. end = "completed" => row[s].answered > 0 \/ answer = 1
  BY <1>4, <1>5, <1>7
<1>10. evaluation = 1 => end # "active" /\ (row[s].answered > 0 \/ answer = 1)
  BY <1>4, <1>5, <1>6
<1> HIDE DEF answer, evaluation, end
<1> QED
  BY <1>1, <1>2, <1>3, <1>7, <1>8, <1>9, <1>10

\* A rollback.
LEMMA RollbackEnds ==
  ASSUME TypeInv, TypeInv', EndInv, NEW t \in Txns, Rollback(t)
  PROVE  EndInv'
  BY CloseKeeps, SameRowGrows DEF Rollback, EndInv

\* A step of t that only takes it elsewhere.
LEMMA GoToEnds ==
  ASSUME TypeInv, TypeInv', EndInv, NEW t \in Txns, NEW place,
         GoTo(t, place), UNCHANGED <<row, lock, work, object, assigned, inserts>>,
         \A u \in Txns \ {t} : target'[u] = target[u],
         PlaceInv(t)'
  PROVE  EndInv'
<1>1. Own(t)
  BY DEF Own, GoTo, TypeInv, TypeOK
<1>2. Grows /\ RowInv'
  BY SameRowGrows DEF EndInv
<1>3. TxnInv(t)'
  BY <1>2, TxnStays
<1> QED
  BY <1>1, <1>2, <1>3, StepKeeps

\* Loading the messages of a session.
LEMMA LoadEnds ==
  ASSUME TypeInv, TypeInv', EndInv, NEW t \in Requests,
         NEW place \in {"detect", "leave", "evaluate"}, LoadMessages(t, place),
         place = "evaluate" => row[target[t]].answered > 0
  PROVE  EndInv'
<1> DEFINE s == target[t]
           loaded == [status |-> "active", asked |-> row[s].asked,
                      answered |-> row[s].answered, evaluations |-> 0]
<1>1. t \in Txns /\ t # Expirer /\ s \in Sessions
  BY ExpirerApart DEF Txns, LoadMessages, TypeInv, TypeOK
<1>2. Own(t) /\ pc'[t] = place
  BY <1>1 DEF Own, GoTo, LoadMessages, TypeInv, TypeOK
<1>3. Grows /\ RowInv'
  BY SameRowGrows DEF LoadMessages, EndInv
<1>4. object'[t][s] = loaded /\ \A r \in Sessions \ {s} : object'[t][r] = object[t][r]
  BY <1>1 DEF LoadMessages, TypeInv, TypeOK
<1>5. loaded # None
  <2>1. loaded \in Object
    BY <1>1, Counts DEF Object, Status
  <2> QED
    BY <2>1, NoneIsNone
<1>6. TxnInv(t)'
  <2>1. UNCHANGED <<row, lock, assigned, inserts>>
    BY DEF LoadMessages
  <2>2. \A r \in Sessions : row[r].answered \in Nat /\ row[r].evaluations \in Nat
    BY Counts
  <2>3. /\ loaded.answered = row[s].answered /\ loaded.evaluations = 0
        /\ loaded.status = "active"
    OBVIOUS
  <2> HIDE DEF loaded
  <2> SUFFICES ASSUME NEW r \in Sessions
               PROVE  Justified(t, r)'
    BY DEF TxnInv
  <2>4. Justified(t, r)
    BY <1>1 DEF EndInv, TxnInv
  <2>5. CASE r = s
    BY <1>4, <2>1, <2>2, <2>3, <2>4, <2>5 DEF Justified, Answered
  <2>6. CASE r # s
    BY <1>4, <2>1, <2>4, <2>6 DEF Justified, Answered
  <2> QED
    BY <2>5, <2>6
<1>7. PlaceInv(t)'
  <2>1. UNCHANGED <<row, target, inserts>>
    BY DEF LoadMessages
  <2> QED
    BY <1>1, <1>2, <1>4, <1>5, <2>1 DEF PlaceInv, Answered
<1> QED
  BY <1>1, <1>2, <1>3, <1>6, <1>7, StepKeeps DEF LoadMessages

\* An abandoned session is completed if an answer was loaded, and the answer
\* is still there.
LEMMA LeaveEnds ==
  ASSUME TypeInv, TypeInv', EndInv, NEW t \in Requests, Leave(t)
  PROVE  EndInv'
<1> DEFINE s == target[t]
           end == IF object[t][s].answered > 0 THEN "completed" ELSE "cancelled"
<1>1. t \in Txns /\ t # Expirer /\ s \in Sessions
  BY ExpirerApart DEF Txns, Leave, TypeInv, TypeOK
<1>2. /\ row'[s].status = end /\ row'[s].answered = row[s].answered
      /\ row'[s].evaluations = row[s].evaluations
      /\ \A r \in Sessions \ {s} : row'[r] = row[r]
  BY <1>1 DEF Leave, TypeInv, TypeOK, Row
<1>3. object[t][s] # None /\ object[t][s].answered <= row[s].answered
  BY <1>1 DEF Leave, EndInv, PlaceInv, TxnInv, Justified
<1>4. \A r \in Sessions : row[r].answered \in Nat /\ row[r].evaluations \in Nat
  BY Counts
<1>5. object[t][s].answered \in Nat
  BY <1>1, <1>3, Counts
<1>6. /\ end # "active" /\ (end = "completed" => row[s].answered > 0)
  BY <1>3, <1>4, <1>5, <1>1
<1> HIDE DEF end
<1>7. Grows
  <2> SUFFICES ASSUME NEW r \in Sessions
               PROVE  /\ row'[r].answered >= row[r].answered
                      /\ row'[r].evaluations >= row[r].evaluations
                      /\ row[r].status # "active" => row'[r].status # "active"
    BY DEF Grows
  <2>1. CASE r = s
    BY <2>1, <1>2, <1>4, <1>6
  <2>2. CASE r # s
    BY <2>2, <1>2, <1>4
  <2> QED
    BY <2>1, <2>2
<1>8. RowInv'
  <2> SUFFICES ASSUME NEW r \in Sessions
               PROVE  /\ row'[r].status = "completed" => row'[r].answered > 0
                      /\ row'[r].evaluations > 0 =>
                           row'[r].answered > 0 /\ row'[r].status # "active"
    BY DEF RowInv
  <2>1. /\ row[r].status = "completed" => row[r].answered > 0
        /\ row[r].evaluations > 0 => row[r].answered > 0 /\ row[r].status # "active"
    BY DEF EndInv, RowInv
  <2>2. CASE r = s
    BY <2>1, <2>2, <1>2, <1>6
  <2>3. CASE r # s
    BY <2>1, <2>3, <1>2
  <2> QED
    BY <2>2, <2>3
<1>9. CASE object[t][s].answered > 0
  <2>1. GoTo(t, "reload") /\ UNCHANGED <<old, lock, work, locals>>
    BY <1>9 DEF Leave
  <2>2. Own(t) /\ pc'[t] = "reload"
    BY <2>1, <1>1 DEF Own, GoTo, locals, TypeInv, TypeOK
  <2>3. TxnInv(t)'
    BY <2>1, <1>1, <1>7, TxnStays DEF locals
  <2>4. PlaceInv(t)'
    <3>1. row[s].answered > 0
      BY <1>3, <1>4, <1>5, <1>9, <1>1
    <3> QED
      BY <2>1, <2>2, <3>1, <1>2 DEF PlaceInv, Answered, locals
  <2> QED
    BY <1>1, <1>7, <1>8, <2>1, <2>2, <2>3, <2>4, StepKeeps DEF locals
<1>10. CASE ~(object[t][s].answered > 0)
  BY <1>1, <1>7, <1>8, <1>10, CloseKeeps DEF Leave
<1> QED
  BY <1>9, <1>10

\* An evaluation is inserted together with the assignment that ends the session.
LEMMA EvaluateEnds ==
  ASSUME TypeInv, TypeInv', EndInv, NEW t \in Requests, Evaluate(t)
  PROVE  EndInv'
<1> DEFINE s == target[t]
<1>1. t \in Txns /\ t # Expirer /\ s \in Sessions
  BY ExpirerApart DEF Txns, Evaluate, TypeInv, TypeOK
<1>2. /\ UNCHANGED <<row, lock, work, target, object>>
      /\ pc[t] = "evaluate" /\ GoTo(t, "flush")
  BY DEF Evaluate
<1>3. PICK kinds \in SUBSET {"evaluation"} : Store(t, s, kinds)
  BY DEF Evaluate
<1>4. kinds \in SUBSET Kind
  BY DEF Kind
<1>5. /\ inserts'[t] = inserts[t] \cup ({s} \X kinds)
      /\ \A u \in Txns \ {t} : inserts'[u] = inserts[u]
  BY <1>1, <1>3, <1>4, StoreTypes
<1>6. /\ assigned'[t][s] = IF object[t][s].status = "completed" THEN "same"
                                                               ELSE "completed"
      /\ \A r \in Sessions \ {s} : assigned'[t][r] = assigned[t][r]
      /\ \A u \in Txns \ {t} : assigned'[u] = assigned[u]
  BY <1>1 DEF Evaluate, TypeInv, TypeOK
<1>7. Own(t) /\ pc'[t] = "flush"
  BY <1>1, <1>2, <1>5, <1>6 DEF Own, GoTo, TypeInv, TypeOK
<1>8. Grows /\ RowInv'
  BY <1>2, SameRowGrows DEF EndInv
<1>9. Answered(t, s) /\ object[t][s] # None
  BY <1>1, <1>2 DEF EndInv, PlaceInv
<1>10. TxnInv(t)'
  <2> SUFFICES ASSUME NEW r \in Sessions
               PROVE  Justified(t, r)'
    BY DEF TxnInv
  <2>1. Justified(t, r)
    BY <1>1 DEF EndInv, TxnInv
  <2>2. Answered(t, r) => Answered(t, r)'
    BY <1>1, <1>5, <1>8, AnsweredStays
  <2>3. CASE r = s
    BY <2>1, <2>2, <2>3, <1>2, <1>6, <1>9, NoneIsNone DEF Justified, Status
  <2>4. CASE r # s
    <3>1. <<r, "evaluation">> \in inserts'[t] => <<r, "evaluation">> \in inserts[t]
      BY <2>4, <1>5
    <3> QED
      BY <2>1, <2>2, <2>4, <3>1, <1>2, <1>6 DEF Justified
  <2> QED
    BY <2>3, <2>4
<1>11. PlaceInv(t)'
  BY <1>7 DEF PlaceInv
<1> QED
  BY <1>1, <1>2, <1>5, <1>7, <1>8, <1>10, <1>11, StepKeeps

\* A request that inserts something other than an evaluation.
LEMMA InsertEnds ==
  ASSUME TypeInv, TypeInv', EndInv, NEW t \in Requests, pc[t] # "idle",
         NEW kinds \in SUBSET (Kind \ {"evaluation"}), Store(t, target[t], kinds),
         NEW place, GoTo(t, place),
         UNCHANGED <<row, old, lock, work, target, object, assigned>>,
         PlaceInv(t)'
  PROVE  EndInv'
<1>1. t \in Txns /\ target[t] \in Sessions
  BY DEF Txns, TypeInv, TypeOK
<1>2. kinds \in SUBSET Kind
  OBVIOUS
<1>3. /\ inserts'[t] = inserts[t] \cup ({target[t]} \X kinds)
      /\ \A u \in Txns \ {t} : inserts'[u] = inserts[u]
  BY <1>1, <1>2, StoreTypes
<1>4. Own(t)
  BY <1>1, <1>3 DEF Own, GoTo, TypeInv, TypeOK
<1>5. Grows /\ RowInv'
  BY SameRowGrows DEF EndInv
<1>6. TxnInv(t)'
  <2> SUFFICES ASSUME NEW r \in Sessions
               PROVE  Justified(t, r)'
    BY DEF TxnInv
  <2>1. Justified(t, r)
    BY <1>1 DEF EndInv, TxnInv
  <2>2. Answered(t, r) => Answered(t, r)'
    BY <1>1, <1>3, <1>5, AnsweredStays
  <2>3. <<r, "evaluation">> \in inserts'[t] => <<r, "evaluation">> \in inserts[t]
    BY <1>3
  <2> QED
    BY <2>1, <2>2, <2>3 DEF Justified
<1> QED
  BY <1>1, <1>3, <1>4, <1>5, <1>6, StepKeeps

\* Loading the session again, in the background.
LEMMA ReloadEnds ==
  ASSUME TypeInv, TypeInv', EndInv, NEW t \in Requests, Reload(t)
  PROVE  EndInv'
<1> DEFINE s == target[t]
           loaded == [status |-> row[s].status, asked |-> row[s].asked,
                      answered |-> row[s].answered, evaluations |-> 0]
<1>1. t \in Txns /\ t # Expirer /\ s \in Sessions
  BY ExpirerApart DEF Txns, Reload, TypeInv, TypeOK
<1>2. Own(t) /\ pc'[t] = "evaluate" /\ pc[t] = "reload"
  BY <1>1 DEF Own, GoTo, Reload, TypeInv, TypeOK
<1>3. UNCHANGED <<row, lock, work, target, assigned, inserts>>
  BY DEF Reload
<1>4. Grows /\ RowInv'
  BY <1>3, SameRowGrows DEF EndInv
<1>5. object'[t][s] = loaded /\ \A r \in Sessions \ {s} : object'[t][r] = object[t][r]
  BY <1>1 DEF Reload, TypeInv, TypeOK
<1>6. loaded # None
  <2>1. row[s].status \in Status
    BY <1>1 DEF TypeInv, TypeOK, Row
  <2>2. loaded \in Object
    BY <1>1, <2>1, Counts DEF Object
  <2> QED
    BY <2>2, NoneIsNone
<1>7. TxnInv(t)'
  <2>1. \A r \in Sessions : row[r].answered \in Nat /\ row[r].evaluations \in Nat
    BY Counts
  <2>2. /\ loaded.answered = row[s].answered /\ loaded.evaluations = 0
        /\ loaded.status = row[s].status
    OBVIOUS
  <2> HIDE DEF loaded
  <2> SUFFICES ASSUME NEW r \in Sessions
               PROVE  Justified(t, r)'
    BY DEF TxnInv
  <2>3. Justified(t, r)
    BY <1>1 DEF EndInv, TxnInv
  <2>4. CASE r = s
    BY <1>3, <1>5, <2>1, <2>2, <2>3, <2>4 DEF Justified, Answered
  <2>5. CASE r # s
    BY <1>3, <1>5, <2>3, <2>5 DEF Justified, Answered
  <2> QED
    BY <2>4, <2>5
<1>8. PlaceInv(t)'
  <2>1. Answered(t, s)
    BY <1>1, <1>2 DEF EndInv, PlaceInv
  <2> QED
    BY <1>2, <1>3, <1>5, <1>6, <2>1 DEF PlaceInv, Answered
<1> QED
  BY <1>1, <1>2, <1>3, <1>4, <1>7, <1>8, StepKeeps

\* The steps of a request.
LEMMA RequestEnds ==
  ASSUME TypeInv, TypeInv', EndInv, NEW t \in Requests,
         Proceed(t) \/ \E s \in Sessions : Open(t, s)
  PROVE  EndInv'
<1>a. t \in Txns /\ t # Expirer
  BY ExpirerApart DEF Txns
<1>b. \A place : GoTo(t, place) => pc'[t] = place
  BY <1>a DEF GoTo, TypeInv, TypeOK
<1>1. ASSUME NEW s \in Sessions, Open(t, s)
      PROVE  EndInv'
  <2>1. PlaceInv(t)'
    BY <1>1, <1>b DEF Open, PlaceInv
  <2>2. \A u \in Txns \ {t} : target'[u] = target[u]
    BY <1>1, <1>a DEF Open, TypeInv, TypeOK
  <2> QED
    BY <1>1, <1>a, <2>1, <2>2, GoToEnds DEF Open
<1>2. ASSUME LoadForSend(t) \/ LoadToAbandon(t) \/ LoadToComplete(t)
      PROVE  EndInv'
  BY <1>2, LoadEnds DEF LoadForSend, LoadToAbandon, LoadToComplete
<1>3. ASSUME Detected(t) \/ RefuseComplete(t)
      PROVE  EndInv'
  BY <1>3, <1>a, RollbackEnds DEF Detected, RefuseComplete
<1>4. ASSUME StoreAnswer(t)
      PROVE  EndInv'
  <2>1. {"answer"} \in SUBSET (Kind \ {"evaluation"})
    BY DEF Kind
  <2>2. target[t] \in Sessions /\ object[t][target[t]] # None
    BY <1>4, <1>a DEF StoreAnswer, TypeInv, TypeOK, EndInv, PlaceInv
  <2>3. <<target[t], "answer">> \in inserts'[t]
    <3>1. {"answer"} \in SUBSET Kind
      BY DEF Kind
    <3> QED
      BY <1>4, <1>a, <2>2, <3>1, StoreTypes DEF StoreAnswer
  <2>4. PlaceInv(t)'
    BY <1>4, <1>a, <1>b, <2>2, <2>3 DEF StoreAnswer, PlaceInv, Answered
  <2> QED
    BY <1>4, <2>1, <2>4, InsertEnds DEF StoreAnswer
<1>5. ASSUME AskQuestion(t)
      PROVE  EndInv'
  <2>1. {"question"} \in SUBSET (Kind \ {"evaluation"})
    BY DEF Kind
  <2>2. PlaceInv(t)'
    BY <1>5, <1>b DEF AskQuestion, PlaceInv
  <2> QED
    BY <1>5, <2>1, <2>2, InsertEnds DEF AskQuestion
<1>6. ASSUME Flush(t)
      PROVE  EndInv'
  <2>1. target[t] \in Sessions
    BY <1>6, <1>a DEF Flush, TypeInv, TypeOK
  <2>2. Own(t)
    BY <1>6, <1>a DEF Flush, Update, GoTo, Own, TypeInv, TypeOK
  <2> QED
    BY <1>6, <1>a, <1>b, <2>1, <2>2, UpdateKeeps DEF Flush
<1>7. ASSUME FindBrief(t)
      PROVE  EndInv'
  <2>1. CASE Rollback(t)
    BY <2>1, <1>a, RollbackEnds
  <2>2. ASSUME NEW place \in {"write", "commit"}, GoTo(t, place),
               UNCHANGED <<row, old, lock, work, locals>>
        PROVE  EndInv'
    <3>1. PlaceInv(t)'
      BY <2>2, <1>b DEF PlaceInv
    <3> QED
      BY <2>2, <3>1, <1>a, GoToEnds DEF locals
  <2> QED
    BY <1>7, <2>1, <2>2 DEF FindBrief
<1>8. ASSUME WriteBrief(t)
      PROVE  EndInv'
  <2>1. PlaceInv(t)'
    BY <1>8, <1>b DEF WriteBrief, PlaceInv
  <2>2. CASE t \in Abandons
    <3>1. {"brief"} \in SUBSET (Kind \ {"evaluation"})
      BY DEF Kind
    <3> QED
      BY <1>8, <2>1, <2>2, <3>1, InsertEnds DEF WriteBrief
  <2>3. CASE t \notin Abandons
    <3>1. UNCHANGED <<old, lock, work, target, object, assigned, inserts>>
      BY <1>8, <2>3 DEF WriteBrief
    <3>2. Own(t)
      BY <1>8, <3>1, <1>a DEF WriteBrief, GoTo, Own, TypeInv, TypeOK
    <3>3. \A s \in Sessions :
            /\ row'[s].status = row[s].status /\ row'[s].answered = row[s].answered
            /\ row'[s].evaluations = row[s].evaluations
      <4>1. row' = [row EXCEPT ![target[t]].briefs = @ + 1]
        BY <1>8, <2>3 DEF WriteBrief
      <4>2. row \in [Sessions -> Row]
        BY DEF TypeInv, TypeOK
      <4> QED
        BY <4>1, <4>2 DEF Row
    <3>4. Grows
      BY <3>3, Counts DEF Grows
    <3>5. RowInv'
      BY <3>3 DEF RowInv, EndInv
    <3>6. TxnInv(t)'
      BY <1>a, <3>1, <3>4, TxnStays
    <3> QED
      BY <1>a, <2>1, <3>1, <3>2, <3>4, <3>5, <3>6, StepKeeps
  <2> QED
    BY <2>2, <2>3
<1>9. ASSUME Commit(t)
      PROVE  EndInv'
  BY <1>9, <1>a, CommitEnds
<1> QED
  BY <1>1, <1>2, <1>3, <1>4, <1>5, <1>6, <1>7, <1>8, <1>9,
     LeaveEnds, ReloadEnds, EvaluateEnds
     DEF Proceed, SendStep, CompleteStep, AbandonStep, FinalizeStep

\* The task loads rows, then messages, then metrics: what it has loaded is
\* never ahead of the sessions.
LEMMA SelectEnds ==
  ASSUME TypeInv, TypeInv', EndInv, NEW place \in {"messages", "metrics", "next"},
         GoTo(Expirer, place), UNCHANGED <<row, old, lock, work, target, assigned, inserts>>,
         \A u \in Txns \ {Expirer} : object'[u] = object[u],
         \A s \in Sessions :
           LET loaded == object'[Expirer][s]
           IN  loaded # None => /\ loaded.answered <= row[s].answered
                                /\ loaded.evaluations <= row[s].evaluations
                                /\ loaded.status # "active" => row[s].status # "active"
  PROVE  EndInv'
<1>1. Own(Expirer) /\ pc'[Expirer] = place
  BY ExpirerApart DEF Own, GoTo, TypeInv, TypeOK
<1>2. Grows /\ RowInv'
  BY SameRowGrows DEF EndInv
<1>3. TxnInv(Expirer)'
  <2> SUFFICES ASSUME NEW s \in Sessions
               PROVE  Justified(Expirer, s)'
    BY DEF TxnInv
  <2>1. Justified(Expirer, s)
    BY ExpirerApart DEF EndInv, TxnInv
  <2> QED
    BY <2>1 DEF Justified, Answered
<1>4. PlaceInv(Expirer)'
  BY <1>1, ExpirerApart DEF PlaceInv
<1> QED
  BY <1>1, <1>2, <1>3, <1>4, ExpirerApart, StepKeeps

\* The task assigns an end to a session it has dealt with.
LEMMA AssignEnds ==
  ASSUME TypeInv, TypeInv', EndInv, NEW s \in Sessions,
         NEW status \in {"completed", "cancelled"}, Assign(s, status),
         Answered(Expirer, s) \/ status = "cancelled",
         NEW kinds \in SUBSET {"evaluation"},
         Store(Expirer, s, kinds) \/ (kinds = {} /\ UNCHANGED inserts),
         kinds # {} => Answered(Expirer, s),
         GoTo(Expirer, "next"),
         UNCHANGED <<row, old, lock, work>>,
         \A u \in Txns \ {Expirer} : target'[u] = target[u]
  PROVE  EndInv'
<1>1. kinds \in SUBSET Kind
  BY DEF Kind
<1>2. /\ inserts'[Expirer] = inserts[Expirer] \cup ({s} \X kinds)
      /\ \A u \in Txns \ {Expirer} : inserts'[u] = inserts[u]
  <2>1. CASE Store(Expirer, s, kinds)
    BY <2>1, <1>1, ExpirerApart, StoreTypes
  <2>2. CASE kinds = {} /\ UNCHANGED inserts
    BY <2>2
  <2> QED
    BY <2>1, <2>2
<1>3. /\ assigned'[Expirer][s] = status /\ object'[Expirer][s] = None
      /\ \A r \in Sessions \ {s} : /\ assigned'[Expirer][r] = assigned[Expirer][r]
                                   /\ object'[Expirer][r] = object[Expirer][r]
      /\ \A u \in Txns \ {Expirer} : assigned'[u] = assigned[u] /\ object'[u] = object[u]
  BY ExpirerApart DEF Assign, TypeInv, TypeOK
<1>4. Own(Expirer) /\ pc'[Expirer] = "next"
  BY <1>2, <1>3, ExpirerApart DEF Own, GoTo, TypeInv, TypeOK
<1>5. Grows /\ RowInv'
  BY SameRowGrows DEF EndInv
<1>6. TxnInv(Expirer)'
  <2> SUFFICES ASSUME NEW r \in Sessions
               PROVE  Justified(Expirer, r)'
    BY DEF TxnInv
  <2>1. Justified(Expirer, r)
    BY ExpirerApart DEF EndInv, TxnInv
  <2>2. Answered(Expirer, r) => Answered(Expirer, r)'
    BY <1>2, <1>5, ExpirerApart, AnsweredStays
  <2>3. CASE r = s
    <3>1. status # None /\ status \notin {"active", "same"}
      BY NoneIsNone DEF Status
    <3>2. <<r, "evaluation">> \in inserts'[Expirer] =>
            Answered(Expirer, r)'
      <4>1. CASE kinds = {}
        BY <4>1, <1>2, <2>1, <2>2 DEF Justified
      <4>2. CASE kinds # {}
        BY <4>2, <2>2, <2>3
      <4> QED
        BY <4>1, <4>2
    <3> QED
      BY <2>2, <2>3, <3>1, <3>2, <1>3 DEF Justified
  <2>4. CASE r # s
    <3>1. <<r, "evaluation">> \in inserts'[Expirer] => <<r, "evaluation">> \in inserts[Expirer]
      BY <2>4, <1>2
    <3> QED
      BY <2>1, <2>2, <2>4, <3>1, <1>3 DEF Justified
  <2> QED
    BY <2>3, <2>4
<1>7. PlaceInv(Expirer)'
  BY <1>4, ExpirerApart DEF PlaceInv
<1> QED
  BY <1>2, <1>4, <1>5, <1>6, <1>7, ExpirerApart, StepKeeps

\* The steps of the task.
LEMMA ExpirerEnds ==
  ASSUME TypeInv, TypeInv', EndInv, ExpirerStep
  PROVE  EndInv'
<1>a. Expirer \in Txns /\ Expirer \notin Requests
  BY ExpirerApart
<1>b. \A place : GoTo(Expirer, place) => pc'[Expirer] = place
  BY <1>a DEF GoTo, TypeInv, TypeOK
<1>c. \A s \in Sessions :
        /\ row[s].answered \in Nat /\ row[s].evaluations \in Nat
        /\ object[Expirer][s] # None =>
             /\ object[Expirer][s] \in Object
             /\ object[Expirer][s].answered <= row[s].answered
             /\ object[Expirer][s].evaluations <= row[s].evaluations
             /\ object[Expirer][s].status # "active" => row[s].status # "active"
  <2> SUFFICES ASSUME NEW s \in Sessions
               PROVE  /\ row[s].answered \in Nat /\ row[s].evaluations \in Nat
                      /\ object[Expirer][s] # None =>
                           /\ object[Expirer][s] \in Object
                           /\ object[Expirer][s].answered <= row[s].answered
                           /\ object[Expirer][s].evaluations <= row[s].evaluations
                           /\ object[Expirer][s].status # "active" =>
                                row[s].status # "active"
    OBVIOUS
  <2>1. Justified(Expirer, s)
    BY <1>a DEF EndInv, TxnInv
  <2>2. object[Expirer][s] \in Object \cup {None}
    BY <1>a DEF TypeInv, TypeOK
  <2> QED
    BY <2>1, <2>2, Counts DEF Justified
<1>1. ASSUME SelectStale
      PROVE  EndInv'
  <2>1. \A s \in Sessions : object'[Expirer][s] # None =>
          /\ object'[Expirer][s].answered = 0 /\ object'[Expirer][s].evaluations = 0
          /\ object'[Expirer][s].status = "active"
    BY <1>1, <1>a DEF SelectStale, TypeInv, TypeOK
  <2>2. \A u \in Txns \ {Expirer} : object'[u] = object[u]
    BY <1>1 DEF SelectStale, TypeInv, TypeOK
  <2> QED
    BY <1>1, <1>c, <2>1, <2>2, SelectEnds DEF SelectStale
<1>2. ASSUME SelectMessages
      PROVE  EndInv'
  <2>1. ASSUME NEW s \in Sessions, object'[Expirer][s] # None
        PROVE  /\ object'[Expirer][s].answered <= row[s].answered
               /\ object'[Expirer][s].evaluations <= row[s].evaluations
               /\ object'[Expirer][s].status # "active" => row[s].status # "active"
    <3>1. /\ object[Expirer][s] # None
          /\ object'[Expirer][s] =
               [object[Expirer][s] EXCEPT !.asked = row[s].asked,
                                          !.answered = row[s].answered]
      BY <1>2, <2>1, <1>a DEF SelectMessages, Todo, TypeInv, TypeOK
    <3>2. object[Expirer][s] \in Object
      BY <1>c, <3>1
    <3>3. /\ object'[Expirer][s].answered = row[s].answered
          /\ object'[Expirer][s].evaluations = object[Expirer][s].evaluations
          /\ object'[Expirer][s].status = object[Expirer][s].status
      BY <3>1, <3>2 DEF Object
    <3> QED
      BY <1>c, <3>1, <3>3
  <2>2. \A u \in Txns \ {Expirer} : object'[u] = object[u]
    BY <1>2 DEF SelectMessages, TypeInv, TypeOK
  <2>3. /\ GoTo(Expirer, "metrics")
        /\ UNCHANGED <<row, old, lock, work, target, assigned, inserts>>
    BY <1>2 DEF SelectMessages
  <2> QED
    BY <2>1, <2>2, <2>3, SelectEnds
<1>3. ASSUME SelectMetrics
      PROVE  EndInv'
  <2>1. \A s \in Sessions : object'[Expirer][s] # None =>
          /\ object'[Expirer][s].answered = object[Expirer][s].answered
          /\ object'[Expirer][s].evaluations = row[s].evaluations
          /\ object'[Expirer][s].status = object[Expirer][s].status
          /\ object[Expirer][s] # None
    BY <1>3, <1>a, <1>c DEF SelectMetrics, Todo, Object, TypeInv, TypeOK
  <2>2. \A u \in Txns \ {Expirer} : object'[u] = object[u]
    BY <1>3 DEF SelectMetrics, TypeInv, TypeOK
  <2> QED
    BY <1>3, <1>c, <2>1, <2>2, SelectEnds DEF SelectMetrics
<1>4. ASSUME NEW s \in Sessions, ExpireAtOnce(s)
      PROVE  EndInv'
  <2>1. GoTo(Expirer, "next")
    BY <1>4, <1>a DEF ExpireAtOnce, GoTo, TypeInv, TypeOK
  <2>2. object[Expirer][s].evaluations > 0 => Answered(Expirer, s)
    BY <1>4, <1>c DEF ExpireAtOnce, EndInv, RowInv, Answered, Object
  <2>3. PICK status \in {"completed", "cancelled"} :
          Assign(s, status) /\ (Answered(Expirer, s) \/ status = "cancelled")
    BY <1>4, <2>2 DEF ExpireAtOnce
  <2>4. {} \in SUBSET {"evaluation"}
    OBVIOUS
  <2>5. UNCHANGED <<row, old, lock, work, inserts>>
    BY <1>4 DEF ExpireAtOnce
  <2>6. \A u \in Txns \ {Expirer} : target'[u] = target[u]
    BY <1>4 DEF ExpireAtOnce
  <2> QED
    BY <2>1, <2>3, <2>4, <2>5, <2>6, AssignEnds
<1>5. ASSUME NEW s \in Sessions, ExpireAnswered(s)
      PROVE  EndInv'
  <2>1. Answered(Expirer, s) /\ target'[Expirer] = s
    BY <1>5, <1>a, <1>c DEF ExpireAnswered, Answered, Object, TypeInv, TypeOK
  <2>2. PlaceInv(Expirer)'
    BY <1>5, <1>a, <1>b, <2>1 DEF ExpireAnswered, PlaceInv, Answered
  <2>3. \A u \in Txns \ {Expirer} : target'[u] = target[u]
    BY <1>5 DEF ExpireAnswered, TypeInv, TypeOK
  <2> QED
    BY <1>5, <1>a, <2>2, <2>3, GoToEnds DEF ExpireAnswered
<1>6. ASSUME ReadSource
      PROVE  EndInv'
  <2>1. Answered(Expirer, target[Expirer])
    BY <1>6, <1>a DEF ReadSource, EndInv, PlaceInv
  <2>2. PlaceInv(Expirer)'
    BY <1>6, <1>a, <1>b, <2>1 DEF ReadSource, PlaceInv, Answered, locals
  <2> QED
    BY <1>6, <1>a, <2>2, GoToEnds DEF ReadSource, locals
<1>7. ASSUME SelectUnbound
      PROVE  EndInv'
  BY <1>7, <1>a, RollbackEnds DEF SelectUnbound
<1>8. ASSUME EvaluateStale
      PROVE  EndInv'
  <2> DEFINE s == target[Expirer]
  <2>1. s \in Sessions /\ Answered(Expirer, s)
    BY <1>8, <1>a DEF EvaluateStale, TypeInv, TypeOK, EndInv, PlaceInv
  <2>2. \A u \in Txns \ {Expirer} : target'[u] = target[u]
    BY <1>8 DEF EvaluateStale, TypeInv, TypeOK
  <2>3. GoTo(Expirer, "next") /\ UNCHANGED <<row, old, lock, work>>
    BY <1>8 DEF EvaluateStale
  <2>4. ASSUME NEW kinds \in SUBSET {"evaluation"}, Store(Expirer, s, kinds),
               Assign(s, "completed")
        PROVE  EndInv'
    BY <2>1, <2>2, <2>3, <2>4, AssignEnds
  <2>5. ASSUME UNCHANGED inserts, Assign(s, "cancelled")
        PROVE  EndInv'
    <3>1. {} \in SUBSET {"evaluation"}
      OBVIOUS
    <3> QED
      BY <2>1, <2>2, <2>3, <2>5, <3>1, AssignEnds
  <2> QED
    BY <1>8, <2>4, <2>5 DEF EvaluateStale
<1>9. ASSUME NEW s \in Sessions, FlushRow(s)
      PROVE  EndInv'
  <2>1. Own(Expirer)
    BY <1>9, <1>a DEF FlushRow, Update, Own, TypeInv, TypeOK
  <2> QED
    BY <1>9, <1>a, <2>1, UpdateKeeps DEF FlushRow
<1>10. ASSUME FinishLoop
       PROVE  EndInv'
  <2>1. PlaceInv(Expirer)'
    BY <1>10, <1>a, <1>b DEF FinishLoop, PlaceInv
  <2> QED
    BY <1>10, <1>a, <2>1, GoToEnds DEF FinishLoop, locals
<1>11. ASSUME Commit(Expirer)
       PROVE  EndInv'
  BY <1>11, <1>a, CommitEnds
<1> QED
  BY <1>1, <1>2, <1>3, <1>4, <1>5, <1>6, <1>7, <1>8, <1>9, <1>10, <1>11
     DEF ExpirerStep

\* Sessions end as EndInv says.
LEMMA EndsInvariant == Spec => []EndInv
<1>1. Init => EndInv
  <2> SUFFICES ASSUME Init
               PROVE  EndInv
    OBVIOUS
  <2>1. \A s \in Sessions : row[s] \in InitialRows
    BY DEF Init
  <2>2. \A s \in Sessions : row[s].status = "active" /\ row[s].evaluations = 0
    BY <2>1, SessionsAssumption DEF SessionsAssumption
  <2>3. RowInv
    BY <2>2 DEF RowInv
  <2>4. LockInv
    BY DEF Init, LockInv
  <2>5. \A t \in Txns : TxnInv(t) /\ PlaceInv(t)
    BY NoneIsNone DEF Init, TxnInv, Justified, PlaceInv, Status
  <2> QED
    BY <2>3, <2>4, <2>5 DEF EndInv
<1>2. TypeInv /\ TypeInv' /\ EndInv /\ [Next]_vars => EndInv'
  <2> SUFFICES ASSUME TypeInv, TypeInv', EndInv, [Next]_vars
               PROVE  EndInv'
    OBVIOUS
  <2>1. CASE UNCHANGED vars
    BY <2>1 DEF EndInv, RowInv, LockInv, TxnInv, Justified, PlaceInv, Answered,
                vars, locals
  <2>2. ASSUME NEW s \in Sessions, Age(s)
        PROVE  EndInv'
    BY <2>2 DEF Age, EndInv, RowInv, LockInv, TxnInv, Justified, PlaceInv,
                Answered, locals
  <2>3. ASSUME NEW t \in Txns, Fail(t)
        PROVE  EndInv'
    BY <2>3, RollbackEnds DEF Fail
  <2>4. ASSUME NEW t \in Requests, NEW s \in Sessions, Refuse(t, s)
        PROVE  EndInv'
    BY <2>4, <2>1 DEF Refuse
  <2> QED
    BY <2>1, <2>2, <2>3, <2>4, RequestEnds, ExpirerEnds DEF Next
<1> QED
  BY <1>1, <1>2, TypesInvariant, PTL DEF Spec

\* Whoever completes a session, on whatever snapshot and whatever it
\* overwrites, a completed session has a committed answer.
THEOREM CompletedAnswered == Spec => []CompletedHasAnswer
<1>1. EndInv => CompletedHasAnswer
  BY DEF EndInv, RowInv, CompletedHasAnswer
<1> QED
  BY <1>1, EndsInvariant, PTL

\* No metrics are ever committed on a session that is still active.
THEOREM EvaluatedEnded == Spec => []EvaluatedHasEnded
<1>1. EndInv => EvaluatedHasEnded
  BY DEF EndInv, RowInv, EvaluatedHasEnded
<1> QED
  BY <1>1, EndsInvariant, PTL

-----------------------------------------------------------------------------
(* The limit of turns.                                                     *)

\* t has read that session s has room for a question and has yet to commit it.
Asks(t, s) ==
  \/ <<s, "question">> \in inserts[t]
  \/ target[t] = s /\ pc[t] = "ask"
  \/ target[t] = s /\ pc[t] = "detect" /\ object[t][s].asked < MaxTurns

Asking(s) == {t \in Sends : Asks(t, s)}

\* The questions asked and those about to be.
WithinTurns(s) ==
  /\ row[s].asked <= MaxTurns \/ row[s].asked < MaxTurns + Cardinality(Sends)
  /\ Asking(s) # {} =>
       row[s].asked + Cardinality(Asking(s)) < MaxTurns + Cardinality(Sends)

\* Only sends ask, and what they ask is inserted last.
QuestionInv(t) ==
  \A s \in Sessions :
    <<s, "question">> \in inserts[t] => t \in Sends /\ pc[t] = "commit"

TurnsInv ==
  /\ \A t \in Txns : QuestionInv(t)
  /\ \A s \in Sessions : WithinTurns(s)

\* Sends, and the sends that ask, are finite sets.
LEMMA SendsFinite ==
  ASSUME NEW T \in SUBSET Sends
  PROVE  /\ IsFiniteSet(T) /\ Cardinality(T) \in Nat
         /\ Cardinality(Sends) \in Nat /\ Cardinality(T) <= Cardinality(Sends)
         /\ T # {} => Cardinality(T) > 0
<1>1. IsFiniteSet(Sends)
  BY SessionsAssumption DEF SessionsAssumption
<1>2. IsFiniteSet(T) /\ Cardinality(T) <= Cardinality(Sends)
  BY <1>1, FS_Subset
<1>3. Cardinality(T) \in Nat /\ Cardinality(Sends) \in Nat
  BY <1>1, <1>2, FS_CardinalityType
<1>4. Cardinality(T) = 0 <=> T = {}
  BY <1>2, FS_EmptySet
<1> QED
  BY <1>2, <1>3, <1>4

\* A step that asks nothing, and after which no other send asks.
LEMMA ShrinksTurns ==
  ASSUME TypeInv, NEW s \in Sessions, WithinTurns(s),
         row'[s].asked = row[s].asked, Asking(s)' \subseteq Asking(s)
  PROVE  WithinTurns(s)'
<1> DEFINE before == Asking(s)
           after == Asking(s)'
           n == Cardinality(Sends)
<1>1. before \in SUBSET Sends /\ after \in SUBSET Sends
  BY DEF Asking
<1>2. IsFiniteSet(before) /\ Cardinality(before) \in Nat /\ n \in Nat
  BY <1>1, SendsFinite
<1>3. Cardinality(after) \in Nat /\ Cardinality(after) <= Cardinality(before)
  BY <1>1, <1>2, SendsFinite, FS_Subset
<1>4. row[s].asked \in Nat /\ MaxTurns \in Nat
  BY Counts, SessionsAssumption DEF SessionsAssumption
<1>5. after # {} => before # {}
  OBVIOUS
<1>6. /\ row[s].asked <= MaxTurns \/ row[s].asked < MaxTurns + n
      /\ before # {} => row[s].asked + Cardinality(before) < MaxTurns + n
  BY DEF WithinTurns
<1>7. /\ row'[s].asked <= MaxTurns \/ row'[s].asked < MaxTurns + n
      /\ after # {} => row'[s].asked + Cardinality(after) < MaxTurns + n
  <2> HIDE DEF before, after, n
  <2> QED
    BY <1>2, <1>3, <1>4, <1>5, <1>6
<1> QED
  BY <1>7 DEF WithinTurns

\* A step of t after which it asks nothing that it did not ask before.
LEMMA StepTurns ==
  ASSUME TypeInv, TurnsInv, NEW t \in Txns, Own(t),
         \A s \in Sessions : row'[s].asked = row[s].asked,
         \A s \in Sessions : t \in Sends /\ Asks(t, s)' => Asks(t, s),
         QuestionInv(t)'
  PROVE  TurnsInv'
<1>1. ASSUME NEW u \in Txns \ {t}
      PROVE  QuestionInv(u)'
  BY DEF TurnsInv, QuestionInv, Own
<1>2. ASSUME NEW s \in Sessions
      PROVE  WithinTurns(s)'
  <2>1. ASSUME NEW u \in Sends, Asks(u, s)'
        PROVE  Asks(u, s)
    <3>1. CASE u = t
      BY <2>1, <3>1
    <3>2. CASE u # t
      <4>1. u \in Txns \ {t}
        BY <3>2 DEF Txns, Requests
      <4> QED
        BY <2>1, <4>1 DEF Asks, Own
    <3> QED
      BY <3>1, <3>2
  <2>2. Asking(s)' \subseteq Asking(s)
    BY <2>1 DEF Asking
  <2> QED
    BY <2>2, ShrinksTurns DEF TurnsInv
<1> QED
  BY <1>1, <1>2 DEF TurnsInv

\* A step of t that asks nothing: it does not go where questions are asked,
\* and inserts none.
LEMMA QuietTurns ==
  ASSUME TypeInv, TurnsInv, NEW t \in Txns, Own(t),
         \A s \in Sessions : row'[s].asked = row[s].asked,
         pc'[t] \notin {"ask", "detect"},
         \A s \in Sessions : <<s, "question">> \in inserts'[t] =>
                               <<s, "question">> \in inserts[t],
         pc[t] = "commit" => pc'[t] = "commit" \/ inserts'[t] = {}
  PROVE  TurnsInv'
<1>1. QuestionInv(t)'
  BY DEF TurnsInv, QuestionInv
<1>2. \A s \in Sessions : Asks(t, s)' => Asks(t, s)
  BY DEF Asks
<1> QED
  BY <1>1, <1>2, StepTurns

\* A transaction that closes without a commit.
LEMMA RollbackTurns ==
  ASSUME TypeInv, TurnsInv, NEW t \in Txns, Rollback(t)
  PROVE  TurnsInv'
<1>1. Own(t) /\ pc'[t] = "idle" /\ inserts'[t] = {}
  BY DEF Own, Rollback, Close, GoTo, TypeInv, TypeOK
<1> QED
  BY <1>1, QuietTurns DEF Rollback

\* A commit: what t was about to ask is asked.
LEMMA CommitTurns ==
  ASSUME TypeInv, TypeInv', TurnsInv, NEW t \in Txns, Commit(t)
  PROVE  TurnsInv'
<1>1. Own(t) /\ pc'[t] = "idle" /\ inserts'[t] = {}
  BY DEF Own, Commit, Close, GoTo, TypeInv, TypeOK
<1>2. \A u \in Txns : QuestionInv(u)'
  BY <1>1 DEF QuestionInv, TurnsInv, Own
<1>3. ASSUME NEW s \in Sessions
      PROVE  WithinTurns(s)'
  <2> DEFINE before == Asking(s)
             after == Asking(s)'
             n == Cardinality(Sends)
  <2>1. \A u \in Sends \ {t} : Asks(u, s)' <=> Asks(u, s)
    BY <1>1 DEF Asks, Own, Txns, Requests
  <2>2. ~Asks(t, s)'
    BY <1>1 DEF Asks
  <2>3. after = before \ {t}
    BY <2>1, <2>2 DEF Asking
  <2>4. CASE <<s, "question">> \in inserts[t]
    <3>1. t \in before
      BY <2>4 DEF TurnsInv, QuestionInv, Asking, Asks
    <3>2. row'[s].asked = row[s].asked + 1
      BY <2>4 DEF Commit, Stored
    <3>3. IsFiniteSet(before) /\ Cardinality(before) \in Nat /\ n \in Nat
      BY SendsFinite DEF Asking
    <3>4. Cardinality(after) = Cardinality(before) - 1
      BY <2>3, <3>1, <3>3, FS_RemoveElement
    <3>5. row[s].asked \in Nat /\ MaxTurns \in Nat
      BY Counts, SessionsAssumption DEF SessionsAssumption
    <3>6. row[s].asked + Cardinality(before) < MaxTurns + n
      BY <3>1 DEF TurnsInv, WithinTurns
    <3>7. Cardinality(before) > 0
      BY <3>1, SendsFinite DEF Asking
    <3>8. /\ row'[s].asked < MaxTurns + n
          /\ row'[s].asked + Cardinality(after) < MaxTurns + n
      <4> HIDE DEF before, after, n
      <4> QED
        BY <3>2, <3>3, <3>4, <3>5, <3>6, <3>7
    <3> QED
      BY <3>8 DEF WithinTurns
  <2>5. CASE <<s, "question">> \notin inserts[t]
    <3>1. row'[s].asked = row[s].asked
      <4>1. row[s].asked \in Nat
        BY Counts
      <4> QED
        BY <2>5, <4>1 DEF Commit, Stored
    <3> QED
      BY <2>3, <3>1, ShrinksTurns DEF TurnsInv
  <2> QED
    BY <2>4, <2>5
<1> QED
  BY <1>2, <1>3 DEF TurnsInv

\* A send that finds room for a question is about to ask one.
LEMMA LoadTurns ==
  ASSUME TypeInv, TypeInv', TurnsInv, NEW t \in Sends, LoadForSend(t)
  PROVE  TurnsInv'
<1>a. t \in Txns /\ target[t] \in Sessions
  BY DEF Txns, Requests, LoadForSend, LoadMessages, TypeInv, TypeOK
<1>b. PICK r \in Sessions : r = target[t]
  BY <1>a
<1>1. t \in Txns /\ r \in Sessions /\ target[t] = r
  BY <1>a, <1>b
<1>2. Own(t) /\ pc'[t] = "detect" /\ UNCHANGED <<row, inserts>> /\ target'[t] = r
  BY <1>1 DEF Own, LoadForSend, LoadMessages, GoTo, TypeInv, TypeOK
<1>3. object'[t][r].asked = row[r].asked
  BY <1>1 DEF LoadForSend, LoadMessages, TypeInv, TypeOK
<1>4. \A s \in Sessions : <<s, "question">> \notin inserts[t]
  BY <1>1 DEF TurnsInv, QuestionInv, LoadForSend, LoadMessages
<1>5. QuestionInv(t)'
  BY <1>2, <1>4 DEF QuestionInv
<1>6. CASE row[r].asked >= MaxTurns
  <2>1. row[r].asked \in Nat /\ MaxTurns \in Nat
    BY <1>1, Counts, SessionsAssumption DEF SessionsAssumption
  <2>a. ~(object'[t][r].asked < MaxTurns)
    BY <1>3, <1>6, <2>1
  <2>2. \A s \in Sessions : ~Asks(t, s)'
    BY <1>2, <1>4, <2>a DEF Asks
  <2> QED
    BY <1>1, <1>2, <1>5, <2>2, StepTurns
<1>7. CASE row[r].asked < MaxTurns
  <2>1. \A u \in Txns : QuestionInv(u)'
    BY <1>2, <1>5 DEF TurnsInv, QuestionInv, Own
  <2>2. WithinTurns(r)'
    <3> DEFINE after == Asking(r)'
               n == Cardinality(Sends)
    <3>1. Cardinality(after) \in Nat /\ n \in Nat /\ Cardinality(after) <= n
      <4>1. after \in SUBSET Sends
        BY DEF Asking
      <4> QED
        BY <4>1, SendsFinite
    <3>2. row[r].asked \in Nat /\ MaxTurns \in Nat
      BY <1>1, Counts, SessionsAssumption DEF SessionsAssumption
    <3>3. row'[r].asked = row[r].asked
      BY <1>2
    <3>4. row'[r].asked <= MaxTurns /\ row'[r].asked + Cardinality(after) < MaxTurns + n
      <4> HIDE DEF after, n
      <4> QED
        BY <3>1, <3>2, <3>3, <1>7
    <3> QED
      BY <3>4 DEF WithinTurns
  <2>3. ASSUME NEW s \in Sessions \ {r}
        PROVE  WithinTurns(s)'
    <3>1. \A u \in Sends : Asks(u, s)' => Asks(u, s)
      <4>1. ~Asks(t, s)'
        BY <1>2, <1>4 DEF Asks
      <4>2. \A u \in Sends \ {t} : Asks(u, s)' => Asks(u, s)
        BY <1>2 DEF Asks, Own, Txns, Requests
      <4> QED
        BY <4>1, <4>2
    <3>2. Asking(s)' \subseteq Asking(s)
      BY <3>1 DEF Asking
    <3> QED
      BY <3>2, <1>2, ShrinksTurns DEF TurnsInv
  <2> QED
    BY <2>1, <2>2, <2>3 DEF TurnsInv
<1> QED
  <2>1. row[r].asked \in Nat /\ MaxTurns \in Nat
    BY <1>1, Counts, SessionsAssumption DEF SessionsAssumption
  <2> QED
    BY <1>6, <1>7, <2>1

\* The steps of a request.
LEMMA RequestTurns ==
  ASSUME TypeInv, TypeInv', EndInv, TurnsInv, NEW t \in Requests,
         Proceed(t) \/ \E s \in Sessions : Open(t, s)
  PROVE  TurnsInv'
<1>a. t \in Txns
  BY DEF Txns
<1>b. \A s \in Sessions : pc[t] # "commit" => <<s, "question">> \notin inserts[t]
  BY <1>a DEF TurnsInv, QuestionInv
<1>c. ASSUME Own(t), \A s \in Sessions : row'[s].asked = row[s].asked,
             pc'[t] \notin {"ask", "detect"}, pc[t] # "commit",
             \A s \in Sessions : <<s, "question">> \notin inserts'[t]
      PROVE  TurnsInv'
  BY <1>a, <1>c, QuietTurns
<1>1. ASSUME NEW s \in Sessions, Open(t, s)
      PROVE  TurnsInv'
  <2>1. Own(t) /\ pc'[t] = "messages" /\ pc[t] = "idle" /\ UNCHANGED <<row, inserts>>
    BY <1>1, <1>a DEF Open, Own, GoTo, TypeInv, TypeOK
  <2> QED
    BY <2>1, <1>b, <1>c
<1>2. ASSUME NEW place \in {"leave", "evaluate"}, LoadMessages(t, place)
      PROVE  TurnsInv'
  <2>1. Own(t) /\ pc'[t] = place /\ pc[t] = "messages" /\ UNCHANGED <<row, inserts>>
    BY <1>2, <1>a DEF LoadMessages, Own, GoTo, TypeInv, TypeOK
  <2> QED
    BY <2>1, <1>b, <1>c
<1>3. ASSUME Detected(t) \/ RefuseComplete(t)
      PROVE  TurnsInv'
  BY <1>3, <1>a, RollbackTurns DEF Detected, RefuseComplete
<1>4. ASSUME t \in Sends, StoreAnswer(t)
      PROVE  TurnsInv'
  <2>1. {"answer"} \in SUBSET Kind /\ target[t] \in Sessions
    BY <1>4, <1>a DEF Kind, StoreAnswer, TypeInv, TypeOK
  <2>2. /\ inserts'[t] = inserts[t] \cup ({target[t]} \X {"answer"})
        /\ \A u \in Txns \ {t} : inserts'[u] = inserts[u]
    BY <1>4, <1>a, <2>1, StoreTypes DEF StoreAnswer
  <2>3. \A s \in Sessions : <<s, "question">> \notin inserts'[t]
    BY <1>4, <1>b, <2>2 DEF StoreAnswer
  <2>4. Own(t) /\ UNCHANGED <<row, target, object>> /\ pc[t] = "detect"
    BY <1>4, <2>2 DEF StoreAnswer, Own, GoTo, TypeInv, TypeOK
  <2>5. pc'[t] = IF object[t][target[t]].asked >= MaxTurns THEN "evaluate" ELSE "ask"
    BY <1>4, <1>a DEF StoreAnswer, GoTo, TypeInv, TypeOK
  <2>6. ASSUME NEW s \in Sessions, Asks(t, s)'
        PROVE  Asks(t, s)
    <3>1. target[t] = s /\ pc'[t] = "ask"
      BY <2>3, <2>4, <2>5, <2>6 DEF Asks
    <3>2. ~(object[t][s].asked >= MaxTurns)
      BY <2>5, <3>1
    <3>3. object[t][s].asked \in Nat /\ MaxTurns \in Nat
      <4>1. object[t][s] # None
        BY <1>4, <1>a, <3>1 DEF StoreAnswer, EndInv, PlaceInv
      <4> QED
        BY <1>a, <4>1, Counts, SessionsAssumption DEF SessionsAssumption
    <3> QED
      BY <2>4, <3>1, <3>2, <3>3 DEF Asks
  <2>7. QuestionInv(t)'
    BY <2>3 DEF QuestionInv
  <2> QED
    BY <1>a, <2>4, <2>6, <2>7, StepTurns
<1>5. ASSUME t \in Sends, AskQuestion(t)
      PROVE  TurnsInv'
  <2>1. {"question"} \in SUBSET Kind /\ target[t] \in Sessions
    BY <1>5, <1>a DEF Kind, AskQuestion, TypeInv, TypeOK
  <2>2. /\ inserts'[t] = inserts[t] \cup ({target[t]} \X {"question"})
        /\ \A u \in Txns \ {t} : inserts'[u] = inserts[u]
    BY <1>5, <1>a, <2>1, StoreTypes DEF AskQuestion
  <2>3. /\ Own(t) /\ UNCHANGED <<row, target, object>>
        /\ pc[t] = "ask" /\ pc'[t] = "commit"
    BY <1>5, <1>a, <2>2 DEF AskQuestion, Own, GoTo, TypeInv, TypeOK
  <2>4. \A s \in Sessions : Asks(t, s)' => Asks(t, s)
    BY <1>b, <2>2, <2>3 DEF Asks
  <2>5. QuestionInv(t)'
    BY <1>5, <2>3 DEF QuestionInv
  <2> QED
    BY <1>a, <2>3, <2>4, <2>5, StepTurns
<1>6. ASSUME Leave(t)
      PROVE  TurnsInv'
  <2>1. /\ Own(t) /\ pc'[t] \in {"reload", "idle"} /\ pc[t] = "leave"
        /\ inserts'[t] \in {inserts[t], {}}
    BY <1>6, <1>a DEF Leave, Close, Own, GoTo, TypeInv, TypeOK, locals
  <2>2. \A s \in Sessions : row'[s].asked = row[s].asked
    <3>1. \A s \in Sessions : row[s] \in Row
      BY DEF TypeInv, TypeOK
    <3> QED
      BY <1>6, <3>1 DEF Leave, Row, TypeInv, TypeOK
  <2> QED
    BY <1>b, <1>c, <2>1, <2>2
<1>7. ASSUME Reload(t)
      PROVE  TurnsInv'
  <2>1. Own(t) /\ pc'[t] = "evaluate" /\ pc[t] = "reload" /\ UNCHANGED <<row, inserts>>
    BY <1>7, <1>a DEF Reload, Own, GoTo, TypeInv, TypeOK
  <2> QED
    BY <2>1, <1>b, <1>c
<1>8. ASSUME Evaluate(t)
      PROVE  TurnsInv'
  <2>1. target[t] \in Sessions
    BY <1>8, <1>a DEF Evaluate, TypeInv, TypeOK
  <2>2. PICK kinds \in SUBSET {"evaluation"} : Store(t, target[t], kinds)
    BY <1>8 DEF Evaluate
  <2>3. kinds \in SUBSET Kind
    BY DEF Kind
  <2>4. /\ inserts'[t] = inserts[t] \cup ({target[t]} \X kinds)
        /\ \A u \in Txns \ {t} : inserts'[u] = inserts[u]
    BY <1>a, <2>1, <2>2, <2>3, StoreTypes
  <2>5. Own(t) /\ UNCHANGED row /\ pc[t] = "evaluate" /\ pc'[t] = "flush"
    BY <1>8, <1>a, <2>4 DEF Evaluate, Own, GoTo, TypeInv, TypeOK
  <2>6. \A s \in Sessions : <<s, "question">> \notin inserts'[t]
    BY <1>b, <2>4, <2>5
  <2> QED
    BY <1>c, <2>5, <2>6
<1>9. ASSUME Flush(t)
      PROVE  TurnsInv'
  <2>1. Own(t) /\ pc'[t] = "brief" /\ pc[t] = "flush" /\ UNCHANGED <<row, inserts>>
    BY <1>9, <1>a DEF Flush, Update, Own, GoTo, TypeInv, TypeOK
  <2> QED
    BY <2>1, <1>b, <1>c
<1>10. ASSUME FindBrief(t)
       PROVE  TurnsInv'
  <2>1. CASE Rollback(t)
    BY <1>a, <2>1, RollbackTurns
  <2>2. ASSUME NEW place \in {"write", "commit"}, GoTo(t, place),
               UNCHANGED <<row, old, lock, work, locals>>
        PROVE  TurnsInv'
    <3>1. Own(t) /\ pc'[t] = place /\ pc[t] = "brief" /\ UNCHANGED <<row, inserts>>
      BY <1>10, <1>a, <2>2 DEF FindBrief, Own, GoTo, TypeInv, TypeOK, locals
    <3> QED
      BY <3>1, <1>b, <1>c
  <2> QED
    BY <1>10, <2>1, <2>2 DEF FindBrief
<1>11. ASSUME WriteBrief(t)
       PROVE  TurnsInv'
  <2>1. {"brief"} \in SUBSET Kind /\ target[t] \in Sessions
    BY <1>11, <1>a DEF Kind, WriteBrief, TypeInv, TypeOK
  <2>2. /\ inserts'[t] \in {inserts[t], inserts[t] \cup ({target[t]} \X {"brief"})}
        /\ \A u \in Txns \ {t} : inserts'[u] = inserts[u]
    BY <1>11, <1>a, <2>1, StoreTypes DEF WriteBrief
  <2>3. Own(t) /\ pc[t] = "write" /\ pc'[t] = "commit"
    BY <1>11, <1>a, <2>2 DEF WriteBrief, Own, GoTo, TypeInv, TypeOK
  <2>4. \A s \in Sessions : row'[s].asked = row[s].asked
    <3>1. \A s \in Sessions : row[s] \in Row
      BY DEF TypeInv, TypeOK
    <3>2. CASE t \in Abandons
      BY <1>11, <3>2 DEF WriteBrief
    <3>3. CASE t \notin Abandons
      <4>1. row' = [row EXCEPT ![target[t]].briefs = @ + 1]
        BY <1>11, <3>3 DEF WriteBrief
      <4> QED
        BY <4>1, <3>1, <2>1 DEF Row, TypeInv, TypeOK
    <3> QED
      BY <3>2, <3>3
  <2>5. \A s \in Sessions : <<s, "question">> \notin inserts'[t]
    <3>1. CASE inserts'[t] = inserts[t]
      BY <1>b, <2>3, <3>1
    <3>2. CASE inserts'[t] = inserts[t] \cup ({target[t]} \X {"brief"})
      BY <1>b, <2>3, <3>2
    <3> QED
      BY <2>2, <3>1, <3>2
  <2> QED
    BY <1>c, <2>3, <2>4, <2>5
<1>12. t \in Sends /\ SendStep(t) => TurnsInv'
  BY <1>3, <1>4, <1>5, LoadTurns DEF SendStep
<1>13. CompleteStep(t) \/ AbandonStep(t) => TurnsInv'
  BY <1>2, <1>3, <1>6, <1>7
     DEF CompleteStep, AbandonStep, LoadToComplete, LoadToAbandon
<1>14. FinalizeStep(t) => TurnsInv'
  BY <1>8, <1>9, <1>10, <1>11 DEF FinalizeStep
<1> QED
  BY <1>a, <1>1, <1>12, <1>13, <1>14, CommitTurns DEF Proceed

\* The steps of the task: it asks nothing.
LEMMA ExpirerTurns ==
  ASSUME TypeInv, TypeInv', TurnsInv, ExpirerStep
  PROVE  TurnsInv'
<1>a. Expirer \in Txns /\ Expirer \notin Sends
  BY ExpirerApart DEF Requests
<1>b. \A s \in Sessions : <<s, "question">> \notin inserts[Expirer]
  BY <1>a DEF TurnsInv, QuestionInv
<1>c. ASSUME Own(Expirer), UNCHANGED row,
             \A s \in Sessions : <<s, "question">> \notin inserts'[Expirer]
      PROVE  TurnsInv'
  <2>1. QuestionInv(Expirer)'
    BY <1>c DEF QuestionInv
  <2> QED
    BY <1>a, <1>c, <2>1, StepTurns
<1>1. ASSUME SelectStale \/ SelectMessages \/ SelectMetrics \/ ReadSource \/ FinishLoop
      PROVE  TurnsInv'
  <2>1. Own(Expirer) /\ UNCHANGED <<row, inserts>>
    BY <1>1, <1>a DEF SelectStale, SelectMessages, SelectMetrics, ReadSource,
                      FinishLoop, Own, GoTo, locals, TypeInv, TypeOK
  <2> QED
    BY <1>b, <1>c, <2>1
<1>2. ASSUME NEW s \in Sessions, ExpireAtOnce(s) \/ ExpireAnswered(s) \/ FlushRow(s)
      PROVE  TurnsInv'
  <2>1. Own(Expirer) /\ UNCHANGED <<row, inserts>>
    BY <1>2, <1>a DEF ExpireAtOnce, ExpireAnswered, FlushRow, Update, Assign, Own,
                      GoTo, TypeInv, TypeOK
  <2> QED
    BY <1>b, <1>c, <2>1
<1>3. ASSUME SelectUnbound
      PROVE  TurnsInv'
  BY <1>3, <1>a, RollbackTurns DEF SelectUnbound
<1>4. ASSUME EvaluateStale
      PROVE  TurnsInv'
  <2>1. target[Expirer] \in Sessions
    BY <1>4, <1>a DEF EvaluateStale, TypeInv, TypeOK
  <2>2. /\ \A s \in Sessions : <<s, "question">> \notin inserts'[Expirer]
        /\ \A u \in Txns \ {Expirer} : inserts'[u] = inserts[u]
    <3>1. CASE UNCHANGED inserts
      BY <1>b, <3>1
    <3>2. ASSUME NEW kinds \in SUBSET {"evaluation"}, Store(Expirer, target[Expirer], kinds)
          PROVE  /\ \A s \in Sessions : <<s, "question">> \notin inserts'[Expirer]
                 /\ \A u \in Txns \ {Expirer} : inserts'[u] = inserts[u]
      <4>1. kinds \in SUBSET Kind
        BY DEF Kind
      <4>2. /\ inserts'[Expirer] = inserts[Expirer] \cup ({target[Expirer]} \X kinds)
            /\ \A u \in Txns \ {Expirer} : inserts'[u] = inserts[u]
        BY <1>a, <2>1, <3>2, <4>1, StoreTypes
      <4> QED
        BY <1>b, <4>2
    <3> QED
      BY <1>4, <3>1, <3>2 DEF EvaluateStale
  <2>3. Own(Expirer) /\ UNCHANGED row
    BY <1>4, <1>a, <2>2 DEF EvaluateStale, Assign, Own, GoTo, TypeInv, TypeOK
  <2> QED
    BY <1>c, <2>2, <2>3
<1> QED
  BY <1>a, <1>1, <1>2, <1>3, <1>4, CommitTurns DEF ExpirerStep

\* Sends keep to the turns as TurnsInv says.
LEMMA TurnsInvariant == Spec => []TurnsInv
<1>1. Init => TurnsInv
  <2> SUFFICES ASSUME Init
               PROVE  TurnsInv
    OBVIOUS
  <2>1. \A s \in Sessions : row[s] \in InitialRows
    BY DEF Init
  <2>2. \A s \in Sessions : row[s].asked <= MaxTurns
    BY <2>1, SessionsAssumption DEF SessionsAssumption
  <2>3. \A t \in Txns, s \in Sessions : ~Asks(t, s)
    BY DEF Init, Asks
  <2>4. \A s \in Sessions : Asking(s) = {}
    BY <2>3 DEF Asking, Txns, Requests
  <2>5. \A t \in Txns : QuestionInv(t)
    BY DEF Init, QuestionInv
  <2> QED
    BY <2>2, <2>4, <2>5 DEF TurnsInv, WithinTurns
<1>2. TypeInv /\ TypeInv' /\ EndInv /\ TurnsInv /\ [Next]_vars => TurnsInv'
  <2> SUFFICES ASSUME TypeInv, TypeInv', EndInv, TurnsInv, [Next]_vars
               PROVE  TurnsInv'
    OBVIOUS
  <2>1. CASE UNCHANGED vars
    BY <2>1 DEF TurnsInv, QuestionInv, WithinTurns, Asking, Asks, vars, locals
  <2>2. ASSUME NEW s \in Sessions, Age(s)
        PROVE  TurnsInv'
    BY <2>2 DEF Age, TurnsInv, QuestionInv, WithinTurns, Asking, Asks, locals
  <2>3. ASSUME NEW t \in Txns, Fail(t)
        PROVE  TurnsInv'
    BY <2>3, RollbackTurns DEF Fail
  <2>4. ASSUME NEW t \in Requests, NEW s \in Sessions, Refuse(t, s)
        PROVE  TurnsInv'
    BY <2>4, <2>1 DEF Refuse
  <2> QED
    BY <2>1, <2>2, <2>3, <2>4, RequestTurns, ExpirerTurns DEF Next
<1> QED
  BY <1>1, <1>2, TypesInvariant, EndsInvariant, PTL DEF Spec

\* However many answers are sent at the same time, a session is asked fewer
\* questions than its limit and the number of those answers together.
THEOREM TurnsLimited == Spec => []TurnsBounded
<1>1. TurnsInv => TurnsBounded
  BY DEF TurnsInv, WithinTurns, TurnsBounded
<1> QED
  BY <1>1, TurnsInvariant, PTL
=============================================================================
