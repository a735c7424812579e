----------------------------- MODULE ListsProofs -----------------------------
(* What holds of loops over lists of any length.                             *)
EXTENDS Lists, Integers, WellFoundedInduction, TLAPS

-----------------------------------------------------------------------------
(* Numbers.                                                                *)

LEMMA LeastNumber ==
  ASSUME NEW T \in SUBSET Nat, T # {}
  PROVE  \E n \in T : \A k \in T : n <= k
<1>1. PICK n \in T : \A k \in T : ~(<<k, n>> \in OpToRel(<, Nat))
  BY NatLessThanWellFounded, WFMin
<1>2. \A k \in T : ~(k < n)
  BY <1>1 DEF OpToRel
<1> QED
  BY <1>2

LEMMA NumbersFrom0 ==
  ASSUME NEW T \in SUBSET Nat, 0 \in T, \A k \in T : k + 1 \in T
  PROVE  T = Nat
<1> SUFFICES ASSUME Nat \ T # {} PROVE FALSE
  OBVIOUS
<1>1. PICK n \in Nat \ T : \A k \in Nat \ T : n <= k
  BY LeastNumber
<1>2. n - 1 \in Nat /\ n - 1 \in T
  BY <1>1
<1> QED
  BY <1>1, <1>2

-----------------------------------------------------------------------------
(* Loops.                                                                  *)

\* The values a loop goes through.
Loop(step, start, n, made) ==
  made = [k \in 0..n |-> IF k = 0 THEN start ELSE step[k][made[k - 1]]]

LEMMA LoopExists ==
  ASSUME NEW step, NEW start, NEW n \in Nat
  PROVE  \E made : Loop(step, start, n, made)
<1> DEFINE T == {k \in Nat : \E made : Loop(step, start, k, made)}
<1>1. 0 \in T
  <2>1. Loop(step, start, 0, [k \in 0..0 |-> start])
    BY DEF Loop
  <2> QED
    BY <2>1
<1>2. ASSUME NEW k \in T PROVE k + 1 \in T
  <2>1. PICK made : Loop(step, start, k, made)
    OBVIOUS
  <2> DEFINE more == [i \in 0..(k + 1) |-> IF i <= k THEN made[i] ELSE step[k + 1][made[k]]]
  <2>2. ASSUME NEW i \in 0..(k + 1)
        PROVE  more[i] = IF i = 0 THEN start ELSE step[i][more[i - 1]]
    BY <2>1 DEF Loop
  <2>3. Loop(step, start, k + 1, more)
    BY <2>2 DEF Loop
  <2> QED
    BY <2>3
<1> QED
  BY <1>1, <1>2, NumbersFrom0

LEMMA LoopOnce ==
  ASSUME NEW step, NEW start, NEW n \in Nat, NEW f, NEW g,
         Loop(step, start, n, f), Loop(step, start, n, g)
  PROVE  f = g
<1> DEFINE T == {k \in Nat : k <= n => f[k] = g[k]}
<1>1. 0 \in T
  BY DEF Loop
<1>2. ASSUME NEW k \in T PROVE k + 1 \in T
  BY DEF Loop
<1>3. \A k \in 0..n : f[k] = g[k]
  <2>1. T = Nat
    BY <1>1, <1>2, NumbersFrom0
  <2> QED
    BY <2>1
<1> QED
  BY <1>3 DEF Loop

LEMMA FoldIs ==
  ASSUME NEW step, NEW start, NEW n \in Nat, NEW made, Loop(step, start, n, made)
  PROVE  Fold(step, start, n) = made[n]
<1>1. Fold(step, start, n) = (CHOOSE f : Loop(step, start, n, f))[n]
  BY DEF Fold, Loop
<1>2. Loop(step, start, n, CHOOSE f : Loop(step, start, n, f))
  BY LoopExists
<1> QED
  BY <1>1, <1>2, LoopOnce

\* A loop without a step.
LEMMA FoldNone ==
  ASSUME NEW step, NEW start
  PROVE  Fold(step, start, 0) = start
<1>1. PICK made : Loop(step, start, 0, made)
  BY LoopExists
<1> QED
  BY <1>1, FoldIs DEF Loop

\* The last step.
LEMMA FoldNext ==
  ASSUME NEW step, NEW start, NEW n \in Nat
  PROVE  Fold(step, start, n + 1) = step[n + 1][Fold(step, start, n)]
<1>1. PICK made : Loop(step, start, n + 1, made)
  BY LoopExists
<1> DEFINE less == [k \in 0..n |-> made[k]]
<1>2. Loop(step, start, n, less)
  <2>1. ASSUME NEW k \in 0..n
        PROVE  less[k] = IF k = 0 THEN start ELSE step[k][less[k - 1]]
    BY <1>1 DEF Loop
  <2> QED
    BY <2>1 DEF Loop
<1>3. Fold(step, start, n) = made[n]
  BY <1>2, FoldIs
<1>4. Fold(step, start, n + 1) = made[n + 1]
  BY <1>1, FoldIs
<1>5. made[n + 1] = step[n + 1][made[n]]
  BY <1>1 DEF Loop
<1> QED
  BY <1>3, <1>4, <1>5

\* What holds before the first step, and is kept by each, holds after the last:
\* good[k] are the values that may come after k steps.
LEMMA FoldKeeps ==
  ASSUME NEW step, NEW start, NEW n \in Nat, NEW good,
         start \in good[0],
         \A k \in 1..n : \A v \in good[k - 1] : step[k][v] \in good[k]
  PROVE  Fold(step, start, n) \in good[n]
<1> DEFINE T == {k \in Nat : k <= n => Fold(step, start, k) \in good[k]}
<1>1. 0 \in T
  BY FoldNone
<1>2. ASSUME NEW k \in T PROVE k + 1 \in T
  <2>1. CASE k + 1 <= n
    <3>1. Fold(step, start, k) \in good[k] /\ k + 1 \in 1..n /\ (k + 1) - 1 = k
      BY <2>1
    <3>2. step[k + 1][Fold(step, start, k)] \in good[k + 1]
      BY <3>1
    <3> QED
      BY <3>2, FoldNext
  <2>2. CASE ~(k + 1 <= n)
    BY <2>2
  <2> QED
    BY <2>1, <2>2
<1>3. T = Nat
  BY <1>1, <1>2, NumbersFrom0
<1> QED
  BY <1>3

\* Loops that do the same come to the same.
LEMMA FoldSame ==
  ASSUME NEW step, NEW other, NEW start, NEW n \in Nat, NEW V, start \in V,
         \A k \in 1..n : \A v \in V : step[k][v] \in V /\ step[k][v] = other[k][v]
  PROVE  Fold(step, start, n) \in V /\ Fold(step, start, n) = Fold(other, start, n)
<1> DEFINE T == {k \in Nat : k <= n => /\ Fold(step, start, k) \in V
                                       /\ Fold(step, start, k) = Fold(other, start, k)}
<1>1. 0 \in T
  BY FoldNone
<1>2. ASSUME NEW k \in T PROVE k + 1 \in T
  <2> SUFFICES ASSUME k + 1 <= n
               PROVE  /\ Fold(step, start, k + 1) \in V
                      /\ Fold(step, start, k + 1) = Fold(other, start, k + 1)
    OBVIOUS
  <2>1. k + 1 \in 1..n /\ k \in Nat
    OBVIOUS
  <2>2. Fold(step, start, k) \in V /\ Fold(step, start, k) = Fold(other, start, k)
    BY <2>1
  <2>3. /\ Fold(step, start, k + 1) = step[k + 1][Fold(step, start, k)]
        /\ Fold(other, start, k + 1) = other[k + 1][Fold(other, start, k)]
    BY <2>1, FoldNext
  <2> QED
    BY <2>1, <2>2, <2>3
<1>3. T = Nat
  BY <1>1, <1>2, NumbersFrom0
<1> QED
  BY <1>3

-----------------------------------------------------------------------------
(* The entries of a list at some of its places.                            *)

Entries(list) == {list[i] : i \in DOMAIN list}

KeepStep(list, places) ==
  [k \in DOMAIN list |->
     [kept \in Seq(Entries(list)) |-> IF k \in places THEN Append(kept, list[k]) ELSE kept]]

LEMMA KeepIs == \A list, places : Keep(list, places) = Fold(KeepStep(list, places), <<>>, Len(list))
BY DEF Keep, KeepStep, Entries

LEMMA KeepNone == \A places : Keep(<<>>, places) = <<>>
BY KeepIs, FoldNone

LEMMA KeepAppend ==
  ASSUME NEW S, NEW list \in Seq(S), NEW e \in S, NEW places
  PROVE  Keep(Append(list, e), places) =
           IF Len(list) + 1 \in places THEN Append(Keep(list, places), e) ELSE Keep(list, places)
<1> DEFINE more == Append(list, e)
           n == Len(list)
           V == Seq(Entries(list))
           less == KeepStep(list, places)
           last == KeepStep(more, places)
<1>1. /\ n \in Nat /\ Len(more) = n + 1 /\ DOMAIN more = 1..(n + 1) /\ DOMAIN list = 1..n
      /\ more[n + 1] = e /\ \A i \in 1..n : more[i] = list[i]
  OBVIOUS
<1>2. Entries(list) \subseteq Entries(more)
  BY <1>1 DEF Entries
<1>3. V \subseteq Seq(Entries(more))
  BY <1>2
<1>4. \A k \in 1..n : \A v \in V : less[k][v] \in V /\ less[k][v] = last[k][v]
  <2> SUFFICES ASSUME NEW k \in 1..n, NEW v \in V
               PROVE  less[k][v] \in V /\ less[k][v] = last[k][v]
    OBVIOUS
  <2>1. list[k] \in Entries(list)
    BY <1>1 DEF Entries
  <2>2. less[k][v] = IF k \in places THEN Append(v, list[k]) ELSE v
    BY <1>1 DEF KeepStep
  <2>3. last[k][v] = IF k \in places THEN Append(v, more[k]) ELSE v
    <3>1. k \in DOMAIN more /\ v \in Seq(Entries(more))
      BY <1>1, <1>3
    <3> HIDE DEF more
    <3> QED
      BY <3>1 DEF KeepStep
  <2>4. Append(v, list[k]) \in V
    BY <2>1
  <2> QED
    BY <1>1, <2>2, <2>3, <2>4
<1>5. <<>> \in V
  OBVIOUS
<1>6. Fold(less, <<>>, n) \in V /\ Fold(less, <<>>, n) = Fold(last, <<>>, n)
  <2> HIDE DEF less, last, V
  <2> QED
    BY <1>1, <1>4, <1>5, FoldSame
<1>7. Fold(last, <<>>, n + 1) = last[n + 1][Fold(last, <<>>, n)]
  BY <1>1, FoldNext
<1>8. \A v \in V : last[n + 1][v] = IF n + 1 \in places THEN Append(v, e) ELSE v
  <2> SUFFICES ASSUME NEW v \in V
               PROVE  last[n + 1][v] = IF n + 1 \in places THEN Append(v, e) ELSE v
    OBVIOUS
  <2>1. n + 1 \in DOMAIN more /\ v \in Seq(Entries(more)) /\ more[n + 1] = e
    BY <1>1, <1>3
  <2> HIDE DEF more
  <2> QED
    BY <2>1 DEF KeepStep
<1>9. Keep(list, places) = Fold(less, <<>>, n) /\ Keep(more, places) = Fold(last, <<>>, n + 1)
  BY <1>1, KeepIs
<1> HIDE DEF less, last, V, n, more
<1>10. Keep(more, places) = IF n + 1 \in places THEN Append(Keep(list, places), e) ELSE Keep(list, places)
  BY <1>6, <1>7, <1>8, <1>9
<1> QED
  BY <1>10 DEF more, n

\* kept has the entries of the list at the places, in their order: at[k] is
\* where the k-th comes from.
Picks(list, places, kept, at) ==
  /\ at \in [1..Len(kept) -> places]
  /\ \A k \in 1..Len(kept) : kept[k] = list[at[k]]
  /\ \A k, l \in 1..Len(kept) : k < l => at[k] < at[l]
  /\ \A i \in places : \E k \in 1..Len(kept) : at[k] = i

LEMMA KeepPicks ==
  ASSUME NEW S, NEW list \in Seq(S), NEW places \in SUBSET (DOMAIN list)
  PROVE  /\ Keep(list, places) \in Seq(S)
         /\ \E at : Picks(list, places, Keep(list, places), at)
<1> DEFINE n == Len(list)
           good == [k \in 0..n |->
                      {t \in Seq(Entries(list)) : \E at : Picks(list, places \cap 1..k, t, at)}]
<1>1. n \in Nat /\ DOMAIN list = 1..n
  OBVIOUS
<1>2. <<>> \in good[0]
  <2>1. Picks(list, places \cap 1..0, <<>>, <<>>)
    <3>1. <<>> \in [1..0 -> places \cap 1..0] /\ Len(<<>>) = 0 /\ 1..0 = {}
      OBVIOUS
    <3> QED
      BY <3>1 DEF Picks
  <2>2. <<>> \in Seq(Entries(list)) /\ 0 \in 0..n
    BY <1>1
  <2> QED
    BY <2>1, <2>2
<1>3. ASSUME NEW k \in 1..n, NEW v \in good[k - 1]
      PROVE  KeepStep(list, places)[k][v] \in good[k]
  <2>1. k - 1 \in 0..n /\ k \in 0..n /\ k \in Nat
    BY <1>1
  <2>2. v \in Seq(Entries(list))
    BY <2>1
  <2>3. PICK at : Picks(list, places \cap 1..(k - 1), v, at)
    BY <2>1
  <2>4. KeepStep(list, places)[k][v] = IF k \in places THEN Append(v, list[k]) ELSE v
    BY <1>1, <2>2 DEF KeepStep
  <2>5. CASE k \notin places
    <3>1. places \cap 1..(k - 1) = places \cap 1..k
      BY <2>1, <2>5
    <3> QED
      BY <2>1, <2>2, <2>3, <2>4, <2>5, <3>1
  <2>6. CASE k \in places
    <3> DEFINE more == Append(v, list[k])
               m == Len(v)
               where == [i \in 1..(m + 1) |-> IF i <= m THEN at[i] ELSE k]
    <3>1. list[k] \in Entries(list)
      BY <1>1 DEF Entries
    <3>2. /\ more \in Seq(Entries(list)) /\ m \in Nat /\ Len(more) = m + 1
          /\ more[m + 1] = list[k] /\ \A i \in 1..m : more[i] = v[i]
      BY <2>2, <3>1
    <3>3. at \in [1..m -> places \cap 1..(k - 1)]
      BY <2>3 DEF Picks
    <3> HIDE DEF more, m
    <3>4. where \in [1..(m + 1) -> places \cap 1..k]
      BY <2>1, <2>6, <3>2, <3>3
    <3>5. \A i \in 1..(m + 1) : more[i] = list[where[i]]
      BY <2>3, <3>2 DEF Picks, m
    <3>6. \A i, j \in 1..(m + 1) : i < j => where[i] < where[j]
      <4> SUFFICES ASSUME NEW i \in 1..(m + 1), NEW j \in 1..(m + 1), i < j
                   PROVE  where[i] < where[j]
        OBVIOUS
      <4>1. i \in 1..m /\ where[i] = at[i] /\ at[i] \in 1..(k - 1)
        BY <3>2, <3>3
      <4>2. CASE j \in 1..m
        BY <2>3, <3>2, <4>1, <4>2 DEF Picks, m
      <4>3. CASE j = m + 1
        BY <2>1, <3>2, <4>1, <4>3
      <4> QED
        BY <3>2, <4>2, <4>3
    <3>7. \A i \in places \cap 1..k : \E j \in 1..(m + 1) : where[j] = i
      <4> SUFFICES ASSUME NEW i \in places \cap 1..k PROVE \E j \in 1..(m + 1) : where[j] = i
        OBVIOUS
      <4>1. CASE i = k
        BY <3>2, <4>1
      <4>2. CASE i # k
        <5>1. i \in places \cap 1..(k - 1)
          BY <2>1, <4>2
        <5>2. PICK j \in 1..m : at[j] = i
          BY <2>3, <5>1 DEF Picks, m
        <5> QED
          BY <3>2, <5>2
      <4> QED
        BY <4>1, <4>2
    <3>8. Picks(list, places \cap 1..k, more, where)
      <4> HIDE DEF where
      <4> QED
        BY <3>2, <3>4, <3>5, <3>6, <3>7 DEF Picks
    <3> QED
      BY <2>1, <2>4, <2>6, <3>2, <3>8 DEF more
  <2> QED
    BY <2>5, <2>6
<1>4. Keep(list, places) \in good[n]
  <2> DEFINE step == KeepStep(list, places)
  <2>1. \A k \in 1..n : \A v \in good[k - 1] : step[k][v] \in good[k]
    BY <1>3
  <2>2. Keep(list, places) = Fold(step, <<>>, n)
    BY KeepIs
  <2> HIDE DEF good, n, step
  <2>3. Fold(step, <<>>, n) \in good[n]
    BY <1>1, <1>2, <2>1, FoldKeeps
  <2> QED
    BY <2>2, <2>3
<1>5. places \cap 1..n = places
  BY <1>1
<1>6. Keep(list, places) \in Seq(Entries(list)) /\ \E at : Picks(list, places, Keep(list, places), at)
  <2>1. n \in 0..n
    BY <1>1
  <2>2. good[n] = {t \in Seq(Entries(list)) : \E at : Picks(list, places \cap 1..n, t, at)}
    BY <2>1
  <2>3. good[n] = {t \in Seq(Entries(list)) : \E at : Picks(list, places, t, at)}
    BY <1>5, <2>2
  <2> HIDE DEF good
  <2> QED
    BY <1>4, <2>3
<1>7. Entries(list) \subseteq S
  BY <1>1 DEF Entries
<1> QED
  BY <1>6, <1>7

\* A set of numbers can be counted through in one way only.
LEMMA CountedOnce ==
  ASSUME NEW places \in SUBSET Nat, NEW m \in Nat, NEW n \in Nat,
         NEW at \in [1..m -> places], NEW to \in [1..n -> places],
         \A k, l \in 1..m : k < l => at[k] < at[l],
         \A k, l \in 1..n : k < l => to[k] < to[l],
         \A i \in places : \E k \in 1..m : at[k] = i,
         \A i \in places : \E k \in 1..n : to[k] = i
  PROVE  m = n /\ at = to
<1>1. \A k \in Nat : k \in 1..m /\ k \in 1..n => at[k] = to[k]
  <2> DEFINE Differ == {k \in Nat : k \in 1..m /\ k \in 1..n /\ at[k] # to[k]}
  <2> SUFFICES ASSUME Differ # {} PROVE FALSE
    OBVIOUS
  <2>1. PICK k \in Differ : \A l \in Differ : k <= l
    BY LeastNumber
  <2>2. k \in 1..m /\ k \in 1..n /\ at[k] # to[k]
    BY <2>1
  <2>3. \A l \in Nat : l \in 1..m /\ l \in 1..n /\ l < k => at[l] = to[l]
    BY <2>1, <2>2
  <2>4. at[k] \in places /\ to[k] \in places /\ at[k] \in Nat /\ to[k] \in Nat
    BY <2>2
  <2> HIDE DEF Differ
  <2>5. CASE at[k] < to[k]
    <3>1. PICK l \in 1..n : to[l] = at[k]
      BY <2>4
    <3>2. l < k
      BY <2>2, <2>4, <2>5, <3>1
    <3>3. at[l] = at[k] /\ l \in 1..m
      BY <2>2, <2>3, <3>1, <3>2
    <3> QED
      BY <2>2, <2>4, <3>2, <3>3
  <2>6. CASE to[k] < at[k]
    <3>1. PICK l \in 1..m : at[l] = to[k]
      BY <2>4
    <3>2. l < k
      BY <2>2, <2>4, <2>6, <3>1
    <3>3. to[l] = to[k] /\ l \in 1..n
      BY <2>2, <2>3, <3>1, <3>2
    <3> QED
      BY <2>2, <2>4, <3>2, <3>3
  <2> QED
    BY <2>2, <2>4, <2>5, <2>6
<1>2. ASSUME m < n PROVE FALSE
  <2>1. m + 1 \in 1..n /\ to[m + 1] \in places
    BY <1>2
  <2>2. PICK k \in 1..m : at[k] = to[m + 1]
    BY <2>1
  <2>3. to[k] = to[m + 1] /\ k \in 1..n /\ k < m + 1
    BY <1>1, <1>2, <2>2
  <2>4. to[k] < to[m + 1] /\ to[k] \in Nat
    BY <2>1, <2>3
  <2> QED
    BY <2>3, <2>4
<1>3. ASSUME n < m PROVE FALSE
  <2>1. n + 1 \in 1..m /\ at[n + 1] \in places
    BY <1>3
  <2>2. PICK k \in 1..n : to[k] = at[n + 1]
    BY <2>1
  <2>3. at[k] = at[n + 1] /\ k \in 1..m /\ k < n + 1
    BY <1>1, <1>3, <2>2
  <2>4. at[k] < at[n + 1] /\ at[k] \in Nat
    BY <2>1, <2>3
  <2> QED
    BY <2>3, <2>4
<1>4. m = n
  BY <1>2, <1>3
<1> QED
  BY <1>1, <1>4

\* What picks the same picks what Keep keeps.
LEMMA PicksOnce ==
  ASSUME NEW S, NEW T, NEW list \in Seq(S), NEW places \in SUBSET (DOMAIN list),
         NEW kept \in Seq(T), NEW at, Picks(list, places, kept, at)
  PROVE  kept = Keep(list, places)
<1> DEFINE other == Keep(list, places)
<1>1. PICK to : Picks(list, places, other, to)
  BY KeepPicks
<1>2. other \in Seq(S)
  BY KeepPicks
<1> HIDE DEF other
<1>3. Len(kept) \in Nat /\ Len(other) \in Nat /\ places \in SUBSET Nat
  BY <1>2
<1>4. Len(kept) = Len(other) /\ at = to
  <2> DEFINE m == Len(kept)
             n == Len(other)
  <2>1. /\ at \in [1..m -> places] /\ to \in [1..n -> places]
        /\ \A k, l \in 1..m : k < l => at[k] < at[l]
        /\ \A k, l \in 1..n : k < l => to[k] < to[l]
        /\ \A i \in places : \E k \in 1..m : at[k] = i
        /\ \A i \in places : \E k \in 1..n : to[k] = i
    BY <1>1 DEF Picks
  <2>2. m \in Nat /\ n \in Nat /\ places \in SUBSET Nat
    BY <1>3
  <2> HIDE DEF m, n
  <2>3. m = n /\ at = to
    BY <2>1, <2>2, CountedOnce
  <2> QED
    BY <2>3 DEF m, n
<1>5. \A k \in 1..Len(kept) : kept[k] = other[k]
  BY <1>1, <1>4 DEF Picks
<1>6. kept = other
  BY <1>2, <1>4, <1>5
<1> QED
  BY <1>6 DEF other

\* A list goes on, and one place more of it is kept.
LEMMA KeepOneMore ==
  ASSUME NEW S, NEW l \in Seq(S), NEW more \in Seq(S), NEW places \in SUBSET (DOMAIN l),
         NEW p \in DOMAIN (l \o more), p > Len(l)
  PROVE  Keep(l \o more, places \cup {p}) = Append(Keep(l, places), (l \o more)[p])
<1> DEFINE all == l \o more
           n == Len(l)
           kept == Keep(l, places)
           m == Len(kept)
           longer == Append(kept, all[p])
<1>1. /\ all \in Seq(S) /\ n \in Nat /\ DOMAIN l = 1..n /\ DOMAIN all = 1..Len(all)
      /\ Len(all) \in Nat /\ Len(all) >= n /\ \A i \in 1..n : all[i] = l[i]
  OBVIOUS
<1>2. kept \in Seq(S)
  BY KeepPicks
<1>3. PICK at : Picks(l, places, kept, at)
  BY KeepPicks
<1> HIDE DEF kept
<1>4. p \in 1..Len(all) /\ p > n /\ all[p] \in S
  BY <1>1
<1> HIDE DEF all, n
<1>5. /\ m \in Nat /\ longer \in Seq(S) /\ Len(longer) = m + 1 /\ longer[m + 1] = all[p]
      /\ \A i \in 1..m : longer[i] = kept[i]
  BY <1>2, <1>4
<1>6. /\ at \in [1..m -> places] /\ \A k \in 1..m : kept[k] = l[at[k]]
      /\ \A k, j \in 1..m : k < j => at[k] < at[j]
      /\ \A i \in places : \E k \in 1..m : at[k] = i
  BY <1>3 DEF Picks
<1> HIDE DEF longer, m
<1> DEFINE to == [k \in 1..(m + 1) |-> IF k <= m THEN at[k] ELSE p]
<1>7. /\ \A k \in 1..m : to[k] = at[k] /\ to[k] \in places /\ to[k] \in 1..n
      /\ to[m + 1] = p /\ to \in [1..(m + 1) -> places \cup {p}]
  BY <1>1, <1>5, <1>6
<1> HIDE DEF to
<1>8. \A k \in 1..(m + 1) : longer[k] = all[to[k]]
  <2> SUFFICES ASSUME NEW k \in 1..(m + 1) PROVE longer[k] = all[to[k]]
    OBVIOUS
  <2>1. CASE k \in 1..m
    BY <1>1, <1>5, <1>6, <1>7, <2>1
  <2>2. CASE k = m + 1
    BY <1>5, <1>7, <2>2
  <2> QED
    BY <1>5, <2>1, <2>2
<1>9. \A k, j \in 1..(m + 1) : k < j => to[k] < to[j]
  <2> SUFFICES ASSUME NEW k \in 1..(m + 1), NEW j \in 1..(m + 1), k < j PROVE to[k] < to[j]
    OBVIOUS
  <2>1. k \in 1..m
    BY <1>5
  <2>2. CASE j \in 1..m
    BY <1>6, <1>7, <2>1, <2>2
  <2>3. CASE j = m + 1
    BY <1>1, <1>4, <1>7, <2>1, <2>3
  <2> QED
    BY <1>5, <2>2, <2>3
<1>10. \A i \in places \cup {p} : \E k \in 1..(m + 1) : to[k] = i
  <2> SUFFICES ASSUME NEW i \in places \cup {p} PROVE \E k \in 1..(m + 1) : to[k] = i
    OBVIOUS
  <2>1. CASE i \in places
    <3>1. PICK k \in 1..m : at[k] = i
      BY <1>6, <2>1
    <3> QED
      BY <1>5, <1>7, <3>1
  <2>2. CASE i = p
    BY <1>5, <1>7, <2>2
  <2> QED
    BY <2>1, <2>2
<1>11. Picks(all, places \cup {p}, longer, to)
  BY <1>5, <1>7, <1>8, <1>9, <1>10 DEF Picks
<1>12. places \cup {p} \in SUBSET (DOMAIN all)
  BY <1>1, <1>4
<1> DEFINE most == places \cup {p}
<1>13. Picks(all, most, longer, to) /\ most \in SUBSET (DOMAIN all) /\ all \in Seq(S) /\ longer \in Seq(S)
  BY <1>1, <1>5, <1>11, <1>12
<1> HIDE DEF most
<1>14. longer = Keep(all, most)
  BY <1>13, PicksOnce
<1> QED
  BY <1>14 DEF longer, all, kept, most

\* A list without the entry twice is picked without it twice.
LEMMA PicksDistinct ==
  ASSUME NEW S, NEW l \in Seq(S), NEW places \in SUBSET (DOMAIN l),
         \A i, j \in DOMAIN l : l[i] = l[j] => i = j
  PROVE  \A k, m \in DOMAIN Keep(l, places) :
           Keep(l, places)[k] = Keep(l, places)[m] => k = m
<1> DEFINE kept == Keep(l, places)
<1>1. kept \in Seq(S)
  BY KeepPicks
<1>2. PICK at : Picks(l, places, kept, at)
  BY KeepPicks
<1> HIDE DEF kept
<1>3. /\ DOMAIN kept = 1..Len(kept) /\ Len(kept) \in Nat /\ DOMAIN l \subseteq Nat
  BY <1>1
<1>4. \A k \in 1..Len(kept) : kept[k] = l[at[k]] /\ at[k] \in DOMAIN l /\ at[k] \in Nat
  BY <1>2, <1>3 DEF Picks
<1>5. ASSUME NEW k \in 1..Len(kept), NEW m \in 1..Len(kept), kept[k] = kept[m]
      PROVE  k = m
  <2>1. at[k] = at[m] /\ at[k] \in Nat
    BY <1>4, <1>5
  <2>2. (k < m => at[k] < at[m]) /\ (m < k => at[m] < at[k])
    BY <1>2 DEF Picks
  <2> QED
    BY <1>3, <2>1, <2>2
<1> QED
  BY <1>3, <1>5 DEF kept

\* Of two picks of a list without an entry twice, the entries of the larger
\* that the smaller has are the smaller, in its order.
LEMMA PicksWithin ==
  ASSUME NEW S, NEW l \in Seq(S), NEW few \in SUBSET (DOMAIN l), NEW many \in SUBSET (DOMAIN l),
         few \subseteq many, \A i, j \in DOMAIN l : l[i] = l[j] => i = j,
         NEW places,
         places = {i \in DOMAIN Keep(l, many) :
                     \E k \in DOMAIN Keep(l, few) : Keep(l, many)[i] = Keep(l, few)[k]}
  PROVE  Keep(Keep(l, many), places) = Keep(l, few)
<1> DEFINE large == Keep(l, many)
           small == Keep(l, few)
           m == Len(large)
           n == Len(small)
<1>1. large \in Seq(S) /\ small \in Seq(S)
  BY KeepPicks
<1>2. PICK at : Picks(l, many, large, at)
  BY KeepPicks
<1>3. PICK by : Picks(l, few, small, by)
  BY KeepPicks
<1> HIDE DEF large, small
<1>4. /\ m \in Nat /\ n \in Nat /\ DOMAIN large = 1..m /\ DOMAIN small = 1..n
      /\ DOMAIN l \subseteq Nat
  BY <1>1
<1>5. /\ at \in [1..m -> many] /\ \A k \in 1..m : large[k] = l[at[k]]
      /\ \A k, j \in 1..m : k < j => at[k] < at[j]
      /\ \A i \in many : \E k \in 1..m : at[k] = i
  BY <1>2 DEF Picks
<1>6. /\ by \in [1..n -> few] /\ \A k \in 1..n : small[k] = l[by[k]]
      /\ \A k, j \in 1..n : k < j => by[k] < by[j]
      /\ \A i \in few : \E k \in 1..n : by[k] = i
  BY <1>3 DEF Picks
<1>7. places = {i \in 1..m : \E k \in 1..n : large[i] = small[k]}
  BY <1>4 DEF large, small
<1> HIDE DEF m, n
<1>8. \A k \in 1..n : \E i \in 1..m : at[i] = by[k]
  BY <1>5, <1>6
<1> DEFINE to == [k \in 1..n |-> CHOOSE i \in 1..m : at[i] = by[k]]
<1>9. \A k \in 1..n : to[k] \in 1..m /\ at[to[k]] = by[k]
  BY <1>8
<1>10. DOMAIN to = 1..n
  OBVIOUS
<1> HIDE DEF to
<1>11. \A k \in 1..n : small[k] = large[to[k]] /\ to[k] \in places
  BY <1>5, <1>6, <1>7, <1>9
<1>12. to \in [1..n -> places]
  <2>1. to = [k \in 1..n |-> to[k]]
    BY <1>10 DEF to
  <2> QED
    BY <1>11, <2>1
<1>13. \A k, j \in 1..n : k < j => to[k] < to[j]
  <2> SUFFICES ASSUME NEW k \in 1..n, NEW j \in 1..n, k < j PROVE to[k] < to[j]
    OBVIOUS
  <2>1. at[to[k]] < at[to[j]] /\ to[k] \in 1..m /\ to[j] \in 1..m
    BY <1>6, <1>9
  <2>2. at[to[k]] \in Nat /\ at[to[j]] \in Nat
    BY <1>4, <1>5, <2>1
  <2>3. to[j] < to[k] => at[to[j]] < at[to[k]]
    BY <1>5, <2>1
  <2>4. to[k] # to[j]
    BY <2>1, <2>2
  <2> QED
    BY <2>1, <2>2, <2>3, <2>4
<1>14. \A i \in places : \E k \in 1..n : to[k] = i
  <2> SUFFICES ASSUME NEW i \in places PROVE \E k \in 1..n : to[k] = i
    OBVIOUS
  <2>1. i \in 1..m
    BY <1>7
  <2>2. PICK k \in 1..n : large[i] = small[k]
    BY <1>7
  <2>3. l[at[i]] = l[at[to[k]]] /\ at[i] \in DOMAIN l /\ at[to[k]] \in DOMAIN l /\ to[k] \in 1..m
    BY <1>5, <1>9, <1>11, <2>1, <2>2
  <2>4. at[i] = at[to[k]] /\ at[i] \in Nat
    BY <1>4, <2>3
  <2>5. (to[k] < i => at[to[k]] < at[i]) /\ (i < to[k] => at[i] < at[to[k]])
    BY <1>5, <2>1, <2>3
  <2>6. to[k] = i
    BY <2>1, <2>3, <2>4, <2>5
  <2> QED
    BY <2>6
<1>15. Picks(large, places, small, to)
  BY <1>11, <1>12, <1>13, <1>14 DEF Picks, n
<1>16. places \in SUBSET (DOMAIN large)
  BY <1>4, <1>7
<1>17. small = Keep(large, places)
  BY <1>1, <1>15, <1>16, PicksOnce
<1> QED
  BY <1>17 DEF large, small

-----------------------------------------------------------------------------
(* Stable sorting, rank by rank.                                           *)

\* sorted has the entries of the list whose rank is 1..r, by rank; from[k] is
\* where the k-th comes from.
Gathers(list, rank, r, sorted, from) ==
  /\ from \in [1..Len(sorted) -> DOMAIN list]
  /\ \A k \in 1..Len(sorted) : sorted[k] = list[from[k]] /\ rank[from[k]] \in 1..r
  /\ \A k, l \in 1..Len(sorted) : k < l => rank[from[k]] <= rank[from[l]]
  /\ \A i \in DOMAIN list : rank[i] \in 1..r => \E k \in 1..Len(sorted) : from[k] = i

LEMMA GatherNone == \A list, rank : Gathers(list, rank, 0, <<>>, <<>>)
<1> TAKE list, rank
<1>1. /\ <<>> \in [1..0 -> DOMAIN list] /\ Len(<<>>) = 0 /\ 1..0 = {}
  OBVIOUS
<1> QED
  BY <1>1 DEF Gathers

LEMMA GatherNext ==
  ASSUME NEW S, NEW list \in Seq(S), NEW rank \in [DOMAIN list -> Nat], NEW r \in Nat,
         NEW sorted \in Seq(S), NEW from, Gathers(list, rank, r, sorted, from),
         NEW places, places = {i \in DOMAIN list : rank[i] = r + 1}
  PROVE  /\ sorted \o Keep(list, places) \in Seq(S)
         /\ \E to : Gathers(list, rank, r + 1, sorted \o Keep(list, places), to)
<1> DEFINE kept == Keep(list, places)
           m == Len(sorted)
           n == Len(kept)
           more == sorted \o kept
<1>1. places \in SUBSET (DOMAIN list)
  OBVIOUS
<1>2. kept \in Seq(S)
  BY <1>1, KeepPicks
<1>3. PICK at : Picks(list, places, kept, at)
  BY <1>1, KeepPicks
<1> HIDE DEF kept
<1>4. /\ more \in Seq(S) /\ m \in Nat /\ n \in Nat /\ Len(more) = m + n
      /\ \A k \in 1..m : more[k] = sorted[k]
      /\ \A k \in 1..(m + n) : k > m => more[k] = kept[k - m] /\ k - m \in 1..n
  BY <1>2
<1>5. /\ at \in [1..n -> places] /\ \A k \in 1..n : kept[k] = list[at[k]]
      /\ \A i \in places : \E k \in 1..n : at[k] = i
  BY <1>3 DEF Picks
<1>6. /\ from \in [1..m -> DOMAIN list]
      /\ \A k \in 1..m : sorted[k] = list[from[k]] /\ rank[from[k]] \in 1..r
      /\ \A k, l \in 1..m : k < l => rank[from[k]] <= rank[from[l]]
      /\ \A i \in DOMAIN list : rank[i] \in 1..r => \E k \in 1..m : from[k] = i
  BY DEF Gathers
<1> HIDE DEF m, n, more
<1> DEFINE to == [k \in 1..(m + n) |-> IF k <= m THEN from[k] ELSE at[k - m]]
<1>7. \A k \in 1..m : to[k] = from[k] /\ rank[to[k]] \in 1..r
  BY <1>4, <1>6
<1>8. \A k \in 1..(m + n) : k > m => to[k] = at[k - m] /\ to[k] \in places /\ rank[to[k]] = r + 1
  BY <1>4, <1>5
<1>9. to \in [1..(m + n) -> DOMAIN list]
  BY <1>1, <1>4, <1>5, <1>6
<1> HIDE DEF to
<1>10. \A k \in 1..(m + n) : more[k] = list[to[k]] /\ rank[to[k]] \in 1..(r + 1)
  <2> SUFFICES ASSUME NEW k \in 1..(m + n)
               PROVE  more[k] = list[to[k]] /\ rank[to[k]] \in 1..(r + 1)
    OBVIOUS
  <2>1. CASE k \in 1..m
    BY <1>4, <1>6, <1>7, <2>1
  <2>2. CASE k > m
    <3>1. more[k] = kept[k - m] /\ k - m \in 1..n /\ to[k] = at[k - m] /\ rank[to[k]] = r + 1
      BY <1>4, <1>8, <2>2
    <3>2. kept[k - m] = list[at[k - m]]
      BY <1>5, <3>1
    <3> QED
      BY <3>1, <3>2
  <2> QED
    BY <1>4, <2>1, <2>2
<1>11. \A k, l \in 1..(m + n) : k < l => rank[to[k]] <= rank[to[l]]
  <2> SUFFICES ASSUME NEW k \in 1..(m + n), NEW l \in 1..(m + n), k < l
               PROVE  rank[to[k]] <= rank[to[l]]
    OBVIOUS
  <2>1. CASE l \in 1..m
    <3>1. k \in 1..m
      BY <1>4, <2>1
    <3> QED
      BY <1>6, <1>7, <2>1, <3>1
  <2>2. CASE l > m
    <3>1. rank[to[l]] = r + 1 /\ (k \in 1..m \/ k > m)
      BY <1>4, <1>8, <2>2
    <3>2. rank[to[k]] \in 1..(r + 1)
      BY <1>10
    <3> QED
      BY <3>1, <3>2
  <2> QED
    BY <1>4, <2>1, <2>2
<1>12. ASSUME NEW i \in DOMAIN list, rank[i] \in 1..(r + 1)
       PROVE  \E k \in 1..(m + n) : to[k] = i
  <2>1. CASE rank[i] \in 1..r
    <3>1. PICK k \in 1..m : from[k] = i
      BY <1>6, <2>1
    <3>2. k \in 1..(m + n)
      BY <1>4
    <3> QED
      BY <1>7, <3>1, <3>2
  <2>2. CASE rank[i] = r + 1
    <3>1. PICK k \in 1..n : at[k] = i
      BY <1>5, <2>2
    <3>2. m + k \in 1..(m + n) /\ m + k > m /\ (m + k) - m = k
      BY <1>4
    <3> QED
      BY <1>8, <3>1, <3>2
  <2> QED
    BY <1>12, <2>1, <2>2
<1>13. Gathers(list, rank, r + 1, more, to)
  BY <1>4, <1>9, <1>10, <1>11, <1>12 DEF Gathers
<1> QED
  BY <1>4, <1>13 DEF more, kept
=============================================================================
