-------------------------------- MODULE Lists --------------------------------
(* Loops over lists, written so that the proofs can reason about them.       *)
EXTENDS Naturals, Sequences

\* n steps from a start: step[k] takes what the steps before k have made.
Fold(step, start, n) ==
  LET made[k \in 0..n] == IF k = 0 THEN start ELSE step[k][made[k - 1]]
  IN made[n]

\* The entries of a list at some of its places, in their order.
Keep(list, places) ==
  Fold([k \in DOMAIN list |->
          [kept \in Seq({list[i] : i \in DOMAIN list}) |->
             IF k \in places THEN Append(kept, list[k]) ELSE kept]],
       <<>>, Len(list))
=============================================================================
