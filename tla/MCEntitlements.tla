--------------------------- MODULE MCEntitlements ---------------------------
(* Small accounts for Entitlements. *)
EXTENDS Entitlements, TLC

CONSTANTS p1, p2

Free == [plan |-> "free", status |-> "active", period_end |-> NoEnd]
Cancelled(end) == [plan |-> "personal", status |-> "cancelled", period_end |-> end]

Used(n) == [present |-> TRUE, credits |-> 0, used |-> n, period_start |-> 0]

OnlyFree == {Free}
FreeOrPaying == {Free, Cancelled(0)}

NewAccount == {NoRow}
FreshRow == {Used(0)}

OneCredit == [p \in Payments |-> "per_session"]
CreditAndPlan == [p \in Payments |-> IF p = p1 THEN "per_session" ELSE "personal"]

Symmetry == Permutations(Starts) \cup Permutations(Hooks)
=============================================================================
