----------------------------- MODULE Conversion -----------------------------
(* What the conversion of guest sessions promises: each becomes a            *)
(* simulation of one account, once, for a credit of that account.  Guest      *)
(* implements it with rows, locks and pages.                                  *)
EXTENDS Naturals

CONSTANTS Guests, Users, None

VARIABLES
  owner,    \* the account each guest session has become a simulation of, or None
  credits   \* what each account can still pay for

Init ==
  /\ owner = [g \in Guests |-> None]
  /\ credits = [u \in Users |-> 0]

AccessPaid(u) ==
  /\ credits' = [credits EXCEPT ![u] = @ + 1]
  /\ UNCHANGED owner

Convert(g, u) ==
  /\ owner[g] = None /\ credits[u] > 0
  /\ owner' = [owner EXCEPT ![g] = u]
  /\ credits' = [credits EXCEPT ![u] = @ - 1]

Next ==
  \/ \E u \in Users : AccessPaid(u)
  \/ \E g \in Guests, u \in Users : Convert(g, u)

Spec == Init /\ [][Next]_<<owner, credits>>
=============================================================================
