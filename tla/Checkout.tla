------------------------------ MODULE Checkout ------------------------------
(* Buying in the browser: the billing page, the upgrade dialog, the page   *)
(* the provider returns to with its polling, the store of the billing      *)
(* status, and the payment context kept in sessionStorage.  The provider   *)
(* and the webhook are one step each; what they do to the rows is in       *)
(* Entitlements and Subscriptions.                                         *)
EXTENDS Naturals, FiniteSets

CONSTANTS
  Payments,      \* checkouts the account may begin
  PlanOf,        \* the plan of each checkout
  Fetches,       \* GET /billing/status in progress at a time
  InitialPlans,
  MaxAttempts,   \* polls of the success page
  MaxVisits,     \* bound: page loads
  None

Plan == {"free", "personal", "pro"}

CheckoutAssumption ==
  /\ PlanOf \in [Payments -> {"per_session", "personal", "pro"}]
  /\ InitialPlans \subseteq Plan
  /\ MaxAttempts \in Nat \ {0} /\ MaxVisits \in Nat /\ IsFiniteSet(Payments)
  /\ None \notin Payments

VARIABLES
  place,         \* the page: billing, leaving it, the provider's, success, ...
  status,        \* the store's snapshot of the account, or None
  isLoading,
  fetch,         \* status requests and the snapshot each has read
  attempts, polling, tracked, visits,
  target,        \* the payment the browser is being sent to
  context,       \* peaktalk_payment_context
  reported,      \* payment_succeeded events that name each payment
  ledger,        \* what has become of each payment
  account        \* plan and credits in the database

vars == <<place, status, isLoading, fetch, attempts, polling, tracked, visits,
          target, context, reported, ledger, account>>

Account == [plan : Plan, active : BOOLEAN, credits : 0..Cardinality(Payments)]
Request == [pc : {"idle", "sent", "read"}, got : Account \cup {None}]
Idle == [pc |-> "idle", got |-> None]

TypeOK ==
  /\ place \in {"billing", "leaving", "provider", "success", "bridge"}
  /\ status \in Account \cup {None} /\ isLoading \in BOOLEAN
  /\ fetch \in [Fetches -> Request]
  /\ attempts \in 0..MaxAttempts /\ polling \in BOOLEAN /\ tracked \in BOOLEAN
  /\ visits \in 0..MaxVisits
  /\ target \in Payments \cup {None} /\ context \in Payments \cup {None}
  /\ reported \in [Payments -> Nat]
  /\ ledger \in [Payments -> {"none", "requested", "offered", "paid", "applied"}]
  /\ account \in Account

Init ==
  /\ place = "billing" /\ status = None /\ isLoading = FALSE
  /\ fetch = [f \in Fetches |-> Idle]
  /\ attempts = 0 /\ polling = FALSE /\ tracked = FALSE /\ visits = 0
  /\ target = None /\ context = None
  /\ reported = [p \in Payments |-> 0]
  /\ ledger = [p \in Payments |-> "none"]
  /\ account \in [plan : InitialPlans, active : BOOLEAN, credits : {0}]

-----------------------------------------------------------------------------
(* The store.                                                              *)

\* fetchStatus: isLoading until any of the requests has ended.
FetchStatus(f) ==
  /\ fetch[f].pc = "idle"
  /\ fetch' = [fetch EXCEPT ![f].pc = "sent"]
  /\ isLoading' = TRUE

ReadStatus(f) ==
  /\ fetch[f].pc = "sent"
  /\ fetch' = [fetch EXCEPT ![f] = [pc |-> "read", got |-> account]]
  /\ UNCHANGED <<place, status, isLoading, attempts, polling, tracked, visits,
                 target, context, reported, ledger, account>>

IsPaidPlan(s) == s # None /\ s.plan \in {"personal", "pro"}
HasSessionCredit(s) == s # None /\ s.credits > 0

\* Variant: an active status will do.
IsActive(s) == s # None /\ s.active

\* The success page's test; it looks at the account, not at the payment.
IsConfirmed(s) == s # None /\ s.active /\ (IsPaidPlan(s) \/ HasSessionCredit(s))

\* The effect of the success page runs again when IsConfirmed changes: it
\* fetches once more and, unless confirmed, starts a new interval.
Repoll(f) ==
  /\ fetch' = [fetch EXCEPT ![f] = [Idle EXCEPT !.pc = "sent"]]
  /\ isLoading' = TRUE
  /\ attempts' = 0 /\ polling' = ~IsConfirmed(status')

\* Answers are taken in the order they arrive in.
ReceiveStatus(f) ==
  /\ fetch[f].pc = "read"
  /\ status' = fetch[f].got
  /\ IF place = "success" /\ IsConfirmed(status') # IsConfirmed(status)
     THEN Repoll(f)
     ELSE /\ fetch' = [fetch EXCEPT ![f] = Idle]
          /\ isLoading' = FALSE
          /\ UNCHANGED <<attempts, polling>>
  /\ UNCHANGED <<place, tracked, visits, target, context, reported, ledger, account>>

FetchFails(f) ==
  /\ fetch[f].pc # "idle"
  /\ fetch' = [fetch EXCEPT ![f] = Idle]
  /\ isLoading' = FALSE
  /\ UNCHANGED <<place, status, attempts, polling, tracked, visits, target,
                 context, reported, ledger, account>>

-----------------------------------------------------------------------------
(* The billing page.                                                       *)

PlanRank(plan) == CASE plan = "personal" -> 1 [] plan = "pro" -> 2 [] OTHER -> 0

\* An unknown status counts as the free plan.
ShownPlan == IF status = None THEN "free" ELSE status.plan

CanUpgradeTo(plan) == ~isLoading /\ PlanRank(plan) > PlanRank(ShownPlan)
PerSessionOffered == ~isLoading /\ PlanRank(ShownPlan) = 0

RefreshBilling(f) ==
  /\ place = "billing"
  /\ FetchStatus(f)
  /\ UNCHANGED <<place, status, attempts, polling, tracked, visits, target,
                 context, reported, ledger, account>>

\* The plan stays, its renewal ends, and the status is fetched anew.
CancelOffered == ~isLoading /\ IsPaidPlan(status) /\ status.active

HandleCancel(f) ==
  /\ place = "billing" /\ CancelOffered
  /\ account' = [account EXCEPT !.active = FALSE]
  /\ FetchStatus(f)
  /\ UNCHANGED <<place, status, attempts, polling, tracked, visits, target,
                 context, reported, ledger>>

Order(p) ==
  /\ ledger[p] = "none"
  /\ ledger' = [ledger EXCEPT ![p] = "requested"]
  /\ UNCHANGED <<place, status, isLoading, fetch, attempts, polling, tracked,
                 visits, target, context, reported, account>>

\* A button is not disabled while its request runs.
HandleUpgrade(p) ==
  /\ place \in {"billing", "leaving"} /\ PlanOf[p] # "per_session"
  /\ CanUpgradeTo(PlanOf[p])
  /\ Order(p)

HandleBuy(p) ==
  /\ place \in {"billing", "leaving"} /\ PlanOf[p] = "per_session"
  /\ PerSessionOffered
  /\ Order(p)

\* payment_url has come: the context is overwritten and the browser sent away.
Redirect(p, keepsContext) ==
  /\ ledger[p] = "requested" /\ place \in {"billing", "leaving"}
  /\ ledger' = [ledger EXCEPT ![p] = "offered"]
  /\ target' = p
  /\ place' = "leaving"
  /\ context' = IF keepsContext THEN p ELSE context
  /\ UNCHANGED <<status, isLoading, fetch, attempts, polling, tracked, visits,
                 reported, account>>

\* The billing page and the card keep the context; the upgrade dialog, which
\* sells pro, does not.
RedirectFromPage(p) == Redirect(p, TRUE)
RedirectFromModal(p) == PlanOf[p] = "pro" /\ Redirect(p, FALSE)

-----------------------------------------------------------------------------
(* Page loads.  The store and the requests of the old page are gone.       *)

Load(to) ==
  /\ visits < MaxVisits
  /\ visits' = visits + 1
  /\ place' = to
  /\ status' = None /\ tracked' = FALSE /\ attempts' = 0
  /\ UNCHANGED <<context, reported, account>>

Unloaded == fetch' = [f \in Fetches |-> Idle] /\ isLoading' = FALSE /\ polling' = FALSE

OpenProvider ==
  /\ place = "leaving"
  /\ place' = "provider"
  /\ Unloaded
  /\ UNCHANGED <<status, attempts, tracked, visits, target, context, reported,
                 ledger, account>>

\* The success page fetches at once and starts its interval.
OpenSuccess ==
  /\ Load("success")
  /\ polling' = TRUE /\ isLoading' = TRUE
  /\ \E f \in Fetches :
       fetch' = [g \in Fetches |-> IF g = f THEN [Idle EXCEPT !.pc = "sent"] ELSE Idle]

\* Back from the provider, the payment made or given up.
ReturnFromProvider ==
  /\ place = "provider"
  /\ OpenSuccess
  /\ ledger' = [ledger EXCEPT ![target] = IF @ = "offered" THEN "paid" ELSE @]
       \/ ledger' = ledger
  /\ target' = None

ReloadSuccess ==
  /\ place = "success"
  /\ OpenSuccess
  /\ UNCHANGED <<ledger, target>>

ReturnToBilling ==
  /\ place \in {"provider", "success", "bridge"}
  /\ Load("billing") /\ Unloaded
  /\ target' = None /\ UNCHANGED ledger

\* payment.succeeded.
ApplyPayment(p) ==
  /\ ledger[p] = "paid"
  /\ ledger' = [ledger EXCEPT ![p] = "applied"]
  /\ account' = IF PlanOf[p] = "per_session"
                THEN [account EXCEPT !.credits = @ + 1]
                ELSE [account EXCEPT !.plan = PlanOf[p], !.active = TRUE]
  /\ UNCHANGED <<place, status, isLoading, fetch, attempts, polling, tracked,
                 visits, target, context, reported>>

-----------------------------------------------------------------------------
(* The success page.                                                       *)

\* What the page says: that the payment is recorded, or that it waits.
ShowsConfirmation == place = "success" /\ IsConfirmed(status)
ShowsWaiting == place = "success" /\ ~IsConfirmed(status)

\* Variant: the interval is never cleared.
PollForEver(f) ==
  /\ place = "success" /\ polling
  /\ FetchStatus(f)
  /\ attempts' = attempts + 1
  /\ UNCHANGED <<place, status, tracked, visits, polling, target, context, reported,
                 ledger, account>>

\* Every 2.5 seconds, five times.
Poll(f) ==
  /\ place = "success" /\ polling
  /\ FetchStatus(f)
  /\ attempts' = attempts + 1
  /\ polling' = (attempts + 1 < MaxAttempts)
  /\ UNCHANGED <<place, status, tracked, visits, target, context, reported,
                 ledger, account>>

RefreshByHand(f) ==
  /\ ShowsWaiting /\ ~isLoading
  /\ FetchStatus(f)
  /\ UNCHANGED <<place, status, attempts, polling, tracked, visits, target,
                 context, reported, ledger, account>>

\* Variant: the context is not cleared.
ReportedAndKept ==
  /\ reported' = [p \in Payments |-> reported[p] + (IF p = context THEN 1 ELSE 0)]
  /\ UNCHANGED context

\* The event takes the payment from the context and clears it.
Reported ==
  /\ reported' = [p \in Payments |-> reported[p] + (IF p = context THEN 1 ELSE 0)]
  /\ context' = None

TrackSuccess ==
  /\ ShowsConfirmation /\ ~tracked
  /\ tracked' = TRUE
  /\ Reported
  /\ UNCHANGED <<place, status, isLoading, fetch, attempts, polling, visits,
                 target, ledger, account>>

\* On to the bridge page, which reports too once it has converted.
OpenBridge ==
  /\ ShowsConfirmation
  /\ place' = "bridge" /\ polling' = FALSE
  /\ UNCHANGED <<status, isLoading, fetch, attempts, tracked, visits, target,
                 context, reported, ledger, account>>

BridgeConverts ==
  /\ place = "bridge" /\ context # None
  /\ Reported
  /\ UNCHANGED <<place, status, isLoading, fetch, attempts, polling, tracked,
                 visits, target, ledger, account>>

Next ==
  \/ \E p \in Payments :
       \/ HandleUpgrade(p) \/ HandleBuy(p) \/ RedirectFromPage(p)
       \/ RedirectFromModal(p) \/ ApplyPayment(p)
  \/ \E f \in Fetches :
       \/ ReadStatus(f) \/ ReceiveStatus(f) \/ FetchFails(f)
       \/ RefreshBilling(f) \/ HandleCancel(f) \/ Poll(f) \/ RefreshByHand(f)
  \/ OpenProvider \/ ReturnFromProvider \/ ReloadSuccess \/ ReturnToBilling
  \/ TrackSuccess \/ OpenBridge \/ BridgeConverts

Spec == Init /\ [][Next]_vars

-----------------------------------------------------------------------------
(* Properties.                                                             *)

\* No payment is reported twice, although the success page may be reloaded
\* and the bridge page reports as well (success/page.tsx:55-78,
\* from-guest/page.tsx:34-53).
ReportedOnce == \A p \in Payments : reported[p] <= 1

\* Whoever had no paid access before sees a confirmation only after a payment
\* has reached the account: neither a pending status nor an answer that comes
\* late makes one up (success/page.tsx:18-25, billingStore.ts:28-36).
ConfirmationIsEarned ==
  ShowsConfirmation /\ InitialPlans = {"free"} =>
    \E p \in Payments : ledger[p] = "applied"
=============================================================================
