# PeakTalk in TLA+

PeakTalk rehearses a presentation against an adversary: a user uploads a
document or pastes a draft, an AI persona asks hard questions about it, and the
answers are evaluated into metrics and a Defense Brief. This directory holds
TLA+ modules of the program, TLC configurations that check them on small
instances, and proofs, checked by TLAPS, of what holds for every instance.

Two kinds of modules. Those of the *backend* are about concurrent database
transactions that decide what a user has paid for, may start, and gets in the
end. Those of the *browser* take a page with its hooks and stores, the
router behind it, and what may happen between the two: answers that come late,
in another order or not at all, reloads, other tabs, a server that goes on when
the page has given up.

`PROJECT.json` is the index: which lines of the source every definition models
(`map`), what every run checks, which variant of the code breaks each property
(`mutants`), where the code departs from its own comments (`findings`), which
hazards of the code are covered by which property (`hazards`).

- [The system](#the-system)
- [Modules and how they correspond to the code](#modules-and-how-they-correspond-to-the-code)
- [Runs](#runs)
- [Fairness](#fairness)
- [Findings](#findings)
- [Proofs](#proofs)
- [Assumptions](#assumptions)
- [Not modelled](#not-modelled)
- [Plan](#plan)

## The system

Processes: the browser application (Next.js, with Better Auth for sign-in), the
API (FastAPI, two workers), a Celery worker of concurrency 2 with a beat
scheduler, PostgreSQL, Redis (cache, Celery broker, pub/sub), an S3 store, and
four external services: the LLM provider, YooKassa, e-mail, web push.

Every API request and every task runs in one SQLAlchemy session, hence in one
READ COMMITTED transaction that `get_db` (`database.py:34-41`) commits at the
end or rolls back on an exception. All concurrency on the server is between such
transactions, cut at their `await`s; the AI calls in the middle of them last
for many seconds. The code takes two explicit row locks
(`SELECT ... FOR UPDATE` in from-guest and rerun); everything else relies on
the locks that UPDATEs take and on unique keys. A response is sent before its
transaction commits, so that a page may know of a row that is not there yet.

In the browser, each page is single-threaded; its steps are cut at requests,
timers and events, and whatever comes back may find another page.

### Components

Paths of the server are under `src/backend/app`, those of pages under
`src/frontend/src`.

| Component | State | Operations | Hard behaviour | What makes it correct | Module |
|---|---|---|---|---|---|
| Tariff rules, `services/limits.py` | none | effective plan, grace, limits | boundaries of period and grace | limits follow the plan the row gives at that moment | `Plans` |
| Usage counters and credits, `services/limits.py`, `routers/webhooks.py` | `usage_counters`, `payments` | create, roll over, admit, debit, count, credit | values read before an AI call and used after it; duplicate deliveries | a payment counts once; a start takes what it debited | `Entitlements` |
| Subscriptions, `worker.py`, `routers/billing.py`, `routers/webhooks.py` | `subscriptions` | daily renewal in three phases, cancel, checkout, YooKassa's events | stale ORM objects, one commit for many charges, retries, late events | one renewal per period; paid plans end | `Subscriptions` |
| Sessions, `routers/simulation.py`, `worker.py:85-187` | `simulation_sessions`, messages, metrics, artifacts | message, complete, abandon, expiry | status checked before an AI call; four writers of the status | a completed session has an answer; stale sessions end | `Sessions` |
| Checkout, `billing/page.tsx`, `billing/success/page.tsx`, `billingStore.ts` | billing status, polls, payment context | pay, return, poll, report | answers out of order, reloads, two pages that report | a payment is reported once, a confirmation is earned | `Checkout` |
| Guest rehearsal, `simulation/guest/page.tsx`, `from-guest/page.tsx`, `guest_simulation.py` | `guest_sessions`, local storage | start, answer, convert | timer of 25 seconds against the server; row lock | one paid simulation per guest session | `Guest`, `Conversion` |
| Upload, `upload/page.tsx`, `routers/documents.py`, `worker.py:49-82` | documents, objects, drafts | upload, draft, analysis, parse, delete | queued before the commit; deleted under late requests | no draft without document, the form comes back | `Upload` |
| List of documents, `documents/page.tsx` | list, search, filter, page | delete, search, page | list that shrinks under the page number | the page is not empty while something matches | `Documents` |
| Analysis, `analysis/[id]/page.tsx`, `routers/drafts.py` | `ai_analysis_results`, panel, sheet | analyse, segments, brief | two requests for one unique row; overlapping annotations | text is shown whole; what is shown is stored | `Analysis` |
| Export of the brief, `defense-brief-export.ts` | - | copy, download | blank texts and sections | a well-formed file with the card's sections | `BriefExport` |
| Set-up, `simulation/page.tsx` | form, pages of the history | choose, start | links and late answers fill the form in | one opponent | `Practice` |
| Dialogue, `simulation/[id]/page.tsx`, `useSpeechRecognition.ts` | messages, dictation, timer | send, retry, complete, abandon, dictate | lost responses, optimistic messages | what is shown is recorded, once | `Rehearsal` |
| Report and rerun, `simulation/[id]/report/page.tsx`, `PrepCard.tsx` | card, popover | poll, rerun | background task, row lock, lost responses | one rerun; the card stops waiting | `Report` |
| Catalogue, `scenarios/page.tsx`, `scenarios/[slug]/page.tsx` | list, tab, fallback | choose tab, open, start | late answers, embedded data | the list is that of the tab | `Catalog` |
| Meetings, `meetings/page.tsx`, `routers/meetings.py` | cards, form, rows | create, edit, delete | a late answer closes another dialog | a form is saved into its own meeting | `Meetings` |
| Own opponents, `personas/page.tsx`, `routers/personas.py` | list, form, rows | create, edit, delete | lists typed as one line | untouched is unchanged | `Personas` |
| Notifications, `NotificationsPopover.tsx`, `useWebSocket.ts`, `ws_manager.py` | rows, channel, sockets, list | announce, poll, mark | socket and poll, optimistic marks with undo | no duplicates, no lasting lie | `Notifications` |
| Web push, `PushPromoDialog.tsx`, `usePushNotifications.ts`, `worker.py:372-447` | permission, endpoints | offer, subscribe, send | permission answered elsewhere, two users | who has answered is not asked | `Push` |

How they interact: `Catalog` hands a scenario to `Guest` or to `Upload`; a
converted guest session is a session of `Sessions`; `Upload` ends on the page of
`Analysis`, which links to `Practice`; a start is charged by `Entitlements`, runs in
`Rehearsal` and `Sessions` and ends in `Report`, whose rerun leads to
`Rehearsal` again; `Checkout` is where `Entitlements` and `Subscriptions` get
their payments from. In each module the neighbours are single steps.

## Modules and how they correspond to the code

### Plans

The tariff rules as operators on a row and a day: `EffectivePlan`,
`IsSubscriptionActive`, `LimitOf`, `WithinLimit`. Time is an integer number of
days. It keeps the code's rules where they are surprising: the status plays no
part in the effective plan, a legacy plan `starter` is `personal` for every
limit, and grace applies to a cancelled subscription too.

### Entitlements

One account: its `usage_counters` row, its `subscriptions` row and its
`payments`, under any number of concurrent transactions.

| Variables | Code |
|---|---|
| `counter`, `work`, `lock` | the committed row, the version of the transaction that has updated it, that transaction |
| `sub`, `subWork`, `subLock` | the same for `subscriptions` |
| `payments`, `inserted` | committed payment ids, and who has inserted an id and not committed |
| `pc`, `stage`, `seen` | where a transaction is, how far in `get_usage_counter`, and the ORM object it holds |
| `order`, `paid`, `debited`, `outcome` | local results of a transaction |

`get_usage_counter` is called at eight places; each call is the same three
steps (`FetchCounter`, `CreateCounter` or `ResetPeriod`, then the code at that
place), so that the row may change between any two of them. The two ways in
which the code writes a column are kept apart: `counter.session_credits += 1`
writes a value computed from the object that was read (`AddCredit`,
`ResetPeriod`, `RestartCounter`), whereas `update().values(col = col - 1)` is
computed by the database on the version it locks (`Debit`, `CountUse`). An
attribute assigned the value it already had is not written at all, which is why
`ResetPeriod` and `RestartCounter` write `used` only if it was not 0.

A start runs `BeginStart`, `AdmitStart` or `RefuseStart`, `RecordAccess`,
`AskQuestion` (the AI call), `Debit` or `NoDebit`, `CountUse`, `Commit`. The
action after the AI call reads the row anew (`spend`), as the code does.

### Subscriptions

One account's `subscriptions` row under the daily worker, cancellations and
deliveries of YooKassa's events, and `ledger`, the payments YooKassa knows.
`object[t]` is the ORM object a transaction holds and `dirty[t]` the columns it
has assigned: an UPDATE writes those and leaves the others as they are in the
database by then (`Flushed`). The worker's later SELECTs do not refresh an
object that is already loaded (`Loaded`), and each of them flushes first.
`Renew`, `Retry` and the three SELECTs are the phases of the task. A charge that
raises may or may not have reached YooKassa.

### Sessions

How a session ends. Four kinds of transactions write it: `Sends`, `Completes`,
`Abandons` and the `Expirer`. `row` holds the committed status of each session
and the numbers of its questions, answers, evaluations and briefs; `inserts[t]`
what `t` has inserted, which counts at its commit and never waits; `assigned`,
`lock`, `work` the status it has assigned and sent.

| Action | Code (`routers/simulation.py`, `worker.py`) |
|---|---|
| `Open`, `LoadForSend`, `LoadToComplete`, `LoadToAbandon` | `_load_session`: the row, then its messages by a second SELECT, on a newer snapshot |
| `Detected`, `StoreAnswer`, `AskQuestion` | `send_message`: AI detection, the answer, then the next question, or the end at the limit |
| `Evaluate`, `Flush` | `_finalize_session` |
| `FindBrief`, `WriteBrief` | the background task of the prep card; it runs before the request's commit, in a session of its own |
| `Leave`, `Reload` | `abandon_session`, which commits at once, and its background task |
| `SelectStale`, `SelectMessages`, `SelectMetrics` | the task's three SELECTs |
| `ExpireAtOnce`, `ExpireAnswered`, `ReadSource`, `EvaluateStale`, `FlushRow`, `FinishLoop` | one session after another, UPDATEs at the next document query or at the commit |
| `SelectUnbound` | `_select` used where it is not bound |

### Checkout

`place` is the page, `fetch` the requests for the billing status with what the
server has read for each, `status` and `isLoading` the store, `attempts` and
`polling` the poll of the success page, `context` and `tracked` the payment
context in the session storage and its report. `ledger` and `account` are the
provider and the rows, one step each: `Pay` and `ApplyPayment` may come long
after the return to the success page, or never. Answers come in any order, which is
what `ConfirmationIsEarned` is about: it covers accounts without paid access
before the checkout, since the page cannot tell a paid account from a payment.

### Guest and Conversion

`Guest` is three places at once. On the visitor's page a request may be
given up by the timer (`Timeout`) and goes on at the server; `answer` and
`shown` are what the visitor sees. On the server, each guest session is a `row`,
`held` the version a request has loaded and not committed: the code writes
`turn_count` and the list of messages from what it loaded (`Written`). On the bridge page, a signed-in
user takes the id out of the storage and asks for the conversion, which locks
the row, finds the session already there, refuses, or debits and creates
(`LockGuest`, `Admit`, `Create`); each may be repeated by a reload, from another
account, or after a lost response.

`Conversion` is what all this promises: `owner[g]`, the account that got the
simulation of guest session `g`, and the accounts' `credits`. Two actions, an
account that has access and an account that converts. `Guest` implements it
under `Promise == INSTANCE Conversion WITH Guests <- Requests, owner <- Owner`
(a guest session is named by the request that made it).

### Upload

`attempt` is the upload the page waits for, `flow[d]` how far its three requests
(document, draft, analysis) have come at page and server; `row`, `objects`,
`draft`, `analysed` and `task` are what the server has. `Leave`, `Deletion` and failures
come between any two of them. The parse task is queued before the row is there,
as in the code, and finds the row or not (`ParseDocumentTask`).

### Documents, Analysis, BriefExport

`Documents` derives `Filtered`, `TotalPages` and `PagedDocuments` from the list as last fetched,
as the page does with `useMemo`; the deletion keeps its dialog until its answer.
`Analysis` has the transaction of `POST /drafts/{id}/analyze` (the unique key
on `draft_id`, two requests after a reload) and, as operators, the algorithms
of the page: `Annotations` in order of place, `BuildSegments`, which cuts the
text at marked quotations, and `BuildDefenseBrief`. A text is a length, a
quotation a place and a length in it, -1 if it is not found. `BriefExport` is an
operator from an artifact, whose texts are blank or not, to the lines of the
file, next to the sections of the card.

### Practice, Rehearsal, Report

`Practice` has the four loads of the page, its history by pages and the form,
which URL parameters, a meeting that answers late and the user fill in.
`Rehearsal` has the page (`messages`, the optimistic answer, `interim` and
`recognition` of the dictation, `loads`) against `session`, the committed log,
and `txn`, the requests at the server; a request is answered (`Respond`) before
it commits (`Commit`), and a page that has had an error may send again what was
stored. `Report` has the card with its fetches every few seconds,
the background task that finds no brief and stores one (`FindBrief`,
`StoreBrief`), and the rerun with its lock (`LockSource`, `AnswerRerun`,
`CommitRerun`).

### Catalog, Meetings, Personas, Notifications, Push

`Catalog` cancels a list's request when the tab changes (`CancelFilters`) and
puts embedded scenarios in the place of a list that failed. `Meetings` and
`Personas` keep what was typed and for whom (`form`, `editing`), what was `sent`, and the row as
committed and as flushed. In `Personas` a list typed as one line is a sequence
of words, commas and blanks: `ParseCsv` reads it token by token (`Read`), trims each
part and drops empty ones (`WithPart`), and `FormatList` joins the phrases for the
form.
`Notifications` has the row, the message that is published after the commit and
lost when no socket takes it, the reconnection of `useWebSocket`, and marks that
change the list first and put it back on failure. `Push` has the browser's
permission next to the one the hook has last seen, the dialog's conditions, and the
rows of endpoints, which keep the user that subscribed.

### Lists

Not a part of the program: `Fold` and `Keep`, with which the loops of
`Documents`, `Analysis`, `BriefExport` and `Personas` are written, so that the proofs
can reason about them.

### Modules for model checking

`MCEntitlements`, `MCSubscriptions` and `MCSessions` extend a module with small
initial rows and, where it is sound, symmetry. `MCMaterial`, `MCPractice`,
`MCCabinet` and `MCLive` hold several components side by side: `focus` says
which one moves in a behaviour. Each behaviour is one of a single component; the
others have no state or stay in an initial state, so that the runs add
their state spaces up rather than multiply them. The property of a component is
stated there for the behaviours with that focus. `Assumptions` in these
modules are the assumptions of their components.

Definitions marked "Variant" in a module are the mutated forms `PROJECT.json`
names; no action uses them.

## Runs

Distinct states; every run ends in less than four minutes on two cores.

| Run | Instance | States | Shows |
|---|---|---|---|
| `entitlements` | a start, a conversion, a status request, two deliveries; a credit and a plan bought; no counter yet; a free plan or one cancelled on day 0; days 0-2 | 1,872,387 | `TypeOK`, `CreditsNonNegative`, `PaymentAppliedOnce`, `CreditsBackedByPayments`, `ChargedExactly` |
| `subscriptions` | worker, one cancellation, one delivery at a time, an upgrade, two payments, days 0-2; also from the middle of a delivery that another one has overtaken | 2,278,480 | `TypeOK`, `OneRenewalPerPeriod`, `PaidPlansEnd`, `CancelKeepsPlan` |
| `sessions` | an open session on a document or a draft beside one that has ended; two sends, a completion, an abandon, the task; limit 2 | 2,107,837 | `TypeOK`, `CompletedHasAnswer`, `EvaluatedHasEnded`, `TurnsBounded` |
| `material` | two uploads of a text or a large file, alike; three listed documents, one per page, one of which may get a draft (`Drafted`); up to two annotations in a text of length 3, two requests, alike, two visits; all artifacts | 431,522 | `DraftHasDocument`, `PageIsNotEmpty`, `SegmentsAreTheText`, `BriefIsOrdered`, `ShownIsStored`, `FileIsWellFormed` |
| `practice` | an opponent of each kind and a meeting; three page requests in a dialogue of two questions; two briefs and three reruns; three guest requests, two bridge pages, two accounts | 559,555 | `OneOpponent`, `ShownIsRecorded`, `OneRerun`, `ImplementsConversion` |
| `cabinet` | two payments, two polls at a time, three visits; two meetings; an opponent; three scenarios; two notifications with a mark for one and for all; two users of a browser | 1,320,625 | `ReportedOnce`, `ConfirmationIsEarned`, `SavedIntoItsOwn`, `UntouchedIsUnchanged`, `ListIsOfItsTab`, `ListedOnce`, `ShownReadIsRead`, `AnsweredIsNotAsked` |
| `live` | a start, a status request, two deliveries on a new account; two sessions, on a draft and on a document, a send and the task; a report; an upload | 52,112 | `RequestsEnd`, `StaleSessionsEnd`, `WaitingEnds`, `ProcessingEnds` |
| `subscriptions_live` | worker and deliveries under fairness | 10,026 | `ExpiredIsDowngraded` |
| `credit_lost` | two payments at once | - | `EveryPaymentCredited` is violated |
| `retry_in_paid_period` | three payments, days 0-4 | - | `ChargesAreDue` is violated |
| `draft_never_ends` | the sessions of `live` | - | `EveryStaleSessionEnds` is violated |
| `large_file_unparsed` | one upload | - | `LargeFileParsed` is violated |

The runs over several components also check each component's type invariant
(`TypesOK`).

Why the bounds are enough to see the interesting cases.

- Backend. A period and a grace of one or two days put every boundary of the
  tariff rules within `MaxDay`. Two deliveries are what it takes to race on a
  payment's key; a start and a conversion are the two kinds of request that
  spend. In `Subscriptions`, requests are reused one after another, so that one
  delivery "at a time" delivers any number of events; the second initial state
  of `RaceSpec` is one that two deliveries at once lead to, so that the failing
  INSERT of `DuplicateKey` is covered without the cost of a second delivery.
  `OneActiveSpec` starts from sessions of which all but one have ended, the open
  one about a document, or about a draft and at its limit: the task then meets
  the draft that it cannot evaluate. In `Sessions` two sends,
  with a limit of two questions and one asked at the start, are the least with
  which the limit can be overshot, and requests are reused too; the mutant of
  `TurnsBounded` shows that the bound is tight.
- Requests. Two requests of a kind are what it takes to answer out of order, a
  third is one that comes again after both; `MaxVisits`, `MaxLoads` and `Mounts`
  allow a reload. A second account (`Users`) and a second bridge page are what
  it takes to convert a guest session twice. `MaxTimeouts` allows the page to
  give up once while the server goes on.
- Lists. One document per page makes a list of three as long as three
  pages, one `MaxItems` in the brief makes two notes compete. Two annotations over three
  places overlap, nest, touch, coincide, and may be empty or absent.
- `MaxAttempts` limits the polls of the success page, `MaxPages` the history,
  `MaxStarts` the starts, `MaxCredits` the credits an account can
  have; `MaxDay` and `MaxPayments` limit clock and payments. All bounds are
  constants.

`CHECK_DEADLOCK FALSE` stands where a page may come to rest: every request is
answered and the user does nothing. `Entitlements`, `Subscriptions` and
`Sessions` are checked for deadlock.

## Fairness

- Requests (`Entitlements` and `Sessions` in `live`): weak fairness of what a
  request that has begun does next. The AI client bounds each call by a timeout
  and three attempts, and PostgreSQL hands a released lock to a waiter. Nothing is assumed
  of `Begin`, `Fail` or `Tick`.
- `Sessions` in `live`: sessions grow old, the task goes on and its row updates
  get the lock in the end (strong fairness of `FlushRow`, since the lock comes
  and goes). From some time on runs of the task are not killed; they may still
  end by `SelectUnbound`, which is the code's own doing.
- `Subscriptions`, `FairSpec`: the clock goes on and beat starts a run every
  day; strong fairness of the worker's steps says that not every run is killed
  at the same step; YooKassa repeats a delivery until it is answered. Runs may be
  killed for ever, at different steps.
- `Report` in `live`: a request for the artifact is answered or fails, the timer
  of the next poll fires, a background task that has begun goes on.
- `Upload` in `live` and in `FairSpec`: each request of the page is answered or
  fails, the timers of the page fire, a queued task is run. Nothing is assumed
  of commits, deletions or the user.

## Findings

Each is a run of its own, with one property taken from a comment or a docstring.

1. `credit_lost` - "On webhook success, session_credits += 1"
   (`billing.py:316-317`). Two payments applied at the same time both write the
   value they read plus one (`webhooks.py:174`).
2. `retry_in_paid_period` - "Retry past_due subscriptions still within grace"
   (`worker.py:283`). A charge that raised after YooKassa took it leaves
   `past_due` over the row that the webhook renewed; the next run retries under
   another key, inside the paid period.
3. `draft_never_ends` - "Sessions with at least one user answer: evaluate + mark
   completed" (`worker.py:91-92`). `_select` is bound in the branch for
   documents only. A stale session on a draft, which every converted guest
   session is, raises `UnboundLocalError`; the run ends before its only commit,
   and so does every later one: no stale session of any user ends any more.
4. `large_file_unparsed` - "Heavy document parsing task for files > 10 MB"
   (`worker.py:51`). The upload queues the task before it has flushed the row
   (`documents.py:76`). A task that starts at once finds no document, returns
   `not_found` and is not queued again.

Other behaviours of the models that a reader of the code may not expect. No
comment of the code says otherwise, hence they are not findings:

- Two starts that have read the same last credit both create a session; the debit of
  the second matches no row, and `start_simulation` goes on
  (`Entitlements`, `NoDebit`).
- Phase 3 of the renewal writes `free` over a payment committed since its SELECT.
- A late `payment.canceled` of an abandoned checkout makes a subscription that
  was cancelled meanwhile `past_due`, and `Retry` charges its card.
- A slow request of a guest that the page has given up on writes an older
  `turn_count` and list of messages over a newer one (`Guest`, `Written`).
- Two background tasks that find no brief store two, after which the artifact's
  `scalar_one_or_none` raises; a session ended by the expiry task gets none.
- Answers sent at the same time have the same `turn_index`, and the answer that
  reaches the limit is not in the messages that the evaluation sees.
- The pub/sub listener of a process that raises is not started again: its
  sockets stay open and silent, and the bell follows by its poll only.

## Proofs

Thirty-five theorems in eight modules, checked to the last leaf. Every safety
property that a passing run checks is one of them, and so are the type invariants
and the refinement. The parameters are arbitrary: any number of requests, deliveries,
payments, sessions, pages, documents, annotations, scenarios, notifications and
days, and sequences of any length, under the named assumptions of the modules
(`PlansAssumption`, `EntitlementsAssumption`, `SubscriptionsAssumption`,
`SessionsAssumption`, and those of the components that `Assumptions` of
`MCMaterial`, `MCPractice` and `MCCabinet` list). They say that the sets are disjoint where
the model takes their members apart, that `None` is none of their members, that
bounds are natural numbers, positive where the code's are (`MaxAttempts`,
`MaxItems`, `DOCUMENTS_PAGE_SIZE`, `MaxTurns`), that sets are finite where something is counted
or listed (`Payments`, `Sends`, `Docs`, `Slugs`, `Meets`, `Tasks`), that
quotations lie in their text, and that the initial rows have the types and zeros
the code creates them with.

| Theorem | Property | Inductive invariant and why it is needed |
|---|---|---|
| `EntitlementsProofs!TypeCorrect` | `TypeOK` | itself; a delivery that has begun has a payment |
| `EntitlementsProofs!AppliedOnce` | `PaymentAppliedOnce` | `KeyInv`: whoever is past the insertion of a payment's row is the one that has inserted it, and a committed delivery's payment is in `payments`, where no other can insert it |
| `EntitlementsProofs!NeverNegative`, `CreditsBacked` | `CreditsNonNegative`, `CreditsBackedByPayments` | `CreditInv`: balance, its uncommitted version and every value read lie between 0 and the number of per-session payments recorded; the version of a delivery alone may exceed it by one, and only while its own payment is about to be committed with it. The bound on values read is what makes `credits = seen + 1` harmless |
| `EntitlementsProofs!ChargesExactly` | `ChargedExactly` | `ChargeInv`: the version that a spending transaction holds differs from the committed row by exactly what it has done, and the lock keeps the committed row still; a rollover may change the count, but not on the free plan |
| `SubscriptionsProofs!TypeCorrect` | `TypeOK` | with the fact that an object and an event are there where the code uses them |
| `SubscriptionsProofs!OneRenewal` | `OneRenewalPerPeriod` | `KeysInv`: keys at YooKassa are different, and a renewal's key names the period's end |
| `SubscriptionsProofs!PlansEnd` | `PaidPlansEnd` | `EndInv`: the columns that an open transaction is about to write are harmless on any row that has an end for a paid plan, not only on the one it has read: whoever writes a paid plan also writes the end, whoever clears the end also writes `free` |
| `SubscriptionsProofs!PlanKept` | `CancelKeepsPlan` | `CancelInv`: no cancellation has assigned `plan` or `period_end`, and the row a cancellation holds agrees with the committed row in both |
| `SessionsProofs!TypeCorrect` | `TypeOK` | with the fact that the task knows its session while it evaluates |
| `SessionsProofs!CompletedAnswered`, `EvaluatedEnded` | `CompletedHasAnswer`, `EvaluatedHasEnded` | `EndInv`, below |
| `SessionsProofs!TurnsLimited` | `TurnsBounded` | `TurnsInv`: the questions asked, together with the sends that have read that there is room for one and have not committed it, stay below the limit plus the number of sends; a send joins them only when it reads fewer questions than the limit, and a commit moves one from the second number to the first |
| `GuestProofs!TypeCorrect` | `TypeOK` | part of `IInv`, below: no request takes a guest session over its limit of turns |
| `GuestProofs!Implements` | `ImplementsConversion` | `IInv`: the type invariant with `TxInv` (what a request at the server may hold), `PaywallInv` (behind the paywall the page has its session and awaits nothing), `BridgeInv` (a conversion under way holds the row's lock, and what it has read is still in the row) and `OwnerInv` (the mark on the row names the owner of the one simulation there is). Every step of `Guest` is then a step of `Conversion` or leaves `Owner` and `credits` as they are |
| `PracticeProofs!PracticeTypes` | `TypesOK` | all of the following, and `R_BriefInv`: there are as many briefs as background tasks that are done, at most |
| `PracticeProofs!ChosenOnce` | `OneOpponent` | `P_Inv`: before the first answer nothing has been chosen and nothing can be |
| `PracticeProofs!ShownRecorded` | `ShownIsRecorded` | `H_Inv`: the log has a message once, and of a request only what that request has written and committed; what is shown is in the log or belongs to a request that is still at the server; the answer the page waits for is not on it yet; the history a load has read is part of the log, which only grows, so that it may arrive late |
| `PracticeProofs!RerunOnce` | `OneRerun` | `R_RerunInv`: whoever has read the source holds its lock, and what it has read is still the configuration; a rerun that is answered and not committed is the lock holder's |
| `MaterialProofs!TypeCorrect` | `TypesOK` | all of the following; in `Analysis`, an annotation that is opened or tapped is one of those shown |
| `MaterialProofs!DraftsHaveDocuments` | `DraftHasDocument` | `UnsentInv`: an attempt that has not begun has neither row nor draft, hence a new attempt starts from nothing; a draft is flushed only while its document is committed, and a deletion takes it along |
| `MaterialProofs!NoEmptyPage` | `PageIsNotEmpty` | `D_Inv`, for the types; the rest is about `PagedDocuments`, see below |
| `MaterialProofs!ShownStored` | `ShownIsStored` | `A_Inv`: at most one request holds the unique key uncommitted, and none once a row is stored; the page shows what that request has answered |
| `MaterialProofs!WholeText`, `GraverFirst` | `SegmentsAreTheText`, `BriefIsOrdered` | `A_Inv`, for the types; the rest is about `BuildSegments` and `BuildDefenseBrief` |
| `MaterialProofs!FileWellFormed` | `FileIsWellFormed` | `B_Inv`: what is copied is nothing or a file made of the artifact; the rest is about the formatter |
| `CabinetProofs!CabinetTypes` | `TypesOK` | all of the following, and `K_Inv`: credits are at most the payments applied, no snapshot has more of them than the account, and an interval that runs has polls left |
| `CabinetProofs!OneReport` | `ReportedOnce` | `ReportInv`: the stored context names a payment only after its redirect, to which it came once, and no longer when it has been reported, by whichever page |
| `CabinetProofs!Earned` | `ConfirmationIsEarned` | `EarnedInv`: until a payment is applied, not only the account but every answer on its way and the store are those of a bare account; answers that come late are bare too |
| `CabinetProofs!OwnForm` | `SavedIntoItsOwn` | `M_Inv`: the open form was filled from the meeting that is being edited, and the form under way to the server from the meeting it is saved into |
| `CabinetProofs!SavedUntouched` | `UntouchedIsUnchanged` | `O_Inv`: every stored phrase has come out of `ParseCsv`, so it has no comma, no blank at its ends and is not empty; for those, splitting undoes joining |
| `CabinetProofs!ListOfTab` | `ListIsOfItsTab` | `C_Inv`: a request under way asks for the tab that is chosen |
| `CabinetProofs!BellOnce` | `ListedOnce` | `N_Lists` of `N_Inv`: the list shown, the one fetched and every list that a failed mark may put back have a notification once, and only stored ones |
| `CabinetProofs!ReadIsRead` | `ShownReadIsRead` | `N_Fetched` of `N_Inv`: what was fetched as read is read, for good |
| `CabinetProofs!AskedOnce` | `AnsweredIsNotAsked` | `S_Inv`: the timer runs only while the permission last seen is open, and what is on the screen was put there by it |

### How the proofs go

In a module that holds several components side by side, the inductive invariant
(`MaterialInv`, `PracticeInv`, `CabinetInv`) says that the component that is looked at
keeps its own (`U_`, `D_`, `A_`, `B_`; `P_`, `H_`, `R_`; `M_`, `K_`, `O_`, `C_`, `N_`,
`S_`). A component's part has a lemma for its initial states and lemmas for its
actions, one step each.

What an algorithm computes from a sequence of any length is proved as well. Such an
algorithm is written with `Fold` or `Keep` of `Lists`, a loop of `n` steps given as a function
of the number of the step. `ListsProofs` shows that the loop's function exists and is
the only one (`LoopExists`, `LoopOnce`), hence that `Fold` does one step after the
other (`FoldNext`), and from it what a loop keeps (`FoldKeeps`). Induction is by the least
number that fails (`LeastNumber`, `NumbersFrom0`): it takes a set of numbers rather
than an operator, and so can be used. On it rest

- `Keep` (`KeepPicks`, `PicksOnce`, `PicksDistinct`): what is kept are the entries at
  the chosen places, in their order and once each; lists filtered or put in an order are
  instances;
- the segments: after each annotation, what has been cut is the text up to the last
  cut, so that the whole is the text once the rest is added;
- the brief: the annotations gathered rank by rank are all of those ranks, each
  with the place it comes from (`Gathers`); the comments taken from them repeat
  nothing, and one is left out only if it is there already or the list is full;
- the pages of the list, where besides rounding a division up is needed;
- the file, built section by section, each of which is left out or begins with
  its heading and has an entry;
- `O_RoundTrip`: after as many phrases as have been read of a joined line, the parts are
  these phrases.

`SessionsProofs!EndInv` says of every transaction what justifies what it is
about to write: an assigned `completed`, or an inserted evaluation, has an answer
that is committed or its own; with an evaluation goes an end of the session that
is committed, assigned or sent; and what was loaded is bounded by what is
committed now. The last part is stable because answers, evaluations and the end
of a session are never taken back (`Grows`): although `completed` may be
overwritten by `cancelled`, no step leads back to `active`. Each action is then
shown to keep its own transaction justified, and a common lemma (`StepKeeps`)
carries all others over.

Checked by TLC only:

- the liveness properties `RequestsEnd`, `StaleSessionsEnd`, `WaitingEnds`,
  `ProcessingEnds`, `ExpiredIsDowngraded`: fairness and ENABLED are out of the
  prover's reach;
- the violations, which are counterexamples.

## Assumptions

- One account in `Entitlements` and `Subscriptions`: rows of different users
  never meet in a transaction, except in the worker's single commit, where one
  row's failure undoes all; that commit is modelled as `Fail` on one row. The
  worker's `subscriptions` row exists.
- Time is in whole days, which is the grain of every rule; the two hours after
  which a session is stale are the action `Age`, timers of pages are steps that may
  come at any time.
- YooKassa: remembers idempotence keys for ever, settles a payment once, delivers
  events any number of times in any order. Retries have the day in their key.
  Checkouts of credits are in `Entitlements`, those of plans in `Subscriptions`
  and `Entitlements`. Credits cost one payment each, as in the code.
- `MaxDay` in `Subscriptions` stands for every later day as well: runs go on.
- PostgreSQL: READ COMMITTED, one statement sees one snapshot, row locks until
  the end of the transaction, a unique key makes a second INSERT wait for the
  first transaction.
- FastAPI runs `get_db`'s commit after the response and after the background
  tasks, which is what its pinned version does; hence `FindBrief` of `Sessions`
  comes before `Commit`.
- One run of the expiry task at a time. A document deleted meanwhile makes a
  session one without source, which behaves as a `scenario` session.
- Prompts, contents of messages and evaluations, scores, layout: data no property
  tells apart. An AI call is a step that succeeds or fails, an evaluation is one
  with metrics or with none; the extracted text of a document is there or not.
- React: a handler runs to its end; effects run after it, in one step with it
  where they change state at once. A page that is left takes no answer.
- The document limit (`documents_uploaded`), the PDF flag, the payment method's
  title, admin changes of a plan (refused with 403 by the code), calls of
  analytics, and the file's section of an improved text are left out.
- The deletion of an account, which sets the owner of a guest session to null
  and would allow a second conversion, is left out of `Guest`.
- In `Sessions` messages are counted, not ordered; `Rehearsal` has their order.

## Not modelled

| Component | Why |
|---|---|
| Session list and its cache, `cache.py` | a list that lives for a minute, in another store without transactions; a reader may fill it after its invalidation, and the code promises nothing else |
| Reads of the billing API | reads, and a development aid |
| Account provisioning and sign-in | Better Auth's; the race of two first requests is listed as a hazard |
| LLM client | retries and parsing of text; a step that succeeds or fails elsewhere |
| Feedback after a meeting; dashboard, progress, onboarding, settings | single forms, and presentation of what other modules change |
| Landing, legal and static pages | no state |
| Administration; users, campaigns, e-mail | reporting queries, audited changes of single rows, outgoing mail |
| The e-mail fallback of notifications, `worker.py:450-490` | sends nothing yet, and nothing reads the mark it sets |

## Plan

Done: tariff rules, entitlements, subscriptions and sessions with their proofs;
guest rehearsal with its abstract specification, refinement and proof; the
pages of the browser with their routers; proofs of every safety property the
runs check.

Next, by weight:

1. An abstract account of payments and entitlements that `Entitlements` and
   `Subscriptions` implement, for the parts that hold.
2. `Accounts`: the race of two first requests on the unique keys, with the
   recovery the code has.
3. The list cache: read-through with an invalidation before the commit.
