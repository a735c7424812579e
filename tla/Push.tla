-------------------------------- MODULE Push --------------------------------
(* Web push: the dialog that offers it, the hook that subscribes the browser *)
(* and repairs a lost subscription, the rows of the endpoints, the sending   *)
(* task.  Two users may share a browser.                                     *)
EXTENDS Naturals, FiniteSets

CONSTANTS
  Users,
  Tasks,     \* notifications to be sent, one of a user each
  UserOf,
  None

PushAssumption == UserOf \in [Tasks -> Users] /\ None \notin Users

VARIABLES
  \* the browser
  user,          \* who is signed in
  permission,    \* what the browser lets the site do
  seen,          \* the permission as the dialog's hook knows it
  prompted,      \* dismissed in the last three days
  suppressed,    \* the page is one on which the dialog stays away
  isVisible,
  timer,         \* ten seconds run
  asking,        \* handleAllow waits for the browser's own question
  endpoint,      \* the browser's subscription exists
  subscribing,   \* why the hook is subscribing: allow, repair, or no
  \* the server
  owner,         \* the user the endpoint's row is for, or None
  task           \* what each sending task has found

dialog == <<prompted, suppressed, isVisible, timer>>
vars == <<user, permission, seen, dialog, asking, endpoint, subscribing, owner, task>>

Permission == {"default", "granted", "denied"}

TypeOK ==
  /\ user \in Users
  /\ permission \in Permission /\ seen \in Permission
  /\ prompted \in BOOLEAN /\ suppressed \in BOOLEAN
  /\ isVisible \in BOOLEAN /\ timer \in BOOLEAN /\ asking \in BOOLEAN
  /\ endpoint \in BOOLEAN /\ subscribing \in {"no", "allow", "repair"}
  /\ owner \in Users \cup {None}
  /\ task \in [Tasks -> {"queued", "loaded", "done"}]

\* Variant: the permission is not looked at.
WantedUnanswered(route, known, date) == ~route /\ ~date

\* The effect of the dialog: a timer, unless the route, the permission or the
\* date of the last prompt says no.
Wanted(route, known, date) == ~route /\ known = "default" /\ ~date

Init ==
  /\ user \in Users /\ permission = "default" /\ seen = "default"
  /\ prompted \in BOOLEAN /\ suppressed \in BOOLEAN /\ isVisible = FALSE
  /\ timer = Wanted(suppressed, "default", prompted)
  /\ asking = FALSE /\ endpoint = FALSE /\ subscribing = "no"
  /\ owner = None /\ task = [t \in Tasks |-> "queued"]

-----------------------------------------------------------------------------
(* The dialog.                                                             *)

DialogShown == isVisible /\ ~suppressed

\* The effect runs again only when this test of the route changes; what is
\* visible stays so.
Navigate ==
  /\ suppressed' = ~suppressed
  /\ timer' = Wanted(suppressed', seen, prompted)
  /\ UNCHANGED <<user, permission, seen, prompted, isVisible, asking, endpoint,
                 subscribing, owner, task>>

TimerFires ==
  /\ timer
  /\ timer' = FALSE /\ isVisible' = TRUE
  /\ UNCHANGED <<user, permission, seen, prompted, suppressed, asking, endpoint,
                 subscribing, owner, task>>

HandleDismiss ==
  /\ DialogShown
  /\ isVisible' = FALSE /\ prompted' = TRUE
  /\ UNCHANGED <<user, permission, seen, suppressed, timer, asking, endpoint,
                 subscribing, owner, task>>

HandleAllow ==
  /\ DialogShown /\ ~asking /\ subscribing # "allow"
  /\ asking' = TRUE
  /\ UNCHANGED <<user, permission, seen, dialog, endpoint, subscribing, owner, task>>

\* requestPermission answers at once if the question was decided before.
AnswerPermission(answer) ==
  /\ asking
  /\ permission = "default" \/ answer = permission
  /\ asking' = FALSE
  /\ permission' = answer /\ seen' = answer
  /\ timer' = (IF answer = seen THEN timer ELSE FALSE)
  /\ IF answer = "granted"
     THEN subscribing' = "allow" /\ UNCHANGED <<isVisible, prompted>>
     ELSE isVisible' = FALSE /\ prompted' = TRUE /\ UNCHANGED subscribing
  /\ UNCHANGED <<user, suppressed, endpoint, owner, task>>

-----------------------------------------------------------------------------
(* The hook.                                                               *)

\* On load, or after another user has signed in: repair what is missing.
Load(u) ==
  /\ user' = u
  /\ seen' = permission
  /\ isVisible' = FALSE /\ asking' = FALSE
  /\ timer' = Wanted(suppressed, permission, prompted)
  /\ subscribing' = IF ~endpoint /\ permission = "granted" THEN "repair" ELSE "no"
  /\ UNCHANGED <<permission, prompted, suppressed, endpoint, owner, task>>

\* The browser's subscription, an existing one if there is; a row by its user
\* and endpoint.  The endpoint is unique: another user's row refuses it.
SubscribeBrowserToPush ==
  /\ subscribing # "no"
  /\ endpoint' = TRUE
  /\ owner \in {None, user}
  /\ owner' = user
  /\ isVisible' = IF subscribing = "allow" THEN FALSE ELSE isVisible
  /\ subscribing' = "no"
  /\ UNCHANGED <<user, permission, seen, prompted, suppressed, timer, asking, task>>

\* No key, no service worker, a refused or lost request; the browser may be
\* subscribed by then.
SubscribeFails ==
  /\ subscribing # "no"
  /\ endpoint' \in {endpoint, TRUE}
  /\ IF subscribing = "allow"
     THEN isVisible' = FALSE /\ prompted' = TRUE
     ELSE UNCHANGED <<isVisible, prompted>>
  /\ subscribing' = "no"
  /\ UNCHANGED <<user, permission, seen, suppressed, timer, asking, owner, task>>

\* The user changes the site's settings; the date grows old; the browser drops
\* its subscription.
SettingsChange ==
  /\ permission' \in Permission \ {permission}
  /\ endpoint' = (endpoint /\ permission' = "granted")
  /\ UNCHANGED <<user, seen, dialog, asking, subscribing, owner, task>>

DateGrowsOld ==
  /\ prompted /\ prompted' = FALSE
  /\ UNCHANGED <<user, permission, seen, suppressed, isVisible, timer, asking,
                 endpoint, subscribing, owner, task>>

-----------------------------------------------------------------------------
(* send_web_push_task.                                                     *)

LoadSubscriptions(t) ==
  /\ task[t] = "queued"
  /\ task' = [task EXCEPT ![t] = IF owner = UserOf[t] THEN "loaded" ELSE "done"]
  /\ UNCHANGED <<user, permission, seen, dialog, asking, endpoint, subscribing, owner>>

\* A subscription that is gone answers 404 or 410: its row is deleted.
SendWebPush(t) ==
  /\ task[t] = "loaded"
  /\ task' = [task EXCEPT ![t] = "done"]
  /\ owner' = IF endpoint \/ owner # UserOf[t] THEN owner ELSE None
  /\ UNCHANGED <<user, permission, seen, dialog, asking, endpoint, subscribing>>

Next ==
  \/ Navigate \/ TimerFires \/ HandleDismiss \/ HandleAllow
  \/ \E answer \in Permission : AnswerPermission(answer)
  \/ \E u \in Users : Load(u)
  \/ SubscribeBrowserToPush \/ SubscribeFails \/ SettingsChange \/ DateGrowsOld
  \/ \E t \in Tasks : LoadSubscriptions(t) \/ SendWebPush(t)

Spec == Init /\ [][Next]_vars

-----------------------------------------------------------------------------
(* Properties.                                                             *)

\* Whoever has answered the browser's question is not offered it again, on any
\* route and after any reload; only a change behind the page's back, which the
\* hook does not see, comes between (PushPromoDialog.tsx:28-44).
AnsweredIsNotAsked ==
  DialogShown => permission = "default" \/ seen # permission
                   \/ subscribing = "allow"
=============================================================================
