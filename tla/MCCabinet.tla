----------------------------- MODULE MCCabinet -----------------------------
(* The pages around the rehearsals, side by side: payment, calendar of      *)
(* meetings, own opponents, catalogue of scenarios, notifications, push.     *)
EXTENDS Checkout, TLC, Integers, Sequences

CONSTANTS
  \* the meetings
  Meets, Titles, MaxDate, Offset,
  \* the own opponents
  People, Ages, Words, Lines, Comma, Blank,
  \* the catalogue
  Slugs, Embedded, Served, Clients, Investors, Qbrs, Roadmaps, WEDGE_SCENARIO_SLUG,
  \* the notifications
  Notes, Marks, TargetsOf, Mounts,
  \* the push messages
  Users, UserOf, Tasks,
  \* what the instances below are built from
  p1, p2, w, wedge, client, people, n1, n2, one, all, u1

Offered == [p \in {p1, p2} |-> IF p = p1 THEN "per_session" ELSE "pro"]

SomeLines == {<<w, Comma, Blank, Blank, w>>}

SomeEmbedded == wedge :> "roadmap" @@ client :> "clients"
SomeServed == wedge :> "roadmap" @@ people :> "people"

SomeTargets == [m \in {one, all} |-> IF m = one THEN {n1} ELSE {n1, n2}]
SomeUsers == [t \in Tasks |-> u1]

Symmetry == Permutations(Fetches)

VARIABLES
  focus,
  meetingsList, modalOpen, meetingsEditing, meetingsForm, meetingsSent,
  meetingsDeletions, meetingsRow, meetingsFlushed, meetingsRemoving,
  meetingsBegun,
  personasList, showForm, personasEditing, personasForm, deleting,
  personasSent, personasDeletions, personasRow, personasFlushed,
  personasRemoving, personasBegun,
  catalogPlace, tab, catalogList, loading, fallback, asked, scenario,
  standIn, pressure, starts, handed,
  stored, read, channel, listening, signedIn, mounted, present, socket,
  notificationsList, stale, notificationsFetch, mark, previous,
  user, permission, seen, prompted, suppressed, isVisible, timer, asking,
  endpoint, subscribing, owner, task

M == INSTANCE Meetings WITH
  list <- meetingsList, editing <- meetingsEditing, form <- meetingsForm,
  sent <- meetingsSent, deletions <- meetingsDeletions, row <- meetingsRow,
  flushed <- meetingsFlushed, removing <- meetingsRemoving,
  begun <- meetingsBegun
O == INSTANCE Personas WITH
  list <- personasList, editing <- personasEditing, form <- personasForm,
  sent <- personasSent, deletions <- personasDeletions, row <- personasRow,
  flushed <- personasFlushed, removing <- personasRemoving,
  begun <- personasBegun
C == INSTANCE Catalog WITH
  place <- catalogPlace, list <- catalogList
N == INSTANCE Notifications WITH
  list <- notificationsList, fetch <- notificationsFetch
S == INSTANCE Push

meetingsVars == <<meetingsList, modalOpen, meetingsEditing, meetingsForm,
                  meetingsSent, meetingsDeletions, meetingsRow,
                  meetingsFlushed, meetingsRemoving, meetingsBegun>>
personasVars == <<personasList, showForm, personasEditing, personasForm,
                  deleting, personasSent, personasDeletions, personasRow,
                  personasFlushed, personasRemoving, personasBegun>>
catalogVars == <<catalogPlace, tab, catalogList, loading, fallback, asked,
                 scenario, standIn, pressure, starts, handed>>
notificationsVars == <<stored, read, channel, listening, signedIn, mounted,
                       present, socket, notificationsList, stale,
                       notificationsFetch, mark, previous>>
pushVars == <<user, permission, seen, prompted, suppressed, isVisible, timer,
              asking, endpoint, subscribing, owner, task>>

ASSUME Assumptions ==
  /\ CheckoutAssumption
  /\ M!MeetingsAssumption
  /\ O!PersonasAssumption
  /\ C!CatalogAssumption
  /\ N!NotificationsAssumption
  /\ S!PushAssumption

\* A component that is not looked at has no state; the checkout waits in an
\* initial one.
NoCheckout == Init /\ account = [plan |-> "free", active |-> FALSE, credits |-> 0]
NoMeetings ==
  /\ meetingsList = None /\ modalOpen = None
  /\ meetingsEditing = None /\ meetingsForm = None /\ meetingsSent = None
  /\ meetingsDeletions = None /\ meetingsRow = None /\ meetingsFlushed = None
  /\ meetingsRemoving = None /\ meetingsBegun = None
NoPersonas ==
  /\ personasList = None /\ showForm = None
  /\ personasEditing = None /\ personasForm = None /\ deleting = None
  /\ personasSent = None /\ personasDeletions = None /\ personasRow = None
  /\ personasFlushed = None /\ personasRemoving = None /\ personasBegun = None
NoCatalog ==
  /\ catalogPlace = None /\ tab = None /\ catalogList = None
  /\ loading = None /\ fallback = None /\ asked = None /\ scenario = None
  /\ standIn = None /\ pressure = None /\ starts = None /\ handed = None
NoNotifications ==
  /\ stored = None /\ read = None /\ channel = None
  /\ listening = None /\ signedIn = None /\ mounted = None /\ present = None
  /\ socket = None /\ notificationsList = None /\ stale = None
  /\ notificationsFetch = None /\ mark = None /\ previous = None
NoPush ==
  /\ user = None /\ permission = None /\ seen = None
  /\ prompted = None /\ suppressed = None /\ isVisible = None /\ timer = None
  /\ asking = None /\ endpoint = None /\ subscribing = None /\ owner = None
  /\ task = None

\* Which component is looked at.
CabinetInit ==
  \/ /\ focus = "checkout" /\ Init /\ NoMeetings /\ NoPersonas /\ NoCatalog
     /\ NoNotifications /\ NoPush
  \/ /\ focus = "meetings" /\ M!Init /\ NoCheckout /\ NoPersonas /\ NoCatalog
     /\ NoNotifications /\ NoPush
  \/ /\ focus = "personas" /\ O!Init /\ NoCheckout /\ NoMeetings /\ NoCatalog
     /\ NoNotifications /\ NoPush
  \/ /\ focus = "catalog" /\ C!Init /\ NoCheckout /\ NoMeetings /\ NoPersonas
     /\ NoNotifications /\ NoPush
  \/ /\ focus = "notifications" /\ N!Init /\ NoCheckout /\ NoMeetings
     /\ NoPersonas /\ NoCatalog /\ NoPush
  \/ /\ focus = "push" /\ S!Init /\ NoCheckout /\ NoMeetings /\ NoPersonas
     /\ NoCatalog /\ NoNotifications

CabinetNext ==
  \/ /\ focus = "checkout" /\ Next
     /\ UNCHANGED <<focus, meetingsVars, personasVars, catalogVars, notificationsVars, pushVars>>
  \/ /\ focus = "meetings" /\ M!Next
     /\ UNCHANGED <<focus, vars, personasVars, catalogVars, notificationsVars, pushVars>>
  \/ /\ focus = "personas" /\ O!Next
     /\ UNCHANGED <<focus, vars, meetingsVars, catalogVars, notificationsVars, pushVars>>
  \/ /\ focus = "catalog" /\ C!Next
     /\ UNCHANGED <<focus, vars, meetingsVars, personasVars, notificationsVars, pushVars>>
  \/ /\ focus = "notifications" /\ N!Next
     /\ UNCHANGED <<focus, vars, meetingsVars, personasVars, catalogVars, pushVars>>
  \/ /\ focus = "push" /\ S!Next
     /\ UNCHANGED <<focus, vars, meetingsVars, personasVars, catalogVars, notificationsVars>>

cabinetVars == <<focus, vars, meetingsVars, personasVars, catalogVars, notificationsVars, pushVars>>

CabinetSpec == CabinetInit /\ [][CabinetNext]_cabinetVars

\* Every variable of the component that is looked at has its type.
TypesOK ==
  /\ focus = "checkout" => TypeOK
  /\ focus = "meetings" => M!TypeOK
  /\ focus = "personas" => O!TypeOK
  /\ focus = "catalog" => C!TypeOK
  /\ focus = "notifications" => N!TypeOK
  /\ focus = "push" => S!TypeOK

\* A form is saved into the meeting it was filled from (Meetings).
SavedIntoItsOwn == focus = "meetings" => M!SavedIntoItsOwn

\* An opponent saved untouched stays as it was (Personas).
UntouchedIsUnchanged == focus = "personas" => O!UntouchedIsUnchanged

\* The list that arrives is that of the chosen tab (Catalog).
ListIsOfItsTab == C!ListIsOfItsTab

\* The bell has each notification once (Notifications).
ListedOnce == focus = "notifications" => N!ListedOnce

\* What the bell shows as read is read, or about to be fetched (Notifications).
ShownReadIsRead == focus = "notifications" => N!ShownReadIsRead

\* Who has answered the browser is not asked again (Push).
AnsweredIsNotAsked == focus = "push" => S!AnsweredIsNotAsked
============================================================================
