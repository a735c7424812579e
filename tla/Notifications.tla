---------------------------- MODULE Notifications ----------------------------
(* Notifications: their rows, the Redis channel and the web socket that      *)
(* announce them, the cached list of the bell with its polls, and the marks  *)
(* that the bell makes first in its own list.                                *)
EXTENDS Naturals, Sequences, FiniteSets, SequencesExt

CONSTANTS
  Notes,       \* notifications of the user
  Marks,       \* POST /{id}/read and /read-all requests
  TargetsOf,   \* the notifications each of them marks
  Mounts,      \* bound: times the realtime component is mounted
  None

NotificationsAssumption ==
  /\ TargetsOf \in [Marks -> SUBSET Notes \ {{}}]
  /\ Mounts \in Nat \ {0}

VARIABLES
  \* the server
  stored,        \* committed notifications, the newest first
  read,          \* those marked as read
  channel,       \* those published and not yet taken from the channel
  listening,     \* the process still takes messages from the channel
  signedIn,      \* the session cookie is valid
  \* the browser
  mounted,       \* how often the component has been mounted
  present,       \* it is mounted now
  socket,        \* the web socket of each mount
  list,          \* the cached list, or None
  stale,         \* the list is to be fetched again
  fetch,         \* the request for the list: what it has read
  mark,          \* where each mark is
  previous       \* the list each pending mark goes back to

server == <<stored, read, channel, listening, signedIn>>
browser == <<list, stale, fetch, mark, previous>>
vars == <<server, mounted, present, socket, browser>>

Item == [id : Notes, is_read : BOOLEAN]
Idle == [pc |-> "idle", got |-> <<>>]

TypeOK ==
  /\ stored \in Seq(Notes) /\ IsInjective(stored)
  /\ read \subseteq Notes /\ channel \subseteq Notes
  /\ listening \in BOOLEAN /\ signedIn \in BOOLEAN
  /\ mounted \in 0..Mounts /\ present \in BOOLEAN
  /\ socket \in [1..Mounts -> {"off", "connecting", "open", "aborted", "lost", "refused",
                               "closed"}]
  /\ list = None \/ list \in Seq(Item)
  /\ stale \in BOOLEAN
  /\ fetch \in [pc : {"idle", "sent", "read"}, got : Seq(Item)]
  /\ mark \in [Marks -> {"idle", "sent", "applied"}]
  /\ previous \in [Marks -> {None} \cup Seq(Item)]

Init ==
  /\ stored = <<>> /\ read = {} /\ channel = {} /\ listening = TRUE /\ signedIn = TRUE
  /\ mounted = 0 /\ present = FALSE /\ socket = [i \in 1..Mounts |-> "off"]
  /\ list = None /\ stale = TRUE /\ fetch = Idle
  /\ mark = [m \in Marks |-> "idle"] /\ previous = [m \in Marks |-> None]

-----------------------------------------------------------------------------
(* The socket.                                                             *)

SetSocket(i, state) ==
  /\ socket' = [socket EXCEPT ![i] = state]
  /\ UNCHANGED <<server, mounted, browser>>

\* The effect of useWebSocket.
Mount ==
  /\ ~present /\ mounted < Mounts
  /\ mounted' = mounted + 1 /\ present' = TRUE
  /\ socket' = [socket EXCEPT ![mounted + 1] = "connecting"]
  /\ UNCHANGED <<server, browser>>

Accept(i) == socket[i] = "connecting" /\ signedIn /\ SetSocket(i, "open") /\ present' = present

\* The endpoint closes with 1008 before it accepts: the handshake fails, and
\* the browser sees 1006, as if the network were down.
Refuse(i) == socket[i] = "connecting" /\ ~signedIn /\ SetSocket(i, "refused") /\ present' = present

Lose(i) == socket[i] \in {"connecting", "open"} /\ SetSocket(i, "lost") /\ present' = present

\* Five seconds later.
Reconnect(i) == socket[i] \in {"lost", "refused"} /\ SetSocket(i, "connecting") /\ present' = present

\* Clean-up: an open socket is closed with 1000, a timer is cleared; a socket
\* that is still connecting is given up, and its close has another code.
Unmount(i) ==
  /\ present /\ i = mounted
  /\ present' = FALSE
  /\ \/ socket[i] \in {"open", "lost", "refused"} /\ SetSocket(i, "closed")
     \/ socket[i] = "connecting" /\ SetSocket(i, "aborted")

CloseAborted(i) == socket[i] = "aborted" /\ SetSocket(i, "lost") /\ present' = present

-----------------------------------------------------------------------------
(* The server.                                                             *)

\* The row is committed before it is published.
SendNotification(n) ==
  /\ n \notin ToSet(stored)
  /\ stored' = <<n>> \o stored
  /\ channel' = channel \cup {n}
  /\ UNCHANGED <<read, listening, signedIn, mounted, present, socket, browser>>

\* Nothing starts the listener again.
ListenRedisFails ==
  /\ listening
  /\ listening' = FALSE
  /\ UNCHANGED <<stored, read, channel, signedIn, mounted, present, socket, browser>>

SignOut ==
  /\ signedIn
  /\ signedIn' = FALSE
  /\ UNCHANGED <<stored, read, channel, listening, mounted, present, socket, browser>>

\* What no socket is there for is gone.
DropMessage(n) ==
  /\ n \in channel
  /\ ~listening \/ \A i \in 1..Mounts : socket[i] # "open"
  /\ channel' = channel \ {n}
  /\ UNCHANGED <<stored, read, listening, signedIn, mounted, present, socket, browser>>

Items == IF list = None THEN <<>> ELSE list
Listed(items) == {items[k].id : k \in DOMAIN items}

\* Variant: put first without a look at the list.
ReceiveAgain(n) ==
  /\ n \in channel /\ listening
  /\ \E i \in 1..Mounts : socket[i] = "open"
  /\ channel' = channel \ {n}
  /\ list' = <<[id |-> n, is_read |-> FALSE]>> \o Items
  /\ UNCHANGED <<stored, read, listening, signedIn, mounted, present, socket, stale, fetch, mark,
                 previous>>

\* onmessage: put first, unless it is there already.
ReceiveMessage(n) ==
  /\ n \in channel /\ listening
  /\ \E i \in 1..Mounts : socket[i] = "open"
  /\ channel' = channel \ {n}
  /\ list' = IF list = None THEN <<[id |-> n, is_read |-> FALSE]>>
             ELSE IF n \in Listed(list) THEN list
             ELSE <<[id |-> n, is_read |-> FALSE]>> \o list
  /\ UNCHANGED <<stored, read, listening, signedIn, mounted, present, socket, stale, fetch, mark,
                 previous>>

-----------------------------------------------------------------------------
(* The list.                                                               *)

\* On load, when it is stale, and every minute.
FetchNotifications ==
  /\ fetch.pc = "idle"
  /\ fetch' = [Idle EXCEPT !.pc = "sent"]
  /\ UNCHANGED <<server, mounted, present, socket, list, stale, mark, previous>>

GetNotifications ==
  /\ fetch.pc = "sent" /\ signedIn
  /\ fetch' = [pc |-> "read",
               got |-> [k \in DOMAIN stored |->
                          [id |-> stored[k], is_read |-> stored[k] \in read]]]
  /\ UNCHANGED <<server, mounted, present, socket, list, stale, mark, previous>>

ReceiveNotifications ==
  /\ fetch.pc = "read"
  /\ list' = fetch.got /\ stale' = FALSE /\ fetch' = Idle
  /\ UNCHANGED <<server, mounted, present, socket, mark, previous>>

FetchFails ==
  /\ fetch.pc # "idle"
  /\ fetch' = Idle
  /\ UNCHANGED <<server, mounted, present, socket, list, stale, mark, previous>>

-----------------------------------------------------------------------------
(* The bell.                                                               *)

UnreadCount == Len(SelectSeq(Items, LAMBDA item : ~item.is_read))

\* The check mark and the click on an unread item; "read all" while any is
\* unread.
CanMark(m) == \E k \in DOMAIN Items : Items[k].id \in TargetsOf[m] /\ ~Items[k].is_read

\* onMutate: a running fetch is given up, the list kept, then changed.
MarkAsRead(m) ==
  /\ mark[m] = "idle" /\ CanMark(m)
  /\ mark' = [mark EXCEPT ![m] = "sent"]
  /\ previous' = [previous EXCEPT ![m] = list]
  /\ fetch' = Idle
  /\ list' = [k \in DOMAIN list |->
                [list[k] EXCEPT !.is_read = @ \/ list[k].id \in TargetsOf[m]]]
  /\ UNCHANGED <<server, mounted, present, socket, stale>>

ApplyMark(m) ==
  /\ mark[m] = "sent" /\ signedIn
  /\ mark' = [mark EXCEPT ![m] = "applied"]
  /\ read' = read \cup (TargetsOf[m] \cap ToSet(stored))
  /\ UNCHANGED <<stored, channel, listening, signedIn, mounted, present, socket, list, stale, fetch,
                 previous>>

\* Variant: the list is not fetched again.
SettledAsShown(m) ==
  /\ mark' = [mark EXCEPT ![m] = "idle"]
  /\ previous' = [previous EXCEPT ![m] = None]
  /\ UNCHANGED <<stale, fetch>>

\* onSettled: the list is stale, and a running fetch begins again.
Settled(m) ==
  /\ mark' = [mark EXCEPT ![m] = "idle"]
  /\ previous' = [previous EXCEPT ![m] = None]
  /\ stale' = TRUE /\ fetch' = [Idle EXCEPT !.pc = "sent"]

MarkSucceeds(m) ==
  /\ mark[m] = "applied"
  /\ Settled(m)
  /\ UNCHANGED <<server, mounted, present, socket, list>>

\* onError: the list is put back as it was then.
MarkFails(m) ==
  /\ mark[m] # "idle"
  /\ list' = previous[m]
  /\ Settled(m)
  /\ UNCHANGED <<server, mounted, present, socket>>

Next ==
  \/ \E n \in Notes : SendNotification(n) \/ DropMessage(n) \/ ReceiveMessage(n)
  \/ \E i \in 1..Mounts :
       Accept(i) \/ Refuse(i) \/ Lose(i) \/ Reconnect(i) \/ Unmount(i) \/ CloseAborted(i)
  \/ Mount \/ ListenRedisFails \/ SignOut
  \/ FetchNotifications \/ GetNotifications \/ ReceiveNotifications \/ FetchFails
  \/ \E m \in Marks : MarkAsRead(m) \/ ApplyMark(m) \/ MarkSucceeds(m) \/ MarkFails(m)

Spec == Init /\ [][Next]_vars

-----------------------------------------------------------------------------
(* Properties.                                                             *)

\* The list never has a notification twice, though it comes by fetch, by
\* socket and by the undoing of a mark (useWebSocket.ts:43-49,
\* NotificationsPopover.tsx:69-112).
ListedOnce ==
  /\ Cardinality(Listed(Items)) = Len(Items)
  /\ Listed(Items) \subseteq ToSet(stored)

\* What the list shows as read is read, unless a mark is on its way or the
\* list is known to be stale: overlapping marks of which some fail do not
\* leave a lie behind (NotificationsPopover.tsx:69-112).
ShownReadIsRead ==
  \A k \in DOMAIN Items :
    Items[k].is_read /\ Items[k].id \notin read =>
      stale \/ \E m \in Marks : mark[m] # "idle"
=============================================================================
