--------------------------- MODULE LinkSubscriber ---------------------------
(***************************************************************************)
(* The link subscriber between the kernel's links and the daemon's event   *)
(* loop: a snapshot after the subscription, then for every notification a  *)
(* fresh read of the link it names, reported when it differs from the last *)
(* report.  The netlink library's receiver is a goroutine of its own: it   *)
(* moves messages from the socket into a bounded channel, and sends        *)
(* without looking at done.                                                *)
(***************************************************************************)
EXTENDS Naturals, Sequences, SequencesExt

CONSTANTS
    Watched,        \* interfaces of the configured WANs
    Links,          \* what a live link can be: [lowerUp, operstate]
    Missing,        \* no link has this name
    NoReport,       \* nothing was reported or remembered
    SocketCapacity, \* messages the socket holds before ENOBUFS
    UpdateBuffer,   \* capacity of the library's update channel
    OutCapacity,    \* capacity of the LinkEvent channel
    DumpAttempts,   \* reads of the snapshot dump before giving up
    MaxChanges      \* bound on the kernel's changes, for model checking

VARIABLES
    link,       \* kernel: each watched name's link, or Missing
    socket,     \* kernel: notifications not yet received
    overrun,    \* kernel: a notification did not fit (ENOBUFS)
    receiver,   \* library: off, receiving, sending, closed
    inflight,   \* library: the message being sent into updates
    updates,    \* the update channel
    done,       \* done was closed
    cancelled,  \* the daemon's context ended
    pc,         \* off, snapshot, idle, send, draining, exited
    attempt,    \* the read of the snapshot dump
    state,      \* the subscriber's map of what it saw last
    event,      \* the LinkEvent in hand
    out,        \* the LinkEvent channel
    view,       \* the daemon: what it was told last
    since,      \* history: what the link was since the last read
    changes

lib == <<receiver, inflight>>
vars == <<link, socket, overrun, lib, updates, done, cancelled, pc, attempt, state, event, out,
          view, since, changes>>

Gone == [carrier |-> "down", operstate |-> "notpresent"]
CarrierFromFlags(l) == IF l.lowerUp THEN "up" ELSE "down"
Report(l) == IF l = Missing THEN Gone
             ELSE [carrier |-> CarrierFromFlags(l), operstate |-> l.operstate]
NoEvent == <<>>

(* The kernel shows notpresent for no live link.                           *)
LinkSubscriberAssumption ==
    /\ \A l \in Links : l.lowerUp \in BOOLEAN /\ l.operstate # "notpresent"
    /\ Missing \notin Links
    /\ \A l \in Links \cup {Missing} : Report(l) # NoReport
    /\ {SocketCapacity, UpdateBuffer, OutCapacity, DumpAttempts} \subseteq Nat \ {0}
    /\ MaxChanges \in Nat

(***************************************************************************)
(* handleUpdate: what the map holds after seeing link l, and whether that  *)
(* is reported.                                                            *)
(***************************************************************************)
Remembered(l) == IF l = Missing THEN NoReport ELSE Report(l)

(* Slip: a vanished link is not reported.                                  *)
EmitsLive(seen, l) == l # Missing /\ seen # Remembered(l)

(* Slip: a read is reported although it shows nothing new.                 *)
EmitsAlways(seen, l) == seen # NoReport \/ l # Missing

Emits(seen, l) == seen # Remembered(l)

(***************************************************************************)
(* Kernel and library.                                                     *)
(***************************************************************************)
(* A message that does not fit is lost and fails the next receive.         *)
ChangeLink(i, l) ==
    /\ changes < MaxChanges
    /\ link[i] # l
    /\ link' = [link EXCEPT ![i] = l]
    /\ since' = [since EXCEPT ![i] = @ \cup {Report(l)}]
    /\ changes' = changes + 1
    /\ \/ receiver \in {"off", "closed"} /\ UNCHANGED <<socket, overrun>>
       \/ /\ receiver \in {"receiving", "sending"}
          /\ Len(socket) < SocketCapacity
          /\ socket' = Append(socket, [name |-> i, link |-> l])
          /\ UNCHANGED overrun
       \/ /\ receiver \in {"receiving", "sending"}
          /\ Len(socket) = SocketCapacity
          /\ overrun' = TRUE
          /\ UNCHANGED socket
    /\ UNCHANGED <<lib, updates, done, cancelled, pc, attempt, state, event, out, view>>

Receive ==
    /\ receiver = "receiving"
    /\ \/ /\ ~done /\ ~overrun /\ socket # <<>>
          /\ inflight' = Head(socket)
          /\ socket' = Tail(socket)
          /\ receiver' = "sending"
       \/ /\ done \/ overrun
          /\ receiver' = "closed"
          /\ UNCHANGED <<socket, inflight>>
    /\ UNCHANGED <<link, overrun, updates, done, cancelled, pc, attempt, state, event, out,
                   view, since, changes>>

Forward ==
    /\ receiver = "sending"
    /\ Len(updates) < UpdateBuffer
    /\ updates' = Append(updates, inflight)
    /\ receiver' = "receiving"
    /\ UNCHANGED <<link, socket, overrun, inflight, done, cancelled, pc, attempt, state, event, out,
                   view, since, changes>>

(***************************************************************************)
(* The subscriber.                                                         *)
(***************************************************************************)
Subscribe ==
    /\ pc = "off"
    /\ pc' = "snapshot"
    /\ receiver' = "receiving"
    /\ UNCHANGED <<link, socket, overrun, inflight, updates, done, cancelled, attempt, state, event,
                   out, view, since, changes>>

(* Slip: done is closed, and the update channel left as it is.             *)
StopUndrained(why) ==
    /\ why
    /\ pc' = "exited"
    /\ done' = TRUE
    /\ event' = NoEvent
    /\ UNCHANGED <<link, socket, overrun, lib, updates, cancelled, attempt, state, out, view, since,
                   changes>>

(* Every way out of StartWith or runLoop ends in closeAndDrain.            *)
Stop(why) ==
    /\ why
    /\ pc' = "draining"
    /\ done' = TRUE
    /\ event' = NoEvent
    /\ UNCHANGED <<link, socket, overrun, lib, updates, cancelled, attempt, state, out, view, since,
                   changes>>

DrainUpdates ==
    /\ pc = "draining"
    /\ \/ updates # <<>> /\ updates' = Tail(updates) /\ UNCHANGED pc
       \/ updates = <<>> /\ receiver = "closed" /\ pc' = "exited" /\ UNCHANGED updates
    /\ UNCHANGED <<link, socket, overrun, lib, done, cancelled, attempt, state, event, out, view,
                   since, changes>>

(* An interrupted dump is read again, up to DumpAttempts times; any other  *)
(* error ends the subscriber at once, as does cancellation in between.     *)
DumpFails ==
    /\ pc = "snapshot"
    /\ \/ attempt < DumpAttempts /\ ~cancelled /\ attempt' = attempt + 1
          /\ UNCHANGED <<link, socket, overrun, lib, updates, done, cancelled, pc, state, event, out,
                         view, since, changes>>
       \/ Stop(TRUE) /\ UNCHANGED attempt

(* The snapshot is returned to the daemon, which folds it before its event *)
(* loop starts.  A name without a link is not in the dump.                 *)
ReadSnapshot ==
    /\ pc = "snapshot"
    /\ \/ /\ ~cancelled
          /\ pc' = "idle"
          /\ state' = [i \in Watched |-> Remembered(link[i])]
          /\ view' = state'
          /\ since' = [i \in Watched |-> {Report(link[i])}]
          /\ UNCHANGED <<link, socket, overrun, lib, updates, done, cancelled, attempt, event, out,
                         changes>>
       \/ Stop(cancelled)

(* Slip: the notification's own link is believed, however old it is.       *)
ReadLinkQueued(msg) == msg.link
ReadLink(msg) == link[msg.name]

Reconcile ==
    /\ pc = "idle"
    /\ updates # <<>>
    /\ LET msg == Head(updates)
           i == msg.name
           l == ReadLink(msg)
       IN  \/ /\ ~cancelled
              /\ updates' = Tail(updates)
              /\ state' = [state EXCEPT ![i] = Remembered(l)]
              /\ event' = IF Emits(state[i], l) THEN <<i, Report(l)>> ELSE NoEvent
              /\ pc' = IF event' = NoEvent THEN "idle" ELSE "send"
              /\ UNCHANGED <<link, socket, overrun, lib, done, cancelled, attempt, out, view,
                             since, changes>>
           \/ Stop(TRUE) \* the read fails, or cancellation is noticed before it

Send ==
    /\ pc = "send"
    /\ Len(out) < OutCapacity
    /\ out' = Append(out, event)
    /\ since' = [since EXCEPT ![event[1]] = {Report(link[event[1]])}]
    /\ event' = NoEvent
    /\ pc' = "idle"
    /\ UNCHANGED <<link, socket, overrun, lib, updates, done, cancelled, attempt, state, view, changes>>

NoticeEnd ==
    Stop(\/ cancelled /\ pc \in {"idle", "send"}
         \/ pc = "idle" /\ updates = <<>> /\ receiver = "closed")

(***************************************************************************)
(* The daemon.                                                             *)
(***************************************************************************)
Observe ==
    /\ ~cancelled
    /\ out # <<>>
    /\ view' = [view EXCEPT ![Head(out)[1]] = Head(out)[2]]
    /\ out' = Tail(out)
    /\ UNCHANGED <<link, socket, overrun, lib, updates, done, cancelled, pc, attempt, state, event,
                   since, changes>>

Cancel ==
    /\ ~cancelled
    /\ cancelled' = TRUE
    /\ UNCHANGED <<link, socket, overrun, lib, updates, done, pc, attempt, state, event, out, view,
                   since, changes>>

(***************************************************************************)
(* Specification.                                                          *)
(***************************************************************************)
Init ==
    /\ link \in [Watched -> Links \cup {Missing}]
    /\ socket = <<>> /\ overrun = FALSE /\ receiver = "off" /\ inflight = NoEvent /\ updates = <<>>
    /\ done = FALSE /\ cancelled = FALSE
    /\ pc = "off" /\ attempt = 1
    /\ state = [i \in Watched |-> NoReport] /\ event = NoEvent /\ out = <<>>
    /\ view = [i \in Watched |-> NoReport]
    /\ since = [i \in Watched |-> {Report(link[i])}]
    /\ changes = 0

SubscriberStep ==
    Subscribe \/ DumpFails \/ ReadSnapshot \/ Reconcile \/ Send \/ NoticeEnd
        \/ DrainUpdates

Next ==
    \/ \E i \in Watched, l \in Links \cup {Missing} : ChangeLink(i, l)
    \/ Receive \/ Forward
    \/ SubscriberStep
    \/ Observe \/ Cancel

(* The goroutines of the library, the subscriber and the event loop run.   *)
Fairness == WF_vars(Receive \/ Forward) /\ WF_vars(SubscriberStep) /\ WF_vars(Observe)

Spec == Init /\ [][Next]_vars /\ Fairness

(***************************************************************************)
(* Properties.                                                             *)
(***************************************************************************)
Quiet == /\ pc = "idle" /\ receiver = "receiving" /\ ~overrun
         /\ socket = <<>> /\ updates = <<>> /\ out = <<>>

(* When every notification is worked off, the daemon was told of every     *)
(* watched link's current carrier and operstate, a vanished link included  *)
(* (LinkSubscriber.StartWith, handleUpdate).  A link it never saw is the   *)
(* only one it was told nothing of.                                        *)
ViewAgrees ==
    Quiet => \A i \in Watched :
        \/ view[i] = Report(link[i])
        \/ view[i] = NoReport /\ link[i] = Missing

LastTold(i) ==
    LET mine == {k \in DOMAIN out : out[k][1] = i}
    IN  IF mine = {} THEN view[i] ELSE out[Max(mine)][2]

(* Every event is news: it differs from the report before it, so that a    *)
(* consumer may take it as a real change, and it tells of a state that the *)
(* link had since then, so that queued notifications replay no flap that   *)
(* is over (runLoop, reconcileVia, handleUpdate).                          *)
EventsAreNews ==
    [][Len(out') > Len(out) =>
          LET e == Last(out')
          IN  e[2] # LastTold(e[1]) /\ e[2] \in since[e[1]]]_vars

(* After cancellation or the end of the subscription the subscriber exits  *)
(* and the library's receiver ends too, even when it was blocked on a full *)
(* update channel (closeAndDrain).                                         *)
StopsCleanly ==
    (cancelled \/ receiver = "closed") ~> (pc = "exited" /\ receiver = "closed")
=============================================================================
