---------------------------- MODULE HookDelivery ----------------------------
(***************************************************************************)
(* HookNotifier and hookRunner: the event loop submits Decisions, one      *)
(* worker runs their Hooks, and Close waits for the worker.  A Hook is a   *)
(* process in a group of its own, killed with its group at its deadline or *)
(* when the daemon stops.  A Hook may hang, and may leave a child behind   *)
(* that holds its output pipe, in its group or escaped from it.            *)
(***************************************************************************)
EXTENDS Integers, Sequences, SequencesExt

CONSTANTS
    QueueCapacity,  \* hookQueueCapacity, 32 in the code
    MaxHooks,       \* maxHooksPerEvent, 8 in the code
    MaxFiles,       \* bound on the executables of an event directory
    MaxEvents       \* bound on the Decisions submitted, for model checking

ASSUME HookAssumption == {QueueCapacity, MaxHooks, MaxFiles, MaxEvents} \subseteq Nat \ {0}

VARIABLES
    cancelled,  \* the daemon's context ended
    mu,         \* the notifier's mutex is held
    notifier,   \* idle, sending: the event loop's call of Notify
    submitted,  \* Decisions handed to Notify
    closed,     \* Close was called
    jobs,       \* the queue
    closer,     \* idle, waiting, returned: a call of Close
    accepted,   \* history: Decisions that Notify accepted
    worker,     \* none, select, files, wait, drain, done
    begun,      \* history: Decisions whose Hooks the worker took up
    files,      \* executables found for the current event
    at,         \* the file to run next
    outcome,    \* outcome of the last Hook
    proc,       \* none, forked, grouped, exited, reaped: the Hook's process
    code,       \* its exit: 0, 1, or -1 when a signal killed it
    child,      \* none, group, escaped: a child that holds the pipe
    deadline,   \* the Hook's timer fired
    watch,      \* off, on, missed, fired, direct, refused: the watcher of the context
    late,       \* history: the child entered its group after the group kill missed it
    err         \* none, exit, ctx, kill, delay: what cmd.Run is about to return

queue == <<mu, notifier, submitted, closed, jobs, closer, accepted>>
event == <<begun, files, at, outcome>>
process == <<proc, code, child, deadline, watch, late, err>>
vars == <<cancelled, queue, worker, event, process>>

Init ==
    /\ cancelled = FALSE /\ closed = FALSE
    /\ mu = FALSE /\ notifier = "idle" /\ closer = "idle" /\ worker = "none"
    /\ submitted = 0 /\ jobs = <<>> /\ accepted = <<>> /\ begun = <<>>
    /\ files = 0 /\ at = 1 /\ outcome = "none"
    /\ proc = "none" /\ code = 0 /\ child = "none"
    /\ deadline = FALSE /\ watch = "off" /\ late = FALSE /\ err = "none"

(* SIGTERM or a fatal error ends the daemon's context.                     *)
Cancel ==
    /\ ~cancelled
    /\ cancelled' = TRUE
    /\ UNCHANGED <<queue, worker, event, process>>

(***************************************************************************)
(* Notify holds the mutex from its check to its send.  The first accepted  *)
(* notification starts the worker.  A send on a closed channel panics.     *)
(***************************************************************************)
NotifyEnter ==
    /\ ~mu /\ notifier = "idle" /\ submitted < MaxEvents
    /\ submitted' = submitted + 1
    /\ IF closed \/ cancelled
         THEN UNCHANGED <<mu, notifier, worker>>
         ELSE /\ mu' = TRUE
              /\ notifier' = "sending"
              /\ worker' = IF worker = "none" THEN "select" ELSE worker
    /\ UNCHANGED <<cancelled, closed, jobs, closer, accepted, event, process>>

(* Slip: the newest event goes ahead of the events that wait.              *)
EnqueueFirst(q, e) == IF Len(q) < QueueCapacity THEN <<e>> \o q ELSE q

Enqueue(q, e) == IF Len(q) < QueueCapacity THEN Append(q, e) ELSE q

NotifySend ==
    /\ notifier = "sending"
    /\ jobs' = Enqueue(jobs, submitted)
    /\ accepted' = IF jobs' = jobs THEN accepted ELSE Append(accepted, submitted)
    /\ notifier' = "idle"
    /\ mu' = FALSE
    /\ UNCHANGED <<cancelled, submitted, closed, closer, worker, event, process>>

(***************************************************************************)
(* Close, under the mutex, closes the channel once and then waits for the  *)
(* worker, if one was started.                                             *)
(***************************************************************************)
(* Slip: Close does not take the mutex.                                    *)
CloseEnterUnlocked ==
    /\ closer # "waiting"
    /\ closed' = TRUE
    /\ closer' = IF worker = "none" THEN "returned" ELSE "waiting"
    /\ UNCHANGED <<cancelled, mu, notifier, submitted, jobs, accepted, worker, event, process>>

CloseEnter ==
    /\ ~mu /\ closer # "waiting"
    /\ closed' = TRUE
    /\ closer' = IF worker = "none" THEN "returned" ELSE "waiting"
    /\ UNCHANGED <<cancelled, mu, notifier, submitted, jobs, accepted, worker, event, process>>

CloseReturn ==
    /\ closer = "waiting" /\ worker = "done"
    /\ closer' = "returned"
    /\ UNCHANGED <<cancelled, mu, notifier, submitted, closed, jobs, accepted, worker, event,
                   process>>

(***************************************************************************)
(* deliver: a select between the ended context and the channel, which      *)
(* yields its buffered events before it reports that it is closed.         *)
(***************************************************************************)
(* Slip: the worker stops as soon as Close was called.                     *)
StopsWhenClosed == cancelled \/ closed

Stops == cancelled \/ (closed /\ jobs = <<>>)

Stop ==
    /\ worker = "select" /\ Stops
    /\ worker' = "done"
    /\ UNCHANGED <<cancelled, queue, event, process>>

(* The event is received and its directory listed: it may be absent or     *)
(* unreadable, or hold any number of executables.                          *)
Take ==
    /\ worker = "select" /\ jobs # <<>> /\ ~cancelled
    /\ jobs' = Tail(jobs)
    /\ begun' = Append(begun, Head(jobs))
    /\ \/ /\ files' \in 1..MaxFiles
          /\ worker' = "files"
          /\ UNCHANGED outcome
       \/ /\ files' = 0
          /\ outcome' \in {"none", "error"}
          /\ UNCHANGED worker
    /\ at' = 1
    /\ UNCHANGED <<cancelled, mu, notifier, submitted, closed, closer, accepted, process>>

(* The event's results are complete: every file ran or was skipped over    *)
(* the limit, or the daemon is stopping.                                   *)
EndEvent ==
    /\ worker = "files" /\ (at > files \/ at > MaxHooks \/ cancelled)
    /\ outcome' = IF at > MaxHooks /\ at <= files /\ ~cancelled THEN "skipped" ELSE outcome
    /\ worker' = "select"
    /\ UNCHANGED <<cancelled, queue, begun, files, at, process>>

(***************************************************************************)
(* runOne: cmd.Start, then cmd.Wait.                                       *)
(***************************************************************************)
Startable == worker = "files" /\ at <= files /\ at <= MaxHooks

(* exec fails, or the daemon was stopped since the loop last checked.      *)
StartFails ==
    /\ Startable /\ outcome # "cancelled"
    /\ outcome' = IF cancelled THEN "cancelled" ELSE "error"
    /\ at' = at + 1
    /\ UNCHANGED <<cancelled, queue, worker, begun, files, process>>

Start ==
    /\ Startable /\ ~cancelled
    /\ proc' = "forked" /\ code' = 0 /\ child' = "none"
    /\ deadline' = FALSE /\ watch' = "on" /\ late' = FALSE /\ err' = "none"
    /\ worker' = "wait"
    /\ UNCHANGED <<cancelled, queue, event>>

(* Slip: only shutdown ends a Hook; its timeout is not applied.            *)
DeadlineNever == FALSE /\ UNCHANGED vars

Deadline ==
    /\ worker \in {"wait", "drain"} /\ ~deadline
    /\ deadline' = TRUE
    /\ UNCHANGED <<cancelled, queue, worker, event, proc, code, child, watch, late, err>>

(* The forked child enters its own group, then executes the Hook.          *)
SetGroup ==
    /\ proc = "forked"
    /\ proc' = "grouped"
    /\ late' = (watch = "missed")
    /\ UNCHANGED <<cancelled, queue, worker, event, code, child, deadline, watch, err>>

Spawn(how) ==
    /\ proc = "grouped" /\ child = "none"
    /\ child' = how
    /\ UNCHANGED <<cancelled, queue, worker, event, proc, code, deadline, watch, late, err>>

ChildExits ==
    /\ child # "none"
    /\ child' = "none"
    /\ UNCHANGED <<cancelled, queue, worker, event, proc, code, deadline, watch, late, err>>

HookExits(c) ==
    /\ proc = "grouped"
    /\ proc' = "exited" /\ code' = c
    /\ UNCHANGED <<cancelled, queue, worker, event, child, deadline, watch, late, err>>

(***************************************************************************)
(* cancelHook, called once when the context ends: SIGKILL to the group,    *)
(* and when the kernel knows no such group, to the process.  The child may *)
(* act between the two calls.  A refused signal is returned as an error.   *)
(***************************************************************************)
GroupExists == proc \in {"grouped", "exited"} \/ child = "group"

GroupKill ==
    /\ watch = "on" /\ (deadline \/ cancelled)
    /\ \/ /\ GroupExists
          /\ watch' = "fired" /\ err' = "ctx"
          /\ IF proc = "grouped" THEN proc' = "exited" /\ code' = -1
                                 ELSE UNCHANGED <<proc, code>>
          /\ child' = IF child = "group" THEN "none" ELSE child
       \/ /\ GroupExists
          /\ watch' = "refused" /\ err' = "kill"
          /\ UNCHANGED <<proc, code, child>>
       \/ /\ ~GroupExists
          /\ watch' = "missed"
          /\ UNCHANGED <<proc, code, child, err>>
    /\ UNCHANGED <<cancelled, queue, worker, event, deadline, late>>

(* Slip: a missing group is taken to mean that the Hook has exited.        *)
ProcKillTakenForDone ==
    /\ watch = "missed"
    /\ watch' = "direct"
    /\ UNCHANGED <<cancelled, queue, worker, event, proc, code, child, deadline, late, err>>

(* A process that Wait has collected is done, which is no error.           *)
ProcKill ==
    /\ watch = "missed"
    /\ \/ /\ watch' = "direct"
          /\ err' = IF proc = "reaped" THEN err ELSE "ctx"
          /\ IF proc \in {"forked", "grouped"} THEN proc' = "exited" /\ code' = -1
                                               ELSE UNCHANGED <<proc, code>>
       \/ /\ proc = "grouped"
          /\ watch' = "refused" /\ err' = "kill"
          /\ UNCHANGED <<proc, code>>
    /\ UNCHANGED <<cancelled, queue, worker, event, child, deadline, late>>

(* Wait collects the process.  Then the watcher hands over what it did,    *)
(* once cancelHook has returned, or stops watching without having done     *)
(* anything: the context is not looked at again while the pipe drains.     *)
Reap ==
    /\ proc = "exited"
    /\ proc' = "reaped"
    /\ UNCHANGED <<cancelled, queue, worker, event, code, child, deadline, watch, late, err>>

HandOver ==
    /\ worker = "wait" /\ proc = "reaped" /\ watch # "missed"
    /\ err' = IF code # 0 THEN "exit" ELSE err
    /\ watch' = IF watch = "on" THEN "off" ELSE watch
    /\ worker' = "drain"
    /\ UNCHANGED <<cancelled, queue, event, proc, code, child, deadline, late>>

(* The outcome is read off the contexts first, and then off cmd.Run's      *)
(* error.  A clean exit whose pipe was held past WaitDelay is an error.    *)
Classify(e) ==
    CASE e = "none" -> "ok"
      [] e # "none" /\ cancelled -> "cancelled"
      [] e # "none" /\ ~cancelled /\ deadline -> "timeout"
      [] e = "exit" /\ ~cancelled /\ ~deadline -> "nonzero"
      [] OTHER -> "error"

Return(e) ==
    /\ outcome' = Classify(e)
    /\ err' = e
    /\ at' = at + 1
    /\ worker' = "files"
    /\ UNCHANGED <<cancelled, queue, begun, files, proc, code, child, deadline, watch, late>>

Drained ==
    /\ worker = "drain" /\ child = "none"
    /\ Return(err)

(* Slip: Wait has no limit on how long the output pipe stays open.         *)
WaitDelayNever == FALSE /\ UNCHANGED vars

WaitDelay ==
    /\ worker = "drain" /\ child # "none"
    /\ Return(IF err = "none" THEN "delay" ELSE err)

Hook ==
    \/ SetGroup
    \/ \E how \in {"group", "escaped"} : Spawn(how)
    \/ ChildExits
    \/ \E c \in {0, 1} : HookExits(c)

Worker == Stop \/ Take \/ EndEvent \/ StartFails \/ Start \/ Reap \/ HandOver \/ Drained
            \/ WaitDelay

CancelHook == GroupKill \/ ProcKill

Next ==
    \/ Cancel \/ NotifyEnter \/ NotifySend \/ CloseEnter \/ CloseReturn
    \/ Deadline \/ Hook \/ CancelHook \/ Worker

(* The goroutines run, and timers fire.  A Hook or its child need never    *)
(* exit, and nothing has to be submitted, cancelled or closed.  Only a     *)
(* Hook the daemon may not signal, which runs as another user, must end by *)
(* itself: the unit's NoNewPrivileges allows no such Hook.                 *)
RefusedHookExits == watch = "refused" /\ \E c \in {0, 1} : HookExits(c)

Fairness ==
    /\ WF_vars(Worker) /\ WF_vars(Deadline) /\ WF_vars(CancelHook)
    /\ WF_vars(NotifySend) /\ WF_vars(CloseReturn) /\ WF_vars(SetGroup)
    /\ WF_vars(RefusedHookExits)

Spec == Init /\ [][Next]_vars /\ Fairness
-----------------------------------------------------------------------------
(* Hooks run for the accepted Decisions in the order they were committed,  *)
(* none skipped and none twice: "delivers best-effort notifications in     *)
(* submission order" (HookNotifier), whatever the queue drops.             *)
DeliveredInOrder == IsPrefix(begun, accepted)

(* A notification is never sent on a channel that Close has closed, which  *)
(* would panic the daemon (Notify and Close may run concurrently).         *)
NoSendOnClosed == notifier = "sending" => ~closed

(* Close returns only when no Hook runs, and, unless the daemon is         *)
(* stopping, when every accepted Decision was delivered (Close, deliver).  *)
CloseFinishes ==
    closer = "returned" /\ closed =>
        /\ worker \in {"none", "done"}
        /\ proc \in {"none", "reaped"}
        /\ ~cancelled => begun = accepted

(* The queue keeps its promise under a full channel, shutdown and a        *)
(* Notify and a Close that race: in order, without a panic, and to the end *)
(* (HookNotifier).                                                         *)
QueueIsSound == DeliveredInOrder /\ NoSendOnClosed /\ CloseFinishes

(* A Hook killed at its deadline or by shutdown is dead, and leaves no     *)
(* process of its group behind, also when it is cancelled before it has    *)
(* entered its group.  The one exception is a Hook that enters its group   *)
(* between the two kill calls: it dies, but what it started meanwhile may  *)
(* live on (cancelHook).                                                   *)
KillReachesGroup ==
    watch \in {"fired", "direct"} =>
        /\ proc \in {"exited", "reaped"}
        /\ child = "group" => watch = "direct" /\ late

(* Close always returns: a Hook that hangs is killed at its deadline, and  *)
(* a process that escaped its group and keeps the output open holds the    *)
(* worker no longer than WaitDelay (runOne, Close).                        *)
CloseReturns == closer = "waiting" ~> closer = "returned"

(* An accepted Decision is delivered however long its predecessors' Hooks  *)
(* hang, unless the daemon stops first (deliver).                          *)
EventuallyDelivered ==
    \A e \in 1..MaxEvents :
        Contains(accepted, e) ~> (Contains(begun, e) \/ cancelled)

(* No Hook, however it behaves, keeps the events after it or the shutdown  *)
(* of the daemon waiting for ever (runOne, deliver, Close).                *)
HooksNeverBlock == CloseReturns /\ EventuallyDelivered
=============================================================================
