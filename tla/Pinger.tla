------------------------------- MODULE Pinger -------------------------------
(***************************************************************************)
(* The prober of one WAN and Family: a cycle sends one echo request to     *)
(* every Target, reads replies until all have answered or the timeout      *)
(* fires, and gives every Target's window one Sample.  Its socket is bound *)
(* to an interface index and opened again when that index is gone.         *)
(*                                                                         *)
(* The network loses, delays, reorders and duplicates replies.  A reply    *)
(* names its probe only by a sequence number that wraps, so a reply may    *)
(* live for Lifetime cycles and no longer.                                 *)
(***************************************************************************)
EXTENDS Window

CONSTANTS
    Targets,     \* the Targets in their configured order
    SeqSpace,    \* 2^16 in the code
    Lifetime,    \* cycles after its own in which a reply may still arrive
    MaxIndex,    \* bound on the interfaces created, for model checking
    NoConn,      \* no socket is open
    NoReply      \* no reply was credited in this cycle

Target == ToSet(Targets)

(* Validate rejects duplicate Targets.  Sequence numbers come around only  *)
(* after every reply that carries them has died out.                       *)
PingerAssumption ==
    /\ Targets \in Seq(Target) /\ IsInjective(Targets) /\ Targets # <<>>
    /\ {SeqSpace, Lifetime, MaxIndex} \subseteq Nat
    /\ (Lifetime + 1) * Len(Targets) <= SeqSpace
    /\ NoConn \notin Nat

VARIABLES
    index,      \* kernel: the interface's index, 0 while it does not exist
    created,    \* kernel: indexes given out; the kernel does not reuse one
    air,        \* replies that can arrive: [seq, target, age in cycles]
    conn,       \* the index the socket is bound to, or NoConn
    seq,        \* next sequence number
    pc,         \* start, tick, send, read, skip (cancelled before the read), emit, exited
    at,         \* position in Targets while sending
    inflight,   \* probes of this cycle without a reply: [seq, target]
    sendFailed, \* a send of this cycle failed
    due,        \* the read deadline has passed, or the read failed
    windows,    \* one window per Target
    cancelled,  \* the daemon's context ended
    pushed,     \* history: Samples of this cycle, per Target
    credited    \* history: the reply read last, and the Target it counted for

net == <<index, created>>
vars == <<net, air, conn, seq, pc, at, inflight, sendFailed, due, windows, cancelled,
          pushed, credited>>

(***************************************************************************)
(* The interface comes and goes, with a new index each time.               *)
(***************************************************************************)
Create ==
    /\ index = 0 /\ created < MaxIndex
    /\ created' = created + 1
    /\ index' = created'
    /\ UNCHANGED <<air, conn, seq, pc, at, inflight, sendFailed, due, windows, cancelled,
                   pushed, credited>>

Destroy ==
    /\ index # 0
    /\ index' = 0
    /\ UNCHANGED <<created, air, conn, seq, pc, at, inflight, sendFailed, due, windows, cancelled,
                   pushed, credited>>

(***************************************************************************)
(* Samples.                                                                *)
(***************************************************************************)
Record(losers) ==
    /\ windows' = [t \in Target |-> IF t \in losers THEN Push(windows[t], Loss) ELSE windows[t]]
    /\ pushed' = [t \in Target |-> IF t \in losers THEN pushed[t] + 1 ELSE pushed[t]]

(* Slip: probes that got no reply in time leave no Sample.                 *)
RecordLossForgotten == UNCHANGED <<windows, pushed>>
RecordLoss == Record({p.target : p \in inflight})

(***************************************************************************)
(* The cycle.                                                              *)
(***************************************************************************)
(* What is dialled where no socket is open: an absent interface leaves it  *)
(* closed, and every other failure to open it ends the prober.             *)
Open == IF conn # NoConn THEN conn ELSE IF index = 0 THEN NoConn ELSE index

Start ==
    /\ pc = "start"
    /\ conn' = Open
    /\ pc' = "tick"
    /\ UNCHANGED <<net, air, seq, at, inflight, sendFailed, due, windows, cancelled, pushed,
                   credited>>

(* Slip: every cycle starts at sequence number zero.                       *)
NextSeqRestart == 0
NextSeq == seq

(* A tick may still be taken when the context has ended.                   *)
Tick ==
    /\ pc = "tick"
    /\ conn' = Open
    /\ air' = {[r EXCEPT !.age = @ + 1] : r \in {r \in air : r.age < Lifetime}}
    /\ credited' = NoReply
    /\ \/ /\ conn' = NoConn
          /\ windows' = [t \in Target |-> Push(windows[t], Loss)]
          /\ pushed' = [t \in Target |-> 1]
          /\ pc' = "emit"
          /\ UNCHANGED <<seq, at, inflight, sendFailed>>
       \/ /\ conn' # NoConn
          /\ pc' = "send"
          /\ at' = 1 /\ seq' = NextSeq /\ inflight' = {} /\ sendFailed' = FALSE
          /\ pushed' = [t \in Target |-> 0]
          /\ UNCHANGED windows
    /\ UNCHANGED <<net, due, cancelled>>

OpenFails ==
    /\ pc \in {"start", "tick"}
    /\ conn = NoConn
    /\ pc' = "exited"
    /\ UNCHANGED <<net, air, conn, seq, at, inflight, sendFailed, due, windows, cancelled,
                   pushed, credited>>

(* After the last Target the read deadline is set ahead.                   *)
Advance ==
    /\ seq' = (seq + 1) % SeqSpace
    /\ due' = FALSE
    /\ at' = at + 1
    /\ pc' = IF at < Len(Targets) THEN "send" ELSE IF cancelled THEN "skip" ELSE "read"

(* A send through a socket whose interface is gone fails; any may.         *)
SendEcho ==
    /\ pc = "send"
    /\ Advance
    /\ \/ /\ conn = index
          /\ inflight' = inflight \cup {[seq |-> seq, target |-> Targets[at]]}
          /\ air' = air \cup {[seq |-> seq, target |-> Targets[at], age |-> 0]}
          /\ UNCHANGED <<sendFailed, windows, pushed>>
       \/ /\ sendFailed' = TRUE
          /\ Record({Targets[at]})
          /\ UNCHANGED <<inflight, air>>
    /\ UNCHANGED <<net, conn, cancelled, credited>>

(* A reply whose sequence number is in flight is credited to its probe.    *)
(* Others, and the replies to other probers' identifiers, are passed over. *)
ReadReply(reply) ==
    /\ pc = "read" /\ ~due
    /\ reply \in air
    /\ \E p \in inflight :
          /\ p.seq = reply.seq
          /\ inflight' = inflight \ {p}
          /\ windows' = [windows EXCEPT ![p.target] = Push(@, Success(1))]
          /\ pushed' = [pushed EXCEPT ![p.target] = @ + 1]
          /\ credited' = [reply |-> reply, target |-> p.target]
    /\ UNCHANGED <<net, air, conn, seq, pc, at, sendFailed, due, cancelled>>

(* The timeout fires, or the read fails for another reason.                *)
ReadEnds ==
    /\ pc = "read" /\ ~due
    /\ due' = TRUE
    /\ UNCHANGED <<net, air, conn, seq, pc, at, inflight, sendFailed, windows, cancelled, pushed,
                   credited>>

(* Slip: cancellation does not touch the read deadline.                    *)
PullDeadlineNever == FALSE /\ UNCHANGED vars

(* The AfterFunc of the context, registered once the deadline is set.      *)
PullDeadline ==
    /\ cancelled /\ pc = "read" /\ ~due
    /\ due' = TRUE
    /\ UNCHANGED <<net, air, conn, seq, pc, at, inflight, sendFailed, windows, cancelled, pushed,
                   credited>>

(* Slip: after failed sends the socket is kept as long as there is an      *)
(* interface of that name.                                                 *)
RecheckByName == IF sendFailed /\ index = 0 THEN NoConn ELSE conn
Recheck == IF sendFailed /\ index # conn THEN NoConn ELSE conn

(* Everyone answered or the read is over.  After a failed send the index   *)
(* is looked up; a failed lookup closes the socket, too.                   *)
EndCycle ==
    /\ pc = "skip" \/ (pc = "read" /\ (inflight = {} \/ due))
    /\ RecordLoss
    /\ inflight' = {}
    /\ conn' = Recheck \/ (sendFailed /\ conn' = NoConn)
    /\ pc' = "emit"
    /\ UNCHANGED <<net, air, seq, at, sendFailed, due, cancelled, credited>>

Emit ==
    /\ pc = "emit"
    /\ pc' = "tick"
    /\ UNCHANGED <<net, air, conn, seq, at, inflight, sendFailed, due, windows, cancelled,
                   pushed, credited>>

Cancel ==
    /\ ~cancelled
    /\ cancelled' = TRUE
    /\ UNCHANGED <<net, air, conn, seq, pc, at, inflight, sendFailed, due, windows, pushed, credited>>

Exit ==
    /\ cancelled
    /\ pc \in {"tick", "emit"}
    /\ pc' = "exited"
    /\ conn' = NoConn
    /\ UNCHANGED <<net, air, seq, at, inflight, sendFailed, due, windows, cancelled, pushed, credited>>

(***************************************************************************)
(* Specification.                                                          *)
(***************************************************************************)
Init ==
    /\ index \in {0, 1} /\ created = index
    /\ air = {} /\ conn = NoConn
    /\ seq = 0 /\ pc = "start" /\ at = 1 /\ inflight = {} /\ sendFailed = FALSE /\ due = FALSE
    /\ windows = [t \in Target |-> NewWindow]
    /\ cancelled = FALSE
    /\ pushed = [t \in Target |-> 1] /\ credited = NoReply

ProberStep == Start \/ Tick \/ SendEcho \/ EndCycle \/ Emit \/ Exit

Next ==
    \/ Create \/ Destroy \/ Cancel
    \/ ProberStep \/ OpenFails \/ ReadEnds \/ PullDeadline
    \/ \E reply \in air : ReadReply(reply)

(* The ticker ticks, the timeout ends the read, and the event loop takes   *)
(* the results for as long as it runs.  Of a daemon that is stopping only  *)
(* its goroutines are assumed to run: the timeout may be long.  A select   *)
(* takes the ended context before long, since it picks at random among     *)
(* what is ready.                                                          *)
Fairness ==
    /\ WF_vars(Start \/ Tick \/ SendEcho \/ EndCycle \/ (Emit /\ ~cancelled))
    /\ WF_vars(ReadEnds /\ ~cancelled) /\ WF_vars(PullDeadline)
    /\ SF_vars(Exit)

Spec == Init /\ [][Next]_vars /\ Fairness

(***************************************************************************)
(* Properties.                                                             *)
(***************************************************************************)
(* A successful Sample is owed to a reply to this very cycle's probe of    *)
(* this very Target, whatever late, duplicated and reordered replies       *)
(* arrive and although sequence numbers wrap (Pinger.cycle).               *)
CreditsOwnProbe ==
    credited # NoReply =>
        credited.reply.age = 0 /\ credited.reply.target = credited.target

(* Every cycle gives every Target exactly one Sample, whether the          *)
(* interface is absent, its send failed, its reply came or it did not, and *)
(* also when cancellation cuts the cycle short (Pinger.run, cycle).        *)
OneSamplePerCycle == pc = "emit" => \A t \in Target : pushed[t] = 1

(* An interface that stays is probed through: a socket bound to an index   *)
(* that is gone is found out by its failing sends and replaced (socket,    *)
(* recheck, open).                                                         *)
ProbesThroughInterface ==
    \A i \in 1..MaxIndex : (<>[](index = i) => []<>(conn = i \/ pc = "exited"))

(* Cancellation ends the prober, in the middle of a read too, where it     *)
(* does not wait for the timeout, and with nobody left to take its result  *)
(* (Pinger.cycle, the AfterFunc; Pinger.run).                              *)
EndsWhenCancelled == cancelled ~> pc = "exited"
=============================================================================
