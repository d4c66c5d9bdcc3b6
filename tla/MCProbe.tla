------------------------------- MODULE MCProbe -------------------------------
(***************************************************************************)
(* The package probe for TLC: the allocation of identifiers, the cycles of *)
(* a prober, and the windows beside their history.  The three share        *)
(* nothing, so that a behaviour of one, with the others already ended,     *)
(* stands for every interleaving.                                          *)
(***************************************************************************)
EXTENDS Idents, Window

CONSTANTS
    t1, t2, Targets, SeqSpace, Lifetime, MaxIndex, NoConn, NoReply,
    RTTs, MaxSamples

VARIABLES
    index, created, air, conn, seq, pc, at, inflight, sendFailed, due, windows,
    cancelled, pushed, credited,
    rings, history

pingVars == <<index, created, air, conn, seq, pc, at, inflight, sendFailed, due, windows,
              cancelled, pushed, credited>>
ringVars == <<rings, history>>

P == INSTANCE Pinger
W == INSTANCE WindowHistory WITH
         windows <- rings, Targets <- P!Target

ASSUME ProbeAssumption == P!PingerAssumption

TwoTargets == <<t1, t2>>

(* Each part after its end, with nothing left that could change.           *)
PingerEnded ==
    /\ index = 0 /\ created = MaxIndex
    /\ air = {} /\ conn = NoConn /\ seq = 0 /\ pc = "exited" /\ at = 1
    /\ inflight = {} /\ sendFailed = FALSE /\ due = FALSE
    /\ windows = [t \in P!Target |-> NewWindow]
    /\ cancelled = TRUE
    /\ pushed = [t \in P!Target |-> 1] /\ credited = NoReply

WindowsEnded ==
    LET lost == [k \in 1..MaxSamples |-> Loss]
    IN  /\ history = [t \in P!Target |-> lost]
        /\ rings = [t \in P!Target |-> FoldLeft(LAMBDA w, s : W!Push(w, s), W!NewWindow, lost)]

IdentsEnded ==
    /\ keys = <<>> /\ hash = [k \in Keys |-> 0] /\ next = 1 /\ offset = 0
    /\ owners = {} /\ allocated = [k \in {} |-> 0] /\ result = "ok"

ProbersInit ==
    \/ P!Init /\ WindowsEnded /\ IdentsEnded
    \/ W!Init /\ PingerEnded /\ IdentsEnded
    \/ Init /\ PingerEnded /\ WindowsEnded

ProbersNext ==
    \/ P!Next /\ UNCHANGED <<ringVars, vars>>
    \/ W!Next /\ UNCHANGED <<pingVars, vars>>
    \/ Next /\ UNCHANGED <<pingVars, ringVars>>

ProbersSpec ==
    /\ ProbersInit /\ [][ProbersNext]_<<pingVars, ringVars, vars>>
    /\ P!Fairness /\ WF_vars(Next)
-----------------------------------------------------------------------------
(* A reply counts for its own probe only (Pinger).                         *)
CreditsOwnProbe == P!CreditsOwnProbe

(* Every cycle gives every Target one Sample (Pinger).                     *)
OneSamplePerCycle == P!OneSamplePerCycle

(* The socket follows the interface (Pinger).                              *)
ProbesThroughInterface == P!ProbesThroughInterface

(* Cancellation ends the prober (Pinger).                                  *)
EndsWhenCancelled == P!EndsWhenCancelled

(* Rings and statistics are those of the history (WindowHistory).          *)
StatisticsMatchHistory == W!StatisticsMatchHistory
=============================================================================
