---------------------------- MODULE WindowHistory ----------------------------
(***************************************************************************)
(* The windows of one Family beside the complete history of its Samples:   *)
(* the ring buffers and the aggregate must say of the last Samples what    *)
(* the history says.  A cycle gives every Target one Sample; Targets are   *)
(* not in step while a cycle is under way.                                 *)
(***************************************************************************)
EXTENDS Window

CONSTANTS
    Targets,
    RTTs,       \* round-trip times a reply can have
    MaxSamples  \* bound on the history, for model checking

VARIABLES windows, history
vars == <<windows, history>>

Samples == {Success(r) : r \in RTTs} \cup {Loss}

Init ==
    /\ windows = [t \in Targets |-> NewWindow]
    /\ history = [t \in Targets |-> <<>>]

PushSample(t, s) ==
    /\ Len(history[t]) < MaxSamples
    /\ \A u \in Targets : Len(history[t]) <= Len(history[u])
    /\ windows' = [windows EXCEPT ![t] = Push(@, s)]
    /\ history' = [history EXCEPT ![t] = Append(@, s)]

Next == \E t \in Targets, s \in Samples : PushSample(t, s)
Spec == Init /\ [][Next]_vars

(* The last Capacity Samples of t, or all there are.                       *)
Recent(t) ==
    LET h == history[t]
    IN  SubSeq(h, Max({1, Len(h) - Capacity + 1}), Len(h))

(* The ring buffer holds exactly the last Samples in their order, and is   *)
(* filled exactly when the Target had Capacity of them (WindowStats.Push,  *)
(* forEach, Len, Filled).                                                  *)
WindowHoldsRecent ==
    \A t \in Targets : /\ Held(windows[t]) = Recent(t)
                       /\ windows[t].filled <=> Len(history[t]) >= Capacity

LostAmong(xs) == Cardinality({k \in DOMAIN xs : xs[k].lost})

(* The aggregate's loss is the exact mean of the Targets' ratios: the mean *)
(* over all Samples when the Targets are in step.  The Family's window is  *)
(* filled only when every Target's is, and a Family has an RTT and a       *)
(* jitter exactly when one of its recent probes was answered, within the   *)
(* range of the answers (Aggregate, MeanRTT, LossCounts).                  *)
AggregateMatchesHistory ==
    LET stats == Aggregate(windows)
        inStep == \A t, u \in Targets : Len(history[t]) = Len(history[u])
        answered == UNION {{s.rtt : s \in {x \in ToSet(Recent(t)) : ~x.lost}} : t \in Targets}
        lost == FoldSet(LAMBDA t, acc : acc + LostAmong(Recent(t)), 0, Targets)
        total == FoldSet(LAMBDA t, acc : acc + Len(Recent(t)), 0, Targets)
    IN  /\ stats.filled <=> \A t \in Targets : Len(history[t]) >= Capacity
        /\ inStep /\ total > 0 => stats.loss.num * total = lost * stats.loss.den
        /\ (stats.loss = NoData) <=> (total = 0)
        /\ (stats.rtt = NoData) <=> (answered = {})
        /\ (stats.jitter = NoData) <=> (answered = {})
        /\ answered # {} => Min(answered) <= stats.rtt /\ stats.rtt <= Max(answered)

(* What a Prober reports of a Family is what the recent Samples of its     *)
(* Targets say, while rings fill, wrap and are out of step (WindowStats,   *)
(* Aggregate).                                                             *)
StatisticsMatchHistory == WindowHoldsRecent /\ AggregateMatchesHistory
=============================================================================
