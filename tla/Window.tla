------------------------------- MODULE Window -------------------------------
(***************************************************************************)
(* Sliding windows of probe Samples and what is computed from them: the    *)
(* ring buffer of one Target, and the statistics of a Family over the      *)
(* windows of all its Targets.                                             *)
(***************************************************************************)
EXTENDS Integers, Sequences, SequencesExt, FiniteSetsExt

CONSTANTS
    Capacity,  \* Samples in a window (windowSize)
    NoData     \* a statistic without data

ASSUME WindowAssumption == Capacity \in Nat \ {0}

Success(rtt) == [lost |-> FALSE, rtt |-> rtt]
Loss == [lost |-> TRUE, rtt |-> 0]

NewWindow == [samples |-> [k \in 0..(Capacity - 1) |-> [lost |-> FALSE, rtt |-> 0]],
              head |-> 0, filled |-> FALSE]

(* Slip: the window counts as filled when the last slot is still free.     *)
PushEarly(w, s) ==
    LET head == (w.head + 1) % Capacity
    IN  [samples |-> [w.samples EXCEPT ![w.head] = s], head |-> head,
         filled |-> w.filled \/ head = Capacity - 1]

Push(w, s) ==
    LET head == (w.head + 1) % Capacity
    IN  [samples |-> [w.samples EXCEPT ![w.head] = s], head |-> head,
         filled |-> w.filled \/ head = 0]

(* The Samples from the oldest to the newest.                              *)
Held(w) ==
    IF w.filled
      THEN [k \in 1..Capacity |-> w.samples[(w.head + k - 1) % Capacity]]
      ELSE [k \in 1..w.head |-> w.samples[k - 1]]

Total(xs) == FoldSeq(+, 0, xs)

Replies(w) == SelectSeq(Held(w), LAMBDA s : ~s.lost)
LossCounts(w) == [lost |-> Len(Held(w)) - Len(Replies(w)), total |-> Len(Held(w))]

MeanRTT(w) ==
    LET rs == Replies(w)
    IN  IF rs = <<>> THEN NoData
        ELSE Total([k \in DOMAIN rs |-> rs[k].rtt]) \div Len(rs)

(* The population standard deviation, rounded down.                        *)
JitterMicros(w) ==
    LET rs == Replies(w)
        square == Total([k \in DOMAIN rs |-> (rs[k].rtt - MeanRTT(w)) * (rs[k].rtt - MeanRTT(w))])
    IN  IF rs = <<>> THEN NoData
        ELSE Max({j \in 0..square : j * j * Len(rs) <= square})

(* The mean over the Targets that have data.                               *)
IntMean(stat) ==
    LET with == {t \in DOMAIN stat : stat[t] # NoData}
    IN  IF with = {} THEN NoData
        ELSE FoldSet(LAMBDA t, acc : acc + stat[t], 0, with) \div Cardinality(with)

(* The loss ratios lost / total are added as fractions, and divided by the *)
(* number of Targets that have one.                                        *)
AddRatio(a, b) == [num |-> a.num * b.den + b.num * a.den, den |-> a.den * b.den]

RatMean(counts) ==
    LET with == {t \in DOMAIN counts : counts[t].total > 0}
        sum == FoldSet(LAMBDA t, acc : AddRatio(acc, [num |-> counts[t].lost, den |-> counts[t].total]),
                       [num |-> 0, den |-> 1], with)
    IN  IF with = {} THEN NoData ELSE [num |-> sum.num, den |-> sum.den * Cardinality(with)]

(* Slip: one filled window is enough.                                      *)
AggregateAnyFilled(windows) ==
    [rtt |-> IntMean([t \in DOMAIN windows |-> MeanRTT(windows[t])]),
     jitter |-> IntMean([t \in DOMAIN windows |-> JitterMicros(windows[t])]),
     loss |-> RatMean([t \in DOMAIN windows |-> LossCounts(windows[t])]),
     filled |-> \E t \in DOMAIN windows : windows[t].filled]

Aggregate(windows) ==
    [rtt |-> IntMean([t \in DOMAIN windows |-> MeanRTT(windows[t])]),
     jitter |-> IntMean([t \in DOMAIN windows |-> JitterMicros(windows[t])]),
     loss |-> RatMean([t \in DOMAIN windows |-> LossCounts(windows[t])]),
     filled |-> \A t \in DOMAIN windows : windows[t].filled]
=============================================================================
