------------------------------ MODULE MCHealth ------------------------------
(* Instances of HealthHistory for TLC.                                     *)
EXTENDS HealthHistory, TLC

CONSTANTS w1, w2, i1

Uniform(S, v) == [x \in S |-> v]
Link(c, o) == [carrier |-> c, operstate |-> o]
Sample(filled, loss, rtt) == [filled |-> filled, loss |-> loss, rtt |-> rtt]

AllBands == Uniform(Wans, [lossPctDown |-> 30, lossPctUp |-> 10,
                           rttMsDown |-> 500, rttMsUp |-> 250])
SameIface == Uniform(Wans, i1)
None == Uniform(Wans, FALSE)
FirstAny == (w1 :> TRUE) @@ (w2 :> FALSE)
FirstBothFamilies == (w1 :> Families) @@ (w2 :> {"v4"})
OneGroup == [g \in Groups |-> Wans]
OnePriority == [g \in Groups |-> Uniform(Wans, 1)]
Ranks == (w1 :> 1) @@ (w2 :> 2)
Ups == (w1 :> 3) @@ (w2 :> 1)
Downs == (w1 :> 2) @@ (w2 :> 3)
MostlyFirst == (w1 :> ("v4" :> 6 @@ "v6" :> 2)) @@ (w2 :> ("v4" :> 2 @@ "v6" :> 0))

(* At each threshold, between them, and without data.                      *)
Edges == {Sample(FALSE, 100, NoData), Sample(TRUE, 10, 250), Sample(TRUE, 11, 20),
          Sample(TRUE, 0, 500), Sample(TRUE, 30, NoData)}
LinkEdges == {Link("up", "unknown"), Link("unknown", "up"), Link("up", "lowerlayerdown")}
=============================================================================
