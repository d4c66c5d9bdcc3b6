------------------------------ MODULE MCDaemon ------------------------------
(* Instances of Daemon for TLC.                                            *)
EXTENDS Daemon, TLC

CONSTANTS w1, w2, i1, i2, g1, g2, gwA, gwB

Uniform(S, v) == [x \in S |-> v]

Link(c, o) == [carrier |-> c, operstate |-> o]
Sample(filled, loss, rtt) == [filled |-> filled, loss |-> loss, rtt |-> rtt]

Band == [lossPctDown |-> 30, lossPctUp |-> 10, rttMsDown |-> 500, rttMsUp |-> 250]
AllBands == Uniform(Wans, Band)
One == Uniform(Wans, 1)
None == Uniform(Wans, FALSE)
AllFamilies == Uniform(Wans, Families)

OwnIface == (w1 :> i1) @@ (w2 :> i2)
TwoRanks == (w1 :> 1) @@ (w2 :> 2)
AllMembers == Uniform(Groups, Wans)
FirstPreferred == Uniform(Groups, (w1 :> 1) @@ (w2 :> 2))
SameIface == (w1 :> i1) @@ (w2 :> i1)
SecondOnlyW2 == (g1 :> {w1, w2}) @@ (g2 :> {w2})
OppositePriorities == (g1 :> (w1 :> 1 @@ w2 :> 2)) @@ (g2 :> (w1 :> 2 @@ w2 :> 1))
OneHop == Uniform(Ifaces, {gwA})
SecondPtp == (w1 :> FALSE) @@ (w2 :> TRUE)
AllPtp == Uniform(Wans, TRUE)
NoHops == Uniform(Ifaces, {})

OnlyFirst == (i1 :> {gwA}) @@ (i2 :> {})
HopAndLink == (i1 :> {gwA}) @@ (i2 :> {ScopeLink})

UpDown == {Link("up", "up"), Link("down", "down")}
Full == {Sample(TRUE, 0, 20), Sample(TRUE, 100, NoData)}
Filling == {Sample(FALSE, 0, 20)}
Healed == {Sample(TRUE, 0, 20)}
=============================================================================
