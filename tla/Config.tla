------------------------------- MODULE Config -------------------------------
(***************************************************************************)
(* The daemon's configuration as its other parts see it: the values that   *)
(* config.Config holds once Validate has accepted them.  The daemon never  *)
(* changes its configuration while it runs (ADR-0006), so every field is a *)
(* CONSTANT and what Validate guarantees is an assumption.                 *)
(*                                                                         *)
(* WAN and Group names are model values.  The one thing the program does   *)
(* with a name beyond comparing it for equality is to order WANs           *)
(* lexicographically, which NameRank stands for.                           *)
(***************************************************************************)
EXTENDS Integers

CONSTANTS
    Wans,             \* names of the configured WANs
    Groups,           \* names of the configured Groups
    Ifaces,           \* names of the network interfaces
    Families,         \* address Families: v4, v6, or a part of them
    Interface,        \* Interface[w]: the interface WAN w uses
    PointToPoint,     \* PointToPoint[w]: w gets scope-link routes
    Probed,           \* Probed[w]: the Families with a probe target
    FamilyPolicyAny,  \* FamilyPolicyAny[w]: familyHealthPolicy is "any"
    Thresholds,       \* Thresholds[w]: the loss and RTT bands
    ConsecutiveUp,    \* ConsecutiveUp[w], ConsecutiveDown[w]: Hysteresis
    ConsecutiveDown,
    Members,          \* Members[g]: the WANs of Group g
    Priority,         \* Priority[g][w]: lower is preferred
    NameRank          \* NameRank[w]: position of w's name in sorted order

(***************************************************************************)
(* The value checks of Validate.  Loss is in percent and RTT in            *)
(* milliseconds, as in the configuration file.                             *)
(***************************************************************************)
ValidThresholds(t) ==
    /\ t \in [lossPctDown : 0..100, lossPctUp : 0..100,
              rttMsDown : Nat \ {0}, rttMsUp : Nat \ {0}]
    /\ t.lossPctUp < t.lossPctDown
    /\ t.rttMsUp < t.rttMsDown

ValidWan(w) ==
    /\ Interface[w] \in Ifaces
    /\ PointToPoint[w] \in BOOLEAN
    /\ Probed[w] \in (SUBSET Families) \ {{}}
    /\ FamilyPolicyAny[w] \in BOOLEAN
    /\ ValidThresholds(Thresholds[w])
    /\ ConsecutiveUp[w] \in Nat \ {0}
    /\ ConsecutiveDown[w] \in Nat \ {0}

(* Validate leaves Priority to the Nix option type, a positive integer.    *)
(* That no two Groups share a table is checked by the Nix library as well  *)
(* (assertUniqueMarksAndTables), which is why a Group stands for its table.*)
ValidGroup(g) ==
    /\ Members[g] \in (SUBSET Wans) \ {{}}
    /\ Priority[g] \in [Wans -> Nat \ {0}]

ASSUME ConfigAssumption ==
    /\ \A w \in Wans : ValidWan(w)
    /\ \A g \in Groups : ValidGroup(g)
    /\ NameRank \in [Wans -> Nat]
    /\ \A v, w \in Wans : NameRank[v] = NameRank[w] => v = w
=============================================================================
