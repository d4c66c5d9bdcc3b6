------------------------------ MODULE Selector ------------------------------
(***************************************************************************)
(* The Strategy: which Member of a Group should carry its traffic, given   *)
(* the set of WANs that are healthy.  The one registered Strategy is       *)
(* primary-backup; Validate rejects a Group that names another.            *)
(***************************************************************************)
EXTENDS Config

CONSTANT NoActive  \* the Selection "no WAN": Active.Has is false
ASSUME NoActiveAssumption == NoActive \notin Wans

Active == Wans \cup {NoActive}

(* The sort order of primaryBackup: priority, then the WAN's name.         *)
Preferred(g, v, w) ==
    \/ Priority[g][v] < Priority[g][w]
    \/ Priority[g][v] = Priority[g][w] /\ NameRank[v] <= NameRank[w]

HealthyMembers(g, healthy) == Members[g] \cap healthy

(* The first of the healthy Members in that order, if there is one.        *)
Select(g, healthy) ==
    LET candidates == HealthyMembers(g, healthy)
    IN  IF candidates = {}
          THEN NoActive
          ELSE CHOOSE w \in candidates :
                   \A v \in candidates : Preferred(g, w, v)
=============================================================================
