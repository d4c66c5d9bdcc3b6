------------------------------ MODULE Failover ------------------------------
(***************************************************************************)
(* What the daemon promises the user of its Groups, without saying how:    *)
(* each Group has one Selection (sel), it only ever moves to the WAN the   *)
(* Strategy wants at that moment (want), it is given up at once when the   *)
(* Strategy wants none, and it does not stay behind for ever.              *)
(***************************************************************************)
CONSTANTS Groups, Wans, NoActive
VARIABLES want, sel

Choice == Wans \cup {NoActive}

Init ==
    /\ want = [g \in Groups |-> NoActive]
    /\ sel = [g \in Groups |-> NoActive]

(* One step serves every Group: what a Group wants may change, and its     *)
(* Selection stays or becomes what it wants now.                           *)
Move ==
    /\ want' \in [Groups -> Choice]
    /\ sel' \in [Groups -> Choice]
    /\ \A g \in Groups :
          /\ sel'[g] \in {sel[g], want'[g]}
          /\ want'[g] = NoActive => sel'[g] = NoActive

Spec == Init /\ [][Move]_<<want, sel>>

(* Every Group is served again and again: the Selection never stays behind *)
(* what the Strategy wants for ever.                                       *)
Convergence == \A g \in Groups : []<>(sel[g] = want[g])
=============================================================================
