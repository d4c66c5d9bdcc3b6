----------------------------- MODULE Conntrack -----------------------------
(***************************************************************************)
(* The kernel's connection tracking next to the daemon, for one life of    *)
(* the daemon (the documentation excludes flushes across a restart).       *)
(*                                                                         *)
(* flows[g][f] is the set of interfaces that flows of Group g and Family f *)
(* are pinned to by their source address.  A new flow is pinned to the     *)
(* interface the Group's table routes it to.  Flushing a WAN removes the   *)
(* flows pinned to its interface, in every Group.                          *)
(***************************************************************************)
EXTENDS Daemon

VARIABLE flows

Carrying(g, f) ==
    IF table[g][f] \in {NoRoute, Removed} THEN {} ELSE {table[g][f].dev}

FlushedNow ==
    {FlushedWan(g, group[g].selection, group'[g].selection) : g \in Groups}

FlowsInit == Init /\ flows = [g \in Groups |-> [f \in Families |-> {}]]

FlowsNext ==
    /\ Next
    /\ phase' # "off"
    /\ flows' = [g \in Groups |-> [f \in Families |->
          (flows[g][f] \ {Interface[w] : w \in FlushedNow \ {NoActive}})
              \cup Carrying(g, f)']]

FlowsSpec == FlowsInit /\ [][FlowsNext]_<<vars, flows>>
-----------------------------------------------------------------------------
(* Once a Group has nothing pending, none of its flows is left on an       *)
(* interface its traffic has moved away from: whenever traffic moves to    *)
(* another WAN, the vacated WAN's entries are flushed                      *)
(* (flushVacatedConntrack, publishDecision).                               *)
NoStrandedFlows ==
    \A g \in Groups, f \in Families :
        /\ group[g].pending = NoPending
        /\ Carrying(g, f) # {}
        => flows[g][f] \subseteq Carrying(g, f)
=============================================================================
