--------------------------- MODULE GroupDecision ---------------------------
(***************************************************************************)
(* The Decision module of one Group: its committed Selection, the Decision *)
(* whose Apply has not converged yet (pending), and whether the committed  *)
(* Selection's routes need a Repair.                                       *)
(*                                                                         *)
(* An operation makes at most one attempt to write routes.  Which routes   *)
(* it attempts depends on the Group alone and is one operator; what the    *)
(* Group becomes depends on whether the attempt succeeded (ok) and is a    *)
(* second one, whose value is the new Group and whether the operation      *)
(* returned a commit for its caller to publish.                            *)
(***************************************************************************)
EXTENDS Selector

CONSTANT NoPending  \* no Decision is pending: Group.pending is nil
ASSUME NoPendingAssumption == NoPending \notin Active

GroupState == [selection : Active, pending : Wans \cup {NoPending},
               repairDue : BOOLEAN, decisionsTotal : Nat]

NewGroup == [selection |-> NoActive, pending |-> NoPending,
             repairDue |-> FALSE, decisionsTotal |-> 0]

Intent(gr) == IF gr.pending = NoPending THEN gr.selection ELSE gr.pending

Attempt(w, families) == [wan |-> w, families |-> families]
NoAttempt == Attempt(NoActive, {})

Idle(gr) == [group |-> gr, commit |-> FALSE]

(* Slip: a commit leaves an earlier Repair due.                            *)
CommitKeepsRepair(gr, ok) ==
    IF gr.pending # NoActive /\ ~ok
      THEN Idle(gr)
      ELSE [group |-> [gr EXCEPT !.selection = gr.pending,
                                 !.pending = NoPending],
            commit |-> TRUE]

(* A down, pending = NoActive, writes no route and always commits.         *)
Commit(gr, ok) ==
    IF gr.pending # NoActive /\ ~ok
      THEN Idle(gr)
      ELSE [group |-> [gr EXCEPT !.selection = gr.pending,
                                 !.pending = NoPending,
                                 !.repairDue = FALSE],
            commit |-> TRUE]

Refresh(gr, ok) == Idle([gr EXCEPT !.repairDue = ~ok])

(* Slip: a refresh with a Repair due rewrites the observed Family only.    *)
RefreshAttemptNarrow(gr, families) == Attempt(gr.selection, families)

RefreshAttempt(gr, families) ==
    Attempt(gr.selection, IF gr.repairDue THEN Families ELSE families)

(***************************************************************************)
(* Recompute: the Strategy chose target.  A changed target replaces any    *)
(* pending Decision and is counted, whether or not its Apply succeeds.     *)
(***************************************************************************)
RecomputeAttempt(gr, target) ==
    IF target = Intent(gr) \/ target = NoActive
      THEN NoAttempt ELSE Attempt(target, Families)

(* Slip: the target is compared with the Selection, not with the intent.   *)
RecomputeIgnoresPending(gr, target, ok) ==
    IF target = gr.selection
      THEN Idle(gr)
      ELSE Commit([gr EXCEPT !.pending = target, !.decisionsTotal = @ + 1], ok)

Recompute(gr, target, ok) ==
    IF target = Intent(gr)
      THEN Idle(gr)
      ELSE Commit([gr EXCEPT !.pending = target, !.decisionsTotal = @ + 1], ok)

(***************************************************************************)
(* Probe: a probe cycle of w completed.  It retries a pending Decision     *)
(* onto w, and repairs w's routes when a Repair is due and w is selected.  *)
(***************************************************************************)
RetryDue(gr, w) == gr.pending = w
RepairDue(gr, w) == gr.pending = NoPending /\ gr.repairDue /\ gr.selection = w

ProbeAttempt(gr, w) ==
    CASE RetryDue(gr, w) -> Attempt(w, Families)
      [] RepairDue(gr, w) -> RefreshAttempt(gr, Families)
      [] OTHER -> NoAttempt

(* Slips: a probe cycle does not retry, or does not repair.                *)
ProbeNeverRetries(gr, w, ok) ==
    IF RepairDue(gr, w) THEN Refresh(gr, ok) ELSE Idle(gr)

ProbeNeverRepairs(gr, w, ok) ==
    IF RetryDue(gr, w) THEN Commit(gr, ok) ELSE Idle(gr)

Probe(gr, w, ok) ==
    CASE RetryDue(gr, w) -> Commit(gr, ok)
      [] RepairDue(gr, w) -> Refresh(gr, ok)
      [] OTHER -> Idle(gr)

(***************************************************************************)
(* RouteObserved: the kernel reported a main-table default route of Family *)
(* f on the interface of the WANs in on.  The code calls the Group once    *)
(* per WAN; only the WAN the Group intends does anything.                  *)
(***************************************************************************)
(* Slip: a committed Selection's routes are taken to be in place.          *)
RouteAttemptPendingOnly(gr, on, f) ==
    IF Intent(gr) \in on /\ gr.pending # NoPending
      THEN Attempt(gr.pending, Families) ELSE NoAttempt

RouteAttempt(gr, on, f) ==
    CASE Intent(gr) \notin on -> NoAttempt
      [] Intent(gr) \in on /\ gr.pending # NoPending -> Attempt(gr.pending, Families)
      [] OTHER -> RefreshAttempt(gr, {f})

RouteObserved(gr, on, ok) ==
    CASE Intent(gr) \notin on -> Idle(gr)
      [] Intent(gr) \in on /\ gr.pending # NoPending -> Commit(gr, ok)
      [] OTHER -> Refresh(gr, ok)

(* Slip: a switch is taken for no change.                                  *)
EventWithoutSwitch(old, new) ==
    CASE old = NoActive /\ new # old -> "up"
      [] new = NoActive /\ new # old -> "down"
      [] OTHER -> ""

(* The Hook event a change of Selection is, "" when there is no change.    *)
Event(old, new) ==
    CASE old = new -> ""
      [] old = NoActive /\ new # old -> "up"
      [] new = NoActive /\ new # old -> "down"
      [] OTHER -> "switch"
=============================================================================
