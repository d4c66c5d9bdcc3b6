------------------------- MODULE PublicationProofs -------------------------
(***************************************************************************)
(* What leaves the daemon: the Hooks, the conntrack flushes and, seen from *)
(* outside, the Selections themselves; state.json, which is current        *)
(* between two handlers; and the routing tables, which converge on the     *)
(* Selections.                                                             *)
(***************************************************************************)
EXTENDS DaemonProofs

(***************************************************************************)
(* Hooks, flushes and Selections.                                          *)
(***************************************************************************)
(* Until the startup snapshots are in, nothing has been decided, reported  *)
(* or left to flush.                                                       *)
FreshStart ==
    phase # "running" =>
        /\ FreshMemory
        /\ hook = [g \in Groups |-> NoHook]
        /\ unflushed = [g \in Groups |-> {}]

PubInv == FreshStart /\ HookNamesSelection /\ VacatedFlushed

(* The Selections before and after a handler, and what Settle made of the  *)
(* pair.                                                                   *)
LEMMA HandlerReports ==
    ASSUME TypeOK, TypeOK', HandlerEffect, NEW g \in Groups,
           NEW old, old = group[g].selection, NEW new, new = group'[g].selection
    PROVE  /\ old \in Active /\ new \in Active
           /\ old = new => hook'[g] = hook[g]
           /\ old # new => /\ hook'[g] \in Hook
                           /\ hook'[g].old = old /\ hook'[g].new = new
           /\ vacated'[g] = VacatedNext(g, old, new)
           /\ unflushed'[g] = (unflushed[g] \ {FlushedWan(g, old, new)})
                                 \cup ({new} \ {NoActive})
<1>1. PICK at, step, answer, early, late : Settle(at, step, answer, early, late)
  BY DEF HandlerEffect, SettlingStep
<1>2. old \in Active /\ new \in Active
  BY DEF TypeOK, GroupState
<1>3. hook'[g] = IF Event(old, new) = "" THEN hook[g]
                 ELSE [event |-> Event(old, new), old |-> old, new |-> new]
  BY <1>1 DEF Settle
<1>4. old = new => hook'[g] = hook[g]
  BY <1>2, <1>3, EventCases
<1>5. ASSUME old # new
      PROVE  /\ hook'[g] \in Hook
             /\ hook'[g].old = old /\ hook'[g].new = new
  <2>1. Event(old, new) \in {"up", "down", "switch"}
    BY <1>5 DEF Event
  <2> DEFINE e == Event(old, new)
  <2>2. hook'[g] = [event |-> e, old |-> old, new |-> new]
    BY <1>3, <2>1
  <2> HIDE DEF e
  <2> QED BY <1>2, <2>1, <2>2 DEF Hook, e
<1>6. /\ vacated'[g] = VacatedNext(g, old, new)
      /\ unflushed'[g] = (unflushed[g] \ {FlushedWan(g, old, new)})
                             \cup ({new} \ {NoActive})
  BY <1>1 DEF Settle
<1> QED BY <1>2, <1>4, <1>5, <1>6

LEMMA HandlerKeepsHooks ==
    ASSUME TypeOK, TypeOK', HandlerEffect, HookNamesSelection
    PROVE  HookNamesSelection'
<1> SUFFICES ASSUME NEW g \in Groups
             PROVE  group'[g].selection = IF hook'[g] = NoHook THEN NoActive
                                                               ELSE hook'[g].new
  BY DEF HookNamesSelection
<1>1. CASE group[g].selection = group'[g].selection
  <2>1. hook'[g] = hook[g]
    BY <1>1, HandlerReports
  <2> QED BY <1>1, <2>1 DEF HookNamesSelection
<1>2. CASE group[g].selection # group'[g].selection
  <2>1. hook'[g] \in Hook /\ hook'[g].new = group'[g].selection
    BY <1>2, HandlerReports
  <2>2. hook'[g] # NoHook
    BY <2>1, DaemonAssumption
  <2> QED BY <2>1, <2>2
<1> QED BY <1>1, <1>2

LEMMA HandlerKeepsFlushed ==
    ASSUME TypeOK, TypeOK', HandlerEffect, VacatedFlushed
    PROVE  VacatedFlushed'
<1> SUFFICES ASSUME NEW g \in Groups
             PROVE  unflushed'[g] \subseteq
                      IF group'[g].selection = NoActive THEN {vacated'[g]}
                                                        ELSE {group'[g].selection}
  BY DEF VacatedFlushed
<1> DEFINE old == group[g].selection
           new == group'[g].selection
<1>1. /\ old \in Active /\ new \in Active
      /\ vacated'[g] = VacatedNext(g, old, new)
      /\ unflushed'[g] = (unflushed[g] \ {FlushedWan(g, old, new)})
                             \cup ({new} \ {NoActive})
  BY HandlerReports
<1>2. unflushed[g] \subseteq IF old = NoActive THEN {vacated[g]} ELSE {old}
  BY DEF VacatedFlushed
<1> SUFFICES unflushed'[g] \subseteq IF new = NoActive THEN {vacated'[g]} ELSE {new}
  OBVIOUS
<1> HIDE DEF old, new
<1>3. CASE old = new
  <2>1. Event(old, new) = ""
    BY <1>1, <1>3, EventCases
  <2>2. /\ VacatedNext(g, old, new) = vacated[g]
        /\ FlushedWan(g, old, new) = NoActive
    BY <2>1 DEF VacatedNext, FlushedWan
  <2> QED BY <1>1, <1>2, <1>3, <2>2
<1>4. CASE old # new /\ old = NoActive
  <2>1. Event(old, new) = "up"
    BY <1>1, <1>4, EventCases
  <2>2. /\ VacatedNext(g, old, new) = NoActive
        /\ FlushedWan(g, old, new) = IF vacated[g] # new THEN vacated[g] ELSE NoActive
    BY <2>1 DEF VacatedNext, FlushedWan
  <2> QED BY <1>1, <1>2, <1>4, <2>2
<1>5. CASE old # new /\ new = NoActive
  <2>1. Event(old, new) = "down"
    BY <1>1, <1>5, EventCases
  <2>2. /\ VacatedNext(g, old, new) = old
        /\ FlushedWan(g, old, new) = NoActive
    BY <2>1 DEF VacatedNext, FlushedWan
  <2> QED BY <1>1, <1>2, <1>5, <2>2
<1>6. CASE old # new /\ old # NoActive /\ new # NoActive
  <2>1. Event(old, new) = "switch"
    BY <1>6 DEF Event
  <2>2. /\ VacatedNext(g, old, new) = vacated[g]
        /\ FlushedWan(g, old, new) = old
    BY <2>1 DEF VacatedNext, FlushedWan
  <2> QED BY <1>1, <1>2, <1>6, <2>2
<1> QED BY <1>3, <1>4, <1>5, <1>6

(***************************************************************************)
(* Every step of the daemon is a handler, or starts or ends the process,   *)
(* or leaves everything but the kernel's tables alone.                     *)
(***************************************************************************)
Restart == (Bootstrap \/ Stop) /\ FreshMemory'

Elsewhere == UNCHANGED <<phase, memory, file, history>>

LEMMA StepCases ==
    ASSUME IndInv, [Next]_vars
    PROVE  HandlerEffect \/ Restart \/ Elsewhere
<1> USE DEF IndInv
<1>1. CASE Bootstrap \/ Stop
  BY <1>1, RestartFresh DEF Restart
<1>2. CASE PrimeAny
  BY <1>2, PrimeEffect
<1>3. CASE ProbeAny
  BY <1>3, ProbeEffect
<1>4. CASE LinkAny
  BY <1>4, LinkEffect
<1>5. CASE RouteAny
  BY <1>5, RouteEffect
<1>6. CASE \E i \in Ifaces, f \in Families : KernelFlush(i, f)
  BY <1>6 DEF KernelFlush, Elsewhere
<1>7. CASE UNCHANGED vars
  BY <1>7 DEF vars, Elsewhere, memory, history
<1> QED BY <1>1, <1>2, <1>3, <1>4, <1>5, <1>6, <1>7 DEF Next

LEMMA InitPubInv == Init => PubInv
BY DEF Init, PubInv, FreshStart, FreshMemory, HookNamesSelection, VacatedFlushed, NewGroup

LEMMA NextPubInv == IndInv /\ IndInv' /\ PubInv /\ [Next]_vars => PubInv'
<1> SUFFICES ASSUME IndInv, IndInv', PubInv, [Next]_vars PROVE PubInv'
  OBVIOUS
<1> USE DEF PubInv
<1>1. CASE HandlerEffect
  <2>1. TypeOK /\ TypeOK'
    BY DEF IndInv
  <2>2. FreshStart'
    BY <1>1 DEF HandlerEffect, FreshStart
  <2> QED BY <1>1, <2>1, <2>2, HandlerKeepsHooks, HandlerKeepsFlushed
<1>2. CASE Restart
  <2>1. /\ hook' = [g \in Groups |-> NoHook]
        /\ unflushed' = [g \in Groups |-> {}]
        /\ FreshMemory'
    BY <1>2 DEF Restart, Bootstrap, Stop, FreshStart
  <2>2. \A g \in Groups : group'[g].selection = NoActive
    BY <2>1 DEF FreshMemory, NewGroup
  <2> QED BY <2>1, <2>2 DEF FreshStart, HookNamesSelection, VacatedFlushed
<1>3. CASE Elsewhere
  BY <1>3 DEF Elsewhere, memory, history, FreshStart, FreshMemory,
              HookNamesSelection, VacatedFlushed
<1> QED BY <1>1, <1>2, <1>3, StepCases

LEMMA PubInvariance == Spec => []PubInv
BY Invariance, InitPubInv, NextPubInv, PTL DEF Spec

(* The last Hook of a Group names its Selection: no change goes unreported *)
(* and none is reported early (publishDecision, notifyHooks).              *)
THEOREM HooksFollowSelection == Spec => []HookNamesSelection
BY PubInvariance, PTL DEF PubInv

(* The conntrack entries of every WAN a Group left have been flushed, the  *)
(* one a down vacated excepted until the next up (publishDecision).        *)
THEOREM VacatedAreFlushed == Spec => []VacatedFlushed
BY PubInvariance, PTL DEF PubInv

(***************************************************************************)
(* The daemon implements Failover.                                         *)
(***************************************************************************)
LEMMA PromiseInit == Init => Promise!Init
<1> SUFFICES ASSUME Init PROVE Promise!Init
  OBVIOUS
<1>1. \A g \in Groups : Intent(group[g]) = NoActive /\ group[g].selection = NoActive
  BY NewGroupSound DEF Init, NewGroup
<1>2. \A g \in Groups : Select(g, HealthySet(health)) = NoActive
  BY <1>1, InitIndInv DEF IndInv, IntentFollowsHealth
<1> QED BY <1>1, <1>2 DEF Promise!Init, wanted, selected

(* A Group moves to what it wants now or not at all, and never stays on a  *)
(* WAN when it wants none: a Decision for none is never pending.           *)
LEMMA GroupMoves ==
    ASSUME IndInv, IndInv', HandlerEffect, NEW g \in Groups
    PROVE  /\ selected'[g] \in {selected[g], wanted'[g]}
           /\ wanted'[g] = NoActive => selected'[g] = NoActive
<1>1. PICK at, step, answer, early, late :
        Settle(at, step, answer, early, late) /\ SoundStep(group[g], step[g])
  BY DEF HandlerEffect, SettlingStep
<1>2. group'[g] = step[g].group
  BY <1>1 DEF Settle
<1>3. /\ selected[g] = group[g].selection /\ selected'[g] = group'[g].selection
      /\ wanted'[g] = Intent(group'[g])
  BY DEF selected, wanted, IndInv, IntentFollowsHealth
<1>4. group'[g].selection \in {group[g].selection, Intent(group'[g])}
  BY <1>1, <1>2 DEF SoundStep
<1>5. Intent(group'[g]) = NoActive => group'[g].selection = NoActive
  BY NoPendingNotActive DEF IndInv, TypeOK, GroupState, Intent
<1> QED BY <1>3, <1>4, <1>5

LEMMA PromiseStep ==
    IndInv /\ IndInv' /\ [Next]_vars => [Promise!Move]_<<wanted, selected>>
<1> SUFFICES ASSUME IndInv, IndInv', [Next]_vars
             PROVE  [Promise!Move]_<<wanted, selected>>
  OBVIOUS
<1>1. /\ wanted' \in [Groups -> Wans \cup {NoActive}]
      /\ selected' \in [Groups -> Wans \cup {NoActive}]
  BY SelectType DEF wanted, selected, IndInv, TypeOK, GroupState, Active
<1>2. CASE HandlerEffect
  BY <1>1, <1>2, GroupMoves DEF Promise!Move, Promise!Choice
<1>3. CASE Restart
  <2>1. \A g \in Groups : group'[g].selection = NoActive /\ Intent(group'[g]) = NoActive
    BY <1>3, NewGroupSound DEF Restart, FreshMemory, NewGroup
  <2>2. \A g \in Groups : selected'[g] = NoActive /\ wanted'[g] = NoActive
    BY <2>1 DEF selected, wanted, IndInv, IntentFollowsHealth
  <2> QED BY <1>1, <2>2 DEF Promise!Move, Promise!Choice
<1>4. CASE Elsewhere
  BY <1>4 DEF Elsewhere, memory, wanted, selected
<1> QED BY <1>2, <1>3, <1>4, StepCases

(* The daemon implements Failover: whatever fails and whenever it is       *)
(* restarted, a Selection only ever moves to the WAN its Strategy wants at *)
(* that moment, and to none at once (Group.Recompute, Probe and            *)
(* RouteObserved under the daemon's handlers).                             *)
THEOREM DaemonKeepsPromise == Spec => KeepsPromise
BY Invariance, PromiseInit, PromiseStep, PTL DEF Spec, KeepsPromise, Promise!Spec

(***************************************************************************)
(* Events that do not republish leave what state.json shows of Health.     *)
(***************************************************************************)
SameVerdicts(h, h2) ==
    \A w \in Wans :
        /\ h2[w].carrier = h[w].carrier
        /\ h2[w].operstate = h[w].operstate
        /\ \A f \in Probed[w] : /\ h2[w].family[f].cooked = h[w].family[f].cooked
                                /\ h2[w].family[f].healthy = h[w].family[f].healthy

LEMMA SameVerdictsSameView ==
    ASSUME NEW h, NEW h2, SameVerdicts(h, h2)
    PROVE  /\ HealthView(h2) = HealthView(h)
           /\ \A w \in Wans : Healthy(h2, w) = Healthy(h, w)
<1>1. ASSUME NEW w \in Wans
      PROVE  /\ Healthy(h2, w) = Healthy(h, w)
             /\ [f \in Probed[w] |-> h2[w].family[f].healthy]
                    = [f \in Probed[w] |-> h[w].family[f].healthy]
  <2>1. CarrierUp(h2[w]) = CarrierUp(h[w])
    BY DEF SameVerdicts, CarrierUp
  <2>2. \A f \in Probed[w] : Vote(h2[w].family[f]) = Vote(h[w].family[f])
    BY DEF SameVerdicts, Vote
  <2>3. CombineFamilies(w, h2[w]) = CombineFamilies(w, h[w])
    BY <2>2 DEF CombineFamilies
  <2>4. Healthy(h2, w) = Healthy(h, w)
    BY <2>1, <2>3 DEF Healthy
  <2>5. \A f \in Probed[w] : h2[w].family[f].healthy = h[w].family[f].healthy
    BY DEF SameVerdicts
  <2> QED BY <2>4, <2>5
<1>2. \A w \in Wans : h2[w].carrier = h[w].carrier /\ h2[w].operstate = h[w].operstate
  BY DEF SameVerdicts
<1>3. HealthView(h2) = HealthView(h)
  BY <1>1, <1>2, Zenon DEF HealthView
<1> QED BY <1>1, <1>3

LEMMA QuietLink ==
    ASSUME NEW h \in [Wans -> WanHealth], NEW i, NEW link, ~LinkRepublish(h, i, link)
    PROVE  LinkHealth(h, i, link) = h
<1>1. ASSUME NEW w \in Wans
      PROVE  LinkHealth(h, i, link)[w] = h[w]
  <2>1. CASE Interface[w] = i
    <3>1. link.carrier = h[w].carrier /\ link.operstate = h[w].operstate
      BY <2>1 DEF LinkRepublish
    <3>2. LinkHealth(h, i, link)[w] = [h[w] EXCEPT !.carrier = link.carrier,
                                                   !.operstate = link.operstate]
      BY <2>1 DEF LinkHealth
    <3>3. h[w] \in WanHealth
      OBVIOUS
    <3> QED BY <3>1, <3>2, <3>3 DEF WanHealth
  <2>2. CASE Interface[w] # i
    BY <2>2 DEF LinkHealth
  <2> QED BY <2>1, <2>2
<1>2. LinkHealth(h, i, link) = [w \in Wans |-> LinkHealth(h, i, link)[w]]
  BY DEF LinkHealth
<1> QED BY <1>1, <1>2

LEMMA QuietSnapshot ==
    ASSUME NEW h \in [Wans -> WanHealth], NEW links,
           \A i \in Ifaces : links[i] = NoLink \/ ~LinkRepublish(h, i, links[i])
    PROVE  LinkSnapshot(h, links) = h
<1>1. ASSUME NEW w \in Wans
      PROVE  LinkSnapshot(h, links)[w] = h[w]
  <2>1. Interface[w] \in Ifaces
    BY ConfigAssumption DEF ValidWan
  <2>2. CASE links[Interface[w]] = NoLink
    BY <2>2 DEF LinkSnapshot
  <2>3. CASE links[Interface[w]] # NoLink
    <3>1. LinkHealth(h, Interface[w], links[Interface[w]]) = h
      BY <2>1, <2>3, QuietLink
    <3> QED BY <2>3, <3>1 DEF LinkSnapshot
  <2> QED BY <2>2, <2>3
<1>2. LinkSnapshot(h, links) = [w \in Wans |-> LinkSnapshot(h, links)[w]]
  BY DEF LinkSnapshot
<1> QED BY <1>1, <1>2

LEMMA QuietProbe ==
    ASSUME NEW h \in [Wans -> WanHealth], NEW w \in Wans, NEW f \in Probed[w], NEW stats,
           ~ProbeRepublish(h, w, f, stats)
    PROVE  SameVerdicts(h, ProbeHealth(h, w, f, stats))
<1> DEFINE fs == h[w].family[f]
           new == Fold(w, fs, stats)
           h2 == ProbeHealth(h, w, f, stats)
<1>0. f \in Families
  BY ConfigAssumption DEF ValidWan
<1>1. CASE ~Folds(h, w, f, stats)
  BY <1>1 DEF ProbeHealth, SameVerdicts
<1>2. CASE Folds(h, w, f, stats)
  <2>1. fs.cooked /\ new.healthy = fs.healthy
    BY <1>2 DEF ProbeRepublish
  <2>2. fs \in FamilyHealth
    BY <1>0 DEF WanHealth
  <2>3. new.cooked = fs.cooked
    BY <2>1, <2>2 DEF Fold, Observe, FamilyHealth
  <2>4. h2 = [h EXCEPT ![w].family[f] = new]
    BY <1>2 DEF ProbeHealth
  <2> HIDE DEF new, h2
  <2>5. \A v \in Wans : /\ h2[v].carrier = h[v].carrier
                        /\ h2[v].operstate = h[v].operstate
    BY <2>4 DEF WanHealth
  <2>6. \A v \in Wans, k \in Families :
            h2[v].family[k] = IF v = w /\ k = f THEN new ELSE h[v].family[k]
    BY <2>4 DEF WanHealth
  <2>7. \A v \in Wans : Probed[v] \subseteq Families
    BY ConfigAssumption DEF ValidWan
  <2>8. SameVerdicts(h, h2)
    BY <2>1, <2>3, <2>5, <2>6, <2>7 DEF SameVerdicts
  <2> QED BY <2>8 DEF h2
<1> QED BY <1>1, <1>2

(***************************************************************************)
(* A retry, a Repair or an observed route that does not commit changes     *)
(* neither Selection nor Decision count.                                   *)
(***************************************************************************)
LEMMA QuietOperations ==
    ASSUME NEW gr, SoundGroup(gr), NEW ok \in BOOLEAN
    PROVE  /\ ~Commit(gr, ok).commit => GroupView(Commit(gr, ok).group) = GroupView(gr)
           /\ GroupView(Refresh(gr, ok).group) = GroupView(gr)
           /\ GroupView(Idle(gr).group) = GroupView(gr)
<1>1. ~Commit(gr, ok).commit => Commit(gr, ok).group = gr
  BY DEF Commit, Idle
<1>2. /\ Refresh(gr, ok).group.selection = gr.selection
      /\ Refresh(gr, ok).group.decisionsTotal = gr.decisionsTotal
  BY DEF Refresh, Idle, SoundGroup, GroupState
<1> QED BY <1>1, <1>2 DEF GroupView, Idle

LEMMA QuietProbeStep ==
    ASSUME NEW gr, SoundGroup(gr), NEW w, NEW ok \in BOOLEAN, ~Probe(gr, w, ok).commit
    PROVE  GroupView(Probe(gr, w, ok).group) = GroupView(gr)
<1>1. \/ Probe(gr, w, ok) = Commit(gr, ok)
      \/ Probe(gr, w, ok) = Refresh(gr, ok)
      \/ Probe(gr, w, ok) = Idle(gr)
  BY DEF Probe
<1> QED BY <1>1, QuietOperations

LEMMA QuietRouteStep ==
    ASSUME NEW gr, SoundGroup(gr), NEW on, NEW ok \in BOOLEAN,
           ~RouteObserved(gr, on, ok).commit
    PROVE  GroupView(RouteObserved(gr, on, ok).group) = GroupView(gr)
<1>1. \/ RouteObserved(gr, on, ok) = Commit(gr, ok)
      \/ RouteObserved(gr, on, ok) = Refresh(gr, ok)
      \/ RouteObserved(gr, on, ok) = Idle(gr)
  BY DEF RouteObserved
<1> QED BY <1>1, QuietOperations

(***************************************************************************)
(* A handler that writes nothing has changed nothing state.json shows.     *)
(***************************************************************************)
LEMMA SettleKeepsFile ==
    ASSUME StateFileCurrent, phase # "off",
           NEW at, NEW step, NEW answer, NEW early, NEW late,
           Settle(at, step, answer, early, late),
           ~early /\ ~late =>
               /\ HealthView(health') = HealthView(health)
               /\ gateways' = gateways
               /\ \A g \in Groups : ~step[g].commit =>
                      GroupView(step[g].group) = GroupView(group[g])
    PROVE  StateFileCurrent'
<1> DEFINE writes == early \/ late \/ \E g \in Groups : step[g].commit
<1>1. CASE file' = Snapshot(health', gateways', group')
  BY <1>1 DEF StateFileCurrent
<1>2. CASE stale'
  BY <1>2 DEF StateFileCurrent
<1>3. CASE ~writes /\ UNCHANGED <<file, stale>>
  <2>1. \A g \in Groups : GroupView(group'[g]) = GroupView(group[g])
    BY <1>3 DEF Settle
  <2>2. [g \in Groups |-> GroupView(group'[g])] = [g \in Groups |-> GroupView(group[g])]
    BY <2>1
  <2>3. Snapshot(health', gateways', group') = Snapshot(health, gateways, group)
    BY <1>3, <2>2 DEF Snapshot
  <2> QED BY <1>3, <2>3 DEF StateFileCurrent
<1>4. \/ file' = Snapshot(health', gateways', group')
      \/ stale'
      \/ ~writes /\ UNCHANGED <<file, stale>>
  BY DEF Settle, WriteState
<1> QED BY <1>1, <1>2, <1>3, <1>4

LEMMA RecomputeAffectedKeepsFile ==
    ASSUME StateFileCurrent, phase # "off", NEW flipped, NEW republish, NEW answer,
           RecomputeAffected(flipped, republish, answer),
           ~republish => /\ flipped = {}
                         /\ HealthView(health') = HealthView(health)
                         /\ gateways' = gateways
    PROVE  StateFileCurrent'
<1> DEFINE affected(g) == Members[g] \cap flipped # {}
           target(g) == Select(g, HealthySet(health'))
           at == [g \in Groups |-> IF affected(g)
                                     THEN RecomputeAttempt(group[g], target(g))
                                     ELSE NoAttempt]
           ok(g) == ApplyOk(gateways', at[g], answer[g])
           step == [g \in Groups |-> IF affected(g)
                                       THEN Recompute(group[g], target(g), ok(g))
                                       ELSE Idle(group[g])]
<1>1. Settle(at, step, answer, FALSE, republish)
  BY DEF RecomputeAffected
<1>2. ASSUME ~republish, NEW g \in Groups
      PROVE  GroupView(step[g].group) = GroupView(group[g])
  <2>1. step[g] = Idle(group[g])
    BY <1>2
  <2> QED BY <2>1 DEF Idle
<1> HIDE DEF at, step
<1> QED BY <1>1, <1>2, SettleKeepsFile

LEMMA RetryDecisionsKeepsFile ==
    ASSUME TypeOK, StateFileCurrent, phase # "off",
           NEW w \in Wans, NEW republish, NEW answer,
           RetryDecisions(w, republish, answer), gateways' = gateways,
           ~republish => HealthView(health') = HealthView(health)
    PROVE  StateFileCurrent'
<1> DEFINE at == [g \in Groups |-> ProbeAttempt(group[g], w)]
           ok(g) == ApplyOk(gateways', at[g], answer[g])
           step == [g \in Groups |-> Probe(group[g], w, ok(g))]
<1>1. Settle(at, step, answer, republish, FALSE)
  BY DEF RetryDecisions
<1>2. ASSUME NEW g \in Groups, ~step[g].commit
      PROVE  GroupView(step[g].group) = GroupView(group[g])
  <2>1. SoundGroup(group[g]) /\ ok(g) \in BOOLEAN /\ step[g] = Probe(group[g], w, ok(g))
    BY SoundGroups, ApplyOkBoolean
  <2> HIDE DEF ok, at, step
  <2> QED BY <1>2, <2>1, QuietProbeStep
<1> HIDE DEF at, step
<1> QED BY <1>1, <1>2, SettleKeepsFile

LEMMA RouteEventKeepsFile ==
    ASSUME TypeOK, StateFileCurrent,
           NEW i \in Ifaces, NEW f \in Families, NEW entry, NEW answer,
           HandleRouteEvent(i, f, entry, answer)
    PROVE  StateFileCurrent'
<1> DEFINE on == {w \in Wans : Interface[w] = i}
           at == [g \in Groups |-> RouteAttempt(group[g], on, f)]
           ok(g) == ApplyOk(gateways', at[g], answer[g])
           step == [g \in Groups |-> RouteObserved(group[g], on, ok(g))]
           changed == entry = NoEntry \/ gateways[i][f] # entry
<1>1. /\ Settle(at, step, answer, FALSE, changed)
      /\ health' = health /\ phase # "off"
      /\ gateways' = [gateways EXCEPT ![i][f] = entry]
  BY DEF HandleRouteEvent
<1>2. ~changed => gateways' = gateways
  BY <1>1 DEF TypeOK
<1>3. ASSUME NEW g \in Groups, ~step[g].commit
      PROVE  GroupView(step[g].group) = GroupView(group[g])
  <2>1. /\ SoundGroup(group[g]) /\ ok(g) \in BOOLEAN
        /\ step[g] = RouteObserved(group[g], on, ok(g))
    BY SoundGroups, ApplyOkBoolean
  <2> HIDE DEF ok, at, step, on
  <2> QED BY <1>3, <2>1, QuietRouteStep
<1> HIDE DEF at, step, changed
<1> QED BY <1>1, <1>2, <1>3, SettleKeepsFile

LEMMA ProbeKeepsFile ==
    ASSUME TypeOK, StateFileCurrent, ProbeAny
    PROVE  StateFileCurrent'
<1>0. PICK w \in Wans : \E f \in Probed[w], stats \in Stats, answer \in Answers :
              HandleProbeResult(w, f, stats, answer)
  BY DEF ProbeAny
<1>1. PICK f \in Probed[w], stats \in Stats, answer \in Answers :
              HandleProbeResult(w, f, stats, answer)
  BY <1>0
<1> DEFINE flipped == ProbeFlipped(health, w, f, stats)
           republish == ProbeRepublish(health, w, f, stats)
<1>2. /\ phase # "off" /\ gateways' = gateways
      /\ health' = ProbeHealth(health, w, f, stats)
      /\ \/ RecomputeAffected(flipped, republish, answer)
         \/ RetryDecisions(w, republish, answer)
  BY <1>1 DEF HandleProbeResult
<1>3. ASSUME ~republish
      PROVE  flipped = {} /\ HealthView(health') = HealthView(health)
  <2>1. SameVerdicts(health, ProbeHealth(health, w, f, stats))
    BY <1>3, QuietProbe DEF TypeOK
  <2>2. /\ HealthView(ProbeHealth(health, w, f, stats)) = HealthView(health)
        /\ \A v \in Wans : Healthy(ProbeHealth(health, w, f, stats), v) = Healthy(health, v)
    BY <2>1, SameVerdictsSameView
  <2> QED BY <1>2, <2>2 DEF ProbeFlipped
<1> HIDE DEF flipped, republish
<1> QED BY <1>2, <1>3, RecomputeAffectedKeepsFile, RetryDecisionsKeepsFile

LEMMA LinkKeepsFile ==
    ASSUME TypeOK, StateFileCurrent, LinkAny
    PROVE  StateFileCurrent'
<1>1. PICK i \in Ifaces, link \in LinkStates, answer \in Answers :
              HandleLinkEvent(i, link, answer)
  BY DEF LinkAny
<1> DEFINE flipped == LinkFlipped(health, i, link)
           republish == LinkRepublish(health, i, link)
<1>2. /\ phase # "off" /\ gateways' = gateways
      /\ health' = LinkHealth(health, i, link)
      /\ RecomputeAffected(flipped, republish, answer)
  BY <1>1 DEF HandleLinkEvent
<1>3. ASSUME ~republish
      PROVE  flipped = {} /\ health' = health
  <2>1. LinkHealth(health, i, link) = health
    BY <1>3, QuietLink DEF TypeOK
  <2> QED BY <1>2, <2>1 DEF LinkFlipped
<1> HIDE DEF flipped, republish
<1> QED BY <1>2, <1>3, RecomputeAffectedKeepsFile

LEMMA PrimeKeepsFile ==
    ASSUME TypeOK, StateFileCurrent, PrimeAny
    PROVE  StateFileCurrent'
<1>1. PICK routes \in [Ifaces -> [Families -> CacheEntry]],
           links \in [Ifaces -> LinkStates \cup {NoLink}], answer \in Answers :
              Prime(routes, links, answer)
  BY DEF PrimeAny
<1> DEFINE flipped == {w \in Wans : Healthy(health', w) # Healthy(health, w)}
           republish == \/ \E i \in Ifaces, f \in Families : routes[i][f] # NoEntry
                        \/ \E i \in Ifaces : /\ links[i] # NoLink
                                             /\ LinkRepublish(health, i, links[i])
<1>2. /\ phase # "off" /\ health' = LinkSnapshot(health, links)
      /\ gateways' = [i \in Ifaces |-> [f \in Families |->
                         IF routes[i][f] = NoEntry THEN gateways[i][f]
                                                   ELSE routes[i][f]]]
      /\ RecomputeAffected(flipped, republish, answer)
  BY <1>1 DEF Prime
<1>3. ASSUME ~republish
      PROVE  flipped = {} /\ health' = health /\ gateways' = gateways
  <2>1. LinkSnapshot(health, links) = health
    BY <1>3, QuietSnapshot DEF TypeOK
  <2>2. gateways' = [i \in Ifaces |-> [f \in Families |-> gateways[i][f]]]
    BY <1>2, <1>3
  <2>3. gateways' = gateways
    BY <2>2 DEF TypeOK
  <2> QED BY <1>2, <2>1, <2>3
<1> HIDE DEF flipped, republish
<1> QED BY <1>2, <1>3, RecomputeAffectedKeepsFile

LEMMA NextKeepsFile == IndInv /\ StateFileCurrent /\ [Next]_vars => StateFileCurrent'
<1> SUFFICES ASSUME IndInv, StateFileCurrent, [Next]_vars
             PROVE  StateFileCurrent'
  OBVIOUS
<1>0. TypeOK
  BY DEF IndInv
<1>1. CASE Bootstrap
  BY <1>1 DEF Bootstrap, StateFileCurrent
<1>2. CASE Stop
  BY <1>2 DEF Stop, StateFileCurrent
<1>3. CASE PrimeAny
  BY <1>0, <1>3, PrimeKeepsFile
<1>4. CASE ProbeAny
  BY <1>0, <1>4, ProbeKeepsFile
<1>5. CASE LinkAny
  BY <1>0, <1>5, LinkKeepsFile
<1>6. CASE RouteAny
  <2>0. PICK i \in Ifaces : \E f \in Families, entry \in Observable(i), answer \in Answers :
                HandleRouteEvent(i, f, entry, answer)
    BY <1>6 DEF RouteAny
  <2>1. PICK f \in Families, entry \in Observable(i), answer \in Answers :
                HandleRouteEvent(i, f, entry, answer)
    BY <2>0
  <2> QED BY <1>0, <2>1, RouteEventKeepsFile
<1>7. CASE \E i \in Ifaces, f \in Families : KernelFlush(i, f)
  BY <1>7 DEF KernelFlush, memory, history, StateFileCurrent
<1>8. CASE UNCHANGED vars
  BY <1>8 DEF vars, StateFileCurrent
<1> QED BY <1>1, <1>2, <1>3, <1>4, <1>5, <1>6, <1>7, <1>8 DEF Next

(* Unless writing it failed, state.json shows between two handlers the     *)
(* Health, Gateways, Selections and Decision counts the daemon holds: the  *)
(* handlers that do not rewrite it change none of them                     *)
(* (publishHealthChange, publishDecision, handleRouteEvent).               *)
THEOREM StateFileStaysCurrent == Spec => []StateFileCurrent
<1>1. Init => StateFileCurrent
  BY DEF Init, StateFileCurrent
<1> QED BY <1>1, Invariance, NextKeepsFile, PTL DEF Spec

(***************************************************************************)
(* The routing tables.                                                     *)
(***************************************************************************)
(***************************************************************************)
(* What one Apply does to a table.                                         *)
(***************************************************************************)
LEMMA ProbedFamilies ==
    ASSUME NEW w \in Wans
    PROVE  Probed[w] \subseteq Families
BY ConfigAssumption DEF ValidWan

LEMMA ApplyWrites ==
    ASSUME NEW gw, NEW w \in Wans, NEW S, NEW answer, NEW row,
           ApplyOk(gw, Attempt(w, S), answer),
           NEW f \in S \cap Probed[w], Routable(gw, w, f)
    PROVE  Applied(gw, Attempt(w, S), answer, row)[f] = RouteOf(gw, w, f)
<1> DEFINE at == Attempt(w, S)
<1>1. at.wan = w /\ at.families = S /\ w # NoActive /\ f \in Families
  BY NoPendingNotActive, ProbedFamilies DEF Attempt
<1>2. f \in ToWrite(gw, at)
  BY <1>1 DEF ToWrite
<1>3. answer.ifindex /\ f \in answer.writes
  BY <1>1, <1>2 DEF ApplyOk
<1> QED BY <1>1, <1>2, <1>3 DEF Applied

LEMMA ApplyKeeps ==
    ASSUME NEW gw, NEW at, NEW answer, NEW row, NEW f \in Families,
           at.wan = NoActive \/ f \notin at.families
    PROVE  Applied(gw, at, answer, row)[f] = row[f]
BY DEF Applied, ToWrite

(* A full Apply that succeeds leaves its WAN's Group converged.            *)
LEMMA FullApplyConverges ==
    ASSUME NEW gr, NEW gw, NEW answer, NEW row, gr.selection \in Wans,
           ApplyOk(gw, Attempt(gr.selection, Families), answer)
    PROVE  Converged(gr, gw, Applied(gw, Attempt(gr.selection, Families), answer, row))
<1> DEFINE w == gr.selection
           at == Attempt(w, Families)
<1>1. ASSUME NEW f \in Probed[w], Routable(gw, w, f)
      PROVE  Applied(gw, at, answer, row)[f] = RouteOf(gw, w, f)
  <2>1. f \in Families \cap Probed[w]
    BY ProbedFamilies
  <2> QED BY <1>1, <2>1, ApplyWrites
<1> QED BY <1>1 DEF Converged

(* With no attempt and the same Gateways nothing changes.                  *)
LEMMA IdleConverges ==
    ASSUME NEW gr, SoundGroup(gr), NEW gw, NEW gw2, NEW answer, NEW row,
           Converged(gr, gw, row), gw2 = gw \/ gr.selection = NoActive
    PROVE  Converged(gr, gw2, Applied(gw2, NoAttempt, answer, row))
<1>1. CASE gr.selection = NoActive
  BY <1>1 DEF Converged
<1>2. CASE gr.selection # NoActive /\ gw2 = gw
  <2>1. gr.selection \in Wans
    BY <1>2 DEF SoundGroup, GroupState, Active
  <2>2. \A f \in Probed[gr.selection] : Applied(gw2, NoAttempt, answer, row)[f] = row[f]
    BY <2>1, ProbedFamilies, ApplyKeeps DEF NoAttempt, Attempt
  <2> QED BY <1>2, <2>2 DEF Converged
<1> QED BY <1>1, <1>2

(***************************************************************************)
(* The operations of a Decision module, with their attempt.                *)
(***************************************************************************)
LEMMA CommitConverges ==
    ASSUME NEW gr, SoundGroup(gr), gr.pending \in Wans, NEW gw, NEW answer, NEW row
    PROVE  LET at == Attempt(gr.pending, Families)
           IN  Converged(Commit(gr, ApplyOk(gw, at, answer)).group, gw,
                         Applied(gw, at, answer, row))
<1> DEFINE at == Attempt(gr.pending, Families)
           ok == ApplyOk(gw, at, answer)
           next == Commit(gr, ok).group
<1>0. ok \in BOOLEAN
  BY ApplyOkBoolean
<1>1. CASE ~ok
  <2>1. next = gr
    BY <1>1, NoPendingNotActive DEF Commit, Idle
  <2> QED BY <2>1, NoPendingNotActive DEF Converged
<1>2. CASE ok
  <2>1. next.selection = gr.pending
    BY <1>2 DEF Commit, SoundGroup, GroupState
  <2>2. next.selection \in Wans /\ ApplyOk(gw, Attempt(next.selection, Families), answer)
    BY <1>2, <2>1
  <2>3. Converged(next, gw, Applied(gw, Attempt(next.selection, Families), answer, row))
    <3> HIDE DEF next
    <3> QED BY <2>2, FullApplyConverges
  <2> QED BY <2>1, <2>3
<1> QED BY <1>1, <1>2

LEMMA RecomputeConverges ==
    ASSUME NEW gr, SoundGroup(gr), NEW target \in Active,
           NEW gw, NEW gw2, NEW answer, NEW row, Converged(gr, gw, row),
           gw2 = gw \/ gr.selection = NoActive
    PROVE  LET at == RecomputeAttempt(gr, target)
           IN  Converged(Recompute(gr, target, ApplyOk(gw2, at, answer)).group, gw2,
                         Applied(gw2, at, answer, row))
<1> DEFINE at == RecomputeAttempt(gr, target)
           ok == ApplyOk(gw2, at, answer)
           next == Recompute(gr, target, ok).group
           row2 == Applied(gw2, at, answer, row)
<1>1. CASE target = Intent(gr)
  <2>1. next = gr /\ at = NoAttempt
    BY <1>1 DEF Recompute, Idle, RecomputeAttempt
  <2> QED BY <2>1, IdleConverges
<1>2. CASE target # Intent(gr) /\ target = NoActive
  <2>1. next.selection = NoActive
    BY <1>2 DEF Recompute, Commit, SoundGroup, GroupState
  <2> QED BY <2>1 DEF Converged
<1>3. CASE target # Intent(gr) /\ target # NoActive
  <2> DEFINE mid == [gr EXCEPT !.pending = target, !.decisionsTotal = @ + 1]
  <2>1. next = Commit(mid, ok).group /\ at = Attempt(target, Families)
    BY <1>3 DEF Recompute, RecomputeAttempt
  <2>2. target \in Wans /\ mid.pending = target
    BY <1>3 DEF Active, SoundGroup, GroupState
  <2>3. SoundGroup(mid)
    <3>1. gr \in GroupState /\ gr.decisionsTotal + 1 \in Nat
      BY DEF SoundGroup, GroupState
    <3>2. mid \in GroupState
      BY <2>2, <3>1 DEF GroupState
    <3>3. mid.repairDue = gr.repairDue /\ mid.selection = gr.selection
      BY <3>1 DEF GroupState
    <3> HIDE DEF mid
    <3> QED BY <3>2, <3>3, Zenon DEF SoundGroup
  <2> HIDE DEF mid
  <2>4. Converged(Commit(mid, ApplyOk(gw2, Attempt(mid.pending, Families), answer)).group,
                  gw2, Applied(gw2, Attempt(mid.pending, Families), answer, row))
    BY <2>2, <2>3, CommitConverges
  <2> QED BY <2>1, <2>2, <2>4
<1> QED BY <1>1, <1>2, <1>3

(* A refresh that rewrites everything leaves the Selection converged, or   *)
(* has a Repair due.                                                       *)
LEMMA RefreshAllConverges ==
    ASSUME NEW gr, SoundGroup(gr), gr.selection \in Wans,
           NEW gw, NEW answer, NEW row
    PROVE  LET at == Attempt(gr.selection, Families)
           IN  Converged(Refresh(gr, ApplyOk(gw, at, answer)).group, gw,
                         Applied(gw, at, answer, row))
<1> DEFINE at == Attempt(gr.selection, Families)
           ok == ApplyOk(gw, at, answer)
           next == Refresh(gr, ok).group
           row2 == Applied(gw, at, answer, row)
<1>1. ok \in BOOLEAN
  BY ApplyOkBoolean
<1>2. next.selection = gr.selection /\ next.repairDue = ~ok
  BY DEF Refresh, Idle, SoundGroup, GroupState
<1> HIDE DEF next, ok
<1>3. CASE ok
  <2>1. ApplyOk(gw, Attempt(next.selection, Families), answer)
    BY <1>2, <1>3 DEF ok
  <2>2. Converged(next, gw, Applied(gw, Attempt(next.selection, Families), answer, row))
    BY <1>2, <2>1, FullApplyConverges
  <2> QED BY <1>2, <2>2 DEF next, ok
<1>4. CASE ~ok
  <2>1. next.repairDue
    BY <1>2, <1>4
  <2>2. Converged(next, gw, row2)
    BY <2>1 DEF Converged
  <2> QED BY <2>2 DEF next, ok
<1> QED BY <1>1, <1>3, <1>4

LEMMA ProbeConverges ==
    ASSUME NEW gr, SoundGroup(gr), NEW w \in Wans, NEW gw, NEW answer, NEW row,
           Converged(gr, gw, row)
    PROVE  LET at == ProbeAttempt(gr, w)
           IN  Converged(Probe(gr, w, ApplyOk(gw, at, answer)).group, gw,
                         Applied(gw, at, answer, row))
<1> DEFINE at == ProbeAttempt(gr, w)
           ok == ApplyOk(gw, at, answer)
           next == Probe(gr, w, ok).group
<1>1. CASE RetryDue(gr, w)
  <2>1. gr.pending = w /\ at = Attempt(w, Families) /\ next = Commit(gr, ok).group
    BY <1>1, NoPendingNotActive DEF RetryDue, RepairDue, ProbeAttempt, Probe
  <2> QED BY <2>1, CommitConverges
<1>2. CASE RepairDue(gr, w) /\ ~RetryDue(gr, w)
  <2>1. /\ gr.selection = w /\ at = Attempt(w, Families)
        /\ next = Refresh(gr, ok).group
    BY <1>2 DEF RepairDue, ProbeAttempt, Probe, RefreshAttempt
  <2> QED BY <2>1, RefreshAllConverges
<1>3. CASE ~RepairDue(gr, w) /\ ~RetryDue(gr, w)
  <2>1. at = NoAttempt /\ next = gr
    BY <1>3 DEF ProbeAttempt, Probe, Idle
  <2> QED BY <2>1, IdleConverges
<1> QED BY <1>1, <1>2, <1>3

(* A refresh of one Family is enough when the others are in place and only *)
(* that Family's Gateway changed.                                          *)
LEMMA RefreshOneConverges ==
    ASSUME NEW gr, SoundGroup(gr), gr.selection \in Wans, ~gr.repairDue,
           gr.pending = NoPending, NEW f \in Families,
           NEW gw, NEW gw2, NEW answer, NEW row, Converged(gr, gw, row),
           \A k \in Families \ {f} :
               gw2[Interface[gr.selection]][k] = gw[Interface[gr.selection]][k]
    PROVE  LET at == Attempt(gr.selection, {f})
           IN  Converged(Refresh(gr, ApplyOk(gw2, at, answer)).group, gw2,
                         Applied(gw2, at, answer, row))
<1> DEFINE w == gr.selection
           at == Attempt(w, {f})
           ok == ApplyOk(gw2, at, answer)
           next == Refresh(gr, ok).group
           row2 == Applied(gw2, at, answer, row)
<1>1. ok \in BOOLEAN
  BY ApplyOkBoolean
<1>2. next.selection = w /\ next.repairDue = ~ok
  BY DEF Refresh, Idle, SoundGroup, GroupState
<1>3. CASE ok
  <2>1. ASSUME NEW k \in Probed[w], Routable(gw2, w, k)
        PROVE  row2[k] \in {RouteOf(gw2, w, k), Removed}
    <3>1. k \in Families
      BY ProbedFamilies
    <3>2. CASE k = f
      <4>1. k \in {f} \cap Probed[w]
        BY <3>2
      <4> QED BY <1>3, <2>1, <4>1, ApplyWrites
    <3>3. CASE k # f
      <4>1. row2[k] = row[k]
        BY <3>1, <3>3, ApplyKeeps DEF Attempt
      <4>2. Routable(gw, w, k) /\ RouteOf(gw, w, k) = RouteOf(gw2, w, k)
        BY <2>1, <3>1, <3>3 DEF Routable, RouteOf
      <4>3. row[k] \in {RouteOf(gw, w, k), Removed}
        BY <4>2, NoPendingNotActive DEF Converged
      <4> QED BY <4>1, <4>2, <4>3
    <3> QED BY <3>2, <3>3
  <2> HIDE DEF next, ok, row2
  <2>2. Converged(next, gw2, row2)
    BY <1>2, <2>1 DEF Converged
  <2> QED BY <2>2 DEF next, ok, row2
<1>4. CASE ~ok
  <2> HIDE DEF next, ok, row2
  <2>1. next.repairDue
    BY <1>2, <1>4
  <2>2. Converged(next, gw2, row2)
    BY <2>1 DEF Converged
  <2> QED BY <2>2 DEF next, ok, row2
<1> QED BY <1>1, <1>3, <1>4

LEMMA RouteObservedConverges ==
    ASSUME NEW gr, SoundGroup(gr), NEW i, NEW f \in Families,
           NEW gw, NEW gw2, NEW answer, NEW row, Converged(gr, gw, row),
           \A j \in Ifaces : \A k \in Families :
               j # i \/ k # f => gw2[j][k] = gw[j][k]
    PROVE  LET on == {w \in Wans : Interface[w] = i}
               at == RouteAttempt(gr, on, f)
           IN  Converged(RouteObserved(gr, on, ApplyOk(gw2, at, answer)).group, gw2,
                         Applied(gw2, at, answer, row))
<1> DEFINE on == {w \in Wans : Interface[w] = i}
           at == RouteAttempt(gr, on, f)
           ok == ApplyOk(gw2, at, answer)
           next == RouteObserved(gr, on, ok).group
           row2 == Applied(gw2, at, answer, row)
<1>0. gr.selection \in Active /\ gr.pending \in Wans \cup {NoPending}
  BY DEF SoundGroup, GroupState
<1>1. CASE Intent(gr) \notin on
  <2>1. at = NoAttempt /\ next = gr
    BY <1>1 DEF RouteAttempt, RouteObserved, Idle
  <2>2. CASE gr.selection = NoActive \/ gr.pending # NoPending
    <3>1. Converged(gr, gw2, row2)
      BY <2>2 DEF Converged
    <3> QED BY <2>1, <3>1
  <2>3. CASE gr.selection # NoActive /\ gr.pending = NoPending
    <3> DEFINE w == gr.selection
    <3>1. w \in Wans /\ Interface[w] # i /\ Interface[w] \in Ifaces
      BY <1>0, <1>1, <2>3, ConfigAssumption DEF Intent, Active, ValidWan
    <3>2. ASSUME NEW k \in Probed[w]
          PROVE  /\ Applied(gw2, NoAttempt, answer, row)[k] = row[k]
                 /\ gw2[Interface[w]][k] = gw[Interface[w]][k]
      BY <3>1, ProbedFamilies, ApplyKeeps DEF NoAttempt, Attempt
    <3>3. \A k \in Probed[w] : /\ Routable(gw2, w, k) <=> Routable(gw, w, k)
                               /\ RouteOf(gw2, w, k) = RouteOf(gw, w, k)
      BY <3>2 DEF Routable, RouteOf
    <3>4. Converged(gr, gw2, Applied(gw2, NoAttempt, answer, row))
      BY <3>2, <3>3 DEF Converged
    <3> QED BY <2>1, <3>4
  <2> QED BY <2>2, <2>3
<1>2. CASE Intent(gr) \in on /\ gr.pending # NoPending
  <2>1. at = Attempt(gr.pending, Families) /\ next = Commit(gr, ok).group
    BY <1>2 DEF RouteAttempt, RouteObserved
  <2> QED BY <1>0, <1>2, <2>1, CommitConverges
<1>3. CASE Intent(gr) \in on /\ gr.pending = NoPending /\ gr.repairDue
  <2>1. /\ at = Attempt(gr.selection, Families) /\ next = Refresh(gr, ok).group
        /\ gr.selection \in Wans
    BY <1>3 DEF RouteAttempt, RouteObserved, RefreshAttempt, Intent
  <2> QED BY <2>1, RefreshAllConverges
<1>4. CASE Intent(gr) \in on /\ gr.pending = NoPending /\ ~gr.repairDue
  <2>1. /\ at = Attempt(gr.selection, {f}) /\ next = Refresh(gr, ok).group
        /\ gr.selection \in Wans
    BY <1>4 DEF RouteAttempt, RouteObserved, RefreshAttempt, Intent
  <2>2. Interface[gr.selection] \in Ifaces
    BY <2>1, ConfigAssumption DEF ValidWan
  <2>3. \A k \in Families \ {f} :
            gw2[Interface[gr.selection]][k] = gw[Interface[gr.selection]][k]
    BY <2>2
  <2> QED BY <1>4, <2>1, <2>3, RefreshOneConverges
<1> QED BY <1>1, <1>2, <1>3, <1>4

(***************************************************************************)
(* The handlers.                                                           *)
(***************************************************************************)
LEMMA RecomputeAffectedConverges ==
    ASSUME TypeOK, TableConverged, NEW flipped, NEW republish, NEW answer,
           RecomputeAffected(flipped, republish, answer),
           gateways' = gateways \/ \A g \in Groups : group[g].selection = NoActive
    PROVE  TableConverged'
<1> SUFFICES ASSUME NEW g \in Groups
             PROVE  Converged(group'[g], gateways', table'[g])
  BY DEF TableConverged
<1> DEFINE target == Select(g, HealthySet(health'))
           at == RecomputeAttempt(group[g], target)
<1>1. /\ SoundGroup(group[g]) /\ target \in Active
      /\ Converged(group[g], gateways, table[g])
      /\ gateways' = gateways \/ group[g].selection = NoActive
  BY SoundGroups, SelectType DEF TableConverged
<1>2. CASE Members[g] \cap flipped # {}
  <2>1. /\ group'[g] = Recompute(group[g], target, ApplyOk(gateways', at, answer[g])).group
        /\ table'[g] = Applied(gateways', at, answer[g], table[g])
    BY <1>2 DEF RecomputeAffected, Settle
  <2> HIDE DEF target
  <2> QED BY <1>1, <2>1, RecomputeConverges
<1>3. CASE ~(Members[g] \cap flipped # {})
  <2>1. /\ group'[g] = Idle(group[g]).group
        /\ table'[g] = Applied(gateways', NoAttempt, answer[g], table[g])
    BY <1>3 DEF RecomputeAffected, Settle
  <2>2. group'[g] = group[g]
    BY <2>1 DEF Idle
  <2> HIDE DEF target
  <2> QED BY <1>1, <2>1, <2>2, IdleConverges
<1> QED BY <1>2, <1>3

LEMMA RetryDecisionsConverges ==
    ASSUME TypeOK, TableConverged, NEW w \in Wans, NEW republish, NEW answer,
           RetryDecisions(w, republish, answer), gateways' = gateways
    PROVE  TableConverged'
<1> SUFFICES ASSUME NEW g \in Groups
             PROVE  Converged(group'[g], gateways', table'[g])
  BY DEF TableConverged
<1> DEFINE at == ProbeAttempt(group[g], w)
<1>1. SoundGroup(group[g]) /\ Converged(group[g], gateways, table[g])
  BY SoundGroups DEF TableConverged
<1>2. /\ group'[g] = Probe(group[g], w, ApplyOk(gateways, at, answer[g])).group
      /\ table'[g] = Applied(gateways, at, answer[g], table[g])
  BY DEF RetryDecisions, Settle
<1> QED BY <1>1, <1>2, ProbeConverges

LEMMA RouteEventConverges ==
    ASSUME TypeOK, TableConverged,
           NEW i \in Ifaces, NEW f \in Families, NEW entry, NEW answer,
           HandleRouteEvent(i, f, entry, answer)
    PROVE  TableConverged'
<1> SUFFICES ASSUME NEW g \in Groups
             PROVE  Converged(group'[g], gateways', table'[g])
  BY DEF TableConverged
<1> DEFINE on == {w \in Wans : Interface[w] = i}
           at == RouteAttempt(group[g], on, f)
<1>1. SoundGroup(group[g]) /\ Converged(group[g], gateways, table[g])
  BY SoundGroups DEF TableConverged
<1>2. /\ group'[g] = RouteObserved(group[g], on, ApplyOk(gateways', at, answer[g])).group
      /\ table'[g] = Applied(gateways', at, answer[g], table[g])
  BY DEF HandleRouteEvent, Settle
<1>3. \A j \in Ifaces : \A k \in Families :
          j # i \/ k # f => gateways'[j][k] = gateways[j][k]
  BY DEF HandleRouteEvent, TypeOK
<1> QED BY <1>1, <1>2, <1>3, RouteObservedConverges

LEMMA KernelFlushConverges ==
    ASSUME TypeOK, TableConverged, NEW i, NEW f \in Families, KernelFlush(i, f)
    PROVE  TableConverged'
<1> SUFFICES ASSUME NEW g \in Groups
             PROVE  Converged(group'[g], gateways', table'[g])
  BY DEF TableConverged
<1>1. /\ group'[g] = group[g] /\ gateways' = gateways
      /\ Converged(group[g], gateways, table[g])
  BY DEF KernelFlush, memory, TableConverged
<1>2. \A k \in Families : table'[g][k] \in {table[g][k], Removed}
  BY DEF KernelFlush, TypeOK
<1>3. \A w \in Wans : Probed[w] \subseteq Families
  BY ProbedFamilies
<1>4. group[g].selection \in Active
  BY DEF TypeOK, GroupState
<1> QED BY <1>1, <1>2, <1>3, <1>4 DEF Converged, Active

(* Without a Selection there is nothing to converge.                       *)
LEMMA FreshConverges ==
    ASSUME FreshMemory
    PROVE  TableConverged
BY DEF FreshMemory, TableConverged, Converged, NewGroup

LEMMA NextConverges == IndInv /\ PubInv /\ TableConverged /\ [Next]_vars => TableConverged'
<1> SUFFICES ASSUME IndInv, PubInv, TableConverged, [Next]_vars
             PROVE  TableConverged'
  OBVIOUS
<1>0. TypeOK
  BY DEF IndInv
<1>1. CASE Bootstrap \/ Stop
  BY <1>1, RestartFresh, FreshConverges, PTL
<1>2. CASE PrimeAny
  <2>1. PICK routes \in [Ifaces -> [Families -> CacheEntry]],
             links \in [Ifaces -> LinkStates \cup {NoLink}], answer \in Answers :
                Prime(routes, links, answer)
    BY <1>2 DEF PrimeAny
  <2>2. \E flipped, republish : RecomputeAffected(flipped, republish, answer)
    BY <2>1 DEF Prime
  <2>3. \A g \in Groups : group[g].selection = NoActive
    BY <2>1 DEF Prime, PubInv, FreshStart, FreshMemory, NewGroup
  <2> QED BY <1>0, <2>2, <2>3, RecomputeAffectedConverges
<1>3. CASE ProbeAny
  <2>0. PICK w \in Wans : \E f \in Probed[w], stats \in Stats, answer \in Answers :
                HandleProbeResult(w, f, stats, answer)
    BY <1>3 DEF ProbeAny
  <2>1. PICK f \in Probed[w], stats \in Stats, answer \in Answers :
                HandleProbeResult(w, f, stats, answer)
    BY <2>0
  <2> DEFINE flipped == ProbeFlipped(health, w, f, stats)
             republish == ProbeRepublish(health, w, f, stats)
  <2>2. /\ gateways' = gateways
        /\ \/ RecomputeAffected(flipped, republish, answer)
           \/ RetryDecisions(w, republish, answer)
    BY <2>1 DEF HandleProbeResult
  <2> HIDE DEF flipped, republish
  <2> QED BY <1>0, <2>2, RecomputeAffectedConverges, RetryDecisionsConverges
<1>4. CASE LinkAny
  <2>1. PICK i \in Ifaces, link \in LinkStates, answer \in Answers :
                HandleLinkEvent(i, link, answer)
    BY <1>4 DEF LinkAny
  <2>2. /\ gateways' = gateways
        /\ \E flipped, republish : RecomputeAffected(flipped, republish, answer)
    BY <2>1 DEF HandleLinkEvent
  <2> QED BY <1>0, <2>2, RecomputeAffectedConverges
<1>5. CASE RouteAny
  <2>0. PICK i \in Ifaces : \E f \in Families, entry \in Observable(i), answer \in Answers :
                HandleRouteEvent(i, f, entry, answer)
    BY <1>5 DEF RouteAny
  <2>1. PICK f \in Families, entry \in Observable(i), answer \in Answers :
                HandleRouteEvent(i, f, entry, answer)
    BY <2>0
  <2> QED BY <1>0, <2>1, RouteEventConverges
<1>6. CASE \E i \in Ifaces, f \in Families : KernelFlush(i, f)
  BY <1>0, <1>6, KernelFlushConverges
<1>7. CASE UNCHANGED vars
  BY <1>7 DEF vars, TableConverged
<1> QED BY <1>1, <1>2, <1>3, <1>4, <1>5, <1>6, <1>7 DEF Next

(* Whatever the kernel rejects and in whatever order events arrive, a      *)
(* Group with nothing pending and no Repair due has its Selection's routes *)
(* in its table, except those the kernel removed (applyRoutes, refresh).   *)
THEOREM TablesConverge == Spec => []TableConverged
<1>1. Init => TableConverged
  BY FreshConverges DEF Init, FreshMemory
<1> QED BY <1>1, Invariance, PubInvariance, NextConverges, PTL DEF Spec
=============================================================================
