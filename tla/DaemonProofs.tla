---------------------------- MODULE DaemonProofs ----------------------------
(***************************************************************************)
(* The daemon's invariants, for every configuration Validate accepts and   *)
(* for every sequence of events, kernel answers, crashes and restarts.     *)
(***************************************************************************)
EXTENDS Daemon, TLAPS, WellFoundedInduction

(***************************************************************************)
(* The Strategy.                                                           *)
(***************************************************************************)
(* Every non-empty set of natural numbers has a least element.             *)
LEMMA LeastNat ==
    ASSUME NEW S \in SUBSET Nat, S # {}
    PROVE  \E m \in S : \A n \in S : m <= n
<1> DEFINE less == {ss \in Nat \X Nat : ss[1] < ss[2]}
<1>1. IsWellFoundedOn(less, Nat)
  BY NatLessThanWellFounded, Zenon DEF OpToRel
<1> HIDE DEF less
<1>2. PICK m \in S : \A n \in S : ~(<<n, m>> \in less)
  BY <1>1, WFMin, Zenon
<1>3. \A n \in S : ~(n < m)
  BY <1>2 DEF less
<1> QED BY <1>3

(* A non-empty set of WANs has a first one in primaryBackup's sort order.  *)
LEMMA FirstExists ==
    ASSUME NEW g \in Groups, NEW T \in SUBSET Wans, T # {}
    PROVE  \E w \in T : \A v \in T : Preferred(g, w, v)
<1> USE ConfigAssumption DEF ValidGroup
<1> DEFINE priorities == {Priority[g][v] : v \in T}
<1>1. PICK u \in T : \A v \in T : Priority[g][u] <= Priority[g][v]
  <2>1. priorities \in SUBSET Nat /\ priorities # {}
    OBVIOUS
  <2>2. PICK m \in priorities : \A n \in priorities : m <= n
    <3> HIDE DEF priorities
    <3> QED BY <2>1, LeastNat
  <2> QED BY <2>2
<1> DEFINE ties == {v \in T : Priority[g][v] = Priority[g][u]}
           ranks == {NameRank[v] : v \in ties}
<1>2. PICK w \in ties : \A v \in ties : NameRank[w] <= NameRank[v]
  <2>1. ranks \in SUBSET Nat /\ ranks # {}
    OBVIOUS
  <2>2. PICK m \in ranks : \A n \in ranks : m <= n
    <3> HIDE DEF ranks
    <3> QED BY <2>1, LeastNat
  <2> QED BY <2>2
<1>3. \A v \in T : Preferred(g, w, v)
  <2> TAKE v \in T
  <2>1. /\ Priority[g][u] \in Nat /\ Priority[g][v] \in Nat
        /\ Priority[g][u] <= Priority[g][v]
        /\ w \in T /\ Priority[g][w] = Priority[g][u]
    BY <1>1
  <2>2. Priority[g][v] = Priority[g][u] => NameRank[w] <= NameRank[v]
    BY <1>2
  <2> QED BY <2>1, <2>2 DEF Preferred
<1> QED BY <1>2, <1>3

(* Select returns the first healthy Member in the sort order, or no WAN    *)
(* when no Member is healthy (selector.Select, primaryBackup).             *)
THEOREM SelectCorrect ==
    ASSUME NEW g \in Groups, NEW healthy
    PROVE  LET w == Select(g, healthy)
           IN  \/ w = NoActive /\ Members[g] \cap healthy = {}
               \/ /\ w \in Members[g] \cap healthy
                  /\ \A v \in Members[g] \cap healthy : Preferred(g, w, v)
<1> DEFINE T == Members[g] \cap healthy
<1>1. CASE T = {}
  BY <1>1 DEF Select, HealthyMembers
<1>2. CASE T # {}
  <2>1. T \in SUBSET Wans
    BY ConfigAssumption DEF ValidGroup
  <2>2. \E w \in T : \A v \in T : Preferred(g, w, v)
    BY <1>2, <2>1, FirstExists
  <2>3. Select(g, healthy) = CHOOSE w \in T : \A v \in T : Preferred(g, w, v)
    BY <1>2 DEF Select, HealthyMembers
  <2> HIDE DEF T
  <2>4. /\ Select(g, healthy) \in T
        /\ \A v \in T : Preferred(g, Select(g, healthy), v)
    BY <2>2, <2>3
  <2> QED BY <2>4 DEF T
<1> QED BY <1>1, <1>2

(* The choice is unique: two WANs that both come first are the same, since *)
(* names break every tie between priorities (primaryBackup).               *)
THEOREM SelectUnique ==
    ASSUME NEW g \in Groups, NEW healthy,
           NEW u \in Members[g] \cap healthy,
           \A v \in Members[g] \cap healthy : Preferred(g, u, v)
    PROVE  Select(g, healthy) = u
<1> DEFINE w == Select(g, healthy)
<1>1. /\ w \in Members[g] \cap healthy
      /\ Preferred(g, w, u)
  BY SelectCorrect
<1>2. Preferred(g, u, w)
  BY <1>1
<1> HIDE DEF w
<1>3. w \in Wans /\ u \in Wans
  BY <1>1, ConfigAssumption DEF ValidGroup
<1>4. NameRank[w] = NameRank[u]
  BY <1>1, <1>2, <1>3, ConfigAssumption DEF Preferred, ValidGroup
<1> QED BY <1>3, <1>4, ConfigAssumption DEF w

LEMMA SelectType ==
    ASSUME NEW g \in Groups, NEW healthy
    PROVE  Select(g, healthy) \in Active
BY SelectCorrect, ConfigAssumption DEF ValidGroup, Active

(* Only the Health of a Group's own Members matters to its Selection.      *)
LEMMA SelectLocal ==
    ASSUME NEW g \in Groups, NEW H1, NEW H2,
           Members[g] \cap H1 = Members[g] \cap H2
    PROVE  Select(g, H1) = Select(g, H2)
<1> DEFINE first(T) == IF T = {} THEN NoActive
                       ELSE CHOOSE w \in T : \A v \in T : Preferred(g, w, v)
<1>1. /\ Select(g, H1) = first(Members[g] \cap H1)
      /\ Select(g, H2) = first(Members[g] \cap H2)
  BY DEF Select, HealthyMembers
<1> HIDE DEF first
<1> QED BY <1>1

(***************************************************************************)
(* The Decision module.                                                    *)
(***************************************************************************)
(* A Group as the program can leave it between two operations: a Repair is *)
(* due only on a WAN that carries the Group.                               *)
SoundGroup(gr) ==
    gr \in GroupState /\ (gr.repairDue => gr.selection # NoActive)

(* What every operation guarantees of its result r: a sound Group, and a   *)
(* Selection that changes only by a commit of what the Group intends.      *)
SoundStep(gr, r) ==
    /\ SoundGroup(r.group)
    /\ r.commit \in BOOLEAN
    /\ r.commit => r.group.selection = Intent(r.group) /\ ~r.group.repairDue
    /\ ~r.commit => r.group.selection = gr.selection

LEMMA NoPendingNotActive == NoPending \notin Wans /\ NoPending # NoActive /\ NoActive \notin Wans
BY NoPendingAssumption, NoActiveAssumption DEF Active

LEMMA IdleSound ==
    ASSUME NEW gr, SoundGroup(gr)
    PROVE  SoundStep(gr, Idle(gr))
BY DEF SoundGroup, SoundStep, Idle, GroupState

(* Recompute leaves a Group that intends its target and, when the target   *)
(* is new, counts it (Group.Recompute).                                    *)
LEMMA RecomputeSound ==
    ASSUME NEW gr, SoundGroup(gr), NEW target \in Active, NEW ok \in BOOLEAN
    PROVE  LET r == Recompute(gr, target, ok)
           IN  SoundStep(gr, r) /\ Intent(r.group) = target
<1> DEFINE r == Recompute(gr, target, ok)
<1>0. gr \in GroupState /\ gr.decisionsTotal + 1 \in Nat
  BY DEF SoundGroup, GroupState
<1>1. CASE target = Intent(gr)
  BY <1>1, IdleSound DEF Recompute, Idle
<1>2. CASE target # Intent(gr) /\ target # NoActive /\ ~ok
  <2> DEFINE next == [gr EXCEPT !.pending = target, !.decisionsTotal = @ + 1]
  <2>1. r = [group |-> next, commit |-> FALSE]
    BY <1>2 DEF Recompute, Commit, Idle, SoundGroup, GroupState
  <2>2. SoundGroup(next) /\ next.selection = gr.selection /\ Intent(next) = target
    <3>1. next \in GroupState
      BY <1>2, <1>0 DEF GroupState, Active
    <3>2. /\ next.selection = gr.selection
          /\ next.repairDue = gr.repairDue
          /\ next.pending = target
      BY <1>0 DEF GroupState
    <3> HIDE DEF next
    <3>3. SoundGroup(next)
      BY <3>1, <3>2, Zenon DEF SoundGroup
    <3> QED BY <1>2, <3>2, <3>3, NoPendingNotActive DEF Intent, Active
  <2> HIDE DEF next, r
  <2>3. SoundStep(gr, r) /\ Intent(r.group) = target
    BY <2>1, <2>2 DEF SoundStep
  <2> QED BY <2>3 DEF r
<1>3. CASE target # Intent(gr) /\ (target = NoActive \/ ok)
  <2> DEFINE next == [gr EXCEPT !.selection = target, !.pending = NoPending,
                                !.repairDue = FALSE, !.decisionsTotal = @ + 1]
  <2>1. r = [group |-> next, commit |-> TRUE]
    BY <1>3 DEF Recompute, Commit, Idle, SoundGroup, GroupState
  <2>2. /\ SoundGroup(next) /\ ~next.repairDue
        /\ next.selection = target /\ Intent(next) = target
    <3>1. next \in GroupState
      BY <1>3, <1>0 DEF GroupState, Active
    <3> QED BY <1>3, <1>0, <3>1, NoPendingNotActive DEF SoundGroup, GroupState, Intent
  <2> HIDE DEF next, r
  <2>3. SoundStep(gr, r) /\ Intent(r.group) = target
    BY <2>1, <2>2 DEF SoundStep
  <2> QED BY <2>3 DEF r
<1> QED BY <1>1, <1>2, <1>3

(* Committing a pending Decision, or failing to, leaves the intent alone.  *)
LEMMA CommitSound ==
    ASSUME NEW gr, SoundGroup(gr), gr.pending # NoPending, NEW ok \in BOOLEAN
    PROVE  LET r == Commit(gr, ok)
           IN  SoundStep(gr, r) /\ Intent(r.group) = Intent(gr)
<1>1. CASE gr.pending # NoActive /\ ~ok
  BY <1>1, IdleSound DEF Commit, Idle
<1>2. CASE ~(gr.pending # NoActive /\ ~ok)
  BY <1>2, NoPendingNotActive
     DEF Commit, SoundGroup, SoundStep, GroupState, Intent, Active
<1> QED BY <1>1, <1>2

(* So does a refresh of the committed Selection's routes.                  *)
LEMMA RefreshSound ==
    ASSUME NEW gr, SoundGroup(gr), gr.selection # NoActive, NEW ok \in BOOLEAN
    PROVE  LET r == Refresh(gr, ok)
           IN  SoundStep(gr, r) /\ Intent(r.group) = Intent(gr)
BY DEF Refresh, Idle, SoundGroup, SoundStep, GroupState, Intent

(* A probe cycle and an observed route retry and repair; they never change *)
(* what a Group intends (Group.Probe, Group.RouteObserved).                *)
LEMMA ProbeSound ==
    ASSUME NEW gr, SoundGroup(gr), NEW w \in Wans, NEW ok \in BOOLEAN
    PROVE  LET r == Probe(gr, w, ok)
           IN  SoundStep(gr, r) /\ Intent(r.group) = Intent(gr)
<1>1. CASE RetryDue(gr, w)
  <2>1. gr.pending # NoPending
    BY <1>1, NoPendingNotActive DEF RetryDue
  <2>2. Probe(gr, w, ok) = Commit(gr, ok)
    BY <1>1, <2>1 DEF Probe, RetryDue, RepairDue
  <2> QED BY <2>1, <2>2, CommitSound
<1>2. CASE RepairDue(gr, w) /\ ~RetryDue(gr, w)
  <2>1. gr.selection # NoActive
    BY <1>2, NoPendingNotActive DEF RepairDue
  <2>2. Probe(gr, w, ok) = Refresh(gr, ok)
    BY <1>2 DEF Probe
  <2> QED BY <2>1, <2>2, RefreshSound
<1>3. CASE ~RepairDue(gr, w) /\ ~RetryDue(gr, w)
  <2>1. Probe(gr, w, ok) = Idle(gr)
    BY <1>3 DEF Probe
  <2> QED BY <2>1, IdleSound DEF Idle
<1> QED BY <1>1, <1>2, <1>3

LEMMA RouteObservedSound ==
    ASSUME NEW gr, SoundGroup(gr), NEW on \in SUBSET Wans, NEW ok \in BOOLEAN
    PROVE  LET r == RouteObserved(gr, on, ok)
           IN  SoundStep(gr, r) /\ Intent(r.group) = Intent(gr)
<1>1. CASE Intent(gr) \notin on
  <2>1. RouteObserved(gr, on, ok) = Idle(gr)
    BY <1>1 DEF RouteObserved
  <2> QED BY <2>1, IdleSound DEF Idle
<1>2. CASE Intent(gr) \in on /\ gr.pending # NoPending
  <2>1. RouteObserved(gr, on, ok) = Commit(gr, ok)
    BY <1>2 DEF RouteObserved
  <2> QED BY <1>2, <2>1, CommitSound
<1>3. CASE Intent(gr) \in on /\ gr.pending = NoPending
  <2>1. gr.selection # NoActive
    BY <1>3, NoPendingNotActive DEF Intent
  <2>2. RouteObserved(gr, on, ok) = Refresh(gr, ok)
    BY <1>3 DEF RouteObserved
  <2> QED BY <2>1, <2>2, RefreshSound
<1> QED BY <1>1, <1>2, <1>3

(***************************************************************************)
(* Health keeps its type.                                                  *)
(***************************************************************************)
LEMMA FoldType ==
    ASSUME NEW w \in Wans, NEW fs \in FamilyHealth, NEW stats
    PROVE  Fold(w, fs, stats) \in FamilyHealth
<1> DEFINE raw == EvaluateThresholds(fs.healthy \/ ~fs.cooked, stats, Thresholds[w])
<1>1. raw \in BOOLEAN
  BY DEF EvaluateThresholds
<1> HIDE DEF raw
<1>2. Seed(fs, raw) \in FamilyHealth
  BY <1>1 DEF Seed, FamilyHealth
<1>3. Observe(w, fs, raw) \in FamilyHealth
  <2>1. ConsecutiveUp[w] \in Nat /\ ConsecutiveDown[w] \in Nat
    BY ConfigAssumption DEF ValidWan
  <2>2. \A m, n \in Nat : Lesser(m + 1, n) \in Nat
    BY DEF Lesser
  <2>3. /\ Lesser(fs.up + 1, ConsecutiveUp[w]) \in Nat
        /\ Lesser(fs.down + 1, ConsecutiveDown[w]) \in Nat
    BY <2>1, <2>2 DEF FamilyHealth
  <2> QED BY <1>1, <2>3 DEF Observe, FamilyHealth
<1> QED BY <1>2, <1>3 DEF Fold, raw

LEMMA ProbeHealthType ==
    ASSUME NEW h \in [Wans -> WanHealth], NEW w \in Wans, NEW f \in Families, NEW stats
    PROVE  ProbeHealth(h, w, f, stats) \in [Wans -> WanHealth]
<1> DEFINE new == Fold(w, h[w].family[f], stats)
<1>1. new \in FamilyHealth
  BY FoldType DEF WanHealth
<1> HIDE DEF new
<1>2. [h EXCEPT ![w].family[f] = new] \in [Wans -> WanHealth]
  BY <1>1 DEF WanHealth
<1> QED BY <1>2 DEF ProbeHealth, new

LEMMA LinkHealthType ==
    ASSUME NEW h \in [Wans -> WanHealth], NEW i, NEW link \in LinkStates
    PROVE  LinkHealth(h, i, link) \in [Wans -> WanHealth]
<1>1. link.carrier \in Carriers /\ link.operstate \in Operstates
  BY DaemonAssumption
<1> QED BY <1>1 DEF LinkHealth, WanHealth

LEMMA ColdHealthType == ColdHealth \in [Wans -> WanHealth]
BY DEF ColdHealth, ColdWan, ColdFamily, WanHealth, FamilyHealth, Carriers, Operstates

LEMMA LinkSnapshotType ==
    ASSUME NEW h \in [Wans -> WanHealth],
           NEW links \in [Ifaces -> LinkStates \cup {NoLink}]
    PROVE  LinkSnapshot(h, links) \in [Wans -> WanHealth]
<1>1. ASSUME NEW w \in Wans
      PROVE  LinkSnapshot(h, links)[w] \in WanHealth
  <2>1. Interface[w] \in Ifaces
    BY ConfigAssumption DEF ValidWan
  <2>2. CASE links[Interface[w]] = NoLink
    BY <2>2 DEF LinkSnapshot
  <2>3. CASE links[Interface[w]] # NoLink
    <3>1. links[Interface[w]] \in LinkStates
      BY <2>1, <2>3
    <3>2. LinkHealth(h, Interface[w], links[Interface[w]])[w] \in WanHealth
      BY <3>1, LinkHealthType
    <3> QED BY <2>3, <3>2 DEF LinkSnapshot
  <2> QED BY <2>2, <2>3
<1> QED BY <1>1 DEF LinkSnapshot

(***************************************************************************)
(* An Apply writes routes of its WAN only, and Settle keeps the types.     *)
(***************************************************************************)
GatewaysType == [Ifaces -> [Families -> CacheEntry]]
AttemptType == [wan : Active, families : SUBSET Families]

LEMMA AppliedType ==
    ASSUME NEW gw \in GatewaysType, NEW at \in AttemptType, NEW answer,
           NEW row \in [Families -> Route \cup {NoRoute, Removed}]
    PROVE  Applied(gw, at, answer, row) \in [Families -> Route \cup {NoRoute, Removed}]
<1>1. ASSUME NEW f \in Families, f \in ToWrite(gw, at)
      PROVE  RouteOf(gw, at.wan, f) \in Route
  <2>1. at.wan \in Wans /\ Routable(gw, at.wan, f)
    BY <1>1 DEF ToWrite, AttemptType, Active
  <2>2. Interface[at.wan] \in Ifaces
    BY <2>1, ConfigAssumption DEF ValidWan
  <2> QED BY <2>1, <2>2 DEF RouteOf, Route, Routable
<1> QED BY <1>1 DEF Applied

LEMMA AttemptTypes ==
    ASSUME NEW gr \in GroupState
    PROVE  /\ NoAttempt \in AttemptType
           /\ \A t \in Active : RecomputeAttempt(gr, t) \in AttemptType
           /\ \A w \in Wans : ProbeAttempt(gr, w) \in AttemptType
           /\ \A on \in SUBSET Wans, f \in Families :
                  RouteAttempt(gr, on, f) \in AttemptType
<1> USE DEF AttemptType, Attempt, Active, GroupState
<1>1. NoAttempt \in AttemptType
  BY DEF NoAttempt
<1>2. \A S \in SUBSET Families : RefreshAttempt(gr, S) \in AttemptType
  BY DEF RefreshAttempt
<1>3. \A t \in Active : RecomputeAttempt(gr, t) \in AttemptType
  BY <1>1 DEF RecomputeAttempt
<1>4. ASSUME NEW w \in Wans
      PROVE  ProbeAttempt(gr, w) \in AttemptType
  BY <1>1, <1>2 DEF ProbeAttempt
<1>5. ASSUME NEW on \in SUBSET Wans, NEW f \in Families
      PROVE  RouteAttempt(gr, on, f) \in AttemptType
  <2>1. gr.pending # NoPending => Attempt(gr.pending, Families) \in AttemptType
    OBVIOUS
  <2> QED BY <1>1, <1>2, <2>1 DEF RouteAttempt
<1> QED BY <1>1, <1>3, <1>4, <1>5

LEMMA EventCases ==
    ASSUME NEW old \in Active, NEW new \in Active
    PROVE  /\ old = new => Event(old, new) = ""
           /\ old # new /\ old = NoActive => Event(old, new) = "up"
           /\ old # new /\ new = NoActive => Event(old, new) = "down"
           /\ old # new /\ old # NoActive /\ new # NoActive => Event(old, new) = "switch"
BY DEF Event

(* What the variables that Settle leaves must satisfy for TypeOK.          *)
SettledType ==
    /\ group' \in [Groups -> GroupState]
    /\ \A g \in Groups : SoundGroup(group'[g])
    /\ vacated' \in [Groups -> Active]
    /\ table' \in [Groups -> [Families -> Route \cup {NoRoute, Removed}]]
    /\ stale' \in BOOLEAN
    /\ hook' \in [Groups -> Hook \cup {NoHook}]
    /\ unflushed' \in [Groups -> SUBSET Wans]

LEMMA SettleType ==
    ASSUME TypeOK, gateways' \in GatewaysType,
           NEW at, NEW step, NEW answer, NEW early, NEW late,
           \A g \in Groups : at[g] \in AttemptType /\ SoundStep(group[g], step[g]),
           Settle(at, step, answer, early, late)
    PROVE  SettledType
<1>1. /\ group' \in [Groups -> GroupState]
      /\ \A g \in Groups : SoundGroup(group'[g])
  BY DEF Settle, SoundStep, SoundGroup
<1>2. \A g \in Groups : group[g].selection \in Active /\ group'[g].selection \in Active
  BY <1>1 DEF TypeOK, GroupState
<1>3. vacated' \in [Groups -> Active]
  BY <1>2 DEF Settle, VacatedNext, TypeOK, Active
<1>4. table' \in [Groups -> [Families -> Route \cup {NoRoute, Removed}]]
  <2>1. \A g \in Groups : Applied(gateways', at[g], answer[g], table[g])
                             \in [Families -> Route \cup {NoRoute, Removed}]
    BY AppliedType DEF TypeOK
  <2> QED BY <2>1 DEF Settle
<1>5. stale' \in BOOLEAN
  BY DEF Settle, WriteState, TypeOK
<1>6. hook' \in [Groups -> Hook \cup {NoHook}]
  <2>1. ASSUME NEW g \in Groups
        PROVE  hook'[g] \in Hook \cup {NoHook}
    <3> DEFINE old == group[g].selection
               new == group'[g].selection
    <3>1. old \in Active /\ new \in Active
      BY <1>2
    <3>2. Event(old, new) \in {"", "up", "down", "switch"}
      <4> HIDE DEF old, new
      <4> QED BY <3>1, EventCases
    <3>3. hook'[g] = IF Event(old, new) = "" THEN hook[g]
                     ELSE [event |-> Event(old, new), old |-> old, new |-> new]
      BY DEF Settle
    <3>4. hook[g] \in Hook \cup {NoHook}
      BY DEF TypeOK
    <3> DEFINE e == Event(old, new)
    <3> HIDE DEF old, new, e
    <3>5. CASE e = ""
      BY <3>3, <3>4, <3>5 DEF e
    <3>6. CASE e # ""
      <4>1. [event |-> e, old |-> old, new |-> new] \in Hook
        BY <3>1, <3>2, <3>6 DEF Hook, e
      <4> QED BY <3>3, <3>6, <4>1 DEF e
    <3> QED BY <3>5, <3>6
  <2>2. hook' = [g \in Groups |-> hook'[g]]
    BY Zenon DEF Settle
  <2> QED BY <2>1, <2>2
<1>7. unflushed' \in [Groups -> SUBSET Wans]
  <2>1. ASSUME NEW g \in Groups
        PROVE  unflushed'[g] \in SUBSET Wans
    <3> DEFINE flushed == FlushedWan(g, group[g].selection, group'[g].selection)
    <3>1. unflushed'[g] = (unflushed[g] \ {flushed})
                              \cup ({group'[g].selection} \ {NoActive})
      BY DEF Settle
    <3>2. unflushed[g] \in SUBSET Wans
      BY DEF TypeOK
    <3> HIDE DEF flushed
    <3> QED BY <1>2, <3>1, <3>2 DEF Active
  <2>2. unflushed' = [g \in Groups |-> unflushed'[g]]
    BY Zenon DEF Settle
  <2> QED BY <2>1, <2>2
<1> QED BY <1>1, <1>3, <1>4, <1>5, <1>6, <1>7 DEF SettledType

(***************************************************************************)
(* Every handler settles the Groups so that each intends what the Strategy *)
(* chooses on the Health the handler leaves.                               *)
(***************************************************************************)
SettlingStep ==
    \E at, step, answer, early, late :
        /\ Settle(at, step, answer, early, late)
        /\ \A g \in Groups :
              /\ at[g] \in AttemptType
              /\ SoundStep(group[g], step[g])
              /\ Intent(step[g].group) = Select(g, HealthySet(health'))

LEMMA ApplyOkBoolean ==
    ASSUME NEW gw, NEW at, NEW answer
    PROVE  ApplyOk(gw, at, answer) \in BOOLEAN
BY DEF ApplyOk

LEMMA SoundGroups ==
    ASSUME TypeOK, NEW g \in Groups
    PROVE  group[g] \in GroupState /\ SoundGroup(group[g])
BY DEF TypeOK, SoundGroup

(* A Group none of whose Members flipped already intends the right WAN.    *)
LEMMA UnaffectedIntent ==
    ASSUME IntentFollowsHealth, NEW g \in Groups,
           \A w \in Members[g] : Healthy(health', w) <=> Healthy(health, w)
    PROVE  Intent(group[g]) = Select(g, HealthySet(health'))
<1>1. Members[g] \cap HealthySet(health') = Members[g] \cap HealthySet(health)
  BY DEF HealthySet
<1>2. Select(g, HealthySet(health')) = Select(g, HealthySet(health))
  BY <1>1, SelectLocal
<1> QED BY <1>2 DEF IntentFollowsHealth

LEMMA RecomputeAffectedSettles ==
    ASSUME TypeOK, IntentFollowsHealth,
           NEW flipped, NEW republish, NEW answer,
           \A w \in Wans \ flipped : Healthy(health', w) <=> Healthy(health, w),
           RecomputeAffected(flipped, republish, answer)
    PROVE  SettlingStep
<1> DEFINE affected(g) == Members[g] \cap flipped # {}
           target(g) == Select(g, HealthySet(health'))
           at == [g \in Groups |-> IF affected(g)
                                     THEN RecomputeAttempt(group[g], target(g))
                                     ELSE NoAttempt]
           ok(g) == ApplyOk(gateways', at[g], answer[g])
           step == [g \in Groups |-> IF affected(g)
                                       THEN Recompute(group[g], target(g), ok(g))
                                       ELSE Idle(group[g])]
<1>1. Settle(at, step, answer, FALSE, republish)
  BY DEF RecomputeAffected
<1>2. ASSUME NEW g \in Groups
      PROVE  /\ at[g] \in AttemptType
             /\ SoundStep(group[g], step[g])
             /\ Intent(step[g].group) = target(g)
  <2>1. group[g] \in GroupState /\ SoundGroup(group[g])
    BY SoundGroups
  <2>2. target(g) \in Active
    BY SelectType
  <2>3. ok(g) \in BOOLEAN
    BY ApplyOkBoolean
  <2>4. at[g] \in AttemptType
    BY <2>1, <2>2, AttemptTypes
  <2>5. CASE affected(g)
    <3>1. step[g] = Recompute(group[g], target(g), ok(g))
      BY <2>5
    <3> HIDE DEF target, ok, at, step
    <3> QED BY <2>1, <2>2, <2>3, <2>4, <3>1, RecomputeSound
  <2>6. CASE ~affected(g)
    <3>1. step[g] = Idle(group[g])
      BY <2>6
    <3>2. \A w \in Members[g] : Healthy(health', w) <=> Healthy(health, w)
      BY <2>6, ConfigAssumption DEF ValidGroup
    <3>3. Intent(group[g]) = target(g)
      BY <3>2, UnaffectedIntent
    <3>4. Idle(group[g]).group = group[g]
      BY DEF Idle
    <3> HIDE DEF target, ok, at, step
    <3> QED BY <2>1, <2>4, <3>1, <3>3, <3>4, IdleSound
  <2> QED BY <2>5, <2>6
<1> HIDE DEF at, step
<1> QED BY <1>1, <1>2 DEF SettlingStep

LEMMA RetryDecisionsSettles ==
    ASSUME TypeOK, IntentFollowsHealth,
           NEW w \in Wans, NEW republish, NEW answer,
           \A v \in Wans : Healthy(health', v) <=> Healthy(health, v),
           RetryDecisions(w, republish, answer)
    PROVE  SettlingStep
<1> DEFINE at == [g \in Groups |-> ProbeAttempt(group[g], w)]
           ok(g) == ApplyOk(gateways', at[g], answer[g])
           step == [g \in Groups |-> Probe(group[g], w, ok(g))]
<1>1. Settle(at, step, answer, republish, FALSE)
  BY DEF RetryDecisions
<1>2. ASSUME NEW g \in Groups
      PROVE  /\ at[g] \in AttemptType
             /\ SoundStep(group[g], step[g])
             /\ Intent(step[g].group) = Select(g, HealthySet(health'))
  <2>1. group[g] \in GroupState /\ SoundGroup(group[g])
    BY SoundGroups
  <2>2. ok(g) \in BOOLEAN
    BY ApplyOkBoolean
  <2>3. at[g] \in AttemptType
    BY <2>1, AttemptTypes
  <2>4. Intent(group[g]) = Select(g, HealthySet(health'))
    BY UnaffectedIntent, ConfigAssumption DEF ValidGroup
  <2>5. step[g] = Probe(group[g], w, ok(g))
    OBVIOUS
  <2> HIDE DEF ok, at, step
  <2> QED BY <2>1, <2>2, <2>3, <2>4, <2>5, ProbeSound
<1> HIDE DEF at, step
<1> QED BY <1>1, <1>2 DEF SettlingStep

LEMMA RouteEventSettles ==
    ASSUME TypeOK, IntentFollowsHealth,
           NEW i, NEW f \in Families, NEW entry, NEW answer,
           HandleRouteEvent(i, f, entry, answer)
    PROVE  SettlingStep
<1> DEFINE on == {w \in Wans : Interface[w] = i}
           at == [g \in Groups |-> RouteAttempt(group[g], on, f)]
           ok(g) == ApplyOk(gateways', at[g], answer[g])
           step == [g \in Groups |-> RouteObserved(group[g], on, ok(g))]
           changed == entry = NoEntry \/ gateways[i][f] # entry
<1>1. Settle(at, step, answer, FALSE, changed) /\ health' = health
  BY DEF HandleRouteEvent
<1>2. ASSUME NEW g \in Groups
      PROVE  /\ at[g] \in AttemptType
             /\ SoundStep(group[g], step[g])
             /\ Intent(step[g].group) = Select(g, HealthySet(health'))
  <2>1. group[g] \in GroupState /\ SoundGroup(group[g])
    BY SoundGroups
  <2>2. ok(g) \in BOOLEAN
    BY ApplyOkBoolean
  <2>3. on \in SUBSET Wans
    OBVIOUS
  <2>4. at[g] \in AttemptType
    BY <2>1, <2>3, AttemptTypes
  <2>5. Intent(group[g]) = Select(g, HealthySet(health'))
    BY <1>1 DEF IntentFollowsHealth
  <2>6. step[g] = RouteObserved(group[g], on, ok(g))
    OBVIOUS
  <2> HIDE DEF ok, at, step, on
  <2> QED BY <2>1, <2>2, <2>3, <2>4, <2>5, <2>6, RouteObservedSound
<1> HIDE DEF at, step, changed
<1> QED BY <1>1, <1>2 DEF SettlingStep

(***************************************************************************)
(* The four handlers, with the Health and the Gateways they leave.         *)
(***************************************************************************)
HandlerEffect ==
    /\ SettlingStep
    /\ phase' = "running"
    /\ health' \in [Wans -> WanHealth]
    /\ gateways' \in GatewaysType

LEMMA PrimeEffect ==
    ASSUME TypeOK, IntentFollowsHealth, PrimeAny
    PROVE  HandlerEffect
<1>1. PICK routes \in [Ifaces -> [Families -> CacheEntry]],
           links \in [Ifaces -> LinkStates \cup {NoLink}], answer \in Answers :
              Prime(routes, links, answer)
  BY DEF PrimeAny
<1>2. gateways' \in GatewaysType
  BY <1>1 DEF Prime, TypeOK, GatewaysType
<1>3. health' \in [Wans -> WanHealth]
  BY <1>1, LinkSnapshotType DEF Prime, TypeOK
<1> DEFINE flipped == {w \in Wans : Healthy(health', w) # Healthy(health, w)}
           republish == \/ \E i \in Ifaces, f \in Families : routes[i][f] # NoEntry
                        \/ \E i \in Ifaces : /\ links[i] # NoLink
                                             /\ LinkRepublish(health, i, links[i])
<1>4. RecomputeAffected(flipped, republish, answer)
  BY <1>1 DEF Prime
<1>5. \A w \in Wans \ flipped : Healthy(health', w) <=> Healthy(health, w)
  OBVIOUS
<1> HIDE DEF flipped, republish
<1>6. SettlingStep
  BY <1>4, <1>5, RecomputeAffectedSettles
<1> QED BY <1>1, <1>2, <1>3, <1>6 DEF HandlerEffect, Prime

LEMMA LinkEffect ==
    ASSUME TypeOK, IntentFollowsHealth, LinkAny
    PROVE  HandlerEffect
<1>1. PICK i \in Ifaces, link \in LinkStates, answer \in Answers :
              HandleLinkEvent(i, link, answer)
  BY DEF LinkAny
<1>2. gateways' \in GatewaysType
  BY <1>1 DEF HandleLinkEvent, TypeOK, GatewaysType
<1>3. health' \in [Wans -> WanHealth] /\ health' = LinkHealth(health, i, link)
  BY <1>1, LinkHealthType DEF HandleLinkEvent, TypeOK
<1>4. RecomputeAffected(LinkFlipped(health, i, link), LinkRepublish(health, i, link), answer)
  BY <1>1 DEF HandleLinkEvent
<1>5. ASSUME NEW w \in Wans \ LinkFlipped(health, i, link)
      PROVE  Healthy(health', w) <=> Healthy(health, w)
  <2>1. CASE Interface[w] = i
    BY <1>3, <2>1 DEF LinkFlipped
  <2>2. CASE Interface[w] # i
    BY <1>3, <2>2 DEF LinkHealth, Healthy
  <2> QED BY <2>1, <2>2
<1>6. SettlingStep
  BY <1>4, <1>5, RecomputeAffectedSettles
<1> QED BY <1>1, <1>2, <1>3, <1>6 DEF HandlerEffect, HandleLinkEvent

LEMMA RouteEffect ==
    ASSUME TypeOK, IntentFollowsHealth, RouteAny
    PROVE  HandlerEffect
<1>0. PICK i \in Ifaces : \E f \in Families, entry \in Observable(i), answer \in Answers :
              HandleRouteEvent(i, f, entry, answer)
  BY DEF RouteAny
<1>1. PICK f \in Families, entry \in Observable(i), answer \in Answers :
              HandleRouteEvent(i, f, entry, answer)
  BY <1>0
<1>2. entry \in CacheEntry
  BY DaemonAssumption DEF Observable, CacheEntry
<1>3. gateways' \in GatewaysType /\ health' \in [Wans -> WanHealth]
  BY <1>1, <1>2 DEF HandleRouteEvent, TypeOK, GatewaysType
<1>4. SettlingStep
  BY <1>1, RouteEventSettles
<1> QED BY <1>1, <1>3, <1>4 DEF HandlerEffect, HandleRouteEvent

LEMMA ProbeEffect ==
    ASSUME TypeOK, IntentFollowsHealth, ProbeAny
    PROVE  HandlerEffect
<1>0. PICK w \in Wans : \E f \in Probed[w], stats \in Stats, answer \in Answers :
              HandleProbeResult(w, f, stats, answer)
  BY DEF ProbeAny
<1>1. PICK f \in Probed[w], stats \in Stats, answer \in Answers :
              HandleProbeResult(w, f, stats, answer)
  BY <1>0
<1> DEFINE flipped == ProbeFlipped(health, w, f, stats)
           republish == ProbeRepublish(health, w, f, stats)
<1>2. f \in Families
  BY ConfigAssumption DEF ValidWan
<1>3. health' \in [Wans -> WanHealth] /\ health' = ProbeHealth(health, w, f, stats)
  BY <1>1, <1>2, ProbeHealthType DEF HandleProbeResult, TypeOK
<1>4. gateways' \in GatewaysType
  BY <1>1 DEF HandleProbeResult, TypeOK, GatewaysType
<1>5. ASSUME NEW v \in Wans \ flipped
      PROVE  Healthy(health', v) <=> Healthy(health, v)
  <2>1. CASE v = w
    BY <1>3, <2>1 DEF ProbeFlipped
  <2>2. CASE v # w
    <3>1. health'[v] = health[v]
      BY <1>3, <2>2 DEF ProbeHealth, TypeOK
    <3> QED BY <3>1 DEF Healthy
  <2> QED BY <2>1, <2>2
<1>6. CASE w \in flipped
  <2>1. RecomputeAffected(flipped, republish, answer)
    BY <1>1, <1>6 DEF HandleProbeResult
  <2> HIDE DEF flipped, republish
  <2>2. SettlingStep
    BY <1>5, <2>1, RecomputeAffectedSettles
  <2> QED BY <1>1, <1>3, <1>4, <2>2 DEF HandlerEffect, HandleProbeResult
<1>7. CASE w \notin flipped
  <2>1. RetryDecisions(w, republish, answer)
    BY <1>1, <1>7 DEF HandleProbeResult
  <2>2. \A v \in Wans : Healthy(health', v) <=> Healthy(health, v)
    BY <1>5, <1>7 DEF ProbeFlipped
  <2> HIDE DEF flipped, republish
  <2>3. SettlingStep
    BY <2>1, <2>2, RetryDecisionsSettles
  <2> QED BY <1>1, <1>3, <1>4, <2>3 DEF HandlerEffect, HandleProbeResult
<1> QED BY <1>6, <1>7

LEMMA HandlerKeepsType ==
    ASSUME TypeOK, HandlerEffect
    PROVE  TypeOK'
<1>1. PICK at, step, answer, early, late :
        /\ Settle(at, step, answer, early, late)
        /\ \A g \in Groups : at[g] \in AttemptType /\ SoundStep(group[g], step[g])
  BY DEF HandlerEffect, SettlingStep
<1>2. gateways' \in GatewaysType
  BY DEF HandlerEffect
<1>3. SettledType
  BY <1>1, <1>2, SettleType
<1> QED BY <1>3 DEF SettledType, SoundGroup, TypeOK, HandlerEffect, GatewaysType

LEMMA HandlerKeepsIntent ==
    ASSUME HandlerEffect
    PROVE  IntentFollowsHealth'
<1>1. PICK at, step, answer, early, late :
        /\ Settle(at, step, answer, early, late)
        /\ \A g \in Groups : Intent(step[g].group) = Select(g, HealthySet(health'))
  BY DEF HandlerEffect, SettlingStep
<1>2. \A g \in Groups : group'[g] = step[g].group
  BY <1>1 DEF Settle
<1> QED BY <1>1, <1>2 DEF IntentFollowsHealth

(* A process that just started: no link has been seen, so no WAN is        *)
(* healthy and no Group has a Selection (newDaemon).                       *)
FreshMemory ==
    /\ health = ColdHealth
    /\ gateways = [i \in Ifaces |-> [f \in Families |-> NoEntry]]
    /\ group = [g \in Groups |-> NewGroup]
    /\ vacated = [g \in Groups |-> NoActive]

LEMMA NewGroupSound == SoundGroup(NewGroup) /\ Intent(NewGroup) = NoActive
BY DEF NewGroup, SoundGroup, GroupState, Active, Intent

MemoryType ==
    /\ health \in [Wans -> WanHealth]
    /\ gateways \in [Ifaces -> [Families -> CacheEntry]]
    /\ group \in [Groups -> GroupState]
    /\ \A g \in Groups : group[g].repairDue => group[g].selection # NoActive
    /\ vacated \in [Groups -> Active]

LEMMA FreshMemoryType ==
    ASSUME FreshMemory
    PROVE  MemoryType
BY ColdHealthType, NewGroupSound
   DEF FreshMemory, MemoryType, CacheEntry, Active, SoundGroup

LEMMA FreshMemoryIntent ==
    ASSUME FreshMemory
    PROVE  IntentFollowsHealth
<1>1. HealthySet(health) = {}
  BY DEF FreshMemory, HealthySet, Healthy, CarrierUp, ColdHealth, ColdWan
<1>2. \A g \in Groups : Select(g, HealthySet(health)) = NoActive
  BY <1>1, SelectCorrect
<1> QED BY <1>2, NewGroupSound DEF FreshMemory, IntentFollowsHealth

(* A restart, before and after the process came up.                        *)
LEMMA RestartFresh ==
    ASSUME Bootstrap \/ Stop
    PROVE  FreshMemory'
BY DEF Bootstrap, Stop, FreshMemory

(***************************************************************************)
(* Theorems.                                                               *)
(***************************************************************************)
IndInv == TypeOK /\ IntentFollowsHealth

LEMMA InitIndInv == Init => IndInv
<1> SUFFICES ASSUME Init PROVE IndInv
  OBVIOUS
<1>1. FreshMemory
  BY DEF Init, FreshMemory
<1> QED BY <1>1, FreshMemoryType, FreshMemoryIntent DEF Init, IndInv, TypeOK, MemoryType

LEMMA NextIndInv == IndInv /\ [Next]_vars => IndInv'
<1> SUFFICES ASSUME IndInv, [Next]_vars PROVE IndInv'
  OBVIOUS
<1> USE DEF IndInv
<1>1. CASE Bootstrap
  <2>1. FreshMemory'
    BY <1>1, RestartFresh
  <2>2. IntentFollowsHealth'
    BY <2>1, FreshMemoryIntent, PTL
  <2>3. MemoryType'
    BY <2>1, FreshMemoryType, PTL
  <2>4. TypeOK'
    BY <1>1, <2>3 DEF Bootstrap, TypeOK, MemoryType
  <2> QED BY <2>2, <2>4
<1>2. CASE PrimeAny
  BY <1>2, PrimeEffect, HandlerKeepsType, HandlerKeepsIntent
<1>3. CASE ProbeAny
  BY <1>3, ProbeEffect, HandlerKeepsType, HandlerKeepsIntent
<1>4. CASE LinkAny
  BY <1>4, LinkEffect, HandlerKeepsType, HandlerKeepsIntent
<1>5. CASE RouteAny
  BY <1>5, RouteEffect, HandlerKeepsType, HandlerKeepsIntent
<1>6. CASE Stop
  <2>1. FreshMemory'
    BY <1>6, RestartFresh
  <2>2. IntentFollowsHealth'
    BY <2>1, FreshMemoryIntent, PTL
  <2>3. MemoryType'
    BY <2>1, FreshMemoryType, PTL
  <2>4. TypeOK'
    BY <1>6, <2>3 DEF Stop, TypeOK, MemoryType
  <2> QED BY <2>2, <2>4
<1>7. CASE \E i \in Ifaces, f \in Families : KernelFlush(i, f)
  BY <1>7 DEF KernelFlush, memory, history, TypeOK, IntentFollowsHealth
<1>8. CASE UNCHANGED vars
  BY <1>8 DEF vars, TypeOK, IntentFollowsHealth
<1> QED BY <1>1, <1>2, <1>3, <1>4, <1>5, <1>6, <1>7, <1>8 DEF Next

LEMMA Invariance == Spec => []IndInv
BY InitIndInv, NextIndInv, PTL DEF Spec

(* The daemon's variables always have their types.                         *)
THEOREM TypeCorrect == Spec => []TypeOK
BY Invariance, PTL DEF IndInv

(* Between two handlers every Group intends what the Strategy chooses on   *)
(* the current Health, so no retry ever applies an outdated Decision.      *)
THEOREM IntentCorrect == Spec => []IntentFollowsHealth
BY Invariance, PTL DEF IndInv
=============================================================================
