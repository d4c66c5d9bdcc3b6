--------------------------- MODULE HandlersProofs ---------------------------
(***************************************************************************)
(* The event handlers in small steps: what a stop inside a handler may     *)
(* still change, what a Hook finds in state.json, and that a handler which *)
(* is not stopped does what the one step of Daemon does.                   *)
(***************************************************************************)
EXTENDS Handlers, PublicationProofs, FiniteSetTheorems, TLAPS

Shape ==
    /\ DOMAIN group = Groups
    /\ DOMAIN table = Groups
    /\ \A g \in Groups : DOMAIN table[g] = Families
    /\ DOMAIN hook = Groups
    /\ pc \in {"idle", "loop", "lookup", "write", "call", "settle", "flush", "state",
               "hook", "republish"}

Stopped == cancelled /\ phase = "running"

(* The Group whose turn it was has not decided until it is settled.        *)
TurnUndecided == Stopped /\ pc \in {"lookup", "write", "call", "settle"} => group = atStop.group

(* The kernel call in progress is the first since the stop.                *)
CallUnanswered == Stopped /\ pc = "call" => table = atStop.table

OneGroup == Stopped => \E g0 : \A g \in Groups \ {g0} : group[g] = atStop.group[g]

OneWrite ==
    Stopped => \E p0 : \A p \in (Groups \X Families) \ {p0} :
        table[p[1]][p[2]] = atStop.table[p[1]][p[2]]

(* The Hook is about to be told, and state.json shows what it is told.     *)
HookReady == pc = "hook" => stale \/ file = Snapshot(health, gateways, group)

StopInv == Shape /\ TurnUndecided /\ CallUnanswered /\ OneGroup /\ OneWrite /\ HookReady

LEMMA StopInvInit == HandlersInit => StopInv
BY DEF HandlersInit, Init, StopInv, Shape, Stopped, TurnUndecided, CallUnanswered, OneGroup,
       OneWrite, HookReady

(* The daemon is not being stopped: whatever it does, only the shape of    *)
(* its state and the Hook are at stake.                                    *)
LEMMA RunningKeeps ==
    ASSUME Shape', HookReady', ~Stopped'
    PROVE  StopInv'
BY DEF StopInv, TurnUndecided, CallUnanswered, OneGroup, OneWrite

(* Steps that change neither a Group nor a table nor begin anything.       *)
LEMMA NothingDecided ==
    ASSUME StopInv, UNCHANGED <<phase, group, table, hook, stopping>>,
           \/ pc' \in {"idle", "loop", "republish", "state", "hook"}
           \/ pc \in {"lookup", "write", "call"} /\ pc' \in {"lookup", "write", "settle"}
           \/ ~cancelled /\ pc' \in {"loop", "lookup", "call", "settle"},
           HookReady'
    PROVE  StopInv'
<1> USE DEF StopInv, stopping, Stopped
<1>1. Shape'
  BY DEF Shape
<1>2. TurnUndecided'
  BY DEF TurnUndecided
<1>3. CallUnanswered'
  BY DEF CallUnanswered
<1>4. OneGroup' /\ OneWrite'
  BY DEF OneGroup, OneWrite
<1> QED BY <1>1, <1>2, <1>3, <1>4

LEMMA BeginKeeps ==
    ASSUME StopInv, NEW op, NEW pairs, NEW f, NEW publish, NEW w,
           Begin(op, pairs, f, publish, w)
    PROVE  StopInv'
<1>1. ~cancelled' /\ pc' = "loop" /\ UNCHANGED <<group, table, hook>>
  BY DEF Begin, stopping
<1>2. Shape' /\ HookReady'
  BY <1>1 DEF StopInv, Shape, HookReady
<1> QED BY <1>1, <1>2, RunningKeeps DEF Stopped

LEMMA StepsKeep ==
    ASSUME StopInv,
           \/ NextGroup \/ EndLoop \/ LookupIfIndex \/ WriteRoute \/ EndApply
           \/ FlushVacated \/ Republish
    PROVE  StopInv'
<1>0. UNCHANGED <<phase, group, table, hook, stopping>>
  BY DEF NextGroup, EndLoop, LookupIfIndex, WriteRoute, EndApply, FlushVacated, Republish, vars,
         memory
<1>1. HookReady'
  BY DEF NextGroup, EndLoop, LookupIfIndex, WriteRoute, EndApply, FlushVacated, Republish,
         HookReady
<1>2. \/ pc' \in {"idle", "loop", "republish", "state", "hook"}
      \/ pc \in {"lookup", "write", "call"} /\ pc' \in {"lookup", "write", "settle"}
      \/ ~cancelled /\ pc' \in {"loop", "lookup", "call", "settle"}
  BY DEF NextGroup, EndLoop, LookupIfIndex, WriteRoute, EndApply, FlushVacated, Republish,
         LoopStops, WritesStop
<1> QED BY <1>0, <1>1, <1>2, NothingDecided

LEMMA PublishStateKeeps ==
    ASSUME StopInv, PublishState
    PROVE  StopInv'
<1>1. UNCHANGED <<phase, health, gateways, group, table, hook, stopping>> /\ pc' = "hook"
  BY DEF PublishState, memory
<1>2. HookReady'
  BY <1>1 DEF PublishState, WriteStateSnapshot, HookReady
<1> QED BY <1>1, <1>2, NothingDecided

(* The answer to the kernel call in progress.                              *)
LEMMA RouteWrittenKeeps ==
    ASSUME StopInv, RouteWritten
    PROVE  StopInv'
<1> USE DEF StopInv
<1>1. PICK g0, f0, v :
          /\ table' \in {table, [table EXCEPT ![g0][f0] = v]}
          /\ pc = "call" /\ pc' = "write"
          /\ UNCHANGED <<phase, group, hook, stopping>>
  BY DEF RouteWritten, memory, history
<1>2. ASSUME NEW g \in Groups
      PROVE  /\ DOMAIN table'[g] = Families
             /\ \A f \in Families : <<g, f>> # <<g0, f0>> => table'[g][f] = table[g][f]
  BY <1>1, <1>2 DEF Shape
<1>3. Shape'
  BY <1>1, <1>2 DEF Shape
<1>4. TurnUndecided' /\ CallUnanswered' /\ OneGroup' /\ HookReady'
  BY <1>1 DEF TurnUndecided, CallUnanswered, OneGroup, HookReady, Stopped, stopping
<1>5. OneWrite'
  <2> SUFFICES ASSUME Stopped' PROVE OneWrite'
    BY DEF OneWrite
  <2>1. table = atStop.table /\ atStop' = atStop
    BY <1>1 DEF CallUnanswered, Stopped, stopping
  <2>2. \A p \in (Groups \X Families) \ {<<g0, f0>>} :
            table'[p[1]][p[2]] = atStop.table[p[1]][p[2]]
    BY <1>2, <2>1
  <2> QED BY <2>1, <2>2 DEF OneWrite
<1> QED BY <1>3, <1>4, <1>5

(* The Group whose turn it was decides.                                    *)
LEMMA SettleGroupKeeps ==
    ASSUME StopInv, SettleGroup
    PROVE  StopInv'
<1> USE DEF StopInv
<1>1. PICK g0, v :
          /\ group' = [group EXCEPT ![g0] = v]
          /\ pc = "settle" /\ pc' \in {"flush", "loop"}
          /\ UNCHANGED <<phase, table, hook, stopping>>
  BY DEF SettleGroup, history
<1>2. Shape'
  BY <1>1 DEF Shape
<1>3. TurnUndecided' /\ CallUnanswered' /\ HookReady'
  BY <1>1 DEF TurnUndecided, CallUnanswered, HookReady
<1>4. OneWrite'
  BY <1>1 DEF OneWrite, Stopped, stopping
<1>5. OneGroup'
  <2> SUFFICES ASSUME Stopped' PROVE OneGroup'
    BY DEF OneGroup
  <2>1. group = atStop.group /\ atStop' = atStop
    BY <1>1 DEF TurnUndecided, Stopped, stopping
  <2>2. \A g \in Groups \ {g0} : group'[g] = atStop.group[g]
    BY <1>1, <2>1 DEF Shape
  <2> QED BY <2>1, <2>2 DEF OneGroup
<1> QED BY <1>2, <1>3, <1>4, <1>5

LEMMA NotifyHooksKeeps ==
    ASSUME StopInv, NotifyHooks
    PROVE  StopInv'
<1> USE DEF StopInv
<1>1. /\ UNCHANGED <<phase, group, table, stopping>> /\ pc' = "loop"
      /\ DOMAIN hook' = Groups
  BY DEF NotifyHooks, memory, Shape
<1>2. Shape'
  BY <1>1 DEF Shape
<1> QED BY <1>1, <1>2 DEF TurnUndecided, CallUnanswered, OneGroup, OneWrite, HookReady, Stopped,
                          stopping

LEMMA CancelKeeps ==
    ASSUME StopInv, Cancel
    PROVE  StopInv'
<1> USE DEF StopInv
<1>1. /\ atStop' = [group |-> group, table |-> table]
      /\ UNCHANGED <<pc, health, gateways, group, table, file, stale, hook>>
  BY DEF Cancel, vars, handler
<1>2. atStop'.group = group' /\ atStop'.table = table'
  BY <1>1
<1>3. Shape' /\ HookReady'
  BY <1>1 DEF Shape, HookReady
<1> QED BY <1>2, <1>3 DEF TurnUndecided, CallUnanswered, OneGroup, OneWrite

LEMMA RestartKeeps ==
    ASSUME StopInv, Boot \/ Exit
    PROVE  StopInv'
<1> USE DEF StopInv
<1>1. /\ phase' \in {"off", "booted"} /\ pc' = "idle" /\ pc = "idle"
      /\ DOMAIN group' = Groups /\ table' = table /\ DOMAIN hook' = Groups
  BY DEF Boot, Exit, Bootstrap, Stop, handler, Shape
<1>2. Shape' /\ HookReady'
  BY <1>1 DEF Shape, HookReady
<1> QED BY <1>1, <1>2, RunningKeeps DEF Stopped

LEMMA StopInvNext == StopInv /\ [HandlersNext]_allVars => StopInv'
<1> SUFFICES ASSUME StopInv, [HandlersNext]_allVars PROVE StopInv'
  OBVIOUS
<1>1. CASE BeginAny
  BY <1>1, BeginKeeps DEF BeginAny, BeginPrime, BeginProbe, BeginLink, BeginRoute
<1>2. CASE HandlerStep
  BY <1>2, StepsKeep, PublishStateKeeps, RouteWrittenKeeps, SettleGroupKeeps, NotifyHooksKeeps
     DEF HandlerStep
<1>3. CASE UNCHANGED allVars
  BY <1>3 DEF allVars, vars, handler, stopping, StopInv, Shape, TurnUndecided, CallUnanswered,
              OneGroup, OneWrite, HookReady, Stopped
<1> QED BY <1>1, <1>2, <1>3, CancelKeeps, RestartKeeps DEF HandlersNext

LEMMA AtMostOne ==
    ASSUME NEW S, NEW x, S \subseteq {x}
    PROVE  Cardinality(S) <= 1
<1>1. S = {} \/ S = {x}
  OBVIOUS
<1>2. Cardinality({}) = 0 /\ Cardinality({x}) = 1
  BY FS_EmptySet, FS_Singleton
<1>3. CASE S = {}
  <2>1. Cardinality(S) = 0
    BY <1>2, <1>3
  <2> QED BY <2>1
<1>4. CASE S = {x}
  <2>1. Cardinality(S) = 1
    BY <1>2, <1>4
  <2> QED BY <2>1
<1> QED BY <1>1, <1>3, <1>4

(* A daemon stopped inside a handler, at whatever step of whichever Group, *)
(* changes at most one more route and decides for at most one more Group   *)
(* (applyRoutes, recomputeAffectedGroups, retryGroupDecisions).            *)
THEOREM StopsEndHandlers == HandlersSpec => []StopEndsHandler
<1>1. ASSUME StopInv PROVE StopEndsHandler
  <2> USE <1>1 DEF StopInv
  <2>1. StopEndsDecisions
    <3> SUFFICES ASSUME Stopped
                 PROVE  Cardinality({g \in Groups : group[g] # atStop.group[g]}) <= 1
      BY DEF StopEndsDecisions, Stopped
    <3>1. PICK g0 : \A g \in Groups \ {g0} : group[g] = atStop.group[g]
      BY DEF OneGroup
    <3>2. {g \in Groups : group[g] # atStop.group[g]} \subseteq {g0}
      BY <3>1
    <3> QED BY <3>2, AtMostOne
  <2>2. StopEndsWrites
    <3> DEFINE changed == {p \in Groups \X Families :
                              table[p[1]][p[2]] # atStop.table[p[1]][p[2]]}
    <3> SUFFICES ASSUME Stopped PROVE Cardinality(changed) <= 1
      BY DEF StopEndsWrites, Stopped
    <3>1. PICK p0 : \A p \in (Groups \X Families) \ {p0} :
              table[p[1]][p[2]] = atStop.table[p[1]][p[2]]
      BY DEF OneWrite
    <3>2. changed \subseteq {p0}
      BY <3>1
    <3> HIDE DEF changed
    <3> QED BY <3>2, AtMostOne
  <2> QED BY <2>1, <2>2 DEF StopEndsHandler
<1> QED BY <1>1, StopInvInit, StopInvNext, PTL DEF HandlersSpec

(* A Hook finds in state.json the Selection it is told of, unless writing  *)
(* the file failed (publishDecision).                                      *)
THEOREM HooksFindState == HandlersSpec => HookFindsState
<1> DEFINE Finds == \A g \in Groups : hook'[g] \notin {hook[g], NoHook} =>
                        stale \/ file.groups[g].selection = hook'[g].new
<1>1. ASSUME StopInv, [HandlersNext]_allVars PROVE [Finds]_allVars
  <2>1. ASSUME NotifyHooks, NEW g \in Groups, hook'[g] \notin {hook[g], NoHook}
        PROVE  stale \/ file.groups[g].selection = hook'[g].new
    <3>1. hook'[g].new = group[g].selection
      BY <1>1, <2>1 DEF NotifyHooks, StopInv, Shape
    <3>2. stale \/ file = Snapshot(health, gateways, group)
      BY <1>1, <2>1 DEF NotifyHooks, StopInv, HookReady
    <3>3. Snapshot(health, gateways, group).groups[g].selection = group[g].selection
      BY DEF Snapshot, GroupView
    <3> QED BY <3>1, <3>2, <3>3
  <2>2. CASE BeginAny
    BY <2>2 DEF BeginAny, BeginPrime, BeginProbe, BeginLink, BeginRoute, Begin
  <2>3. CASE HandlerStep /\ ~NotifyHooks
    BY <2>3 DEF HandlerStep, NextGroup, EndLoop, LookupIfIndex, WriteRoute, RouteWritten,
                EndApply, SettleGroup, FlushVacated, PublishState, Republish, vars, history
  <2>4. CASE Boot \/ Exit
    BY <2>4 DEF Boot, Exit, Bootstrap, Stop
  <2>5. CASE Cancel
    BY <2>5 DEF Cancel, vars
  <2> QED BY <1>1, <2>1, <2>2, <2>3, <2>4, <2>5 DEF HandlersNext, HandlerStep
<1> QED BY <1>1, StopInvInit, StopInvNext, PTL DEF HandlersSpec, HookFindsState
-----------------------------------------------------------------------------
(***************************************************************************)
(* A handler takes one step.                                               *)
(*                                                                         *)
(* Daemon's operators that read no variable are the same seen through the  *)
(* refinement mapping.                                                     *)
(***************************************************************************)
LEMMA SameStrategy ==
    ASSUME NEW g, NEW H, NEW h, NEW w
    PROVE  /\ Atomic!Select(g, H) = Select(g, H)
           /\ Atomic!Healthy(h, w) = Healthy(h, w)
           /\ Atomic!HealthySet(h) = HealthySet(h)
<1>1. Atomic!Select(g, H) = Select(g, H)
  BY DEF Atomic!Select, Atomic!HealthyMembers, Atomic!Preferred,
         Select, HealthyMembers, Preferred
<1>2. \A v : Atomic!Healthy(h, v) = Healthy(h, v)
  BY DEF Atomic!Healthy, Atomic!CarrierUp, Atomic!CombineFamilies, Atomic!Vote,
         Healthy, CarrierUp, CombineFamilies, Vote
<1>3. Atomic!HealthySet(h) = HealthySet(h)
  BY <1>2 DEF Atomic!HealthySet, HealthySet
<1> QED BY <1>1, <1>2, <1>3

(* What a fresh daemon holds.                                              *)
LEMMA SameCold ==
    /\ Atomic!ColdHealth = ColdHealth
    /\ Atomic!NewGroup = NewGroup
BY DEF Atomic!ColdHealth, Atomic!ColdWan, Atomic!ColdFamily, Atomic!NewGroup,
       ColdHealth, ColdWan, ColdFamily, NewGroup

(* What state.json is to show.                                             *)
LEMMA SameSnapshot ==
    ASSUME NEW h, NEW gw, NEW grs
    PROVE  Atomic!Snapshot(h, gw, grs) = Snapshot(h, gw, grs)
<1>1. Atomic!HealthView(h) = HealthView(h)
  BY DEF Atomic!HealthView, Atomic!Healthy, Atomic!CarrierUp, Atomic!CombineFamilies,
         Atomic!Vote, HealthView, Healthy, CarrierUp, CombineFamilies, Vote
<1>2. Atomic!GatewayView(gw) = GatewayView(gw)
  BY DEF Atomic!GatewayView, GatewayView, Atomic!Address, Address
<1>3. \A gr : Atomic!GroupView(gr) = GroupView(gr)
  BY DEF Atomic!GroupView, GroupView
<1> QED BY <1>1, <1>2, <1>3 DEF Atomic!Snapshot, Snapshot

(* How an event changes WAN Health, and what it makes of it.               *)
LEMMA SameHealth ==
    ASSUME NEW h, NEW w, NEW f, NEW stats, NEW i, NEW link, NEW links
    PROVE  /\ Atomic!ProbeHealth(h, w, f, stats) = ProbeHealth(h, w, f, stats)
           /\ Atomic!ProbeFlipped(h, w, f, stats) = ProbeFlipped(h, w, f, stats)
           /\ Atomic!ProbeRepublish(h, w, f, stats) = ProbeRepublish(h, w, f, stats)
           /\ Atomic!LinkHealth(h, i, link) = LinkHealth(h, i, link)
           /\ Atomic!LinkFlipped(h, i, link) = LinkFlipped(h, i, link)
           /\ Atomic!LinkRepublish(h, i, link) = LinkRepublish(h, i, link)
           /\ Atomic!LinkSnapshot(h, links) = LinkSnapshot(h, links)
<1>1. \A fs : Atomic!Fold(w, fs, stats) = Fold(w, fs, stats)
  BY DEF Atomic!Fold, Atomic!Observe, Atomic!Seed, Atomic!EvaluateThresholds,
         Atomic!OrZero, Atomic!Lesser,
         Fold, Observe, Seed, EvaluateThresholds, OrZero, Lesser
<1>2. Atomic!Folds(h, w, f, stats) <=> Folds(h, w, f, stats)
  BY DEF Atomic!Folds, Folds
<1>3. Atomic!ProbeHealth(h, w, f, stats) = ProbeHealth(h, w, f, stats)
  BY <1>1, <1>2 DEF Atomic!ProbeHealth, ProbeHealth
<1>4. \A i2, l2 : Atomic!LinkHealth(h, i2, l2) = LinkHealth(h, i2, l2)
  BY DEF Atomic!LinkHealth, LinkHealth
<1>5. Atomic!ProbeFlipped(h, w, f, stats) = ProbeFlipped(h, w, f, stats)
  BY <1>3, SameStrategy DEF Atomic!ProbeFlipped, ProbeFlipped
<1>6. Atomic!ProbeRepublish(h, w, f, stats) = ProbeRepublish(h, w, f, stats)
  BY <1>1, <1>2 DEF Atomic!ProbeRepublish, ProbeRepublish
<1>7. Atomic!LinkFlipped(h, i, link) = LinkFlipped(h, i, link)
  BY <1>4, SameStrategy DEF Atomic!LinkFlipped, LinkFlipped
<1>8. Atomic!LinkRepublish(h, i, link) = LinkRepublish(h, i, link)
  BY DEF Atomic!LinkRepublish, LinkRepublish
<1>9. Atomic!LinkSnapshot(h, links) = LinkSnapshot(h, links)
  BY <1>4 DEF Atomic!LinkSnapshot, LinkSnapshot
<1> QED BY <1>3, <1>4, <1>5, <1>6, <1>7, <1>8, <1>9

(* The Decision module.                                                    *)
LEMMA SameDecision ==
    ASSUME NEW gr, NEW t, NEW ok, NEW on, NEW f
    PROVE  /\ Atomic!RecomputeAttempt(gr, t) = RecomputeAttempt(gr, t)
           /\ Atomic!Recompute(gr, t, ok) = Recompute(gr, t, ok)
           /\ Atomic!ProbeAttempt(gr, t) = ProbeAttempt(gr, t)
           /\ Atomic!Probe(gr, t, ok) = Probe(gr, t, ok)
           /\ Atomic!RouteAttempt(gr, on, f) = RouteAttempt(gr, on, f)
           /\ Atomic!RouteObserved(gr, on, ok) = RouteObserved(gr, on, ok)
           /\ Atomic!Idle(gr) = Idle(gr)
           /\ Atomic!NoAttempt = NoAttempt
BY DEF Atomic!RecomputeAttempt, Atomic!Recompute, Atomic!ProbeAttempt, Atomic!Probe,
       Atomic!RouteAttempt, Atomic!RouteObserved, Atomic!Idle, Atomic!NoAttempt,
       Atomic!Attempt, Atomic!Intent, Atomic!Commit, Atomic!Refresh,
       Atomic!RefreshAttempt, Atomic!RetryDue, Atomic!RepairDue,
       RecomputeAttempt, Recompute, ProbeAttempt, Probe, RouteAttempt, RouteObserved,
       Idle, NoAttempt, Attempt, Intent, Commit, Refresh, RefreshAttempt, RetryDue, RepairDue

(* Apply, and the event a change of Selection is.                          *)
LEMMA SameApply ==
    ASSUME NEW gw, NEW at, NEW a, NEW row, NEW o, NEW n
    PROVE  /\ Atomic!ToWrite(gw, at) = ToWrite(gw, at)
           /\ Atomic!ApplyOk(gw, at, a) = ApplyOk(gw, at, a)
           /\ Atomic!Applied(gw, at, a, row) = Applied(gw, at, a, row)
           /\ Atomic!Event(o, n) = Event(o, n)
BY DEF Atomic!ToWrite, Atomic!ApplyOk, Atomic!Applied, Atomic!Event, Atomic!Routable,
       Atomic!RouteOf, ToWrite, ApplyOk, Applied, Event, Routable, RouteOf

(***************************************************************************)
(* What a handler has to do.  A plan is rigid: Daemon's variables before   *)
(* the handler (b), Health and Gateways as the event left them (h, gw),    *)
(* the operation the loop calls (op), the WANs it calls it for (ws), for a *)
(* probe result the WAN (w) and for a route event the Family (f).          *)
(***************************************************************************)
Target(plan, g) == Select(g, HealthySet(plan.h))

PairAttempt(plan, p, gr) ==
    CASE plan.op = "recompute" -> RecomputeAttempt(gr, Target(plan, p[2]))
      [] plan.op = "probe" -> ProbeAttempt(gr, p[1])
      [] plan.op = "route" -> RouteAttempt(gr, {p[1]}, plan.f)

PairStep(plan, p, gr, ok) ==
    CASE plan.op = "recompute" -> Recompute(gr, Target(plan, p[2]), ok)
      [] plan.op = "probe" -> Probe(gr, p[1], ok)
      [] plan.op = "route" -> RouteObserved(gr, {p[1]}, ok)

(* What the one step of Daemon does to g.                                  *)
PlanAt(plan, g) ==
    CASE plan.op = "recompute" -> IF Members[g] \cap plan.ws # {}
                                    THEN RecomputeAttempt(plan.b.group[g], Target(plan, g))
                                    ELSE NoAttempt
      [] plan.op = "probe" -> ProbeAttempt(plan.b.group[g], plan.w)
      [] plan.op = "route" -> RouteAttempt(plan.b.group[g], plan.ws, plan.f)

PlanStep(plan, g, ok) ==
    CASE plan.op = "recompute" -> IF Members[g] \cap plan.ws # {}
                                    THEN Recompute(plan.b.group[g], Target(plan, g), ok)
                                    ELSE Idle(plan.b.group[g])
      [] plan.op = "probe" -> Probe(plan.b.group[g], plan.w, ok)
      [] plan.op = "route" -> RouteObserved(plan.b.group[g], plan.ws, ok)

Pairs(plan) ==
    CASE plan.op = "recompute" -> Affected(plan.ws)
      [] plan.op = "probe" -> {plan.w} \X Groups
      [] plan.op = "route" -> plan.ws \X Groups

(* The events that make such a plan, with a write of state.json before the *)
(* loop (early) or after it (late).                                        *)
Primes(plan, early, late, routes, links) ==
    /\ plan.op = "recompute" /\ plan.f = NoActive /\ plan.b.phase = "booted"
    /\ plan.gw = [i \in Ifaces |-> [f \in Families |->
                     IF routes[i][f] = NoEntry THEN plan.b.gateways[i][f] ELSE routes[i][f]]]
    /\ plan.h = LinkSnapshot(plan.b.health, links)
    /\ plan.ws = {w \in Wans : Healthy(plan.h, w) # Healthy(plan.b.health, w)}
    /\ ~early
    /\ late <=> \/ \E i \in Ifaces, f \in Families : routes[i][f] # NoEntry
                \/ \E i \in Ifaces : links[i] # NoLink /\ LinkRepublish(plan.b.health, i, links[i])

ProbeTurns(plan, early, late, w, f, stats) ==
    /\ plan.op = "recompute" /\ plan.f = NoActive
    /\ plan.b.phase = "running" /\ plan.gw = plan.b.gateways
    /\ plan.h = ProbeHealth(plan.b.health, w, f, stats)
    /\ plan.ws = ProbeFlipped(plan.b.health, w, f, stats) /\ w \in plan.ws
    /\ ~early /\ (late <=> ProbeRepublish(plan.b.health, w, f, stats))

ProbeRetries(plan, early, late, w, f, stats) ==
    /\ plan.op = "probe" /\ plan.w = w /\ plan.f = NoActive
    /\ plan.b.phase = "running" /\ plan.gw = plan.b.gateways
    /\ plan.h = ProbeHealth(plan.b.health, w, f, stats)
    /\ w \notin ProbeFlipped(plan.b.health, w, f, stats)
    /\ (early <=> ProbeRepublish(plan.b.health, w, f, stats)) /\ ~late

LinkTurns(plan, early, late, i, link) ==
    /\ plan.op = "recompute" /\ plan.f = NoActive
    /\ plan.b.phase = "running" /\ plan.gw = plan.b.gateways
    /\ plan.h = LinkHealth(plan.b.health, i, link)
    /\ plan.ws = LinkFlipped(plan.b.health, i, link)
    /\ ~early /\ (late <=> LinkRepublish(plan.b.health, i, link))

RouteSeen(plan, early, late, i, f, entry) ==
    /\ plan.op = "route" /\ plan.f = f /\ plan.ws = {w \in Wans : Interface[w] = i}
    /\ plan.b.phase = "running" /\ plan.h = plan.b.health
    /\ plan.gw = [plan.b.gateways EXCEPT ![i][f] = entry]
    /\ ~early /\ (late <=> entry = NoEntry \/ plan.b.gateways[i][f] # entry)

RouteSnapshots == {r \in [Ifaces -> [Families -> CacheEntry]] :
                      \A i \in Ifaces, f \in Families : r[i][f] \in Observable(i)}

Cause(plan, early, late) ==
    \/ \E routes \in RouteSnapshots, links \in [Ifaces -> LinkStates \cup {NoLink}] :
          Primes(plan, early, late, routes, links)
    \/ \E w \in Wans : \E f \in Probed[w], stats \in Stats :
          \/ ProbeTurns(plan, early, late, w, f, stats)
          \/ ProbeRetries(plan, early, late, w, f, stats)
    \/ \E i \in Ifaces, link \in LinkStates : LinkTurns(plan, early, late, i, link)
    \/ \E i \in Ifaces : \E f \in Families, entry \in Observable(i) :
          RouteSeen(plan, early, late, i, f, entry)

(***************************************************************************)
(* What a plan promises.  Of a Group's pairs the first that does anything  *)
(* does what is planned, and the ones after it do nothing.                 *)
(***************************************************************************)
Inert(plan, p, gr) ==
    /\ PairAttempt(plan, p, gr) = NoAttempt
    /\ \A ok \in BOOLEAN : PairStep(plan, p, gr, ok) = Idle(gr)

Carries(plan, p, g) ==
    /\ PairAttempt(plan, p, plan.b.group[g]) = PlanAt(plan, g)
    /\ \A ok \in BOOLEAN :
          /\ PairStep(plan, p, plan.b.group[g], ok) = PlanStep(plan, g, ok)
          /\ \A q \in Pairs(plan) :
                q[2] = g /\ q # p => Inert(plan, q, PlanStep(plan, g, ok).group)

OnePairActs(plan, g) ==
    LET own == {p \in Pairs(plan) : p[2] = g}
    IN  /\ \A p \in own : Inert(plan, p, plan.b.group[g]) \/ Carries(plan, p, g)
        /\ (\A p \in own : Inert(plan, p, plan.b.group[g])) =>
               /\ PlanAt(plan, g) = NoAttempt
               /\ \A ok \in BOOLEAN : PlanStep(plan, g, ok) = Idle(plan.b.group[g])

SoundPlan(plan, g, late) ==
    /\ PlanAt(plan, g).wan \in Active
    /\ \A ok \in BOOLEAN :
          LET step == PlanStep(plan, g, ok)
          IN  /\ SoundStep(plan.b.group[g], step)
              /\ step.group.decisionsTotal <= plan.b.group[g].decisionsTotal + 1
              /\ late \/ step.commit \/ GroupView(step.group) = GroupView(plan.b.group[g])

Planned(plan, late) ==
    /\ Pairs(plan) \subseteq Wans \X Groups
    /\ \A g \in Groups : OnePairActs(plan, g) /\ SoundPlan(plan, g, late)

(***************************************************************************)
(* What has been done of it: the Groups that decided (done) and the        *)
(* kernel's answers to them (ans).                                         *)
(***************************************************************************)
Fits(plan, g, a) ==
    /\ a \in KernelAnswers
    /\ PlanAt(plan, g).wan = NoActive => a.ifindex
    /\ a.ifindex => Families \ ToWrite(plan.gw, PlanAt(plan, g)) \subseteq a.writes

Ok(plan, g, a) == ApplyOk(plan.gw, PlanAt(plan, g), a)
Row(plan, g, a) == Applied(plan.gw, PlanAt(plan, g), a, plan.b.table[g])
Outcome(plan, g, a) == PlanStep(plan, g, Ok(plan, g, a))
Committed(plan, ans, done, g) == g \in done /\ Outcome(plan, g, ans[g]).commit

InTurn == IF pc \in {"lookup", "write", "call", "settle"} THEN {cur} ELSE {}

Rest(plan, ans, done, g) ==
    IF g \in done
      THEN /\ Fits(plan, g, ans[g])
           /\ group[g] = Outcome(plan, g, ans[g]).group
           /\ table[g] = Row(plan, g, ans[g])
      ELSE /\ group[g] = plan.b.group[g]
           /\ ans[g] = AllWork
           /\ \/ table[g] = plan.b.table[g]
              \/ \E p \in InTurn : g = p[2] /\ ~Inert(plan, p, group[g])

Turns(plan, done) ==
    /\ todo \cup InTurn \subseteq Pairs(plan)
    /\ todo \cap InTurn = {}
    /\ \A p \in Pairs(plan) \ (todo \cup InTurn) :
          p[2] \in done \/ Inert(plan, p, plan.b.group[p[2]])
    /\ \A p \in todo \cup InTurn : p[2] \in done => Inert(plan, p, group[p[2]])

(* The Apply of the pair p whose turn it is.                               *)
Written(plan, g, W) ==
    [f \in Families |-> IF f \in W THEN RouteOf(plan.gw, PlanAt(plan, g).wan, f)
                                   ELSE plan.b.table[g][f]]

Writing(plan, g, T) ==
    /\ left \subseteq T
    /\ \E W \in SUBSET (T \ left) : /\ table[g] = Written(plan, g, W)
                                    /\ failed <=> W # T \ left

Answered(plan, g) ==
    \E a \in KernelAnswers : /\ Fits(plan, g, a)
                             /\ table[g] = Row(plan, g, a)
                             /\ failed <=> ~Ok(plan, g, a)

Applying(plan, p) ==
    IF Inert(plan, p, group[p[2]])
      THEN pc = "settle" /\ ~failed
      ELSE LET T == ToWrite(plan.gw, PlanAt(plan, p[2]))
           IN  /\ pc = "lookup" => /\ left = T /\ ~failed
                                   /\ table[p[2]] = plan.b.table[p[2]]
               /\ pc \in {"lookup", "write", "call"} => PlanAt(plan, p[2]).wan # NoActive
               /\ pc \in {"write", "call"} => Writing(plan, p[2], T)
               /\ pc = "settle" => Answered(plan, p[2])

(* The publication of the Group that committed last.                       *)
VacatedBy(v, o, n) ==
    CASE Event(o, n) = "down" -> o [] Event(o, n) = "up" -> NoActive [] OTHER -> v

FlushedBy(v, o, n) ==
    CASE Event(o, n) = "switch" -> o [] Event(o, n) = "up" /\ v # n -> v [] OTHER -> NoActive

UnflushedBy(u, v, o, n) == (u \ {FlushedBy(v, o, n)}) \cup ({n} \ {NoActive})

HookBy(h, o, n) ==
    IF Event(o, n) = "" THEN h ELSE [event |-> Event(o, n), old |-> o, new |-> n]

Publishing(g, stages) == pc \in stages /\ cur[2] = g

Publication(b, g) ==
    LET o == b.group[g].selection
        n == group[g].selection
    IN  /\ vacated[g] = IF Publishing(g, {"flush"}) THEN b.vacated[g]
                        ELSE VacatedBy(b.vacated[g], o, n)
        /\ unflushed[g] = IF Publishing(g, {"flush"}) THEN b.unflushed[g]
                          ELSE UnflushedBy(b.unflushed[g], b.vacated[g], o, n)
        /\ hook[g] = IF Publishing(g, {"flush", "state", "hook"}) THEN b.hook[g]
                     ELSE HookBy(b.hook[g], o, n)

Publications(plan, ans, done) ==
    /\ pc \in {"flush", "state", "hook"} =>
          /\ cur[2] \in Groups /\ Committed(plan, ans, done, cur[2])
          /\ old = plan.b.group[cur[2]].selection
    /\ \A g \in Groups : Publication(plan.b, g)

(* state.json: nothing written yet, or a write of what had been done then. *)
During(plan, grs, S) ==
    Snapshot(plan.h, plan.gw, [g \in Groups |-> IF g \in S THEN grs[g] ELSE plan.b.group[g]])

Shows(plan) ==
    LET now == Snapshot(plan.h, plan.gw, group)
    IN  \/ file = now /\ stale = FALSE
        \/ file # now /\ stale = TRUE /\ StateWriteFails

EarlierWrite(plan, ans, done, early) ==
    \E S \in SUBSET done :
        /\ (\E g \in S : Committed(plan, ans, done, g)) \/ (S = {} /\ early)
        /\ file = During(plan, group, S)

FileSoFar(plan, ans, done, early, late) ==
    IF early \/ \E g \in Groups : /\ Committed(plan, ans, done, g)
                                  /\ ~Publishing(g, {"flush", "state"})
      THEN /\ file = plan.b.file \/ EarlierWrite(plan, ans, done, early)
           /\ late \/ pc \in {"flush", "state"} \/ Shows(plan)
      ELSE file = plan.b.file /\ stale = plan.b.stale

Work(plan, ans, done, early, late) ==
    /\ call = plan.op /\ observed = plan.f /\ (republish <=> late)
    /\ pc = "republish" => todo = {}
    /\ done \subseteq Groups
    /\ \A g \in Groups : Rest(plan, ans, done, g)
    /\ Turns(plan, done)
    /\ \A p \in InTurn : Applying(plan, p)
    /\ Publications(plan, ans, done)
    /\ FileSoFar(plan, ans, done, early, late)

(* A probe result that turned no WAN: the loop has nothing to do, and the  *)
(* retries come after the republication.                                   *)
Opening(plan, early) ==
    /\ plan.op = "probe" /\ plan.w = retry
    /\ pc \in {"loop", "republish"} /\ todo = {} /\ (republish <=> early)
    /\ group = plan.b.group /\ table = plan.b.table /\ vacated = plan.b.vacated
    /\ unflushed = plan.b.unflushed /\ hook = plan.b.hook
    /\ file = plan.b.file /\ stale = plan.b.stale

UnderWay ==
    \E plan, ans, done, early, late :
        /\ plan.b = before /\ plan.h = health /\ plan.gw = gateways
        /\ Cause(plan, early, late) /\ Planned(plan, late)
        /\ IF retry = NoActive THEN Work(plan, ans, done, early, late)
                               ELSE Opening(plan, early)

(***************************************************************************)
(* The inductive invariant.                                                *)
(***************************************************************************)
Ready(s) ==
    /\ s.health \in [Wans -> WanHealth]
    /\ \A g \in Groups :
          /\ SoundGroup(s.group[g])
          /\ NoActive \notin s.unflushed[g]
          /\ s.group[g].selection \in s.unflushed[g] \cup {NoActive}
          /\ s.table[g] = [f \in Families |-> s.table[g][f]]

Functional ==
    /\ group = [g \in Groups |-> group[g]]
    /\ vacated = [g \in Groups |-> vacated[g]]
    /\ hook = [g \in Groups |-> hook[g]]
    /\ unflushed = [g \in Groups |-> unflushed[g]]
    /\ table = [g \in Groups |-> [f \in Families |-> table[g][f]]]

AtomicInv ==
    /\ Functional /\ health \in [Wans -> WanHealth]
    /\ phase = "running" \/ pc = "idle"
    /\ phase = "off" => hook = [g \in Groups |-> NoHook] /\ unflushed = [g \in Groups |-> {}]
    /\ ~cancelled => Ready(shown)
    /\ ~cancelled /\ pc # "idle" =>
          UnderWay /\ \A g \in Groups : before.group[g].decisionsTotal < MaxDecisions

(***************************************************************************)
(* The three operations keep that promise.                                 *)
(***************************************************************************)
SoundBase(plan) == \A g \in Groups : SoundGroup(plan.b.group[g])

(* A recomputation counts at most one Decision.                            *)
LEMMA RecomputeCounts ==
    ASSUME NEW gr, SoundGroup(gr), NEW target \in Active, NEW ok \in BOOLEAN
    PROVE  Recompute(gr, target, ok).group.decisionsTotal <= gr.decisionsTotal + 1
<1> DEFINE next == [gr EXCEPT !.pending = target, !.decisionsTotal = @ + 1]
           last == [next EXCEPT !.selection = next.pending, !.pending = NoPending,
                                !.repairDue = FALSE]
<1>0. gr \in GroupState /\ gr.decisionsTotal \in Nat
  BY DEF SoundGroup, GroupState
<1>1. /\ next.decisionsTotal = gr.decisionsTotal + 1
      /\ last.decisionsTotal = gr.decisionsTotal + 1
  BY <1>0 DEF GroupState
<1>2. Recompute(gr, target, ok).group \in {gr, next, last}
  BY DEF Recompute, Commit, Idle
<1> HIDE DEF next, last
<1> QED BY <1>0, <1>1, <1>2

(* Once a Group is recomputed its intent is the target, and recomputing it *)
(* again for another WAN does nothing.                                     *)
LEMMA RecomputePlan ==
    ASSUME NEW plan, NEW late, plan.op = "recompute", SoundBase(plan),
           plan.ws \subseteq Wans, late \/ plan.ws = {}
    PROVE  Planned(plan, late)
<1> DEFINE t(g) == Target(plan, g)
<1>1. /\ Pairs(plan) = Affected(plan.ws)
      /\ \A p, gr : PairAttempt(plan, p, gr) = RecomputeAttempt(gr, t(p[2]))
      /\ \A p, gr, ok : PairStep(plan, p, gr, ok) = Recompute(gr, t(p[2]), ok)
  BY DEF Pairs, PairAttempt, PairStep
<1>2. \A g : /\ PlanAt(plan, g) = IF Members[g] \cap plan.ws # {}
                                    THEN RecomputeAttempt(plan.b.group[g], t(g)) ELSE NoAttempt
             /\ \A ok : PlanStep(plan, g, ok) =
                    IF Members[g] \cap plan.ws # {} THEN Recompute(plan.b.group[g], t(g), ok)
                                                    ELSE Idle(plan.b.group[g])
  BY DEF PlanAt, PlanStep
<1>3. Pairs(plan) \subseteq Wans \X Groups
  BY <1>1 DEF Affected
<1>4. \A p, gr : t(p[2]) = Intent(gr) => Inert(plan, p, gr)
  BY <1>1 DEF Inert, RecomputeAttempt, Recompute
<1>5. \A g \in Groups : t(g) \in Active
  BY SelectType DEF Target
<1>6. ASSUME NEW g \in Groups
      PROVE  OnePairActs(plan, g) /\ SoundPlan(plan, g, late)
  <2> DEFINE gr == plan.b.group[g]
  <2>1. SoundGroup(gr)
    BY <1>6 DEF SoundBase
  <2>2. \A ok \in BOOLEAN : /\ SoundStep(gr, Recompute(gr, t(g), ok))
                            /\ Intent(Recompute(gr, t(g), ok).group) = t(g)
    BY <1>5, <1>6, <2>1, RecomputeSound
  <2>3. ASSUME Members[g] \cap plan.ws # {}
        PROVE  OnePairActs(plan, g)
    <3>1. PlanAt(plan, g) = RecomputeAttempt(gr, t(g))
      BY <1>2, <2>3
    <3>2. \A ok : PlanStep(plan, g, ok) = Recompute(gr, t(g), ok)
      BY <1>2, <2>3
    <3>3. \A p \in Pairs(plan) : p[2] = g => Carries(plan, p, g)
      <4> SUFFICES ASSUME NEW p \in Pairs(plan), p[2] = g PROVE Carries(plan, p, g)
        OBVIOUS
      <4>1. PairAttempt(plan, p, gr) = PlanAt(plan, g)
        BY <1>1, <3>1
      <4>2. ASSUME NEW ok \in BOOLEAN
            PROVE  PairStep(plan, p, gr, ok) = PlanStep(plan, g, ok)
        BY <1>1, <3>2
      <4>3. ASSUME NEW ok \in BOOLEAN, NEW q \in Pairs(plan), q[2] = g
            PROVE  Inert(plan, q, PlanStep(plan, g, ok).group)
        BY <1>4, <2>2, <3>2, <4>3
      <4> QED BY <4>1, <4>2, <4>3 DEF Carries
    <3>4. PICK p \in Pairs(plan) : p[2] = g
      <4>1. PICK w \in Members[g] \cap plan.ws : TRUE
        BY <2>3
      <4>2. <<w, g>> \in Pairs(plan)
        BY <1>1, <4>1 DEF Affected
      <4> QED BY <4>2
    <3>5. ASSUME Inert(plan, p, gr)
          PROVE  /\ PlanAt(plan, g) = NoAttempt
                 /\ \A ok \in BOOLEAN : PlanStep(plan, g, ok) = Idle(gr)
      BY <1>1, <3>1, <3>2, <3>4, <3>5 DEF Inert
    <3> QED BY <3>3, <3>4, <3>5 DEF OnePairActs
  <2>4. ASSUME Members[g] \cap plan.ws = {}
        PROVE  OnePairActs(plan, g)
    <3>1. \A p \in Pairs(plan) : p[2] # g
      BY <1>1, <2>4 DEF Affected
    <3>2. PlanAt(plan, g) = NoAttempt /\ \A ok \in BOOLEAN : PlanStep(plan, g, ok) = Idle(gr)
      BY <1>2, <2>4
    <3> QED BY <3>1, <3>2 DEF OnePairActs
  <2>5. PlanAt(plan, g).wan \in Active
    BY <1>2, <1>5, <1>6 DEF RecomputeAttempt, NoAttempt, Attempt, Active
  <2>6. ASSUME NEW ok \in BOOLEAN
        PROVE  LET step == PlanStep(plan, g, ok)
               IN  /\ SoundStep(gr, step)
                   /\ step.group.decisionsTotal <= gr.decisionsTotal + 1
                   /\ late \/ step.commit \/ GroupView(step.group) = GroupView(gr)
    <3>1. CASE Members[g] \cap plan.ws # {}
      BY <1>2, <1>5, <1>6, <2>1, <2>2, <3>1, RecomputeCounts
    <3>2. CASE Members[g] \cap plan.ws = {}
      <4>1. PlanStep(plan, g, ok) = Idle(gr)
        BY <1>2, <3>2
      <4>2. Idle(gr).group = gr /\ gr.decisionsTotal <= gr.decisionsTotal + 1
        BY <2>1 DEF Idle, SoundGroup, GroupState
      <4>3. SoundStep(gr, Idle(gr))
        BY <2>1, IdleSound
      <4> QED BY <4>1, <4>2, <4>3
    <3> QED BY <3>1, <3>2
  <2>7. SoundPlan(plan, g, late)
    BY <2>5, <2>6 DEF SoundPlan
  <2> QED BY <2>3, <2>4, <2>7
<1> QED BY <1>3, <1>6 DEF Planned

(* Neither a retry nor a repair counts a Decision, and without a commit    *)
(* state.json shows the same of the Group.                                 *)
LEMMA OperationCounts ==
    ASSUME NEW gr, SoundGroup(gr), NEW ok \in BOOLEAN,
           NEW r \in {Commit(gr, ok), Refresh(gr, ok), Idle(gr)}
    PROVE  /\ r.group.decisionsTotal <= gr.decisionsTotal + 1
           /\ r.commit \/ GroupView(r.group) = GroupView(gr)
<1>0. gr \in GroupState /\ gr.decisionsTotal <= gr.decisionsTotal + 1
  BY DEF SoundGroup, GroupState
<1>1. r.group.decisionsTotal = gr.decisionsTotal
  <2> DEFINE last == [gr EXCEPT !.selection = gr.pending, !.pending = NoPending,
                                !.repairDue = FALSE]
             next == [gr EXCEPT !.repairDue = ~ok]
  <2>1. /\ last.decisionsTotal = gr.decisionsTotal
        /\ next.decisionsTotal = gr.decisionsTotal
    BY <1>0 DEF GroupState
  <2>2. r.group \in {gr, last, next}
    BY DEF Commit, Refresh, Idle
  <2> HIDE DEF last, next
  <2> QED BY <2>1, <2>2
<1>2. r.commit \/ GroupView(r.group) = GroupView(gr)
  BY QuietOperations DEF Refresh, Idle
<1> QED BY <1>0, <1>1, <1>2

(* A retry visits each Group once.                                         *)
LEMMA ProbePlan ==
    ASSUME NEW plan, NEW late, plan.op = "probe", SoundBase(plan), plan.w \in Wans
    PROVE  Planned(plan, late)
<1>1. /\ Pairs(plan) = {plan.w} \X Groups
      /\ \A p, gr : PairAttempt(plan, p, gr) = ProbeAttempt(gr, p[1])
      /\ \A p, gr, ok : PairStep(plan, p, gr, ok) = Probe(gr, p[1], ok)
  BY DEF Pairs, PairAttempt, PairStep
<1>2. \A g : /\ PlanAt(plan, g) = ProbeAttempt(plan.b.group[g], plan.w)
             /\ \A ok : PlanStep(plan, g, ok) = Probe(plan.b.group[g], plan.w, ok)
  BY DEF PlanAt, PlanStep
<1>3. Pairs(plan) \subseteq Wans \X Groups
  BY <1>1
<1>4. ASSUME NEW g \in Groups
      PROVE  OnePairActs(plan, g) /\ SoundPlan(plan, g, late)
  <2> DEFINE gr == plan.b.group[g]
  <2>1. SoundGroup(gr)
    BY <1>4 DEF SoundBase
  <2>2. \A p \in Pairs(plan) : p[2] = g => p = <<plan.w, g>> /\ p[1] = plan.w
    BY <1>1
  <2>3. \A p \in Pairs(plan) : p[2] = g => Carries(plan, p, g)
    BY <1>1, <1>2, <2>2 DEF Carries
  <2>4. <<plan.w, g>> \in Pairs(plan) /\ <<plan.w, g>>[1] = plan.w /\ <<plan.w, g>>[2] = g
    BY <1>1
  <2>5. ASSUME Inert(plan, <<plan.w, g>>, gr)
        PROVE  /\ PlanAt(plan, g) = NoAttempt
               /\ \A ok \in BOOLEAN : PlanStep(plan, g, ok) = Idle(gr)
    BY <1>1, <1>2, <2>4, <2>5 DEF Inert
  <2>6. OnePairActs(plan, g)
    BY <2>3, <2>4, <2>5 DEF OnePairActs
  <2>7. PlanAt(plan, g).wan \in Active
    <3>1. ProbeAttempt(gr, plan.w) \in
              {Attempt(plan.w, Families), RefreshAttempt(gr, Families), NoAttempt}
      BY DEF ProbeAttempt
    <3> QED BY <1>2, <2>1, <3>1
            DEF Attempt, RefreshAttempt, NoAttempt, Active, SoundGroup, GroupState
  <2>8. ASSUME NEW ok \in BOOLEAN
        PROVE  LET step == PlanStep(plan, g, ok)
               IN  /\ SoundStep(gr, step)
                   /\ step.group.decisionsTotal <= gr.decisionsTotal + 1
                   /\ late \/ step.commit \/ GroupView(step.group) = GroupView(gr)
    <3>1. SoundStep(gr, Probe(gr, plan.w, ok))
      BY <2>1, ProbeSound
    <3>2. Probe(gr, plan.w, ok) \in {Commit(gr, ok), Refresh(gr, ok), Idle(gr)}
      BY DEF Probe
    <3> QED BY <1>2, <2>1, <3>1, <3>2, OperationCounts
  <2> QED BY <2>6, <2>7, <2>8 DEF SoundPlan
<1> QED BY <1>3, <1>4 DEF Planned

(* At most one of the WANs on the interface is what the Group intends, and *)
(* the route event acts on that one alone.                                 *)
LEMMA RoutePlan ==
    ASSUME NEW plan, NEW late, plan.op = "route", SoundBase(plan), plan.ws \subseteq Wans
    PROVE  Planned(plan, late)
<1>1. /\ Pairs(plan) = plan.ws \X Groups
      /\ \A p, gr : PairAttempt(plan, p, gr) = RouteAttempt(gr, {p[1]}, plan.f)
      /\ \A p, gr, ok : PairStep(plan, p, gr, ok) = RouteObserved(gr, {p[1]}, ok)
  BY DEF Pairs, PairAttempt, PairStep
<1>2. \A g : /\ PlanAt(plan, g) = RouteAttempt(plan.b.group[g], plan.ws, plan.f)
             /\ \A ok : PlanStep(plan, g, ok) = RouteObserved(plan.b.group[g], plan.ws, ok)
  BY DEF PlanAt, PlanStep
<1>3. Pairs(plan) \subseteq Wans \X Groups
  BY <1>1
<1>4. \A p, gr : Intent(gr) # p[1] => Inert(plan, p, gr)
  BY <1>1 DEF Inert, RouteAttempt, RouteObserved
<1>5. ASSUME NEW g \in Groups
      PROVE  OnePairActs(plan, g) /\ SoundPlan(plan, g, late)
  <2> DEFINE gr == plan.b.group[g]
  <2>1. SoundGroup(gr)
    BY <1>5 DEF SoundBase
  <2>2. \A ok \in BOOLEAN : /\ SoundStep(gr, RouteObserved(gr, plan.ws, ok))
                            /\ Intent(RouteObserved(gr, plan.ws, ok).group) = Intent(gr)
    BY <2>1, RouteObservedSound
  <2>3. ASSUME NEW p \in Pairs(plan), p[2] = g, p[1] = Intent(gr)
        PROVE  Carries(plan, p, g)
    <3>1. Intent(gr) \in plan.ws /\ Intent(gr) \in {p[1]}
      BY <1>1, <2>3
    <3>2. RouteAttempt(gr, {p[1]}, plan.f) = RouteAttempt(gr, plan.ws, plan.f)
      BY <3>1 DEF RouteAttempt
    <3>3. ASSUME NEW ok \in BOOLEAN
          PROVE  RouteObserved(gr, {p[1]}, ok) = RouteObserved(gr, plan.ws, ok)
      BY <3>1 DEF RouteObserved
    <3>4. \A q \in Pairs(plan) : q[2] = g /\ q # p => q[1] # Intent(gr)
      BY <1>1, <2>3
    <3>5. ASSUME NEW ok \in BOOLEAN, NEW q \in Pairs(plan), q[2] = g, q # p
          PROVE  Inert(plan, q, PlanStep(plan, g, ok).group)
      BY <1>2, <1>4, <2>2, <3>4, <3>5
    <3> QED BY <1>1, <1>2, <3>2, <3>3, <3>5 DEF Carries
  <2>4. \A p \in Pairs(plan) : p[2] = g => Inert(plan, p, gr) \/ Carries(plan, p, g)
    BY <1>4, <2>3
  <2>5. ASSUME \A p \in Pairs(plan) : p[2] = g => Inert(plan, p, gr)
        PROVE  /\ PlanAt(plan, g) = NoAttempt
               /\ \A ok \in BOOLEAN : PlanStep(plan, g, ok) = Idle(gr)
    <3>1. CASE Intent(gr) \notin plan.ws
      BY <1>2, <3>1 DEF RouteAttempt, RouteObserved
    <3>2. CASE Intent(gr) \in plan.ws
      <4> DEFINE p == <<Intent(gr), g>>
      <4>1. p \in Pairs(plan) /\ p[2] = g /\ p[1] = Intent(gr)
        BY <1>1, <3>2
      <4> HIDE DEF p
      <4>2. Carries(plan, p, g) /\ Inert(plan, p, gr)
        BY <2>3, <2>5, <4>1
      <4> QED BY <4>2 DEF Carries, Inert
    <3> QED BY <3>1, <3>2
  <2>6. OnePairActs(plan, g)
    BY <2>4, <2>5 DEF OnePairActs
  <2>7. PlanAt(plan, g).wan \in Active
    <3>1. RouteAttempt(gr, plan.ws, plan.f) \in
              {Attempt(gr.pending, Families), RefreshAttempt(gr, {plan.f}), NoAttempt}
      BY DEF RouteAttempt
    <3>2. CASE RouteAttempt(gr, plan.ws, plan.f) = Attempt(gr.pending, Families)
      <4>1. gr.pending \in Wans \/ RouteAttempt(gr, plan.ws, plan.f) \in
                {RefreshAttempt(gr, {plan.f}), NoAttempt}
        BY <2>1 DEF RouteAttempt, SoundGroup, GroupState
      <4> QED BY <1>2, <2>1, <3>2, <4>1
              DEF Attempt, RefreshAttempt, NoAttempt, Active, SoundGroup, GroupState
    <3> QED BY <1>2, <2>1, <3>1, <3>2
            DEF Attempt, RefreshAttempt, NoAttempt, Active, SoundGroup, GroupState
  <2>8. ASSUME NEW ok \in BOOLEAN
        PROVE  LET step == PlanStep(plan, g, ok)
               IN  /\ SoundStep(gr, step)
                   /\ step.group.decisionsTotal <= gr.decisionsTotal + 1
                   /\ late \/ step.commit \/ GroupView(step.group) = GroupView(gr)
    <3>1. RouteObserved(gr, plan.ws, ok) \in {Commit(gr, ok), Refresh(gr, ok), Idle(gr)}
      BY DEF RouteObserved
    <3> QED BY <1>2, <2>1, <2>2, <3>1, OperationCounts
  <2> QED BY <2>6, <2>7, <2>8 DEF SoundPlan
<1> QED BY <1>3, <1>5 DEF Planned

(***************************************************************************)
(* The steps of a handler keep to the plan.                                *)
(***************************************************************************)
LEMMA CurIsPair ==
    ASSUME NEW plan, call = plan.op, observed = plan.f, health = plan.h, NEW p, NEW ok
    PROVE  /\ CurAttempt(p[1], p[2]) = PairAttempt(plan, p, group[p[2]])
           /\ CurStep(p[1], p[2], ok) = PairStep(plan, p, group[p[2]], ok)
BY DEF CurAttempt, CurStep, PairAttempt, PairStep, Target

(* Steps outside a publication.                                            *)
LEMMA NothingPublished ==
    ASSUME NEW plan, NEW ans, NEW done, NEW early, NEW late,
           Publications(plan, ans, done), FileSoFar(plan, ans, done, early, late),
           pc \notin {"flush", "state", "hook"}, pc' \notin {"flush", "state", "hook"},
           UNCHANGED <<group, vacated, unflushed, hook, file, stale>>
    PROVE  /\ Publications(plan, ans, done)'
           /\ FileSoFar(plan, ans, done, early, late)'
<1>1. Publications(plan, ans, done)'
  BY DEF Publications, Publication, Publishing
<1>2. FileSoFar(plan, ans, done, early, late)'
  BY DEF FileSoFar, EarlierWrite, Shows, Publishing
<1> QED BY <1>1, <1>2

(* Where no Apply is attempted the kernel is asked nothing.                *)
LEMMA NoAttemptAnswered ==
    ASSUME NEW plan, NEW g, PlanAt(plan, g).wan = NoActive,
           plan.b.table[g] = [f \in Families |-> plan.b.table[g][f]]
    PROVE  /\ Fits(plan, g, AllWork) /\ Ok(plan, g, AllWork)
           /\ Row(plan, g, AllWork) = plan.b.table[g]
<1>1. AllWork \in KernelAnswers /\ AllWork.ifindex /\ AllWork.writes = Families
  BY DEF AllWork, KernelAnswers
<1>2. ToWrite(plan.gw, PlanAt(plan, g)) = {}
  BY DEF ToWrite
<1>3. Row(plan, g, AllWork) = [f \in Families |-> plan.b.table[g][f]]
  BY <1>2 DEF Row, Applied
<1> QED BY <1>1, <1>3 DEF Fits, Ok, ApplyOk

(* The next pair of the loop has its turn.                                 *)
LEMMA NextGroupWorks ==
    ASSUME NEW plan, NEW ans, NEW done, NEW early, NEW late, Planned(plan, late),
           plan.h = health, plan.gw = gateways,
           \A g \in Groups : plan.b.table[g] = [f \in Families |-> plan.b.table[g][f]],
           Work(plan, ans, done, early, late), NextGroup
    PROVE  Work(plan, ans, done, early, late)'
<1>1. PICK p \in todo :
          /\ cur' = p /\ todo' = todo \ {p}
          /\ left' = ToWrite(gateways, CurAttempt(p[1], p[2]))
          /\ pc' = IF CurAttempt(p[1], p[2]).wan = NoActive THEN "settle" ELSE "lookup"
  BY DEF NextGroup
<1>2. /\ pc = "loop" /\ ~failed'
      /\ UNCHANGED <<group, vacated, table, unflushed, hook, file, stale>>
      /\ UNCHANGED <<call, observed, republish>>
  BY DEF NextGroup, vars
<1>3. InTurn = {} /\ InTurn' = {p}
  BY <1>1, <1>2 DEF InTurn
<1>4. p \in Pairs(plan) /\ p[2] \in Groups
  BY <1>1 DEF Work, Turns, Planned
<1>5. CurAttempt(p[1], p[2]) = PairAttempt(plan, p, group[p[2]])
  BY CurIsPair DEF Work
<1>6. Publications(plan, ans, done)' /\ FileSoFar(plan, ans, done, early, late)'
  BY <1>1, <1>2, NothingPublished DEF Work
<1>7. \A g \in Groups : Rest(plan, ans, done, g)'
  BY <1>2, <1>3 DEF Work, Rest
<1>8. Turns(plan, done)'
  <2>1. todo' \cup InTurn' = todo \cup InTurn /\ todo' \cap InTurn' = {}
    BY <1>1, <1>3
  <2> QED BY <1>2, <2>1 DEF Work, Turns
<1>9. Applying(plan, p)'
  <2>1. CASE Inert(plan, p, group[p[2]])
    <3>1. pc' = "settle"
      BY <1>1, <1>5, <2>1 DEF Inert, NoAttempt, Attempt
    <3> QED BY <1>2, <2>1, <3>1 DEF Applying
  <2>2. CASE ~Inert(plan, p, group[p[2]])
    <3>1. p[2] \notin done
      BY <1>1, <2>2 DEF Work, Turns
    <3>2. group[p[2]] = plan.b.group[p[2]] /\ table[p[2]] = plan.b.table[p[2]]
      BY <1>3, <1>4, <3>1 DEF Work, Rest
    <3>3. CurAttempt(p[1], p[2]) = PlanAt(plan, p[2])
      BY <1>4, <1>5, <2>2, <3>2 DEF Planned, OnePairActs, Carries
    <3>4. CASE PlanAt(plan, p[2]).wan = NoActive
      <4>1. Answered(plan, p[2])'
        BY <1>2, <1>4, <3>2, <3>4, NoAttemptAnswered DEF Answered, Fits
      <4> QED BY <1>1, <1>2, <2>2, <3>3, <3>4, <4>1 DEF Applying
    <3>5. CASE PlanAt(plan, p[2]).wan # NoActive
      BY <1>1, <1>2, <2>2, <3>2, <3>3, <3>5 DEF Applying
    <3> QED BY <3>4, <3>5
  <2> QED BY <2>1, <2>2
<1>10. pc' # "republish"
  BY <1>1
<1> QED BY <1>2, <1>3, <1>6, <1>7, <1>8, <1>9, <1>10 DEF Work

(* The loop has reached every pair.                                        *)
LEMMA EndLoopWorks ==
    ASSUME NEW plan, NEW ans, NEW done, NEW early, NEW late,
           ~cancelled, Work(plan, ans, done, early, late), EndLoop
    PROVE  Work(plan, ans, done, early, late)'
<1>1. /\ pc = "loop" /\ pc' = "republish" /\ todo = {} /\ todo' = {}
      /\ UNCHANGED <<group, vacated, table, unflushed, hook, file, stale>>
      /\ UNCHANGED <<call, observed, republish>>
  BY DEF EndLoop, vars, LoopStops
<1>2. InTurn = {} /\ InTurn' = {}
  BY <1>1 DEF InTurn
<1>3. Publications(plan, ans, done)' /\ FileSoFar(plan, ans, done, early, late)'
  BY <1>1, NothingPublished DEF Work
<1>4. \A g \in Groups : Rest(plan, ans, done, g)'
  BY <1>1, <1>2 DEF Work, Rest
<1>5. Turns(plan, done)'
  BY <1>1, <1>2 DEF Work, Turns
<1> QED BY <1>1, <1>2, <1>3, <1>4, <1>5 DEF Work

(* The steps of an Apply: the turn is the same, and only the table of its  *)
(* Group may change.                                                       *)
LEMMA ApplyStepWorks ==
    ASSUME NEW plan, NEW ans, NEW done, NEW early, NEW late,
           Planned(plan, late), Work(plan, ans, done, early, late),
           pc \in {"lookup", "write", "call"}, pc' \in {"write", "call", "settle"},
           UNCHANGED <<group, vacated, unflushed, hook, file, stale, call, observed, republish,
                       todo, cur>>,
           \A g \in Groups \ {cur[2]} : table'[g] = table[g],
           ~Inert(plan, cur, group[cur[2]]) => Applying(plan, cur)'
    PROVE  Work(plan, ans, done, early, late)'
<1>1. InTurn = {cur} /\ InTurn' = {cur}
  BY DEF InTurn
<1>2. Publications(plan, ans, done)' /\ FileSoFar(plan, ans, done, early, late)'
  BY NothingPublished DEF Work
<1>3. ~Inert(plan, cur, group[cur[2]])
  BY <1>1 DEF Work, Applying
<1>4. cur[2] \notin done
  BY <1>1, <1>3 DEF Work, Turns
<1>5. \A g \in Groups : Rest(plan, ans, done, g)'
  BY <1>1, <1>3, <1>4 DEF Work, Rest
<1>6. Turns(plan, done)'
  BY <1>1 DEF Work, Turns
<1> QED BY <1>1, <1>2, <1>3, <1>5, <1>6 DEF Work

(* The ifindex lookup: a failed one answers for every Family.              *)
LEMMA LookupWorks ==
    ASSUME NEW plan, NEW ans, NEW done, NEW early, NEW late,
           Planned(plan, late), Work(plan, ans, done, early, late), LookupIfIndex,
           \A g \in Groups : plan.b.table[g] = [f \in Families |-> plan.b.table[g][f]]
    PROVE  Work(plan, ans, done, early, late)'
<1> DEFINE g == cur[2]
           T == ToWrite(plan.gw, PlanAt(plan, g))
<1>1. /\ pc = "lookup" /\ cur' = cur
      /\ UNCHANGED <<group, vacated, table, unflushed, hook, file, stale>>
      /\ UNCHANGED <<call, observed, republish, todo>>
      /\ \/ pc' = "write" /\ (failed' <=> failed) /\ left' = left
         \/ pc' = "settle" /\ failed' /\ left' = {}
  BY DEF LookupIfIndex, vars
<1>2. g \in Groups
  BY <1>1 DEF Work, Turns, InTurn, Planned
<1>3. ASSUME ~Inert(plan, cur, group[g])
      PROVE  Applying(plan, cur)'
  <2>1. left = T /\ ~failed /\ table[g] = plan.b.table[g] /\ PlanAt(plan, g).wan # NoActive
    BY <1>1, <1>3 DEF Work, InTurn, Applying
  <2>2. CASE pc' = "write"
    <3>1. Written(plan, g, {}) = plan.b.table[g]
      BY <1>2 DEF Written
    <3>2. left' = T /\ ~failed'
      BY <1>1, <2>1, <2>2
    <3>3. Writing(plan, g, T)'
      BY <1>1, <2>1, <3>1, <3>2 DEF Writing
    <3> QED BY <1>1, <1>3, <2>1, <2>2, <3>3 DEF Applying
  <2>3. CASE pc' = "settle" /\ failed'
    <3> DEFINE a == [ifindex |-> FALSE, writes |-> {}]
    <3>1. a \in KernelAnswers /\ ~a.ifindex
      BY DEF KernelAnswers
    <3> HIDE DEF a
    <3>2. Fits(plan, g, a) /\ ~Ok(plan, g, a)
      BY <2>1, <3>1 DEF Fits, Ok, ApplyOk
    <3>3. Row(plan, g, a) = plan.b.table[g]
      BY <1>2, <3>1 DEF Row, Applied
    <3>4. Answered(plan, g)'
      BY <1>1, <2>1, <2>3, <3>1, <3>2, <3>3 DEF Answered
    <3> QED BY <1>1, <1>3, <2>3, <3>4 DEF Applying
  <2> QED BY <1>1, <2>2, <2>3
<1> QED BY <1>1, <1>3, ApplyStepWorks

(* The kernel is asked for a route.                                        *)
LEMMA WriteRouteWorks ==
    ASSUME NEW plan, NEW ans, NEW done, NEW early, NEW late,
           Planned(plan, late), Work(plan, ans, done, early, late), WriteRoute
    PROVE  Work(plan, ans, done, early, late)'
<1>1. /\ pc = "write" /\ pc' = "call" /\ cur' = cur
      /\ UNCHANGED <<group, vacated, table, unflushed, hook, file, stale>>
      /\ UNCHANGED <<call, observed, republish, todo, left, failed>>
  BY DEF WriteRoute, vars
<1>2. ASSUME ~Inert(plan, cur, group[cur[2]])
      PROVE  Applying(plan, cur)'
  BY <1>1, <1>2 DEF Work, InTurn, Applying, Writing
<1> QED BY <1>1, <1>2, ApplyStepWorks

(* The kernel's answer: the row holds what was written so far, and the     *)
(* Apply has failed as soon as one write has.                              *)
LEMMA RouteWrittenWorks ==
    ASSUME NEW plan, NEW ans, NEW done, NEW early, NEW late,
           Planned(plan, late), plan.h = health, plan.gw = gateways,
           Work(plan, ans, done, early, late), RouteWritten, Functional
    PROVE  Work(plan, ans, done, early, late)'
<1> DEFINE g == cur[2]
           T == ToWrite(plan.gw, PlanAt(plan, g))
           w == CurAttempt(cur[1], g).wan
<1>1. PICK f \in left :
          /\ left' = left \ {f}
          /\ \/ table' = [table EXCEPT ![g][f] = RouteOf(gateways, w, f)] /\ failed' = failed
             \/ failed' = TRUE /\ table' = table
  BY DEF RouteWritten
<1>2. /\ pc = "call" /\ pc' = "write" /\ cur' = cur
      /\ UNCHANGED <<group, vacated, unflushed, hook, file, stale>>
      /\ UNCHANGED <<call, observed, republish, todo>>
  BY DEF RouteWritten, memory, history
<1>3. cur \in Pairs(plan) /\ g \in Groups
  BY <1>2 DEF Work, Turns, InTurn, Planned
<1>4. \A k \in Groups \ {g} : table'[k] = table[k]
  BY <1>1 DEF Functional
<1>5. ASSUME ~Inert(plan, cur, group[g])
      PROVE  Applying(plan, cur)'
  <2>1. /\ g \notin done /\ group[g] = plan.b.group[g]
        /\ Writing(plan, g, T) /\ PlanAt(plan, g).wan # NoActive
    BY <1>2, <1>3, <1>5 DEF Work, InTurn, Turns, Rest, Applying
  <2>2. w = PlanAt(plan, g).wan
    <3>1. CurAttempt(cur[1], g) = PairAttempt(plan, cur, group[g])
      BY CurIsPair DEF Work
    <3> QED BY <1>3, <1>5, <2>1, <3>1 DEF Planned, OnePairActs, Carries
  <2>3. PICK W \in SUBSET (T \ left) : /\ table[g] = Written(plan, g, W)
                                       /\ failed <=> W # T \ left
    BY <2>1 DEF Writing
  <2>4. left \subseteq T /\ left' \subseteq T
    BY <1>1, <2>1 DEF Writing
  <2>0. T' = T
    BY <1>2
  <2> HIDE DEF T, w
  <2>5. CASE table' = [table EXCEPT ![g][f] = RouteOf(gateways, w, f)] /\ failed' = failed
    <3>1. table'[g] = [table[g] EXCEPT ![f] = RouteOf(gateways, w, f)]
      BY <1>3, <2>5 DEF Functional
    <3>2. table'[g] = Written(plan, g, W \cup {f})
      BY <2>2, <2>3, <3>1 DEF Written
    <3>3. W \cup {f} \in SUBSET (T \ left')
      BY <1>1, <2>3, <2>4
    <3>4. failed' <=> W \cup {f} # T \ left'
      BY <1>1, <2>3, <2>4, <2>5
    <3>5. Writing(plan, g, T)'
      BY <1>2, <2>0, <2>4, <3>2, <3>3, <3>4 DEF Writing
    <3> QED BY <1>2, <1>5, <2>1, <3>5 DEF Applying, T
  <2>6. CASE failed' = TRUE /\ table' = table
    <3>1. W \in SUBSET (T \ left') /\ W # T \ left'
      BY <1>1, <2>3, <2>4
    <3>2. Writing(plan, g, T)'
      BY <1>2, <2>0, <2>3, <2>4, <2>6, <3>1 DEF Writing
    <3> QED BY <1>2, <1>5, <2>1, <3>2 DEF Applying, T
  <2> QED BY <1>1, <2>5, <2>6
<1> QED BY <1>2, <1>4, <1>5, ApplyStepWorks

(* Every Family has been tried: the answers make up one kernel answer.     *)
LEMMA EndApplyWorks ==
    ASSUME NEW plan, NEW ans, NEW done, NEW early, NEW late, ~cancelled,
           Planned(plan, late), Work(plan, ans, done, early, late), EndApply
    PROVE  Work(plan, ans, done, early, late)'
<1> DEFINE g == cur[2]
           T == ToWrite(plan.gw, PlanAt(plan, g))
<1>1. /\ pc = "write" /\ pc' = "settle" /\ cur' = cur
      /\ UNCHANGED <<group, vacated, table, unflushed, hook, file, stale>>
      /\ UNCHANGED <<call, observed, republish, todo>>
      /\ left = {} /\ (failed' <=> failed)
  BY DEF EndApply, vars, WritesStop
<1>2. g \in Groups
  BY <1>1 DEF Work, Turns, InTurn, Planned
<1>3. ASSUME ~Inert(plan, cur, group[g])
      PROVE  Applying(plan, cur)'
  <2>1. Writing(plan, g, T) /\ PlanAt(plan, g).wan # NoActive
    BY <1>1, <1>3 DEF Work, InTurn, Applying
  <2>2. PICK W \in SUBSET T : table[g] = Written(plan, g, W) /\ (failed <=> W # T)
    BY <1>1, <2>1 DEF Writing
  <2>3. T \subseteq Families
    BY <1>2, <2>1, ProbedFamilies DEF Planned, SoundPlan, Active, ToWrite
  <2> DEFINE a == [ifindex |-> TRUE, writes |-> W \cup (Families \ T)]
  <2>4. /\ a \in KernelAnswers /\ a.ifindex
        /\ a.writes = W \cup (Families \ T)
    BY <2>2, <2>3 DEF KernelAnswers
  <2> HIDE DEF a
  <2>5. Fits(plan, g, a)
    BY <2>4 DEF Fits
  <2>6. Ok(plan, g, a) <=> W = T
    BY <2>1, <2>2, <2>4 DEF Ok, ApplyOk
  <2>7. \A f \in T \cap a.writes : f \in W
    BY <2>4
  <2>8. \A f \in W : f \in T \cap a.writes
    BY <2>2, <2>4
  <2>9. Row(plan, g, a) = Written(plan, g, W)
    BY <2>4, <2>7, <2>8 DEF Row, Applied, Written
  <2>10. Answered(plan, g)'
    BY <1>1, <2>2, <2>4, <2>5, <2>6, <2>9 DEF Answered
  <2> QED BY <1>1, <1>3, <2>10 DEF Applying
<1> QED BY <1>1, <1>3, ApplyStepWorks

(* A Group whose Selection is the same has nothing to publish.             *)
LEMMA NothingToPublish ==
    ASSUME NEW u, NEW v, NEW h, NEW o, NoActive \notin u, o \in u \cup {NoActive}
    PROVE  VacatedBy(v, o, o) = v /\ UnflushedBy(u, v, o, o) = u /\ HookBy(h, o, o) = h
<1>1. Event(o, o) = ""
  BY DEF Event
<1>2. VacatedBy(v, o, o) = v /\ FlushedBy(v, o, o) = NoActive /\ HookBy(h, o, o) = h
  BY <1>1 DEF VacatedBy, FlushedBy, HookBy
<1> QED BY <1>2 DEF UnflushedBy

(* A pair that does nothing is settled.                                    *)
LEMMA InertSettles ==
    ASSUME NEW plan, NEW ans, NEW done, NEW early, NEW late,
           Planned(plan, late), plan.h = health, Functional,
           Work(plan, ans, done, early, late), SettleGroup, Inert(plan, cur, group[cur[2]])
    PROVE  Work(plan, ans, done, early, late)'
<1> DEFINE g == cur[2]
<1>1. PICK ok \in BOOLEAN : ok = ~failed
  OBVIOUS
<1>2. CurStep(cur[1], g, ok) = Idle(group[g])
  <2>1. CurStep(cur[1], g, ok) = PairStep(plan, cur, group[g], ok)
    BY CurIsPair DEF Work
  <2> QED BY <2>1 DEF Inert
<1>3. /\ pc = "settle"
      /\ pc' = IF CurStep(cur[1], g, ok).commit THEN "flush" ELSE "loop"
      /\ group' = [group EXCEPT ![g] = CurStep(cur[1], g, ok).group]
      /\ UNCHANGED <<vacated, table, unflushed, hook, file, stale>>
      /\ UNCHANGED <<call, observed, republish, todo>>
  BY <1>1 DEF SettleGroup, history
<1>4. pc' = "loop"
  BY <1>2, <1>3 DEF Idle
<1>5. group' = group
  BY <1>2, <1>3 DEF Idle, Functional
<1>6. InTurn = {cur} /\ InTurn' = {}
  BY <1>3, <1>4 DEF InTurn
<1>7. cur \in Pairs(plan) /\ g \in Groups
  BY <1>6 DEF Work, Turns, Planned
<1>8. Publications(plan, ans, done)' /\ FileSoFar(plan, ans, done, early, late)'
  BY <1>3, <1>4, <1>5, NothingPublished DEF Work
<1>9. \A k \in Groups : Rest(plan, ans, done, k)'
  BY <1>3, <1>5, <1>6 DEF Work, Rest
<1>10. Turns(plan, done)'
  <2>1. g \in done \/ Inert(plan, cur, plan.b.group[g])
    BY <1>7 DEF Work, Rest
  <2> QED BY <1>3, <1>5, <1>6, <2>1 DEF Work, Turns
<1> QED BY <1>3, <1>4, <1>6, <1>8, <1>9, <1>10 DEF Work

(* The Group decides on the kernel's answer a.                             *)
LEMMA GroupSettles ==
    ASSUME NEW plan, NEW ans, NEW done, NEW early, NEW late,
           Planned(plan, late), plan.h = health, Functional, Ready(plan.b),
           Work(plan, ans, done, early, late), SettleGroup, ~Inert(plan, cur, group[cur[2]])
    PROVE  \E ans2, done2 : Work(plan, ans2, done2, early, late)'
<1>0. PICK g : g = cur[2]
  OBVIOUS
<1>1. PICK ok \in BOOLEAN : ok = ~failed
  OBVIOUS
<1>2. /\ pc = "settle" /\ cur' = cur /\ old' = group[g].selection
      /\ pc' = IF CurStep(cur[1], g, ok).commit THEN "flush" ELSE "loop"
      /\ group' = [group EXCEPT ![g] = CurStep(cur[1], g, ok).group]
      /\ UNCHANGED <<vacated, table, unflushed, hook, file, stale>>
      /\ UNCHANGED <<call, observed, republish, todo>>
  BY <1>0, <1>1 DEF SettleGroup, history
<1>3. InTurn = {cur} /\ InTurn' = {}
  BY <1>2 DEF InTurn
<1>4. cur \in Pairs(plan) /\ g \in Groups
  BY <1>0, <1>3 DEF Work, Turns, Planned
<1>5. /\ g \notin done /\ group[g] = plan.b.group[g]
      /\ Carries(plan, cur, g)
  BY <1>0, <1>3, <1>4 DEF Work, Turns, Rest, Planned, OnePairActs
<1>6. PICK a \in KernelAnswers : /\ Fits(plan, g, a) /\ table[g] = Row(plan, g, a)
                                 /\ failed <=> ~Ok(plan, g, a)
  BY <1>0, <1>2, <1>3 DEF Work, Applying, Answered
<1>p. PICK step, ans2, done2 : /\ step = Outcome(plan, g, a) /\ done2 = done \cup {g}
                               /\ ans2 = [k \in Groups |-> IF k = g THEN a ELSE ans[k]]
  OBVIOUS
<1>7. CurStep(cur[1], g, ok) = step
  <2>1. CurStep(cur[1], g, ok) = PairStep(plan, cur, group[g], ok)
    BY <1>0, CurIsPair DEF Work
  <2>2. PairStep(plan, cur, group[g], ok) = PlanStep(plan, g, ok)
    BY <1>5 DEF Carries
  <2>3. ok = Ok(plan, g, a)
    BY <1>1, <1>6 DEF Ok, ApplyOk
  <2> QED BY <1>p, <2>1, <2>2, <2>3 DEF Outcome
<1>8. /\ SoundStep(plan.b.group[g], step)
      /\ late \/ step.commit \/ GroupView(step.group) = GroupView(plan.b.group[g])
      /\ \A q \in Pairs(plan) : q[2] = g /\ q # cur => Inert(plan, q, step.group)
  <2>1. Ok(plan, g, a) \in BOOLEAN
    BY DEF Ok, ApplyOk
  <2> QED BY <1>p, <1>4, <1>5, <2>1 DEF Planned, SoundPlan, Carries, Outcome
<1>9. group'[g] = step.group /\ \A k \in Groups \ {g} : group'[k] = group[k]
  BY <1>2, <1>4, <1>7 DEF Functional
<1>10. ans2[g] = a /\ \A k \in Groups \ {g} : ans2[k] = ans[k]
  BY <1>p, <1>4
<1>11. done2 \subseteq Groups /\ g \in done2 /\ \A k \in Groups \ {g} : k \in done2 <=> k \in done
  BY <1>p, <1>4 DEF Work
<1>12. ASSUME NEW k \in Groups PROVE Rest(plan, ans2, done2, k)'
  <2>1. CASE k = g
    BY <1>p, <1>2, <1>6, <1>9, <1>10, <1>11, <2>1 DEF Rest
  <2>2. CASE k # g
    <3>1. Rest(plan, ans, done, k)
      BY DEF Work
    <3> QED BY <1>0, <1>2, <1>3, <1>9, <1>10, <1>11, <2>2, <3>1 DEF Rest
  <2> QED BY <2>1, <2>2
<1>13. Turns(plan, done2)'
  <2>1. \A p \in Pairs(plan) \ todo : p[2] \in done2 \/ Inert(plan, p, plan.b.group[p[2]])
    <3> SUFFICES ASSUME NEW p \in Pairs(plan) \ todo
                 PROVE  p[2] \in done2 \/ Inert(plan, p, plan.b.group[p[2]])
      OBVIOUS
    <3>1. p[2] \in Groups
      BY DEF Planned
    <3>2. p = cur \/ p[2] \in done \/ Inert(plan, p, plan.b.group[p[2]])
      BY <1>3 DEF Work, Turns
    <3> QED BY <1>0, <1>11, <3>1, <3>2
  <2>2. ASSUME NEW p \in todo, p[2] \in done2
        PROVE  Inert(plan, p, group'[p[2]])
    <3>1. p \in Pairs(plan) /\ p[2] \in Groups /\ p # cur
      BY <1>3 DEF Work, Turns, Planned
    <3>2. CASE p[2] = g
      BY <1>8, <1>9, <3>1, <3>2
    <3>3. CASE p[2] # g
      BY <1>9, <1>11, <2>2, <3>1, <3>3 DEF Work, Turns
    <3> QED BY <3>2, <3>3
  <2>3. todo' \cup InTurn' = todo /\ todo' \cap InTurn' = {} /\ todo \subseteq Pairs(plan)
    BY <1>2, <1>3 DEF Work, Turns
  <2> QED BY <2>1, <2>2, <2>3 DEF Turns
<1>14. pc' = IF step.commit THEN "flush" ELSE "loop"
  BY <1>2, <1>7
<1>15. \A k \in Groups : /\ Committed(plan, ans2, done2, k) <=>
                               IF k = g THEN step.commit ELSE Committed(plan, ans, done, k)
                         /\ k = g => ~Committed(plan, ans, done, k)
  BY <1>p, <1>5, <1>10, <1>11 DEF Committed
<1>16. Publications(plan, ans2, done2)'
  <2>1. ASSUME NEW k \in Groups PROVE Publication(plan.b, k)'
    <3>1. Publication(plan.b, k)
      BY DEF Work, Publications
    <3>2. CASE k # g
      BY <1>0, <1>2, <1>9, <3>1, <3>2 DEF Publication, Publishing
    <3>3. CASE k = g
      <4> DEFINE o == plan.b.group[g].selection
      <4>1. /\ vacated[g] = VacatedBy(plan.b.vacated[g], o, o)
            /\ unflushed[g] = UnflushedBy(plan.b.unflushed[g], plan.b.vacated[g], o, o)
            /\ hook[g] = HookBy(plan.b.hook[g], o, o)
        BY <1>2, <1>5, <3>1, <3>3 DEF Publication, Publishing
      <4>2. /\ vacated[g] = plan.b.vacated[g] /\ unflushed[g] = plan.b.unflushed[g]
            /\ hook[g] = plan.b.hook[g]
        <5>1. NoActive \notin plan.b.unflushed[g] /\ o \in plan.b.unflushed[g] \cup {NoActive}
          BY <1>4 DEF Ready
        <5> HIDE DEF o
        <5>2. /\ VacatedBy(plan.b.vacated[g], o, o) = plan.b.vacated[g]
              /\ UnflushedBy(plan.b.unflushed[g], plan.b.vacated[g], o, o) = plan.b.unflushed[g]
              /\ HookBy(plan.b.hook[g], o, o) = plan.b.hook[g]
          BY <5>1, NothingToPublish
        <5> QED BY <4>1, <5>2
      <4>3. CASE step.commit
        BY <1>0, <1>2, <1>14, <3>3, <4>2, <4>3 DEF Publication, Publishing
      <4>4. CASE ~step.commit
        <5>1. group'[g].selection = o
          BY <1>8, <1>9, <4>4 DEF SoundStep
        <5> QED BY <1>2, <1>14, <3>3, <4>1, <4>4, <5>1 DEF Publication, Publishing
      <4> QED BY <4>3, <4>4
    <3> QED BY <3>2, <3>3
  <2>2. pc' \in {"flush", "state", "hook"} =>
            /\ cur'[2] \in Groups /\ Committed(plan, ans2, done2, cur'[2])
            /\ old' = plan.b.group[cur'[2]].selection
    BY <1>0, <1>2, <1>4, <1>5, <1>14, <1>15
  <2> QED BY <2>1, <2>2 DEF Publications
<1>17. FileSoFar(plan, ans2, done2, early, late)'
  <2> DEFINE wrote == early \/ \E k \in Groups : Committed(plan, ans, done, k)
  <2>0. FileSoFar(plan, ans, done, early, late)
    BY DEF Work
  <2>1. wrote <=> early \/ \E k \in Groups : /\ Committed(plan, ans2, done2, k)
                                             /\ ~Publishing(k, {"flush", "state"})'
    BY <1>0, <1>2, <1>4, <1>14, <1>15 DEF Publishing
  <2>2. wrote <=> early \/ \E k \in Groups : /\ Committed(plan, ans, done, k)
                                             /\ ~Publishing(k, {"flush", "state"})
    BY <1>2 DEF Publishing
  <2> HIDE DEF wrote
  <2>3. CASE ~wrote
    BY <1>2, <2>0, <2>1, <2>2, <2>3 DEF FileSoFar
  <2>4. CASE wrote
    <3>1. file = plan.b.file \/ EarlierWrite(plan, ans, done, early)
      BY <2>0, <2>2, <2>4 DEF FileSoFar
    <3>2. late \/ Shows(plan)
      BY <1>2, <2>0, <2>2, <2>4 DEF FileSoFar
    <3>3. EarlierWrite(plan, ans, done, early) => EarlierWrite(plan, ans2, done2, early)'
      <4> SUFFICES ASSUME NEW S \in SUBSET done,
                          (\E k \in S : Committed(plan, ans, done, k)) \/ (S = {} /\ early),
                          file = During(plan, group, S)
                   PROVE  EarlierWrite(plan, ans2, done2, early)'
        BY DEF EarlierWrite
      <4>1. S \subseteq Groups \ {g} /\ S \in SUBSET done2
        BY <1>5, <1>11 DEF Work
      <4>2. During(plan, group', S) = During(plan, group, S)
        BY <1>9, <4>1 DEF During
      <4>3. (\E k \in S : Committed(plan, ans2, done2, k)) \/ (S = {} /\ early)
        BY <1>15, <4>1
      <4> QED BY <1>2, <4>1, <4>2, <4>3 DEF EarlierWrite
    <3>4. late \/ pc' \in {"flush", "state"} \/ Shows(plan)'
      <4> SUFFICES ASSUME ~late, ~step.commit PROVE Shows(plan)'
        BY <1>14
      <4>1. GroupView(group'[g]) = GroupView(group[g])
        BY <1>5, <1>8, <1>9
      <4>2. \A k \in Groups : GroupView(group'[k]) = GroupView(group[k])
        BY <1>9, <4>1
      <4>3. Snapshot(plan.h, plan.gw, group') = Snapshot(plan.h, plan.gw, group)
        BY <4>2 DEF Snapshot
      <4> QED BY <1>2, <3>2, <4>3 DEF Shows
    <3> QED BY <1>2, <2>1, <2>4, <3>1, <3>3, <3>4 DEF FileSoFar
  <2> QED BY <2>3, <2>4
<1>18. Work(plan, ans2, done2, early, late)'
  <2>1. /\ call' = plan.op /\ observed' = plan.f /\ (republish' <=> late)
        /\ pc' # "republish"
    BY <1>2, <1>14 DEF Work
  <2> QED BY <1>3, <1>11, <1>12, <1>13, <1>16, <1>17, <2>1 DEF Work
<1> QED BY <1>18

(* The steps of a publication.                                             *)
LEMMA PublishingWorks ==
    ASSUME NEW plan, NEW ans, NEW done, NEW early, NEW late,
           Work(plan, ans, done, early, late), pc \in {"flush", "state", "hook"},
           pc' \in {"state", "hook", "loop"},
           UNCHANGED <<group, table, call, observed, republish, todo>>,
           Publications(plan, ans, done)', FileSoFar(plan, ans, done, early, late)'
    PROVE  Work(plan, ans, done, early, late)'
<1>1. InTurn = {} /\ InTurn' = {}
  BY DEF InTurn
<1>2. \A g \in Groups : Rest(plan, ans, done, g)'
  BY <1>1 DEF Work, Rest
<1>3. Turns(plan, done)'
  BY <1>1 DEF Work, Turns
<1> QED BY <1>1, <1>2, <1>3 DEF Work

(* The flush after a commit.                                               *)
LEMMA FlushVacatedWorks ==
    ASSUME NEW plan, NEW ans, NEW done, NEW early, NEW late, ~cancelled, Functional,
           Work(plan, ans, done, early, late), FlushVacated
    PROVE  Work(plan, ans, done, early, late)'
<1>0. PICK g : g = cur[2]
  OBVIOUS
<1>1. /\ pc = "flush" /\ pc' = "state" /\ cur' = cur /\ old' = old
      /\ UNCHANGED <<group, table, file, stale, hook, call, observed, republish, todo>>
  BY DEF FlushVacated
<1>2. /\ g \in Groups /\ Committed(plan, ans, done, g)
      /\ old = plan.b.group[g].selection
      /\ \A k \in Groups : Publication(plan.b, k)
  BY <1>0, <1>1 DEF Work, Publications
<1>3. /\ vacated[g] = plan.b.vacated[g] /\ unflushed[g] = plan.b.unflushed[g]
      /\ hook[g] = plan.b.hook[g]
  BY <1>0, <1>1, <1>2 DEF Publication, Publishing
<1>4. PICK new : new = group[g].selection
  OBVIOUS
<1>5. /\ VacatedNext(g, old, new) = VacatedBy(vacated[g], old, new)
      /\ FlushedWan(g, old, new) = FlushedBy(vacated[g], old, new)
  BY DEF VacatedNext, VacatedBy, FlushedWan, FlushedBy
<1>6. /\ vacated' = [vacated EXCEPT ![g] = VacatedNext(g, old, new)]
      /\ unflushed' = [unflushed EXCEPT ![g] =
             (unflushed[g] \ {FlushedWan(g, old, new)}) \cup ({new} \ {NoActive})]
  BY <1>0, <1>4 DEF FlushVacated, Functional
<1>7. /\ vacated'[g] = VacatedBy(plan.b.vacated[g], old, new)
      /\ unflushed'[g] = UnflushedBy(plan.b.unflushed[g], plan.b.vacated[g], old, new)
      /\ \A k \in Groups \ {g} : vacated'[k] = vacated[k] /\ unflushed'[k] = unflushed[k]
  BY <1>2, <1>3, <1>5, <1>6 DEF Functional, UnflushedBy
<1>8. ASSUME NEW k \in Groups PROVE Publication(plan.b, k)'
  <2>1. CASE k = g
    BY <1>0, <1>1, <1>2, <1>3, <1>4, <1>7, <2>1 DEF Publication, Publishing
  <2>2. CASE k # g
    BY <1>0, <1>1, <1>2, <1>7, <2>2 DEF Publication, Publishing
  <2> QED BY <2>1, <2>2
<1>9. Publications(plan, ans, done)'
  BY <1>0, <1>1, <1>2, <1>8 DEF Publications
<1>10. FileSoFar(plan, ans, done, early, late)'
  BY <1>1 DEF Work, FileSoFar, EarlierWrite, Publishing
<1> QED BY <1>1, <1>9, <1>10, PublishingWorks

(* A write of state.json while the plan is carried out.                    *)
LEMMA WriteShows ==
    ASSUME NEW plan, plan.h = health, plan.gw = gateways, UNCHANGED group, WriteStateSnapshot
    PROVE  /\ Shows(plan)'
           /\ file' = file \/ file' = Snapshot(plan.h, plan.gw, group)
BY DEF WriteStateSnapshot, Shows

(* A write of state.json shows the Groups that have decided.               *)
LEMMA DoneIsShown ==
    ASSUME NEW plan, NEW ans, NEW done, \A g \in Groups : Rest(plan, ans, done, g)
    PROVE  During(plan, group, done) = Snapshot(plan.h, plan.gw, group)
<1>1. \A g \in Groups : g \notin done => group[g] = plan.b.group[g]
  BY DEF Rest
<1> QED BY <1>1 DEF During, Snapshot

(* The write of state.json after a commit.                                 *)
LEMMA PublishStateWorks ==
    ASSUME NEW plan, NEW ans, NEW done, NEW early, NEW late,
           plan.h = health, plan.gw = gateways,
           Work(plan, ans, done, early, late), PublishState
    PROVE  Work(plan, ans, done, early, late)'
<1>1. /\ pc = "state" /\ pc' = "hook" /\ cur' = cur /\ old' = old /\ WriteStateSnapshot
      /\ UNCHANGED <<group, vacated, table, unflushed, hook, call, observed, republish, todo>>
  BY DEF PublishState, memory
<1>2. cur[2] \in Groups /\ Committed(plan, ans, done, cur[2]) /\ cur[2] \in done
  BY <1>1 DEF Work, Publications, Committed
<1>3. Publications(plan, ans, done)'
  BY <1>1 DEF Work, Publications, Publication, Publishing
<1>4. \E g \in Groups : Committed(plan, ans, done, g) /\ ~Publishing(g, {"flush", "state"})'
  BY <1>1, <1>2 DEF Publishing
<1>5. file = plan.b.file \/ EarlierWrite(plan, ans, done, early)
  BY DEF Work, FileSoFar
<1>6. ASSUME file' = Snapshot(plan.h, plan.gw, group)
      PROVE  EarlierWrite(plan, ans, done, early)'
  <2>1. During(plan, group, done) = Snapshot(plan.h, plan.gw, group)
    BY DoneIsShown DEF Work
  <2> QED BY <1>1, <1>2, <1>6, <2>1 DEF EarlierWrite
<1>7. ASSUME file' = file
      PROVE  file' = plan.b.file \/ EarlierWrite(plan, ans, done, early)'
  BY <1>1, <1>5, <1>7 DEF EarlierWrite
<1>8. FileSoFar(plan, ans, done, early, late)'
  BY <1>1, <1>4, <1>6, <1>7, WriteShows DEF FileSoFar
<1> QED BY <1>1, <1>3, <1>8, PublishingWorks

(* The Hook after a commit.                                                *)
LEMMA NotifyHooksWorks ==
    ASSUME NEW plan, NEW ans, NEW done, NEW early, NEW late, ~cancelled, Functional,
           Work(plan, ans, done, early, late), NotifyHooks
    PROVE  Work(plan, ans, done, early, late)'
<1>0. PICK g : g = cur[2]
  OBVIOUS
<1>1. /\ pc = "hook" /\ pc' = "loop"
      /\ UNCHANGED <<group, vacated, table, unflushed, file, stale>>
      /\ UNCHANGED <<call, observed, republish, todo>>
  BY DEF NotifyHooks, memory
<1>2. /\ g \in Groups /\ old = plan.b.group[g].selection
      /\ \A k \in Groups : Publication(plan.b, k)
  BY <1>0, <1>1 DEF Work, Publications
<1>3. PICK new : new = group[g].selection
  OBVIOUS
<1>4. hook' = IF Event(old, new) = "" THEN hook
              ELSE [hook EXCEPT ![g] = [event |-> Event(old, new), old |-> old, new |-> new]]
  BY <1>0, <1>3 DEF NotifyHooks
<1>5. hook'[g] = HookBy(hook[g], old, new) /\ \A k \in Groups \ {g} : hook'[k] = hook[k]
  BY <1>2, <1>4 DEF Functional, HookBy
<1>6. ASSUME NEW k \in Groups PROVE Publication(plan.b, k)'
  <2>1. CASE k = g
    BY <1>0, <1>1, <1>2, <1>3, <1>5, <2>1 DEF Publication, Publishing
  <2>2. CASE k # g
    BY <1>0, <1>1, <1>2, <1>5, <2>2 DEF Publication, Publishing
  <2> QED BY <2>1, <2>2
<1>7. Publications(plan, ans, done)'
  BY <1>1, <1>6 DEF Publications
<1>8. FileSoFar(plan, ans, done, early, late)'
  BY <1>1 DEF Work, FileSoFar, EarlierWrite, Shows, Publishing
<1> QED BY <1>1, <1>7, <1>8, PublishingWorks

(***************************************************************************)
(* A handler begins, and a probe result that turned no WAN comes to the    *)
(* retries: nothing has been done yet.                                     *)
(***************************************************************************)
LEMMA WorkStarts ==
    ASSUME NEW plan, NEW early, NEW late, Ready(plan.b), Pairs(plan) \subseteq Wans \X Groups,
           pc' = "loop", call' = plan.op, observed' = plan.f, republish' <=> late,
           todo' = Pairs(plan), group' = plan.b.group, table' = plan.b.table,
           vacated' = plan.b.vacated, unflushed' = plan.b.unflushed, hook' = plan.b.hook,
           \/ ~early /\ file' = plan.b.file /\ stale' = plan.b.stale
           \/ /\ early /\ Shows(plan)'
              /\ file' \in {plan.b.file, Snapshot(plan.h, plan.gw, plan.b.group)}
    PROVE  \E ans, done : Work(plan, ans, done, early, late)'
<1>0. PICK ans : ans = [g \in Groups |-> AllWork]
  OBVIOUS
<1>1. InTurn' = {}
  BY DEF InTurn
<1>2. \A g \in Groups : Rest(plan, ans, {}, g)'
  BY <1>0 DEF Rest
<1>3. Turns(plan, {})'
  BY <1>1 DEF Turns
<1>4. ASSUME NEW g \in Groups PROVE Publication(plan.b, g)'
  <2>1. PICK o, u, v, h : /\ o = plan.b.group[g].selection /\ u = plan.b.unflushed[g]
                          /\ v = plan.b.vacated[g] /\ h = plan.b.hook[g]
    OBVIOUS
  <2>2. NoActive \notin u /\ o \in u \cup {NoActive}
    BY <2>1 DEF Ready
  <2>3. VacatedBy(v, o, o) = v /\ UnflushedBy(u, v, o, o) = u /\ HookBy(h, o, o) = h
    BY <2>2, NothingToPublish
  <2> QED BY <2>1, <2>3 DEF Publication, Publishing
<1>5. Publications(plan, ans, {})'
  BY <1>4 DEF Publications
<1>6. FileSoFar(plan, ans, {}, early, late)'
  <2>1. \A g : ~Committed(plan, ans, {}, g)
    BY DEF Committed
  <2>2. During(plan, plan.b.group, {}) = Snapshot(plan.h, plan.gw, plan.b.group)
    BY DEF During, Snapshot
  <2>3. CASE ~early
    BY <2>1, <2>3 DEF FileSoFar
  <2>4. CASE early
    <3>1. file' = plan.b.file \/ EarlierWrite(plan, ans, {}, early)'
      BY <2>2, <2>4 DEF EarlierWrite
    <3> QED BY <2>4, <3>1 DEF FileSoFar
  <2> QED BY <2>3, <2>4
<1>7. Work(plan, ans, {}, early, late)'
  BY <1>1, <1>2, <1>3, <1>5, <1>6 DEF Work
<1> QED BY <1>7

(* Only a probe result calls for retries, which write nothing afterwards.  *)
LEMMA ProbeCause ==
    ASSUME NEW plan, NEW early, NEW late, Cause(plan, early, late), plan.op = "probe"
    PROVE  plan.w \in Wans /\ plan.f = NoActive /\ ~late
BY DEF Cause, Primes, ProbeTurns, ProbeRetries, LinkTurns, RouteSeen

(* The republication that comes before the retries.                        *)
LEMMA OpeningSteps ==
    ASSUME NEW plan, NEW early, NEW late, Cause(plan, early, late), Planned(plan, late),
           plan.h = health, plan.gw = gateways, Ready(plan.b), ~cancelled, retry # NoActive,
           Opening(plan, early), HandlerStep
    PROVE  IF retry' = NoActive THEN \E ans, done : Work(plan, ans, done, early, late)'
                                ELSE Opening(plan, early)'
<1>1. CASE EndLoop
  BY <1>1 DEF EndLoop, vars, Opening
<1>2. CASE Republish
  <2>1. /\ pc' = "loop" /\ call' = "probe" /\ todo' = {retry} \X Groups /\ observed' = NoActive
        /\ ~republish' /\ retry' = NoActive
        /\ UNCHANGED <<group, vacated, table, unflushed, hook>>
        /\ IF republish THEN WriteStateSnapshot ELSE UNCHANGED <<file, stale>>
    BY <1>2 DEF Republish, memory
  <2>2. plan.f = NoActive /\ ~late
    BY ProbeCause DEF Opening
  <2>3. /\ plan.op = "probe" /\ plan.w = retry /\ (republish <=> early)
        /\ group = plan.b.group /\ table = plan.b.table /\ vacated = plan.b.vacated
        /\ unflushed = plan.b.unflushed /\ hook = plan.b.hook
        /\ file = plan.b.file /\ stale = plan.b.stale
    BY DEF Opening
  <2>4. todo' = Pairs(plan)
    BY <2>1, <2>3 DEF Pairs
  <2>5. \/ ~early /\ file' = plan.b.file /\ stale' = plan.b.stale
        \/ /\ early /\ Shows(plan)'
           /\ file' \in {plan.b.file, Snapshot(plan.h, plan.gw, plan.b.group)}
    BY <2>1, <2>3, WriteShows
  <2>6. Pairs(plan) \subseteq Wans \X Groups
    BY DEF Planned
  <2> QED BY <2>1, <2>2, <2>3, <2>4, <2>5, <2>6, WorkStarts
<1> QED BY <1>1, <1>2
        DEF HandlerStep, Opening, NextGroup, LookupIfIndex, WriteRoute, RouteWritten, EndApply,
            SettleGroup, FlushVacated, PublishState, NotifyHooks

(* The handler of a plan begins.                                           *)
LEMMA BeginWorks ==
    ASSUME NEW plan, NEW early, NEW late, Cause(plan, early, late), Planned(plan, late),
           plan.b = Visible, plan.h = health', plan.gw = gateways', Ready(Visible),
           NEW op, NEW pairs, NEW f, NEW publish, NEW w, Begin(op, pairs, f, publish, w),
           \/ /\ op = plan.op /\ pairs = Pairs(plan) /\ f = plan.f /\ (publish <=> late)
              /\ w = NoActive /\ ~early
           \/ plan.op = "probe" /\ w = plan.w /\ pairs = {} /\ (publish <=> early)
    PROVE  UnderWay'
<1>1. /\ pc' = "loop" /\ call' = op /\ todo' = pairs /\ observed' = f
      /\ (republish' <=> publish) /\ retry' = w /\ before' = plan.b
      /\ group' = plan.b.group /\ table' = plan.b.table /\ vacated' = plan.b.vacated
      /\ unflushed' = plan.b.unflushed /\ hook' = plan.b.hook
      /\ file' = plan.b.file /\ stale' = plan.b.stale
  BY DEF Begin, Visible
<1>2. ASSUME retry' = NoActive
      PROVE  \E ans, done : Work(plan, ans, done, early, late)'
  <2>1. w # plan.w \/ plan.op # "probe"
    BY <1>1, <1>2, ProbeCause, NoActiveAssumption
  <2>2. Pairs(plan) \subseteq Wans \X Groups
    BY DEF Planned
  <2> QED BY <1>1, <2>1, <2>2, WorkStarts
<1>3. ASSUME retry' # NoActive
      PROVE  Opening(plan, early)'
  BY <1>1, <1>3 DEF Opening
<1>4. CASE retry' = NoActive
  <2>1. PICK ans, done : Work(plan, ans, done, early, late)'
    BY <1>2, <1>4
  <2> QED BY <1>1, <1>4, <2>1 DEF UnderWay
<1>5. CASE retry' # NoActive
  BY <1>1, <1>3, <1>5 DEF UnderWay
<1> QED BY <1>4, <1>5

(* Between two handlers the Groups and Health are sound.                   *)
LEMMA ReadySound ==
    ASSUME NEW plan, Ready(plan.b)
    PROVE  SoundBase(plan) /\ plan.b.health \in [Wans -> WanHealth]
BY DEF Ready, SoundBase

PlanOf(op, f, ws, w) ==
    [b |-> Visible, h |-> health', gw |-> gateways', op |-> op, f |-> f, ws |-> ws, w |-> w]

(* The plan of a handler that begins.                                      *)
LEMMA PlanFields ==
    ASSUME NEW op, NEW f, NEW ws, NEW w, NEW plan, plan = PlanOf(op, f, ws, w)
    PROVE  /\ plan.b = Visible /\ plan.h = health' /\ plan.gw = gateways'
           /\ plan.op = op /\ plan.f = f /\ plan.ws = ws /\ plan.w = w
BY DEF PlanOf

(* handleProbeResult begins.                                               *)
LEMMA ProbeBegins ==
    ASSUME Ready(Visible), NEW w \in Wans, NEW f \in Probed[w], NEW stats \in Stats,
           BeginProbe(w, f, stats)
    PROVE  UnderWay' /\ health' \in [Wans -> WanHealth]
<1>0. PICK flipped : flipped = ProbeFlipped(health, w, f, stats)
  OBVIOUS
<1>1. /\ phase = "running" /\ gateways' = gateways
      /\ health' = ProbeHealth(health, w, f, stats)
      /\ Begin("recompute", Affected(flipped), NoActive, ProbeRepublish(health, w, f, stats),
               IF w \in flipped THEN NoActive ELSE w)
  BY <1>0 DEF BeginProbe
<1>2. health \in [Wans -> WanHealth] /\ f \in Families
  BY ProbedFamilies DEF Ready, Visible
<1>3. health' \in [Wans -> WanHealth]
  BY <1>1, <1>2, ProbeHealthType
<1>4. flipped \subseteq {w}
  BY <1>0 DEF ProbeFlipped
<1>5. CASE w \in flipped
  <2>p. PICK plan : plan = PlanOf("recompute", NoActive, flipped, NoActive)
    OBVIOUS
  <2>1. /\ plan.b = Visible /\ plan.h = health' /\ plan.gw = gateways'
        /\ plan.op = "recompute" /\ plan.f = NoActive /\ plan.ws = flipped /\ plan.w = NoActive
    BY <2>p, PlanFields
  <2>2. /\ plan.b.health = health /\ plan.b.phase = phase /\ plan.b.gateways = gateways
    BY <2>1 DEF Visible
  <2>3. PICK late \in BOOLEAN : late = ProbeRepublish(health, w, f, stats)
    BY DEF ProbeRepublish
  <2>4. ProbeTurns(plan, FALSE, late, w, f, stats)
    BY <1>0, <1>1, <1>5, <2>1, <2>2, <2>3 DEF ProbeTurns
  <2>5. Cause(plan, FALSE, late)
    BY <2>4 DEF Cause
  <2>6. late
    <3> SUFFICES ASSUME ~late PROVE FALSE
      OBVIOUS
    <3>1. SameVerdicts(health, health')
      BY <1>1, <1>2, <2>3, QuietProbe
    <3>2. Healthy(health', w) = Healthy(health, w)
      BY <3>1, SameVerdictsSameView
    <3> QED BY <1>0, <1>1, <1>5, <3>2 DEF ProbeFlipped
  <2>7. Planned(plan, late)
    BY <1>4, <2>1, <2>6, RecomputePlan, ReadySound
  <2>8. Affected(flipped) = Pairs(plan)
    BY <2>1 DEF Pairs
  <2>9. Begin("recompute", Affected(flipped), NoActive, late, NoActive)
    BY <1>1, <1>5, <2>3
  <2> QED BY <1>3, <2>1, <2>5, <2>7, <2>8, <2>9, BeginWorks
<1>6. CASE w \notin flipped
  <2>p. PICK plan : plan = PlanOf("probe", NoActive, {w}, w)
    OBVIOUS
  <2>1. /\ plan.b = Visible /\ plan.h = health' /\ plan.gw = gateways'
        /\ plan.op = "probe" /\ plan.f = NoActive /\ plan.ws = {w} /\ plan.w = w
    BY <2>p, PlanFields
  <2>2. /\ plan.b.health = health /\ plan.b.phase = phase /\ plan.b.gateways = gateways
    BY <2>1 DEF Visible
  <2>3. PICK early \in BOOLEAN : early = ProbeRepublish(health, w, f, stats)
    BY DEF ProbeRepublish
  <2>x. PICK late \in BOOLEAN : ~late
    OBVIOUS
  <2>4. ProbeRetries(plan, early, late, w, f, stats)
    BY <1>0, <1>1, <1>6, <2>x, <2>1, <2>2, <2>3 DEF ProbeRetries
  <2>5. Cause(plan, early, late)
    BY <2>4 DEF Cause
  <2>6. Planned(plan, late)
    BY <2>1, ProbePlan, ReadySound
  <2>7. Affected(flipped) = {}
    BY <1>4, <1>6 DEF Affected
  <2>8. Begin("recompute", {}, NoActive, early, w)
    BY <1>1, <1>6, <2>3, <2>7
  <2>9. /\ plan.b = Visible /\ plan.h = health' /\ plan.gw = gateways'
        /\ plan.op = "probe" /\ w = plan.w
    BY <2>1
  <2> QED BY <1>3, <2>5, <2>6, <2>8, <2>9, BeginWorks
<1> QED BY <1>5, <1>6

(* A link event or the startup snapshots: without a republication nothing  *)
(* of Health changed, so no Group has anything to do.                      *)
LEMMA RecomputeBegins ==
    ASSUME Ready(Visible), NEW flipped \in SUBSET Wans, NEW late \in BOOLEAN,
           late \/ flipped = {},
           Begin("recompute", Affected(flipped), NoActive, late, NoActive),
           \A plan : /\ plan.op = "recompute" /\ plan.f = NoActive /\ plan.ws = flipped
                     /\ plan.b = Visible /\ plan.h = health' /\ plan.gw = gateways'
                     => Cause(plan, FALSE, late)
    PROVE  UnderWay'
<1>p. PICK plan : plan = PlanOf("recompute", NoActive, flipped, NoActive)
  OBVIOUS
<1>1. /\ plan.b = Visible /\ plan.h = health' /\ plan.gw = gateways'
      /\ plan.op = "recompute" /\ plan.f = NoActive /\ plan.ws = flipped /\ plan.w = NoActive
  BY <1>p, PlanFields
<1>2. Cause(plan, FALSE, late)
  BY <1>1
<1>3. Planned(plan, late)
  BY <1>1, RecomputePlan, ReadySound
<1>4. Affected(flipped) = Pairs(plan)
  BY <1>1 DEF Pairs
<1> QED BY <1>1, <1>2, <1>3, <1>4, BeginWorks

(* handleLinkEvent begins.                                                 *)
LEMMA LinkBegins ==
    ASSUME Ready(Visible), NEW i \in Ifaces, NEW link \in LinkStates, BeginLink(i, link)
    PROVE  UnderWay' /\ health' \in [Wans -> WanHealth]
<1>0. PICK flipped : flipped = LinkFlipped(health, i, link)
  OBVIOUS
<1>1. PICK late \in BOOLEAN : late = LinkRepublish(health, i, link)
  BY DEF LinkRepublish
<1>2. /\ phase = "running" /\ gateways' = gateways /\ health' = LinkHealth(health, i, link)
      /\ Begin("recompute", Affected(flipped), NoActive, late, NoActive)
  BY <1>0, <1>1 DEF BeginLink
<1>3. health \in [Wans -> WanHealth]
  BY DEF Ready, Visible
<1>4. health' \in [Wans -> WanHealth]
  BY <1>2, <1>3, LinkHealthType
<1>5. flipped \in SUBSET Wans
  BY <1>0 DEF LinkFlipped
<1>6. late \/ flipped = {}
  <2> SUFFICES ASSUME ~late PROVE flipped = {}
    OBVIOUS
  <2>1. LinkHealth(health, i, link) = health
    BY <1>1, <1>3, QuietLink
  <2> QED BY <1>0, <2>1 DEF LinkFlipped
<1>7. ASSUME NEW plan, plan.op = "recompute", plan.f = NoActive, plan.ws = flipped,
             plan.b = Visible, plan.h = health', plan.gw = gateways'
      PROVE  Cause(plan, FALSE, late)
  <2>1. plan.b.health = health /\ plan.b.phase = phase /\ plan.b.gateways = gateways
    BY <1>7 DEF Visible
  <2>2. LinkTurns(plan, FALSE, late, i, link)
    BY <1>0, <1>1, <1>2, <1>7, <2>1 DEF LinkTurns
  <2> QED BY <2>2 DEF Cause
<1> QED BY <1>2, <1>4, <1>5, <1>6, <1>7, RecomputeBegins

(* prime begins.                                                           *)
LEMMA PrimeBegins ==
    ASSUME Ready(Visible), NEW routes \in RouteSnapshots,
           NEW links \in [Ifaces -> LinkStates \cup {NoLink}], BeginPrime(routes, links)
    PROVE  UnderWay' /\ health' \in [Wans -> WanHealth]
<1>0. PICK flipped : flipped = {w \in Wans : Healthy(health', w) # Healthy(health, w)}
  OBVIOUS
<1>1. PICK late \in BOOLEAN :
          late = (\/ \E i \in Ifaces, f \in Families : routes[i][f] # NoEntry
                  \/ \E i \in Ifaces : links[i] # NoLink /\ LinkRepublish(health, i, links[i]))
  OBVIOUS
<1>2. /\ phase = "booted" /\ health' = LinkSnapshot(health, links)
      /\ gateways' = [i \in Ifaces |-> [f \in Families |->
                         IF routes[i][f] = NoEntry THEN gateways[i][f] ELSE routes[i][f]]]
      /\ Begin("recompute", Affected(flipped), NoActive, late, NoActive)
  BY <1>0, <1>1 DEF BeginPrime
<1>3. health \in [Wans -> WanHealth]
  BY DEF Ready, Visible
<1>4. health' \in [Wans -> WanHealth]
  BY <1>2, <1>3, LinkSnapshotType
<1>5. flipped \in SUBSET Wans
  BY <1>0
<1>6. late \/ flipped = {}
  <2> SUFFICES ASSUME ~late PROVE flipped = {}
    OBVIOUS
  <2>1. \A i \in Ifaces : links[i] = NoLink \/ ~LinkRepublish(health, i, links[i])
    BY <1>1
  <2>2. health' = health
    BY <1>2, <1>3, <2>1, QuietSnapshot
  <2> QED BY <1>0, <2>2
<1>7. ASSUME NEW plan, plan.op = "recompute", plan.f = NoActive, plan.ws = flipped,
             plan.b = Visible, plan.h = health', plan.gw = gateways'
      PROVE  Cause(plan, FALSE, late)
  <2>1. plan.b.health = health /\ plan.b.phase = phase /\ plan.b.gateways = gateways
    BY <1>7 DEF Visible
  <2>2. Primes(plan, FALSE, late, routes, links)
    BY <1>0, <1>1, <1>2, <1>7, <2>1 DEF Primes
  <2> QED BY <2>2 DEF Cause
<1> QED BY <1>2, <1>4, <1>5, <1>6, <1>7, RecomputeBegins

(* handleRouteEvent begins.                                                *)
LEMMA RouteBegins ==
    ASSUME Ready(Visible), NEW i \in Ifaces, NEW f \in Families, NEW entry \in Observable(i),
           BeginRoute(i, f, entry)
    PROVE  UnderWay' /\ health' \in [Wans -> WanHealth]
<1>0. PICK on : on = {w \in Wans : Interface[w] = i}
  OBVIOUS
<1>1. PICK late \in BOOLEAN : late = (entry = NoEntry \/ gateways[i][f] # entry)
  OBVIOUS
<1>2. /\ phase = "running" /\ health' = health
      /\ gateways' = [gateways EXCEPT ![i][f] = entry]
      /\ Begin("route", on \X Groups, f, late, NoActive)
  BY <1>0, <1>1 DEF BeginRoute
<1>p. PICK plan : plan = PlanOf("route", f, on, NoActive)
  OBVIOUS
<1>3. /\ plan.b = Visible /\ plan.h = health' /\ plan.gw = gateways'
      /\ plan.op = "route" /\ plan.f = f /\ plan.ws = on /\ plan.w = NoActive
  BY <1>p, PlanFields
<1>4. plan.b.health = health /\ plan.b.phase = phase /\ plan.b.gateways = gateways
  BY <1>3 DEF Visible
<1>5. RouteSeen(plan, FALSE, late, i, f, entry)
  BY <1>0, <1>1, <1>2, <1>3, <1>4 DEF RouteSeen
<1>6. Cause(plan, FALSE, late)
  BY <1>5 DEF Cause
<1>7. Planned(plan, late)
  BY <1>0, <1>3, RoutePlan, ReadySound
<1>8. on \X Groups = Pairs(plan)
  BY <1>3 DEF Pairs
<1>9. UnderWay'
  BY <1>2, <1>3, <1>6, <1>7, <1>8, BeginWorks
<1> QED BY <1>2, <1>9 DEF Ready, Visible

(* Whatever event begins it, the handler has a plan.                       *)
LEMMA HandlersBegin ==
    ASSUME Ready(Visible), BeginAny
    PROVE  UnderWay' /\ health' \in [Wans -> WanHealth]
BY PrimeBegins, ProbeBegins, LinkBegins, RouteBegins DEF BeginAny, RouteSnapshots

(***************************************************************************)
(* The handler ends: it has done what the one step of Daemon does.         *)
(***************************************************************************)
LEMMA AllSettled ==
    ASSUME NEW plan, NEW ans, NEW done, NEW early, NEW late, Planned(plan, late),
           Ready(plan.b), Work(plan, ans, done, early, late), pc = "republish",
           NEW g \in Groups
    PROVE  /\ Fits(plan, g, ans[g])
           /\ group[g] = Outcome(plan, g, ans[g]).group
           /\ table[g] = Row(plan, g, ans[g])
           /\ Committed(plan, ans, done, g) <=> Outcome(plan, g, ans[g]).commit
<1>1. InTurn = {} /\ todo = {}
  BY DEF InTurn, Work
<1>2. CASE g \in done
  BY <1>2 DEF Work, Rest, Committed
<1>3. CASE g \notin done
  <2>1. \A p \in Pairs(plan) : p[2] = g => Inert(plan, p, plan.b.group[g])
    BY <1>1, <1>3 DEF Work, Turns
  <2>2. /\ PlanAt(plan, g) = NoAttempt
        /\ \A ok \in BOOLEAN : PlanStep(plan, g, ok) = Idle(plan.b.group[g])
    BY <2>1 DEF Planned, OnePairActs
  <2>3. PlanAt(plan, g).wan = NoActive /\ Ok(plan, g, AllWork) \in BOOLEAN
    BY <2>2 DEF NoAttempt, Attempt, Ok, ApplyOk
  <2>4. /\ ans[g] = AllWork /\ group[g] = plan.b.group[g] /\ table[g] = plan.b.table[g]
    BY <1>1, <1>3 DEF Work, Rest
  <2>5. Fits(plan, g, AllWork) /\ Row(plan, g, AllWork) = plan.b.table[g]
    BY <2>3, NoAttemptAnswered DEF Ready
  <2>6. Outcome(plan, g, AllWork) = Idle(plan.b.group[g])
    BY <2>2, <2>3 DEF Outcome
  <2> QED BY <1>3, <2>4, <2>5, <2>6 DEF Idle, Committed
<1> QED BY <1>2, <1>3

(* What the handler leaves of state.json.                                  *)
LEMMA FileAtEnd ==
    ASSUME NEW plan, NEW ans, NEW done, NEW early, NEW late, plan.h = health, plan.gw = gateways,
           Work(plan, ans, done, early, late), Republish, ~cancelled,
           NEW wrote \in BOOLEAN,
           wrote <=> early \/ \E g \in Groups : Committed(plan, ans, done, g)
    PROVE  \/ ~wrote /\ ~late /\ file' = plan.b.file /\ stale' = plan.b.stale
           \/ /\ wrote \/ late
              /\ Shows(plan)'
              /\ \/ file' \in {plan.b.file, Snapshot(plan.h, plan.gw, group)}
                 \/ EarlierWrite(plan, ans, done, early)'
<1>1. /\ pc = "republish" /\ UNCHANGED group /\ (republish <=> late)
      /\ IF republish THEN WriteStateSnapshot ELSE UNCHANGED <<file, stale>>
  BY DEF Republish, memory, Work
<1>2. IF wrote THEN /\ file = plan.b.file \/ EarlierWrite(plan, ans, done, early)
                    /\ late \/ Shows(plan)
               ELSE file = plan.b.file /\ stale = plan.b.stale
  BY <1>1 DEF Work, FileSoFar, Publishing
<1>3. file' = file => (EarlierWrite(plan, ans, done, early)
                           => EarlierWrite(plan, ans, done, early)')
  BY <1>1 DEF EarlierWrite
<1>4. CASE late
  <2>1. Shows(plan)' /\ (file' = file \/ file' = Snapshot(plan.h, plan.gw, group))
    BY <1>1, <1>4, WriteShows
  <2> QED BY <1>2, <1>3, <1>4, <2>1
<1>5. CASE ~late
  <2>1. file' = file /\ stale' = stale
    BY <1>1, <1>5
  <2>2. Shows(plan) => Shows(plan)'
    BY <1>1, <2>1 DEF Shows
  <2> QED BY <1>2, <1>3, <1>5, <2>1, <2>2
<1> QED BY <1>4, <1>5

Attempts(plan) == [g \in Groups |-> PlanAt(plan, g)]
Steps(plan, answer) == [g \in Groups |-> Outcome(plan, g, answer[g])]

(* The kernel's answers to the Groups, taken together, are ones with which *)
(* Daemon settles all Groups at once.                                      *)
LEMMA HandlerSettles ==
    ASSUME NEW plan, NEW ans, NEW done, NEW early, NEW late, Planned(plan, late), Ready(plan.b),
           plan.h = health, plan.gw = gateways, plan.b = before, Functional, ~cancelled,
           \A g \in Groups : before.group[g].decisionsTotal < MaxDecisions,
           retry = NoActive, Work(plan, ans, done, early, late), Republish
    PROVE  \E answer \in Answers :
               Atomic!Settle(Attempts(plan), Steps(plan, answer), answer, early, late)
<1>1. /\ pc = "republish" /\ pc' = "idle"
      /\ UNCHANGED <<phase, health, gateways, group, vacated, table, hook, unflushed>>
  BY DEF Republish, memory
<1>2. shown = plan.b
  BY <1>1 DEF shown
<1>3. /\ shown'.health = plan.h /\ shown'.gateways = plan.gw /\ shown'.group = group
      /\ shown'.vacated = vacated /\ shown'.table = table /\ shown'.hook = hook
      /\ shown'.unflushed = unflushed /\ shown'.file = file' /\ shown'.stale = stale'
  BY <1>1 DEF shown, Visible
<1>4. PICK answer : answer = [g \in Groups |-> ans[g]]
  OBVIOUS
<1>5. ASSUME NEW g \in Groups
      PROVE  /\ Fits(plan, g, answer[g])
             /\ group[g] = Outcome(plan, g, answer[g]).group
             /\ table[g] = Row(plan, g, answer[g])
             /\ Committed(plan, ans, done, g) <=> Outcome(plan, g, answer[g]).commit
  BY <1>1, <1>4, AllSettled
<1>6. answer \in Answers
  BY <1>4, <1>5 DEF Answers, Fits
<1>7. PICK at, step : at = Attempts(plan) /\ step = Steps(plan, answer)
  OBVIOUS
<1>8. \A g \in Groups : at[g] = PlanAt(plan, g) /\ step[g] = Outcome(plan, g, answer[g])
  BY <1>7 DEF Attempts, Steps
<1>9. \A g \in Groups :
          /\ at[g].wan = NoActive => answer[g].ifindex
          /\ answer[g].ifindex =>
                Families \ Atomic!ToWrite(shown'.gateways, at[g]) \subseteq answer[g].writes
  BY <1>3, <1>5, <1>8, SameApply DEF Fits
<1>10. shown'.group = [g \in Groups |-> step[g].group]
  <2>1. \A g \in Groups : group[g] = step[g].group
    BY <1>5, <1>8
  <2> QED BY <1>3, <2>1 DEF Functional
<1>11. \A g \in Groups : shown'.group[g].decisionsTotal <= MaxDecisions
  <2> SUFFICES ASSUME NEW g \in Groups PROVE group[g].decisionsTotal <= MaxDecisions
    BY <1>3
  <2>1. PICK n, m : n = before.group[g].decisionsTotal /\ m = group[g].decisionsTotal
    OBVIOUS
  <2>2. Ok(plan, g, answer[g]) \in BOOLEAN
    BY DEF Ok, ApplyOk
  <2>3. m <= n + 1 /\ m \in Nat
    BY <1>5, <2>1, <2>2 DEF Planned, SoundPlan, Outcome, SoundStep, SoundGroup, GroupState
  <2>4. n \in Nat /\ n < MaxDecisions
    BY <2>1 DEF Ready, SoundGroup, GroupState
  <2>5. m <= MaxDecisions
    BY <2>3, <2>4, DaemonAssumption
  <2> QED BY <2>1, <2>5
<1>12. shown'.table =
           [g \in Groups |-> Atomic!Applied(shown'.gateways, at[g], answer[g], shown.table[g])]
  <2>1. \A g \in Groups :
            table[g] = Atomic!Applied(shown'.gateways, at[g], answer[g], shown.table[g])
    BY <1>2, <1>3, <1>5, <1>8, SameApply DEF Row
  <2> QED BY <1>3, <2>1 DEF Functional
<1>13. ASSUME NEW g \in Groups, NEW o, NEW n
       PROVE  /\ Atomic!VacatedNext(g, o, n) = VacatedBy(plan.b.vacated[g], o, n)
              /\ Atomic!FlushedWan(g, o, n) = FlushedBy(plan.b.vacated[g], o, n)
  BY <1>2, SameApply DEF Atomic!VacatedNext, VacatedBy, Atomic!FlushedWan, FlushedBy
<1>14. ASSUME NEW g \in Groups
       PROVE  LET o == shown.group[g].selection
                  n == shown'.group[g].selection
              IN  /\ vacated[g] = VacatedBy(plan.b.vacated[g], o, n)
                  /\ unflushed[g] = UnflushedBy(plan.b.unflushed[g], plan.b.vacated[g], o, n)
                  /\ hook[g] = HookBy(plan.b.hook[g], o, n)
  BY <1>1, <1>2, <1>3 DEF Work, Publications, Publication, Publishing
<1>15. shown'.vacated = [g \in Groups |->
           Atomic!VacatedNext(g, shown.group[g].selection, shown'.group[g].selection)]
  BY <1>3, <1>13, <1>14 DEF Functional
<1>16. shown'.unflushed = [g \in Groups |->
           (shown.unflushed[g] \ {Atomic!FlushedWan(g, shown.group[g].selection,
                                                    shown'.group[g].selection)})
               \cup ({shown'.group[g].selection} \ {NoActive})]
  BY <1>2, <1>3, <1>13, <1>14 DEF Functional, UnflushedBy
<1>17. shown'.hook = [g \in Groups |->
           IF Atomic!Event(shown.group[g].selection, shown'.group[g].selection) = ""
             THEN shown.hook[g]
             ELSE [event |-> Atomic!Event(shown.group[g].selection, shown'.group[g].selection),
                   old |-> shown.group[g].selection, new |-> shown'.group[g].selection]]
  <2>1. ASSUME NEW g \in Groups
        PROVE  hook[g] =
                   IF Atomic!Event(shown.group[g].selection, shown'.group[g].selection) = ""
                     THEN shown.hook[g]
                     ELSE [event |-> Atomic!Event(shown.group[g].selection,
                                                  shown'.group[g].selection),
                           old |-> shown.group[g].selection, new |-> shown'.group[g].selection]
    <3>1. PICK o, n : o = shown.group[g].selection /\ n = shown'.group[g].selection
      OBVIOUS
    <3>2. hook[g] = HookBy(plan.b.hook[g], o, n)
      BY <1>14, <3>1
    <3>3. Atomic!Event(o, n) = Event(o, n)
      BY SameApply
    <3> QED BY <1>2, <3>1, <3>2, <3>3 DEF HookBy
  <2>2. hook = [g \in Groups |-> hook[g]]
    BY DEF Functional
  <2> QED BY <1>3, <2>1, <2>2
<1>18. Atomic!WriteState(step, early, late)
  <2>1. PICK wrote \in BOOLEAN : wrote = (early \/ \E g \in Groups : Committed(plan, ans, done, g))
    OBVIOUS
  <2>2. wrote <=> early \/ \E g \in Groups : step[g].commit
    BY <1>5, <1>8, <2>1
  <2>3. PICK now : now = Snapshot(plan.h, plan.gw, group)
    OBVIOUS
  <2>4. Atomic!Snapshot(shown'.health, shown'.gateways, shown'.group) = now
    BY <1>3, <2>3, SameSnapshot
  <2>5. \A S : During(plan, group, S) =
                   Atomic!Snapshot(shown'.health, shown'.gateways,
                       [g \in Groups |-> IF g \in S THEN shown'.group[g] ELSE shown.group[g]])
    BY <1>2, <1>3, SameSnapshot DEF During
  <2>6. \/ ~wrote /\ ~late /\ file' = plan.b.file /\ stale' = plan.b.stale
        \/ /\ wrote \/ late
           /\ \/ file' = now /\ stale' = FALSE
              \/ file' # now /\ stale' = TRUE /\ StateWriteFails
           /\ file' = plan.b.file \/ file' = now \/ EarlierWrite(plan, ans, done, early)'
    <3>0. wrote <=> early \/ \E g \in Groups : Committed(plan, ans, done, g)
      BY <2>1
    <3>1. \/ ~wrote /\ ~late /\ file' = plan.b.file /\ stale' = plan.b.stale
          \/ /\ wrote \/ late
             /\ Shows(plan)'
             /\ \/ file' \in {plan.b.file, Snapshot(plan.h, plan.gw, group)}
                \/ EarlierWrite(plan, ans, done, early)'
      BY <3>0, FileAtEnd
    <3>2. Shows(plan)' => \/ file' = now /\ stale' = FALSE
                          \/ file' # now /\ stale' = TRUE /\ StateWriteFails
      BY <1>1, <2>3 DEF Shows
    <3> QED BY <2>3, <3>1, <3>2
  <2>7. ASSUME EarlierWrite(plan, ans, done, early)'
        PROVE  \E S \in SUBSET Groups :
                   /\ (\E g \in S : step[g].commit) \/ (S = {} /\ early)
                   /\ file' = During(plan, group, S)
    <3>1. PICK S \in SUBSET done :
              /\ (\E g \in S : Committed(plan, ans, done, g)) \/ (S = {} /\ early)
              /\ file' = During(plan, group, S)
      BY <1>1, <2>7 DEF EarlierWrite
    <3>2. S \in SUBSET Groups
      BY DEF Work
    <3>3. (\E g \in S : step[g].commit) \/ (S = {} /\ early)
      BY <1>5, <1>8, <3>1, <3>2
    <3> QED BY <3>1, <3>2, <3>3
  <2> QED BY <1>2, <1>3, <2>2, <2>4, <2>5, <2>6, <2>7 DEF Atomic!WriteState
<1>19. Atomic!Settle(at, step, answer, early, late)
  BY <1>9, <1>10, <1>11, <1>12, <1>15, <1>16, <1>17, <1>18 DEF Atomic!Settle
<1> QED BY <1>6, <1>7, <1>19


(* The loop of recomputeAffectedGroups as one step.                        *)
LEMMA RecomputeAtOnce ==
    ASSUME NEW plan, NEW late, NEW answer, plan.op = "recompute", shown = plan.b,
           shown'.health = plan.h, shown'.gateways = plan.gw,
           Atomic!Settle(Attempts(plan), Steps(plan, answer), answer, FALSE, late)
    PROVE  Atomic!RecomputeAffected(plan.ws, late, answer)
<1>1. PICK at : at = [g \in Groups |->
          IF Members[g] \cap plan.ws # {}
            THEN Atomic!RecomputeAttempt(shown.group[g],
                     Atomic!Select(g, Atomic!HealthySet(shown'.health)))
            ELSE Atomic!NoAttempt]
  OBVIOUS
<1>2. PICK step : step = [g \in Groups |->
          IF Members[g] \cap plan.ws # {}
            THEN Atomic!Recompute(shown.group[g],
                     Atomic!Select(g, Atomic!HealthySet(shown'.health)),
                     Atomic!ApplyOk(shown'.gateways, at[g], answer[g]))
            ELSE Atomic!Idle(shown.group[g])]
  OBVIOUS
<1>3. \A g : Atomic!Select(g, Atomic!HealthySet(shown'.health)) = Target(plan, g)
  BY SameStrategy DEF Target
<1>4. at = Attempts(plan)
  <2>1. \A g \in Groups : at[g] = PlanAt(plan, g)
    BY <1>1, <1>3, SameDecision DEF PlanAt
  <2> QED BY <1>1, <2>1 DEF Attempts
<1>5. step = Steps(plan, answer)
  <2>1. \A g \in Groups : Atomic!ApplyOk(shown'.gateways, at[g], answer[g])
                              = Ok(plan, g, answer[g])
    BY <1>4, SameApply DEF Attempts, Ok
  <2>2. \A g \in Groups : step[g] = Outcome(plan, g, answer[g])
    BY <1>2, <1>3, <2>1, SameDecision DEF Outcome, PlanStep
  <2> QED BY <1>2, <2>2 DEF Steps
<1>6. Atomic!Settle(at, step, answer, FALSE, late)
  BY <1>4, <1>5
<1> QED BY <1>1, <1>2, <1>6 DEF Atomic!RecomputeAffected

(* The loop of retryGroupDecisions as one step.                            *)
LEMMA RetryAtOnce ==
    ASSUME NEW plan, NEW early, NEW answer, plan.op = "probe", shown = plan.b,
           shown'.gateways = plan.gw,
           Atomic!Settle(Attempts(plan), Steps(plan, answer), answer, early, FALSE)
    PROVE  Atomic!RetryDecisions(plan.w, early, answer)
<1>1. PICK at : at = [g \in Groups |-> Atomic!ProbeAttempt(shown.group[g], plan.w)]
  OBVIOUS
<1>2. PICK step : step = [g \in Groups |-> Atomic!Probe(shown.group[g], plan.w,
                              Atomic!ApplyOk(shown'.gateways, at[g], answer[g]))]
  OBVIOUS
<1>4. at = Attempts(plan)
  <2>1. \A g \in Groups : at[g] = PlanAt(plan, g)
    BY <1>1, SameDecision DEF PlanAt
  <2> QED BY <1>1, <2>1 DEF Attempts
<1>5. step = Steps(plan, answer)
  <2>1. \A g \in Groups : Atomic!ApplyOk(shown'.gateways, at[g], answer[g])
                              = Ok(plan, g, answer[g])
    BY <1>4, SameApply DEF Attempts, Ok
  <2>2. \A g \in Groups : step[g] = Outcome(plan, g, answer[g])
    BY <1>2, <2>1, SameDecision DEF Outcome, PlanStep
  <2> QED BY <1>2, <2>2 DEF Steps
<1>6. Atomic!Settle(at, step, answer, early, FALSE)
  BY <1>4, <1>5
<1> QED BY <1>1, <1>2, <1>6 DEF Atomic!RetryDecisions

(* Events and kernel answers are drawn from the same sets.                 *)
LEMMA SameInputs ==
    /\ Atomic!Answers = Answers
    /\ Atomic!CacheEntry = CacheEntry
    /\ \A i : Atomic!Observable(i) = Observable(i)
BY DEF Atomic!Answers, Atomic!KernelAnswers, Answers, KernelAnswers,
       Atomic!CacheEntry, CacheEntry, Atomic!Observable, Observable

(* Which handler of Daemon the event calls for.                            *)
AtEnd(plan, answer, early, late) ==
    /\ shown = plan.b /\ shown'.phase = "running"
    /\ shown'.health = plan.h /\ shown'.gateways = plan.gw
    /\ Atomic!Settle(Attempts(plan), Steps(plan, answer), answer, early, late)

(* prime as one step.                                                      *)
LEMMA PrimeAtOnce ==
    ASSUME NEW plan, NEW early, NEW late, NEW answer \in Answers,
           AtEnd(plan, answer, early, late), NEW routes \in RouteSnapshots,
           NEW links \in [Ifaces -> LinkStates \cup {NoLink}],
           Primes(plan, early, late, routes, links)
    PROVE  Atomic!PrimeAny
<1>1. PICK publish \in BOOLEAN : publish =
          (\/ \E i \in Ifaces, f \in Families : routes[i][f] # NoEntry
           \/ \E i \in Ifaces : links[i] # NoLink
                                  /\ Atomic!LinkRepublish(shown.health, i, links[i]))
  OBVIOUS
<1>2. shown = plan.b /\ shown'.health = plan.h /\ shown'.gateways = plan.gw
  BY DEF AtEnd
<1>0. /\ plan.op = "recompute" /\ plan.b.phase = "booted" /\ ~early
      /\ plan.gw = [i \in Ifaces |-> [f \in Families |->
             IF routes[i][f] = NoEntry THEN plan.b.gateways[i][f] ELSE routes[i][f]]]
      /\ plan.h = LinkSnapshot(plan.b.health, links)
      /\ plan.ws = {w \in Wans : Healthy(plan.h, w) # Healthy(plan.b.health, w)}
      /\ late <=> \/ \E i \in Ifaces, f \in Families : routes[i][f] # NoEntry
                  \/ \E i \in Ifaces : links[i] # NoLink
                                         /\ LinkRepublish(plan.b.health, i, links[i])
  BY DEF Primes
<1>h. \A i : Atomic!LinkRepublish(shown.health, i, links[i])
                 = LinkRepublish(plan.b.health, i, links[i])
  BY <1>2, SameHealth
<1>3. publish <=> late
  BY <1>0, <1>1, <1>h
<1>4. Atomic!Settle(Attempts(plan), Steps(plan, answer), answer, FALSE, publish)
  <2>1. Atomic!Settle(Attempts(plan), Steps(plan, answer), answer, early, late)
    BY DEF AtEnd
  <2>2. ~early /\ (late <=> publish)
    BY <1>0, <1>3
  <2> QED BY <2>1, <2>2 DEF Atomic!Settle, Atomic!WriteState
<1>5. Atomic!RecomputeAffected(plan.ws, publish, answer)
  BY <1>0, <1>2, <1>4, RecomputeAtOnce
<1>6. plan.ws = {w \in Wans : Atomic!Healthy(shown'.health, w) # Atomic!Healthy(shown.health, w)}
  <2>1. \A w : /\ Atomic!Healthy(shown'.health, w) = Healthy(plan.h, w)
               /\ Atomic!Healthy(shown.health, w) = Healthy(plan.b.health, w)
    BY <1>2, SameStrategy
  <2> QED BY <1>0, <2>1
<1>7. /\ shown.phase = "booted" /\ shown'.phase = "running"
      /\ shown'.gateways = [i \in Ifaces |-> [f \in Families |->
             IF routes[i][f] = NoEntry THEN shown.gateways[i][f] ELSE routes[i][f]]]
  BY <1>0, <1>2 DEF AtEnd
<1>8. shown'.health = Atomic!LinkSnapshot(shown.health, links)
  <2>1. Atomic!LinkSnapshot(plan.b.health, links) = LinkSnapshot(plan.b.health, links)
    BY SameHealth
  <2> QED BY <1>0, <1>2, <2>1
<1>9. Atomic!Prime(routes, links, answer)
  BY <1>1, <1>5, <1>6, <1>7, <1>8 DEF Atomic!Prime
<1> QED BY <1>9, SameInputs DEF Atomic!PrimeAny, RouteSnapshots

(* handleProbeResult as one step.                                          *)
LEMMA ProbeAtOnce ==
    ASSUME NEW plan, NEW early, NEW late, NEW answer \in Answers,
           AtEnd(plan, answer, early, late),
           NEW w \in Wans, NEW f \in Probed[w], NEW stats \in Stats,
           \/ ProbeTurns(plan, early, late, w, f, stats)
           \/ ProbeRetries(plan, early, late, w, f, stats)
    PROVE  Atomic!ProbeAny
<1>1. PICK publish : publish = Atomic!ProbeRepublish(shown.health, w, f, stats)
  OBVIOUS
<1>2. PICK flipped : flipped = Atomic!ProbeFlipped(shown.health, w, f, stats)
  OBVIOUS
<1>3. /\ shown = plan.b /\ shown'.health = plan.h /\ shown'.gateways = plan.gw
      /\ shown'.phase = "running"
      /\ Atomic!Settle(Attempts(plan), Steps(plan, answer), answer, early, late)
  BY DEF AtEnd
<1>4. /\ publish = ProbeRepublish(plan.b.health, w, f, stats)
      /\ flipped = ProbeFlipped(plan.b.health, w, f, stats)
      /\ Atomic!ProbeHealth(shown.health, w, f, stats) = ProbeHealth(plan.b.health, w, f, stats)
  BY <1>1, <1>2, <1>3, SameHealth
<1>5. /\ shown.phase = "running" /\ shown'.phase = shown.phase
      /\ shown'.gateways = shown.gateways
      /\ shown'.health = Atomic!ProbeHealth(shown.health, w, f, stats)
  BY <1>3, <1>4 DEF ProbeTurns, ProbeRetries
<1>6. ASSUME ProbeTurns(plan, early, late, w, f, stats)
      PROVE  w \in flipped /\ Atomic!RecomputeAffected(flipped, publish, answer)
  <2>1. plan.op = "recompute" /\ plan.ws = flipped /\ w \in flipped /\ ~early
    BY <1>4, <1>6 DEF ProbeTurns
  <2>2. ~early /\ (late <=> publish)
    BY <1>4, <1>6 DEF ProbeTurns
  <2>3. Atomic!Settle(Attempts(plan), Steps(plan, answer), answer, FALSE, publish)
    BY <1>3, <2>2 DEF Atomic!Settle, Atomic!WriteState
  <2>4. Atomic!RecomputeAffected(flipped, publish, answer)
    BY <1>3, <2>1, <2>3, RecomputeAtOnce
  <2> QED BY <2>1, <2>4
<1>7. ASSUME ProbeRetries(plan, early, late, w, f, stats)
      PROVE  w \notin flipped /\ Atomic!RetryDecisions(w, publish, answer)
  <2>1. plan.op = "probe" /\ plan.w = w /\ w \notin flipped /\ ~late
    BY <1>4, <1>7 DEF ProbeRetries
  <2>2. (early <=> publish) /\ ~late
    BY <1>4, <1>7 DEF ProbeRetries
  <2>3. Atomic!Settle(Attempts(plan), Steps(plan, answer), answer, publish, FALSE)
    BY <1>3, <2>2 DEF Atomic!Settle, Atomic!WriteState
  <2>4. Atomic!RetryDecisions(w, publish, answer)
    BY <1>3, <2>1, <2>3, RetryAtOnce
  <2> QED BY <2>1, <2>4
<1>8. \/ w \in flipped /\ Atomic!RecomputeAffected(flipped, publish, answer)
      \/ w \notin flipped /\ Atomic!RetryDecisions(w, publish, answer)
  BY <1>6, <1>7
<1>9. Atomic!HandleProbeResult(w, f, stats, answer)
  BY <1>1, <1>2, <1>5, <1>8 DEF Atomic!HandleProbeResult
<1> QED BY <1>9, SameInputs DEF Atomic!ProbeAny

(* handleLinkEvent as one step.                                            *)
LEMMA LinkAtOnce ==
    ASSUME NEW plan, NEW early, NEW late, NEW answer \in Answers,
           AtEnd(plan, answer, early, late), NEW i \in Ifaces, NEW link \in LinkStates,
           LinkTurns(plan, early, late, i, link)
    PROVE  Atomic!LinkAny
<1>1. PICK publish : publish = Atomic!LinkRepublish(shown.health, i, link)
  OBVIOUS
<1>2. PICK flipped : flipped = Atomic!LinkFlipped(shown.health, i, link)
  OBVIOUS
<1>3. /\ shown = plan.b /\ shown'.health = plan.h /\ shown'.gateways = plan.gw
      /\ shown'.phase = "running"
      /\ Atomic!Settle(Attempts(plan), Steps(plan, answer), answer, early, late)
  BY DEF AtEnd
<1>4. /\ publish = LinkRepublish(plan.b.health, i, link)
      /\ flipped = LinkFlipped(plan.b.health, i, link)
      /\ Atomic!LinkHealth(shown.health, i, link) = LinkHealth(plan.b.health, i, link)
  BY <1>1, <1>2, <1>3, SameHealth
<1>5. /\ shown.phase = "running" /\ shown'.phase = shown.phase
      /\ shown'.gateways = shown.gateways
      /\ shown'.health = Atomic!LinkHealth(shown.health, i, link)
  BY <1>3, <1>4 DEF LinkTurns
<1>6. plan.op = "recompute" /\ plan.ws = flipped /\ ~early
  BY <1>4 DEF LinkTurns
<1>7. ~early /\ (late <=> publish)
  BY <1>4 DEF LinkTurns
<1>8. Atomic!Settle(Attempts(plan), Steps(plan, answer), answer, FALSE, publish)
  BY <1>3, <1>7 DEF Atomic!Settle, Atomic!WriteState
<1>9. Atomic!RecomputeAffected(flipped, publish, answer)
  BY <1>3, <1>6, <1>8, RecomputeAtOnce
<1>10. Atomic!HandleLinkEvent(i, link, answer)
  BY <1>1, <1>2, <1>5, <1>9 DEF Atomic!HandleLinkEvent
<1> QED BY <1>10, SameInputs DEF Atomic!LinkAny

(* handleRouteEvent as one step.                                           *)
LEMMA RouteAtOnce ==
    ASSUME NEW plan, NEW early, NEW late, NEW answer \in Answers,
           AtEnd(plan, answer, early, late),
           NEW i \in Ifaces, NEW f \in Families, NEW entry \in Observable(i),
           RouteSeen(plan, early, late, i, f, entry)
    PROVE  Atomic!RouteAny
<1>1. PICK publish \in BOOLEAN : publish = (entry = NoEntry \/ shown.gateways[i][f] # entry)
  OBVIOUS
<1>2. PICK on : on = {w \in Wans : Interface[w] = i}
  OBVIOUS
<1>3. /\ shown = plan.b /\ shown'.health = plan.h /\ shown'.gateways = plan.gw
      /\ shown'.phase = "running"
      /\ Atomic!Settle(Attempts(plan), Steps(plan, answer), answer, early, late)
  BY DEF AtEnd
<1>4. /\ shown.phase = "running" /\ shown'.phase = shown.phase
      /\ shown'.health = shown.health
      /\ shown'.gateways = [shown.gateways EXCEPT ![i][f] = entry]
      /\ plan.op = "route" /\ plan.ws = on /\ plan.f = f /\ ~early
  BY <1>2, <1>3 DEF RouteSeen
<1>5. ~early /\ (late <=> publish)
  BY <1>1, <1>3 DEF RouteSeen
<1>6. Atomic!Settle(Attempts(plan), Steps(plan, answer), answer, FALSE, publish)
  BY <1>3, <1>5 DEF Atomic!Settle, Atomic!WriteState
<1>7. PICK at : at = [g \in Groups |-> Atomic!RouteAttempt(shown.group[g], on, f)]
  OBVIOUS
<1>8. PICK step : step = [g \in Groups |-> Atomic!RouteObserved(shown.group[g], on,
                              Atomic!ApplyOk(shown'.gateways, at[g], answer[g]))]
  OBVIOUS
<1>9. at = Attempts(plan)
  <2>1. \A g \in Groups : at[g] = PlanAt(plan, g)
    BY <1>3, <1>4, <1>7, SameDecision DEF PlanAt
  <2> QED BY <1>7, <2>1 DEF Attempts
<1>10. step = Steps(plan, answer)
  <2>1. \A g \in Groups : Atomic!ApplyOk(shown'.gateways, at[g], answer[g])
                              = Ok(plan, g, answer[g])
    BY <1>3, <1>9, SameApply DEF Attempts, Ok
  <2>2. \A g \in Groups : step[g] = Outcome(plan, g, answer[g])
    BY <1>3, <1>4, <1>8, <2>1, SameDecision DEF Outcome, PlanStep
  <2> QED BY <1>8, <2>2 DEF Steps
<1>11. Atomic!Settle(at, step, answer, FALSE, publish)
  BY <1>6, <1>9, <1>10
<1>12. Atomic!HandleRouteEvent(i, f, entry, answer)
  BY <1>1, <1>2, <1>4, <1>7, <1>8, <1>11 DEF Atomic!HandleRouteEvent
<1> QED BY <1>12, SameInputs DEF Atomic!RouteAny

(* The handler's last step is the one step of Daemon.                      *)
LEMMA HandlerAtOnce ==
    ASSUME NEW plan, NEW ans, NEW done, NEW early, NEW late, Cause(plan, early, late),
           Planned(plan, late), Ready(plan.b), plan.h = health, plan.gw = gateways,
           plan.b = before, Functional, ~cancelled, phase = "running",
           \A g \in Groups : before.group[g].decisionsTotal < MaxDecisions,
           retry = NoActive, Work(plan, ans, done, early, late), Republish
    PROVE  Atomic!Next
<1>1. PICK answer \in Answers :
          Atomic!Settle(Attempts(plan), Steps(plan, answer), answer, early, late)
  BY HandlerSettles
<1>2. /\ shown = plan.b /\ shown'.phase = "running"
      /\ shown'.health = plan.h /\ shown'.gateways = plan.gw
  BY DEF Republish, memory, shown, Visible
<1>3. AtEnd(plan, answer, early, late)
  BY <1>1, <1>2 DEF AtEnd
<1> QED BY <1>3, PrimeAtOnce, ProbeAtOnce, LinkAtOnce, RouteAtOnce DEF Cause, Atomic!Next

(***************************************************************************)
(* The invariant is inductive.                                             *)
(***************************************************************************)
LEMMA WorkSteps ==
    ASSUME NEW plan, NEW ans, NEW done, NEW early, NEW late, Planned(plan, late),
           Ready(plan.b), plan.h = health, plan.gw = gateways, Functional, ~cancelled,
           Work(plan, ans, done, early, late), HandlerStep, ~Republish
    PROVE  \E ans2, done2 : Work(plan, ans2, done2, early, late)'
<1>1. \A g \in Groups : plan.b.table[g] = [f \in Families |-> plan.b.table[g][f]]
  BY DEF Ready
<1>2. CASE SettleGroup
  BY <1>2, InertSettles, GroupSettles
<1>3. CASE NextGroup
  BY <1>1, <1>3, NextGroupWorks
<1>4. CASE EndLoop
  BY <1>4, EndLoopWorks
<1>5. CASE LookupIfIndex
  BY <1>1, <1>5, LookupWorks
<1>6. CASE WriteRoute
  BY <1>6, WriteRouteWorks
<1>7. CASE RouteWritten
  BY <1>7, RouteWrittenWorks
<1>8. CASE EndApply
  BY <1>8, EndApplyWorks
<1>9. CASE FlushVacated
  BY <1>9, FlushVacatedWorks
<1>10. CASE PublishState
  BY <1>10, PublishStateWorks
<1>11. CASE NotifyHooks
  BY <1>11, NotifyHooksWorks
<1> QED BY <1>2, <1>3, <1>4, <1>5, <1>6, <1>7, <1>8, <1>9, <1>10, <1>11 DEF HandlerStep

(* What no step of a handler touches; it returns by its last.              *)
LEMMA StepFrame ==
    ASSUME HandlerStep
    PROVE  /\ pc # "idle" /\ UNCHANGED <<phase, health, gateways, cancelled>>
           /\ Republish \/ (UNCHANGED <<retry, before>> /\ pc' # "idle")
<1>1. CASE SettleGroup
  BY <1>1 DEF SettleGroup, stopping
<1>2. CASE NextGroup \/ EndLoop
  BY <1>2 DEF NextGroup, EndLoop, vars, stopping
<1>3. CASE LookupIfIndex \/ WriteRoute \/ EndApply
  BY <1>3 DEF LookupIfIndex, WriteRoute, EndApply, vars, stopping
<1>4. CASE RouteWritten
  BY <1>4 DEF RouteWritten, memory, stopping
<1>5. CASE FlushVacated \/ PublishState \/ NotifyHooks
  BY <1>5 DEF FlushVacated, PublishState, NotifyHooks, memory, stopping
<1>6. CASE Republish
  BY <1>6 DEF Republish, memory, stopping
<1> QED BY <1>1, <1>2, <1>3, <1>4, <1>5, <1>6 DEF HandlerStep

(* The republication decides and publishes nothing else.                   *)
LEMMA RepublishFrame ==
    ASSUME Republish
    PROVE  /\ pc = "republish" /\ retry' = NoActive
           /\ IF retry = NoActive THEN pc' = "idle" ELSE pc' # "idle" /\ before' = before
           /\ UNCHANGED <<group, vacated, table, hook, unflushed>>
BY DEF Republish, memory

(* The handler goes on with its plan.                                      *)
LEMMA StaysUnderWay ==
    ASSUME UnderWay, Ready(before), Functional, ~cancelled, HandlerStep, pc' # "idle"
    PROVE  UnderWay' /\ before' = before
<1>1. PICK plan, ans, done, early, late :
        /\ plan.b = before /\ plan.h = health /\ plan.gw = gateways
        /\ Cause(plan, early, late) /\ Planned(plan, late)
        /\ IF retry = NoActive THEN Work(plan, ans, done, early, late)
                               ELSE Opening(plan, early)
  BY DEF UnderWay
<1>2. /\ before' = before /\ health' = health /\ gateways' = gateways
      /\ retry = NoActive => ~Republish /\ retry' = NoActive
  BY StepFrame, RepublishFrame
<1>3. Ready(plan.b)
  BY <1>1
<1>4. CASE retry = NoActive
  <2>1. PICK ans2, done2 : Work(plan, ans2, done2, early, late)'
    BY <1>1, <1>2, <1>3, <1>4, WorkSteps
  <2> QED BY <1>1, <1>2, <1>4, <2>1 DEF UnderWay
<1>5. CASE retry # NoActive
  <2>1. IF retry' = NoActive THEN \E ans2, done2 : Work(plan, ans2, done2, early, late)'
                             ELSE Opening(plan, early)'
    BY <1>1, <1>3, <1>5, OpeningSteps
  <2>2. CASE retry' = NoActive
    <3>1. PICK ans2, done2 : Work(plan, ans2, done2, early, late)'
      BY <2>1, <2>2
    <3> QED BY <1>1, <1>2, <2>2, <3>1 DEF UnderWay
  <2>3. CASE retry' # NoActive
    BY <1>1, <1>2, <2>1, <2>3 DEF UnderWay
  <2> QED BY <2>2, <2>3
<1> QED BY <1>4, <1>5

(* The state a handler leaves is one the next can begin in.                *)
LEMMA ReadyAgain ==
    ASSUME NEW plan, NEW ans, NEW done, NEW early, NEW late, Planned(plan, late),
           Ready(plan.b), Functional, health \in [Wans -> WanHealth], UNCHANGED health,
           Work(plan, ans, done, early, late), Republish
    PROVE  Ready(Visible)'
<1>1. pc = "republish" /\ UNCHANGED <<group, vacated, table, hook, unflushed>>
  BY RepublishFrame
<1>2. ASSUME NEW g \in Groups
      PROVE  /\ SoundGroup(group[g]) /\ NoActive \notin unflushed[g]
             /\ group[g].selection \in unflushed[g] \cup {NoActive}
             /\ table[g] = [f \in Families |-> table[g][f]]
  <2>1. group[g] = PlanStep(plan, g, Ok(plan, g, ans[g])).group
    BY <1>1, AllSettled DEF Outcome
  <2>2. Ok(plan, g, ans[g]) \in BOOLEAN
    BY DEF Ok, ApplyOk
  <2>3. SoundGroup(group[g])
    BY <2>1, <2>2 DEF Planned, SoundPlan, SoundStep
  <2>4. PICK u, v, o, n : /\ u = plan.b.unflushed[g] /\ v = plan.b.vacated[g]
                          /\ o = plan.b.group[g].selection /\ n = group[g].selection
    OBVIOUS
  <2>5. unflushed[g] = UnflushedBy(u, v, o, n)
    BY <1>1, <2>4 DEF Work, Publications, Publication, Publishing
  <2>6. NoActive \notin u
    BY <2>4 DEF Ready
  <2>7. NoActive \notin unflushed[g] /\ n \in unflushed[g] \cup {NoActive}
    BY <2>5, <2>6 DEF UnflushedBy
  <2>8. table[g] = [f \in Families |-> table[g][f]]
    BY DEF Functional
  <2> QED BY <2>3, <2>4, <2>7, <2>8
<1>3. /\ Visible'.health = health /\ Visible'.group = group
      /\ Visible'.unflushed = unflushed /\ Visible'.table = table
  BY <1>1 DEF Visible
<1> QED BY <1>2, <1>3 DEF Ready

(* Steps keep the domains.                                                 *)
LEMMA StepFunctional ==
    ASSUME Functional, HandlerStep
    PROVE  Functional'
<1>1. CASE SettleGroup
  <2>1. UNCHANGED <<vacated, hook, unflushed, table>>
    BY <1>1 DEF SettleGroup, history
  <2>2. PICK k, v : group' = [group EXCEPT ![k] = v]
    BY <1>1 DEF SettleGroup
  <2>3. group' = [g \in Groups |-> group'[g]]
    BY <2>2 DEF Functional
  <2> QED BY <2>1, <2>3 DEF Functional
<1>2. CASE NextGroup \/ EndLoop \/ LookupIfIndex \/ WriteRoute \/ EndApply
  BY <1>2 DEF NextGroup, EndLoop, LookupIfIndex, WriteRoute, EndApply, vars, Functional
<1>3. CASE RouteWritten
  <2>1. UNCHANGED <<group, vacated, hook, unflushed>>
    BY <1>3 DEF RouteWritten, memory, history
  <2>2. PICK k, f, v : table' \in {table, [table EXCEPT ![k][f] = v]}
    BY <1>3 DEF RouteWritten
  <2>3. table' = [g \in Groups |-> [h \in Families |-> table'[g][h]]]
    <3>1. CASE table' = table
      BY <3>1 DEF Functional
    <3>2. CASE table' = [table EXCEPT ![k][f] = v]
      <4>1. DOMAIN table = Groups /\ \A g \in Groups : table[g] = [h \in Families |-> table[g][h]]
        BY DEF Functional
      <4>2. \A g \in Groups : table'[g] = [h \in Families |-> table'[g][h]]
        BY <3>2, <4>1
      <4>3. table' = [g \in Groups |-> table'[g]]
        BY <3>2, <4>1
      <4> QED BY <4>2, <4>3
    <3> QED BY <2>2, <3>1, <3>2
  <2> QED BY <2>1, <2>3 DEF Functional
<1>4. CASE FlushVacated
  <2>1. UNCHANGED <<group, hook, table>>
    BY <1>4 DEF FlushVacated
  <2>2. PICK k, v, u : /\ vacated' = [vacated EXCEPT ![k] = v]
                       /\ unflushed' = [unflushed EXCEPT ![k] = u]
    BY <1>4 DEF FlushVacated
  <2>3. vacated' = [g \in Groups |-> vacated'[g]] /\ unflushed' = [g \in Groups |-> unflushed'[g]]
    BY <2>2 DEF Functional
  <2> QED BY <2>1, <2>3 DEF Functional
<1>5. CASE PublishState \/ Republish
  BY <1>5 DEF PublishState, Republish, memory, Functional
<1>6. CASE NotifyHooks
  <2>1. UNCHANGED <<group, vacated, unflushed, table>>
    BY <1>6 DEF NotifyHooks, memory
  <2>2. PICK k, v : hook' \in {hook, [hook EXCEPT ![k] = v]}
    BY <1>6 DEF NotifyHooks
  <2>3. hook' = [g \in Groups |-> hook'[g]]
    BY <2>2 DEF Functional
  <2> QED BY <2>1, <2>3 DEF Functional
<1> QED BY <1>1, <1>2, <1>3, <1>4, <1>5, <1>6 DEF HandlerStep

(* What every handler does when it begins.                                 *)
LEMMA BeginFrame ==
    ASSUME BeginAny
    PROVE  /\ pc = "idle" /\ ~cancelled /\ ~cancelled' /\ phase' = "running"
           /\ pc' = "loop" /\ before' = Visible
           /\ \A g \in Groups : group[g].decisionsTotal < MaxDecisions
           /\ UNCHANGED <<group, vacated, table, file, stale, hook, unflushed>>
<1>1. PICK op, pairs, f, publish, w : Begin(op, pairs, f, publish, w)
  BY DEF BeginAny, BeginPrime, BeginProbe, BeginLink, BeginRoute
<1>2. phase' = "running"
  BY DEF BeginAny, BeginPrime, BeginProbe, BeginLink, BeginRoute
<1> QED BY <1>1, <1>2 DEF Begin, stopping

LEMMA AtomicInvInit ==
    ASSUME HandlersInit
    PROVE  AtomicInv
<1>1. Functional /\ health \in [Wans -> WanHealth]
  BY ColdHealthType DEF HandlersInit, Init, Functional
<1>2. Ready(Visible)
  BY ColdHealthType, NewGroupSound DEF HandlersInit, Init, Visible, Ready, NewGroup
<1> QED BY <1>1, <1>2 DEF HandlersInit, Init, AtomicInv, shown

LEMMA BootKeeps ==
    ASSUME AtomicInv, Boot
    PROVE  AtomicInv'
<1>1. /\ phase = "off" /\ phase' = "booted" /\ pc = "idle" /\ pc' = "idle"
      /\ health' = ColdHealth /\ group' = [g \in Groups |-> NewGroup]
      /\ vacated' = [g \in Groups |-> NoActive]
      /\ UNCHANGED <<table, hook, unflushed>>
  BY DEF Boot, Bootstrap, handler
<1>2. /\ unflushed = [g \in Groups |-> {}] /\ Functional
  BY <1>1 DEF AtomicInv
<1>3. Functional' /\ health' \in [Wans -> WanHealth]
  BY <1>1, <1>2, ColdHealthType DEF Functional
<1>4. Ready(Visible)'
  BY <1>1, <1>2, <1>3, NewGroupSound DEF Visible, Ready, NewGroup, Functional
<1> QED BY <1>1, <1>3, <1>4 DEF AtomicInv, shown

LEMMA BeginKeepsPlan ==
    ASSUME AtomicInv, BeginAny
    PROVE  AtomicInv'
<1>1. /\ pc = "idle" /\ ~cancelled /\ ~cancelled' /\ phase' = "running"
      /\ pc' = "loop" /\ before' = Visible
      /\ UNCHANGED <<group, vacated, table, file, stale, hook, unflushed>>
  BY BeginFrame
<1>2. Ready(Visible)
  BY <1>1 DEF AtomicInv, shown
<1>3. UnderWay' /\ health' \in [Wans -> WanHealth]
  BY <1>2, HandlersBegin
<1>4. Ready(shown)'
  BY <1>1, <1>2 DEF shown
<1>5. \A g \in Groups : before'.group[g].decisionsTotal < MaxDecisions
  BY <1>1, BeginFrame DEF Visible
<1>6. Functional'
  BY <1>1 DEF AtomicInv, Functional
<1> QED BY <1>1, <1>3, <1>4, <1>5, <1>6 DEF AtomicInv

LEMMA StepKeepsPlan ==
    ASSUME AtomicInv, HandlerStep
    PROVE  AtomicInv'
<1>1. /\ pc # "idle" /\ phase = "running" /\ phase' = phase /\ health' = health
      /\ cancelled' = cancelled
  BY StepFrame DEF AtomicInv
<1>2. Functional' /\ health' \in [Wans -> WanHealth]
  BY <1>1, StepFunctional DEF AtomicInv
<1>3. CASE cancelled
  BY <1>1, <1>2, <1>3 DEF AtomicInv
<1>4. CASE ~cancelled /\ pc' # "idle"
  <2>1. /\ Ready(before) /\ UnderWay
        /\ \A g \in Groups : before.group[g].decisionsTotal < MaxDecisions
    BY <1>1, <1>4 DEF AtomicInv, shown
  <2>2. UnderWay' /\ before' = before
    BY <1>4, <2>1, StaysUnderWay DEF AtomicInv
  <2>3. Ready(shown)'
    BY <1>4, <2>1, <2>2 DEF shown
  <2> QED BY <1>1, <1>2, <2>1, <2>2, <2>3 DEF AtomicInv
<1>5. CASE ~cancelled /\ pc' = "idle"
  <2>1. Ready(before) /\ UnderWay
    BY <1>1, <1>5 DEF AtomicInv, shown
  <2>2. Republish /\ retry = NoActive
    BY <1>5, StepFrame, RepublishFrame
  <2>3. PICK plan, ans, done, early, late :
            /\ plan.b = before /\ Planned(plan, late) /\ Work(plan, ans, done, early, late)
    BY <2>1, <2>2 DEF UnderWay
  <2>4. Ready(plan.b) /\ Functional /\ health \in [Wans -> WanHealth]
    BY <2>1, <2>3 DEF AtomicInv
  <2>5. Ready(Visible)'
    BY <1>1, <2>2, <2>3, <2>4, ReadyAgain
  <2>6. Ready(shown)'
    BY <1>5, <2>5 DEF shown
  <2> QED BY <1>1, <1>2, <1>5, <2>6 DEF AtomicInv
<1> QED BY <1>3, <1>4, <1>5

LEMMA ExitKeeps ==
    ASSUME AtomicInv, Exit
    PROVE  AtomicInv'
<1>1. /\ pc = "idle" /\ pc' = "idle" /\ cancelled'
      /\ health' = ColdHealth /\ group' = [g \in Groups |-> NewGroup]
      /\ vacated' = [g \in Groups |-> NoActive] /\ table' = table
      /\ hook' = [g \in Groups |-> NoHook] /\ unflushed' = [g \in Groups |-> {}]
  BY DEF Exit, Stop, handler, stopping
<1>2. Functional' /\ health' \in [Wans -> WanHealth]
  BY <1>1, ColdHealthType DEF AtomicInv, Functional
<1> QED BY <1>1, <1>2 DEF AtomicInv

LEMMA StillKeeps ==
    ASSUME AtomicInv, Cancel \/ UNCHANGED allVars
    PROVE  AtomicInv'
<1>1. CASE Cancel
  <2>1. /\ cancelled' /\ UNCHANGED <<phase, health, group, vacated, table, hook, unflushed, pc>>
    BY <1>1 DEF Cancel, vars, handler
  <2> QED BY <2>1 DEF AtomicInv, Functional
<1>2. CASE UNCHANGED allVars
  <2>1. UNCHANGED <<phase, health, gateways, group, vacated, table, file, stale, hook, unflushed>>
    BY <1>2 DEF allVars, vars
  <2>2. /\ UNCHANGED <<pc, call, todo, cur, observed, republish, retry, left, failed, old, before>>
        /\ cancelled' = cancelled
    BY <1>2 DEF allVars, handler, stopping
  <2>3. UnderWay => UnderWay'
    <3> SUFFICES ASSUME UnderWay PROVE UnderWay'
      OBVIOUS
    <3>1. PICK plan, ans, done, early, late :
            /\ plan.b = before /\ plan.h = health /\ plan.gw = gateways
            /\ Cause(plan, early, late) /\ Planned(plan, late)
            /\ IF retry = NoActive THEN Work(plan, ans, done, early, late)
                                   ELSE Opening(plan, early)
      BY DEF UnderWay
    <3>2. InTurn' = InTurn
      BY <2>2 DEF InTurn
    <3>3. \A g : Rest(plan, ans, done, g) => Rest(plan, ans, done, g)'
      BY <2>1, <3>2 DEF Rest
    <3>4. Turns(plan, done) => Turns(plan, done)'
      BY <2>1, <2>2, <3>2 DEF Turns
    <3>5. \A p : Applying(plan, p) => Applying(plan, p)'
      BY <2>1, <2>2 DEF Applying, Writing, Answered
    <3>6. Publications(plan, ans, done) => Publications(plan, ans, done)'
      BY <2>1, <2>2 DEF Publications, Publication, Publishing
    <3>7. FileSoFar(plan, ans, done, early, late) => FileSoFar(plan, ans, done, early, late)'
      BY <2>1, <2>2 DEF FileSoFar, EarlierWrite, Shows, Publishing
    <3>8. Work(plan, ans, done, early, late) => Work(plan, ans, done, early, late)'
      BY <2>2, <3>2, <3>3, <3>4, <3>5, <3>6, <3>7 DEF Work
    <3>9. Opening(plan, early) => Opening(plan, early)'
      BY <2>1, <2>2 DEF Opening
    <3> QED BY <2>1, <2>2, <3>1, <3>8, <3>9 DEF UnderWay
  <2>4. Functional => Functional'
    BY <2>1 DEF Functional
  <2>5. shown' = shown
    BY <2>1, <2>2 DEF shown, Visible
  <2> QED BY <2>1, <2>2, <2>3, <2>4, <2>5 DEF AtomicInv
<1> QED BY <1>1, <1>2

LEMMA AtomicInvStep ==
    ASSUME AtomicInv, [HandlersNext]_allVars
    PROVE  AtomicInv'
BY BootKeeps, BeginKeepsPlan, StepKeepsPlan, ExitKeeps, StillKeeps DEF HandlersNext

(***************************************************************************)
(* Every step is one of Daemon's or shows nothing.                         *)
(***************************************************************************)
LEMMA BootAtOnce ==
    ASSUME Boot
    PROVE  Atomic!Bootstrap
<1>1. pc = "idle" /\ pc' = "idle" /\ Bootstrap
  BY DEF Boot, handler
<1>2. shown = Visible /\ shown' = Visible'
  BY <1>1 DEF shown
<1>3. \A h, gw, grs : Atomic!Snapshot(h, gw, grs) = Snapshot(h, gw, grs)
  BY SameSnapshot
<1>4. /\ shown.phase = phase /\ shown.file = file /\ shown.table = table
      /\ shown.hook = hook /\ shown.unflushed = unflushed
      /\ shown'.phase = phase' /\ shown'.health = health' /\ shown'.gateways = gateways'
      /\ shown'.group = group' /\ shown'.vacated = vacated' /\ shown'.file = file'
      /\ shown'.stale = stale' /\ shown'.table = table' /\ shown'.hook = hook'
      /\ shown'.unflushed = unflushed'
  BY <1>2 DEF Visible
<1> QED BY <1>1, <1>3, <1>4, SameCold DEF Bootstrap, Atomic!Bootstrap

(* The daemon ends.                                                        *)
LEMMA ExitAtOnce ==
    ASSUME Exit
    PROVE  Atomic!Stop
<1>1. pc = "idle" /\ pc' = "idle" /\ Stop
  BY DEF Exit, handler
<1>2. shown = Visible /\ shown' = Visible'
  BY <1>1 DEF shown
<1>4. /\ shown.phase = phase /\ shown.file = file /\ shown.table = table /\ shown.stale = stale
      /\ shown'.phase = phase' /\ shown'.health = health' /\ shown'.gateways = gateways'
      /\ shown'.group = group' /\ shown'.vacated = vacated' /\ shown'.file = file'
      /\ shown'.stale = stale' /\ shown'.table = table' /\ shown'.hook = hook'
      /\ shown'.unflushed = unflushed'
  BY <1>2 DEF Visible
<1> QED BY <1>1, <1>4, SameCold DEF Stop, Atomic!Stop

LEMMA InitAtOnce ==
    ASSUME HandlersInit
    PROVE  Atomic!Init
<1>1. pc = "idle" /\ Init
  BY DEF HandlersInit
<1>2. shown = Visible
  BY <1>1 DEF shown
<1>3. \A h, gw, grs : Atomic!Snapshot(h, gw, grs) = Snapshot(h, gw, grs)
  BY SameSnapshot
<1>4. /\ shown.phase = phase /\ shown.health = health /\ shown.gateways = gateways
      /\ shown.group = group /\ shown.vacated = vacated /\ shown.file = file
      /\ shown.stale = stale /\ shown.table = table /\ shown.hook = hook
      /\ shown.unflushed = unflushed
  BY <1>2 DEF Visible
<1> QED BY <1>1, <1>3, <1>4, SameCold DEF Init, Atomic!Init

(* The last step of a handler is Daemon's, the others show nothing.        *)
LEMMA StepAtOnce ==
    ASSUME AtomicInv, HandlerStep
    PROVE  (cancelled /\ pc # "idle") \/ UNCHANGED shown \/ Atomic!Next
<1>1. pc # "idle" /\ phase = "running"
  BY StepFrame DEF AtomicInv
<1> SUFFICES ASSUME ~cancelled PROVE UNCHANGED shown \/ Atomic!Next
  BY <1>1
<1>2. /\ Ready(before) /\ UnderWay /\ Functional
      /\ \A g \in Groups : before.group[g].decisionsTotal < MaxDecisions
  BY <1>1 DEF AtomicInv, shown
<1>3. CASE pc' # "idle"
  <2>1. before' = before
    BY <1>2, <1>3, StaysUnderWay
  <2> QED BY <1>1, <1>3, <2>1 DEF shown
<1>4. CASE pc' = "idle"
  <2>1. Republish /\ retry = NoActive
    BY <1>4, StepFrame, RepublishFrame
  <2>2. PICK plan, ans, done, early, late :
            /\ plan.b = before /\ plan.h = health /\ plan.gw = gateways
            /\ Cause(plan, early, late) /\ Planned(plan, late)
            /\ Work(plan, ans, done, early, late)
    BY <1>2, <2>1 DEF UnderWay
  <2>3. Ready(plan.b)
    BY <1>2, <2>2
  <2> QED BY <1>1, <1>2, <2>1, <2>2, <2>3, HandlerAtOnce
<1> QED BY <1>3, <1>4

LEMMA NextAtOnce ==
    ASSUME AtomicInv, [HandlersNext]_allVars
    PROVE  (cancelled /\ pc # "idle") \/ UNCHANGED shown \/ Atomic!Next
<1>1. CASE Boot
  BY <1>1, BootAtOnce DEF Atomic!Next
<1>2. CASE BeginAny
  BY <1>2, BeginFrame DEF shown
<1>3. CASE HandlerStep
  BY <1>3, StepAtOnce
<1>4. CASE Cancel
  BY <1>4 DEF Cancel, vars, handler, shown, Visible
<1>5. CASE Exit
  BY <1>5, ExitAtOnce DEF Atomic!Next
<1>6. CASE UNCHANGED allVars
  BY <1>6 DEF allVars, vars, handler, shown, Visible
<1> QED BY <1>1, <1>2, <1>3, <1>4, <1>5, <1>6 DEF HandlersNext

(* Seen from outside a handler takes one step.  Whatever order its loops   *)
(* take the Groups and WANs in, whichever kernel calls and writes of       *)
(* state.json fail, it leaves Health, Groups, tables, state.json, the      *)
(* flushes and the Hooks as the one step of Daemon leaves them.  Only a    *)
(* handler in which the daemon is stopped is excepted (handleProbeResult,  *)
(* handleLinkEvent, handleRouteEvent, prime).                              *)
THEOREM HandlersAreOneStep == HandlersSpec => HandlersAreAtomic
<1>1. HandlersInit => AtomicInv /\ Atomic!Init
  BY AtomicInvInit, InitAtOnce
<1>2. AtomicInv /\ [HandlersNext]_allVars => AtomicInv'
  BY AtomicInvStep
<1>3. AtomicInv /\ [HandlersNext]_allVars =>
          [\/ cancelled /\ pc # "idle"
           \/ UNCHANGED shown
           \/ Atomic!Next]_shown
  BY NextAtOnce
<1> QED BY <1>1, <1>2, <1>3, PTL DEF HandlersSpec, HandlersAreAtomic
=============================================================================
