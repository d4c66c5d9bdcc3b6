------------------------------ MODULE Handlers ------------------------------
(***************************************************************************)
(* The event handlers of Daemon in small steps: one Group after another in *)
(* Go's random map order, one kernel call after another, and for a commit  *)
(* the conntrack flush, the write of state.json and the Hook.  The daemon  *)
(* may be stopped before any of these steps.                               *)
(*                                                                         *)
(* Apart from the handlers a stop cuts short, this specification           *)
(* implements Daemon, whose handlers take one step each.                   *)
(***************************************************************************)
EXTENDS Daemon, FiniteSets

VARIABLES
    pc,        \* idle, loop, lookup, write, call, settle, flush, state, hook, republish
    call,      \* the operation the loop calls: recompute, probe, route
    todo,      \* pairs of a WAN and a Group the loop has not reached
    cur,       \* the pair it is at
    observed,  \* Family of the route event
    republish, \* state.json is to be written after the loop
    retry,     \* the WAN whose Decisions are retried afterwards, or NoActive
    left,      \* Families to be written
    failed,    \* an ifindex lookup or route write failed, or was not made
    old,       \* Selection of the current Group before its commit
    before,    \* history: Daemon's variables when the handler began
    cancelled, \* the daemon's context ended
    atStop     \* history: Groups and tables when it ended

handler == <<pc, call, todo, cur, observed, republish, retry, left, failed, old, before>>
stopping == <<cancelled, atStop>>
allVars == <<vars, handler, stopping>>

Visible ==
    [phase |-> phase, health |-> health, gateways |-> gateways, group |-> group,
     vacated |-> vacated, table |-> table, file |-> file, stale |-> stale,
     hook |-> hook, unflushed |-> unflushed]

HandlersInit ==
    /\ Init
    /\ pc = "idle" /\ call = "recompute" /\ todo = {} /\ cur = <<NoActive, NoActive>>
    /\ observed = NoActive /\ republish = FALSE /\ retry = NoActive
    /\ left = {} /\ failed = FALSE /\ old = NoActive /\ before = NoActive
    /\ cancelled = FALSE /\ atStop = NoActive

(***************************************************************************)
(* A handler begins: the event is folded into Health or the Gateway cache. *)
(* The event loop starts none once the context has ended.                  *)
(***************************************************************************)
Begin(op, pairs, f, publish, w) ==
    /\ pc = "idle" /\ ~cancelled
    /\ \A g \in Groups : group[g].decisionsTotal < MaxDecisions
    /\ pc' = "loop"
    /\ call' = op /\ todo' = pairs /\ observed' = f
    /\ republish' = publish /\ retry' = w
    /\ before' = Visible
    /\ UNCHANGED <<cur, left, failed, old, group, vacated, table, file, stale, hook,
                   unflushed, stopping>>

Affected(flipped) == {p \in flipped \X Groups : p[1] \in Members[p[2]]}

BeginPrime(routes, links) ==
    /\ phase = "booted" /\ phase' = "running"
    /\ gateways' = [i \in Ifaces |-> [f \in Families |->
                       IF routes[i][f] = NoEntry THEN gateways[i][f] ELSE routes[i][f]]]
    /\ health' = LinkSnapshot(health, links)
    /\ Begin("recompute", Affected({w \in Wans : Healthy(health', w) # Healthy(health, w)}),
             NoActive,
             \/ \E i \in Ifaces, f \in Families : routes[i][f] # NoEntry
             \/ \E i \in Ifaces : links[i] # NoLink /\ LinkRepublish(health, i, links[i]),
             NoActive)

BeginProbe(w, f, stats) ==
    LET flipped == ProbeFlipped(health, w, f, stats)
    IN  /\ phase = "running"
        /\ health' = ProbeHealth(health, w, f, stats)
        /\ Begin("recompute", Affected(flipped), NoActive,
                 ProbeRepublish(health, w, f, stats),
                 IF w \in flipped THEN NoActive ELSE w)
        /\ UNCHANGED <<phase, gateways>>

BeginLink(i, link) ==
    /\ phase = "running"
    /\ health' = LinkHealth(health, i, link)
    /\ Begin("recompute", Affected(LinkFlipped(health, i, link)), NoActive,
             LinkRepublish(health, i, link), NoActive)
    /\ UNCHANGED <<phase, gateways>>

BeginRoute(i, f, entry) ==
    /\ phase = "running"
    /\ gateways' = [gateways EXCEPT ![i][f] = entry]
    /\ Begin("route", {w \in Wans : Interface[w] = i} \X Groups, f,
             entry = NoEntry \/ gateways[i][f] # entry, NoActive)
    /\ UNCHANGED <<phase, health>>

(***************************************************************************)
(* The loop over WANs and Groups.  It ends early once the context has      *)
(* ended, and so does the handler.                                         *)
(***************************************************************************)
CurAttempt(w, g) ==
    CASE call = "recompute" -> RecomputeAttempt(group[g], Select(g, HealthySet(health)))
      [] call = "probe" -> ProbeAttempt(group[g], w)
      [] call = "route" -> RouteAttempt(group[g], {w}, observed)

CurStep(w, g, ok) ==
    CASE call = "recompute" -> Recompute(group[g], Select(g, HealthySet(health)), ok)
      [] call = "probe" -> Probe(group[g], w, ok)
      [] call = "route" -> RouteObserved(group[g], {w}, ok)

(* Slip: the loop goes on to the other Groups after the context has ended. *)
LoopStopsNever == FALSE

LoopStops == cancelled

(* Slip: a failed write in one Group fails the next Group too.             *)
NextGroupKeepsFailure ==
    /\ pc = "loop" /\ ~LoopStops
    /\ \E p \in todo :
          LET at == CurAttempt(p[1], p[2])
          IN  /\ cur' = p
              /\ todo' = todo \ {p}
              /\ left' = ToWrite(gateways, at)
              /\ pc' = IF at.wan = NoActive THEN "settle" ELSE "lookup"
    /\ UNCHANGED <<vars, call, observed, republish, retry, failed, old, before, stopping>>

NextGroup ==
    /\ pc = "loop" /\ ~LoopStops
    /\ \E p \in todo :
          LET at == CurAttempt(p[1], p[2])
          IN  /\ cur' = p
              /\ todo' = todo \ {p}
              /\ left' = ToWrite(gateways, at)
              /\ pc' = IF at.wan = NoActive THEN "settle" ELSE "lookup"
    /\ failed' = FALSE
    /\ UNCHANGED <<vars, call, observed, republish, retry, old, before, stopping>>

EndLoop ==
    /\ pc = "loop" /\ (todo = {} \/ LoopStops)
    /\ pc' = "republish"
    /\ todo' = {}
    /\ UNCHANGED <<vars, call, cur, observed, republish, retry, left, failed, old, before,
                   stopping>>

(***************************************************************************)
(* applyRoutes, in one Family after another.  A write the kernel has been  *)
(* asked for cannot be called back.                                        *)
(***************************************************************************)
LookupIfIndex ==
    /\ pc = "lookup"
    /\ \/ pc' = "write" /\ UNCHANGED <<failed, left>>
       \/ pc' = "settle" /\ failed' = TRUE /\ left' = {}
    /\ UNCHANGED <<vars, call, todo, cur, observed, republish, retry, old, before, stopping>>

(* Slip: applyRoutes writes on although the context has ended.             *)
WritesStopNever == FALSE

WritesStop == cancelled

WriteRoute ==
    /\ pc = "write" /\ left # {} /\ ~WritesStop
    /\ pc' = "call"
    /\ UNCHANGED <<vars, call, todo, cur, observed, republish, retry, left, failed, old,
                   before, stopping>>

RouteWritten ==
    /\ pc = "call"
    /\ \E f \in left :
          /\ left' = left \ {f}
          /\ \/ /\ table' = [table EXCEPT ![cur[2]][f] =
                       RouteOf(gateways, CurAttempt(cur[1], cur[2]).wan, f)]
                /\ UNCHANGED failed
             \/ failed' = TRUE /\ UNCHANGED table
    /\ pc' = "write"
    /\ UNCHANGED <<phase, memory, file, history, call, todo, cur, observed, republish, retry,
                   old, before, stopping>>

(* The context is looked at before every probed Family, also before one    *)
(* that turns out to have no Gateway and is skipped.                       *)
Skipped == LET at == CurAttempt(cur[1], cur[2])
           IN  (at.families \cap Probed[at.wan]) \ ToWrite(gateways, at)

EndApply ==
    /\ pc = "write" /\ (left = {} \/ WritesStop)
    /\ \/ failed' = (failed \/ left # {})
       \/ WritesStop /\ Skipped # {} /\ failed' = TRUE
    /\ left' = {}
    /\ pc' = "settle"
    /\ UNCHANGED <<vars, call, todo, cur, observed, republish, retry, old, before, stopping>>

(* The Decision module takes up the outcome.                               *)
SettleGroup ==
    LET step == CurStep(cur[1], cur[2], ~failed)
    IN  /\ pc = "settle"
        /\ old' = group[cur[2]].selection
        /\ group' = [group EXCEPT ![cur[2]] = step.group]
        /\ pc' = IF step.commit THEN "flush" ELSE "loop"
        /\ UNCHANGED <<phase, health, gateways, vacated, table, file, history, call, todo,
                       cur, observed, republish, retry, left, failed, before, stopping>>

(***************************************************************************)
(* publishDecision: the flush, state.json, then the Hook.  The flush and   *)
(* the notification do nothing once the context has ended.                 *)
(***************************************************************************)
(* Slip: the Hook goes out before state.json is written.                   *)
FlushVacatedHookFirst ==
    LET g == cur[2]
        new == group[g].selection
        flushed == IF cancelled THEN {} ELSE {FlushedWan(g, old, new)}
    IN  /\ pc = "flush"
        /\ vacated' = [vacated EXCEPT ![g] = VacatedNext(g, old, new)]
        /\ unflushed' = [unflushed EXCEPT ![g] = (@ \ flushed) \cup ({new} \ {NoActive})]
        /\ pc' = "hook"
        /\ UNCHANGED <<phase, health, gateways, group, table, file, stale, hook, call, todo,
                       cur, observed, republish, retry, left, failed, old, before, stopping>>

FlushVacated ==
    LET g == cur[2]
        new == group[g].selection
        flushed == IF cancelled THEN {} ELSE {FlushedWan(g, old, new)}
    IN  /\ pc = "flush"
        /\ vacated' = [vacated EXCEPT ![g] = VacatedNext(g, old, new)]
        /\ unflushed' = [unflushed EXCEPT ![g] = (@ \ flushed) \cup ({new} \ {NoActive})]
        /\ pc' = "state"
        /\ UNCHANGED <<phase, health, gateways, group, table, file, stale, hook, call, todo,
                       cur, observed, republish, retry, left, failed, old, before, stopping>>

WriteStateSnapshot ==
    LET now == Snapshot(health, gateways, group)
    IN  \/ file' = now /\ stale' = FALSE
        \/ StateWriteFails /\ UNCHANGED file /\ stale' = (file # now)

PublishState ==
    /\ pc = "state"
    /\ WriteStateSnapshot
    /\ pc' = "hook"
    /\ UNCHANGED <<phase, memory, table, hook, unflushed, call, todo, cur, observed,
                   republish, retry, left, failed, old, before, stopping>>

NotifyHooks ==
    LET g == cur[2]
        new == group[g].selection
    IN  /\ pc = "hook"
        /\ hook' = IF Event(old, new) = "" \/ cancelled THEN hook
                   ELSE [hook EXCEPT ![g] = [event |-> Event(old, new), old |-> old,
                                             new |-> new]]
        /\ pc' = "loop"
        /\ UNCHANGED <<phase, memory, table, file, stale, unflushed, call, todo, cur,
                       observed, republish, retry, left, failed, old, before, stopping>>

(* After the loop: the republication, unless the context has ended, and    *)
(* after a probe result the retries.                                       *)
Republish ==
    /\ pc = "republish"
    /\ IF republish /\ ~cancelled THEN WriteStateSnapshot ELSE UNCHANGED <<file, stale>>
    /\ call' = IF retry = NoActive THEN "recompute" ELSE "probe"
    /\ todo' = IF retry = NoActive THEN {} ELSE {retry} \X Groups
    /\ republish' = FALSE /\ retry' = NoActive
    /\ observed' = NoActive /\ cur' = <<NoActive, NoActive>>
    /\ old' = NoActive /\ failed' = FALSE
    /\ IF retry = NoActive THEN pc' = "idle" /\ before' = NoActive
                           ELSE pc' = "loop" /\ UNCHANGED before
    /\ UNCHANGED <<phase, memory, table, hook, unflushed, left, stopping>>

(***************************************************************************)
(* The daemon starts, is stopped, and ends once its handler has returned.  *)
(***************************************************************************)
Boot ==
    /\ pc = "idle"
    /\ Bootstrap
    /\ cancelled' = FALSE /\ atStop' = NoActive
    /\ UNCHANGED handler

Cancel ==
    /\ phase = "running" /\ ~cancelled
    /\ cancelled' = TRUE
    /\ atStop' = [group |-> group, table |-> table]
    /\ UNCHANGED <<vars, handler>>

Exit ==
    /\ pc = "idle" /\ cancelled
    /\ Stop
    /\ UNCHANGED <<handler, stopping>>

BeginAny ==
    \/ \E routes \in {r \in [Ifaces -> [Families -> CacheEntry]] :
                         \A i \in Ifaces, f \in Families : r[i][f] \in Observable(i)},
          links \in [Ifaces -> LinkStates \cup {NoLink}] : BeginPrime(routes, links)
    \/ \E w \in Wans : \E f \in Probed[w], stats \in Stats : BeginProbe(w, f, stats)
    \/ \E i \in Ifaces, link \in LinkStates : BeginLink(i, link)
    \/ \E i \in Ifaces : \E f \in Families, entry \in Observable(i) : BeginRoute(i, f, entry)

HandlerStep ==
    \/ NextGroup \/ EndLoop
    \/ LookupIfIndex \/ WriteRoute \/ RouteWritten \/ EndApply \/ SettleGroup
    \/ FlushVacated \/ PublishState \/ NotifyHooks \/ Republish

HandlersNext == Boot \/ BeginAny \/ HandlerStep \/ Cancel \/ Exit

HandlersSpec == HandlersInit /\ [][HandlersNext]_allVars
-----------------------------------------------------------------------------
(* Seen from outside a handler takes one step: whatever order the loops    *)
(* take the Groups and WANs in, and wherever a kernel call or a write of   *)
(* state.json fails, the handler leaves what the one step of Daemon        *)
(* leaves (handleProbeResult, handleLinkEvent, handleRouteEvent, prime).   *)
(* A handler during which the daemon is stopped is the exception.          *)
shown == IF pc = "idle" THEN Visible ELSE before
Atomic == INSTANCE Daemon WITH
              phase <- shown.phase, health <- shown.health, gateways <- shown.gateways,
              group <- shown.group, vacated <- shown.vacated, table <- shown.table,
              file <- shown.file, stale <- shown.stale, hook <- shown.hook,
              unflushed <- shown.unflushed
HandlersAreAtomic ==
    /\ Atomic!Init
    /\ [][\/ cancelled /\ pc # "idle"
          \/ UNCHANGED shown
          \/ Atomic!Next]_shown

(* A Hook that looks into state.json finds the Selection it is told of,    *)
(* unless writing the file failed (publishDecision writes before it        *)
(* notifies).                                                              *)
HookFindsState ==
    [][\A g \in Groups : hook'[g] \notin {hook[g], NoHook} =>
          stale \/ file.groups[g].selection = hook'[g].new]_allVars

(* Once the daemon is stopped no further Group decides: at most the one    *)
(* whose turn it was still changes.  A down, which needs no Apply, would   *)
(* otherwise commit on the way out (recomputeAffectedGroups,               *)
(* retryGroupDecisions).                                                   *)
StopEndsDecisions ==
    cancelled /\ phase = "running" =>
        Cardinality({g \in Groups : group[g] # atStop.group[g]}) <= 1

(* Once the daemon is stopped it finishes the route write it is in and     *)
(* asks the kernel for no other (applyRoutes, WriteDefault).               *)
StopEndsWrites ==
    cancelled /\ phase = "running" =>
        Cardinality({p \in Groups \X Families :
                        table[p[1]][p[2]] # atStop.table[p[1]][p[2]]}) <= 1

(* A daemon stopped inside a handler finishes the kernel call it is in,    *)
(* then writes no other route and begins no other Decision (applyRoutes    *)
(* and the handlers' loops look at the context).                           *)
StopEndsHandler == StopEndsDecisions /\ StopEndsWrites
-----------------------------------------------------------------------------
(* "The handler finishes the kernel call in progress, then applies nothing *)
(* more: no further route write, Decision, state.json write, or Hook"      *)
(* (docs/specs/failover.md).                                               *)
StopEndsPublication == [][cancelled /\ phase = "running" => file' = file]_allVars
=============================================================================
