------------------------------- MODULE Daemon -------------------------------
(***************************************************************************)
(* The failover daemon: the event handlers that run one at a time on the   *)
(* event-loop goroutine and turn probe results, link events and route      *)
(* events into Decisions, kernel routes, state.json and Hooks.             *)
(*                                                                         *)
(* A handler is one action.  What it asks of the kernel may fail, so each  *)
(* action takes the kernel's answers as a parameter, one per Group: a      *)
(* handler makes at most one Apply attempt in a Group.  The loops over     *)
(* Groups follow Go's random map order, but a Group's step reads and       *)
(* writes only its own Decision module and its own table, so taking all of *)
(* them at once gives what every order gives.                              *)
(*                                                                         *)
(* Events arrive here in any order and with any content of the constants'  *)
(* small sets: the probers and subscribers that produce them are not part  *)
(* of this module.                                                         *)
(***************************************************************************)
EXTENDS Health, GroupDecision

CONSTANTS
    Gateways,         \* next-hop addresses
    Defaults,         \* Defaults[i]: next hops a default through i can have
    NoEntry,          \* the Gateway cache has no entry
    ScopeLink,        \* a default route without a next hop (nil Gateway)
    NoRoute,          \* nobody wrote this Group-table default yet
    Removed,          \* the kernel removed the default that was there
    NoHook,           \* no Hook notification yet
    NoLink,           \* the startup snapshot found no such link
    LinkStates,       \* what a link event can report: carrier and operstate
    Stats,            \* what a probe result can report: filled, loss, rtt
    StateWriteFails,  \* whether writing state.json may fail
    MaxDecisions      \* bound on decisionsTotal, for model checking

(* A Group's table holds per Family a default route or none; a Hook tells  *)
(* of one change of Selection.                                             *)
Route == [dev : Ifaces, via : Gateways \cup {ScopeLink}]
Hook == [event : {"up", "down", "switch"}, old : Active, new : Active]

ASSUME DaemonAssumption ==
    /\ LinkStates \subseteq [carrier : Carriers, operstate : Operstates]
    /\ StateWriteFails \in BOOLEAN
    /\ {NoEntry, ScopeLink} \cap Gateways = {}
    /\ NoEntry # ScopeLink
    /\ {NoRoute, Removed} \cap Route = {}
    /\ NoHook \notin Hook
    /\ Defaults \in [Ifaces -> SUBSET (Gateways \cup {ScopeLink})]
    /\ MaxDecisions \in Nat

VARIABLES
    phase,      \* "off", "booted" (rules ensured) or "running"
    health,     \* WAN Health: Wans.byName
    gateways,   \* Gateway cache: gateways[i][f]
    group,      \* Decision module per Group
    vacated,    \* WAN a down left without a successor, NoActive if none
    table,      \* kernel: the default route in g's table, table[g][f]
    file,       \* content of state.json
    stale,      \* history: a failed write left state.json behind
    hook,       \* history: the last Hook notification of each Group
    unflushed   \* history: WANs that carried g, without a flush since

memory == <<health, gateways, group, vacated>>
history == <<stale, hook, unflushed>>
vars == <<phase, health, gateways, group, vacated, table, file,
          stale, hook, unflushed>>

CacheEntry == Gateways \cup {ScopeLink, NoEntry}

(***************************************************************************)
(* State: what state.json holds.  A Gateway is null unless the cache holds *)
(* an address.                                                             *)
(***************************************************************************)
Address(entry) == IF entry \in Gateways THEN entry ELSE NoEntry

GatewayView(gw) ==
    [w \in Wans |-> [f \in Families |-> Address(gw[Interface[w]][f])]]

GroupView(gr) == [selection |-> gr.selection,
                  decisionsTotal |-> gr.decisionsTotal]

Snapshot(h, gw, grs) ==
    [wans |-> HealthView(h), gateways |-> GatewayView(gw),
     groups |-> [g \in Groups |-> GroupView(grs[g])]]

(***************************************************************************)
(* Apply: the default routes of one WAN in one Group's table.  The kernel  *)
(* answers the ifindex lookup and each route write.  A Family without a    *)
(* known Gateway is skipped, which is not a failure; a failed Family does  *)
(* not stop the others.                                                    *)
(***************************************************************************)
KernelAnswers ==
    {[ifindex |-> FALSE, writes |-> {}]}
        \cup {[ifindex |-> TRUE, writes |-> F] : F \in SUBSET Families}
AllWork == [ifindex |-> TRUE, writes |-> Families]

Routable(gw, w, f) == PointToPoint[w] \/ gw[Interface[w]][f] \in Gateways

RouteOf(gw, w, f) ==
    [dev |-> Interface[w],
     via |-> IF PointToPoint[w] THEN ScopeLink ELSE gw[Interface[w]][f]]

ToWrite(gw, at) ==
    IF at.wan = NoActive
      THEN {}
      ELSE {f \in at.families \cap Probed[at.wan] : Routable(gw, at.wan, f)}

ApplyOk(gw, at, answer) ==
    at.wan = NoActive
        \/ (answer.ifindex /\ ToWrite(gw, at) \subseteq answer.writes)

Applied(gw, at, answer, row) ==
    [f \in Families |->
        IF answer.ifindex /\ f \in ToWrite(gw, at) \cap answer.writes
          THEN RouteOf(gw, at.wan, f) ELSE row[f]]

(***************************************************************************)
(* Publication of what the handlers did to the Groups.  at[g] is g's Apply *)
(* attempt and step[g] what its Decision module returned.                  *)
(***************************************************************************)
(* Slip: an up flushes nothing, not even the WAN a down vacated.           *)
FlushedWanSwitchOnly(g, old, new) ==
    IF Event(old, new) = "switch" THEN old ELSE NoActive

FlushedWan(g, old, new) ==
    CASE Event(old, new) = "switch" -> old
      [] Event(old, new) = "up" /\ vacated[g] # new -> vacated[g]
      [] OTHER -> NoActive

VacatedNext(g, old, new) ==
    CASE Event(old, new) = "down" -> old
      [] Event(old, new) = "up" -> NoActive
      [] OTHER -> vacated[g]

(* state.json after a handler that wrote it before it came to the Groups   *)
(* (early), at every commit, and after the Groups (late).  With no failed  *)
(* write the last one shows everything.  A write that fails leaves the     *)
(* file as it is, which may be an earlier write of the same handler, made  *)
(* when the Groups in S had been handled and the last of them had          *)
(* committed.                                                              *)
WriteState(step, early, late) ==
    LET new == Snapshot(health', gateways', group')
        during(S) == Snapshot(health', gateways',
                              [g \in Groups |-> IF g \in S THEN group'[g]
                                                           ELSE group[g]])
        handled == {S \in SUBSET Groups : \/ \E g \in S : step[g].commit
                                          \/ S = {} /\ early}
        writes == early \/ late \/ \E g \in Groups : step[g].commit
    IN  \/ /\ writes
           /\ file' = new
           /\ stale' = FALSE
        \/ /\ ~writes
           /\ UNCHANGED <<file, stale>>
        \/ /\ writes /\ StateWriteFails
           /\ file' \in {file} \cup {during(S) : S \in handled}
           /\ file' # new
           /\ stale' = TRUE

(* The first conjunct fixes the kernel's answers to what it is not asked,  *)
(* which make no difference.                                               *)
Settle(at, step, answer, early, late) ==
    /\ \A g \in Groups :
          /\ at[g].wan = NoActive => answer[g].ifindex
          /\ answer[g].ifindex =>
                Families \ ToWrite(gateways', at[g]) \subseteq answer[g].writes
    /\ group' = [g \in Groups |-> step[g].group]
    /\ \A g \in Groups : group'[g].decisionsTotal <= MaxDecisions
    /\ table' = [g \in Groups |-> Applied(gateways', at[g], answer[g], table[g])]
    /\ vacated' = [g \in Groups |->
                      VacatedNext(g, group[g].selection, group'[g].selection)]
    /\ unflushed' = [g \in Groups |->
          (unflushed[g] \ {FlushedWan(g, group[g].selection, group'[g].selection)})
              \cup ({group'[g].selection} \ {NoActive})]
    /\ WriteState(step, early, late)
    /\ hook' = [g \in Groups |->
          LET old == group[g].selection
              new == group'[g].selection
          IN  IF Event(old, new) = "" THEN hook[g]
              ELSE [event |-> Event(old, new), old |-> old, new |-> new]]

(* Slip: the Groups are recomputed on the Health before the event.         *)
RecomputeAffectedEarly(flipped, republish, answer) ==
    LET affected(g) == Members[g] \cap flipped # {}
        target(g) == Select(g, HealthySet(health))
        at == [g \in Groups |-> IF affected(g)
                                  THEN RecomputeAttempt(group[g], target(g))
                                  ELSE NoAttempt]
        ok(g) == ApplyOk(gateways', at[g], answer[g])
        step == [g \in Groups |-> IF affected(g)
                                    THEN Recompute(group[g], target(g), ok(g))
                                    ELSE Idle(group[g])]
    IN  Settle(at, step, answer, FALSE, republish)

(* Recompute of every Group with a flipped Member, on the Health the event *)
(* left.  The code recomputes a Group once per flipped Member; after the   *)
(* first, the Group's intent is the target and the others return at once.  *)
RecomputeAffected(flipped, republish, answer) ==
    LET affected(g) == Members[g] \cap flipped # {}
        target(g) == Select(g, HealthySet(health'))
        at == [g \in Groups |-> IF affected(g)
                                  THEN RecomputeAttempt(group[g], target(g))
                                  ELSE NoAttempt]
        ok(g) == ApplyOk(gateways', at[g], answer[g])
        step == [g \in Groups |-> IF affected(g)
                                    THEN Recompute(group[g], target(g), ok(g))
                                    ELSE Idle(group[g])]
    IN  Settle(at, step, answer, FALSE, republish)

RetryDecisions(w, republish, answer) ==
    LET at == [g \in Groups |-> ProbeAttempt(group[g], w)]
        ok(g) == ApplyOk(gateways', at[g], answer[g])
        step == [g \in Groups |-> Probe(group[g], w, ok(g))]
    IN  Settle(at, step, answer, republish, FALSE)

(***************************************************************************)
(* The handlers.                                                           *)
(***************************************************************************)
Bootstrap ==
    /\ phase = "off"
    /\ phase' = "booted"
    /\ health' = ColdHealth
    /\ gateways' = [i \in Ifaces |-> [f \in Families |-> NoEntry]]
    /\ group' = [g \in Groups |-> NewGroup]
    /\ vacated' = [g \in Groups |-> NoActive]
    /\ \/ file' = Snapshot(health', gateways', group') /\ stale' = FALSE
       \/ StateWriteFails /\ UNCHANGED file /\ stale' = TRUE
    /\ UNCHANGED <<table, hook, unflushed>>

(* The startup snapshots: every Gateway first, then every link as one      *)
(* batch, then one recompute.                                              *)
LinkSnapshot(h, links) ==
    [w \in Wans |-> IF links[Interface[w]] = NoLink THEN h[w]
                    ELSE LinkHealth(h, Interface[w], links[Interface[w]])[w]]

Prime(routes, links, answer) ==
    /\ phase = "booted"
    /\ phase' = "running"
    /\ gateways' = [i \in Ifaces |-> [f \in Families |->
                       IF routes[i][f] = NoEntry THEN gateways[i][f]
                                                 ELSE routes[i][f]]]
    /\ health' = LinkSnapshot(health, links)
    /\ RecomputeAffected(
          {w \in Wans : Healthy(health', w) # Healthy(health, w)},
          \/ \E i \in Ifaces, f \in Families : routes[i][f] # NoEntry
          \/ \E i \in Ifaces : /\ links[i] # NoLink
                               /\ LinkRepublish(health, i, links[i]),
          answer)

HandleProbeResult(w, f, stats, answer) ==
    LET flipped == ProbeFlipped(health, w, f, stats)
        republish == ProbeRepublish(health, w, f, stats)
    IN  /\ phase = "running"
        /\ health' = ProbeHealth(health, w, f, stats)
        /\ UNCHANGED <<phase, gateways>>
        /\ \/ w \in flipped /\ RecomputeAffected(flipped, republish, answer)
           \/ w \notin flipped /\ RetryDecisions(w, republish, answer)

HandleLinkEvent(i, link, answer) ==
    /\ phase = "running"
    /\ health' = LinkHealth(health, i, link)
    /\ UNCHANGED <<phase, gateways>>
    /\ RecomputeAffected(LinkFlipped(health, i, link),
                         LinkRepublish(health, i, link), answer)

(* entry is the Gateway of an added default, ScopeLink if it has none, or  *)
(* NoEntry for a deleted one.                                              *)
HandleRouteEvent(i, f, entry, answer) ==
    LET on == {w \in Wans : Interface[w] = i}
        at == [g \in Groups |-> RouteAttempt(group[g], on, f)]
        ok(g) == ApplyOk(gateways', at[g], answer[g])
        step == [g \in Groups |-> RouteObserved(group[g], on, ok(g))]
        changed == entry = NoEntry \/ gateways[i][f] # entry
    IN  /\ phase = "running"
        /\ gateways' = [gateways EXCEPT ![i][f] = entry]
        /\ UNCHANGED <<phase, health>>
        /\ Settle(at, step, answer, FALSE, changed)

(* The process ends between two handlers, for whatever reason.  Routes and *)
(* state.json outlive it; everything it remembered is gone.                *)
Stop ==
    /\ phase # "off"
    /\ phase' = "off"
    /\ health' = ColdHealth
    /\ gateways' = [i \in Ifaces |-> [f \in Families |-> NoEntry]]
    /\ group' = [g \in Groups |-> NewGroup]
    /\ vacated' = [g \in Groups |-> NoActive]
    /\ hook' = [g \in Groups |-> NoHook]
    /\ unflushed' = [g \in Groups |-> {}]
    /\ UNCHANGED <<table, file, stale>>

(* The kernel drops a device's routes when it goes down, in every table,   *)
(* without a notification the daemon would see.                            *)
KernelFlush(i, f) ==
    /\ \E g \in Groups : table[g][f] \notin {NoRoute, Removed} /\ table[g][f].dev = i
    /\ table' = [g \in Groups |->
          IF table[g][f] \notin {NoRoute, Removed} /\ table[g][f].dev = i
            THEN [table[g] EXCEPT ![f] = Removed] ELSE table[g]]
    /\ UNCHANGED <<phase, memory, file, history>>

(***************************************************************************)
(* Specification.                                                          *)
(***************************************************************************)
Init ==
    /\ phase = "off"
    /\ health = ColdHealth
    /\ gateways = [i \in Ifaces |-> [f \in Families |-> NoEntry]]
    /\ group = [g \in Groups |-> NewGroup]
    /\ vacated = [g \in Groups |-> NoActive]
    /\ table = [g \in Groups |-> [f \in Families |-> NoRoute]]
    /\ file = Snapshot(health, gateways, group)
    /\ stale = FALSE
    /\ hook = [g \in Groups |-> NoHook]
    /\ unflushed = [g \in Groups |-> {}]

Answers == [Groups -> KernelAnswers]
Observable(i) == Defaults[i] \cup {NoEntry}

PrimeAny ==
    \E routes \in {r \in [Ifaces -> [Families -> CacheEntry]] :
                      \A i \in Ifaces, f \in Families : r[i][f] \in Observable(i)},
       links \in [Ifaces -> LinkStates \cup {NoLink}], answer \in Answers :
        Prime(routes, links, answer)

ProbeAny ==
    \E w \in Wans : \E f \in Probed[w], stats \in Stats, answer \in Answers :
        HandleProbeResult(w, f, stats, answer)

LinkAny ==
    \E i \in Ifaces, link \in LinkStates, answer \in Answers :
        HandleLinkEvent(i, link, answer)

RouteAny ==
    \E i \in Ifaces : \E f \in Families, entry \in Observable(i), answer \in Answers :
        HandleRouteEvent(i, f, entry, answer)

Next ==
    \/ Bootstrap
    \/ PrimeAny
    \/ ProbeAny
    \/ LinkAny
    \/ RouteAny
    \/ Stop
    \/ \E i \in Ifaces, f \in Families : KernelFlush(i, f)

Spec == Init /\ [][Next]_vars

(* Fairness.  Each WAN's probers report a cycle again and again, the event *)
(* loop takes every queued result in the end, and a kernel that rejects    *)
(* route writes does not do so for ever.                                   *)
ProbeWorks(w) ==
    \E f \in Probed[w], stats \in Stats :
        HandleProbeResult(w, f, stats, [g \in Groups |-> AllWork])

FairSpec == Spec /\ \A w \in Wans : WF_vars(ProbeWorks(w))

(* networkd or a DHCP client adds the main-table default of an interface   *)
(* again after the kernel flushed it, and the daemon sees the addition.    *)
DefaultReadded(i, f) ==
    \E entry \in Defaults[i] : HandleRouteEvent(i, f, entry, [g \in Groups |-> AllWork])

Readded == \A i \in Ifaces, f \in Families : WF_vars(DefaultReadded(i, f))
-----------------------------------------------------------------------------
(* Every variable has the shape the program gives it; a down is never left *)
(* pending and a Repair is due only on a WAN that carries the Group        *)
(* (decision.Group, gatewayCache, daemon.vacated).                         *)
TypeOK ==
    /\ phase \in {"off", "booted", "running"}
    /\ health \in [Wans -> WanHealth]
    /\ gateways \in [Ifaces -> [Families -> CacheEntry]]
    /\ group \in [Groups -> GroupState]
    /\ \A g \in Groups : group[g].repairDue => group[g].selection # NoActive
    /\ vacated \in [Groups -> Active]
    /\ table \in [Groups -> [Families -> Route \cup {NoRoute, Removed}]]
    /\ stale \in BOOLEAN
    /\ hook \in [Groups -> Hook \cup {NoHook}]
    /\ unflushed \in [Groups -> SUBSET Wans]

(* Between two handlers what a Group intends, its pending Decision or else *)
(* its Selection, is what the Strategy chooses on the current Health.  So  *)
(* a retry, which applies the pending Decision without consulting Health   *)
(* again, never moves a Group onto an unhealthy or a less preferred WAN    *)
(* (handleProbeResult, recomputeAffectedGroups, Group.Recompute).          *)
IntentFollowsHealth ==
    \A g \in Groups : Intent(group[g]) = Select(g, HealthySet(health))

(* Between two handlers state.json shows the current carrier, Health and   *)
(* Gateways of every WAN and the Selection and Decision count of every     *)
(* Group, unless writing it failed (publishHealthChange, publishDecision,  *)
(* handleRouteEvent decide which events rewrite it).                       *)
StateFileCurrent ==
    phase # "off" /\ ~stale => file = Snapshot(health, gateways, group)

(* A Group with nothing pending and no Repair due has, for every Family    *)
(* its Selection probes and knows a route for, exactly that route in its   *)
(* table, unless the kernel removed it behind the daemon's back            *)
(* (applyRoutes, Group.refresh, handleRouteEvent).                         *)
Converged(gr, gw, row) ==
    LET w == gr.selection
    IN  /\ w # NoActive
        /\ gr.pending = NoPending
        /\ ~gr.repairDue
        => \A f \in Probed[w] :
              Routable(gw, w, f) => row[f] \in {RouteOf(gw, w, f), Removed}

TableConverged == \A g \in Groups : Converged(group[g], gateways, table[g])

(* The last Hook of a Group names its Selection, and a Group without a     *)
(* Hook has none: no change of Selection goes unreported and none is       *)
(* reported before its Apply succeeded (publishDecision, notifyHooks).     *)
HookNamesSelection ==
    \A g \in Groups :
        group[g].selection = IF hook[g] = NoHook THEN NoActive ELSE hook[g].new

(* Of the WANs that were a Group's Selection since the daemon started,     *)
(* only the current one, or the one a down vacated, has not been flushed   *)
(* since; a flush is best effort, so this is about the attempt             *)
(* (publishDecision, daemon.vacated).                                      *)
VacatedFlushed ==
    \A g \in Groups :
        unflushed[g] \subseteq
            IF group[g].selection = NoActive THEN {vacated[g]}
                                             ELSE {group[g].selection}

(* The daemon keeps the promise of Failover: seen from outside, each       *)
(* handler leaves a Selection alone or moves it to what the Strategy wants *)
(* on the Health the handler left (Group.Recompute, Group.Probe,           *)
(* Group.RouteObserved under the daemon's handlers).                       *)
wanted == [g \in Groups |-> Select(g, HealthySet(health))]
selected == [g \in Groups |-> group[g].selection]
Promise == INSTANCE Failover WITH want <- wanted, sel <- selected

KeepsPromise == Promise!Spec

(* A Decision whose Apply failed is retried until it commits or is         *)
(* superseded, so no Selection stays behind for ever (handleProbeResult,   *)
(* retryGroupDecisions).                                                   *)
SelectionConverges == Promise!Convergence

(* A due Repair is carried out or overtaken by a commit (Group.Probe,      *)
(* Group.refresh).                                                         *)
RepairHappens == \A g \in Groups : group[g].repairDue ~> ~group[g].repairDue

(* The kernel flushed a Group-table route of g's Selection w, whose        *)
(* interface has a main-table default that can be observed.                *)
Flushed(g, w, f) ==
    /\ group[g].selection = w /\ f \in Probed[w] /\ Defaults[Interface[w]] # {}
    /\ table[g][f] = Removed

(* A Group-table route of the Selection that the kernel flushed without a  *)
(* notification comes back once the main-table default is added again,     *)
(* even with the Gateway the cache already held, or the Group moves on     *)
(* (handleRouteEvent, Group.RouteObserved).                                *)
FlushedRouteRestored ==
    Readded => \A g \in Groups, w \in Wans, f \in Families :
                   Flushed(g, w, f) ~> (group[g].selection # w \/ table[g][f] # Removed)
=============================================================================
