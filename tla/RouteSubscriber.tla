--------------------------- MODULE RouteSubscriber ---------------------------
(***************************************************************************)
(* Gateway discovery: the route subscriber between the kernel's main       *)
(* routing table and the daemon's Gateway cache.                           *)
(*                                                                         *)
(* A notification is an invalidation.  For every watched interface it      *)
(* touches, the subscriber reads the table again and reports the preferred *)
(* default it finds, so a queue of old notifications cannot replay         *)
(* history.  Notifications are queued from the subscription on, the        *)
(* snapshot is read after it, and the kernel changes the table between any *)
(* two steps.                                                              *)
(***************************************************************************)
EXTENDS Naturals, Sequences, SequencesExt, FiniteSetsExt

CONSTANTS
    Ifaces,        \* interface names
    Watched,       \* the interfaces of the configured WANs
    Indexes,       \* interface indexes; the kernel does not reuse one
    StartNames,    \* the name of each index at first, Absent if none yet
    Absent,        \* no live link has this index
    Families,      \* "v4" and "v6"
    Routes,        \* [family, main, metric, paths]; paths: Seq([dev, via])
    NoEntry,       \* no Gateway is known
    NoRoute,       \* no route is being deleted
    DumpAttempts,  \* reads of one dump before the subscriber gives up
    OutCapacity,   \* capacity of the RouteEvent channel
    Backlog,       \* notifications that fit before the kernel overruns
    MidDelete,     \* whether a delete may be under way at the subscription
    MaxChanges     \* bound on the kernel's changes, for model checking

ASSUME RouteSubscriberAssumption ==
    /\ Watched \subseteq Ifaces
    /\ Absent \notin Ifaces
    /\ StartNames \in [Indexes -> Ifaces \cup {Absent}]
    /\ \A x, y \in Indexes : StartNames[x] = StartNames[y] => x = y \/ StartNames[x] = Absent
    /\ \A r \in Routes :
          /\ r.family \in Families /\ r.main \in BOOLEAN /\ r.paths # <<>>
          /\ \A k \in DOMAIN r.paths : k \in Nat /\ r.paths[k].dev \in Indexes
    /\ IsFiniteSet(Routes) /\ NoRoute \notin Routes
    /\ {DumpAttempts, OutCapacity, Backlog} \subseteq Nat \ {0}
    /\ MidDelete \in BOOLEAN /\ MaxChanges \in Nat

VARIABLES
    names,      \* kernel: live name of each index
    used,       \* kernel: indexes given out so far
    table,      \* kernel: default and other routes of each Family, a dump
    unlinking,  \* kernel: the IPv4 route announced as deleted, still listed
    updates,    \* notifications the subscriber has not read
    overrun,    \* the kernel dropped a notification; the socket failed
    ifaceCache, \* names the subscriber resolved
    pc,         \* off, snapshot, idle, reconcile, send, exited
    snapshot,   \* the startup snapshot, per watched interface and Family
    todo,       \* Families to dump, or next-hops to reconcile
    upd,        \* the notification in hand
    attempt,    \* the read of the current dump
    event,      \* the RouteEvent in hand
    out,        \* the RouteEvent channel
    primed,     \* the daemon took the snapshot
    gateways,   \* the daemon's Gateway cache
    silent,     \* history: what the kernel changed without a notification
    changes     \* changes the kernel made

kernel == <<names, used, table, unlinking, changes>>
queues == <<updates, overrun, out>>
sub == <<ifaceCache, pc, snapshot, todo, upd, attempt, event>>
vars == <<kernel, queues, sub, primed, gateways, silent>>

Empty == [i \in Watched |-> [f \in Families |-> NoEntry]]
NoUpdate == [type |-> "new", route |-> NoRoute]
NoEvent == <<>>

(***************************************************************************)
(* A dump lists routes in an order: it is the set of pairs of a route and  *)
(* one that is not listed before it.                                       *)
(***************************************************************************)
RoutesOf(dump) == {r \in Routes : <<r, r>> \in dump}
Without(dump, R) == {p \in dump : p[1] \notin R /\ p[2] \notin R}
Insert(dump, before, r) ==
    dump \cup (before \X {r}) \cup ({r} \X ((RoutesOf(dump) \cup {r}) \ before))
Replace(dump, old, r) ==
    LET put(q) == IF q = old THEN r ELSE q
    IN  {<<put(p[1]), put(p[2])>> : p \in dump}

(***************************************************************************)
(* Pure parts: names, candidates, the preferred default.                   *)
(***************************************************************************)
Uses(r, x) == r.main /\ \E k \in DOMAIN r.paths : r.paths[k].dev = x

Learn(cache, R) ==
    [x \in Indexes |-> IF cache[x] = Absent /\ \E r \in R : Uses(r, x)
                         THEN names[x] ELSE cache[x]]

(* Next-hops of r on interface i under the naming n.  The first one counts.*)
Hops(r, i, n) == {k \in DOMAIN r.paths : r.main /\ n[r.paths[k].dev] = i}

Candidates(r, n) ==
    {k \in DOMAIN r.paths :
        \E i \in Watched : Hops(r, i, n) # {} /\ k = Min(Hops(r, i, n))}

(* The lower metric, ties to the route listed first; of one route the      *)
(* first next-hop.                                                         *)
Preferred(dump, c, d) ==
    \/ c[1].metric < d[1].metric
    \/ c[1].metric = d[1].metric /\ c[1] # d[1] /\ <<c[1], d[1]>> \in dump
    \/ c[1] = d[1] /\ c[2] <= d[2]

(* The Gateway of i's preferred default in a dump.                         *)
OnInterface(dump, i, n) == UNION {{r} \X Hops(r, i, n) : r \in RoutesOf(dump)}

SelectDefault(dump, i, n) ==
    LET on == OnInterface(dump, i, n)
        first == {c \in on : \A d \in on : Preferred(dump, c, d)}
        best == CHOOSE c \in first : TRUE
    IN  IF on = {} THEN NoEntry ELSE best[1].paths[best[2]].via

(* Slip: the read keeps the route the notification says is deleted.        *)
ReconcileListed(dump, u, i, n) == SelectDefault(dump, i, n)

Reconcile(dump, u, i, n) ==
    SelectDefault(IF u.type = "del" THEN Without(dump, {u.route}) ELSE dump, i, n)

(***************************************************************************)
(* The kernel.  An IPv4 default is announced as deleted before it leaves   *)
(* the table, both under RTNL; IPv6 unlinks first.  A replace announces    *)
(* only the new route.  Taking a device away drops its IPv4 routes         *)
(* without a word.                                                         *)
(***************************************************************************)
Change ==
    /\ changes < MaxChanges
    /\ unlinking = NoRoute
    /\ changes' = changes + 1

(* Queueing us for the subscription; what does not fit is lost, and the    *)
(* library then gives the subscription up.                                 *)
Notify(us) ==
    LET room == IF overrun THEN 0 ELSE Backlog - Len(updates)
    IN  /\ updates' = IF pc = "off" THEN updates
                      ELSE updates \o SubSeq(us, 1, Min({room, Len(us)}))
        /\ overrun' = (overrun \/ (pc # "off" /\ Len(us) > room))
        /\ UNCHANGED out

Live(r) == \A k \in DOMAIN r.paths : names[r.paths[k].dev] # Absent
Listed(f) == RoutesOf(table[f])
NamesOf(r) == {names[r.paths[k].dev] : k \in DOMAIN r.paths}

AddRoute(r, before) ==
    LET f == r.family
    IN  /\ Change
        /\ Live(r) /\ r \notin Listed(f)
        /\ before \subseteq Listed(f) /\ \A p \in table[f] : p[2] \in before => p[1] \in before
        /\ table' = [table EXCEPT ![f] = Insert(@, before, r)]
        /\ Notify(<<[type |-> "new", route |-> r]>>)
        /\ UNCHANGED <<names, used, unlinking, sub, primed, gateways, silent>>

ReplaceRoute(old, r) ==
    LET f == old.family
    IN  /\ Change
        /\ old \in Listed(f)
        /\ Live(r) /\ r \notin Listed(f) /\ r.family = f
        /\ r.metric = old.metric /\ r.main = old.main
        /\ table' = [table EXCEPT ![f] = Replace(@, old, r)]
        /\ silent' = silent \cup ((NamesOf(old) \ NamesOf(r)) \X {f})
        /\ Notify(<<[type |-> "new", route |-> r]>>)
        /\ UNCHANGED <<names, used, unlinking, sub, primed, gateways>>

DelRoute(r) ==
    LET f == r.family
    IN  /\ Change
        /\ r \in Listed(f)
        /\ \/ /\ f = "v4"
              /\ unlinking' = r
              /\ UNCHANGED table
           \/ /\ f # "v4"
              /\ table' = [table EXCEPT ![f] = Without(@, {r})]
              /\ UNCHANGED unlinking
        /\ Notify(<<[type |-> "del", route |-> r]>>)
        /\ UNCHANGED <<names, used, sub, primed, gateways, silent>>

Unlink ==
    /\ unlinking # NoRoute
    /\ table' = [table EXCEPT !["v4"] = Without(@, {unlinking})]
    /\ unlinking' = NoRoute
    /\ UNCHANGED <<names, used, changes, queues, sub, primed, gateways, silent>>

(* Device x goes down, or goes away: its routes leave with it.  A route    *)
(* that spans other devices too stays listed, its next-hop on x dead, when *)
(* x goes down, unless its other next-hops are dead already; when x goes   *)
(* away the kernel drops an IPv4 route whole.  An IPv6 one would lose its  *)
(* next-hop on x only; no Routes value stands for what is left of it, and  *)
(* that case is not modelled.                                              *)
Through(x, r) == \A k \in DOMAIN r.paths : r.paths[k].dev = x
AllListed == UNION {Listed(f) : f \in Families}
Spanning(x) ==
    {r \in AllListed : ~Through(x, r) /\ \E k \in DOMAIN r.paths : r.paths[k].dev = x}

FlushDevice(x, gone, broken) ==
    LET flushed == {r \in AllListed : Through(x, r)} \cup broken
        loud == {r \in flushed : r.family # "v4"}
    IN  /\ Change
        /\ names[x] # Absent
        /\ gone => broken = Spanning(x) /\ \A r \in broken : r.family = "v4"
        /\ gone \/ flushed # {}
        /\ table' = [f \in Families |-> Without(table[f], flushed)]
        /\ names' = IF gone THEN [names EXCEPT ![x] = Absent] ELSE names
        /\ silent' = silent \cup UNION {NamesOf(r) \X {"v4"} : r \in {q \in flushed \ loud : q.main}}
        /\ \E rs \in [1..Cardinality(loud) -> loud] :
              /\ Range(rs) = loud
              /\ Notify([k \in DOMAIN rs |-> [type |-> "del", route |-> rs[k]]])
        /\ UNCHANGED <<used, unlinking, sub, primed, gateways>>

CreateDevice(x, i) ==
    /\ Change
    /\ x \notin used
    /\ \A y \in Indexes : names[y] # i
    /\ names' = [names EXCEPT ![x] = i]
    /\ used' = used \cup {x}
    /\ UNCHANGED <<table, unlinking, queues, sub, primed, gateways, silent>>

(***************************************************************************)
(* The subscriber.                                                         *)
(***************************************************************************)
Subscribe ==
    /\ pc = "off"
    /\ MidDelete \/ unlinking = NoRoute
    /\ pc' = "snapshot"
    /\ todo' = Families
    /\ UNCHANGED <<kernel, queues, ifaceCache, snapshot, upd, attempt, event,
                   primed, gateways, silent>>

(* An interrupted dump is read again, up to DumpAttempts times; any other  *)
(* error of the read ends the subscriber at once.                          *)
DumpFails ==
    /\ pc \in {"snapshot", "reconcile"}
    /\ \/ attempt < DumpAttempts /\ attempt' = attempt + 1 /\ UNCHANGED pc
       \/ pc' = "exited" /\ UNCHANGED attempt
    /\ UNCHANGED <<kernel, queues, ifaceCache, snapshot, todo, upd, event,
                   primed, gateways, silent>>

(* The Families in their order, IPv4 first.                                *)
ReadSnapshot(f) ==
    /\ pc = "snapshot"
    /\ f \in todo /\ ("v4" \in todo => f = "v4")
    /\ ifaceCache' = Learn(ifaceCache, Listed(f))
    /\ snapshot' = [i \in Watched |->
          [snapshot[i] EXCEPT ![f] = SelectDefault(table[f], i, ifaceCache')]]
    /\ silent' = {s \in silent : s[2] # f}
    /\ todo' = todo \ {f}
    /\ pc' = IF todo' = {} THEN "idle" ELSE "snapshot"
    /\ attempt' = 1
    /\ UNCHANGED <<kernel, queues, upd, event, primed, gateways>>

HandleUpdate ==
    /\ pc = "idle"
    /\ updates # <<>>
    /\ updates' = Tail(updates)
    /\ upd' = Head(updates)
    /\ ifaceCache' = Learn(ifaceCache, {upd'.route})
    /\ todo' = Candidates(upd'.route, ifaceCache')
    /\ pc' = IF todo' = {} THEN "idle" ELSE "reconcile"
    /\ UNCHANGED <<kernel, overrun, out, snapshot, attempt, event, primed, gateways, silent>>

(* Slip: a closed subscription is read on, as if it were only silent.      *)
SubscriptionClosedIgnored ==
    /\ pc = "idle"
    /\ updates = <<>> /\ overrun
    /\ UNCHANGED vars

(* The receiver closed the channel and everything in it has been read.     *)
SubscriptionClosed ==
    /\ pc = "idle"
    /\ updates = <<>> /\ overrun
    /\ pc' = "exited"
    /\ UNCHANGED <<kernel, queues, ifaceCache, snapshot, todo, upd, attempt, event,
                   primed, gateways, silent>>

ReconcileVia ==
    /\ pc = "reconcile"
    /\ LET f == upd.route.family
           i == ifaceCache[upd.route.paths[Min(todo)].dev]
       IN  /\ ifaceCache' = Learn(ifaceCache, Listed(f))
           /\ event' = <<i, f, Reconcile(table[f], upd, i, ifaceCache')>>
           /\ silent' = silent \ {<<i, f>>}
    /\ attempt' = 1
    /\ pc' = "send"
    /\ UNCHANGED <<kernel, queues, snapshot, todo, upd, primed, gateways>>

Send ==
    /\ pc = "send"
    /\ Len(out) < OutCapacity
    /\ out' = Append(out, event)
    /\ event' = NoEvent
    /\ todo' = todo \ {Min(todo)}
    /\ pc' = IF todo' = {} THEN "idle" ELSE "reconcile"
    /\ UNCHANGED <<kernel, updates, overrun, ifaceCache, snapshot, upd, attempt,
                   primed, gateways, silent>>

(***************************************************************************)
(* The daemon's side: the snapshot first, then the channel in order.       *)
(***************************************************************************)
Prime ==
    /\ ~primed
    /\ pc \in {"idle", "reconcile", "send"}
    /\ primed' = TRUE
    /\ gateways' = snapshot
    /\ UNCHANGED <<kernel, queues, sub, silent>>

Observe ==
    /\ primed
    /\ out # <<>>
    /\ gateways' = [gateways EXCEPT ![Head(out)[1]][Head(out)[2]] = Head(out)[3]]
    /\ out' = Tail(out)
    /\ UNCHANGED <<kernel, updates, overrun, sub, primed, silent>>

(***************************************************************************)
(* Specification.                                                          *)
(***************************************************************************)
Init ==
    /\ names = StartNames /\ used = {x \in Indexes : StartNames[x] # Absent}
    /\ table = [f \in Families |-> {}] /\ unlinking = NoRoute
    /\ updates = <<>> /\ overrun = FALSE /\ out = <<>>
    /\ ifaceCache = [x \in Indexes |-> Absent]
    /\ pc = "off" /\ snapshot = Empty /\ todo = {} /\ upd = NoUpdate
    /\ attempt = 1 /\ event = NoEvent
    /\ primed = FALSE /\ gateways = Empty
    /\ silent = {} /\ changes = 0

KernelStep ==
    \/ \E r \in Routes :
          \/ \E before \in SUBSET Listed(r.family) : AddRoute(r, before)
          \/ DelRoute(r)
          \/ \E old \in Routes : ReplaceRoute(old, r)
    \/ \E x \in Indexes, gone \in BOOLEAN :
          \E broken \in SUBSET Spanning(x) : FlushDevice(x, gone, broken)
    \/ \E x \in Indexes, i \in Ifaces : CreateDevice(x, i)

SubscriberStep ==
    \/ Subscribe
    \/ DumpFails
    \/ \E f \in Families : ReadSnapshot(f)
    \/ HandleUpdate \/ SubscriptionClosed \/ ReconcileVia \/ Send

Next == KernelStep \/ Unlink \/ SubscriberStep \/ Prime \/ Observe

(* The kernel finishes the delete it announced, and the goroutines run.    *)
Fairness == WF_vars(Unlink) /\ WF_vars(SubscriberStep) /\ WF_vars(Prime) /\ WF_vars(Observe)

Spec == Init /\ [][Next]_vars /\ Fairness

(***************************************************************************)
(* Properties.                                                             *)
(***************************************************************************)
Agrees(i, f) ==
    \/ gateways[i][f] = SelectDefault(table[f], i, names)
    \/ <<i, f>> \in silent

Quiet == /\ primed /\ pc = "idle" /\ unlinking = NoRoute /\ ~overrun
         /\ updates = <<>> /\ out = <<>>

(* Once every notification has been worked off, the Gateway cache holds    *)
(* the preferred default of every watched interface, whatever the order of *)
(* table changes, dumps and deliveries (RouteSubscriber.StartWith,         *)
(* reconcileVia).  The kernel's silent removals are the exception.         *)
CacheAgrees == Quiet => \A i \in Watched, f \in Families : Agrees(i, f)

(* The subscriber does catch up, or it has exited and the daemon is        *)
(* restarted: it never runs on with a view that stays wrong (runLoop,      *)
(* retryDump, the closed subscription).                                    *)
ViewConverges ==
    \A i \in Watched, f \in Families : <>[](pc = "exited" \/ Agrees(i, f))
=============================================================================
