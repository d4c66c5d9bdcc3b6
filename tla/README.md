# Verification of wanwatchd

`wanwatchd` watches several WAN links of a router and, per *Group*, keeps the
default routes of one routing table on the best healthy *Member*. It learns
link state, Gateways and probe results, decides, writes kernel routes, flushes
connection tracking, publishes `state.json` and runs Hooks. This directory
holds TLA+ models of the daemon, from the kernel's notifications to the Hooks
and the systemd unit, the TLC runs that check them on small instances, and TLAPS
proofs that carry the main results to every configuration.

Paths of Go code below are relative to `src/daemon/`, those of documents and Nix
files to `src/`.

## Inventory

| Component | State | Operations | What makes it correct |
|---|---|---|---|
| Strategy (`internal/selector`) | none | `Select`, `primaryBackup` | picks the one best healthy Member, whatever order Members come in |
| WAN Health (`internal/health`) | carrier, operstate, per Family cooked / verdict / Hysteresis counters | `Probe`, `Link`, `Snapshot` | verdicts equal what the history of results calls for; a link event reaches every WAN on the interface at once; every change is reported |
| Decision module (`internal/decision`) | Selection, pending Decision, repairDue, decisionsTotal per Group | `Recompute`, `Probe`, `RouteObserved`, `commit`, `refresh` | a Selection changes only when its Apply succeeded; failed work is retried; superseded work is dropped |
| Event handlers (`cmd/wanwatchd/daemon.go`, `gateway.go`, `eventloop.go`) | Gateway cache, vacated WANs | `bootstrap`, `prime`, `handleProbeResult`, `handleLinkEvent`, `handleRouteEvent`, `applyRoutes`, `publishDecision`, `writeStateSnapshot` | Groups always intend what the Strategy chooses on current Health; tables, `state.json`, Hooks and flushes follow the Selections |
| Configuration (`internal/config`) | constant | `Validate` | accepted values satisfy what the rest relies on |
| Apply (`internal/apply`) | kernel routes, rules, conntrack | `WriteDefault`, `EnsureRule`, `FlushBySource` | one rule per mark, routes replaced atomically, matching flows deleted |
| Probers (`internal/probe`, `cmd/wanwatchd/probers.go`) | identifiers, sequence numbers, in-flight probes, Windows, socket | `AllocateIdents`, `run`, `cycle`, `open`, `recheck`, `Push`, `Aggregate` | a reply counts for its own probe only; every cycle gives each Target one Sample; the statistics are those of the recent Samples; the socket follows the interface |
| Link and route subscribers (`internal/rtnl`, `cmd/wanwatchd/subscribers.go`) | last reported links, learned names, channels | `Start`, `readSnapshot`, `runLoop`, `reconcileVia`, `handleUpdate`, `closeAndDrain` | what is reported last is what the kernel holds; old notifications replay nothing; an ended subscriber leaves nothing blocked |
| State file (`internal/state/state.go`) | file, temporary file | `Write` | readers never see a partial file |
| Hook delivery (`internal/state/notifications.go`, `hooks.go`) | bounded queue, worker, process group | `Notify`, `Close`, `deliver`, `runOne`, `cancelHook` | accepted notifications run in order; no Hook holds up the next event or Close |
| Lifecycle (`cmd/wanwatchd/main.go`, `sdnotify.go`, `internal/metrics/server.go`) | causes of cancellation, supervised goroutines, watchdog | `run`, `superviseSubsystem`, `keepServing`, `runWatchdog`, `exitError` | a failed subsystem ends the process, a failed metrics server does not; a wedged loop is noticed; a stop completes |
| Metrics registry, ICMP codec, Nix library | none the daemon decides on | | not modelled |

**Interaction.** Probers and subscribers run in goroutines of their own and
send to channels. One event-loop goroutine takes one event at a time and runs
its handler to the end; Health, Decision modules, Gateway cache and the state
writer are touched only there. A handler folds its event into Health or the
Gateway cache, lets the affected Groups' Decision modules decide, which call
back into `applyRoutes`, and publishes what they committed. Hook notifications
go to a queue served by a worker.

**What is hard.** Route writes and `state.json` writes may fail anywhere in a
handler; a Decision then stays *pending* and is retried by later probe results
or route events, while Health moves on; one link event flips several WANs and
several Groups; a refresh covers one Family while a Repair of another is due;
the kernel drops routes silently; a `down` keeps its route and its conntrack
entries until the next `up`. Notifications are older than the state they tell
of, overrun their buffers, and come before the change they announce. Replies
arrive late, twice or out of order under sequence numbers that wrap. Hooks
hang, fork and hold their output. The process is stopped inside a handler, or
ends and starts again at any time. `PROJECT.json` lists these hazards with their
lines and the properties that address them.

## Modules

| Module | Models |
|---|---|
| `Config` | the validated configuration: constants, and `Validate`'s guarantees as assumptions |
| `Selector` | `primaryBackup`: `Select(g, healthy)` |
| `Health` | `health.Wans` as operators on the Health of all WANs |
| `GroupDecision` | `decision.Group` as operators on one Group's record |
| `Daemon` | the event handlers as actions; the main specification |
| `Failover` | abstract specification: what the daemon promises of its Selections |
| `HealthHistory` | Health alone, next to the history of results and links |
| `Conntrack` | the kernel's flows next to the daemon |
| `Handlers` | the same handlers call by call, with the daemon stopped anywhere; implements `Daemon` |
| `RouteSubscriber`, `LinkSubscriber` | `internal/rtnl` between kernel and event loop |
| `Pinger` | one prober: cycles, replies, socket |
| `Window`, `WindowHistory` | the ring of Samples and the statistics; the same next to the full history |
| `Idents` | `AllocateIdents` |
| `HookDelivery` | `HookNotifier`, `hookRunner`, one Hook's processes |
| `ConntrackFlush` | `flushVacatedConntrack`, `FlushBySource` |
| `Rules` | the fwmark rules `bootstrap` ensures |
| `StateWriter` | the replacement of `state.json` |
| `Lifecycle` | `run`, supervision, metrics server, watchdog, and the systemd unit |
| `MCDaemon`, `MCHealth`, `MCConntrack`, `MCHandlers` | constants for TLC |
| `MCRtnl`, `MCProbe`, `MCEffects` | the parts of a package side by side, for TLC |
| `DaemonProofs`, `PublicationProofs`, `HealthProofs`, `HandlersProofs`, `SubscriberProofs`, `ProbeProofs`, `EffectsProofs`, `LifecycleProofs` | theorems and proofs |

`MCRtnl` holds the two subscribers, `MCProbe` the allocation of identifiers, a
prober and the windows, `MCEffects` Hook delivery, the conntrack flush, the
rules and the state file. The parts of one such module share no variable, and
no property relates two of them, so a behaviour in which one moves while the
others have ended already shows everything that an interleaving would. That is
how these modules start and what keeps them small.

Operators whose comment starts with *Slip* are plausible mistakes of the
definition that follows them. They are used by no specification; replacing the
definition by its slip must make TLC report the property that `PROJECT.json`
names under "mutants".

### Daemon: variables and actions

`phase` tells whether the process is off, has ensured its rules (`booted`) or
serves events (`running`). `health`, `gateways`, `group` and `vacated` are the
fields of the `daemon` struct; `table` is the kernel's default route per Group
and Family; `file` is `state.json`. `stale`, `hook` and `unflushed` are history:
a failed write left the file behind, the last Hook submitted, and the WANs that
were selected and have not been flushed since.

| Action | Code |
|---|---|
| `Bootstrap` | `newDaemon`, `bootstrap` |
| `Prime` | `prime` with the route and link snapshots |
| `HandleProbeResult` | `handleProbeResult`: Health first, then recompute or retry |
| `HandleLinkEvent` | `handleLinkEvent` |
| `HandleRouteEvent` | `handleRouteEvent` |
| `Stop` | the process ends between two handlers |
| `KernelFlush` | external: the kernel drops a device's routes without telling |

A handler is one action because it runs alone on the event-loop goroutine. Its
parameter `answer` gives, per Group, what the kernel says to the ifindex lookup
and to each Family's route write. A handler attempts at most one Apply in a
Group: `Recompute` and `Probe` exclude each other (`handleProbeResult` retries
only if its WAN did not flip), a second `Recompute` of the same Group finds its
target already intended, and `RouteObserved` acts only for the intended WAN.
The Go maps iterate in random order, but a Group's step reads and writes only
that Group's record and table, so all Groups are taken at once; the one place
where the order shows, the content of `state.json` after a write in the middle
of a handler failed, is a choice among subsets of handled Groups (`WriteState`;
it allows a few subsets the loop order would exclude). `prime` sees each
interface once in the snapshot. Names, addresses and payloads are model values;
the one use of a name beyond equality, the tie break, is `NameRank`.
Statistics are loss in percent and RTT in milliseconds; the code compares them
exactly (rationals, microseconds), so integers at, next to and between the
thresholds cover every case. The Hysteresis counters saturate at their
threshold, which is all the code compares them with. Operstates are the seven
the kernel defines. Gauges, logs, timestamps and `selectionSince` are left out.

### Handlers

`Handlers` adds a program counter to `Daemon`'s variables and takes one step for
each Group of a loop (in any order, as Go's maps give it), each ifindex lookup
and route write, the conntrack flush, the write of `state.json` and the Hook.
`Cancel` ends the context before any of them; the code looks at it between
Groups (`LoopStops`) and before each probed Family (`WritesStop`), also before one
that is skipped for want of a Gateway (`Skipped`): an Apply whose writes have all
succeeded may then still be given up. `before` holds
`Daemon`'s variables from the start of the handler, so that the refinement
mapping `shown` hides a handler until it is over.

### Subscribers

In `RouteSubscriber` the kernel's part is a table in dump order (the order is a
set of pairs, which proofs handle better than a sequence), with indexes that
are never reused, and its notifications: an IPv4 default is announced as
deleted (`DelRoute`) before it leaves the table (`Unlink`), IPv6 the other way
round; a replace announces the new route only; taking a device away drops its
IPv4 routes without a word (`FlushDevice`, remembered in `silent`). A multipath
default that spans other devices stays listed, with a dead next-hop, when one of
them goes down, and leaves when they all are; when one goes away, the kernel
drops an IPv4 default whole and silently, for every interface it served. An IPv6
multipath default would then lose that next-hop only; this one case is not
modelled (`FlushDevice` is not enabled). The
subscriber subscribes, dumps each Family (`ReadSnapshot`), then takes
notifications (`HandleUpdate`), reads the table again for each watched interface
concerned (`ReconcileVia`), leaves out the route said to be deleted, and sends
what it found (`Send`). Interface names are learned per index (`Learn`).
`Notify` drops what exceeds the buffer and marks the subscription broken, which
`SubscriptionClosed` turns into the subscriber's end. An interrupted dump is read
again, any other failed read ends the subscriber at once (`DumpFails`). `Prime` and `Observe` are
what the daemon does with it.

`LinkSubscriber` has the same shape with one read per notification, and models
the netlink library's receiver as well (`Receive`, `Forward`): it sends into a
bounded channel without looking at `done`, which is why `closeAndDrain` reads
the channel empty (`DrainUpdates`). The route subscriber ends in the same way;
that is modelled once, here.

### Probers

`Pinger` has an action for the tick, each send, each reply read, the end of the
cycle and the hand-over of the result. A read ends with the last reply, with the
timeout or an error (`ReadEnds`), or because cancellation pulls its deadline in
(`PullDeadline`, the `AfterFunc` of `cycle`). The first `open` (`Start`) and every
later one may fail for good (`OpenFails`). Replies in the air carry the sequence
number, the Target that answers and the cycles since their probe; they may
arrive in any order, more than once, or never. `Lifetime` cycles after its own
a reply is gone; the assumption `(Lifetime + 1) * Len(Targets) <= SeqSpace` says
that the 16-bit numbers have not come around by then. The interface disappears
and returns with a new index; the socket stays on the old one until a failed
send makes `recheck` look. `Window` computes loss, mean RTT and jitter as the
code does, rounding included; `WindowHistory` compares them with all Samples.
`Idents` takes a hash that may be any function of the key.

### Hooks, flush, rules and state file

`HookDelivery` has three goroutines (a caller of `Notify`, one of `Close`, the
worker) and the Hook's process, which forks, enters its group, may leave a child
in the group or outside it and may never exit. `CancelHook` is the body of
`cmd.Cancel`, its two calls in two steps: `GroupKill` may find the group, be refused,
or find no group (`missed`); `ProcKill` then signals the process alone. Between the
two the Hook may enter its group and start others, which survive the second call;
`KillReachesGroup` names that exception (`late`). The window is the one the comment
on `cancelHook` describes; where `os/exec` returns from Start only after the exec,
as the present Go does, it does not open. `Reap`, `HandOver` and `Drained` are
`os/exec`'s Wait.

`ConntrackFlush` goes through the vacated WAN's global addresses, by the
kernel's filtered delete where that exists and the address is IPv4, else by
dumps that flows arriving meanwhile may interrupt, and one delete for each entry
a dump returned. Entries may expire at any time, also between the dump and their
delete; the netlink library counts those as deleted, so `FlushResult.Entries` is
the number of entries found and gone, which can exceed what the flush itself
deleted ("returning how many it deleted", `internal/apply/conntrack.go:89`). `Rules`
starts from any set of rules, copies and narrower ones included, with failures
and restarts between all calls. A delete removes exactly the copy it names; the
kernel in fact takes the first rule that has what the request names, which could
be a narrower one of the same mark, table and preference. `StateWriter` writes a
file in two halves, to tell a torn file from a whole one, with a reader that
opens and reads in steps of its own; the removal of a temporary file after an
error is best effort and may fail.

### Lifecycle

`proc` is what dies with the process: where `run` is, the first cause of
cancellation, the state of each subsystem, of the metrics server, and of the
watchdog. The other variables are systemd's. The start steps that dump or write
over netlink, `prime` and the handlers may get stuck in a kernel call. `-help`,
which exits 0 before anything is read, is left out: the unit's `ExecStart` does not
pass it. `Restart=on-failure`, the watchdog, start and stop timeouts and the
start limit are those of `nixos/module.nix`.

## Runs

| Run | Checks | Instance |
|---|---|---|
| `failover` | `TypeOK`, `TableConverged`, `HookNamesSelection`, `VacatedFlushed`, `KeepsPromise` | 2 WANs on 2 interfaces, one point-to-point, 1 Group, 2 Families, scope-link defaults; partial writes, link flaps, silent flushes, restarts |
| `failover_liveness` | `SelectionConverges`, `RepairHappens`, `FlushedRouteRestored` | 2 WANs, 1 Group, 1 Family; good and bad Windows, under `FairSpec` |
| `shared_interface` | `IntentFollowsHealth`, `StateFileCurrent` | 2 WANs on one interface, 2 Groups with opposite preferences, one of them with a single Member; failing writes of `state.json` |
| `hysteresis` | `HealthMatchesHistory`, `BetweenBandsHolds` | thresholds hit exactly, missed by one, without data; runs up to 3; policies `any` and `all` |
| `handlers` | `StopEndsHandler`, `HandlersAreAtomic`, `HookFindsState` | as `shared_interface`, 2 Families, call by call, stopped anywhere |
| `subscribers` | `CacheAgrees`, `ViewConverges`, `ViewAgrees`, `EventsAreNews`, `StopsCleanly` | 2 interfaces; competing, multipath and other-table defaults, devices down, gone and recreated; 3 kernel changes, buffers of 1 and 2 |
| `probe` | `CreditsOwnProbe`, `OneSamplePerCycle`, `ProbesThroughInterface`, `EndsWhenCancelled`, `StatisticsMatchHistory`, `IdentsDistinct`, `AllocatesWhenItFits` | 2 Targets, 6 sequence numbers, Windows of 2 and 5 Samples, 4 keys on 3 identifiers |
| `effects` | `QueueIsSound`, `KillReachesGroup`, `HooksNeverBlock`, `FlushIsExact`, `OneRuleEach`, `RulesUndisturbed`, `ReplacedAtomically` | queue of 2, 3 events, 2 of 3 Hook files; 2 addresses, 4 flows that come and expire; rules of 2 slots with 3 preferences; 3 writes |
| `lifecycle` | `ExitCodeTellsWhy`, `BlindDaemonReplaced`, `StuckDaemonReplaced`, `StopCompletes`, `MetricsServedAgain` | 2 probers and both subscribers, 3 starts |
| `stranded_flows` | `NoStrandedFlows`, expected to fail | see Findings |
| `late_publication` | `StopEndsPublication`, expected to fail | see Findings |
| `snapshot_mid_delete` | `CacheAgrees`, expected to fail | see Findings |

Some properties are conjunctions of named parts, one per way in which the
component could go wrong; `PROJECT.json` lists a mutant for each part.

**What the component runs show.** `handlers`: a handler that is not cut short leaves
what the one step of `Daemon` leaves, whatever the order of Groups and wherever
calls fail, so that everything checked and proved of `Daemon` holds of the
handlers as they run; one that is cut short finishes its kernel call and begins
nothing else. `subscribers`: at rest, the Gateway cache and the view of the
links agree with the kernel, and after an overrun the subscriber ends rather
than run on with a wrong view. `probe`: late and duplicated replies are never
credited, and the statistics of filling, full and wrapped rings are those of
the history. `effects`: a Hook that hangs, forks, or keeps its output open holds
up neither its successors nor `Close`; no start of the daemon, failed or not,
removes the rule that routes a mark; `state.json` is whole for every reader.
`lifecycle`: a subsystem that returns for whatever reason leads to a new process
and never to an exit code of 0.

**Bounds.** `MaxDecisions` bounds a Group's Decisions in one life of the
process; a restart resets the count, so behaviours have unboundedly many lives.
Three Decisions reach up, failed switch, superseding and down with every
failure in between; more repeat states that differ only in the count.
`MaxResults` bounds the results of a Family in `HealthHistory`: six cover a seed
and a full run of three with a broken one before it. Two WANs suffice for
preference, supersession and vacating; two Groups for what Groups could do to
each other, which is only through shared Health and the shared file.
`MaxChanges` and `MaxLinkChanges` (3) bound the kernel's changes: a change
before, during and after a read, or one more than the buffers hold. `SeqSpace`
(6) is the smallest that satisfies the assumption with two Targets and replies
that live for two cycles, so numbers come around every third cycle. `MaxIndex`
(2) is one recreation of the interface. `MaxSamples` (5) fills a Window of two
and wraps it twice. Four keys on three identifiers make one list too long and
every other one collide in all ways. `MaxEvents`, `QueueCapacity` and `MaxFiles`
are the least that give two events waiting together, a full queue, and a file
beyond the limit. Four flows are one IPv4 and two IPv6 flows of the vacated WAN and
one of another address. `MaxPref` (3) gives every slot a copy to keep, a copy to delete and a
narrower rule before or behind them. `MaxStarts` (3) is the unit's start limit.
The runs with `CHECK_DEADLOCK FALSE` are those of parts that really end: an
exited subscriber or prober, a finished allocation or flush, a closed notifier,
a stopped unit.

**Fairness.** `FairSpec` of `Daemon`: for each WAN, a probe result whose route
writes succeed is handled again and again (weak fairness of `ProbeWorks`). The
code justifies it: a Pinger reports every cycle, and one that ends takes the
daemon down (`superviseSubsystem`), after which the service manager restarts it;
the event loop takes every queued result; and the assumption that the kernel
does not reject writes for ever is what "retried until it succeeds" means. Link
and route events are not assumed to happen at all, except in
`FlushedRouteRestored`, whose premise `Readded` says that networkd or the DHCP
client adds a lost default again. Because `MaxDecisions` blocks a handler that
would decide once too often, `ProbeWorks` can become disabled at the bound;
restarts stay possible there, and convergence is checked for every behaviour
within the bound.

The other modules assume that goroutines which can run do run: the subscriber
and the daemon's reads, and the kernel's unlinking of a route it has announced
(`RouteSubscriber`, `LinkSubscriber`); the allocation's loop (`Idents`); the
worker, the timers and the goroutine that watches the context (`HookDelivery`,
where a Hook or its child need never exit, unless the daemon's signal was
refused: such a Hook runs as another user, which the unit's `NoNewPrivileges` rules
out, and it is assumed to end, `RefusedHookExits`). `Pinger` assumes that the
timeout ends a read as long as the context lives; after a cancellation only the
goroutines are assumed to run, so that `EndsWhenCancelled` rests on the pulled
deadline and not on the timeout. It assumes strong fairness of `Exit`, because
Go's select picks at random among the cases that are ready and the ended context
stays ready. `Lifecycle` assumes that handlers return unless
stuck, that timers fire and that systemd acts on them; no subsystem need ever
fail and no signal need come.

## Proofs

Every safety property of the passing runs is a theorem for all values of the
constants, with one exception: the sums in `StatisticsMatchHistory`. In each case
the property is not inductive by itself; the invariant that is, and the reason
for its parts, follow.

**Strategy, Decisions, daemon** (`DaemonProofs`). `Select` returns the first
healthy Member in the order of priority and name (`SelectCorrect`; a first one
exists because priorities and ranks are natural numbers), no other Member
qualifies (`SelectUnique`), and only a Group's own Members matter
(`SelectLocal`). Each operation of a Decision module, whatever the kernel
answers, changes the Selection only by a commit of what the Group intends
(`SoundStep`); `Recompute` leaves a Group that intends its target, the others
leave the intent alone. `IndInv` is `TypeOK /\ IntentFollowsHealth`: types do
not survive without knowing that `Select` returns a WAN, and the intent is kept
because a Group with a flipped Member is recomputed on the new Health, while
for every other Group `SelectLocal` says that the choice is unchanged.

**Health** (`HealthProofs`). `HealthFollowsHistory` and `BetweenNeverTurns` rest on
`HistoryInv`: every Family is cooked exactly when it has a history, its verdict
is the one the history calls for, and the counter that could turn the verdict
is the exact length of the run at the end of the history (`CounterOfRun`). The
other counter means nothing: it may be anything when the verdict turns, and is
harmless because the result that turns the verdict resets it. The reference
verdict is stated without recursion: the last Window that called for a verdict
called for up. `VerdictOfNext` says what one more Window adds to it.

**What the daemon publishes** (`PublicationProofs`). `PubInv` adds to `IndInv` that
until the daemon runs nothing has been decided, reported or left to flush
(`FreshStart`), which a restart needs; `HookNamesSelection`, `VacatedFlushed`
and the refinement `Spec => KeepsPromise` follow. `StateFileCurrent` is
inductive given `TypeOK`: a probe result or link event that does not republish
leaves every verdict as it was (`QuietProbe`, `QuietLink`), a retry, Repair or
refresh that does not commit changes neither Selection nor Decision count, and a
route event that does not republish found its Gateway in the cache already.
`TableConverged` is inductive given `TypeOK` and `FreshStart`: a commit rests on a
full Apply; a refresh of one Family suffices because only that Family's Gateway
changed and no Repair was due, and a failed one makes a Repair due.

**Stops inside a handler** (`HandlersProofs`). `StopInv`: since the stop, the Group
whose turn it is has not decided before it is settled, the kernel call in
progress is the first one, and at most one Group and one route have changed; and
`state.json` shows what a Hook is about to be told, unless its write failed.

**Handlers implement `Daemon`** (`HandlersProofs`, `HandlersAreOneStep`). The mapping
`shown` hides a handler until it is over, so every step inside one is a stutter
and the work is in the last. `AtomicInv` says that while a handler is under way
(`UnderWay`) there is a plan: the state before the handler, Health and Gateways as
the event left them, the operation of the loop and its WANs, and whether
`state.json` is due before or after the loop (`Cause`, one case per event). Three
facts carry the proof:

- `Planned`. The loop visits a Group once per WAN, `Daemon` steps it once. The first
  visit that does anything does what is planned (`Carries`), and every visit before
  and after it does nothing (`Inert`): after `Recompute` the intent is the target
  already, and a route event concerns only the WAN the Group intends.
- `Work`. Each Group that has decided is what the plan makes of it with one kernel
  answer, rebuilt from the lookup and the writes that were answered so far
  (`Applying`, `Writing`, `Answered`); every other Group and its row are as before.
  `Publication` fixes vacated WAN, flush and Hook of each Group from its old and new
  Selection, with the Group being published as the only one half done.
- `FileSoFar`. The content of `state.json` is the old one or a write made when some of
  the Groups had decided, the last of them with a commit (`EarlierWrite`); if no
  write is left to come, a file that is not current is marked stale.

At the end these put together one `answer` for `Daemon`'s action (`HandlerSettles`), and
the state is one in which the next handler can begin (`Ready`, `ReadyAgain`): Groups
are sound and the current Selection counts as not flushed, so a Group whose
Selection stays has nothing to publish (`NothingToPublish`). Once the context has
ended the invariant promises only the domains, which is why a handler that is
cut short is excepted. As long as none is, what is proved of `Daemon` between two
events holds of the handlers as they run.

**Subscribers** (`SubscriberProofs`). `LinkInv`: unless the subscription broke, the
subscriber's map has the kernel's present state of an interface or a
notification that names it is on its way (`MapIsFresh`); what the daemon was told,
with what is in the channel, is the map, once the event in hand is out
(`ToldTheMap`); that event differs from what was said before it and was true at
some time since (`InHandIsNews`, `SinceHoldsNow`).

`RouteInv` is what `CacheAgrees` needs for the Gateway cache. For each watched
interface and Family, what was said last is right or will be corrected
(`CacheFollows`). "Right" is the default of the table as it is once a delete under
way is done. "Will be corrected" means that a notification still to come makes
the subscriber read the table for this interface, which depends on the names it
has learned: whoever has been told of a Gateway must know the device by its
name already, because the device may disappear and the removal would not be
recognised (`Assured`); after "no default" it is enough that the name can still
be looked up (`Announced`). `UnlinkAnnounced` says that while the kernel unlinks a
route, the notification of it is the last, and `ReAddAnnounced` that a route which is
listed although it was announced as deleted is announced again later; otherwise
leaving out the route said to be deleted could leave out one that is there.
`NamesSound`: no index is reused and no name is given twice, so a name in the cache
is never that of another device. A device that leaves takes routes with it which
are announced (IPv6) or belong to `silent` (IPv4), for each interface they served
(`FlushEffect`). The theorem assumes `~MidDelete`; the run
`snapshot_mid_delete` shows that it fails without.

**Probers** (`ProbeProofs`). `SampleInv`: Samples taken and probes in flight of a
cycle belong to different Targets and together to all that were asked so far. `CreditInv` relates each
reply in the air to the sequence number of its probe: within a reply's lifetime
no two probes share a number, so one that matches an in-flight probe is that
probe's. `IdentInv`: a new identifier differs from all earlier ones because it is not
in `owners` and they are (`AllocatedOwned`). `RingInv` locates every recent Sample in
its slot of the ring (`Slot`), wrapped or not; `RingsHoldRecentSamples` is the part
`WindowHoldsRecent` of `StatisticsMatchHistory`.

**Hooks, flush, rules, state file** (`EffectsProofs`). `HookInv`: nothing is sent to
the queue after it was closed because both happen under the mutex
(`SendsUnderMutex`), a worker that is not cancelled ends only with the queue closed
and empty, and the goroutine that kills has a process to watch (`WatchesProcess`).
`KillsReachTheGroup` has the exception named above. `FlushInv`: what was deleted is
no longer in the table (`DeletedIsGone`), and what is listed for deletion are matches of
the address at hand (`ListedMatches`). `RulesInv`: the slots that were passed have
exactly one rule for their mark (`PassedSlots`), and in the middle of a slot what was
listed is still what is in place (`ListedIsCurrent`). `WriterInv`: no reader can reach the temporary file, the file at the
path is whole, and so is one a reader has opened, even after it was replaced.

**Lifecycle** (`LifecycleProofs`). `LifecycleInv`: a running daemon whose context was
cancelled as a shutdown was signalled, one cancelled as failed had a failure,
and `main` leaves its loop only with a cause; from this, `ExitCodeTellsWhy`.

**Assumptions.** `ConfigAssumption` (what `Validate` and the Nix types guarantee);
null values differ from real ones (`NoActiveAssumption`, `NoPendingAssumption`,
`DaemonAssumption`); statistics are natural numbers or missing, and link states
those the kernel defines (`HistoryAssumption`); `PingerAssumption`: the Targets form
a sequence and a reply does not outlive the sequence space, which the code
relies on and cannot check; the conntrack table is finite (`FlushAssumption`); the
kernel's set of default routes is finite and no two interfaces have one name at
the same time (`RouteSubscriberAssumption`); queue and buffer sizes are positive. All
bounds that exist for model checking (`MaxDecisions`, `MaxChanges`, `MaxResults`,
`MaxSamples`, ...) are arbitrary in the proofs. TLC evaluates every
assumption in the runs.

**Only model-checked.** Liveness, which is out of the prover's reach:
`SelectionConverges`, `RepairHappens`, `FlushedRouteRestored`, `ViewConverges`,
`StopsCleanly`, `ProbesThroughInterface`, `EndsWhenCancelled`, `AllocatesWhenItFits`,
`HooksNeverBlock`, `BlindDaemonReplaced`, `StuckDaemonReplaced`, `StopCompletes`,
`MetricsServedAgain`. `AggregateMatchesHistory`, the other part of
`StatisticsMatchHistory`: its sums are folds of the community modules, whose
definitions are recursive operators in which the provers cannot do induction.

## Findings

`stranded_flows`: a switch commits although its WAN has no known Gateway;
`applyRoutes` skips the Family and reports success. `publishDecision` flushes
the old WAN at once, but the Group's default still points there and new flows
keep using it. When the Gateway is discovered, `RouteObserved` refreshes the
route, traffic moves, and nothing is flushed, so the flows made in between are
stranded on the old WAN. `README.md:11` and `GLOSSARY.md:76` say that the
entries are flushed when traffic moves. In this run every flush succeeds and
the process is not restarted, both of which the documentation exempts.

`late_publication`: `docs/specs/failover.md:104` says that a handler running
when the daemon is stopped finishes its kernel call and then makes "no further
route write, Decision, `state.json` write, or Hook". Route writes and Decisions
do end (`handlers`), but when the stop falls into the last route write of a
Decision, that Decision commits and `publishDecision` writes `state.json`
without looking at the context.

`snapshot_mid_delete`: the snapshot believes every route it lists. An IPv4
default that was announced as deleted just before the subscription, and that is
still listed, stays in the Gateway cache; nothing tells of its removal later.
`cmd/wanwatchd/subscribers.go:41` says that startup captures new defaults
"without exposing obsolete route history". `MidDelete` lets this one case in;
the run `subscribers` excludes it and shows that the cache agrees otherwise.

`AllocatesWhenItFits` (run `probe`, which passes): a list of exactly as many keys as
there are identifiers is accepted, and one more key is not.
`internal/probe/ident.go:23` says that the error is returned for ">65535 keys", while
the code compares with `1 << 16` (`ident.go:27`) and accepts 65536. No identifier is
given twice in either case; it is the comment that is off by one.

Four smaller disagreements were met while modelling and have no run:

- `internal/apply/conntrack.go:89` says of `dumpDelete` "returning how many it
  deleted". The library's count includes entries that were gone before their
  delete (see `ConntrackFlush`).

- `internal/rtnl/route.go:40` says that a renamed interface costs "one
  silently-skipped flap". `resolveIface` never forgets a name it learned, so
  every later default through that index is resolved to the old name.
- `docs/specs/daemon-state.md:153` says "`ok`: the Hook exited 0". A Hook that
  exits 0 while a process it left behind holds its output makes `cmd.Run`
  return `exec.ErrWaitDelay`, which `runOne` reports as `error`
  (`internal/state/hooks.go:227`).
- `nixos/module.nix:176` says that `READY=1` is sent once "the startup snapshots
  are folded in". `run` does not look at the context (`cmd/wanwatchd/main.go:177`):
  when a subsystem fails during startup, `prime` returns at once and `READY=1`
  is still sent before the process exits.

## Plan

The plan is carried out: the components above are modelled, and the safety
properties that can be proved are. A change of a handler in the code belongs in
`Daemon` and in `Handlers`; `HandlersAreOneStep` then fails at the step in which the
two disagree.

## Not modelled

- The ICMP byte encoding (`internal/probe/icmp.go`), JSON decoding and encoding,
  and the netlink messages: conversions without state of their own.
- The metrics registry and its HTTP exposition: they read state and never change
  it. The server's life is part of `Lifecycle`.
- The Nix library and module: they run at build time and enter through
  `ConfigAssumption`; the unit's settings are part of `Lifecycle`.
- Renames of interfaces (see Findings), Target name resolution, the length of
  retry delays, logs, timestamps.
- `os/exec`, the kernel and systemd are modelled as far as the code relies on
  them, and marked external; of the vendored `vishvananda/netlink`, the receiving
  goroutines and the deletion of conntrack entries are modelled.
