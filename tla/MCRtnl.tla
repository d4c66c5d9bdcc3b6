------------------------------- MODULE MCRtnl -------------------------------
(***************************************************************************)
(* The package rtnl for TLC: the route subscriber and the link subscriber. *)
(* They share nothing, so that a behaviour of one, with the other already  *)
(* ended, stands for every interleaving of the two.                        *)
(***************************************************************************)
EXTENDS RouteSubscriber, TLC

CONSTANTS
    i1, i2, x1, x2, x3, gwA, gwB,
    Links, Missing, NoReport, SocketCapacity, UpdateBuffer, MaxLinkChanges

VARIABLES
    link, socket, linkOverrun, receiver, inflight, linkUpdates, done, cancelled,
    linkPc, linkAttempt, state, linkEvent, linkOut, view, since, linkChanges

linkVars == <<link, socket, linkOverrun, receiver, inflight, linkUpdates, done, cancelled,
              linkPc, linkAttempt, state, linkEvent, linkOut, view, since, linkChanges>>

L == INSTANCE LinkSubscriber WITH
         overrun <- linkOverrun, updates <- linkUpdates, pc <- linkPc,
         attempt <- linkAttempt, event <- linkEvent, out <- linkOut,
         changes <- linkChanges, MaxChanges <- MaxLinkChanges

ASSUME LinksAssumption == L!LinkSubscriberAssumption

(* A subscriber that has ended, with nothing left that could change.       *)
RoutesEnded ==
    /\ names = StartNames /\ used = {x \in Indexes : StartNames[x] # Absent}
    /\ table = [f \in Families |-> {}] /\ unlinking = NoRoute
    /\ updates = <<>> /\ overrun = FALSE /\ out = <<>>
    /\ ifaceCache = [x \in Indexes |-> Absent]
    /\ pc = "exited" /\ snapshot = Empty /\ todo = {} /\ upd = NoUpdate
    /\ attempt = 1 /\ event = NoEvent
    /\ primed = FALSE /\ gateways = Empty
    /\ silent = {} /\ changes = MaxChanges

LinksEnded ==
    /\ link = [i \in Watched |-> Missing] /\ socket = <<>> /\ linkOverrun = FALSE
    /\ receiver = "closed" /\ inflight = NoEvent /\ linkUpdates = <<>>
    /\ done = TRUE /\ cancelled = TRUE /\ linkPc = "exited" /\ linkAttempt = 1
    /\ state = [i \in Watched |-> NoReport] /\ linkEvent = NoEvent /\ linkOut = <<>>
    /\ view = [i \in Watched |-> NoReport]
    /\ since = [i \in Watched |-> {L!Gone}] /\ linkChanges = MaxLinkChanges

SubscribersInit == (Init /\ LinksEnded) \/ (L!Init /\ RoutesEnded)

SubscribersNext ==
    \/ Next /\ UNCHANGED linkVars
    \/ L!Next /\ UNCHANGED vars

SubscribersSpec ==
    /\ SubscribersInit /\ [][SubscribersNext]_<<vars, linkVars>>
    /\ Fairness /\ L!Fairness
-----------------------------------------------------------------------------
Path(dev, via) == [dev |-> dev, via |-> via]
Default(f, metric, paths) == [family |-> f, main |-> TRUE, metric |-> metric, paths |-> paths]
OtherTable(f, paths) == [family |-> f, main |-> FALSE, metric |-> 1, paths |-> paths]

TwoLinks == (x1 :> i1) @@ (x2 :> i2) @@ (x3 :> Absent)

(* Two defaults on one interface, one over both, IPv4 and IPv6 side by     *)
(* side, a device that returns with a new index, a route of another table. *)
Mixed ==
    {Default("v4", 2, <<Path(x1, gwA)>>), Default("v4", 1, <<Path(x1, gwB)>>),
     Default("v4", 1, <<Path(x1, gwA), Path(x2, gwB), Path(x1, gwB)>>),
     Default("v6", 1, <<Path(x1, gwA)>>), Default("v6", 1, <<Path(x3, gwB)>>),
     OtherTable("v4", <<Path(x1, gwB)>>)}

Single == {Default("v4", 1, <<Path(x1, gwA)>>)}

UpDown == {[lowerUp |-> TRUE, operstate |-> "up"], [lowerUp |-> FALSE, operstate |-> "down"]}
-----------------------------------------------------------------------------
(* The daemon's view of every link agrees with the kernel at rest          *)
(* (LinkSubscriber).                                                       *)
ViewAgrees == L!ViewAgrees

(* Every event is a change, and none replays what is over                  *)
(* (LinkSubscriber).                                                       *)
EventsAreNews == L!EventsAreNews

(* Subscriber and receiver end together (LinkSubscriber).                  *)
StopsCleanly == L!StopsCleanly
=============================================================================
