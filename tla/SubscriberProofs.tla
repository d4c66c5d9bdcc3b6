-------------------------- MODULE SubscriberProofs --------------------------
(***************************************************************************)
(* The subscribers, for every set of interfaces, every queue length and    *)
(* every number of changes of the kernel.                                  *)
(***************************************************************************)
EXTENDS MCRtnl, FiniteSetTheorems, SequenceTheorems, WellFoundedInduction, TLAPS

(* A non-empty set of natural numbers has a least element, and a greatest  *)
(* one when it is bounded.                                                 *)
LEMMA LeastNat ==
    ASSUME NEW S \in SUBSET Nat, S # {}
    PROVE  Min(S) \in S /\ \A y \in S : Min(S) <= y
<1> DEFINE less == {ss \in Nat \X Nat : ss[1] < ss[2]}
<1>1. IsWellFoundedOn(less, Nat)
  BY NatLessThanWellFounded, Zenon DEF OpToRel
<1> HIDE DEF less
<1>2. PICK m \in S : \A y \in S : ~(<<y, m>> \in less)
  BY <1>1, WFMin, Zenon
<1>3. ASSUME NEW y \in S PROVE m <= y
  <2>1. y \in Nat /\ m \in Nat
    OBVIOUS
  <2>2. <<y, m>> \notin less
    BY <1>2
  <2>3. ~(y < m)
    BY <2>1, <2>2 DEF less
  <2> QED BY <2>1, <2>3
<1> QED BY <1>3 DEF Min

LEMMA GreatestNat ==
    ASSUME NEW n \in Nat, NEW S \in SUBSET (1..n), S # {}
    PROVE  Max(S) \in S /\ \A y \in S : Max(S) >= y
<1> DEFINE T == {n - k : k \in S}
<1>2. T \in SUBSET Nat /\ T # {}
  <2>1. \A k \in S : k \in 1..n
    OBVIOUS
  <2>2. \A k \in S : n - k \in Nat
    BY <2>1
  <2> QED BY <2>2
<1> HIDE DEF T
<1>3. PICK m \in T : \A t \in T : m <= t
  BY <1>2, LeastNat
<1>4. PICK x \in S : m = n - x
  BY <1>3 DEF T
<1>5. ASSUME NEW y \in S PROVE x >= y
  <2>1. n - y \in T
    BY DEF T
  <2>2. m <= n - y
    BY <1>3, <2>1
  <2> QED BY <1>4, <2>2
<1> QED BY <1>4, <1>5 DEF Max

(***************************************************************************)
(* The link subscriber.                                                    *)
(***************************************************************************)
Known == {L!Report(l) : l \in Links}
Msg == [name : Watched, link : Links \cup {Missing}]
Sayings == Known \cup {L!Gone, NoReport}
Telling == Watched \X (Known \cup {L!Gone})

LinkType ==
    /\ link \in [Watched -> Links \cup {Missing}]
    /\ socket \in Seq(Msg) /\ linkUpdates \in Seq(Msg)
    /\ linkOverrun \in BOOLEAN
    /\ receiver \in {"off", "receiving", "sending", "closed"}
    /\ receiver = "sending" => inflight \in Msg
    /\ linkPc \in {"off", "snapshot", "idle", "send", "draining", "exited"}
    /\ linkPc = "send" => linkEvent \in Telling
    /\ state \in [Watched -> Known \cup {NoReport}]
    /\ view \in [Watched -> Sayings]
    /\ linkOut \in Seq(Telling)
    /\ linkPc \in {"off", "snapshot"} => linkOut = <<>>
    /\ DOMAIN since = Watched

(* A notification that names i is on its way to the subscriber.            *)
Noted(i) ==
    \/ \E k \in DOMAIN socket : socket[k].name = i
    \/ receiver = "sending" /\ inflight.name = i
    \/ \E k \in DOMAIN linkUpdates : linkUpdates[k].name = i

Subscribed == linkPc \in {"idle", "send"}

(* The subscriber's map is current, or it will be told to look again.      *)
MapIsFresh ==
    Subscribed /\ receiver \in {"receiving", "sending"} /\ ~linkOverrun =>
        \A i \in Watched : state[i] = L!Remembered(link[i]) \/ Noted(i)

(* v is what was last said of i, in the channel or before it.              *)
Heard(i, v) ==
    \/ \E k \in DOMAIN linkOut :
          /\ linkOut[k][1] = i /\ linkOut[k][2] = v
          /\ \A m \in DOMAIN linkOut : m > k => linkOut[m][1] # i
    \/ (\A k \in DOMAIN linkOut : linkOut[k][1] # i) /\ view[i] = v

SaysOf(v, seen) == v = seen \/ (v = L!Gone /\ seen = NoReport)
InHand(i) == linkPc = "send" /\ linkEvent[1] = i

(* What was last said of i is what the map holds, once the event in hand   *)
(* is out.                                                                 *)
ToldTheMap ==
    Subscribed =>
        /\ linkPc = "send" => SaysOf(linkEvent[2], state[linkEvent[1]])
        /\ \A i \in Watched, v \in Sayings : Heard(i, v) /\ ~InHand(i) => SaysOf(v, state[i])

(* The event in hand is not what was said before it, and its link was like *)
(* that since.                                                             *)
InHandIsNews ==
    linkPc = "send" =>
        /\ \A v \in Sayings : Heard(linkEvent[1], v) => v # linkEvent[2]
        /\ linkEvent[2] \in since[linkEvent[1]]

SinceHoldsNow == \A i \in Watched : L!Report(link[i]) \in since[i]

LinkInv == LinkType /\ MapIsFresh /\ ToldTheMap /\ InHandIsNews /\ SinceHoldsNow

LEMMA LinksFacts ==
    /\ \A l \in Links : l.lowerUp \in BOOLEAN /\ l.operstate # "notpresent"
    /\ Missing \notin Links
    /\ \A l \in Links \cup {Missing} : L!Report(l) # NoReport
    /\ SocketCapacity \in Nat /\ UpdateBuffer \in Nat /\ OutCapacity \in Nat
BY LinksAssumption DEF L!LinkSubscriberAssumption

LEMMA Reports ==
    /\ \A l \in Links : L!Report(l) \in Known /\ L!Remembered(l) = L!Report(l)
    /\ L!Report(Missing) = L!Gone /\ L!Remembered(Missing) = NoReport
    /\ L!Gone \notin Known /\ NoReport \notin Known /\ NoReport # L!Gone
<1>1. \A l \in Links : L!Report(l) \in Known /\ L!Remembered(l) = L!Report(l)
  BY LinksFacts DEF Known, L!Remembered
<1>2. L!Report(Missing) = L!Gone /\ L!Remembered(Missing) = NoReport
  BY DEF L!Report, L!Remembered
<1>3. ASSUME NEW l \in Links PROVE L!Report(l) # L!Gone
  <2>1. l # Missing /\ l.operstate # "notpresent"
    BY LinksFacts
  <2>2. L!Report(l).operstate = l.operstate
    BY <2>1 DEF L!Report
  <2> QED BY <2>1, <2>2 DEF L!Gone
<1>4. NoReport # L!Gone
  BY <1>2, LinksFacts
<1> QED BY <1>1, <1>2, <1>3, <1>4, LinksFacts DEF Known

(* The last word on a link, after one more event and after one was taken.  *)
LEMMA HeardAppend ==
    ASSUME LinkType, NEW e \in Telling, linkOut' = Append(linkOut, e), view' = view,
           NEW i \in Watched, NEW v, Heard(i, v)'
    PROVE  IF i = e[1] THEN v = e[2] ELSE Heard(i, v)
<1>1. /\ Len(linkOut') = Len(linkOut) + 1 /\ Len(linkOut) \in Nat
      /\ DOMAIN linkOut = 1..Len(linkOut)
      /\ DOMAIN linkOut' = 1..(Len(linkOut) + 1)
      /\ \A k \in 1..Len(linkOut) : linkOut'[k] = linkOut[k]
      /\ linkOut'[Len(linkOut) + 1] = e
  BY DEF LinkType
<1>2. PICK n \in Nat : n = Len(linkOut)
  BY <1>1
<1>3. CASE i = e[1]
  BY <1>1, <1>2, <1>3 DEF Heard
<1>4. CASE i # e[1]
  <2>1. CASE \A k \in DOMAIN linkOut' : linkOut'[k][1] # i
    BY <1>1, <1>2, <1>4, <2>1 DEF Heard
  <2>2. ASSUME NEW k \in DOMAIN linkOut',
               linkOut'[k][1] = i, linkOut'[k][2] = v,
               \A m \in DOMAIN linkOut' : m > k => linkOut'[m][1] # i
        PROVE  Heard(i, v)
    <3>1. k \in 1..n
      BY <1>1, <1>2, <1>4, <2>2
    <3>2. linkOut[k][1] = i /\ linkOut[k][2] = v
      BY <1>1, <1>2, <2>2, <3>1
    <3>3. \A m \in DOMAIN linkOut : m > k => linkOut[m][1] # i
      BY <1>1, <1>2, <2>2, <3>1
    <3> QED BY <1>1, <1>2, <3>1, <3>2, <3>3 DEF Heard
  <2>3. \/ \A k \in DOMAIN linkOut' : linkOut'[k][1] # i
        \/ \E k \in DOMAIN linkOut' :
              /\ linkOut'[k][1] = i /\ linkOut'[k][2] = v
              /\ \A m \in DOMAIN linkOut' : m > k => linkOut'[m][1] # i
    BY DEF Heard
  <2> QED BY <1>4, <2>1, <2>2, <2>3
<1> QED BY <1>3, <1>4

LEMMA HeardTail ==
    ASSUME LinkType, linkOut # <<>>, linkOut' = Tail(linkOut),
           view' = [view EXCEPT ![Head(linkOut)[1]] = Head(linkOut)[2]],
           NEW i \in Watched, NEW v, Heard(i, v)'
    PROVE  Heard(i, v)
<1>1. PICK n \in Nat : n = Len(linkOut)
  BY DEF LinkType
<1>2. /\ n > 0 /\ DOMAIN linkOut = 1..n /\ DOMAIN linkOut' = 1..(n - 1)
      /\ \A k \in 1..(n - 1) : linkOut'[k] = linkOut[k + 1]
      /\ Head(linkOut) = linkOut[1] /\ linkOut[1] \in Telling
  BY <1>1 DEF LinkType
<1>3. CASE \E k \in DOMAIN linkOut' : linkOut'[k][1] = i
  <2>1. PICK k \in 1..(n - 1) :
            /\ linkOut'[k][1] = i /\ linkOut'[k][2] = v
            /\ \A m \in 1..(n - 1) : m > k => linkOut'[m][1] # i
    BY <1>2, <1>3 DEF Heard
  <2>2. k + 1 \in 1..n /\ linkOut[k + 1][1] = i /\ linkOut[k + 1][2] = v
    BY <1>1, <1>2, <2>1
  <2>3. ASSUME NEW m \in 1..n, m > k + 1 PROVE linkOut[m][1] # i
    <3>1. m - 1 \in 1..(n - 1) /\ m - 1 > k /\ (m - 1) + 1 = m
      BY <1>1, <2>1, <2>3
    <3>2. linkOut'[m - 1] = linkOut[(m - 1) + 1]
      BY <1>2, <3>1
    <3> QED BY <2>1, <3>1, <3>2
  <2> QED BY <1>2, <2>2, <2>3 DEF Heard
<1>4. CASE ~\E k \in DOMAIN linkOut' : linkOut'[k][1] = i
  <2>1. view'[i] = v
    BY <1>4 DEF Heard
  <2>2. ASSUME NEW m \in 1..n, m > 1 PROVE linkOut[m][1] # i
    <3>1. m - 1 \in 1..(n - 1) /\ (m - 1) + 1 = m
      BY <1>1, <2>2
    <3>2. linkOut'[m - 1] = linkOut[(m - 1) + 1]
      BY <1>2, <3>1
    <3> QED BY <1>2, <1>4, <3>1, <3>2
  <2>3. CASE linkOut[1][1] = i
    <3>1. view'[i] = linkOut[1][2]
      BY <1>2, <2>3 DEF LinkType
    <3> QED BY <1>2, <2>1, <2>2, <2>3, <3>1 DEF Heard
  <2>4. CASE linkOut[1][1] # i
    <3>1. view'[i] = view[i]
      BY <1>2, <2>4 DEF LinkType
    <3>2. \A k \in 1..n : linkOut[k][1] # i
      BY <2>2, <2>4
    <3> QED BY <1>2, <2>1, <3>1, <3>2 DEF Heard
  <2> QED BY <2>3, <2>4
<1> QED BY <1>3, <1>4

LEMMA HeardLastTold ==
    ASSUME LinkType, NEW i \in Watched
    PROVE  Heard(i, L!LastTold(i)) /\ L!LastTold(i) \in Sayings
<1> DEFINE mine == {k \in DOMAIN linkOut : linkOut[k][1] = i}
<1>1. DOMAIN linkOut = 1..Len(linkOut) /\ Len(linkOut) \in Nat
  BY DEF LinkType
<1>2. CASE mine = {}
  BY <1>2 DEF L!LastTold, Heard, LinkType
<1>3. CASE mine # {}
  <2>1. mine \in SUBSET (1..Len(linkOut))
    BY <1>1
  <2>2. PICK m : m = L!Max(mine)
    OBVIOUS
  <2>3. m \in mine /\ \A k \in mine : m >= k
    <3> HIDE DEF mine
    <3> QED BY <1>1, <1>3, <2>1, <2>2, GreatestNat DEF L!Max, Max
  <2>4. L!LastTold(i) = linkOut[m][2]
    BY <1>3, <2>2 DEF L!LastTold
  <2>5. \A k \in DOMAIN linkOut : k > m => linkOut[k][1] # i
    BY <1>1, <2>3
  <2>6. linkOut[m] \in Telling
    BY <2>3, <1>1 DEF LinkType
  <2> QED BY <2>3, <2>4, <2>5, <2>6 DEF Heard, Telling, Sayings
<1> QED BY <1>2, <1>3

(* Notifications on their way: none is lost between the queues.            *)
LEMMA NotedForward ==
    ASSUME LinkType, L!Receive \/ L!Forward, receiver' # "closed",
           NEW i \in Watched, Noted(i)
    PROVE  Noted(i)'
<1>1. CASE L!Receive
  <2>1. /\ socket # <<>> /\ inflight' = Head(socket) /\ socket' = Tail(socket)
        /\ receiver' = "sending" /\ receiver = "receiving" /\ linkUpdates' = linkUpdates
    BY <1>1 DEF L!Receive
  <2>2. PICK n \in Nat : n = Len(socket)
    BY DEF LinkType
  <2>3. /\ n > 0 /\ DOMAIN socket = 1..n /\ DOMAIN socket' = 1..(n - 1)
        /\ \A k \in 1..(n - 1) : socket'[k] = socket[k + 1]
        /\ inflight' = socket[1]
    BY <2>1, <2>2 DEF LinkType
  <2>4. ASSUME NEW k \in 1..n, socket[k].name = i PROVE Noted(i)'
    <3>1. CASE k = 1
      BY <2>1, <2>3, <2>4, <3>1 DEF Noted
    <3>2. CASE k # 1
      <4>1. k - 1 \in 1..(n - 1) /\ (k - 1) + 1 = k
        BY <2>2, <2>4, <3>2
      <4>2. socket'[k - 1] = socket[(k - 1) + 1]
        BY <2>3, <4>1
      <4> QED BY <2>3, <2>4, <4>1, <4>2 DEF Noted
    <3> QED BY <3>1, <3>2
  <2> QED BY <2>1, <2>3, <2>4 DEF Noted
<1>2. CASE L!Forward
  <2>1. /\ receiver = "sending" /\ linkUpdates' = Append(linkUpdates, inflight)
        /\ receiver' = "receiving" /\ socket' = socket
    BY <1>2 DEF L!Forward
  <2>2. /\ DOMAIN linkUpdates = 1..Len(linkUpdates) /\ Len(linkUpdates) \in Nat
        /\ DOMAIN linkUpdates' = 1..(Len(linkUpdates) + 1)
        /\ \A k \in 1..Len(linkUpdates) : linkUpdates'[k] = linkUpdates[k]
        /\ linkUpdates'[Len(linkUpdates) + 1] = inflight
    BY <2>1 DEF LinkType
  <2> QED BY <2>1, <2>2 DEF Noted
<1> QED BY <1>1, <1>2

(* Taking a notification from the channel loses it only for the link it    *)
(* names.                                                                  *)
LEMMA NotedRead ==
    ASSUME LinkType, linkUpdates # <<>>, linkUpdates' = Tail(linkUpdates),
           UNCHANGED <<socket, receiver, inflight>>,
           NEW i \in Watched, Noted(i), Head(linkUpdates).name # i
    PROVE  Noted(i)'
<1>1. PICK n \in Nat : n = Len(linkUpdates)
  BY DEF LinkType
<1>2. /\ n > 0 /\ DOMAIN linkUpdates = 1..n /\ DOMAIN linkUpdates' = 1..(n - 1)
      /\ \A k \in 1..(n - 1) : linkUpdates'[k] = linkUpdates[k + 1]
      /\ Head(linkUpdates) = linkUpdates[1]
  BY <1>1 DEF LinkType
<1>3. ASSUME NEW k \in 1..n, linkUpdates[k].name = i PROVE Noted(i)'
  <2>1. k - 1 \in 1..(n - 1) /\ (k - 1) + 1 = k
    BY <1>1, <1>2, <1>3
  <2>2. linkUpdates'[k - 1] = linkUpdates[(k - 1) + 1]
    BY <1>2, <2>1
  <2> QED BY <1>2, <1>3, <2>1, <2>2 DEF Noted
<1> QED BY <1>2, <1>3 DEF Noted

LEMMA HeardSame ==
    ASSUME UNCHANGED <<linkOut, view>>, NEW i, NEW v
    PROVE  Heard(i, v)' <=> Heard(i, v)
BY DEF Heard

LEMMA LinkInvInit == L!Init => LinkInv
<1> SUFFICES ASSUME L!Init PROVE LinkInv
  OBVIOUS
<1> USE DEF L!Init
<1>1. LinkType
  <2>1. /\ state \in [Watched -> Known \cup {NoReport}]
        /\ view \in [Watched -> Sayings]
        /\ DOMAIN since = Watched
    BY DEF Sayings
  <2>2. socket = <<>> /\ linkUpdates = <<>> /\ linkOut = <<>>
    OBVIOUS
  <2>3. socket \in Seq(Msg) /\ linkUpdates \in Seq(Msg) /\ linkOut \in Seq(Telling)
    BY <2>2
  <2> QED BY <2>1, <2>2, <2>3 DEF LinkType
<1>2. linkPc = "off"
  OBVIOUS
<1>3. SinceHoldsNow
  BY DEF SinceHoldsNow
<1> QED BY <1>1, <1>2, <1>3 DEF LinkInv, MapIsFresh, ToldTheMap, InHandIsNews, Subscribed

(* The subscriber on its way out reports nothing and promises nothing.     *)
LEMMA StopKeeps ==
    ASSUME LinkInv, NEW why, L!Stop(why)
    PROVE  LinkInv'
<1> USE DEF LinkInv, L!Stop
<1>1. LinkType'
  BY DEF LinkType, L!lib
<1>2. linkPc' = "draining"
  OBVIOUS
<1>3. SinceHoldsNow'
  BY DEF SinceHoldsNow
<1> QED BY <1>1, <1>2, <1>3 DEF MapIsFresh, ToldTheMap, InHandIsNews, Subscribed

LEMMA ChangeLinkKeeps ==
    ASSUME LinkInv, NEW i \in Watched, NEW l \in Links \cup {Missing}, L!ChangeLink(i, l)
    PROVE  LinkInv'
<1> USE DEF LinkInv
<1>0. /\ link' = [link EXCEPT ![i] = l]
      /\ since' = [since EXCEPT ![i] = @ \cup {L!Report(l)}]
      /\ UNCHANGED <<receiver, inflight, linkUpdates, linkPc, state, linkEvent, linkOut, view>>
      /\ \/ receiver \in {"off", "closed"} /\ UNCHANGED <<socket, linkOverrun>>
         \/ socket' = Append(socket, [name |-> i, link |-> l]) /\ UNCHANGED linkOverrun
         \/ linkOverrun' = TRUE /\ UNCHANGED socket
  BY DEF L!ChangeLink, L!lib
<1>1. LinkType'
  <2>1. PICK m \in Msg : m = [name |-> i, link |-> l]
    BY DEF Msg
  <2>2. socket' \in Seq(Msg)
    <3>1. socket' = socket \/ socket' = Append(socket, m)
      BY <1>0, <2>1
    <3>2. socket \in Seq(Msg)
      BY DEF LinkType
    <3>3. Append(socket, m) \in Seq(Msg)
      BY <3>2, <2>1, AppendProperties
    <3> QED BY <3>1, <3>2, <3>3
  <2>3. /\ link' \in [Watched -> Links \cup {Missing}]
        /\ DOMAIN since' = Watched
    BY <1>0 DEF LinkType
  <2>4. linkOverrun' \in BOOLEAN
    <3>1. linkOverrun' = linkOverrun \/ linkOverrun' = TRUE
      BY <1>0
    <3> QED BY <3>1 DEF LinkType
  <2> QED BY <1>0, <2>2, <2>3, <2>4 DEF LinkType
<1>2. MapIsFresh'
  <2> SUFFICES ASSUME Subscribed', receiver' \in {"receiving", "sending"}, ~linkOverrun',
                      NEW j \in Watched
               PROVE  state'[j] = L!Remembered(link'[j]) \/ Noted(j)'
    BY DEF MapIsFresh
  <2>1. socket' = Append(socket, [name |-> i, link |-> l]) /\ ~linkOverrun
    BY <1>0
  <2>2. /\ DOMAIN socket = 1..Len(socket) /\ Len(socket) \in Nat
        /\ DOMAIN socket' = 1..(Len(socket) + 1)
        /\ \A k \in 1..Len(socket) : socket'[k] = socket[k]
        /\ socket'[Len(socket) + 1] = [name |-> i, link |-> l]
    BY <2>1 DEF LinkType, Msg
  <2>3. CASE j = i
    BY <2>2, <2>3 DEF Noted
  <2>4. CASE j # i
    <3>1. link'[j] = link[j] /\ state'[j] = state[j]
      BY <1>0, <2>4 DEF LinkType
    <3>2. state[j] = L!Remembered(link[j]) \/ Noted(j)
      BY <1>0, <2>1 DEF MapIsFresh, Subscribed
    <3>3. Noted(j) => Noted(j)'
      BY <1>0, <2>2 DEF Noted
    <3> QED BY <3>1, <3>2, <3>3
  <2> QED BY <2>3, <2>4
<1>3. ToldTheMap'
  BY <1>0, HeardSame DEF ToldTheMap, Subscribed, InHand
<1>4. InHandIsNews'
  BY <1>0, HeardSame DEF InHandIsNews, LinkType, Heard, Telling
<1>5. SinceHoldsNow'
  BY <1>0 DEF SinceHoldsNow, LinkType
<1> QED BY <1>1, <1>2, <1>3, <1>4, <1>5

LEMMA ReceiverKeeps ==
    ASSUME LinkInv, L!Receive \/ L!Forward
    PROVE  LinkInv'
<1> USE DEF LinkInv
<1>0. UNCHANGED <<link, linkOverrun, linkPc, state, linkEvent, linkOut, view, since>>
  BY DEF L!Receive, L!Forward
<1>1. LinkType'
  <2>1. CASE L!Receive
    <3>1. socket # <<>> => Head(socket) \in Msg /\ Tail(socket) \in Seq(Msg)
      BY DEF LinkType
    <3> QED BY <2>1, <3>1 DEF LinkType, L!Receive
  <2>2. CASE L!Forward
    BY <2>2 DEF LinkType, L!Forward
  <2> QED BY <2>1, <2>2
<1>2. MapIsFresh'
  <2>1. receiver \in {"receiving", "sending"}
    BY DEF L!Receive, L!Forward
  <2> QED BY <1>0, <2>1, NotedForward DEF MapIsFresh, Subscribed
<1>3. ToldTheMap'
  BY <1>0, HeardSame DEF ToldTheMap, Subscribed, InHand
<1>4. InHandIsNews'
  BY <1>0, HeardSame DEF InHandIsNews, Heard
<1>5. SinceHoldsNow'
  BY <1>0 DEF SinceHoldsNow
<1> QED BY <1>1, <1>2, <1>3, <1>4, <1>5

LEMMA ReadSnapshotKeeps ==
    ASSUME LinkInv, L!ReadSnapshot
    PROVE  LinkInv'
<1> USE DEF LinkInv
<1>1. CASE L!Stop(cancelled)
  BY <1>1, StopKeeps
<1>2. ASSUME linkPc = "snapshot", linkPc' = "idle",
             state' = [i \in Watched |-> L!Remembered(link[i])],
             view' = state',
             since' = [i \in Watched |-> {L!Report(link[i])}],
             UNCHANGED <<link, socket, linkOverrun, L!lib, linkUpdates, linkEvent, linkOut>>
      PROVE  LinkInv'
  <2>0. linkOut' = <<>> /\ UNCHANGED <<receiver, inflight>>
    BY <1>2 DEF LinkType, L!lib
  <2>1. \A i \in Watched : L!Remembered(link[i]) \in Known \cup {NoReport}
    BY Reports DEF LinkType
  <2>2. LinkType'
    <3>1. state' \in [Watched -> Known \cup {NoReport}] /\ view' \in [Watched -> Sayings]
      BY <1>2, <2>1 DEF Sayings
    <3> QED BY <1>2, <2>0, <3>1 DEF LinkType
  <2>3. MapIsFresh'
    BY <1>2 DEF MapIsFresh
  <2>4. ToldTheMap'
    <3>1. \A i \in Watched : \A v : Heard(i, v)' => v = state'[i]
      BY <1>2, <2>0 DEF Heard
    <3> QED BY <1>2, <3>1 DEF ToldTheMap, SaysOf
  <2>5. SinceHoldsNow' /\ InHandIsNews'
    BY <1>2 DEF SinceHoldsNow, InHandIsNews
  <2> QED BY <2>2, <2>3, <2>4, <2>5
<1> QED BY <1>1, <1>2 DEF L!ReadSnapshot

(* Reading the link a notification names: nothing new, or news in hand.    *)
LEMMA ReconcileKeeps ==
    ASSUME LinkInv, L!Reconcile
    PROVE  LinkInv'
<1> USE DEF LinkInv
<1>1. CASE L!Stop(TRUE)
  BY <1>1, StopKeeps
<1>2. ASSUME NEW i, NEW l, i = Head(linkUpdates).name, l = link[i],
             linkPc = "idle", linkUpdates # <<>>,
             linkUpdates' = Tail(linkUpdates),
             state' = [state EXCEPT ![i] = L!Remembered(l)],
             linkEvent' = IF L!Emits(state[i], l) THEN <<i, L!Report(l)>> ELSE L!NoEvent,
             linkPc' = IF linkEvent' = L!NoEvent THEN "idle" ELSE "send",
             UNCHANGED <<link, socket, linkOverrun, receiver, inflight, linkOut, view, since>>
      PROVE  LinkInv'
  <2>1. i \in Watched /\ linkUpdates' \in Seq(Msg)
    <3>1. Head(linkUpdates) \in Msg /\ linkUpdates' \in Seq(Msg)
      BY <1>2 DEF LinkType
    <3> QED BY <1>2, <3>1 DEF Msg
  <2>2. l \in Links \cup {Missing} /\ L!Remembered(l) \in Known \cup {NoReport}
    BY <1>2, <2>1, Reports DEF LinkType
  <2>3. \/ /\ state[i] = L!Remembered(l) /\ linkPc' = "idle"
        \/ /\ state[i] # L!Remembered(l) /\ linkPc' = "send"
           /\ linkEvent' = <<i, L!Report(l)>>
    BY <1>2 DEF L!Emits, L!NoEvent
  <2>4. LinkType'
    <3>1. <<i, L!Report(l)>> \in Telling
      BY <2>1, <2>2, Reports DEF Telling
    <3>2. state' \in [Watched -> Known \cup {NoReport}]
      BY <1>2, <2>1, <2>2 DEF LinkType
    <3> QED BY <1>2, <2>1, <2>3, <3>1, <3>2 DEF LinkType
  <2>5. MapIsFresh'
    <3> SUFFICES ASSUME receiver \in {"receiving", "sending"}, ~linkOverrun, NEW j \in Watched
                 PROVE  state'[j] = L!Remembered(link[j]) \/ Noted(j)'
      BY <1>2 DEF MapIsFresh
    <3>1. CASE j = i
      BY <1>2, <3>1 DEF LinkType
    <3>2. CASE j # i
      <4>1. state'[j] = state[j]
        BY <1>2, <3>2 DEF LinkType
      <4>2. state[j] = L!Remembered(link[j]) \/ Noted(j)
        BY <1>2 DEF MapIsFresh, Subscribed
      <4>3. Noted(j) => Noted(j)'
        BY <1>2, <3>2, NotedRead
      <4> QED BY <4>1, <4>2, <4>3
    <3> QED BY <3>1, <3>2
  <2>6. \A j \in Watched, v \in Sayings : Heard(j, v) => SaysOf(v, state[j])
    BY <1>2 DEF ToldTheMap, Subscribed, InHand
  <2>7. \A j \in Watched, v \in Sayings : Heard(j, v)' <=> Heard(j, v)
    BY <1>2, HeardSame
  <2>8. ToldTheMap'
    <3>1. CASE state[i] = L!Remembered(l) /\ linkPc' = "idle"
      <4>1. state' = state
        BY <1>2, <2>1, <3>1 DEF LinkType
      <4> QED BY <2>6, <2>7, <3>1, <4>1 DEF ToldTheMap, InHand
    <3>2. CASE linkPc' = "send" /\ linkEvent' = <<i, L!Report(l)>>
      <4>1. state'[i] = L!Remembered(l) /\ \A j \in Watched \ {i} : state'[j] = state[j]
        BY <1>2, <2>1 DEF LinkType
      <4>2. SaysOf(L!Report(l), L!Remembered(l))
        BY <2>2, Reports DEF SaysOf
      <4>3. linkEvent'[1] = i /\ linkEvent'[2] = L!Report(l)
        BY <3>2
      <4> QED BY <2>6, <2>7, <3>2, <4>1, <4>2, <4>3 DEF ToldTheMap, InHand
    <3> QED BY <2>3, <3>1, <3>2
  <2>9. InHandIsNews'
    <3> SUFFICES ASSUME linkPc' = "send" PROVE InHandIsNews'
      BY DEF InHandIsNews
    <3>1. state[i] # L!Remembered(l) /\ linkEvent' = <<i, L!Report(l)>>
      BY <2>3
    <3>2. linkEvent'[1] = i /\ linkEvent'[2] = L!Report(l)
      BY <3>1
    <3>3. ASSUME NEW v \in Sayings, Heard(i, v) PROVE v # L!Report(l)
      <4>1. SaysOf(v, state[i]) /\ state[i] \in Known \cup {NoReport}
        BY <2>1, <2>6, <3>3 DEF LinkType
      <4> QED BY <2>2, <3>1, <4>1, Reports DEF SaysOf
    <3>4. L!Report(l) \in since'[i]
      BY <1>2, <2>1 DEF SinceHoldsNow
    <3>5. \A v \in Sayings : Heard(i, v)' => v # L!Report(l)
      BY <2>1, <2>7, <3>3
    <3> QED BY <3>2, <3>4, <3>5 DEF InHandIsNews, Heard
  <2>10. SinceHoldsNow'
    BY <1>2 DEF SinceHoldsNow
  <2> QED BY <2>4, <2>5, <2>8, <2>9, <2>10
<1>3. linkPc = "idle" /\ linkUpdates # <<>>
  BY DEF L!Reconcile
<1>4. CASE ~L!Stop(TRUE)
  <2>1. PICK i, l : i = Head(linkUpdates).name /\ l = link[i]
    OBVIOUS
  <2> QED BY <1>2, <1>3, <1>4, <2>1 DEF L!Reconcile, L!ReadLink, L!lib
<1> QED BY <1>1, <1>4

LEMMA SendKeeps ==
    ASSUME LinkInv, L!Send
    PROVE  LinkInv'
<1> USE DEF LinkInv
<1>1. PICK e : e = linkEvent
  OBVIOUS
<1>2. /\ linkPc = "send" /\ linkPc' = "idle" /\ linkOut' = Append(linkOut, e)
      /\ since' = [since EXCEPT ![e[1]] = {L!Report(link[e[1]])}]
      /\ UNCHANGED <<link, socket, linkOverrun, receiver, inflight, linkUpdates, state, view>>
  BY <1>1 DEF L!Send, L!lib
<1>3. e \in Telling /\ e[1] \in Watched
  BY <1>1, <1>2 DEF LinkType, Telling
<1>4. LinkType'
  <2>1. linkOut' \in Seq(Telling) /\ DOMAIN since' = Watched
    BY <1>2, <1>3 DEF LinkType
  <2> QED BY <1>2, <2>1 DEF LinkType
<1>5. MapIsFresh'
  BY <1>2 DEF MapIsFresh, Subscribed, Noted
<1>6. ToldTheMap'
  <2>1. ASSUME NEW i \in Watched, NEW v \in Sayings, Heard(i, v)'
        PROVE  SaysOf(v, state'[i])
    <3>1. IF i = e[1] THEN v = e[2] ELSE Heard(i, v)
      BY <1>2, <1>3, <2>1, HeardAppend
    <3>2. CASE i = e[1]
      BY <1>1, <1>2, <3>1, <3>2 DEF ToldTheMap, Subscribed
    <3>3. CASE i # e[1]
      BY <1>1, <1>2, <3>1, <3>3 DEF ToldTheMap, Subscribed, InHand
    <3> QED BY <3>2, <3>3
  <2> QED BY <1>2, <2>1 DEF ToldTheMap
<1>7. SinceHoldsNow'
  BY <1>2, <1>3 DEF SinceHoldsNow, LinkType
<1> QED BY <1>2, <1>4, <1>5, <1>6, <1>7 DEF InHandIsNews

LEMMA ObserveKeeps ==
    ASSUME LinkInv, L!Observe
    PROVE  LinkInv'
<1> USE DEF LinkInv
<1>1. /\ linkOut # <<>> /\ linkOut' = Tail(linkOut)
      /\ view' = [view EXCEPT ![Head(linkOut)[1]] = Head(linkOut)[2]]
      /\ UNCHANGED <<link, socket, linkOverrun, receiver, inflight, linkUpdates, linkPc,
                     state, linkEvent, since>>
  BY DEF L!Observe, L!lib
<1>2. LinkType'
  <2>1. Head(linkOut) \in Telling /\ Tail(linkOut) \in Seq(Telling)
    BY <1>1 DEF LinkType
  <2>2. view' \in [Watched -> Sayings]
    BY <1>1, <2>1 DEF LinkType, Telling, Sayings
  <2>3. linkPc \notin {"off", "snapshot"}
    BY <1>1 DEF LinkType
  <2> QED BY <1>1, <2>1, <2>2, <2>3 DEF LinkType
<1>3. MapIsFresh'
  BY <1>1 DEF MapIsFresh, Subscribed, Noted
<1>4. \A i \in Watched, v \in Sayings : Heard(i, v)' => Heard(i, v)
  BY <1>1, HeardTail
<1>5. ToldTheMap'
  BY <1>1, <1>4 DEF ToldTheMap, Subscribed, InHand
<1>6. InHandIsNews'
  <2> SUFFICES ASSUME linkPc = "send" PROVE InHandIsNews'
    BY <1>1 DEF InHandIsNews
  <2>1. PICK i \in Watched : i = linkEvent[1]
    BY DEF LinkType, Telling
  <2>2. \A v \in Sayings : Heard(i, v) => v # linkEvent[2]
    BY <2>1 DEF InHandIsNews
  <2>3. \A v \in Sayings : Heard(i, v)' => v # linkEvent[2]
    BY <1>4, <2>2
  <2>4. linkEvent[2] \in since[i]
    BY <2>1 DEF InHandIsNews
  <2> QED BY <1>1, <2>1, <2>3, <2>4 DEF InHandIsNews, Heard
<1>7. SinceHoldsNow'
  BY <1>1 DEF SinceHoldsNow
<1> QED BY <1>2, <1>3, <1>5, <1>6, <1>7

(* Steps that touch no link, no map and no report.                         *)
LEMMA AsideKeeps ==
    ASSUME LinkInv, L!Subscribe \/ L!DrainUpdates \/ L!Cancel \/ UNCHANGED L!vars
    PROVE  LinkInv'
<1> USE DEF LinkInv
<1>1. UNCHANGED <<link, socket, linkOverrun, inflight, state, linkEvent, linkOut, view, since>>
  BY DEF L!Subscribe, L!DrainUpdates, L!Cancel, L!vars, L!lib
<1>2. \/ /\ linkPc \in {"off", "draining"} /\ linkPc' \in {"snapshot", "draining", "exited"}
         /\ linkPc = "draining" => linkPc' # "snapshot"
         /\ receiver' \in {receiver, "receiving"}
         /\ linkUpdates' = linkUpdates \/ (linkUpdates # <<>> /\ linkUpdates' = Tail(linkUpdates))
      \/ UNCHANGED <<linkPc, receiver, linkUpdates>>
  BY DEF L!Subscribe, L!DrainUpdates, L!Cancel, L!vars, L!lib
<1>3. LinkType'
  <2>1. linkUpdates' \in Seq(Msg)
    <3>1. linkUpdates # <<>> => Tail(linkUpdates) \in Seq(Msg)
      BY DEF LinkType
    <3> QED BY <1>2, <3>1 DEF LinkType
  <2>2. receiver' = "sending" => receiver = "sending"
    BY <1>2
  <2>3. receiver' \in {"off", "receiving", "sending", "closed"}
    BY <1>2 DEF LinkType
  <2> QED BY <1>1, <1>2, <2>1, <2>2, <2>3 DEF LinkType
<1>4. CASE linkPc' \in {"snapshot", "draining", "exited"}
  BY <1>1, <1>3, <1>4 DEF MapIsFresh, ToldTheMap, InHandIsNews, SinceHoldsNow, Subscribed
<1>5. CASE UNCHANGED <<linkPc, receiver, linkUpdates>>
  <2>1. MapIsFresh'
    BY <1>1, <1>5 DEF MapIsFresh, Subscribed, Noted
  <2>2. ToldTheMap'
    BY <1>1, <1>5, HeardSame DEF ToldTheMap, Subscribed, InHand
  <2>3. InHandIsNews'
    BY <1>1, <1>5, HeardSame DEF InHandIsNews, Heard
  <2> QED BY <1>1, <1>3, <2>1, <2>2, <2>3 DEF SinceHoldsNow
<1> QED BY <1>2, <1>4, <1>5

LEMMA DumpFailsKeeps ==
    ASSUME LinkInv, L!DumpFails
    PROVE  LinkInv'
<1>1. CASE L!Stop(TRUE)
  BY <1>1, StopKeeps
<1>2. CASE UNCHANGED <<link, socket, linkOverrun, L!lib, linkUpdates, linkPc, state,
                       linkEvent, linkOut, view, since>> /\ linkPc = "snapshot"
  BY <1>2 DEF LinkInv, LinkType, MapIsFresh, ToldTheMap, InHandIsNews, SinceHoldsNow,
              Subscribed, L!lib
<1> QED BY <1>1, <1>2 DEF L!DumpFails

LEMMA LinkInvNext == LinkInv /\ [L!Next]_(L!vars) => LinkInv'
<1> SUFFICES ASSUME LinkInv, [L!Next]_(L!vars) PROVE LinkInv'
  OBVIOUS
<1>1. CASE L!NoticeEnd
  BY <1>1, StopKeeps DEF L!NoticeEnd
<1> QED BY <1>1, ChangeLinkKeeps, ReceiverKeeps, ReadSnapshotKeeps, ReconcileKeeps, SendKeeps,
           ObserveKeeps, AsideKeeps, DumpFailsKeeps DEF L!Next, L!SubscriberStep

(* Whenever all notifications are worked off, the daemon has been told of  *)
(* the current carrier and operstate of every watched link, whatever was   *)
(* queued, coalesced or read late (LinkSubscriber.StartWith,               *)
(* handleUpdate).                                                          *)
THEOREM LinkViewAgrees == L!Spec => []ViewAgrees
<1>1. LinkInv => ViewAgrees
  <2> SUFFICES ASSUME LinkInv, L!Quiet, NEW i \in Watched
               PROVE  view[i] = L!Report(link[i]) \/ (view[i] = NoReport /\ link[i] = Missing)
    BY DEF ViewAgrees, L!ViewAgrees
  <2> USE DEF LinkInv
  <2>1. linkPc = "idle" /\ ~Noted(i) /\ linkOut = <<>>
    BY DEF L!Quiet, Noted
  <2>2. state[i] = L!Remembered(link[i])
    BY <2>1 DEF MapIsFresh, Subscribed, L!Quiet
  <2>3. Heard(i, view[i]) /\ view[i] \in Sayings
    BY <2>1 DEF Heard, LinkType
  <2>4. SaysOf(view[i], state[i])
    BY <2>1, <2>3 DEF ToldTheMap, Subscribed, InHand
  <2>5. link[i] \in Links \cup {Missing}
    BY DEF LinkType
  <2> QED BY <2>2, <2>4, <2>5, Reports DEF SaysOf
<1> QED BY LinkInvInit, LinkInvNext, <1>1, PTL DEF L!Spec

(* Every link event is a change, and tells of a state the link has had     *)
(* since the event before it: notifications that queued up replay nothing  *)
(* that is over (runLoop, reconcileVia, handleUpdate).                     *)
THEOREM LinkEventsAreNews == L!Spec => EventsAreNews
<1> DEFINE News == Len(linkOut') > Len(linkOut) =>
                      LET e == L!Last(linkOut')
                      IN  e[2] # L!LastTold(e[1]) /\ e[2] \in since[e[1]]
<1>1. ASSUME LinkInv, [L!Next]_(L!vars) PROVE [News]_(L!vars)
  <2>1. ASSUME L!Send PROVE News
    <3>1. PICK e : e = linkEvent
      OBVIOUS
    <3>2. e \in Telling /\ linkOut' = Append(linkOut, e) /\ linkPc = "send"
      BY <2>1, <1>1, <3>1 DEF L!Send, LinkInv, LinkType
    <3>3. L!Last(linkOut') = e
      BY <1>1, <3>2 DEF L!Last, LinkInv, LinkType
    <3>4. e[1] \in Watched
      BY <3>2 DEF Telling
    <3>5. Heard(e[1], L!LastTold(e[1])) /\ L!LastTold(e[1]) \in Sayings
      BY <1>1, <3>4, HeardLastTold DEF LinkInv
    <3>6. e[2] # L!LastTold(e[1]) /\ e[2] \in since[e[1]]
      BY <1>1, <3>1, <3>2, <3>5 DEF LinkInv, InHandIsNews
    <3> QED BY <3>3, <3>6
  <2>2. ASSUME ~L!Send PROVE ~(Len(linkOut') > Len(linkOut))
    <3>1. linkOut \in Seq(Telling)
      BY <1>1 DEF LinkInv, LinkType
    <3>2. linkOut' = linkOut \/ (linkOut # <<>> /\ linkOut' = Tail(linkOut))
      BY <1>1, <2>2 DEF L!Next, L!SubscriberStep, L!ChangeLink, L!Receive, L!Forward,
         L!Subscribe, L!DumpFails, L!ReadSnapshot, L!Reconcile, L!NoticeEnd,
         L!DrainUpdates, L!Observe, L!Cancel, L!Stop, L!vars
    <3> QED BY <3>1, <3>2
  <2> QED BY <2>1, <2>2
<1> QED BY <1>1, LinkInvInit, LinkInvNext, PTL DEF L!Spec, EventsAreNews, L!EventsAreNews

(***************************************************************************)
(* The route subscriber.                                                   *)
(***************************************************************************)
Notice == [type : {"new", "del"}, route : Routes]
New(r) == [type |-> "new", route |-> r]
Del(r) == [type |-> "del", route |-> r]
Naming == [Indexes -> Ifaces \cup {Absent}]
Dump == SUBSET (Routes \X Routes)
Vias == {NoEntry} \cup {SelectDefault(dump, i, n) : dump \in Dump, i \in Watched, n \in Naming}

RouteType ==
    /\ names \in Naming /\ ifaceCache \in Naming
    /\ used \subseteq Indexes
    /\ table \in [Families -> Dump]
    /\ unlinking \in Routes \cup {NoRoute}
    /\ updates \in Seq(Notice) /\ Len(updates) <= Backlog
    /\ overrun \in BOOLEAN /\ primed \in BOOLEAN
    /\ pc \in {"off", "snapshot", "idle", "reconcile", "send", "exited"}
    /\ snapshot \in [Watched -> [Families -> Vias]]
    /\ gateways \in [Watched -> [Families -> Vias]]
    /\ out \in Seq(Watched \X Families \X Vias)

(* Where the subscriber is: before its first notification, at one of the   *)
(* next-hops of a notification, or with an event in hand.                  *)
Progress ==
    /\ pc = "off" => updates = <<>>
    /\ pc \in {"off", "snapshot"} => out = <<>> /\ ~primed /\ upd = NoUpdate
    /\ pc \in {"reconcile", "send"} =>
          /\ upd \in Notice /\ upd.route.main
          /\ todo # {} /\ todo \subseteq DOMAIN upd.route.paths
          /\ \A k \in todo : ifaceCache[upd.route.paths[k].dev] \in Watched
    /\ pc = "send" =>
          \E v \in Vias :
              event = <<ifaceCache[upd.route.paths[Min(todo)].dev], upd.route.family, v>>

(* The kernel reuses no index and gives no name twice, so that a name in   *)
(* the cache is never the name of another device.                          *)
NamesSound ==
    /\ \A x \in Indexes : names[x] # Absent \/ ifaceCache[x] # Absent => x \in used
    /\ \A x \in Indexes : names[x] # Absent => ifaceCache[x] \in {Absent, names[x]}
    /\ \A x, y \in Indexes : names[x] = names[y] => x = y \/ names[x] = Absent

TableSound ==
    /\ \A f \in Families : \A r \in Listed(f) : r.family = f /\ (r.main => Live(r))
    /\ \A f \in Families : \A p \in table[f] : p[1] \in Listed(f) /\ p[2] \in Listed(f)
    /\ unlinking # NoRoute => unlinking.family = "v4" /\ unlinking \in Listed("v4")

(* While the kernel unlinks a route, its notification is the last one.     *)
UnlinkAnnounced ==
    pc # "off" /\ ~overrun /\ unlinking # NoRoute =>
        IF updates = <<>> THEN upd = Del(unlinking)
                          ELSE updates[Len(updates)] = Del(unlinking)

(* A route that is listed although u says it is deleted was added again,   *)
(* and that is announced later than u.                                     *)
Returned(u) == u.type = "del" /\ u.route \in Listed(u.route.family) /\ u.route # unlinking

ReAddAnnounced ==
    ~overrun =>
        /\ \A k \in DOMAIN updates : Returned(updates[k]) =>
              \E m \in DOMAIN updates : m > k /\ updates[m] = New(updates[k].route)
        /\ pc \in {"reconcile", "send"} /\ Returned(upd) =>
              \E m \in DOMAIN updates : updates[m] = New(upd.route)

(* What was last said of i's default: to the daemon, in the channel, or by *)
(* the event in hand.                                                      *)
RouteHeard(i, f, v) ==
    \/ \E k \in DOMAIN out :
          /\ out[k][1] = i /\ out[k][2] = f /\ out[k][3] = v
          /\ \A m \in DOMAIN out : m > k => out[m][1] # i \/ out[m][2] # f
    \/ /\ \A k \in DOMAIN out : out[k][1] # i \/ out[k][2] # f
       /\ v = IF primed THEN gateways[i][f] ELSE snapshot[i][f]

Said(i, f, v) ==
    IF pc = "send" /\ event[1] = i /\ event[2] = f THEN v = event[3] ELSE RouteHeard(i, f, v)

HasRead(f) == pc \in {"idle", "reconcile", "send"} \/ (pc = "snapshot" /\ f \notin todo)

(* The table as it is once a delete under way is done.                     *)
Target(f) ==
    IF f = "v4" /\ unlinking # NoRoute THEN Without(table[f], {unlinking}) ELSE table[f]
Now(i, f) == SelectDefault(Target(f), i, names)

(* A notification that will make the subscriber read i's default again: it *)
(* knows the name of the device, or can still look it up.                  *)
Touches(u, i, f, n) == u.route.family = f /\ Hops(u.route, i, n) # {}
Remaining == CASE pc = "send" -> todo \ {Min(todo)} [] pc = "reconcile" -> todo [] OTHER -> {}

Assured(i, f) ==
    \/ \E k \in DOMAIN updates : Touches(updates[k], i, f, ifaceCache)
    \/ \E k \in Remaining : upd.route.family = f /\ ifaceCache[upd.route.paths[k].dev] = i

Announced(i, f) == \E k \in DOMAIN updates : Touches(updates[k], i, f, names)

(* What was said of i is right, or is going to be corrected.  While it is  *)
(* right and not "no default", the device is known by name, so that not    *)
(* even its disappearance goes by unread.                                  *)
Settled(i, f, v) ==
    \/ <<i, f>> \in silent
    \/ Assured(i, f)
    \/ v = Now(i, f) /\ (v # NoEntry => \A x \in Indexes : names[x] = i => ifaceCache[x] = i)
    \/ v = NoEntry /\ Announced(i, f)

CacheFollows ==
    ~overrun => \A i \in Watched, f \in Families, v \in Vias :
                    HasRead(f) /\ Said(i, f, v) => Settled(i, f, v)

RouteInv ==
    /\ RouteType /\ Progress /\ NamesSound /\ TableSound
    /\ UnlinkAnnounced /\ ReAddAnnounced /\ CacheFollows

(***************************************************************************)
(* The operators of the route subscriber.                                  *)
(***************************************************************************)
LEMMA RouteFacts ==
    /\ Watched \subseteq Ifaces /\ Absent \notin Ifaces
    /\ \A r \in Routes :
          /\ r.family \in Families /\ r.main \in BOOLEAN
          /\ \A k \in DOMAIN r.paths : k \in Nat /\ r.paths[k].dev \in Indexes
    /\ IsFiniteSet(Routes) /\ NoRoute \notin Routes
    /\ Backlog \in Nat
BY RouteSubscriberAssumption

LEMMA InHops ==
    ASSUME NEW r, NEW i, NEW n, NEW k
    PROVE  k \in Hops(r, i, n) <=> /\ k \in DOMAIN r.paths /\ r.main
                                   /\ n[r.paths[k].dev] = i
BY DEF Hops

LEMMA FirstHop ==
    ASSUME NEW r \in Routes, NEW T, T \subseteq DOMAIN r.paths, T # {}
    PROVE  Min(T) \in T
<1>1. T \in SUBSET Nat
  BY RouteFacts
<1> QED BY <1>1, LeastNat

LEMMA SelectIsVia ==
    ASSUME NEW dump \in Dump, NEW i \in Watched, NEW n \in Naming
    PROVE  SelectDefault(dump, i, n) \in Vias
BY DEF Vias

(* The preferred default of i depends on the next-hops on i and the order  *)
(* of their routes only.                                                   *)
LEMMA SelectLocal ==
    ASSUME NEW d1, NEW d2, NEW i, NEW n1, NEW n2,
           \A r \in Routes : \A k : (r \in RoutesOf(d1) /\ k \in Hops(r, i, n1))
                                      <=> (r \in RoutesOf(d2) /\ k \in Hops(r, i, n2)),
           \A r, q \in RoutesOf(d1) : Hops(r, i, n1) # {} /\ Hops(q, i, n1) # {} =>
                                         (<<r, q>> \in d1 <=> <<r, q>> \in d2)
    PROVE  SelectDefault(d1, i, n1) = SelectDefault(d2, i, n2)
<1> DEFINE on == OnInterface(d1, i, n1)
           first(d) == {c \in on : \A e \in on : Preferred(d, c, e)}
           pick(S) == CHOOSE c \in S : TRUE
           via(S) == IF on = {} THEN NoEntry ELSE pick(S)[1].paths[pick(S)[2]].via
<1>1. OnInterface(d2, i, n2) = on
  BY DEF OnInterface, RoutesOf
<1>2. \A c, e \in on : Preferred(d1, c, e) <=> Preferred(d2, c, e)
  <2> SUFFICES ASSUME NEW c \in on, NEW e \in on
               PROVE  <<c[1], e[1]>> \in d1 <=> <<c[1], e[1]>> \in d2
    BY DEF Preferred
  <2>1. /\ c[1] \in RoutesOf(d1) /\ Hops(c[1], i, n1) # {}
        /\ e[1] \in RoutesOf(d1) /\ Hops(e[1], i, n1) # {}
    BY DEF OnInterface
  <2> QED BY <2>1
<1>3. first(d1) = first(d2)
  <2> HIDE DEF on
  <2> QED BY <1>2
<1>4. SelectDefault(d1, i, n1) = via(first(d1)) /\ SelectDefault(d2, i, n2) = via(first(d2))
  BY <1>1 DEF SelectDefault
<1> HIDE DEF via, first
<1> QED BY <1>3, <1>4

LEMMA SelectNone ==
    ASSUME NEW dump, NEW i, NEW n, \A r \in RoutesOf(dump) : Hops(r, i, n) = {}
    PROVE  SelectDefault(dump, i, n) = NoEntry
<1>1. OnInterface(dump, i, n) = {}
  BY DEF OnInterface
<1> QED BY <1>1 DEF SelectDefault

LEMMA SelectSome ==
    ASSUME NEW dump, NEW i, NEW n, SelectDefault(dump, i, n) # NoEntry
    PROVE  \E r \in RoutesOf(dump) : Hops(r, i, n) # {}
BY SelectNone

LEMMA InWithout ==
    ASSUME NEW dump, NEW R, NEW r, NEW q
    PROVE  /\ <<r, q>> \in Without(dump, R) <=> <<r, q>> \in dump /\ r \notin R /\ q \notin R
           /\ r \in RoutesOf(Without(dump, R)) <=> r \in RoutesOf(dump) /\ r \notin R
BY DEF Without, RoutesOf

LEMMA ListedWithout ==
    ASSUME NEW dump, NEW R
    PROVE  RoutesOf(Without(dump, R)) = RoutesOf(dump) \ R
<1>1. \A r : r \in RoutesOf(Without(dump, R)) <=> r \in RoutesOf(dump) /\ r \notin R
  BY InWithout
<1> QED BY <1>1

(* Taking away or leaving out routes that do not touch i.                  *)
LEMMA SelectWithout ==
    ASSUME NEW dump, NEW R, NEW i, NEW n, \A r \in R : Hops(r, i, n) = {}
    PROVE  SelectDefault(Without(dump, R), i, n) = SelectDefault(dump, i, n)
<1> DEFINE d == Without(dump, R)
<1>1. \A r \in Routes : \A k : (r \in RoutesOf(d) /\ k \in Hops(r, i, n))
                                  <=> (r \in RoutesOf(dump) /\ k \in Hops(r, i, n))
  BY InWithout
<1>2. \A r, q \in RoutesOf(d) : <<r, q>> \in d <=> <<r, q>> \in dump
  BY InWithout
<1> HIDE DEF d
<1>3. SelectDefault(d, i, n) = SelectDefault(dump, i, n)
  BY <1>1, <1>2, SelectLocal
<1> QED BY <1>3 DEF d

(* The same, when the naming changes too but not for interface i.          *)
LEMMA SelectWithoutRenamed ==
    ASSUME NEW dump, NEW R, NEW i, NEW n, NEW m,
           \A r \in RoutesOf(dump) : r \in R => Hops(r, i, n) = {},
           \A r \in Routes : \A k : k \in Hops(r, i, m) <=> k \in Hops(r, i, n)
    PROVE  SelectDefault(Without(dump, R), i, m) = SelectDefault(dump, i, n)
<1> DEFINE d == Without(dump, R)
<1>1. \A r \in Routes : \A k : (r \in RoutesOf(d) /\ k \in Hops(r, i, m))
                                  <=> (r \in RoutesOf(dump) /\ k \in Hops(r, i, n))
  BY InWithout
<1>2. \A r, q \in RoutesOf(d) : <<r, q>> \in d <=> <<r, q>> \in dump
  BY InWithout
<1> HIDE DEF d
<1>3. SelectDefault(d, i, m) = SelectDefault(dump, i, n)
  BY <1>1, <1>2, SelectLocal
<1> QED BY <1>3 DEF d

(* Two namings that agree on the devices of the routes listed.             *)
LEMMA SelectNaming ==
    ASSUME NEW dump, NEW i, NEW n1, NEW n2,
           \A r \in RoutesOf(dump) : r.main =>
               \A k \in DOMAIN r.paths : n1[r.paths[k].dev] = n2[r.paths[k].dev]
    PROVE  SelectDefault(dump, i, n1) = SelectDefault(dump, i, n2)
<1>1. \A r \in RoutesOf(dump) : \A k : k \in Hops(r, i, n1) <=> k \in Hops(r, i, n2)
  BY InHops
<1> QED BY <1>1, SelectLocal


(***************************************************************************)
(* What a step does to the names, the notifications and the last words.    *)
(***************************************************************************)
LEMMA LearnFacts ==
    ASSUME RouteType, NamesSound, NEW R, NEW c, c = Learn(ifaceCache, R)
    PROVE  /\ c \in Naming
           /\ \A x \in Indexes : ifaceCache[x] # Absent => c[x] = ifaceCache[x]
           /\ \A x \in Indexes : names[x] # Absent => c[x] \in {Absent, names[x]}
           /\ \A x \in Indexes : c[x] # Absent => x \in used
           /\ \A r \in R : \A k : /\ r.main /\ k \in DOMAIN r.paths
                                /\ r.paths[k].dev \in Indexes
                                /\ names[r.paths[k].dev] # Absent
                                => c[r.paths[k].dev] = names[r.paths[k].dev]
<1>1. \A x \in Indexes : c[x] = IF ifaceCache[x] = Absent /\ \E r \in R : Uses(r, x)
                                  THEN names[x] ELSE ifaceCache[x]
  BY DEF Learn
<1>2. names \in Naming /\ ifaceCache \in Naming
  BY DEF RouteType
<1>3. c \in Naming
  <2>1. c = [x \in Indexes |-> IF ifaceCache[x] = Absent /\ \E r \in R : Uses(r, x)
                                 THEN names[x] ELSE ifaceCache[x]]
    BY DEF Learn
  <2> QED BY <1>2, <2>1 DEF Naming
<1>4. \A x \in Indexes : ifaceCache[x] # Absent => c[x] = ifaceCache[x]
  BY <1>1
<1>5. \A x \in Indexes : names[x] # Absent => c[x] \in {Absent, names[x]}
  BY <1>1 DEF NamesSound
<1>6. \A x \in Indexes : c[x] # Absent => x \in used
  BY <1>1 DEF NamesSound
<1>7. ASSUME NEW r \in R, NEW k, r.main, k \in DOMAIN r.paths, r.paths[k].dev \in Indexes,
             names[r.paths[k].dev] # Absent
      PROVE  c[r.paths[k].dev] = names[r.paths[k].dev]
  <2>1. PICK x \in Indexes : x = r.paths[k].dev
    BY <1>7
  <2>2. Uses(r, x)
    BY <1>7, <2>1 DEF Uses
  <2> QED BY <1>1, <1>7, <2>1, <2>2 DEF NamesSound
<1> QED BY <1>3, <1>4, <1>5, <1>6, <1>7

(* The subscriber resolves every name it needs, so that what it selects is *)
(* what the kernel's names select.                                         *)
LEMMA CachedRead ==
    ASSUME RouteType, NamesSound, TableSound, NEW f \in Families, NEW i,
           NEW c, c = Learn(ifaceCache, Listed(f)),
           NEW dump, RoutesOf(dump) \subseteq Listed(f)
    PROVE  SelectDefault(dump, i, c) = SelectDefault(dump, i, names)
<1>1. ASSUME NEW r \in RoutesOf(dump), r.main, NEW k \in DOMAIN r.paths
      PROVE  c[r.paths[k].dev] = names[r.paths[k].dev]
  <2>1. r \in Listed(f) /\ r \in Routes
    BY DEF RoutesOf
  <2>2. r.paths[k].dev \in Indexes /\ names[r.paths[k].dev] # Absent
    BY <1>1, <2>1, RouteFacts DEF TableSound, Live
  <2> QED BY <1>1, <2>1, <2>2, LearnFacts
<1> QED BY <1>1, SelectNaming

LEMMA FreshRead ==
    ASSUME RouteType, NamesSound, TableSound, NEW f \in Families, NEW i \in Watched,
           NEW c, c = Learn(ifaceCache, Listed(f)),
           NEW dump, RoutesOf(dump) \subseteq Listed(f),
           SelectDefault(dump, i, names) = Now(i, f)
    PROVE  LET v == SelectDefault(dump, i, c)
           IN  v = Now(i, f) /\ (v # NoEntry => \A x \in Indexes : names[x] = i => c[x] = i)
<1> DEFINE v == SelectDefault(dump, i, c)
<1>1. v = SelectDefault(dump, i, names)
  BY CachedRead
<1>2. ASSUME v # NoEntry, NEW x \in Indexes, names[x] = i PROVE c[x] = i
  <2>1. PICK r \in RoutesOf(dump) : Hops(r, i, names) # {}
    BY <1>1, <1>2, SelectSome
  <2>2. PICK k : k \in DOMAIN r.paths /\ r.main /\ names[r.paths[k].dev] = i
    BY <2>1, InHops
  <2>3. r \in Listed(f) /\ r \in Routes
    BY DEF RoutesOf
  <2>4. r.paths[k].dev \in Indexes /\ i # Absent
    BY <2>2, <2>3, RouteFacts
  <2>5. c[r.paths[k].dev] = i
    BY <2>2, <2>3, <2>4, LearnFacts
  <2>6. r.paths[k].dev = x
    BY <1>2, <2>2, <2>4 DEF NamesSound
  <2> QED BY <2>5, <2>6
<1> QED BY <1>1, <1>2

LEMMA NotifyEffect ==
    ASSUME RouteType, NEW us \in Seq(Notice), Notify(us)
    PROVE  /\ updates' \in Seq(Notice) /\ Len(updates') <= Backlog
           /\ overrun' \in BOOLEAN /\ out' = out
           /\ pc = "off" => updates' = updates
           /\ ~overrun' => ~overrun
           /\ ~overrun' /\ pc # "off" => updates' = updates \o us
<1>0. /\ updates \in Seq(Notice) /\ Len(updates) \in Nat /\ Len(updates) <= Backlog
      /\ Backlog \in Nat
  BY RouteFacts DEF RouteType
<1>1. PICK room \in Nat : room = IF overrun THEN 0 ELSE Backlog - Len(updates)
  <2>1. 0 \in Nat /\ Backlog - Len(updates) \in Nat
    BY <1>0
  <2> QED BY <2>1
<1>2. PICK m : m = Min({room, Len(us)})
  OBVIOUS
<1>3. m \in Nat /\ m <= room /\ m <= Len(us) /\ m \in {room, Len(us)}
  <2>1. {room, Len(us)} \in SUBSET Nat
    BY <1>1
  <2> QED BY <1>2, <2>1, LeastNat
<1>4. PICK s : s = SubSeq(us, 1, m)
  OBVIOUS
<1>5. s \in Seq(Notice) /\ Len(s) = m /\ (m = Len(us) => s = us)
  BY <1>3, <1>4
<1>6. /\ updates' = IF pc = "off" THEN updates ELSE updates \o s
      /\ overrun' = (overrun \/ (pc # "off" /\ Len(us) > room))
      /\ out' = out
  BY <1>1, <1>2, <1>4 DEF Notify
<1>7. Len(updates \o s) = Len(updates) + m /\ updates \o s \in Seq(Notice)
  <2>1. Len(updates \o s) = Len(updates) + Len(s) /\ updates \o s \in Seq(Notice)
    BY <1>0, <1>5, ConcatProperties
  <2> QED BY <1>5, <2>1
<1>8. overrun => m = 0
  BY <1>1, <1>3
<1>9. Len(updates') <= Backlog /\ updates' \in Seq(Notice)
  BY <1>0, <1>1, <1>3, <1>6, <1>7, <1>8
<1>10. ~overrun' => ~overrun
  BY <1>6
<1>11. ASSUME ~overrun', pc # "off" PROVE updates' = updates \o us
  <2>1. ~(Len(us) > room)
    BY <1>6, <1>11
  <2>2. m = Len(us)
    BY <1>1, <1>3, <2>1
  <2> QED BY <1>5, <1>6, <1>11, <2>2
<1>12. overrun' \in BOOLEAN
  BY <1>6
<1> QED BY <1>6, <1>9, <1>10, <1>11, <1>12

LEMMA Appended ==
    ASSUME NEW s \in Seq(Notice), NEW us \in Seq(Notice), NEW t, t = s \o us
    PROVE  /\ \A k \in DOMAIN s : k \in DOMAIN t /\ t[k] = s[k]
           /\ \A j \in DOMAIN us : /\ Len(s) + j \in DOMAIN t /\ t[Len(s) + j] = us[j]
                                   /\ \A k \in DOMAIN s : Len(s) + j > k
           /\ \A k \in DOMAIN t : k \notin DOMAIN s =>
                 k - Len(s) \in DOMAIN us /\ t[k] = us[k - Len(s)]
<1>1. /\ DOMAIN s = 1..Len(s) /\ DOMAIN us = 1..Len(us) /\ Len(s) \in Nat /\ Len(us) \in Nat
      /\ DOMAIN t = 1..(Len(s) + Len(us))
      /\ \A k \in 1..(Len(s) + Len(us)) : t[k] = IF k <= Len(s) THEN s[k] ELSE us[k - Len(s)]
  OBVIOUS
<1>2. PICK a \in Nat, b \in Nat : a = Len(s) /\ b = Len(us)
  BY <1>1
<1>3. ASSUME NEW j \in 1..b
      PROVE  a + j \in 1..(a + b) /\ t[a + j] = us[j] /\ \A k \in 1..a : a + j > k
  <2>1. a + j \in 1..(a + b) /\ ~(a + j <= a) /\ (a + j) - a = j
    BY <1>2
  <2>2. t[a + j] = us[(a + j) - a]
    BY <1>1, <1>2, <2>1
  <2> QED BY <2>1, <2>2
<1>4. ASSUME NEW k \in 1..(a + b), k \notin 1..a PROVE k - a \in 1..b /\ t[k] = us[k - a]
  <2>1. k - a \in 1..b /\ ~(k <= a)
    BY <1>4
  <2> QED BY <1>1, <1>2, <2>1
<1>5. \A k \in 1..a : k \in 1..(a + b) /\ t[k] = s[k]
  BY <1>1, <1>2
<1>6. DOMAIN s = 1..a /\ DOMAIN us = 1..b /\ DOMAIN t = 1..(a + b) /\ Len(s) = a
  BY <1>1, <1>2
<1> QED BY <1>3, <1>4, <1>5, <1>6

LEMMA Shortened ==
    ASSUME NEW S, NEW s \in Seq(S), s # <<>>, NEW t, t = Tail(s)
    PROVE  /\ t \in Seq(S) /\ Len(t) = Len(s) - 1 /\ Len(s) \in Nat /\ Head(s) = s[1]
           /\ 1 \in DOMAIN s /\ s[1] \in S
           /\ \A k \in DOMAIN t : k + 1 \in DOMAIN s /\ t[k] = s[k + 1]
           /\ \A k \in DOMAIN s : /\ k \in Nat
                                  /\ k = 1 \/ (k > 1 /\ k - 1 \in DOMAIN t /\ t[k - 1] = s[k])
<1>1. t \in Seq(S) /\ Len(t) = Len(s) - 1 /\ Len(s) \in Nat /\ Len(s) > 0 /\ Head(s) = s[1]
  OBVIOUS
<1>2. PICK n \in Nat : n = Len(s)
  BY <1>1
<1>3. DOMAIN s = 1..n /\ DOMAIN t = 1..(n - 1) /\ \A k \in 1..(n - 1) : t[k] = s[k + 1]
  BY <1>1, <1>2
<1>4. ASSUME NEW k \in 1..n, k # 1
      PROVE  k > 1 /\ k - 1 \in 1..(n - 1) /\ t[k - 1] = s[k]
  <2>1. k - 1 \in 1..(n - 1) /\ (k - 1) + 1 = k
    BY <1>4
  <2>2. t[k - 1] = s[(k - 1) + 1]
    BY <1>3, <2>1
  <2>3. k > 1
    BY <1>4
  <2> QED BY <2>1, <2>2, <2>3
<1>5. 1 \in 1..n /\ s[1] \in S
  BY <1>1, <1>2
<1> QED BY <1>1, <1>2, <1>3, <1>4, <1>5


(* A device whose name the subscriber knows is one it can be told about.   *)
LEMMA KnownTouch ==
    ASSUME RouteType, NEW r \in Routes, NEW i \in Watched,
           \A x \in Indexes : names[x] = i => ifaceCache[x] = i,
           Hops(r, i, names) # {}
    PROVE  Hops(r, i, ifaceCache) # {}
<1>1. PICK k : k \in DOMAIN r.paths /\ r.main /\ names[r.paths[k].dev] = i
  BY InHops
<1>2. ifaceCache[r.paths[k].dev] = i
  BY <1>1, RouteFacts
<1> QED BY <1>1, <1>2, InHops

(* A change of the kernel, from what it does to what was settled.          *)
LEMMA KernelKeeps ==
    ASSUME RouteInv, NEW us \in Seq(Notice), Notify(us), UNCHANGED <<sub, primed, gateways>>,
           names' \in Naming, used' \subseteq Indexes, table' \in [Families -> Dump],
           unlinking' \in Routes \cup {NoRoute}, NamesSound', TableSound',
           unlinking' # NoRoute => us # <<>> /\ us[Len(us)] = Del(unlinking'),
           \A r \in Routes : r \in Listed(r.family)' /\ r # unlinking' =>
               \/ r \in Listed(r.family) /\ r # unlinking
               \/ \E j \in DOMAIN us : us[j] = New(r),
           \A j \in DOMAIN us : ~Returned(us[j])',
           ~overrun' /\ pc # "off" =>
               \A i \in Watched, f \in Families, v \in Vias :
                   Settled(i, f, v) => Settled(i, f, v)'
    PROVE  RouteInv'
<1> USE DEF RouteInv
<1>1. /\ updates' \in Seq(Notice) /\ Len(updates') <= Backlog
      /\ overrun' \in BOOLEAN /\ out' = out
      /\ pc = "off" => updates' = updates
      /\ ~overrun' => ~overrun
      /\ ~overrun' /\ pc # "off" => updates' = updates \o us
  BY NotifyEffect
<1>2. UNCHANGED <<ifaceCache, pc, snapshot, todo, upd, event, primed, gateways, out>>
  BY <1>1 DEF sub
<1>3. RouteType'
  BY <1>1, <1>2 DEF RouteType
<1>4. Progress'
  BY <1>1, <1>2 DEF Progress
<1>5. ASSUME pc # "off", ~overrun' 
      PROVE  /\ \A k \in DOMAIN updates : k \in DOMAIN updates' /\ updates'[k] = updates[k]
             /\ \A j \in DOMAIN us :
                   /\ Len(updates) + j \in DOMAIN updates' /\ updates'[Len(updates) + j] = us[j]
                   /\ \A k \in DOMAIN updates : Len(updates) + j > k
             /\ \A k \in DOMAIN updates' :
                   k \in DOMAIN updates \/ \E j \in DOMAIN us : updates'[k] = us[j]
  <2>1. updates \in Seq(Notice) /\ updates' = updates \o us
    BY <1>1, <1>5 DEF RouteType
  <2> QED BY <2>1, Appended
<1>6. UnlinkAnnounced'
  <2> SUFFICES ASSUME pc # "off", ~overrun', unlinking' # NoRoute
               PROVE  updates' # <<>> /\ updates'[Len(updates')] = Del(unlinking')
    BY <1>2 DEF UnlinkAnnounced
  <2>1. updates' = updates \o us /\ updates \in Seq(Notice) /\ us # <<>>
    BY <1>1 DEF RouteType
  <2>2. Len(us) \in DOMAIN us
    BY <2>1
  <2>3. Len(updates') = Len(updates) + Len(us)
    BY <2>1, ConcatProperties
  <2> QED BY <1>5, <2>2, <2>3
<1>7. ReAddAnnounced'
  <2> SUFFICES ASSUME ~overrun' PROVE ReAddAnnounced'
    BY DEF ReAddAnnounced
  <2>1. CASE pc = "off"
    <3>1. updates' = <<>> /\ pc' = "off"
      BY <1>1, <1>2, <2>1 DEF Progress
    <3> QED BY <3>1 DEF ReAddAnnounced
  <2>2. CASE pc # "off"
    <3>1. ASSUME NEW u \in Notice, Returned(u)'
          PROVE  Returned(u) \/ \E j \in DOMAIN us : us[j] = New(u.route)
      BY <3>1 DEF Returned, Notice
    <3>2. ASSUME NEW k \in DOMAIN updates', Returned(updates[k])'
          PROVE  \E m \in DOMAIN updates' : m > k /\ updates'[m] = New(updates'[k].route)
      <4>1. PICK u : u = updates'[k]
        OBVIOUS
      <4>2. Returned(u)'
        BY <3>2, <4>1 DEF Returned
      <4>3. k \in DOMAIN updates
        BY <1>5, <2>2, <4>1, <4>2
      <4>4. u = updates[k] /\ u \in Notice
        BY <1>5, <2>2, <4>1, <4>3 DEF RouteType
      <4>5. CASE Returned(u)
        <5>1. PICK m \in DOMAIN updates : m > k /\ updates[m] = New(u.route)
          BY <1>1, <4>3, <4>4, <4>5 DEF ReAddAnnounced
        <5> QED BY <1>5, <2>2, <4>1, <5>1
      <4>6. CASE \E j \in DOMAIN us : us[j] = New(u.route)
        BY <1>5, <2>2, <4>1, <4>3, <4>6
      <4> QED BY <3>1, <4>2, <4>4, <4>5, <4>6
    <3>3. ASSUME pc \in {"reconcile", "send"}, Returned(upd)'
          PROVE  \E m \in DOMAIN updates' : updates'[m] = New(upd.route)
      <4>1. PICK u \in Notice : u = upd
        BY <3>3 DEF Progress
      <4>2. Returned(u)'
        BY <1>2, <3>3, <4>1 DEF Returned
      <4>3. CASE Returned(u)
        <5>1. PICK m \in DOMAIN updates : updates[m] = New(u.route)
          BY <1>1, <3>3, <4>1, <4>3 DEF ReAddAnnounced
        <5> QED BY <1>5, <2>2, <4>1, <5>1
      <4>4. CASE \E j \in DOMAIN us : us[j] = New(u.route)
        BY <1>5, <2>2, <4>1, <4>4
      <4> QED BY <3>1, <4>2, <4>3, <4>4
    <3> QED BY <1>2, <3>2, <3>3 DEF ReAddAnnounced
  <2> QED BY <2>1, <2>2
<1>8. CacheFollows'
  <2> SUFFICES ASSUME ~overrun', NEW i \in Watched, NEW f \in Families, NEW v \in Vias,
                      HasRead(f)', Said(i, f, v)'
               PROVE  Settled(i, f, v)'
    BY DEF CacheFollows
  <2>1. HasRead(f) /\ Said(i, f, v) /\ pc # "off"
    BY <1>2 DEF HasRead, Said, RouteHeard
  <2> QED BY <1>1, <2>1 DEF CacheFollows
<1> QED BY <1>3, <1>4, <1>6, <1>7, <1>8

(* What was settled, and what the change says of i.                        *)
LEMMA SettledKernel ==
    ASSUME RouteType, NEW us \in Seq(Notice), updates' = updates \o us,
           UNCHANGED <<sub, primed, gateways>>, silent \subseteq silent',
           NEW i \in Watched, NEW f \in Families, NEW v, Settled(i, f, v)
    PROVE  \/ Settled(i, f, v)'
           \/ /\ v = Now(i, f)
              /\ v # NoEntry => \A x \in Indexes : names[x] = i => ifaceCache[x] = i
              /\ \A j \in DOMAIN us : ~Touches(us[j], i, f, ifaceCache)
              /\ v = NoEntry => \A j \in DOMAIN us : ~Touches(us[j], i, f, names')
           \/ /\ v = NoEntry
              /\ \E r \in Routes : Hops(r, i, names) # {} /\ Hops(r, i, names') = {}
<1>1. UNCHANGED <<ifaceCache, pc, todo, upd>>
  BY DEF sub
<1>2. /\ \A k \in DOMAIN updates : k \in DOMAIN updates' /\ updates'[k] = updates[k]
      /\ \A j \in DOMAIN us : Len(updates) + j \in DOMAIN updates' /\ updates'[Len(updates) + j] = us[j]
  <2>1. updates \in Seq(Notice)
    BY DEF RouteType
  <2> QED BY <2>1, Appended
<1>3. Assured(i, f) => Assured(i, f)'
  BY <1>1, <1>2 DEF Assured, Touches, Remaining, Hops
<1>4. ASSUME NEW j \in DOMAIN us, Touches(us[j], i, f, ifaceCache) PROVE Assured(i, f)'
  BY <1>1, <1>2, <1>4 DEF Assured, Touches
<1>5. ASSUME NEW j \in DOMAIN us, Touches(us[j], i, f, names') PROVE Announced(i, f)'
  BY <1>2, <1>5 DEF Announced, Touches
<1>6. CASE <<i, f>> \in silent
  BY <1>6 DEF Settled
<1>7. CASE Assured(i, f)
  BY <1>3, <1>7 DEF Settled
<1>8. CASE /\ v = Now(i, f)
           /\ v # NoEntry => \A x \in Indexes : names[x] = i => ifaceCache[x] = i
  BY <1>4, <1>5, <1>8 DEF Settled
<1>9. CASE v = NoEntry /\ Announced(i, f)
  <2>1. PICK k \in DOMAIN updates : Touches(updates[k], i, f, names)
    BY <1>9 DEF Announced
  <2>2. updates[k].route \in Routes
    <3>1. updates[k] \in Notice
      BY DEF RouteType
    <3> QED BY <3>1 DEF Notice
  <2>3. CASE Hops(updates[k].route, i, names') # {}
    <3>1. Announced(i, f)'
      BY <1>2, <2>1, <2>3 DEF Announced, Touches
    <3> QED BY <1>9, <3>1 DEF Settled
  <2> QED BY <1>9, <2>1, <2>2, <2>3 DEF Touches
<1> QED BY <1>6, <1>7, <1>8, <1>9 DEF Settled


(***************************************************************************)
(* The changes of the kernel.                                              *)
(***************************************************************************)
LEMMA InsertFacts ==
    ASSUME NEW dump \in Dump, \A p \in dump : p[1] \in RoutesOf(dump) /\ p[2] \in RoutesOf(dump),
           NEW r \in Routes, r \notin RoutesOf(dump), NEW before \in SUBSET RoutesOf(dump),
           NEW d, d = Insert(dump, before, r)
    PROVE  /\ d \in Dump /\ RoutesOf(d) = RoutesOf(dump) \cup {r}
           /\ \A p \in d : p[1] \in RoutesOf(d) /\ p[2] \in RoutesOf(d)
           /\ \A q1, q2 \in Routes \ {r} : <<q1, q2>> \in d <=> <<q1, q2>> \in dump
<1>1. d = dump \cup (before \X {r}) \cup ({r} \X ((RoutesOf(dump) \cup {r}) \ before))
  BY DEF Insert
<1>2. RoutesOf(dump) \subseteq Routes
  BY DEF RoutesOf
<1>3. d \in Dump
  BY <1>1, <1>2 DEF Dump
<1>4. \A q1, q2 \in Routes \ {r} : <<q1, q2>> \in d <=> <<q1, q2>> \in dump
  BY <1>1
<1>5. <<r, r>> \in d
  BY <1>1
<1>6. RoutesOf(d) = RoutesOf(dump) \cup {r}
  BY <1>4, <1>5 DEF RoutesOf
<1>7. \A p \in d : p[1] \in RoutesOf(d) /\ p[2] \in RoutesOf(d)
  BY <1>1, <1>6
<1> QED BY <1>3, <1>4, <1>6, <1>7

LEMMA ReplaceFacts ==
    ASSUME NEW dump \in Dump, \A p \in dump : p[1] \in RoutesOf(dump) /\ p[2] \in RoutesOf(dump),
           NEW r \in Routes, r \notin RoutesOf(dump), NEW old \in RoutesOf(dump),
           NEW d, d = Replace(dump, old, r)
    PROVE  /\ d \in Dump /\ RoutesOf(d) = (RoutesOf(dump) \ {old}) \cup {r}
           /\ \A p \in d : p[1] \in RoutesOf(d) /\ p[2] \in RoutesOf(d)
           /\ \A q1, q2 \in Routes \ {old, r} : <<q1, q2>> \in d <=> <<q1, q2>> \in dump
<1> DEFINE put(q) == IF q = old THEN r ELSE q
<1>1. d = {<<put(p[1]), put(p[2])>> : p \in dump}
  BY DEF Replace
<1>2. old \in Routes /\ <<old, old>> \in dump /\ old # r /\ \A q : <<q, r>> \notin dump /\ <<r, q>> \notin dump
  BY DEF RoutesOf
<1>3. \A p \in dump : p = <<p[1], p[2]>> /\ p[1] \in Routes /\ p[2] \in Routes
  BY DEF Dump
<1>4. d \in Dump
  <2>1. \A p \in dump : put(p[1]) \in Routes /\ put(p[2]) \in Routes
    BY <1>3
  <2> HIDE DEF put
  <2> QED BY <1>1, <2>1 DEF Dump
<1>5. ASSUME NEW q1, NEW q2
      PROVE  <<q1, q2>> \in d <=> \E p \in dump : put(p[1]) = q1 /\ put(p[2]) = q2
  <2> HIDE DEF put
  <2> QED BY <1>1
<1>6. \A q1, q2 \in Routes \ {old, r} : <<q1, q2>> \in d <=> <<q1, q2>> \in dump
  <2> SUFFICES ASSUME NEW q1 \in Routes \ {old, r}, NEW q2 \in Routes \ {old, r}
               PROVE  <<q1, q2>> \in d <=> <<q1, q2>> \in dump
    OBVIOUS
  <2>1. ASSUME <<q1, q2>> \in d PROVE <<q1, q2>> \in dump
    <3>1. PICK p \in dump : put(p[1]) = q1 /\ put(p[2]) = q2
      BY <1>5, <2>1
    <3>2. p[1] = q1 /\ p[2] = q2
      BY <3>1
    <3> QED BY <1>3, <3>2
  <2>2. ASSUME <<q1, q2>> \in dump PROVE <<q1, q2>> \in d
    <3>1. put(q1) = q1 /\ put(q2) = q2
      OBVIOUS
    <3> HIDE DEF put
    <3> QED BY <1>5, <2>2, <3>1
  <2> QED BY <2>1, <2>2
<1>7. <<r, r>> \in d
  <2>1. put(old) = r
    OBVIOUS
  <2> HIDE DEF put
  <2> QED BY <1>2, <1>5, <2>1
<1>8. <<old, old>> \notin d
  <2>1. \A p \in dump : put(p[1]) # old
    BY <1>2
  <2> HIDE DEF put
  <2> QED BY <1>5, <2>1
<1>9. RoutesOf(d) = (RoutesOf(dump) \ {old}) \cup {r}
  BY <1>2, <1>6, <1>7, <1>8 DEF RoutesOf
<1>10. \A p \in d : p[1] \in RoutesOf(d) /\ p[2] \in RoutesOf(d)
  <2>1. \A p \in dump : put(p[1]) \in RoutesOf(d) /\ put(p[2]) \in RoutesOf(d)
    BY <1>9
  <2> HIDE DEF put
  <2> QED BY <1>1, <2>1
<1> QED BY <1>4, <1>6, <1>9, <1>10

(* Two dumps that differ in routes which do not touch i.                   *)
LEMMA SelectElsewhere ==
    ASSUME NEW d1, NEW d2, NEW i, NEW n,
           \A q1, q2 \in Routes : Hops(q1, i, n) # {} /\ Hops(q2, i, n) # {} =>
                                     (<<q1, q2>> \in d1 <=> <<q1, q2>> \in d2)
    PROVE  SelectDefault(d1, i, n) = SelectDefault(d2, i, n)
<1>1. \A r \in Routes : Hops(r, i, n) # {} => (r \in RoutesOf(d1) <=> r \in RoutesOf(d2))
  BY DEF RoutesOf
<1>2. \A r \in Routes : \A k : (r \in RoutesOf(d1) /\ k \in Hops(r, i, n))
                                  <=> (r \in RoutesOf(d2) /\ k \in Hops(r, i, n))
  BY <1>1
<1>3. \A r, q \in RoutesOf(d1) : Hops(r, i, n) # {} /\ Hops(q, i, n) # {} =>
                                    (<<r, q>> \in d1 <=> <<r, q>> \in d2)
  BY DEF RoutesOf
<1> QED BY <1>2, <1>3, SelectLocal

LEMMA NoticeFacts ==
    ASSUME NEW r \in Routes
    PROVE  /\ New(r) \in Notice /\ New(r).type = "new" /\ New(r).route = r
           /\ Del(r) \in Notice /\ Del(r).type = "del" /\ Del(r).route = r
           /\ \A u \in {New(r), Del(r)} : \E us \in Seq(Notice) :
                 us = <<u>> /\ Len(us) = 1 /\ DOMAIN us = {1} /\ us[1] = u
<1>1. /\ New(r) \in Notice /\ New(r).type = "new" /\ New(r).route = r
      /\ Del(r) \in Notice /\ Del(r).type = "del" /\ Del(r).route = r
  BY DEF New, Del, Notice
<1>2. ASSUME NEW u \in Notice
      PROVE  \E us \in Seq(Notice) : us = <<u>> /\ Len(us) = 1 /\ DOMAIN us = {1} /\ us[1] = u
  <2>0. <<u>> \in Seq(Notice)
    OBVIOUS
  <2>1. PICK us \in Seq(Notice) : us = <<u>>
    BY <2>0
  <2>2. Len(us) = 1 /\ us[1] = u /\ DOMAIN us = 1..1
    BY <2>1
  <2>3. DOMAIN us = {1}
    BY <2>2
  <2> QED BY <2>1, <2>2, <2>3
<1> QED BY <1>1, <1>2

LEMMA AddRouteKeeps ==
    ASSUME RouteInv, NEW r \in Routes, NEW before \in SUBSET Listed(r.family),
           AddRoute(r, before)
    PROVE  RouteInv'
<1> USE DEF RouteInv
<1>1. PICK g \in Families : g = r.family
  BY RouteFacts
<1>2. PICK us \in Seq(Notice) : us = <<New(r)>> /\ DOMAIN us = {1} /\ us[1] = New(r)
  BY NoticeFacts
<1>3. /\ unlinking = NoRoute /\ Live(r) /\ r \notin Listed(g) /\ before \subseteq Listed(g)
      /\ table' = [table EXCEPT ![g] = Insert(@, before, r)]
      /\ Notify(us)
      /\ UNCHANGED <<names, used, unlinking, sub, primed, gateways, silent>>
  BY <1>1, <1>2 DEF AddRoute, Change, New
<1>4. table \in [Families -> Dump] /\ names \in Naming
  BY DEF RouteType
<1>5. table'[g] = Insert(table[g], before, r) /\ \A f \in Families : f # g => table'[f] = table[f]
  BY <1>3, <1>4
<1>6. /\ table'[g] \in Dump /\ RoutesOf(table'[g]) = Listed(g) \cup {r}
      /\ \A p \in table'[g] : p[1] \in RoutesOf(table'[g]) /\ p[2] \in RoutesOf(table'[g])
      /\ \A q1, q2 \in Routes \ {r} : <<q1, q2>> \in table'[g] <=> <<q1, q2>> \in table[g]
  BY <1>3, <1>4, <1>5, InsertFacts DEF TableSound, Listed
<1>7. \A f \in Families : Listed(f)' = RoutesOf(table'[f])
  BY DEF Listed, RoutesOf
<1>8. TableSound'
  <2>1. \A q : Live(q)' <=> Live(q)
    BY <1>3 DEF Live
  <2>2. ASSUME NEW f \in Families
        PROVE  /\ \A q \in Listed(f)' : q.family = f /\ (q.main => Live(q)')
               /\ \A p \in table'[f] : p[1] \in Listed(f)' /\ p[2] \in Listed(f)'
    <3>1. CASE f = g
      BY <1>1, <1>3, <1>6, <1>7, <2>1, <3>1 DEF TableSound
    <3>2. CASE f # g
      BY <1>5, <1>7, <2>1, <3>2 DEF TableSound, Listed
    <3> QED BY <3>1, <3>2
  <2> QED BY <1>3, <2>2 DEF TableSound
<1>9. \A q \in Routes : q \in Listed(q.family)' =>
          q \in Listed(q.family) \/ \E j \in DOMAIN us : us[j] = New(q)
  BY <1>2, <1>5, <1>6, <1>7, RouteFacts DEF Listed
<1>10. \A j \in DOMAIN us : ~Returned(us[j])'
  BY <1>2, NoticeFacts DEF Returned
<1>11. ASSUME ~overrun', pc # "off", NEW i \in Watched, NEW f \in Families, NEW v \in Vias,
              Settled(i, f, v)
       PROVE  Settled(i, f, v)'
  <2>1. updates' = updates \o us
    BY <1>3, <1>11, NotifyEffect
  <2>2. names' = names /\ ifaceCache' = ifaceCache
    BY <1>3 DEF sub
  <2>3. \/ Settled(i, f, v)'
        \/ /\ v = Now(i, f)
           /\ v # NoEntry => \A x \in Indexes : names[x] = i => ifaceCache[x] = i
           /\ \A j \in DOMAIN us : ~Touches(us[j], i, f, ifaceCache)
           /\ v = NoEntry => \A j \in DOMAIN us : ~Touches(us[j], i, f, names')
    BY <1>3, <1>11, <2>1, <2>2, SettledKernel
  <2>4. ASSUME v = Now(i, f),
               v # NoEntry => \A x \in Indexes : names[x] = i => ifaceCache[x] = i,
               ~Touches(New(r), i, f, ifaceCache),
               v = NoEntry => ~Touches(New(r), i, f, names)
        PROVE  Settled(i, f, v)'
    <3>1. f # g \/ Hops(r, i, names) = {}
      BY <1>1, <2>4, KnownTouch, NoticeFacts DEF Touches
    <3>2. SelectDefault(table'[f], i, names) = SelectDefault(table[f], i, names)
      <4>1. CASE f # g
        BY <1>5, <4>1
      <4>2. CASE f = g
        <5>1. \A q1, q2 \in Routes : Hops(q1, i, names) # {} /\ Hops(q2, i, names) # {} =>
                                        (<<q1, q2>> \in table'[f] <=> <<q1, q2>> \in table[f])
          BY <1>6, <3>1, <4>2
        <5> QED BY <5>1, SelectElsewhere
      <4> QED BY <4>1, <4>2
    <3>3. Now(i, f)' = Now(i, f)
      BY <1>3, <3>2 DEF Now, Target
    <3> QED BY <2>2, <2>4, <3>3 DEF Settled
  <2> QED BY <1>2, <2>2, <2>3, <2>4
<1>12. NamesSound'
  <2>1. UNCHANGED <<names, used, ifaceCache>>
    BY <1>3 DEF sub
  <2> QED BY <2>1 DEF NamesSound
<1>13. table' \in [Families -> Dump]
  BY <1>3, <1>4, <1>5, <1>6
<1> QED BY <1>3, <1>4, <1>8, <1>9, <1>10, <1>11, <1>12, <1>13, KernelKeeps DEF RouteType


LEMMA ReplaceRouteKeeps ==
    ASSUME RouteInv, NEW r \in Routes, NEW old \in Routes, ReplaceRoute(old, r)
    PROVE  RouteInv'
<1> USE DEF RouteInv
<1>1. PICK g \in Families : g = old.family
  BY RouteFacts
<1>2. PICK us \in Seq(Notice) : us = <<New(r)>> /\ DOMAIN us = {1} /\ us[1] = New(r)
  BY NoticeFacts
<1>3. /\ unlinking = NoRoute /\ old \in Listed(g) /\ Live(r) /\ r \notin Listed(g)
      /\ r.family = g /\ r.main = old.main
      /\ table' = [table EXCEPT ![g] = Replace(@, old, r)]
      /\ silent' = silent \cup ((NamesOf(old) \ NamesOf(r)) \X {g})
      /\ Notify(us)
      /\ UNCHANGED <<names, used, unlinking, sub, primed, gateways>>
  BY <1>1, <1>2 DEF ReplaceRoute, Change, New
<1>4. table \in [Families -> Dump] /\ names \in Naming
  BY DEF RouteType
<1>5. table'[g] = Replace(table[g], old, r) /\ \A f \in Families : f # g => table'[f] = table[f]
  BY <1>3, <1>4
<1>6. /\ table'[g] \in Dump /\ RoutesOf(table'[g]) = (Listed(g) \ {old}) \cup {r}
      /\ \A p \in table'[g] : p[1] \in RoutesOf(table'[g]) /\ p[2] \in RoutesOf(table'[g])
      /\ \A q1, q2 \in Routes \ {old, r} : <<q1, q2>> \in table'[g] <=> <<q1, q2>> \in table[g]
  BY <1>3, <1>4, <1>5, ReplaceFacts DEF TableSound, Listed
<1>7. \A f \in Families : Listed(f)' = RoutesOf(table'[f])
  BY DEF Listed, RoutesOf
<1>8. TableSound'
  <2>1. \A q : Live(q)' <=> Live(q)
    BY <1>3 DEF Live
  <2>2. ASSUME NEW f \in Families
        PROVE  /\ \A q \in Listed(f)' : q.family = f /\ (q.main => Live(q)')
               /\ \A p \in table'[f] : p[1] \in Listed(f)' /\ p[2] \in Listed(f)'
    <3>1. CASE f = g
      BY <1>1, <1>3, <1>6, <1>7, <2>1, <3>1 DEF TableSound
    <3>2. CASE f # g
      BY <1>5, <1>7, <2>1, <3>2 DEF TableSound, Listed
    <3> QED BY <3>1, <3>2
  <2> QED BY <1>3, <2>2 DEF TableSound
<1>9. \A q \in Routes : q \in Listed(q.family)' =>
          q \in Listed(q.family) \/ \E j \in DOMAIN us : us[j] = New(q)
  BY <1>2, <1>5, <1>6, <1>7, RouteFacts DEF Listed
<1>10. \A j \in DOMAIN us : ~Returned(us[j])'
  BY <1>2, NoticeFacts DEF Returned
<1>11. ASSUME ~overrun', pc # "off", NEW i \in Watched, NEW f \in Families, NEW v \in Vias,
              Settled(i, f, v)
       PROVE  Settled(i, f, v)'
  <2>1. updates' = updates \o us
    BY <1>3, <1>11, NotifyEffect
  <2>2. names' = names /\ ifaceCache' = ifaceCache
    BY <1>3 DEF sub
  <2>3. \/ Settled(i, f, v)'
        \/ /\ v = Now(i, f)
           /\ v # NoEntry => \A x \in Indexes : names[x] = i => ifaceCache[x] = i
           /\ \A j \in DOMAIN us : ~Touches(us[j], i, f, ifaceCache)
           /\ v = NoEntry => \A j \in DOMAIN us : ~Touches(us[j], i, f, names')
    BY <1>3, <1>11, <2>1, <2>2, SettledKernel
  <2>4. ASSUME v = Now(i, f), <<i, f>> \notin silent',
               v # NoEntry => \A x \in Indexes : names[x] = i => ifaceCache[x] = i,
               ~Touches(New(r), i, f, ifaceCache),
               v = NoEntry => ~Touches(New(r), i, f, names)
        PROVE  Settled(i, f, v)'
    <3>1. f # g \/ Hops(r, i, names) = {}
      BY <1>3, <2>4, KnownTouch, NoticeFacts DEF Touches
    <3>2. SelectDefault(table'[f], i, names) = SelectDefault(table[f], i, names)
      <4>1. CASE f # g
        BY <1>5, <4>1
      <4>2. CASE f = g
        <5>1. Hops(old, i, names) = {}
          <6> SUFFICES ASSUME Hops(old, i, names) # {} PROVE FALSE
            OBVIOUS
          <6>1. i \in NamesOf(old) /\ old.main
            BY InHops DEF NamesOf
          <6>2. i \notin NamesOf(r)
            <7>1. r.main
              BY <1>3, <6>1
            <7>2. \A k \in DOMAIN r.paths : names[r.paths[k].dev] # i
              BY <3>1, <4>2, <7>1, InHops
            <7> QED BY <7>2 DEF NamesOf
          <6> QED BY <1>3, <2>4, <4>2, <6>1, <6>2
        <5>2. \A q1, q2 \in Routes : Hops(q1, i, names) # {} /\ Hops(q2, i, names) # {} =>
                                        (<<q1, q2>> \in table'[f] <=> <<q1, q2>> \in table[f])
          BY <1>6, <3>1, <4>2, <5>1
        <5> QED BY <5>2, SelectElsewhere
      <4> QED BY <4>1, <4>2
    <3>3. Now(i, f)' = Now(i, f)
      BY <1>3, <3>2 DEF Now, Target
    <3> QED BY <2>2, <2>4, <3>3 DEF Settled
  <2>5. CASE <<i, f>> \in silent'
    BY <2>5 DEF Settled
  <2> QED BY <1>2, <2>2, <2>3, <2>4, <2>5
<1>12. NamesSound'
  <2>1. UNCHANGED <<names, used, ifaceCache>>
    BY <1>3 DEF sub
  <2> QED BY <2>1 DEF NamesSound
<1>13. table' \in [Families -> Dump]
  BY <1>3, <1>4, <1>5, <1>6
<1> QED BY <1>3, <1>4, <1>8, <1>9, <1>10, <1>11, <1>12, <1>13, KernelKeeps DEF RouteType

LEMMA DelRouteKeeps ==
    ASSUME RouteInv, NEW r \in Routes, DelRoute(r)
    PROVE  RouteInv'
<1> USE DEF RouteInv
<1>1. PICK g \in Families : g = r.family
  BY RouteFacts
<1>2. PICK us \in Seq(Notice) :
          us = <<Del(r)>> /\ Len(us) = 1 /\ DOMAIN us = {1} /\ us[1] = Del(r)
  BY NoticeFacts
<1>3. /\ unlinking = NoRoute /\ r \in Listed(g)
      /\ \/ g = "v4" /\ unlinking' = r /\ table' = table
         \/ /\ g # "v4" /\ unlinking' = NoRoute
            /\ table' = [table EXCEPT ![g] = Without(@, {r})]
      /\ Notify(us)
      /\ UNCHANGED <<names, used, sub, primed, gateways, silent>>
  BY <1>1, <1>2 DEF DelRoute, Change, Del
<1>4. table \in [Families -> Dump] /\ names \in Naming
  BY DEF RouteType
<1>5. \A f \in Families : table'[f] \in {table[f], Without(table[f], {r})}
  BY <1>3, <1>4
<1>6. table' \in [Families -> Dump]
  <2>1. \A f \in Families : Without(table[f], {r}) \in Dump
    BY <1>4 DEF Without, Dump
  <2>2. table' = [f \in Families |-> table'[f]]
    BY <1>3, <1>4
  <2> QED BY <1>4, <1>5, <2>1, <2>2
<1>7. \A f \in Families : Listed(f)' = RoutesOf(table'[f]) /\ Listed(f)' \subseteq Listed(f)
  BY <1>5, InWithout DEF Listed, RoutesOf
<1>8. TableSound'
  <2>1. \A q : Live(q)' <=> Live(q)
    BY <1>3 DEF Live
  <2>2. ASSUME NEW f \in Families
        PROVE  /\ \A q \in Listed(f)' : q.family = f /\ (q.main => Live(q)')
               /\ \A p \in table'[f] : p[1] \in Listed(f)' /\ p[2] \in Listed(f)'
    <3>1. \A q \in Listed(f)' : q.family = f /\ (q.main => Live(q)')
      BY <1>7, <2>1 DEF TableSound
    <3>2. ASSUME NEW p \in table'[f] PROVE p[1] \in Listed(f)' /\ p[2] \in Listed(f)'
      <4>1. p \in table[f] /\ p[1] \in Listed(f) /\ p[2] \in Listed(f)
        BY <1>5 DEF Without, TableSound
      <4>2. CASE table'[f] = table[f]
        BY <1>7, <4>1, <4>2 DEF Listed
      <4>3. CASE table'[f] = Without(table[f], {r})
        <5>1. p[1] # r /\ p[2] # r
          BY <4>3 DEF Without
        <5> QED BY <1>7, <4>1, <4>3, <5>1, ListedWithout DEF Listed
      <4> QED BY <1>5, <4>2, <4>3
    <3> QED BY <3>1, <3>2
  <2>3. unlinking' # NoRoute => unlinking'.family = "v4" /\ unlinking' \in Listed("v4")'
    BY <1>1, <1>3 DEF Listed
  <2> QED BY <2>2, <2>3 DEF TableSound
<1>9. \A q \in Routes : q \in Listed(q.family)' => q \in Listed(q.family) /\ q # unlinking
  BY <1>3, <1>7, RouteFacts
<1>10. ASSUME NEW j \in DOMAIN us PROVE ~Returned(us[j])'
  <2>1. us[j] = Del(r)
    BY <1>2
  <2>2. CASE unlinking' = r
    BY <2>1, <2>2, NoticeFacts DEF Returned
  <2>3. CASE table' = [table EXCEPT ![g] = Without(@, {r})]
    <3>1. r \notin Listed(g)'
      BY <1>4, <1>7, <2>3, ListedWithout
    <3> QED BY <1>1, <2>1, <3>1, NoticeFacts DEF Returned
  <2> QED BY <1>3, <2>2, <2>3
<1>11. ASSUME ~overrun', pc # "off", NEW i \in Watched, NEW f \in Families, NEW v \in Vias,
              Settled(i, f, v)
       PROVE  Settled(i, f, v)'
  <2>1. updates' = updates \o us
    BY <1>3, <1>11, NotifyEffect
  <2>2. names' = names /\ ifaceCache' = ifaceCache
    BY <1>3 DEF sub
  <2>3. \/ Settled(i, f, v)'
        \/ /\ v = Now(i, f)
           /\ v # NoEntry => \A x \in Indexes : names[x] = i => ifaceCache[x] = i
           /\ \A j \in DOMAIN us : ~Touches(us[j], i, f, ifaceCache)
           /\ v = NoEntry => \A j \in DOMAIN us : ~Touches(us[j], i, f, names')
    BY <1>3, <1>11, <2>1, <2>2, SettledKernel
  <2>4. ASSUME v = Now(i, f),
               v # NoEntry => \A x \in Indexes : names[x] = i => ifaceCache[x] = i,
               ~Touches(Del(r), i, f, ifaceCache),
               v = NoEntry => ~Touches(Del(r), i, f, names)
        PROVE  Settled(i, f, v)'
    <3>1. f # g \/ Hops(r, i, names) = {}
      BY <1>1, <2>4, KnownTouch, NoticeFacts DEF Touches
    <3>2. Target(f) = table[f] /\ Target(f)' = IF f = g THEN Without(table[f], {r}) ELSE table[f]
      BY <1>3, <1>4, RouteFacts DEF Target
    <3>3. f = g => SelectDefault(Without(table[f], {r}), i, names) = SelectDefault(table[f], i, names)
      BY <3>1, SelectWithout
    <3>4. Now(i, f)' = Now(i, f)
      BY <2>2, <3>2, <3>3 DEF Now
    <3> QED BY <2>2, <2>4, <3>4 DEF Settled
  <2> QED BY <1>2, <2>2, <2>3, <2>4
<1>12. NamesSound'
  <2>1. UNCHANGED <<names, used, ifaceCache>>
    BY <1>3 DEF sub
  <2> QED BY <2>1 DEF NamesSound
<1>13. unlinking' # NoRoute => us # <<>> /\ us[Len(us)] = Del(unlinking')
  BY <1>2, <1>3
<1> QED BY <1>3, <1>4, <1>6, <1>8, <1>9, <1>10, <1>11, <1>12, <1>13, KernelKeeps DEF RouteType


(* A change that is not announced, by what it does to what was settled.    *)
LEMMA UnannouncedKeeps ==
    ASSUME RouteInv, UNCHANGED <<queues, sub, primed, gateways>>,
           names' \in Naming, used' \subseteq Indexes, table' \in [Families -> Dump],
           NamesSound', TableSound', unlinking' = NoRoute,
           \A r \in Routes : r \in Listed(r.family)' => r \in Listed(r.family) /\ r # unlinking,
           \A i \in Watched, f \in Families, v \in Vias :
               Settled(i, f, v) => Settled(i, f, v)'
    PROVE  RouteInv'
<1> USE DEF RouteInv
<1>1. UNCHANGED <<updates, overrun, out, ifaceCache, pc, snapshot, todo, upd, event,
                  primed, gateways>>
  BY DEF queues, sub
<1>2. RouteType' /\ Progress' /\ UnlinkAnnounced'
  BY <1>1 DEF RouteType, Progress, UnlinkAnnounced
<1>3. ReAddAnnounced'
  <2> SUFFICES ASSUME ~overrun PROVE ReAddAnnounced'
    BY <1>1 DEF ReAddAnnounced
  <2>1. ASSUME NEW u \in Notice, Returned(u)' PROVE Returned(u)
    BY <2>1 DEF Returned, Notice
  <2>2. ASSUME NEW k \in DOMAIN updates, Returned(updates[k])'
        PROVE  \E m \in DOMAIN updates : m > k /\ updates[m] = New(updates[k].route)
    <3>1. PICK u \in Notice : u = updates[k]
      BY DEF RouteType
    <3>2. Returned(u)'
      BY <1>1, <2>2, <3>1 DEF Returned
    <3> QED BY <2>1, <3>1, <3>2 DEF ReAddAnnounced
  <2>3. ASSUME pc \in {"reconcile", "send"}, Returned(upd)'
        PROVE  \E m \in DOMAIN updates : updates[m] = New(upd.route)
    <3>1. PICK u \in Notice : u = upd
      BY <2>3 DEF Progress
    <3>2. Returned(u)'
      BY <1>1, <2>3, <3>1 DEF Returned
    <3> QED BY <2>1, <2>3, <3>1, <3>2 DEF ReAddAnnounced
  <2> QED BY <1>1, <2>2, <2>3 DEF ReAddAnnounced
<1>4. CacheFollows'
  <2> SUFFICES ASSUME ~overrun', NEW i \in Watched, NEW f \in Families, NEW v \in Vias,
                      HasRead(f)', Said(i, f, v)'
               PROVE  Settled(i, f, v)'
    BY DEF CacheFollows
  <2>1. HasRead(f) /\ Said(i, f, v) /\ ~overrun
    BY <1>1 DEF HasRead, Said, RouteHeard
  <2> QED BY <2>1 DEF CacheFollows
<1> QED BY <1>2, <1>3, <1>4

LEMMA UnlinkKeeps ==
    ASSUME RouteInv, Unlink
    PROVE  RouteInv'
<1> USE DEF RouteInv
<1>1. PICK r \in Routes : r = unlinking /\ r \in Listed("v4") /\ r.family = "v4"
  BY DEF Unlink, RouteType, TableSound
<1>2. "v4" \in Families /\ r # NoRoute
  BY <1>1, RouteFacts
<1>3. /\ table' = [table EXCEPT !["v4"] = Without(@, {r})] /\ unlinking' = NoRoute
      /\ UNCHANGED <<names, used, queues, sub, primed, gateways, silent>>
  BY <1>1 DEF Unlink
<1>4. table \in [Families -> Dump] /\ names \in Naming
  BY DEF RouteType
<1>5. /\ table'["v4"] = Without(table["v4"], {r})
      /\ \A f \in Families : f # "v4" => table'[f] = table[f]
  BY <1>2, <1>3, <1>4
<1>6. table' \in [Families -> Dump]
  <2>1. Without(table["v4"], {r}) \in Dump
    BY <1>2, <1>4 DEF Without, Dump
  <2> QED BY <1>3, <1>4, <2>1
<1>7. /\ Listed("v4")' = Listed("v4") \ {r}
      /\ \A f \in Families : f # "v4" => Listed(f)' = Listed(f)
  BY <1>5, ListedWithout DEF Listed, RoutesOf
<1>8. TableSound'
  <2>1. \A q : Live(q)' <=> Live(q)
    BY <1>3 DEF Live
  <2>2. ASSUME NEW f \in Families
        PROVE  /\ \A q \in Listed(f)' : q.family = f /\ (q.main => Live(q)')
               /\ \A p \in table'[f] : p[1] \in Listed(f)' /\ p[2] \in Listed(f)'
    <3>1. CASE f = "v4"
      BY <1>5, <1>7, <2>1, <3>1 DEF TableSound, Without
    <3>2. CASE f # "v4"
      BY <1>5, <1>7, <2>1, <3>2 DEF TableSound
    <3> QED BY <3>1, <3>2
  <2> QED BY <1>3, <2>2 DEF TableSound
<1>9. \A q \in Routes : q \in Listed(q.family)' => q \in Listed(q.family) /\ q # unlinking
  BY <1>1, <1>7, RouteFacts
<1>10. UNCHANGED <<updates, ifaceCache, pc, todo, upd, names, silent>>
  BY <1>3 DEF queues, sub
<1>11. ASSUME NEW i \in Watched, NEW f \in Families, NEW v \in Vias, Settled(i, f, v)
       PROVE  Settled(i, f, v)'
  <2>1. Target(f)' = Target(f)
    BY <1>1, <1>2, <1>3, <1>5 DEF Target
  <2>2. Now(i, f)' = Now(i, f)
    BY <1>10, <2>1 DEF Now
  <2>3. (Assured(i, f)' <=> Assured(i, f)) /\ (Announced(i, f)' <=> Announced(i, f))
    BY <1>10 DEF Assured, Announced, Touches, Remaining, Hops
  <2> QED BY <1>10, <1>11, <2>2, <2>3 DEF Settled
<1>12. NamesSound' /\ used' \subseteq Indexes
  BY <1>3, <1>10 DEF NamesSound, RouteType
<1> QED BY <1>3, <1>4, <1>6, <1>8, <1>9, <1>11, <1>12, UnannouncedKeeps

LEMMA CreateDeviceKeeps ==
    ASSUME RouteInv, NEW x \in Indexes, NEW j \in Ifaces, CreateDevice(x, j)
    PROVE  RouteInv'
<1> USE DEF RouteInv
<1>1. /\ unlinking = NoRoute /\ x \notin used /\ \A y \in Indexes : names[y] # j
      /\ names' = [names EXCEPT ![x] = j] /\ used' = used \cup {x}
      /\ UNCHANGED <<table, unlinking, queues, sub, primed, gateways, silent>>
  BY DEF CreateDevice, Change
<1>2. table \in [Families -> Dump] /\ names \in Naming
  BY DEF RouteType
<1>3. UNCHANGED <<updates, ifaceCache, pc, todo, upd, silent, table, unlinking>>
  BY <1>1 DEF queues, sub
<1>4. names[x] = Absent /\ ifaceCache[x] = Absent /\ j # Absent
  BY <1>1, RouteFacts DEF NamesSound
<1>5. names' \in Naming /\ names'[x] = j /\ \A y \in Indexes : y # x => names'[y] = names[y]
  BY <1>1, <1>2 DEF Naming
<1>6. NamesSound' /\ used' \subseteq Indexes
  BY <1>1, <1>3, <1>4, <1>5 DEF NamesSound, RouteType
<1>7. ASSUME NEW f \in Families, NEW r \in Listed(f), r.main, NEW k \in DOMAIN r.paths
      PROVE  /\ r.paths[k].dev \in Indexes /\ names[r.paths[k].dev] # Absent
             /\ names'[r.paths[k].dev] = names[r.paths[k].dev]
  <2>1. r \in Routes
    BY DEF Listed, RoutesOf
  <2>2. r.paths[k].dev \in Indexes /\ names[r.paths[k].dev] # Absent
    BY <1>7, <2>1, RouteFacts DEF TableSound, Live
  <2> QED BY <1>4, <1>5, <2>2
<1>8. \A f \in Families : Listed(f)' = Listed(f)
  BY <1>3 DEF Listed, RoutesOf
<1>9. TableSound'
  <2>1. ASSUME NEW f \in Families, NEW r \in Listed(f), r.main PROVE Live(r)'
    BY <1>7, <2>1 DEF Live
  <2> QED BY <1>1, <1>3, <1>8, <2>1 DEF TableSound
<1>10. ASSUME NEW i \in Watched, NEW f \in Families, NEW v \in Vias, Settled(i, f, v)
       PROVE  Settled(i, f, v)'
  <2>1. Now(i, f) = SelectDefault(table[f], i, names)
    BY <1>1 DEF Now, Target
  <2>2. Now(i, f)' = SelectDefault(table[f], i, names')
    BY <1>1, <1>3 DEF Now, Target
  <2>3. Now(i, f)' = Now(i, f)
    <3>1. \A r \in RoutesOf(table[f]) : r.main =>
              \A k \in DOMAIN r.paths : names'[r.paths[k].dev] = names[r.paths[k].dev]
      BY <1>7 DEF Listed
    <3> QED BY <2>1, <2>2, <3>1, SelectNaming
  <2>4. Assured(i, f)' <=> Assured(i, f)
    BY <1>3 DEF Assured, Touches, Remaining, Hops
  <2>5. Announced(i, f) => Announced(i, f)'
    <3> SUFFICES ASSUME NEW k \in DOMAIN updates, Touches(updates[k], i, f, names)
                 PROVE  Touches(updates[k], i, f, names')
      BY <1>3 DEF Announced, Touches
    <3>1. PICK r \in Routes : r = updates[k].route
      <4>1. updates[k] \in Notice
        BY DEF RouteType
      <4> QED BY <4>1 DEF Notice
    <3>2. PICK h : h \in DOMAIN r.paths /\ r.main /\ names[r.paths[h].dev] = i
      BY <3>1, InHops DEF Touches
    <3>3. names'[r.paths[h].dev] = i
      BY <1>4, <1>5, <3>2, RouteFacts
    <3> QED BY <3>1, <3>2, <3>3, InHops DEF Touches
  <2>6. ASSUME v = Now(i, f), v # NoEntry, NEW y \in Indexes, names'[y] = i
        PROVE  names[y] = i
    <3>1. CASE y # x
      BY <1>5, <2>6, <3>1
    <3>2. CASE y = x
      <4>1. i = j
        BY <1>5, <2>6, <3>2
      <4>2. PICK r \in RoutesOf(table[f]) : Hops(r, i, names) # {}
        BY <2>1, <2>6, SelectSome
      <4>3. PICK h : h \in DOMAIN r.paths /\ r.main /\ names[r.paths[h].dev] = i
        BY <4>2, InHops
      <4>4. r.paths[h].dev \in Indexes
        BY <4>3, <1>7 DEF Listed
      <4> QED BY <1>1, <4>1, <4>3, <4>4
    <3> QED BY <3>1, <3>2
  <2>7. CASE /\ v = Now(i, f)
             /\ v # NoEntry => \A y \in Indexes : names[y] = i => ifaceCache[y] = i
    BY <1>3, <2>3, <2>6, <2>7 DEF Settled
  <2> QED BY <1>3, <1>10, <2>4, <2>5, <2>7 DEF Settled
<1>11. \A r \in Routes : r \in Listed(r.family)' => r \in Listed(r.family) /\ r # unlinking
  BY <1>1, <1>8, RouteFacts
<1> QED BY <1>1, <1>2, <1>5, <1>6, <1>9, <1>10, <1>11, UnannouncedKeeps


(* What a device takes with it, and how that is announced.                 *)
LEMMA FlushEffect ==
    ASSUME RouteInv, NEW x \in Indexes, NEW gone \in BOOLEAN, NEW broken \in SUBSET Spanning(x),
           FlushDevice(x, gone, broken)
    PROVE  \E flushed \in SUBSET Routes, us \in Seq(Notice) :
              /\ \A f \in Families : \A r \in Listed(f) :
                    /\ gone /\ (\E k \in DOMAIN r.paths : r.paths[k].dev = x) => r \in flushed
                    /\ r \in flushed /\ f # "v4" => \E j \in DOMAIN us : us[j] = Del(r)
                    /\ r \in flushed /\ f = "v4" /\ r.main =>
                          \A k \in DOMAIN r.paths : <<names[r.paths[k].dev], f>> \in silent'
              /\ \A j \in DOMAIN us : \E r \in flushed : us[j] = Del(r)
              /\ Notify(us)
              /\ table' = [f \in Families |-> Without(table[f], flushed)]
<1> DEFINE flushed == {r \in AllListed : Through(x, r)} \cup broken
           loud == {r \in flushed : r.family # "v4"}
<1>1. AllListed \subseteq Routes /\ \A f \in Families : \A r \in Listed(f) : r \in AllListed
  BY DEF AllListed, Listed, RoutesOf
<1>2. \A f \in Families : \A r \in Listed(f) : r.family = f
  BY DEF RouteInv, TableSound
<1>3. flushed \subseteq AllListed /\ flushed \in SUBSET Routes /\ loud \subseteq Routes
  BY <1>1 DEF Spanning
<1>4. PICK n \in Nat : n = Cardinality(loud)
  <2>1. loud \subseteq Routes /\ IsFiniteSet(Routes)
    BY <1>3, RouteFacts
  <2>2. IsFiniteSet(loud)
    <3> HIDE DEF loud
    <3> QED BY <2>1, FS_Subset
  <2> HIDE DEF loud
  <2> QED BY <2>2, FS_CardinalityType
<1>5. PICK rs \in [1..n -> loud] :
          /\ Range(rs) = loud
          /\ Notify([k \in DOMAIN rs |-> [type |-> "del", route |-> rs[k]]])
  BY <1>4 DEF FlushDevice
<1>6. PICK us : us = [k \in 1..n |-> Del(rs[k])]
  OBVIOUS
<1>7. us \in Seq(Notice)
  <2>1. \A k \in 1..n : Del(rs[k]) \in Notice
    <3> HIDE DEF loud
    <3> QED BY <1>3, <1>5, NoticeFacts
  <2>2. us \in [1..n -> Notice]
    BY <1>6, <2>1
  <2> QED BY <1>4, <2>2, SeqDef
<1>8. Notify(us)
  <2>1. us = [k \in DOMAIN rs |-> [type |-> "del", route |-> rs[k]]]
    BY <1>5, <1>6 DEF Del
  <2> QED BY <1>5, <2>1
<1>9. DOMAIN us = 1..n /\ \A k \in 1..n : us[k] = Del(rs[k]) /\ rs[k] \in loud
  <2> HIDE DEF loud
  <2> QED BY <1>5, <1>6
<1>10. ASSUME NEW r \in loud PROVE \E j \in DOMAIN us : us[j] = Del(r)
  <2>1. PICK k \in DOMAIN rs : rs[k] = r
    <3> HIDE DEF loud
    <3> QED BY <1>5 DEF Range
  <2>2. k \in 1..n
    <3> HIDE DEF loud
    <3> QED BY <1>5, <2>1
  <2> QED BY <1>9, <2>1, <2>2
<1>11. table' = [f \in Families |-> Without(table[f], flushed)]
  BY DEF FlushDevice
<1>12. gone => broken = Spanning(x)
  BY DEF FlushDevice
<1>13. ASSUME NEW r \in flushed \ loud, r.main, NEW k \in DOMAIN r.paths
       PROVE  <<names[r.paths[k].dev], "v4">> \in silent'
  <2>1. silent' = silent \cup UNION {NamesOf(q) \X {"v4"} : q \in {q \in flushed \ loud : q.main}}
    BY DEF FlushDevice
  <2>2. names[r.paths[k].dev] \in NamesOf(r)
    BY DEF NamesOf
  <2> HIDE DEF flushed, loud
  <2> QED BY <1>13, <2>1, <2>2
<1>14. ASSUME NEW f \in Families, NEW r \in Listed(f)
       PROVE  /\ gone /\ (\E k \in DOMAIN r.paths : r.paths[k].dev = x) => r \in flushed
              /\ r \in flushed /\ f # "v4" => \E j \in DOMAIN us : us[j] = Del(r)
              /\ r \in flushed /\ f = "v4" /\ r.main =>
                    \A k \in DOMAIN r.paths : <<names[r.paths[k].dev], f>> \in silent'
  <2>1. r \in AllListed /\ r.family = f
    BY <1>1, <1>2
  <2>2. r \in flushed /\ f # "v4" => r \in loud
    BY <2>1
  <2>3. r \in flushed /\ f = "v4" => r \in flushed \ loud
    BY <2>1
  <2>4. gone /\ (\E k \in DOMAIN r.paths : r.paths[k].dev = x) => r \in flushed
    BY <1>12, <2>1 DEF Spanning
  <2> HIDE DEF flushed, loud
  <2> QED BY <1>10, <1>13, <2>1, <2>2, <2>3, <2>4
<1>15. \A j \in DOMAIN us : \E r \in flushed : us[j] = Del(r)
  BY <1>9
<1> HIDE DEF flushed
<1> QED BY <1>3, <1>7, <1>8, <1>11, <1>14, <1>15

LEMMA FlushDeviceKeeps ==
    ASSUME RouteInv, NEW x \in Indexes, NEW gone \in BOOLEAN, NEW broken \in SUBSET Spanning(x),
           FlushDevice(x, gone, broken)
    PROVE  RouteInv'
<1> USE DEF RouteInv
<1>1. PICK flushed \in SUBSET Routes, us \in Seq(Notice) :
          /\ \A f \in Families : \A r \in Listed(f) :
                /\ gone /\ (\E k \in DOMAIN r.paths : r.paths[k].dev = x) => r \in flushed
                /\ r \in flushed /\ f # "v4" => \E j \in DOMAIN us : us[j] = Del(r)
                /\ r \in flushed /\ f = "v4" /\ r.main =>
                      \A k \in DOMAIN r.paths : <<names[r.paths[k].dev], f>> \in silent'
          /\ \A j \in DOMAIN us : \E r \in flushed : us[j] = Del(r)
          /\ Notify(us)
          /\ table' = [f \in Families |-> Without(table[f], flushed)]
  BY FlushEffect
<1>2. /\ unlinking = NoRoute /\ names[x] # Absent
      /\ names' = IF gone THEN [names EXCEPT ![x] = Absent] ELSE names
      /\ silent \subseteq silent'
      /\ UNCHANGED <<used, unlinking, sub, primed, gateways>>
  BY DEF FlushDevice, Change
<1>3. table \in [Families -> Dump] /\ names \in Naming
  BY DEF RouteType
<1>4. /\ names' \in Naming
      /\ \A y \in Indexes : names'[y] = names[y] \/ (names'[y] = Absent /\ y = x /\ gone)
  BY <1>2, <1>3 DEF Naming
<1>5. \A f \in Families : table'[f] = Without(table[f], flushed)
  BY <1>1
<1>6. table' \in [Families -> Dump]
  <2>1. \A f \in Families : Without(table[f], flushed) \in Dump
    BY <1>3 DEF Without, Dump
  <2> QED BY <1>1, <2>1
<1>7. \A f \in Families : Listed(f)' = Listed(f) \ flushed /\ Listed(f) \subseteq Routes
  BY <1>5, ListedWithout DEF Listed, RoutesOf
<1>8. UNCHANGED <<ifaceCache, used>>
  BY <1>2 DEF sub
<1>9. NamesSound'
  BY <1>4, <1>8 DEF NamesSound
<1>10. TableSound'
  <2>1. ASSUME NEW f \in Families, NEW r \in Listed(f)', r.main PROVE Live(r)'
    <3>1. r \in Listed(f) /\ r \notin flushed /\ r \in Routes
      BY <1>7
    <3>2. ASSUME NEW k \in DOMAIN r.paths PROVE names'[r.paths[k].dev] # Absent
      <4>1. r.paths[k].dev \in Indexes /\ names[r.paths[k].dev] # Absent
        BY <2>1, <3>1, RouteFacts DEF TableSound, Live
      <4>2. gone => r.paths[k].dev # x
        BY <1>1, <3>1
      <4> QED BY <1>4, <4>1, <4>2
    <3> QED BY <3>2 DEF Live
  <2>2. \A f \in Families : \A p \in table'[f] : p[1] \in Listed(f)' /\ p[2] \in Listed(f)'
    BY <1>5, <1>7 DEF TableSound, Without
  <2>3. \A f \in Families : \A r \in Listed(f)' : r.family = f
    BY <1>7 DEF TableSound
  <2> QED BY <1>2, <2>1, <2>2, <2>3 DEF TableSound
<1>11. \A r \in Routes : r \in Listed(r.family)' => r \in Listed(r.family) /\ r # unlinking
  BY <1>2, <1>7, RouteFacts
<1>12. ASSUME NEW j \in DOMAIN us PROVE ~Returned(us[j])'
  <2>1. PICK r \in flushed : us[j] = Del(r)
    BY <1>1
  <2>2. r \notin Listed(r.family)'
    BY <1>7, RouteFacts
  <2> QED BY <2>1, <2>2, NoticeFacts DEF Returned
<1>13. ASSUME NEW f \in Families
       PROVE  Target(f) = table[f] /\ Target(f)' = Without(table[f], flushed)
  BY <1>2, <1>5 DEF Target
<1>14. ASSUME ~overrun', pc # "off", NEW i \in Watched, NEW f \in Families, NEW v \in Vias,
              Settled(i, f, v)
       PROVE  Settled(i, f, v)'
  <2>1. updates' = updates \o us
    BY <1>1, <1>14, NotifyEffect
  <2>2. \/ Settled(i, f, v)'
        \/ /\ v = Now(i, f)
           /\ v # NoEntry => \A y \in Indexes : names[y] = i => ifaceCache[y] = i
           /\ \A j \in DOMAIN us : ~Touches(us[j], i, f, ifaceCache)
           /\ v = NoEntry => \A j \in DOMAIN us : ~Touches(us[j], i, f, names')
        \/ /\ v = NoEntry
           /\ \E r \in Routes : Hops(r, i, names) # {} /\ Hops(r, i, names') = {}
    BY <1>2, <1>14, <2>1, SettledKernel
  <2>3. i # Absent
    BY RouteFacts
  \* An IPv4 route of i that is lost is one of the silent removals.
  <2>4. ASSUME NEW r \in Listed(f), r \in flushed, Hops(r, i, names) # {}, f = "v4"
        PROVE  Settled(i, f, v)'
    <3>1. PICK k : k \in DOMAIN r.paths /\ r.main /\ names[r.paths[k].dev] = i
      BY <2>4, InHops
    <3>2. <<i, f>> \in silent'
      BY <1>1, <2>4, <3>1
    <3> QED BY <3>2 DEF Settled
  \* An IPv6 one is announced.
  <2>5. ASSUME NEW r \in Listed(f), r \in flushed, Hops(r, i, names) # {}, f # "v4",
               v # NoEntry, \A y \in Indexes : names[y] = i => ifaceCache[y] = i
        PROVE  \E j \in DOMAIN us : Touches(us[j], i, f, ifaceCache)
    <3>1. PICK j \in DOMAIN us : us[j] = Del(r)
      BY <1>1, <2>5
    <3>2. r \in Routes /\ r.family = f
      BY <1>7 DEF TableSound
    <3>3. Hops(r, i, ifaceCache) # {}
      BY <2>5, <3>2, KnownTouch
    <3> QED BY <3>1, <3>2, <3>3, NoticeFacts DEF Touches
  <2>6. CASE gone /\ i = names[x]
    <3>1. \A y \in Indexes : names'[y] # i
      BY <1>2, <1>3, <2>3, <2>6 DEF Naming, NamesSound
    <3>2. Now(i, f)' = NoEntry
      <4>1. ASSUME NEW r \in RoutesOf(Target(f)') PROVE Hops(r, i, names') = {}
        BY <3>1, InHops, RouteFacts DEF RoutesOf
      <4> QED BY <4>1, SelectNone DEF Now
    <3>3. CASE v = NoEntry
      BY <3>2, <3>3 DEF Settled
    <3>4. ASSUME v = Now(i, f), v # NoEntry,
                 \A y \in Indexes : names[y] = i => ifaceCache[y] = i,
                 \A j \in DOMAIN us : ~Touches(us[j], i, f, ifaceCache)
          PROVE  Settled(i, f, v)'
      <4>1. PICK r \in RoutesOf(table[f]) : Hops(r, i, names) # {}
        BY <1>13, <3>4, SelectSome DEF Now
      <4>2. r \in Listed(f) /\ r \in Routes
        BY <4>1 DEF Listed, RoutesOf
      <4>3. PICK k : k \in DOMAIN r.paths /\ names[r.paths[k].dev] = i
        BY <4>1, InHops
      <4>4. r.paths[k].dev = x
        BY <2>3, <2>6, <4>2, <4>3, RouteFacts DEF NamesSound
      <4>5. r \in flushed
        BY <1>1, <2>6, <4>2, <4>3, <4>4
      <4> QED BY <2>4, <2>5, <3>4, <4>1, <4>2, <4>5
    <3> QED BY <2>2, <3>3, <3>4
  <2>7. CASE ~(gone /\ i = names[x])
    <3>1. \A y \in Indexes : names'[y] = i <=> names[y] = i
      BY <1>4, <2>3, <2>7
    <3>2. \A r \in Routes : \A k : k \in Hops(r, i, names') <=> k \in Hops(r, i, names)
      BY <3>1, InHops, RouteFacts
    <3>3. ~\E r \in Routes : Hops(r, i, names) # {} /\ Hops(r, i, names') = {}
      BY <3>2
    <3>4. ASSUME NEW r \in Listed(f), r \in flushed, Hops(r, i, names) # {}, f # "v4"
          PROVE  Settled(i, f, v)'
      <4>1. CASE v # NoEntry
        BY <2>2, <2>5, <3>3, <3>4, <4>1
      <4>2. CASE v = NoEntry
        <5>1. PICK j \in DOMAIN us : us[j] = Del(r)
          BY <1>1, <3>4
        <5>2. r \in Routes /\ r.family = f
          BY <1>7 DEF TableSound
        <5>3. Hops(r, i, names') # {}
          BY <3>2, <3>4, <5>2
        <5>4. Touches(us[j], i, f, names')
          BY <5>1, <5>2, <5>3, NoticeFacts DEF Touches
        <5> QED BY <2>2, <3>3, <4>2, <5>4
      <4> QED BY <4>1, <4>2
    <3>5. ASSUME \A r \in Listed(f) : r \in flushed => Hops(r, i, names) = {}
          PROVE  Settled(i, f, v)'
      <4>1. Now(i, f)' = Now(i, f)
        <5>1. SelectDefault(Without(table[f], flushed), i, names') = SelectDefault(table[f], i, names)
          BY <3>2, <3>5, SelectWithoutRenamed DEF Listed
        <5> QED BY <1>13, <5>1 DEF Now
      <4> QED BY <1>8, <2>2, <3>1, <3>3, <4>1 DEF Settled
    <3> QED BY <2>4, <3>4, <3>5
  <2> QED BY <2>6, <2>7
<1> QED BY <1>1, <1>2, <1>3, <1>4, <1>6, <1>9, <1>10, <1>11, <1>12, <1>14, KernelKeeps
       DEF RouteType


(***************************************************************************)
(* The subscriber and the daemon.                                          *)
(***************************************************************************)
LEMMA TouchesLearn ==
    ASSUME RouteType, NamesSound, NEW R, NEW c, c = Learn(ifaceCache, R),
           NEW r \in Routes, NEW i \in Watched
    PROVE  /\ Hops(r, i, ifaceCache) # {} => Hops(r, i, c) # {}
           /\ r \in R /\ Hops(r, i, names) # {} => Hops(r, i, c) # {}
<1>1. i # Absent
  BY RouteFacts
<1>2. ASSUME Hops(r, i, ifaceCache) # {} PROVE Hops(r, i, c) # {}
  <2>1. PICK k : k \in DOMAIN r.paths /\ r.main /\ ifaceCache[r.paths[k].dev] = i
    BY <1>2, InHops
  <2>2. c[r.paths[k].dev] = i
    BY <1>1, <2>1, LearnFacts, RouteFacts
  <2> QED BY <2>1, <2>2, InHops
<1>3. ASSUME r \in R, Hops(r, i, names) # {} PROVE Hops(r, i, c) # {}
  <2>1. PICK k : k \in DOMAIN r.paths /\ r.main /\ names[r.paths[k].dev] = i
    BY <1>3, InHops
  <2>2. c[r.paths[k].dev] = i
    BY <1>1, <1>3, <2>1, LearnFacts, RouteFacts
  <2> QED BY <2>1, <2>2, InHops
<1> QED BY <1>2, <1>3

(* Learning names takes nothing away from what was settled.                *)
LEMMA SettledLearn ==
    ASSUME RouteType, NamesSound, NEW R, ifaceCache' = Learn(ifaceCache, R),
           UNCHANGED <<names, table, unlinking>>,
           NEW i \in Watched, NEW f \in Families, NEW v, Settled(i, f, v)
    PROVE  \/ <<i, f>> \in silent
           \/ Assured(i, f)
           \/ /\ v = Now(i, f)'
              /\ v # NoEntry => \A x \in Indexes : names'[x] = i => ifaceCache'[x] = i
           \/ v = NoEntry /\ Announced(i, f)
<1>1. Now(i, f)' = Now(i, f)
  BY DEF Now, Target
<1>2. i # Absent
  BY RouteFacts
<1>3. PICK c : c = ifaceCache' /\ c = Learn(ifaceCache, R)
  OBVIOUS
<1>4. \A x \in Indexes : ifaceCache[x] # Absent => ifaceCache'[x] = ifaceCache[x]
  BY <1>3, LearnFacts
<1> QED BY <1>1, <1>2, <1>4 DEF Settled

LEMMA NamesLearn ==
    ASSUME RouteType, NamesSound, NEW R, ifaceCache' = Learn(ifaceCache, R),
           UNCHANGED <<names, used>>
    PROVE  ifaceCache' \in Naming /\ NamesSound'
<1>1. PICK c : c = ifaceCache' /\ c = Learn(ifaceCache, R)
  OBVIOUS
<1>2. /\ c \in Naming
      /\ \A x \in Indexes : names[x] # Absent => c[x] \in {Absent, names[x]}
      /\ \A x \in Indexes : c[x] # Absent => x \in used
  BY <1>1, LearnFacts
<1> QED BY <1>1, <1>2 DEF NamesSound

LEMMA TableSame ==
    ASSUME TableSound, UNCHANGED <<table, names, unlinking>>
    PROVE  TableSound'
BY DEF TableSound, Listed, RoutesOf, Live

(* Before the snapshot and after the end there is nothing to follow.       *)
LEMMA OffDutyKeeps ==
    ASSUME RouteInv, Subscribe \/ DumpFails \/ SubscriptionClosed, ~MidDelete
    PROVE  RouteInv'
<1> USE DEF RouteInv
<1>1. /\ UNCHANGED <<kernel, queues, ifaceCache, snapshot, upd, event, primed, gateways, silent>>
      /\ \/ pc = "off" /\ pc' = "snapshot" /\ todo' = Families /\ unlinking = NoRoute
         \/ pc \in {"snapshot", "reconcile"} /\ pc' = pc /\ todo' = todo
         \/ pc # "off" /\ pc' = "exited" /\ todo' = todo
  BY DEF Subscribe, DumpFails, SubscriptionClosed
<1>2. UNCHANGED <<names, used, table, unlinking, updates, overrun, out>>
  BY <1>1 DEF kernel, queues
<1>3. RouteType' /\ NamesSound' /\ TableSound'
  <2>1. pc' \in {"off", "snapshot", "idle", "reconcile", "send", "exited"}
    BY <1>1
  <2> QED BY <1>1, <1>2, <2>1, TableSame DEF RouteType, NamesSound
<1>4. Progress'
  BY <1>1, <1>2 DEF Progress
<1>5. UnlinkAnnounced'
  BY <1>1, <1>2 DEF UnlinkAnnounced
<1>6. ReAddAnnounced'
  <2>1. \A u : Returned(u)' <=> Returned(u)
    BY <1>2 DEF Returned, Listed, RoutesOf
  <2>2. pc' \in {"reconcile", "send"} => pc \in {"reconcile", "send"}
    BY <1>1
  <2> QED BY <1>1, <1>2, <2>2 DEF ReAddAnnounced, Returned, Listed, RoutesOf
<1>7. CacheFollows'
  <2> SUFFICES ASSUME ~overrun', NEW i \in Watched, NEW f \in Families, NEW v \in Vias,
                      HasRead(f)', Said(i, f, v)'
               PROVE  Settled(i, f, v)'
    BY DEF CacheFollows
  <2>1. pc' = pc /\ todo' = todo
    BY <1>1 DEF HasRead
  <2>2. HasRead(f) /\ Said(i, f, v)
    BY <1>1, <1>2, <2>1 DEF HasRead, Said, RouteHeard
  <2>3. Settled(i, f, v)
    BY <1>2, <2>2 DEF CacheFollows
  <2>4. (Assured(i, f)' <=> Assured(i, f)) /\ (Announced(i, f)' <=> Announced(i, f))
    BY <1>1, <1>2, <2>1 DEF Assured, Announced, Touches, Remaining, Hops
  <2>5. Now(i, f)' = Now(i, f)
    BY <1>2 DEF Now, Target
  <2> QED BY <1>1, <1>2, <2>3, <2>4, <2>5 DEF Settled
<1> QED BY <1>3, <1>4, <1>5, <1>6, <1>7

(* A read while a delete is under way is current, or is told about it.     *)
LEMMA ReadIsCurrent ==
    ASSUME RouteType, NamesSound, TableSound, UnlinkAnnounced, ~overrun, pc # "off",
           NEW f \in Families, NEW i \in Watched,
           unlinking # NoRoute => upd # Del(unlinking),
           NEW c, c = Learn(ifaceCache, Listed(f))
    PROVE  LET v == SelectDefault(table[f], i, c)
           IN  \/ v = Now(i, f) /\ (v # NoEntry => \A x \in Indexes : names[x] = i => c[x] = i)
               \/ \E k \in DOMAIN updates : Touches(updates[k], i, f, c)
<1>1. CASE f = "v4" /\ unlinking # NoRoute /\ Hops(unlinking, i, names) # {}
  <2>1. PICK r \in Routes : r = unlinking /\ r \in Listed("v4") /\ r.family = "v4"
    BY <1>1 DEF RouteType, TableSound
  <2>2. updates # <<>> /\ updates[Len(updates)] = Del(r)
    BY <1>1, <2>1 DEF UnlinkAnnounced
  <2>3. Len(updates) \in DOMAIN updates
    BY <2>2 DEF RouteType
  <2>4. Hops(r, i, c) # {}
    BY <1>1, <2>1, TouchesLearn
  <2>5. Touches(Del(r), i, f, c)
    BY <1>1, <2>1, <2>4, NoticeFacts DEF Touches
  <2> QED BY <2>2, <2>3, <2>5
<1>2. CASE ~(f = "v4" /\ unlinking # NoRoute /\ Hops(unlinking, i, names) # {})
  <2>1. SelectDefault(table[f], i, names) = Now(i, f)
    <3>1. CASE f = "v4" /\ unlinking # NoRoute
      <4>1. \A r \in {unlinking} : Hops(r, i, names) = {}
        BY <1>2, <3>1
      <4>2. SelectDefault(Without(table[f], {unlinking}), i, names) = SelectDefault(table[f], i, names)
        BY <4>1, SelectWithout
      <4> QED BY <3>1, <4>2 DEF Now, Target
    <3>2. CASE ~(f = "v4" /\ unlinking # NoRoute)
      BY <3>2 DEF Now, Target
    <3> QED BY <3>1, <3>2
  <2>2. RoutesOf(table[f]) \subseteq Listed(f)
    BY DEF Listed
  <2> QED BY <2>1, <2>2, FreshRead
<1> QED BY <1>1, <1>2


LEMMA RouteSnapshotKeeps ==
    ASSUME RouteInv, NEW g \in Families, ReadSnapshot(g)
    PROVE  RouteInv'
<1> USE DEF RouteInv
<1>1. /\ pc = "snapshot" /\ g \in todo
      /\ ifaceCache' = Learn(ifaceCache, Listed(g))
      /\ snapshot' = [i \in Watched |->
            [snapshot[i] EXCEPT ![g] = SelectDefault(table[g], i, ifaceCache')]]
      /\ silent' = {s \in silent : s[2] # g}
      /\ todo' = todo \ {g}
      /\ pc' = IF todo' = {} THEN "idle" ELSE "snapshot"
      /\ UNCHANGED <<kernel, queues, upd, event, primed, gateways>>
  BY DEF ReadSnapshot
<1>2. UNCHANGED <<names, used, table, unlinking, updates, overrun, out>>
  BY <1>1 DEF kernel, queues
<1>3. ifaceCache' \in Naming /\ NamesSound'
  BY <1>1, <1>2, NamesLearn
<1>4. PICK c \in Naming : c = ifaceCache' /\ c = Learn(ifaceCache, Listed(g))
  BY <1>1, <1>3
<1>5. ASSUME NEW i \in Watched
      PROVE  /\ snapshot'[i] \in [Families -> Vias]
             /\ snapshot'[i][g] = SelectDefault(table[g], i, c)
             /\ \A f \in Families : f # g => snapshot'[i][f] = snapshot[i][f]
  <2>1. snapshot[i] \in [Families -> Vias] /\ table[g] \in Dump
    BY DEF RouteType
  <2>2. SelectDefault(table[g], i, c) \in Vias
    BY <2>1, SelectIsVia
  <2>3. snapshot'[i] = [snapshot[i] EXCEPT ![g] = SelectDefault(table[g], i, c)]
    BY <1>1, <1>4
  <2> QED BY <2>1, <2>2, <2>3
<1>6. RouteType'
  <2>1. snapshot' \in [Watched -> [Families -> Vias]]
    BY <1>1, <1>5
  <2>2. pc' \in {"snapshot", "idle"}
    BY <1>1
  <2> QED BY <1>1, <1>2, <1>3, <2>1, <2>2 DEF RouteType
<1>7. out = <<>> /\ ~primed /\ upd = NoUpdate
  BY <1>1 DEF Progress
<1>8. Progress'
  <2>1. pc' \in {"snapshot", "idle"}
    BY <1>1
  <2> QED BY <1>1, <1>2, <1>7, <2>1 DEF Progress
<1>9. TableSound'
  BY <1>2, TableSame
<1>10. UnlinkAnnounced'
  BY <1>1, <1>2 DEF UnlinkAnnounced
<1>11. ReAddAnnounced'
  <2>1. pc' \notin {"reconcile", "send"}
    BY <1>1
  <2> QED BY <1>2, <2>1 DEF ReAddAnnounced, Returned, Listed, RoutesOf
<1>12. CacheFollows'
  <2> SUFFICES ASSUME ~overrun', NEW i \in Watched, NEW f \in Families, NEW v \in Vias,
                      HasRead(f)', Said(i, f, v)'
               PROVE  Settled(i, f, v)'
    BY DEF CacheFollows
  <2>1. pc' \in {"snapshot", "idle"} /\ f \notin todo' /\ ~overrun
    BY <1>1, <1>2 DEF HasRead
  <2>2. v = snapshot'[i][f]
    <3>1. RouteHeard(i, f, v)'
      BY <2>1 DEF Said
    <3>2. DOMAIN out' = {} /\ ~primed'
      BY <1>1, <1>2, <1>7
    <3> QED BY <3>1, <3>2 DEF RouteHeard
  <2>3. Remaining = {} /\ Remaining' = {}
    BY <1>1, <2>1 DEF Remaining
  <2>4. ASSUME NEW k \in DOMAIN updates, Touches(updates[k], i, f, c) PROVE Assured(i, f)'
    BY <1>2, <1>4, <2>4 DEF Assured, Touches
  <2>5. CASE f = g
    <3>1. v = SelectDefault(table[f], i, c)
      BY <1>5, <2>2, <2>5
    <3>2. unlinking # NoRoute => upd # Del(unlinking)
      BY <1>7 DEF NoUpdate, Del
    <3>3. \/ v = Now(i, f) /\ (v # NoEntry => \A x \in Indexes : names[x] = i => c[x] = i)
          \/ \E k \in DOMAIN updates : Touches(updates[k], i, f, c)
      BY <1>1, <1>4, <2>1, <2>5, <3>1, <3>2, ReadIsCurrent
    <3>4. Now(i, f)' = Now(i, f)
      BY <1>2 DEF Now, Target
    <3> QED BY <1>2, <1>4, <2>4, <3>3, <3>4 DEF Settled
  <2>6. CASE f # g
    <3>1. v = snapshot[i][f] /\ f \notin todo
      BY <1>1, <1>5, <2>1, <2>2, <2>6
    <3>2. HasRead(f) /\ Said(i, f, v)
      BY <1>1, <1>7, <3>1 DEF HasRead, Said, RouteHeard
    <3>3. Settled(i, f, v)
      BY <2>1, <3>2 DEF CacheFollows
    <3>4. \/ <<i, f>> \in silent
          \/ Assured(i, f)
          \/ /\ v = Now(i, f)'
             /\ v # NoEntry => \A x \in Indexes : names'[x] = i => ifaceCache'[x] = i
          \/ v = NoEntry /\ Announced(i, f)
      BY <1>1, <1>2, <3>3, SettledLearn
    <3>5. CASE <<i, f>> \in silent
      <4>1. <<i, f>> \in silent'
        BY <1>1, <2>6, <3>5
      <4> QED BY <4>1 DEF Settled
    <3>6. CASE Assured(i, f)
      <4>1. PICK k \in DOMAIN updates : Touches(updates[k], i, f, ifaceCache)
        BY <2>3, <3>6 DEF Assured
      <4>2. updates[k] \in Notice
        BY DEF RouteType
      <4>3. updates[k].route \in Routes
        BY <4>2 DEF Notice
      <4>4. Touches(updates[k], i, f, c)
        BY <1>4, <4>1, <4>3, TouchesLearn DEF Touches
      <4> QED BY <2>4, <4>4 DEF Settled
    <3>7. CASE v = NoEntry /\ Announced(i, f)
      BY <1>2, <3>7 DEF Settled, Announced, Touches
    <3> QED BY <3>4, <3>5, <3>6, <3>7 DEF Settled
  <2> QED BY <2>5, <2>6
<1> QED BY <1>3, <1>6, <1>8, <1>9, <1>10, <1>11, <1>12

(* The candidate of an interface is its first next-hop.                    *)
LEMMA CandidateFacts ==
    ASSUME NEW r \in Routes, NEW n \in Naming
    PROVE  /\ Candidates(r, n) \subseteq DOMAIN r.paths
           /\ Candidates(r, n) # {} => r.main
           /\ \A k \in Candidates(r, n) : n[r.paths[k].dev] \in Watched
           /\ \A i \in Watched : Hops(r, i, n) # {} =>
                 \E k \in Candidates(r, n) : n[r.paths[k].dev] = i
<1>1. ASSUME NEW i \in Watched, Hops(r, i, n) # {}
      PROVE  /\ Min(Hops(r, i, n)) \in DOMAIN r.paths /\ r.main
             /\ n[r.paths[Min(Hops(r, i, n))].dev] = i
  <2>1. Hops(r, i, n) \subseteq DOMAIN r.paths
    BY InHops
  <2>2. Min(Hops(r, i, n)) \in Hops(r, i, n)
    BY <1>1, <2>1, FirstHop
  <2> QED BY <2>2, InHops
<1>2. \A k \in Candidates(r, n) : k \in DOMAIN r.paths /\ r.main /\ n[r.paths[k].dev] \in Watched
  BY <1>1 DEF Candidates
<1>3. ASSUME NEW i \in Watched, Hops(r, i, n) # {}
      PROVE  \E k \in Candidates(r, n) : n[r.paths[k].dev] = i
  BY <1>1, <1>3 DEF Candidates
<1> QED BY <1>2, <1>3

LEMMA HandleUpdateKeeps ==
    ASSUME RouteInv, HandleUpdate
    PROVE  RouteInv'
<1> USE DEF RouteInv
<1>1. /\ pc = "idle" /\ updates # <<>> /\ updates' = Tail(updates) /\ upd' = Head(updates)
      /\ ifaceCache' = Learn(ifaceCache, {upd'.route})
      /\ todo' = Candidates(upd'.route, ifaceCache')
      /\ pc' = IF todo' = {} THEN "idle" ELSE "reconcile"
      /\ UNCHANGED <<kernel, overrun, out, snapshot, event, primed, gateways, silent>>
  BY DEF HandleUpdate
<1>2. UNCHANGED <<names, used, table, unlinking>>
  BY <1>1 DEF kernel
<1>3. updates \in Seq(Notice) /\ Len(updates) <= Backlog /\ Backlog \in Nat
  BY RouteFacts DEF RouteType
<1>4. /\ updates' \in Seq(Notice) /\ Len(updates') = Len(updates) - 1 /\ Len(updates) \in Nat
      /\ upd' = updates[1] /\ 1 \in DOMAIN updates /\ upd' \in Notice
      /\ \A k \in DOMAIN updates' : k + 1 \in DOMAIN updates /\ updates'[k] = updates[k + 1]
      /\ \A k \in DOMAIN updates :
            /\ k \in Nat
            /\ k = 1 \/ (k > 1 /\ k - 1 \in DOMAIN updates' /\ updates'[k - 1] = updates[k])
  BY <1>1, <1>3, Shortened
<1>5. PICK u \in Notice : u = upd'
  BY <1>4
<1>6. u.route \in Routes
  BY DEF Notice
<1>7. ifaceCache' \in Naming /\ NamesSound'
  BY <1>1, <1>2, NamesLearn
<1>8. PICK c \in Naming : c = ifaceCache' /\ c = Learn(ifaceCache, {u.route})
  BY <1>1, <1>5, <1>7
<1>9. pc' \in {"idle", "reconcile"}
  BY <1>1
<1>10. RouteType'
  BY <1>1, <1>2, <1>3, <1>4, <1>7, <1>9 DEF RouteType
<1>11. Progress'
  <2>1. pc' = "reconcile" => todo' # {}
    BY <1>1
  <2>2. todo' = Candidates(u.route, c)
    BY <1>1, <1>5, <1>8
  <2>3. /\ todo' \subseteq DOMAIN u.route.paths /\ (todo' # {} => u.route.main)
        /\ \A k \in todo' : ifaceCache'[u.route.paths[k].dev] \in Watched
    BY <1>6, <1>8, <2>2, CandidateFacts
  <2> QED BY <1>5, <1>9, <2>1, <2>3 DEF Progress
<1>12. TableSound'
  BY <1>2, TableSame
<1>13. UnlinkAnnounced'
  <2> SUFFICES ASSUME ~overrun, unlinking # NoRoute
               PROVE  IF updates' = <<>> THEN upd' = Del(unlinking)
                                         ELSE updates'[Len(updates')] = Del(unlinking)
    BY <1>1, <1>2 DEF UnlinkAnnounced
  <2>1. updates[Len(updates)] = Del(unlinking)
    BY <1>1 DEF UnlinkAnnounced
  <2>2. Len(updates) \in DOMAIN updates
    BY <1>1, <1>3
  <2>3. CASE Len(updates) = 1
    <3>1. updates' = <<>>
      BY <1>4, <2>3
    <3> QED BY <1>4, <2>1, <2>3, <3>1
  <2>4. CASE Len(updates) # 1
    <3>1. updates'[Len(updates')] = updates[Len(updates)] /\ Len(updates') \in DOMAIN updates'
      BY <1>4, <2>2, <2>4
    <3> QED BY <2>1, <3>1
  <2> QED BY <2>3, <2>4
<1>14. ReAddAnnounced'
  <2> SUFFICES ASSUME ~overrun PROVE ReAddAnnounced'
    BY <1>1 DEF ReAddAnnounced
  <2>1. \A w : Returned(w)' <=> Returned(w)
    BY <1>2 DEF Returned, Listed, RoutesOf
  <2>2. ASSUME NEW k \in DOMAIN updates', Returned(updates[k])'
        PROVE  \E m \in DOMAIN updates' : m > k /\ updates'[m] = New(updates'[k].route)
    <3>1. PICK w : w = updates'[k]
      OBVIOUS
    <3>2. Returned(w)
      BY <1>2, <2>2, <3>1 DEF Returned, Listed, RoutesOf
    <3>3. k + 1 \in DOMAIN updates /\ updates[k + 1] = w
      BY <1>4, <3>1
    <3>4. PICK m \in DOMAIN updates : m > k + 1 /\ updates[m] = New(w.route)
      BY <3>2, <3>3 DEF ReAddAnnounced
    <3>5. k \in Nat /\ m \in Nat
      BY <1>4
    <3>6. m - 1 \in DOMAIN updates' /\ updates'[m - 1] = updates[m] /\ m - 1 > k
      BY <1>4, <3>4, <3>5
    <3> QED BY <3>1, <3>4, <3>6
  <2>3. ASSUME Returned(upd)'
        PROVE  \E m \in DOMAIN updates' : updates'[m] = New(upd'.route)
    <3>1. Returned(u)
      BY <1>2, <1>5, <2>3 DEF Returned, Listed, RoutesOf
    <3>2. PICK m \in DOMAIN updates : m > 1 /\ updates[m] = New(u.route)
      BY <1>4, <1>5, <3>1 DEF ReAddAnnounced
    <3>3. m - 1 \in DOMAIN updates' /\ updates'[m - 1] = updates[m]
      BY <1>4, <3>2
    <3> QED BY <1>5, <3>2, <3>3
  <2> QED BY <2>2, <2>3 DEF ReAddAnnounced
<1>15. CacheFollows'
  <2> SUFFICES ASSUME ~overrun', NEW i \in Watched, NEW f \in Families, NEW v \in Vias,
                      HasRead(f)', Said(i, f, v)'
               PROVE  Settled(i, f, v)'
    BY DEF CacheFollows
  <2>1. HasRead(f) /\ Said(i, f, v) /\ ~overrun
    BY <1>1, <1>9 DEF HasRead, Said, RouteHeard
  <2>2. Settled(i, f, v)
    BY <2>1 DEF CacheFollows
  <2>3. \/ <<i, f>> \in silent
        \/ Assured(i, f)
        \/ /\ v = Now(i, f)'
           /\ v # NoEntry => \A x \in Indexes : names'[x] = i => ifaceCache'[x] = i
        \/ v = NoEntry /\ Announced(i, f)
    <3>1. PICK R : ifaceCache' = Learn(ifaceCache, R)
      BY <1>1
    <3> QED BY <1>2, <2>2, <3>1, SettledLearn
  <2>4. ASSUME Touches(u, i, f, c) PROVE Assured(i, f)'
    <3>1. PICK k \in Candidates(u.route, c) : c[u.route.paths[k].dev] = i
      BY <1>6, <2>4, CandidateFacts DEF Touches
    <3>2. todo' = Candidates(u.route, c)
      BY <1>1, <1>5, <1>8
    <3>3. k \in Remaining'
      BY <1>1, <3>2 DEF Remaining
    <3> QED BY <1>5, <1>8, <2>4, <3>1, <3>3 DEF Assured, Touches
  <2>5. CASE Assured(i, f)
    <3>1. Remaining = {}
      BY <1>1 DEF Remaining
    <3>2. PICK k \in DOMAIN updates : Touches(updates[k], i, f, ifaceCache)
      BY <2>5, <3>1 DEF Assured
    <3>3. updates[k] \in Notice
      BY <1>3
    <3>4. updates[k].route \in Routes
      BY <3>3 DEF Notice
    <3>5. Touches(updates[k], i, f, c)
      BY <1>8, <3>2, <3>4, TouchesLearn DEF Touches
    <3>6. CASE k = 1
      BY <1>4, <1>5, <2>4, <3>5, <3>6 DEF Settled
    <3>7. CASE k # 1
      <4>1. k - 1 \in DOMAIN updates' /\ updates'[k - 1] = updates[k]
        BY <1>4, <3>7
      <4>2. Assured(i, f)'
        BY <1>8, <3>5, <4>1 DEF Assured, Touches
      <4> QED BY <4>2 DEF Settled
    <3> QED BY <3>6, <3>7
  <2>6. CASE v = NoEntry /\ Announced(i, f)
    <3>1. PICK k \in DOMAIN updates : Touches(updates[k], i, f, names)
      BY <2>6 DEF Announced
    <3>2. CASE k = 1
      <4>1. Touches(u, i, f, names)
        BY <1>4, <1>5, <3>1, <3>2
      <4>2. Touches(u, i, f, c)
        BY <1>6, <1>8, <4>1, TouchesLearn DEF Touches
      <4> QED BY <2>4, <4>2 DEF Settled
    <3>3. CASE k # 1
      <4>1. k - 1 \in DOMAIN updates' /\ updates'[k - 1] = updates[k]
        BY <1>4, <3>3
      <4>2. Announced(i, f)'
        BY <1>2, <3>1, <4>1 DEF Announced, Touches
      <4> QED BY <2>6, <4>2 DEF Settled
    <3> QED BY <3>2, <3>3
  <2> QED BY <1>1, <2>3, <2>5, <2>6 DEF Settled
<1> QED BY <1>7, <1>10, <1>11, <1>12, <1>13, <1>14, <1>15


(* A table that a delete has left is the one the subscriber reads.         *)
LEMMA WithoutUnlisted ==
    ASSUME TableSound, NEW f \in Families, NEW r, r \notin Listed(f)
    PROVE  Without(table[f], {r}) = table[f]
BY DEF TableSound, Without

LEMMA ReconcileViaKeeps ==
    ASSUME RouteInv, ReconcileVia
    PROVE  RouteInv'
<1> USE DEF RouteInv
<1>1. PICK u \in Notice : u = upd /\ u.route.main
  BY DEF ReconcileVia, Progress
<1>2. PICK r \in Routes : r = u.route
  BY DEF Notice
<1>3. PICK g \in Families : g = r.family
  BY RouteFacts
<1>4. /\ todo # {} /\ todo \subseteq DOMAIN r.paths
      /\ \A k \in todo : ifaceCache[r.paths[k].dev] \in Watched
  BY <1>1, <1>2 DEF ReconcileVia, Progress
<1>5. PICK k0 \in todo : k0 = Min(todo)
  BY <1>4, FirstHop
<1>6. PICK i0 \in Watched : i0 = ifaceCache[r.paths[k0].dev]
  BY <1>4
<1>7. /\ pc = "reconcile" /\ pc' = "send"
      /\ ifaceCache' = Learn(ifaceCache, Listed(g))
      /\ event' = <<i0, g, Reconcile(table[g], u, i0, ifaceCache')>>
      /\ silent' = silent \ {<<i0, g>>}
      /\ UNCHANGED <<kernel, queues, snapshot, todo, upd, primed, gateways>>
  BY <1>1, <1>2, <1>3, <1>5, <1>6 DEF ReconcileVia
<1>8. UNCHANGED <<names, used, table, unlinking, updates, overrun, out>>
  BY <1>7 DEF kernel, queues
<1>9. ifaceCache' \in Naming /\ NamesSound'
  BY <1>7, <1>8, NamesLearn
<1>10. PICK c \in Naming : c = ifaceCache' /\ c = Learn(ifaceCache, Listed(g))
  BY <1>7, <1>9
<1>11. PICK dump \in Dump : dump = IF u.type = "del" THEN Without(table[g], {r}) ELSE table[g]
  <2>1. table[g] \in Dump
    BY DEF RouteType
  <2>2. Without(table[g], {r}) \in Dump
    BY <2>1 DEF Without, Dump
  <2> QED BY <2>1, <2>2
<1>12. PICK w \in Vias : w = SelectDefault(dump, i0, c)
  BY <1>10, <1>11, SelectIsVia
<1>13. event' = <<i0, g, w>>
  BY <1>2, <1>7, <1>10, <1>11, <1>12 DEF Reconcile
<1>14. \A k \in todo : ifaceCache'[r.paths[k].dev] = ifaceCache[r.paths[k].dev]
  <2>1. \A k \in todo : ifaceCache[r.paths[k].dev] # Absent /\ r.paths[k].dev \in Indexes
    BY <1>4, RouteFacts
  <2>2. \A x \in Indexes : ifaceCache[x] # Absent => c[x] = ifaceCache[x]
    BY <1>10, LearnFacts
  <2> QED BY <1>10, <2>1, <2>2
<1>15. RouteType'
  BY <1>7, <1>8, <1>9 DEF RouteType
<1>16. Progress'
  <2>1. event' = <<ifaceCache'[upd'.route.paths[Min(todo')].dev], upd'.route.family, w>>
    BY <1>1, <1>2, <1>3, <1>5, <1>6, <1>7, <1>13, <1>14
  <2>2. /\ upd' \in Notice /\ upd'.route.main /\ todo' # {}
        /\ todo' \subseteq DOMAIN upd'.route.paths
        /\ \A k \in todo' : ifaceCache'[upd'.route.paths[k].dev] \in Watched
    BY <1>1, <1>2, <1>4, <1>7, <1>14
  <2> QED BY <1>7, <2>1, <2>2 DEF Progress
<1>17. TableSound'
  BY <1>8, TableSame
<1>18. UnlinkAnnounced'
  BY <1>7, <1>8 DEF UnlinkAnnounced
<1>19. ReAddAnnounced'
  BY <1>7, <1>8 DEF ReAddAnnounced, Returned, Listed, RoutesOf
<1>20. Remaining = todo /\ Remaining' = todo \ {k0}
  BY <1>5, <1>7 DEF Remaining
<1>21. CacheFollows'
  <2> SUFFICES ASSUME ~overrun', NEW i \in Watched, NEW f \in Families, NEW v \in Vias,
                      HasRead(f)', Said(i, f, v)'
               PROVE  Settled(i, f, v)'
    BY DEF CacheFollows
  <2>1. ~overrun /\ pc # "off" /\ HasRead(f)
    BY <1>7, <1>8 DEF HasRead
  <2>2. Now(i, f)' = Now(i, f)
    BY <1>8 DEF Now, Target
  <2>3. ASSUME NEW k \in DOMAIN updates, Touches(updates[k], i, f, c) PROVE Settled(i, f, v)'
    BY <1>8, <1>10, <2>3 DEF Assured, Touches, Settled
  <2>4. CASE i = i0 /\ f = g
    <3>1. v = w
      BY <1>7, <1>13, <2>4 DEF Said
    <3>2. RoutesOf(dump) \subseteq Listed(f)
      BY <1>11, <2>4, ListedWithout DEF Listed
    <3>3. CASE Returned(u)
      <4>1. PICK m \in DOMAIN updates : updates[m] = New(r)
        BY <1>1, <1>2, <1>7, <2>1, <3>3 DEF ReAddAnnounced
      <4>2. Hops(r, i, ifaceCache) # {}
        BY <1>1, <1>2, <1>4, <1>6, <2>4, InHops
      <4>3. Hops(r, i, c) # {}
        BY <1>10, <4>2, TouchesLearn
      <4>4. Touches(New(r), i, f, c)
        BY <1>3, <2>4, <4>3, NoticeFacts DEF Touches
      <4> QED BY <2>3, <4>1, <4>4
    <3>4. CASE u.type = "del" /\ r = unlinking
      <4>1. f = "v4" /\ unlinking # NoRoute
        BY <1>3, <2>4, <3>4, RouteFacts DEF TableSound
      <4>2. dump = Target(f)
        BY <1>11, <2>4, <3>4, <4>1 DEF Target
      <4>3. SelectDefault(dump, i, names) = Now(i, f)
        BY <4>2 DEF Now
      <4>4. v = Now(i, f) /\ (v # NoEntry => \A x \in Indexes : names[x] = i => c[x] = i)
        BY <1>10, <1>12, <2>4, <3>1, <3>2, <4>3, FreshRead
      <4> QED BY <1>8, <1>10, <2>2, <4>4 DEF Settled
    <3>5. CASE ~Returned(u) /\ ~(u.type = "del" /\ r = unlinking)
      <4>1. dump = table[f]
        <5>1. CASE u.type = "del"
          <6>1. r \notin Listed(g)
            BY <1>2, <1>3, <3>5, <5>1 DEF Returned
          <6> QED BY <1>11, <2>4, <5>1, <6>1, WithoutUnlisted
        <5>2. CASE u.type # "del"
          BY <1>11, <2>4, <5>2
        <5> QED BY <5>1, <5>2
      <4>2. unlinking # NoRoute => upd # Del(unlinking)
        <5> SUFFICES ASSUME unlinking # NoRoute, upd = Del(unlinking) PROVE FALSE
          OBVIOUS
        <5>1. unlinking \in Routes
          BY DEF RouteType
        <5>2. u.type = "del" /\ u.route = unlinking
          BY <1>1, <5>1, NoticeFacts
        <5> QED BY <1>2, <3>5, <5>2
      <4>3. \/ v = Now(i, f) /\ (v # NoEntry => \A x \in Indexes : names[x] = i => c[x] = i)
            \/ \E k \in DOMAIN updates : Touches(updates[k], i, f, c)
        BY <1>10, <1>12, <2>1, <2>4, <3>1, <4>1, <4>2, ReadIsCurrent
      <4> QED BY <1>8, <1>10, <2>2, <2>3, <4>3 DEF Settled
    <3> QED BY <1>2, <3>3, <3>4, <3>5
  <2>5. CASE ~(i = i0 /\ f = g)
    <3>1. Said(i, f, v)
      BY <1>7, <1>8, <1>13, <2>5 DEF Said, RouteHeard
    <3>2. Settled(i, f, v)
      BY <2>1, <3>1 DEF CacheFollows
    <3>3. \/ <<i, f>> \in silent
          \/ Assured(i, f)
          \/ /\ v = Now(i, f)'
             /\ v # NoEntry => \A x \in Indexes : names'[x] = i => ifaceCache'[x] = i
          \/ v = NoEntry /\ Announced(i, f)
      BY <1>7, <1>8, <3>2, SettledLearn
    <3>4. CASE <<i, f>> \in silent
      <4>1. <<i, f>> \in silent'
        BY <1>7, <2>5, <3>4
      <4> QED BY <4>1 DEF Settled
    <3>5. ASSUME NEW k \in DOMAIN updates, Touches(updates[k], i, f, ifaceCache)
          PROVE  Settled(i, f, v)'
      <4>1. updates[k] \in Notice
        BY DEF RouteType
      <4>2. updates[k].route \in Routes
        BY <4>1 DEF Notice
      <4>3. Touches(updates[k], i, f, c)
        BY <1>10, <3>5, <4>2, TouchesLearn DEF Touches
      <4> QED BY <2>3, <4>3
    <3>6. ASSUME NEW k \in todo, r.family = f, ifaceCache[r.paths[k].dev] = i
          PROVE  Settled(i, f, v)'
      <4>1. k \in Remaining'
        BY <1>3, <1>6, <1>20, <2>5, <3>6
      <4>2. Assured(i, f)'
        BY <1>1, <1>2, <1>7, <1>14, <3>6, <4>1 DEF Assured
      <4> QED BY <4>2 DEF Settled
    <3>7. CASE v = NoEntry /\ Announced(i, f)
      BY <1>8, <3>7 DEF Settled, Announced, Touches
    <3>8. CASE Assured(i, f)
      BY <1>1, <1>2, <1>20, <3>5, <3>6, <3>8 DEF Assured
    <3> QED BY <3>3, <3>4, <3>7, <3>8 DEF Settled
  <2> QED BY <2>4, <2>5
<1> QED BY <1>9, <1>15, <1>16, <1>17, <1>18, <1>19, <1>21


(* The last word on a default, after one more event and after one was      *)
(* taken.                                                                  *)
LEMMA RouteHeardAppend ==
    ASSUME RouteType, NEW e \in Watched \X Families \X Vias, out' = Append(out, e),
           UNCHANGED <<snapshot, primed, gateways>>,
           NEW i \in Watched, NEW f \in Families, NEW v, RouteHeard(i, f, v)'
    PROVE  IF e[1] = i /\ e[2] = f THEN v = e[3] ELSE RouteHeard(i, f, v)
<1>1. PICK n \in Nat : n = Len(out)
  BY DEF RouteType
<1>2. /\ DOMAIN out = 1..n /\ DOMAIN out' = 1..(n + 1)
      /\ \A k \in 1..n : out'[k] = out[k]
      /\ out'[n + 1] = e
  BY <1>1 DEF RouteType
<1>3. CASE e[1] = i /\ e[2] = f
  BY <1>2, <1>3 DEF RouteHeard
<1>4. CASE ~(e[1] = i /\ e[2] = f)
  <2>1. CASE \A k \in DOMAIN out' : out'[k][1] # i \/ out'[k][2] # f
    BY <1>2, <1>4, <2>1 DEF RouteHeard
  <2>2. ASSUME NEW k \in DOMAIN out', out'[k][1] = i, out'[k][2] = f, out'[k][3] = v,
               \A m \in DOMAIN out' : m > k => out'[m][1] # i \/ out'[m][2] # f
        PROVE  RouteHeard(i, f, v)
    <3>1. k \in 1..n
      BY <1>2, <1>4, <2>2
    <3>2. \A m \in DOMAIN out : m > k => out[m][1] # i \/ out[m][2] # f
      BY <1>2, <2>2, <3>1
    <3> QED BY <1>2, <2>2, <3>1, <3>2 DEF RouteHeard
  <2>3. \/ \A k \in DOMAIN out' : out'[k][1] # i \/ out'[k][2] # f
        \/ \E k \in DOMAIN out' :
              /\ out'[k][1] = i /\ out'[k][2] = f /\ out'[k][3] = v
              /\ \A m \in DOMAIN out' : m > k => out'[m][1] # i \/ out'[m][2] # f
    BY DEF RouteHeard
  <2> QED BY <1>4, <2>1, <2>2, <2>3
<1> QED BY <1>3, <1>4

LEMMA RouteHeardTail ==
    ASSUME RouteType, out # <<>>, out' = Tail(out), primed, primed', snapshot' = snapshot,
           gateways' = [gateways EXCEPT ![Head(out)[1]][Head(out)[2]] = Head(out)[3]],
           NEW i \in Watched, NEW f \in Families, NEW v, RouteHeard(i, f, v)'
    PROVE  RouteHeard(i, f, v)
<1>1. out \in Seq(Watched \X Families \X Vias) /\ gateways \in [Watched -> [Families -> Vias]]
  BY DEF RouteType
<1>2. /\ Head(out) = out[1] /\ 1 \in DOMAIN out /\ out[1] \in Watched \X Families \X Vias
      /\ \A k \in DOMAIN out' : k + 1 \in DOMAIN out /\ out'[k] = out[k + 1]
      /\ \A k \in DOMAIN out :
            /\ k \in Nat
            /\ k = 1 \/ (k > 1 /\ k - 1 \in DOMAIN out' /\ out'[k - 1] = out[k])
  BY <1>1, Shortened
<1>3. CASE \E k \in DOMAIN out' : out'[k][1] = i /\ out'[k][2] = f
  <2>1. PICK k \in DOMAIN out' :
            /\ out'[k][1] = i /\ out'[k][2] = f /\ out'[k][3] = v
            /\ \A m \in DOMAIN out' : m > k => out'[m][1] # i \/ out'[m][2] # f
    BY <1>3 DEF RouteHeard
  <2>2. k + 1 \in DOMAIN out /\ out'[k] = out[k + 1] /\ k \in Nat
    BY <1>1, <1>2
  <2>3. ASSUME NEW m \in DOMAIN out, m > k + 1 PROVE out[m][1] # i \/ out[m][2] # f
    <3>1. m \in Nat /\ m - 1 > k /\ m # 1
      BY <1>2, <2>2, <2>3
    <3>2. m - 1 \in DOMAIN out' /\ out'[m - 1] = out[m]
      BY <1>2, <3>1
    <3> QED BY <2>1, <3>1, <3>2
  <2> QED BY <2>1, <2>2, <2>3 DEF RouteHeard
<1>4. CASE ~\E k \in DOMAIN out' : out'[k][1] = i /\ out'[k][2] = f
  <2>1. gateways'[i][f] = v
    BY <1>4 DEF RouteHeard
  <2>2. ASSUME NEW m \in DOMAIN out, m # 1 PROVE out[m][1] # i \/ out[m][2] # f
    <3>1. m - 1 \in DOMAIN out' /\ out'[m - 1] = out[m]
      BY <1>2, <2>2
    <3> QED BY <1>4, <3>1
  <2>3. CASE out[1][1] = i /\ out[1][2] = f
    <3>1. gateways'[i][f] = out[1][3]
      BY <1>1, <1>2, <2>3
    <3> QED BY <1>2, <2>1, <2>2, <2>3, <3>1 DEF RouteHeard
  <2>4. CASE ~(out[1][1] = i /\ out[1][2] = f)
    <3>1. gateways'[i][f] = gateways[i][f]
      BY <1>1, <1>2, <2>4
    <3>2. \A k \in DOMAIN out : out[k][1] # i \/ out[k][2] # f
      BY <2>2, <2>4
    <3> QED BY <2>1, <3>1, <3>2 DEF RouteHeard
  <2> QED BY <2>3, <2>4
<1> QED BY <1>3, <1>4

(* A step that hands on what was said, and changes nothing else.           *)
LEMMA HandOverKeeps ==
    ASSUME RouteInv, UNCHANGED <<kernel, updates, overrun, ifaceCache, upd, silent>>,
           RouteType', Progress', pc # "off", pc' # "off",
           pc' \in {"reconcile", "send"} => pc \in {"reconcile", "send"},
           Remaining' = Remaining,
           \A i \in Watched, f \in Families, v \in Vias :
               HasRead(f)' /\ Said(i, f, v)' => HasRead(f) /\ Said(i, f, v)
    PROVE  RouteInv'
<1> USE DEF RouteInv
<1>1. UNCHANGED <<names, used, table, unlinking>>
  BY DEF kernel
<1>2. NamesSound' /\ TableSound'
  BY <1>1, TableSame DEF NamesSound
<1>3. UnlinkAnnounced'
  BY <1>1 DEF UnlinkAnnounced
<1>4. ReAddAnnounced'
  BY <1>1 DEF ReAddAnnounced, Returned, Listed, RoutesOf
<1>5. CacheFollows'
  <2> SUFFICES ASSUME ~overrun', NEW i \in Watched, NEW f \in Families, NEW v \in Vias,
                      HasRead(f)', Said(i, f, v)'
               PROVE  Settled(i, f, v)'
    BY DEF CacheFollows
  <2>1. HasRead(f) /\ Said(i, f, v)
    OBVIOUS
  <2>2. Settled(i, f, v)
    BY <2>1 DEF CacheFollows
  <2>3. (Assured(i, f)' <=> Assured(i, f)) /\ (Announced(i, f)' <=> Announced(i, f))
    BY <1>1 DEF Assured, Announced, Touches, Hops
  <2>4. Now(i, f)' = Now(i, f)
    BY <1>1 DEF Now, Target
  <2> QED BY <1>1, <2>2, <2>3, <2>4 DEF Settled
<1> QED BY <1>2, <1>3, <1>4, <1>5

LEMMA RouteSendKeeps ==
    ASSUME RouteInv, Send
    PROVE  RouteInv'
<1> USE DEF RouteInv
<1>1. /\ pc = "send" /\ out' = Append(out, event) /\ todo' = todo \ {Min(todo)}
      /\ pc' = IF todo' = {} THEN "idle" ELSE "reconcile"
      /\ UNCHANGED <<kernel, updates, overrun, ifaceCache, snapshot, upd, primed, gateways, silent>>
  BY DEF Send
<1>2. UNCHANGED <<names, used, table, unlinking>>
  BY <1>1 DEF kernel
<1>3. PICK u \in Notice : u = upd /\ u.route.main
  BY <1>1 DEF Progress
<1>4. PICK r \in Routes : r = u.route
  BY DEF Notice
<1>5. /\ todo # {} /\ todo \subseteq DOMAIN r.paths
      /\ \A k \in todo : ifaceCache[r.paths[k].dev] \in Watched
  BY <1>1, <1>3, <1>4 DEF Progress
<1>6. PICK k0 \in todo : k0 = Min(todo)
  BY <1>5, FirstHop
<1>7. PICK w \in Vias : event = <<ifaceCache[r.paths[k0].dev], r.family, w>>
  BY <1>1, <1>3, <1>4, <1>6 DEF Progress
<1>8. PICK e \in Watched \X Families \X Vias : e = event
  BY <1>5, <1>7, RouteFacts
<1>9. pc' \in {"idle", "reconcile"} /\ (pc' = "reconcile" => todo' # {})
  BY <1>1
<1>10. RouteType'
  <2>1. out' \in Seq(Watched \X Families \X Vias)
    BY <1>1, <1>8 DEF RouteType
  <2> QED BY <1>1, <1>2, <1>9, <2>1 DEF RouteType
<1>11. Progress'
  <2>1. /\ upd' \in Notice /\ upd'.route.main
        /\ todo' \subseteq DOMAIN upd'.route.paths
        /\ \A k \in todo' : ifaceCache'[upd'.route.paths[k].dev] \in Watched
    BY <1>1, <1>3, <1>4, <1>5
  <2> QED BY <1>9, <2>1 DEF Progress
<1>12. Remaining' = Remaining
  BY <1>1, <1>9 DEF Remaining
<1>13. ASSUME NEW i \in Watched, NEW f \in Families, NEW v \in Vias, Said(i, f, v)'
       PROVE  Said(i, f, v)
  <2>1. RouteHeard(i, f, v)'
    BY <1>9, <1>13 DEF Said
  <2>2. IF e[1] = i /\ e[2] = f THEN v = e[3] ELSE RouteHeard(i, f, v)
    BY <1>1, <1>8, <2>1, RouteHeardAppend
  <2> QED BY <1>1, <1>8, <2>2 DEF Said
<1>14. \A f : HasRead(f)
  BY <1>1 DEF HasRead
<1>15. /\ UNCHANGED <<kernel, updates, overrun, ifaceCache, upd, silent>>
       /\ pc # "off" /\ pc' # "off"
       /\ pc' \in {"reconcile", "send"} => pc \in {"reconcile", "send"}
  BY <1>1, <1>9
<1> QED BY <1>10, <1>11, <1>12, <1>13, <1>14, <1>15, HandOverKeeps

LEMMA DaemonKeeps ==
    ASSUME RouteInv, Prime \/ Observe
    PROVE  RouteInv'
<1> USE DEF RouteInv
<1>1. /\ UNCHANGED <<kernel, updates, overrun, sub, silent>> /\ primed'
      /\ \/ /\ ~primed /\ gateways' = snapshot /\ out' = out
            /\ pc \in {"idle", "reconcile", "send"}
         \/ /\ primed /\ out # <<>> /\ out' = Tail(out)
            /\ gateways' = [gateways EXCEPT ![Head(out)[1]][Head(out)[2]] = Head(out)[3]]
  <2>1. CASE Prime
    BY <2>1 DEF Prime, queues
  <2>2. CASE Observe
    BY <2>2 DEF Observe
  <2> QED BY <2>1, <2>2
<1>2. UNCHANGED <<names, used, table, unlinking, ifaceCache, pc, snapshot, todo, upd, event>>
  BY <1>1 DEF kernel, sub
<1>3. pc \notin {"off", "snapshot"}
  BY <1>1 DEF Progress
<1>4. primed' \in BOOLEAN
  <2>1. primed' = TRUE
    BY DEF Prime, Observe, RouteType
  <2> QED BY <2>1
<1>5. RouteType'
  <2>1. out' \in Seq(Watched \X Families \X Vias) /\ gateways' \in [Watched -> [Families -> Vias]]
    <3>1. CASE gateways' = snapshot /\ out' = out
      BY <3>1 DEF RouteType
    <3>2. CASE /\ out # <<>> /\ out' = Tail(out)
               /\ gateways' = [gateways EXCEPT ![Head(out)[1]][Head(out)[2]] = Head(out)[3]]
      <4>1. /\ out \in Seq(Watched \X Families \X Vias)
            /\ gateways \in [Watched -> [Families -> Vias]]
        BY DEF RouteType
      <4>2. PICK e \in Watched \X Families \X Vias : e = Head(out)
        BY <3>2, <4>1
      <4>3. gateways' = [gateways EXCEPT ![e[1]] = [gateways[e[1]] EXCEPT ![e[2]] = e[3]]]
        BY <3>2, <4>1, <4>2
      <4>4. gateways' \in [Watched -> [Families -> Vias]]
        BY <4>1, <4>2, <4>3
      <4> QED BY <3>2, <4>1, <4>4
    <3> QED BY <1>1, <3>1, <3>2
  <2> QED BY <1>1, <1>2, <1>4, <2>1 DEF RouteType
<1>6. Progress'
  BY <1>2, <1>3 DEF Progress
<1>7. Remaining' = Remaining
  BY <1>2 DEF Remaining
<1>8. ASSUME NEW i \in Watched, NEW f \in Families, NEW v \in Vias, RouteHeard(i, f, v)'
      PROVE  RouteHeard(i, f, v)
  <2>1. CASE ~primed
    BY <1>1, <1>8, <2>1 DEF RouteHeard
  <2>2. CASE primed
    BY <1>1, <1>2, <1>8, <2>2, RouteHeardTail
  <2> QED BY <2>1, <2>2
<1>9. \A i \in Watched, f \in Families, v \in Vias :
          HasRead(f)' /\ Said(i, f, v)' => HasRead(f) /\ Said(i, f, v)
  BY <1>2, <1>8 DEF HasRead, Said
<1> QED BY <1>1, <1>2, <1>3, <1>5, <1>6, <1>7, <1>9, HandOverKeeps

LEMMA RouteInvInit == Init => RouteInv
<1> SUFFICES ASSUME Init PROVE RouteInv
  OBVIOUS
<1> USE DEF Init
<1>1. NoEntry \in Vias
  BY DEF Vias
<1>2. Empty \in [Watched -> [Families -> Vias]]
  BY <1>1 DEF Empty
<1>3. /\ updates = <<>> /\ out = <<>> /\ Len(updates) = 0
      /\ updates \in Seq(Notice) /\ out \in Seq(Watched \X Families \X Vias)
  OBVIOUS
<1>4. RouteType
  <2>1. names \in Naming /\ ifaceCache \in Naming
    BY RouteSubscriberAssumption DEF Naming
  <2>2. table \in [Families -> Dump]
    BY DEF Dump
  <2>3. used \subseteq Indexes /\ Len(updates) <= Backlog
    BY <1>3, RouteFacts
  <2>4. /\ overrun \in BOOLEAN /\ primed \in BOOLEAN /\ unlinking \in Routes \cup {NoRoute}
        /\ pc \in {"off", "snapshot", "idle", "reconcile", "send", "exited"}
        /\ snapshot \in [Watched -> [Families -> Vias]]
        /\ gateways \in [Watched -> [Families -> Vias]]
    BY <1>2
  <2> HIDE DEF Init
  <2> QED BY <1>3, <2>1, <2>2, <2>3, <2>4 DEF RouteType
<1>5. Progress /\ UnlinkAnnounced /\ ReAddAnnounced /\ CacheFollows
  BY <1>3 DEF Progress, UnlinkAnnounced, ReAddAnnounced, CacheFollows, HasRead
<1>6. NamesSound
  BY RouteSubscriberAssumption DEF NamesSound
<1>7. TableSound
  BY DEF TableSound, Listed, RoutesOf
<1> QED BY <1>4, <1>5, <1>6, <1>7 DEF RouteInv

LEMMA RouteInvNext ==
    ASSUME ~MidDelete
    PROVE  RouteInv /\ [Next]_vars => RouteInv'
<1> SUFFICES ASSUME RouteInv, [Next]_vars PROVE RouteInv'
  OBVIOUS
<1>1. ASSUME NEW r \in Routes, NEW before \in SUBSET Listed(r.family), AddRoute(r, before)
      PROVE  RouteInv'
  BY <1>1, AddRouteKeeps
<1>2. ASSUME NEW r \in Routes, DelRoute(r) PROVE RouteInv'
  BY <1>2, DelRouteKeeps
<1>3. ASSUME NEW r \in Routes, NEW old \in Routes, ReplaceRoute(old, r) PROVE RouteInv'
  BY <1>3, ReplaceRouteKeeps
<1>4. ASSUME NEW x \in Indexes, NEW gone \in BOOLEAN, NEW broken \in SUBSET Spanning(x),
             FlushDevice(x, gone, broken)
      PROVE  RouteInv'
  BY <1>4, FlushDeviceKeeps
<1>5. ASSUME NEW x \in Indexes, NEW i \in Ifaces, CreateDevice(x, i) PROVE RouteInv'
  BY <1>5, CreateDeviceKeeps
<1>6. CASE Unlink
  BY <1>6, UnlinkKeeps
<1>7. CASE Subscribe \/ DumpFails \/ SubscriptionClosed
  BY <1>7, OffDutyKeeps
<1>8. ASSUME NEW f \in Families, ReadSnapshot(f) PROVE RouteInv'
  BY <1>8, RouteSnapshotKeeps
<1>9. CASE HandleUpdate
  BY <1>9, HandleUpdateKeeps
<1>10. CASE ReconcileVia
  BY <1>10, ReconcileViaKeeps
<1>11. CASE Send
  BY <1>11, RouteSendKeeps
<1>12. CASE Prime \/ Observe
  BY <1>12, DaemonKeeps
<1>13. CASE UNCHANGED vars
  <2>1. UNCHANGED <<names, used, table, unlinking, updates, overrun, out, ifaceCache, pc,
                    snapshot, todo, upd, event, primed, gateways, silent>>
    BY <1>13 DEF vars, kernel, queues, sub
  <2>2. RouteType' /\ NamesSound' /\ TableSound' /\ Progress' /\ UnlinkAnnounced'
    <3>1. RouteType'
      BY <2>1 DEF RouteInv, RouteType
    <3>2. NamesSound' /\ TableSound'
      BY <2>1, TableSame DEF RouteInv, NamesSound
    <3>3. Progress' /\ UnlinkAnnounced'
      BY <2>1 DEF RouteInv, Progress, UnlinkAnnounced
    <3> QED BY <3>1, <3>2, <3>3
  <2>3. ReAddAnnounced'
    BY <2>1 DEF RouteInv, ReAddAnnounced, Returned, Listed, RoutesOf
  <2>4. CacheFollows'
    <3> SUFFICES ASSUME ~overrun', NEW i \in Watched, NEW f \in Families, NEW v \in Vias,
                        HasRead(f)', Said(i, f, v)'
                 PROVE  Settled(i, f, v)'
      BY DEF CacheFollows
    <3>1. HasRead(f) /\ Said(i, f, v)
      BY <2>1 DEF HasRead, Said, RouteHeard
    <3>2. Settled(i, f, v)
      BY <2>1, <3>1 DEF RouteInv, CacheFollows
    <3>3. (Assured(i, f)' <=> Assured(i, f)) /\ (Announced(i, f)' <=> Announced(i, f))
      BY <2>1 DEF Assured, Announced, Touches, Remaining, Hops
    <3>4. Now(i, f)' = Now(i, f)
      BY <2>1 DEF Now, Target
    <3> QED BY <2>1, <3>2, <3>3, <3>4 DEF Settled
  <2> QED BY <2>2, <2>3, <2>4 DEF RouteInv
<1>14. CASE KernelStep
  BY <1>1, <1>2, <1>3, <1>4, <1>5, <1>14 DEF KernelStep
<1>15. CASE SubscriberStep
  BY <1>7, <1>8, <1>9, <1>10, <1>11, <1>15 DEF SubscriberStep
<1> QED BY <1>6, <1>12, <1>13, <1>14, <1>15 DEF Next

LEMMA QuietAgrees == RouteInv => CacheAgrees
<1> SUFFICES ASSUME RouteInv, Quiet, NEW i \in Watched, NEW f \in Families
             PROVE  Agrees(i, f)
  BY DEF CacheAgrees
<1>1. PICK v \in Vias : v = gateways[i][f]
  BY DEF RouteInv, RouteType
<1>2. DOMAIN updates = {} /\ DOMAIN out = {} /\ Remaining = {}
  BY DEF Quiet, Remaining
<1>3. HasRead(f) /\ Said(i, f, v) /\ ~overrun
  BY <1>1, <1>2 DEF Quiet, HasRead, Said, RouteHeard
<1>4. Settled(i, f, v)
  BY <1>3 DEF RouteInv, CacheFollows
<1>5. ~Assured(i, f) /\ ~Announced(i, f)
  BY <1>2 DEF Assured, Announced
<1>6. Now(i, f) = SelectDefault(table[f], i, names)
  BY DEF Now, Target, Quiet
<1> QED BY <1>1, <1>4, <1>5, <1>6 DEF Settled, Agrees

(* Unless the subscription falls into a delete the kernel already          *)
(* announced, the Gateway cache agrees with the kernel whenever everything *)
(* has been worked off, for every set of routes and devices, every queue   *)
(* length and every number of changes (RouteSubscriber.StartWith,          *)
(* reconcileVia).                                                          *)
THEOREM GatewayCacheAgrees ==
    ASSUME ~MidDelete
    PROVE  Spec => []CacheAgrees
<1>1. RouteInv /\ [Next]_vars => RouteInv'
  BY RouteInvNext
<1> QED BY <1>1, RouteInvInit, QuietAgrees, PTL DEF Spec
=============================================================================
