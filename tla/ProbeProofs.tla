---------------------------- MODULE ProbeProofs ----------------------------
(***************************************************************************)
(* Probing, for every number of Targets, every size of the spaces of       *)
(* identifiers and sequence numbers and every lifetime of a reply: the     *)
(* identifiers are distinct, a cycle gives every Target one Sample, and a  *)
(* reply counts for its own probe.                                         *)
(***************************************************************************)
EXTENDS MCProbe, SequenceTheorems, TLAPS

(***************************************************************************)
(* The cycle: one Sample per Target.                                       *)
(***************************************************************************)
N == Len(Targets)

LEMMA TargetsAssumption ==
    /\ N \in Nat \ {0} /\ P!Target = {Targets[i] : i \in 1..N}
    /\ \A i \in 1..N : Targets[i] \in P!Target
    /\ \A i, j \in 1..N : Targets[i] = Targets[j] => i = j
    /\ SeqSpace \in Nat /\ Lifetime \in Nat /\ (Lifetime + 1) * N <= SeqSpace
<1>0. Targets \in Seq(P!Target) /\ Targets # <<>>
  BY ProbeAssumption DEF P!PingerAssumption
<1>1. N \in Nat \ {0} /\ DOMAIN Targets = 1..N
  BY <1>0, LenProperties, EmptySeq DEF N
<1>2. P!Target = {Targets[i] : i \in 1..N}
  BY <1>1 DEF P!Target, P!ToSet
<1>3. \A i, j \in 1..N : Targets[i] = Targets[j] => i = j
  BY <1>1, ProbeAssumption DEF P!PingerAssumption, P!IsInjective
<1> QED BY <1>1, <1>2, <1>3, ProbeAssumption DEF P!PingerAssumption, N

(* A Target has its Sample, or has a probe in flight and no Sample yet.    *)
Answered(t) == pushed[t] = 1 /\ \A p \in inflight : p.target # t
Awaited(t) == pushed[t] = 0 /\ \E p \in inflight : p.target = t
Untouched(t) == pushed[t] = 0 /\ \A p \in inflight : p.target # t

CycleType ==
    /\ pushed \in [P!Target -> Nat]
    /\ at \in Nat \ {0}
    /\ pc \in {"start", "tick", "send", "read", "skip", "emit", "exited"}
    /\ pc = "send" => at <= N

SampleInv ==
    /\ CycleType
    /\ \A p, q \in inflight : p.target = q.target => p = q
    /\ \A p \in inflight : p.target \in P!Target
    /\ pc = "send" =>
          \A i \in 1..N : IF i < at THEN Answered(Targets[i]) \/ Awaited(Targets[i])
                                    ELSE Untouched(Targets[i])
    /\ pc \in {"read", "skip"} => \A t \in P!Target : Answered(t) \/ Awaited(t)
    /\ pc = "emit" => \A t \in P!Target : pushed[t] = 1

LEMMA SampleInit == P!Init => SampleInv
BY TargetsAssumption DEF P!Init, SampleInv, CycleType, Answered, Awaited, Untouched

LEMMA SampleSend == ASSUME SampleInv, P!SendEcho PROVE SampleInv'
<1>0. /\ pc = "send" /\ at \in 1..N /\ at' = at + 1
      /\ pc' \in {"send", "read", "skip"}
      /\ pc' = "send" => at < N
      /\ pc' # "send" => at = N
  BY TargetsAssumption DEF P!SendEcho, P!Advance, SampleInv, CycleType, N
<1>t. PICK t : t = Targets[at]
  OBVIOUS
<1>a. t \in P!Target /\ Untouched(t)
  BY <1>0, <1>t, TargetsAssumption DEF SampleInv
<1>1. \A i \in 1..N : i # at => Targets[i] # t
  BY <1>0, <1>t, TargetsAssumption
<1>2. /\ pushed' \in [P!Target -> Nat]
      /\ \A p, q \in inflight' : p.target = q.target => p = q
      /\ \A p \in inflight' : p.target \in P!Target
      /\ (Answered(t) \/ Awaited(t))'
      /\ \A u \in P!Target \ {t} : /\ Answered(u) => Answered(u)'
                                   /\ Awaited(u) => Awaited(u)'
                                   /\ Untouched(u) => Untouched(u)'
  <2>1. CASE inflight' = inflight \cup {[seq |-> seq, target |-> t]} /\ pushed' = pushed
    <3>1. PICK probe : probe.target = t /\ inflight' = inflight \cup {probe}
      BY <2>1
    <3>2. \A p \in inflight' : p = probe \/ (p \in inflight /\ p.target # t)
      BY <1>a, <3>1 DEF Untouched
    <3>3. (Answered(t) \/ Awaited(t))'
      BY <1>a, <2>1, <3>1 DEF Untouched, Awaited
    <3>4. \A u \in P!Target \ {t} : /\ Answered(u) => Answered(u)'
                                    /\ Awaited(u) => Awaited(u)'
                                    /\ Untouched(u) => Untouched(u)'
      BY <2>1, <3>1 DEF Answered, Awaited, Untouched
    <3>5. \A p, q \in inflight' : p.target = q.target => p = q
      BY <3>1, <3>2 DEF SampleInv
    <3>6. \A p \in inflight' : p.target \in P!Target
      BY <1>a, <3>1, <3>2 DEF SampleInv
    <3>7. pushed' \in [P!Target -> Nat]
      BY <2>1 DEF SampleInv, CycleType
    <3> QED BY <3>3, <3>4, <3>5, <3>6, <3>7
  <2>2. CASE P!Record({t}) /\ inflight' = inflight
    BY <1>a, <2>2 DEF P!Record, SampleInv, CycleType, Answered, Awaited, Untouched
  <2> QED BY <1>t, <2>1, <2>2 DEF P!SendEcho
<1>3. \A i \in 1..N : IF i < at + 1 THEN (Answered(Targets[i]) \/ Awaited(Targets[i]))'
                                    ELSE Untouched(Targets[i])'
  <2> SUFFICES ASSUME NEW i \in 1..N
               PROVE  IF i < at + 1 THEN (Answered(Targets[i]) \/ Awaited(Targets[i]))'
                                    ELSE Untouched(Targets[i])'
    OBVIOUS
  <2>1. CASE i = at
    BY <1>0, <1>t, <1>2, <2>1
  <2>2. CASE i # at
    <3>1. Targets[i] \in P!Target \ {t}
      BY <1>1, <2>2, TargetsAssumption
    <3>2. IF i < at THEN Answered(Targets[i]) \/ Awaited(Targets[i]) ELSE Untouched(Targets[i])
      BY <1>0 DEF SampleInv
    <3> QED BY <1>0, <1>2, <2>2, <3>1, <3>2
  <2> QED BY <2>1, <2>2
<1>4. pc' # "send" => \A u \in P!Target : (Answered(u) \/ Awaited(u))'
  BY <1>0, <1>3, TargetsAssumption
<1>5. CycleType'
  BY <1>0, <1>2, TargetsAssumption DEF CycleType
<1>6. pc' = "send" => \A i \in 1..N : IF i < at' THEN (Answered(Targets[i]) \/ Awaited(Targets[i]))'
                                                 ELSE Untouched(Targets[i])'
  BY <1>0, <1>3
<1> QED BY <1>0, <1>2, <1>4, <1>5, <1>6 DEF SampleInv

LEMMA SampleNext == SampleInv /\ [P!Next]_P!vars => SampleInv'
<1> SUFFICES ASSUME SampleInv, [P!Next]_P!vars PROVE SampleInv'
  OBVIOUS
<1>1. CASE /\ UNCHANGED <<pushed, at, inflight>>
           /\ pc' \in {pc, "exited"} \/ (pc = "start" /\ pc' = "tick")
  BY <1>1 DEF SampleInv, CycleType, Answered, Awaited, Untouched
<1>2. CASE P!Tick
  BY <1>2, TargetsAssumption DEF P!Tick, SampleInv, CycleType, Answered, Awaited, Untouched
<1>3. CASE P!SendEcho
  BY <1>3, SampleSend
<1>4. CASE \E reply \in air : P!ReadReply(reply)
  <2>1. PICK p \in inflight : /\ inflight' = inflight \ {p}
                              /\ pushed' = [pushed EXCEPT ![p.target] = @ + 1]
    BY <1>4 DEF P!ReadReply
  <2>2. pc = "read" /\ pc' = pc /\ at' = at
    BY <1>4 DEF P!ReadReply
  <2>3. p.target \in P!Target /\ \A q \in inflight' : q.target # p.target /\ q \in inflight
    BY <2>1 DEF SampleInv
  <2>4. pushed[p.target] = 0
    BY <2>2, <2>3, <2>1 DEF SampleInv, Answered, Awaited
  <2>5. \A t \in P!Target : (Answered(t) \/ Awaited(t))'
    BY <2>1, <2>2, <2>3, <2>4 DEF SampleInv, CycleType, Answered, Awaited
  <2> QED BY <2>1, <2>2, <2>3, <2>5 DEF SampleInv, CycleType
<1>5. CASE P!EndCycle
  <2>1. /\ inflight' = {} /\ pc \in {"read", "skip"} /\ pc' = "emit" /\ at' = at
        /\ pushed' = [t \in P!Target |-> IF t \in {p.target : p \in inflight}
                                           THEN pushed[t] + 1 ELSE pushed[t]]
    BY <1>5 DEF P!EndCycle, P!RecordLoss, P!Record
  <2> QED BY <2>1 DEF SampleInv, CycleType, Answered, Awaited
<1>6. CASE P!Emit
  BY <1>6 DEF P!Emit, SampleInv, CycleType
<1> QED
  BY <1>1, <1>2, <1>3, <1>4, <1>5, <1>6
  DEF P!Next, P!ProberStep, P!Create, P!Destroy, P!Cancel, P!Start, P!OpenFails, P!ReadEnds,
      P!PullDeadline, P!Exit, P!vars

(* Every cycle gives every Target exactly one Sample, however sends fail,  *)
(* replies come late or twice, and cancellation cuts it short              *)
(* (Pinger.cycle).                                                         *)
THEOREM CycleSamplesEachTarget == P!Spec => []OneSamplePerCycle
<1>1. SampleInv => OneSamplePerCycle
  BY DEF SampleInv, OneSamplePerCycle, P!OneSamplePerCycle
<1> QED BY SampleInit, SampleNext, <1>1, PTL DEF P!Spec

(***************************************************************************)
(* The cycle: a reply counts for its own probe.                            *)
(***************************************************************************)
Seqs == 0..(SeqSpace - 1)

(* The sequence number d sends after s, around the end of the space.       *)
SeqAfter(s, d) == IF s + d < SeqSpace THEN s + d ELSE s + d - SeqSpace

(* Probe or reply x belongs to a send of this cycle: the one d sends ago.  *)
OfThisCycle(x) ==
    \E d \in 1..(at - 1) : SeqAfter(x.seq, d) = seq /\ x.target = Targets[at - d]

(* Every cycle since its own moved the sequence numbers on by no more than *)
(* the number of Targets.                                                  *)
OfEarlierCycle(r) ==
    \E d \in at..(r.age * N + at - 1) : SeqAfter(r.seq, d) = seq

OfAnyCycle(r) == \E d \in 1..((r.age + 1) * N) : SeqAfter(r.seq, d) = seq

CreditType ==
    /\ seq \in Seqs /\ at \in Nat \ {0}
    /\ pc \in {"start", "tick", "send", "read", "skip", "emit", "exited"}
    /\ pc = "send" => at <= N
    /\ pc \in {"read", "skip"} => at = N + 1
    /\ air \subseteq [seq : Seqs, target : P!Target, age : 0..Lifetime]
    /\ inflight \subseteq [seq : Seqs, target : P!Target]

CreditInv ==
    /\ CreditType
    /\ pc \in {"send", "read", "skip"} =>
          /\ \A p \in inflight : OfThisCycle(p)
          /\ \A r \in air : IF r.age = 0 THEN OfThisCycle(r) ELSE OfEarlierCycle(r)
    /\ pc \in {"start", "tick", "emit"} => \A r \in air : OfAnyCycle(r)
    /\ CreditsOwnProbe

(* A reply does not outlive the space: as many Targets as a reply can be   *)
(* cycles old fit in it.                                                   *)
LEMMA SpaceSuffices ==
    ASSUME NEW a \in 0..Lifetime
    PROVE  /\ a * N \in Nat /\ (a + 1) * N = a * N + N
           /\ a * N + N <= SeqSpace
<1>1. N \in Nat /\ Lifetime \in Nat /\ SeqSpace \in Nat /\ (Lifetime + 1) * N <= SeqSpace
  BY TargetsAssumption
<1>2. (a + 1) * N = a * N + N /\ a * N \in Nat
  BY <1>1
<1>3. (a + 1) * N <= (Lifetime + 1) * N
  BY <1>1
<1> QED BY <1>1, <1>2, <1>3

LEMMA NextInSpace ==
    ASSUME seq \in Seqs
    PROVE  (seq + 1) % SeqSpace = IF seq + 1 = SeqSpace THEN 0 ELSE seq + 1
BY TargetsAssumption DEF Seqs

(* One send more is one step further on.                                   *)
LEMMA SeqAdvances ==
    ASSUME NEW s \in Seqs, NEW d \in 1..(SeqSpace - 1), seq \in Seqs, SeqAfter(s, d) = seq
    PROVE  SeqAfter(s, d + 1) = (seq + 1) % SeqSpace
BY NextInSpace, TargetsAssumption DEF Seqs, SeqAfter

(* Within the space the distance is determined.                            *)
LEMMA DistanceUnique ==
    ASSUME NEW s \in Seqs, NEW c \in 1..SeqSpace, NEW d \in 1..SeqSpace,
           SeqAfter(s, c) = SeqAfter(s, d)
    PROVE  c = d
BY TargetsAssumption DEF Seqs, SeqAfter

LEMMA CreditInit == P!Init => CreditInv
BY TargetsAssumption
DEF P!Init, CreditInv, CreditType, CreditsOwnProbe, P!CreditsOwnProbe, Seqs

(* A tick makes every reply one cycle older and begins to count anew.      *)
LEMMA CreditTick == ASSUME CreditInv, P!Tick PROVE CreditInv'
<1>1. /\ pc = "tick" /\ pc' \in {"emit", "send"}
      /\ air' = {[r EXCEPT !.age = @ + 1] : r \in {r \in air : r.age < Lifetime}}
      /\ seq' = seq
      /\ pc' = "send" => at' = 1 /\ inflight' = {}
      /\ pc' = "emit" => at' = at /\ inflight' = inflight
      /\ credited' = NoReply
  BY DEF P!Tick, P!NextSeq
<1>2. ASSUME NEW r \in air'
      PROVE  /\ r \in [seq : Seqs, target : P!Target, age : 1..Lifetime]
             /\ \E d \in 1..(r.age * N) : SeqAfter(r.seq, d) = seq
  <2>1. PICK q \in air : q.age < Lifetime /\ r = [q EXCEPT !.age = @ + 1]
    BY <1>1, <1>2
  <2>2. q \in [seq : Seqs, target : P!Target, age : 0..Lifetime]
    BY DEF CreditInv, CreditType
  <2>3. /\ r.age = q.age + 1 /\ r.seq = q.seq /\ r.target = q.target
        /\ r \in [seq : Seqs, target : P!Target, age : 1..Lifetime]
    BY <2>1, <2>2, TargetsAssumption
  <2> QED BY <1>1, <2>3 DEF CreditInv, OfAnyCycle
<1>3. CreditType'
  BY <1>1, <1>2, TargetsAssumption DEF CreditInv, CreditType
<1>4. CreditsOwnProbe'
  BY <1>1 DEF CreditsOwnProbe, P!CreditsOwnProbe
<1>5. CASE pc' = "send"
  <2>1. \A r \in air' : r.age # 0 /\ OfEarlierCycle(r)'
    <3> SUFFICES ASSUME NEW r \in air' PROVE r.age # 0 /\ OfEarlierCycle(r)'
      OBVIOUS
    <3>1. r.age \in 0..Lifetime /\ r.age # 0
      BY <1>2, TargetsAssumption
    <3>2. r.age * N \in Nat
      BY <3>1, SpaceSuffices
    <3>3. PICK d \in 1..(r.age * N) : SeqAfter(r.seq, d) = seq
      BY <1>2
    <3>4. d \in at'..(r.age * N + at' - 1)
      BY <1>1, <1>5, <3>2
    <3> QED BY <1>1, <3>1, <3>3, <3>4 DEF OfEarlierCycle
  <2> QED BY <1>1, <1>3, <1>4, <1>5, <2>1 DEF CreditInv
<1>6. CASE pc' = "emit"
  <2>1. \A r \in air' : OfAnyCycle(r)'
    <3> SUFFICES ASSUME NEW r \in air' PROVE OfAnyCycle(r)'
      OBVIOUS
    <3>1. r.age \in 0..Lifetime
      BY <1>2, TargetsAssumption
    <3>2. r.age * N \in Nat /\ (r.age + 1) * N = r.age * N + N /\ N \in Nat
      BY <3>1, SpaceSuffices, TargetsAssumption
    <3>3. PICK d \in 1..(r.age * N) : SeqAfter(r.seq, d) = seq
      BY <1>2
    <3>4. d \in 1..((r.age + 1) * N)
      BY <3>2
    <3> QED BY <1>1, <3>3, <3>4 DEF OfAnyCycle
  <2> QED BY <1>3, <1>4, <1>6, <2>1 DEF CreditInv
<1> QED BY <1>1, <1>5, <1>6

(* A send moves every distance on by one; its own is one.                  *)
LEMMA CreditSend == ASSUME CreditInv, P!SendEcho PROVE CreditInv'
<1>0. /\ pc = "send" /\ at \in 1..N /\ at' = at + 1
      /\ seq \in Seqs /\ seq' = (seq + 1) % SeqSpace
      /\ pc' \in {"send", "read", "skip"}
      /\ pc' = "send" => at < N
      /\ pc' # "send" => at = N
      /\ credited' = credited
  BY TargetsAssumption DEF P!SendEcho, P!Advance, CreditInv, CreditType, N
<1>t. PICK t : t = Targets[at] /\ t \in P!Target
  BY <1>0, TargetsAssumption
<1>s. N \in Nat \ {0} /\ SeqSpace \in Nat /\ N <= SeqSpace /\ seq' \in Seqs
  <2>1. N \in Nat \ {0} /\ SeqSpace \in Nat /\ Lifetime \in Nat
    BY TargetsAssumption
  <2>2. N <= SeqSpace
    <3>1. 0 \in 0..Lifetime
      BY <2>1
    <3>2. 0 * N \in Nat /\ 0 * N + N <= SeqSpace
      BY <3>1, SpaceSuffices
    <3> QED BY <2>1, <3>2
  <2> QED BY <1>0, <2>1, <2>2, NextInSpace DEF Seqs
<1>1. ASSUME NEW x, x.seq \in Seqs, OfThisCycle(x)
      PROVE  OfThisCycle(x)'
  <2>1. PICK d \in 1..(at - 1) : SeqAfter(x.seq, d) = seq /\ x.target = Targets[at - d]
    BY <1>1 DEF OfThisCycle
  <2>2. d + 1 \in 1..(at' - 1) /\ at' - (d + 1) = at - d /\ d \in 1..(SeqSpace - 1)
    BY <1>0, <1>s
  <2>3. SeqAfter(x.seq, d + 1) = seq'
    BY <1>0, <1>1, <2>1, <2>2, SeqAdvances
  <2> QED BY <2>1, <2>2, <2>3 DEF OfThisCycle
<1>2. ASSUME NEW x, x.seq = seq, x.target = t
      PROVE  OfThisCycle(x)'
  <2>1. SeqAfter(seq, 1) = seq'
    BY <1>0, <1>s, NextInSpace DEF SeqAfter, Seqs
  <2>2. 1 \in 1..(at' - 1) /\ at' - 1 = at
    BY <1>0
  <2> QED BY <1>t, <1>2, <2>1, <2>2 DEF OfThisCycle
<1>3. ASSUME NEW r \in air, r.age # 0, OfEarlierCycle(r)
      PROVE  OfEarlierCycle(r)'
  <2>1. r.seq \in Seqs /\ r.age \in 0..Lifetime
    BY DEF CreditInv, CreditType
  <2>2. PICK d \in at..(r.age * N + at - 1) : SeqAfter(r.seq, d) = seq
    BY <1>3 DEF OfEarlierCycle
  <2>3. r.age * N \in Nat /\ r.age * N + N <= SeqSpace
    BY <2>1, SpaceSuffices
  <2>4. d + 1 \in at'..(r.age * N + at' - 1) /\ d \in 1..(SeqSpace - 1)
    BY <1>0, <1>s, <2>3
  <2>5. SeqAfter(r.seq, d + 1) = seq'
    BY <1>0, <2>1, <2>2, <2>4, SeqAdvances
  <2> QED BY <2>4, <2>5 DEF OfEarlierCycle
<1>4. \A p \in inflight' : OfThisCycle(p)' /\ p \in [seq : Seqs, target : P!Target]
  <2>1. \A p \in inflight : OfThisCycle(p)' /\ p \in [seq : Seqs, target : P!Target]
    BY <1>0, <1>1 DEF CreditInv, CreditType
  <2>2. \A p \in inflight' : p \in inflight \/ p = [seq |-> seq, target |-> t]
    BY <1>t DEF P!SendEcho
  <2> QED BY <1>0, <1>t, <1>2, <2>1, <2>2
<1>5. \A r \in air' : /\ IF r.age = 0 THEN OfThisCycle(r)' ELSE OfEarlierCycle(r)'
                      /\ r \in [seq : Seqs, target : P!Target, age : 0..Lifetime]
  <2>1. \A r \in air : /\ IF r.age = 0 THEN OfThisCycle(r)' ELSE OfEarlierCycle(r)'
                       /\ r \in [seq : Seqs, target : P!Target, age : 0..Lifetime]
    BY <1>0, <1>1, <1>3 DEF CreditInv, CreditType
  <2>2. \A r \in air' : r \in air \/ r = [seq |-> seq, target |-> t, age |-> 0]
    BY <1>t DEF P!SendEcho
  <2> QED BY <1>0, <1>t, <1>2, <2>1, <2>2, TargetsAssumption
<1>6. CreditType'
  BY <1>0, <1>s, <1>4, <1>5 DEF CreditType
<1>7. CreditsOwnProbe'
  BY <1>0 DEF CreditInv, CreditsOwnProbe, P!CreditsOwnProbe
<1> QED BY <1>0, <1>4, <1>5, <1>6, <1>7 DEF CreditInv

(* A reply that carries the number of a probe in flight is the reply to    *)
(* it: an older one would be further back, and the space is too large for  *)
(* its number to have come around.                                         *)
LEMMA ReplyIsOwn ==
    ASSUME CreditInv, pc = "read", NEW p \in inflight, NEW r \in air, p.seq = r.seq
    PROVE  r.age = 0 /\ r.target = p.target
<1>0. /\ at = N + 1 /\ N \in Nat \ {0} /\ SeqSpace \in Nat
      /\ p.seq \in Seqs /\ r.age \in 0..Lifetime
      /\ r.age * N \in Nat /\ r.age * N + N <= SeqSpace
  BY TargetsAssumption, SpaceSuffices DEF CreditInv, CreditType
<1>1. PICK c \in 1..(at - 1) : SeqAfter(p.seq, c) = seq /\ p.target = Targets[at - c]
  BY DEF CreditInv, OfThisCycle
<1>2. c \in 1..SeqSpace
  BY <1>0
<1>3. CASE r.age = 0
  <2>1. PICK d \in 1..(at - 1) : SeqAfter(r.seq, d) = seq /\ r.target = Targets[at - d]
    BY <1>3 DEF CreditInv, OfThisCycle
  <2>2. d \in 1..SeqSpace
    BY <1>0
  <2>3. c = d
    BY <1>0, <1>1, <1>2, <2>1, <2>2, DistanceUnique
  <2> QED BY <1>1, <1>3, <2>1, <2>3
<1>4. CASE r.age # 0
  <2>1. PICK d \in at..(r.age * N + at - 1) : SeqAfter(r.seq, d) = seq
    BY <1>4 DEF CreditInv, OfEarlierCycle
  <2>2. d \in 1..SeqSpace
    BY <1>0
  <2>3. c = d
    BY <1>0, <1>1, <1>2, <2>1, <2>2, DistanceUnique
  <2> QED BY <1>0, <1>1, <2>1, <2>3
<1> QED BY <1>3, <1>4

LEMMA CreditRead ==
    ASSUME CreditInv, NEW reply \in air, P!ReadReply(reply)
    PROVE  CreditInv'
<1>1. PICK p \in inflight : /\ p.seq = reply.seq /\ inflight' = inflight \ {p}
                            /\ credited' = [reply |-> reply, target |-> p.target]
  BY DEF P!ReadReply
<1>2. pc = "read" /\ UNCHANGED <<air, seq, pc, at>>
  BY DEF P!ReadReply
<1>3. CreditsOwnProbe'
  BY <1>1, <1>2, ReplyIsOwn DEF CreditsOwnProbe, P!CreditsOwnProbe
<1> QED BY <1>1, <1>2, <1>3 DEF CreditInv, CreditType, OfThisCycle, OfEarlierCycle

(* When a cycle ends, what was sent in it is at most N sends old.          *)
LEMMA CreditEnd == ASSUME CreditInv, P!EndCycle PROVE CreditInv'
<1>0. /\ pc \in {"read", "skip"} /\ pc' = "emit" /\ inflight' = {}
      /\ UNCHANGED <<air, seq, at, credited>>
  BY DEF P!EndCycle
<1>1. ASSUME NEW r \in air PROVE OfAnyCycle(r)
  <2>0. /\ at = N + 1 /\ N \in Nat \ {0} /\ r.age \in 0..Lifetime
        /\ r.age * N \in Nat /\ (r.age + 1) * N = r.age * N + N
    BY <1>0, TargetsAssumption, SpaceSuffices DEF CreditInv, CreditType
  <2>1. CASE r.age = 0
    <3>1. PICK d \in 1..(at - 1) : SeqAfter(r.seq, d) = seq
      BY <1>0, <2>1 DEF CreditInv, OfThisCycle
    <3>2. d \in 1..((r.age + 1) * N)
      BY <2>0
    <3> QED BY <3>1, <3>2 DEF OfAnyCycle
  <2>2. CASE r.age # 0
    <3>1. PICK d \in at..(r.age * N + at - 1) : SeqAfter(r.seq, d) = seq
      BY <1>0, <2>2 DEF CreditInv, OfEarlierCycle
    <3>2. d \in 1..((r.age + 1) * N)
      BY <2>0
    <3> QED BY <3>1, <3>2 DEF OfAnyCycle
  <2> QED BY <2>1, <2>2
<1> QED BY <1>0, <1>1 DEF CreditInv, CreditType, OfAnyCycle, CreditsOwnProbe, P!CreditsOwnProbe

LEMMA CreditNext == CreditInv /\ [P!Next]_P!vars => CreditInv'
<1> SUFFICES ASSUME CreditInv, [P!Next]_P!vars PROVE CreditInv'
  OBVIOUS
<1>1. CASE UNCHANGED <<air, seq, at, inflight, credited>>
           /\ (pc' \in {pc, "exited"} \/ (pc \in {"start", "emit"} /\ pc' = "tick"))
  BY <1>1 DEF CreditInv, CreditType, OfThisCycle, OfEarlierCycle, OfAnyCycle, CreditsOwnProbe,
              P!CreditsOwnProbe
<1>2. CASE P!Tick
  BY <1>2, CreditTick
<1>3. CASE P!SendEcho
  BY <1>3, CreditSend
<1>4. CASE \E reply \in air : P!ReadReply(reply)
  BY <1>4, CreditRead
<1>5. CASE P!EndCycle
  BY <1>5, CreditEnd
<1> QED
  BY <1>1, <1>2, <1>3, <1>4, <1>5
  DEF P!Next, P!ProberStep, P!Create, P!Destroy, P!Cancel, P!Start, P!OpenFails, P!ReadEnds,
      P!PullDeadline, P!Exit, P!Emit, P!vars

(* A successful Sample is owed to a reply to this very cycle's probe of    *)
(* this very Target, whatever late, duplicated and reordered replies       *)
(* arrive, as long as no reply outlives the space of sequence numbers      *)
(* (Pinger.cycle).                                                         *)
THEOREM RepliesCountForTheirProbe == P!Spec => []CreditsOwnProbe
<1>1. CreditInv => CreditsOwnProbe
  BY DEF CreditInv
<1> QED BY CreditInit, CreditNext, <1>1, PTL DEF P!Spec

(***************************************************************************)
(* The identifiers.  That they are distinct is not inductive by itself: a  *)
(* new identifier differs from the earlier ones because those are owned.   *)
(***************************************************************************)
(* Every identifier given to a key is in owners, the map that the search   *)
(* for a free one looks at (AllocateIdents).                               *)
AllocatedOwned == \A k \in DOMAIN allocated : allocated[k] \in owners

IdentInv == AllocatedOwned /\ IdentsDistinct

(* An empty allocation is distinct and owned.                              *)
LEMMA IdentInit == Init => IdentInv
BY DEF Init, IdentInv, AllocatedOwned, IdentsDistinct

(* Placing a key: the candidate was not owned, so it differs from every    *)
(* identifier that stays.                                                  *)
LEMMA IdentAssign == IdentInv /\ Assign => IdentInv'
<1> SUFFICES ASSUME IdentInv, Assign PROVE IdentInv'
  OBVIOUS
<1> DEFINE key == keys[next]
           cand == Candidate
<1>1. /\ cand \notin owners
      /\ owners' = owners \cup {cand}
      /\ DOMAIN allocated' = DOMAIN allocated \cup {key}
  BY DEF Assign, Taken
<1>2. \A k \in DOMAIN allocated' : allocated'[k] = IF k = key THEN cand ELSE allocated[k]
  BY DEF Assign
<1> HIDE DEF key, cand
<1>3. AllocatedOwned'
  BY <1>1, <1>2 DEF IdentInv, AllocatedOwned
<1>4. ASSUME NEW j \in DOMAIN allocated', NEW k \in DOMAIN allocated',
             allocated'[j] = allocated'[k]
      PROVE  j = k
  <2>1. CASE j = key \/ k = key
    BY <1>1, <1>2, <1>4, <2>1 DEF IdentInv, AllocatedOwned
  <2>2. CASE j # key /\ k # key
    BY <1>1, <1>2, <1>4, <2>2 DEF IdentInv, IdentsDistinct
  <2> QED BY <2>1, <2>2
<1> QED BY <1>3, <1>4 DEF IdentInv, IdentsDistinct

(* Every other step leaves the allocation alone.                           *)
LEMMA IdentNext == IdentInv /\ [Next]_vars => IdentInv'
<1> SUFFICES ASSUME IdentInv, [Next]_vars PROVE IdentInv'
  OBVIOUS
<1>1. CASE Assign
  BY <1>1, IdentAssign
<1>2. CASE Duplicate \/ ProbeNext \/ Finish \/ UNCHANGED vars
  <2>1. allocated' = allocated /\ owners' = owners
    BY <1>2 DEF Duplicate, ProbeNext, Finish, vars
  <2> QED BY <2>1 DEF IdentInv, AllocatedOwned, IdentsDistinct
<1> QED BY <1>1, <1>2 DEF Next

(* AllocateIdents gives no identifier to two probers, however their hashes *)
(* collide and wherever the search wraps around.                           *)
THEOREM IdentsAreDistinct == Spec => []IdentsDistinct
<1>1. IdentInv => IdentsDistinct
  BY DEF IdentInv
<1> QED BY IdentInit, IdentNext, <1>1, PTL DEF Spec

(***************************************************************************)
(* The windows.                                                            *)
(***************************************************************************)
(* The slot of the j-th last Sample of a ring, around its start.           *)
Slot(w, j) == IF w.head - j >= 0 THEN w.head - j ELSE w.head - j + Capacity

AnySample == W!Samples \cup {W!Success(0)}
Ring == [samples : [0..(Capacity - 1) -> AnySample], head : 0..(Capacity - 1), filled : BOOLEAN]

(* Ring w holds the last Samples of history h: they lie behind its head,   *)
(* and until it is filled the head has not moved around.                   *)
RingOf(w, h) ==
    /\ w.filled <=> Len(h) >= Capacity
    /\ ~w.filled => w.head = Len(h)
    /\ \A j \in 1..Capacity : j <= Len(h) => w.samples[Slot(w, j)] = h[Len(h) + 1 - j]

RingInv ==
    /\ rings \in [P!Target -> Ring]
    /\ history \in [P!Target -> Seq(W!Samples)]
    /\ \A t \in P!Target : RingOf(rings[t], history[t])

(* Below twice the modulus the remainder takes one subtraction.            *)
LEMMA RemainderOnce ==
    \A x \in 0..(2 * Capacity - 1) : x % Capacity = IF x < Capacity THEN x ELSE x - Capacity
BY WindowAssumption

(* Push overwrites the oldest Sample once the ring is filled.              *)
LEMMA PushKeepsRing ==
    ASSUME NEW w \in Ring, NEW h \in Seq(W!Samples), NEW x \in W!Samples, RingOf(w, h)
    PROVE  W!Push(w, x) \in Ring /\ RingOf(W!Push(w, x), Append(h, x))
<1> DEFINE v == W!Push(w, x)
           g == Append(h, x)
<1>0. Capacity \in Nat \ {0} /\ w.head \in 0..(Capacity - 1) /\ w.filled \in BOOLEAN
      /\ w.samples \in [0..(Capacity - 1) -> AnySample]
  BY WindowAssumption DEF Ring
<1>1. (w.head + 1) % Capacity = IF w.head + 1 = Capacity THEN 0 ELSE w.head + 1
  <2>1. PICK n \in 0..(2 * Capacity - 1) : n = w.head + 1
    BY <1>0
  <2>2. n % Capacity = IF n < Capacity THEN n ELSE n - Capacity
    BY RemainderOnce
  <2>3. n % Capacity = IF n = Capacity THEN 0 ELSE n
    BY <1>0, <2>1, <2>2
  <2> QED BY <2>1, <2>3
<1>2. /\ v.head = IF w.head + 1 = Capacity THEN 0 ELSE w.head + 1
      /\ v.samples = [w.samples EXCEPT ![w.head] = x]
      /\ v.filled = (w.filled \/ v.head = 0)
      /\ v \in Ring
  <2>1. /\ v.head = (w.head + 1) % Capacity
        /\ v.samples = [w.samples EXCEPT ![w.head] = x]
        /\ v.filled = (w.filled \/ v.head = 0)
    BY DEF W!Push
  <2>2. x \in AnySample
    BY DEF AnySample
  <2>3. v = [samples |-> v.samples, head |-> v.head, filled |-> v.filled]
    BY DEF W!Push
  <2>4. v.head \in 0..(Capacity - 1) /\ v.samples \in [0..(Capacity - 1) -> AnySample]
    BY <1>0, <1>1, <2>1, <2>2
  <2>5. v.filled \in BOOLEAN
    BY <2>1
  <2> HIDE DEF v
  <2> QED BY <1>1, <2>1, <2>3, <2>4, <2>5 DEF Ring
<1>3. /\ g \in Seq(W!Samples) /\ Len(h) \in Nat /\ Len(g) = Len(h) + 1
      /\ g[Len(h) + 1] = x /\ \A i \in 1..Len(h) : g[i] = h[i]
  BY AppendProperties, LenProperties
<1>4. v.filled <=> Len(g) >= Capacity
  <2>1. CASE w.filled
    <3>1. v.filled
      BY <1>2, <2>1
    <3>2. Len(h) >= Capacity
      BY <2>1 DEF RingOf
    <3>3. Len(g) >= Capacity
      BY <1>0, <1>3, <3>2
    <3> QED BY <3>1, <3>3
  <2>2. CASE ~w.filled
    <3>1. v.filled <=> v.head = 0
      BY <1>2, <2>2
    <3>2. v.head = 0 <=> w.head + 1 = Capacity
      BY <1>0, <1>2
    <3>3. w.head = Len(h) /\ Len(h) < Capacity
      BY <1>0, <1>3, <2>2 DEF RingOf
    <3>4. w.head + 1 = Capacity <=> Len(g) >= Capacity
      BY <1>0, <1>3, <3>3
    <3> QED BY <3>1, <3>2, <3>4
  <2> QED BY <2>1, <2>2
<1>5. ~v.filled => v.head = Len(g)
  BY <1>0, <1>2, <1>3 DEF RingOf
<1>6. ASSUME NEW j \in 1..Capacity, j <= Len(g)
      PROVE  v.samples[Slot(v, j)] = g[Len(g) + 1 - j]
  <2>1. CASE j = 1
    <3>1. Slot(v, j) = w.head
      BY <1>0, <1>2, <2>1 DEF Slot
    <3> QED BY <1>0, <1>2, <1>3, <2>1, <3>1
  <2>2. CASE j # 1
    <3>1. j - 1 \in 1..Capacity /\ j - 1 <= Len(h)
      BY <1>0, <1>3, <1>6, <2>2
    <3>2. /\ Slot(v, j) = Slot(w, j - 1)
          /\ Slot(v, j) # w.head /\ Slot(v, j) \in 0..(Capacity - 1)
      BY <1>0, <1>2, <2>2 DEF Slot
    <3>3. w.samples[Slot(w, j - 1)] = h[Len(h) + 1 - (j - 1)]
      BY <3>1 DEF RingOf
    <3>4. Len(h) + 1 - (j - 1) = Len(g) + 1 - j /\ Len(g) + 1 - j \in 1..Len(h)
      BY <1>3, <3>1
    <3> QED BY <1>0, <1>2, <1>3, <3>2, <3>3, <3>4
  <2> QED BY <2>1, <2>2
<1> HIDE DEF v, g
<1> QED BY <1>2, <1>4, <1>5, <1>6 DEF RingOf, v, g

(* What is read off a ring, from the oldest to the newest Sample, is the   *)
(* end of its history.                                                     *)
LEMMA HeldIsRecent ==
    ASSUME NEW w \in Ring, NEW h \in Seq(W!Samples), RingOf(w, h)
    PROVE  W!Held(w) = SubSeq(h, W!Max({1, Len(h) - Capacity + 1}), Len(h))
<1> DEFINE m == Len(h) - Capacity + 1
<1>0. /\ Capacity \in Nat \ {0} /\ w.head \in 0..(Capacity - 1) /\ Len(h) \in Nat
  BY WindowAssumption, LenProperties DEF Ring
<1>1. CASE w.filled
  <2>0. Len(h) >= Capacity /\ m \in Nat \ {0} /\ Len(h) - m + 1 = Capacity
    BY <1>0, <1>1 DEF RingOf
  <2>1. W!Max({1, m}) = m
    BY <2>0 DEF W!Max
  <2>2. W!Held(w) = [k \in 1..Capacity |-> w.samples[(w.head + k - 1) % Capacity]]
    BY <1>1 DEF W!Held
  <2>3. ASSUME NEW k \in 1..Capacity
        PROVE  w.samples[(w.head + k - 1) % Capacity] = h[k + m - 1]
    <3>1. PICK n \in 0..(2 * Capacity - 1) : n = w.head + k - 1
      BY <1>0
    <3>2. Capacity + 1 - k \in 1..Capacity /\ Capacity + 1 - k <= Len(h)
      BY <1>0, <2>0
    <3>3. n % Capacity = Slot(w, Capacity + 1 - k)
      <4>1. n % Capacity = IF n < Capacity THEN n ELSE n - Capacity
        BY RemainderOnce
      <4>2. Slot(w, Capacity + 1 - k) = IF n < Capacity THEN n ELSE n - Capacity
        <5>1. PICK h0 \in 0..(Capacity - 1) : h0 = w.head
          BY <1>0
        <5>2. Slot(w, Capacity + 1 - k) =
                  IF h0 - (Capacity + 1 - k) >= 0 THEN h0 - (Capacity + 1 - k)
                  ELSE h0 - (Capacity + 1 - k) + Capacity
          BY <5>1 DEF Slot
        <5>3. n = h0 + k - 1
          BY <3>1, <5>1
        <5>4. h0 - (Capacity + 1 - k) >= 0 <=> ~(n < Capacity)
          BY <1>0, <5>3
        <5>5. /\ h0 - (Capacity + 1 - k) = n - Capacity
              /\ h0 - (Capacity + 1 - k) + Capacity = n
          BY <1>0, <5>3
        <5> QED BY <5>2, <5>4, <5>5
      <4> QED BY <4>1, <4>2
    <3>4. Len(h) + 1 - (Capacity + 1 - k) = k + m - 1
      BY <1>0
    <3> QED BY <3>1, <3>2, <3>3, <3>4 DEF RingOf
  <2>4. W!Held(w) = [k \in 1..Capacity |-> h[k + m - 1]]
    BY <2>2, <2>3
  <2>5. SubSeq(h, m, Len(h)) = [k \in 1..Capacity |-> h[k + m - 1]]
    BY <1>0, <2>0
  <2> QED BY <2>1, <2>4, <2>5
<1>2. CASE ~w.filled
  <2>0. Len(h) < Capacity /\ w.head = Len(h) /\ m <= 1 /\ m \in Int
    BY <1>0, <1>2 DEF RingOf
  <2>1. W!Max({1, m}) = 1
    BY <2>0 DEF W!Max
  <2>2. W!Held(w) = [k \in 1..w.head |-> w.samples[k - 1]]
    BY <1>2 DEF W!Held
  <2>3. ASSUME NEW k \in 1..Len(h)
        PROVE  w.samples[k - 1] = h[k]
    <3>1. Len(h) + 1 - k \in 1..Capacity /\ Len(h) + 1 - k <= Len(h)
      BY <1>0, <2>0
    <3>2. Slot(w, Len(h) + 1 - k) = k - 1 /\ Len(h) + 1 - (Len(h) + 1 - k) = k
      BY <1>0, <2>0 DEF Slot
    <3> QED BY <3>1, <3>2 DEF RingOf
  <2>4. W!Held(w) = [k \in 1..Len(h) |-> h[k]]
    BY <2>0, <2>2, <2>3
  <2>5. SubSeq(h, 1, Len(h)) = [k \in 1..Len(h) |-> h[k]]
    BY <1>0
  <2> QED BY <2>1, <2>4, <2>5
<1> QED BY <1>1, <1>2

LEMMA RingInit == W!Init => RingInv
<1> SUFFICES ASSUME W!Init PROVE RingInv
  OBVIOUS
<1>1. W!NewWindow \in Ring
  BY WindowAssumption DEF W!NewWindow, Ring, AnySample, W!Success
<1>2. <<>> \in Seq(W!Samples) /\ Len(<<>>) = 0
  BY EmptySeq
<1>3. RingOf(W!NewWindow, <<>>)
  BY <1>2, WindowAssumption DEF RingOf, W!NewWindow
<1> QED BY <1>1, <1>2, <1>3 DEF W!Init, RingInv

LEMMA RingNext == RingInv /\ [W!Next]_W!vars => RingInv'
<1> SUFFICES ASSUME RingInv, [W!Next]_W!vars PROVE RingInv'
  OBVIOUS
<1>1. CASE W!Next
  <2>1. PICK t \in P!Target, x \in W!Samples : W!PushSample(t, x)
    BY <1>1 DEF W!Next
  <2>2. /\ rings' = [rings EXCEPT ![t] = W!Push(@, x)]
        /\ history' = [history EXCEPT ![t] = Append(@, x)]
    BY <2>1 DEF W!PushSample
  <2>3. /\ W!Push(rings[t], x) \in Ring /\ Append(history[t], x) \in Seq(W!Samples)
        /\ RingOf(W!Push(rings[t], x), Append(history[t], x))
    BY PushKeepsRing, AppendProperties DEF RingInv
  <2> QED BY <2>2, <2>3 DEF RingInv
<1>2. CASE UNCHANGED W!vars
  BY <1>2 DEF W!vars, RingInv
<1> QED BY <1>1, <1>2

(* The ring buffer of every Target holds exactly its last Samples in their *)
(* order, and is filled exactly when there were Capacity of them, for      *)
(* every capacity and however often it wraps (WindowStats.Push, forEach).  *)
(* It is the part of StatisticsMatchHistory that is not a sum.             *)
THEOREM RingsHoldRecentSamples == W!Spec => []W!WindowHoldsRecent
<1>1. ASSUME RingInv PROVE W!WindowHoldsRecent
  <2> SUFFICES ASSUME NEW t \in P!Target
               PROVE  /\ W!Held(rings[t]) = W!Recent(t)
                      /\ rings[t].filled <=> Len(history[t]) >= Capacity
    BY DEF W!WindowHoldsRecent
  <2>1. rings[t] \in Ring /\ history[t] \in Seq(W!Samples) /\ RingOf(rings[t], history[t])
    BY <1>1 DEF RingInv
  <2>2. W!Recent(t) = SubSeq(history[t], W!Max({1, Len(history[t]) - Capacity + 1}),
                             Len(history[t]))
    BY DEF W!Recent
  <2>3. W!Held(rings[t]) = W!Recent(t)
    BY <2>1, <2>2, HeldIsRecent
  <2> QED BY <2>1, <2>3 DEF RingOf
<1> QED BY RingInit, RingNext, <1>1, PTL DEF W!Spec
=============================================================================
