--------------------------- MODULE EffectsProofs ---------------------------
(***************************************************************************)
(* What the daemon does to the system around it, for every number of       *)
(* Groups, rules, entries, writes and events: the fwmark rules, the        *)
(* replacement of state.json, the conntrack flush and the Hooks.  The      *)
(* components are the instances R, S and F of MCEffects and HookDelivery,  *)
(* which it extends, so that a theorem is about what the run checks.       *)
(***************************************************************************)
EXTENDS MCEffects, FiniteSetTheorems, SequenceTheorems, TLAPS

(***************************************************************************)
(* Rules.                                                                  *)
(***************************************************************************)
RulesType ==
    /\ rules \subseteq R!Rule
    /\ phase \in {"off", "list", "change", "booted"}
    /\ todo \subseteq R!Slots /\ cur \in R!Slots

(* In the middle of a slot, what was listed is still what is in place: the *)
(* rules the daemon did not add itself are narrow.                         *)
ListedIsCurrent == phase = "change" => matches = R!Full(cur) /\ cur \notin todo

(* The slots bootstrap is through with have their one rule.                *)
PassedSlots ==
    phase # "off" =>
        \A s \in R!Slots \ todo :
            (phase = "change" => s # cur) => Cardinality(R!Full(s)) = 1

RulesInv ==
    /\ RulesType /\ ListedIsCurrent /\ PassedSlots
    /\ phase = "booted" => todo = {}

(* A slot has at most one full rule of every preference.                   *)
LEMMA FullFinite ==
    ASSUME RulesType, NEW s \in R!Slots
    PROVE  IsFiniteSet(R!Full(s))
<1> DEFINE Full == R!Full(s)
           f == [r \in Full |-> r.pref]
<1>1. Full \subseteq R!Rule /\ \A r \in Full : r.slot = s /\ r.narrow = FALSE
  BY DEF R!Full, RulesType, R!Rule
<1>2. f \in [Full -> 1..MaxPref]
  BY <1>1 DEF R!Rule
<1>3. ASSUME NEW q \in Full, NEW r \in Full, q.pref = r.pref
      PROVE  q = r
  BY <1>1, <1>3 DEF R!Rule
<1>4. f \in Injection(Full, 1..MaxPref)
  BY <1>2, <1>3 DEF Injection, IsInjective
<1>5. IsFiniteSet(1..MaxPref)
  BY EffectsAssumption, FS_Interval DEF R!RulesAssumption
<1> QED BY <1>4, <1>5, FS_Injection

(* Of two full rules of a slot with the same preference there is only one, *)
(* so that the first of the copies is determined.                          *)
LEMMA FirstUnique ==
    ASSUME NEW s, NEW M, M \subseteq R!Rule, \A r \in M : r.slot = s /\ ~r.narrow,
           NEW q \in M, \A r \in M : q.pref <= r.pref
    PROVE  (CHOOSE r \in M : \A x \in M : r.pref <= x.pref) = q
<1>1. ASSUME NEW r \in M, \A x \in M : r.pref <= x.pref
      PROVE  r = q
  <2>1. r.pref = q.pref
    BY <1>1, EffectsAssumption DEF R!Rule, R!RulesAssumption
  <2>2. r.narrow = FALSE /\ q.narrow = FALSE
    BY Zenon DEF R!Rule
  <2> QED BY <2>1, <2>2 DEF R!Rule
<1> QED BY <1>1

(* A step that neither adds nor deletes one of the daemon's rules leaves   *)
(* the full rules of every slot alone.                                     *)
LEMMA OtherRulesStep ==
    ASSUME [R!Next]_R!vars, ~R!Add, ~R!DeleteCopy
    PROVE  \A s \in R!Slots : R!Full(s)' = R!Full(s)
<1>1. CASE \E r \in R!Rule : R!AddNarrow(r)
  BY <1>1 DEF R!AddNarrow, R!Full
<1>2. CASE R!Start \/ R!List \/ R!NextSlot \/ R!Booted \/ R!Exit \/ UNCHANGED R!vars
  <2>1. rules' = rules
    BY <1>2 DEF R!Start, R!List, R!NextSlot, R!Booted, R!Exit, R!vars
  <2> QED BY <2>1 DEF R!Full
<1> QED BY <1>1, <1>2 DEF R!Next

(* A rule is added only to a slot that has none.                           *)
LEMMA AddStep ==
    ASSUME RulesInv, R!Add
    PROVE  /\ R!Full(cur) = {}
           /\ \E r : R!Full(cur)' = {r}
           /\ \A s \in R!Slots \ {cur} : R!Full(s)' = R!Full(s)
           /\ \E r \in R!Rule : rules' = rules \cup {r}
<1>1. PICK p \in 1..MaxPref :
          LET r == [slot |-> cur, narrow |-> FALSE, pref |-> p]
          IN  r \notin rules /\ rules' = rules \cup {r}
  BY DEF R!Add
<1> DEFINE r == [slot |-> cur, narrow |-> FALSE, pref |-> p]
<1>2. rules' = rules \cup {r} /\ r.slot = cur /\ r.narrow = FALSE
  BY <1>1
<1>3. R!Full(cur) = {}
  BY DEF R!Add, R!Missing, RulesInv, ListedIsCurrent
<1>4. r \in R!Rule
  BY DEF R!Rule, RulesInv, RulesType
<1> HIDE DEF r
<1>5. R!Full(cur)' = {r}
  <2>1. cur' = cur
    BY DEF R!Add
  <2>2. \A x \in rules : ~(x.slot = cur /\ ~x.narrow)
    BY <1>3 DEF R!Full
  <2> QED BY <1>2, <2>1, <2>2, Zenon DEF R!Full
<1>6. \A s \in R!Slots \ {cur} : R!Full(s)' = R!Full(s)
  BY <1>2 DEF R!Full
<1> QED BY <1>2, <1>3, <1>4, <1>5, <1>6

(* A copy is deleted only while the rule that decides stays.               *)
LEMMA DeleteCopyStep ==
    ASSUME RulesInv, R!DeleteCopy
    PROVE  /\ \E q, r \in R!Full(cur) :
                 /\ q # r /\ \A x \in R!Full(cur) : q.pref <= x.pref
                 /\ R!Full(cur)' = R!Full(cur) \ {r}
                 /\ matches' = matches \ {r} /\ rules' = rules \ {r}
           /\ \A s \in R!Slots \ {cur} : R!Full(s)' = R!Full(s)
<1> DEFINE M == R!Full(cur)
           k == CHOOSE q \in M : \A x \in M : q.pref <= x.pref
<1>1. matches = M /\ k = R!Kept /\ cur' = cur
  BY DEF R!DeleteCopy, RulesInv, ListedIsCurrent, R!Kept
<1>2. PICK r \in M \ {k} : /\ \A x \in M \ {k} : r.pref <= x.pref
                           /\ rules' = rules \ {r}
                           /\ matches' = matches \ {r}
  BY <1>1 DEF R!DeleteCopy
<1>3. \A x \in M : x.pref \in Nat
  BY EffectsAssumption DEF R!Full, R!Rule, R!RulesAssumption, RulesInv, RulesType
<1>4. \E q \in M : \A x \in M : q.pref <= x.pref
  <2>1. CASE k \notin M
    BY <1>2, <2>1
  <2>2. CASE k \in M /\ k.pref <= r.pref
    BY <1>2, <1>3, <2>2
  <2>3. CASE k \in M /\ ~(k.pref <= r.pref)
    <3>1. \A x \in M : r.pref <= x.pref
      BY <1>2, <1>3, <2>3
    <3> QED BY <1>2, <3>1
  <2> QED BY <2>1, <2>2, <2>3
<1>5. k \in M /\ \A x \in M : k.pref <= x.pref
  BY <1>4
<1>6. R!Full(cur)' = M \ {r}
  BY <1>1, <1>2 DEF R!Full
<1>7. r.slot = cur
  BY <1>2 DEF R!Full
<1>8. \A s \in R!Slots \ {cur} : R!Full(s)' = R!Full(s)
  BY <1>2, <1>7 DEF R!Full
<1> HIDE DEF M, k
<1>9. \E q, x \in M :
          /\ q # x /\ \A y \in M : q.pref <= y.pref
          /\ R!Full(cur)' = M \ {x}
          /\ matches' = matches \ {x} /\ rules' = rules \ {x}
  BY <1>2, <1>5, <1>6
<1> QED BY <1>8, <1>9 DEF M

(* The instance counts with a copy of the standard definition.             *)
LEMMA RulesCardinality == \A X : R!Cardinality(X) = Cardinality(X)
BY DEF R!Cardinality, Cardinality

LEMMA RulesInit == R!Init => RulesInv
BY DEF R!Init, RulesInv, RulesType, ListedIsCurrent, PassedSlots

LEMMA RulesTypeNext == ASSUME RulesInv, [R!Next]_R!vars PROVE RulesType'
<1>1. CASE \E r \in R!Rule : R!AddNarrow(r)
  BY <1>1 DEF R!AddNarrow, RulesInv, RulesType
<1>2. CASE R!Start \/ R!NextSlot \/ R!Booted \/ R!Exit \/ UNCHANGED R!vars
  BY <1>2 DEF R!Start, R!NextSlot, R!Booted, R!Exit, R!vars, RulesInv, RulesType
<1>3. CASE R!List
  BY <1>3 DEF R!List, RulesInv, RulesType
<1>4. CASE R!Add
  BY <1>4, AddStep DEF R!Add, RulesInv, RulesType
<1>5. CASE R!DeleteCopy
  BY <1>5 DEF R!DeleteCopy, RulesInv, RulesType
<1> QED BY <1>1, <1>2, <1>3, <1>4, <1>5 DEF R!Next

LEMMA RulesNext == RulesInv /\ [R!Next]_R!vars => RulesInv'
<1> SUFFICES ASSUME RulesInv, [R!Next]_R!vars PROVE RulesInv'
  OBVIOUS
<1>0. RulesType'
  BY RulesTypeNext
<1>1. CASE \E r \in R!Rule : R!AddNarrow(r)
  <2>1. /\ \A s \in R!Slots : R!Full(s)' = R!Full(s)
        /\ UNCHANGED <<phase, todo, cur, matches>>
    BY <1>1 DEF R!AddNarrow, R!Full
  <2> QED BY <1>0, <2>1 DEF RulesInv, RulesType, ListedIsCurrent, PassedSlots
<1>2. CASE R!Start \/ R!Exit
  BY <1>0, <1>2 DEF R!Start, R!Exit, RulesInv, ListedIsCurrent, PassedSlots
<1>3. CASE R!List
  <2>1. PICK s \in todo : /\ cur' = s /\ todo' = todo \ {s}
                          /\ matches' = {r \in rules : R!MatchesRule(r, s)}
    BY <1>3 DEF R!List
  <2>2. rules' = rules /\ phase = "list" /\ phase' = "change"
    BY <1>3 DEF R!List
  <2>3. matches' = R!Full(cur)'
    BY <2>1, <2>2 DEF R!MatchesRule, R!Full
  <2>4. \A x \in R!Slots : R!Full(x)' = R!Full(x)
    BY <2>2 DEF R!Full
  <2>5. PassedSlots'
    BY <2>1, <2>2, <2>4 DEF RulesInv, PassedSlots
  <2> QED BY <1>0, <2>1, <2>2, <2>3, <2>5 DEF RulesInv, ListedIsCurrent
<1>4. CASE R!NextSlot
  <2>1. Cardinality(R!Full(cur)) = 1
    BY <1>4, RulesCardinality DEF R!NextSlot, R!Ensured, RulesInv, ListedIsCurrent
  <2>2. UNCHANGED <<rules, todo, cur>> /\ phase = "change" /\ phase' = "list"
    BY <1>4 DEF R!NextSlot
  <2>3. \A x \in R!Slots : R!Full(x)' = R!Full(x)
    BY <2>2 DEF R!Full
  <2> QED BY <1>0, <2>1, <2>2, <2>3 DEF RulesInv, ListedIsCurrent, PassedSlots
<1>5. CASE R!Booted \/ UNCHANGED R!vars
  <2>1. UNCHANGED <<rules, todo, cur, matches>>
    BY <1>5 DEF R!Booted, R!vars
  <2>2. \A x \in R!Slots : R!Full(x)' = R!Full(x)
    BY <2>1 DEF R!Full
  <2>3. R!Full(cur)' = R!Full(cur)
    BY <2>1 DEF R!Full
  <2> QED BY <1>0, <1>5, <2>1, <2>2, <2>3
          DEF R!Booted, R!vars, RulesInv, ListedIsCurrent, PassedSlots
<1>6. CASE R!Add
  <2>1. UNCHANGED <<todo, cur>> /\ phase = "change" /\ phase' = "list"
    BY <1>6 DEF R!Add
  <2>2. /\ \E r : R!Full(cur)' = {r}
        /\ \A s \in R!Slots \ {cur} : R!Full(s)' = R!Full(s)
    BY <1>6, AddStep
  <2>3. Cardinality(R!Full(cur)') = 1
    BY <2>2, FS_Singleton
  <2> QED BY <1>0, <2>1, <2>2, <2>3 DEF RulesInv, ListedIsCurrent, PassedSlots
<1>7. CASE R!DeleteCopy
  <2>1. UNCHANGED <<phase, todo, cur>> /\ phase = "change"
    BY <1>7 DEF R!DeleteCopy
  <2>2. /\ R!Full(cur)' = matches'
        /\ \A s \in R!Slots \ {cur} : R!Full(s)' = R!Full(s)
    BY <1>7, <2>1, DeleteCopyStep DEF RulesInv, ListedIsCurrent
  <2> QED BY <1>0, <2>1, <2>2 DEF RulesInv, ListedIsCurrent, PassedSlots
<1> QED BY <1>1, <1>2, <1>3, <1>4, <1>5, <1>6, <1>7 DEF R!Next

(* Once bootstrap has returned every Group and Family has its one rule,    *)
(* whatever copies earlier builds left, however often the daemon failed    *)
(* between two kernel calls, and whoever adds rules beside it              *)
(* (ensureRuleVia).                                                        *)
THEOREM BootstrapEnsuresRules == R!Spec => []OneRuleEach
<1>1. RulesInv => OneRuleEach
  BY RulesCardinality DEF RulesInv, PassedSlots, OneRuleEach, R!OneRuleEach
<1> QED BY RulesInit, RulesNext, <1>1, PTL DEF R!Spec

(* What is routed stays routed by the same rule.                           *)
LEMMA RoutingStep ==
    ASSUME RulesInv, [R!Next]_R!vars, NEW s \in R!Slots, R!Full(s) # {}
    PROVE  /\ R!Full(s)' # {} /\ R!First(s)' = R!First(s)
           /\ Cardinality(R!Full(s)') <= Cardinality(R!Full(s))
<1>0. IsFiniteSet(R!Full(s)) /\ Cardinality(R!Full(s)) \in Nat
  BY FullFinite, FS_CardinalityType DEF RulesInv
<1>1. CASE R!Full(s)' = R!Full(s)
  BY <1>0, <1>1 DEF R!First
<1>2. CASE s = cur /\ R!DeleteCopy
  <2> DEFINE M == R!Full(s)
             N == R!Full(s)'
  <2>1. PICK q, r \in M : /\ q # r /\ \A x \in M : q.pref <= x.pref
                          /\ N = M \ {r}
    <3>1. cur' = cur
      BY <1>2 DEF R!DeleteCopy
    <3>2. R!Full(cur)' = N
      BY <1>2, <3>1 DEF R!Full
    <3> QED BY <1>2, <3>2, DeleteCopyStep
  <2>2. M \subseteq R!Rule /\ \A x \in M : x.slot = s /\ ~x.narrow
    BY DEF R!Full, RulesInv, RulesType
  <2>3. q \in N /\ N \subseteq M
    BY <2>1
  <2>a. R!First(s) = CHOOSE x \in M : \A y \in M : x.pref <= y.pref
    BY DEF R!First
  <2>b. R!First(s)' = CHOOSE x \in N : \A y \in N : x.pref <= y.pref
    BY DEF R!First
  <2> HIDE DEF M, N
  <2>4. R!First(s) = q
    BY <2>1, <2>2, <2>a, FirstUnique
  <2>5. R!First(s)' = q
    BY <2>1, <2>2, <2>3, <2>b, FirstUnique
  <2>6. Cardinality(N) <= Cardinality(M)
    BY <1>0, <2>3, FS_Subset DEF M
  <2> QED BY <2>3, <2>4, <2>5, <2>6 DEF M, N
<1> QED BY <1>1, <1>2, OtherRulesStep, AddStep, DeleteCopyStep

(* Starts, failed ones included, disturb no traffic: what is routed stays  *)
(* routed by the rule that decided it before, nobody else's rule goes, and *)
(* copies do not pile up (ensureRuleVia).                                  *)
THEOREM StartsDisturbNothing == R!Spec => RulesUndisturbed
<1>1. RulesInv /\ [R!Next]_R!vars =>
        [\A s \in R!Slots : R!Full(s) # {} => R!Full(s)' # {} /\ R!First(s)' = R!First(s)]_R!vars
  BY RoutingStep
<1>2. RulesInv /\ [R!Next]_R!vars =>
        [\A s \in R!Slots : R!Full(s) # {} => R!Cardinality(R!Full(s)') <= R!Cardinality(R!Full(s))]_R!vars
  BY RoutingStep, RulesCardinality
<1>3. RulesInv /\ [R!Next]_R!vars => [\A r \in rules : r.narrow => r \in rules']_R!vars
  <2> SUFFICES ASSUME RulesInv, [R!Next]_R!vars, NEW r \in rules, r.narrow
               PROVE  r \in rules'
    OBVIOUS
  <2>1. CASE R!Add
    BY <2>1, AddStep
  <2>2. CASE R!DeleteCopy
    BY <2>2, DeleteCopyStep DEF R!Full
  <2>3. CASE ~R!Add /\ ~R!DeleteCopy
    BY <2>3 DEF R!Next, R!AddNarrow, R!Start, R!List, R!NextSlot, R!Booted, R!Exit, R!vars
  <2> QED BY <2>1, <2>2, <2>3
<1> QED
  BY RulesInit, RulesNext, <1>1, <1>2, <1>3, PTL
  DEF R!Spec, RulesUndisturbed, R!RulesUndisturbed, R!RoutingUnchanged, R!SparesNarrowRules,
      R!NoNewCopies

(***************************************************************************)
(* The replacement of state.json.                                          *)
(***************************************************************************)
Halves == [1..2 -> Nat]

WriterType ==
    /\ content \in [S!Files -> Halves]
    /\ used \subseteq S!Files /\ temps \subseteq used
    /\ path \in used \cup {NoFile}
    /\ pc \in {"idle", "first", "second", "chmod", "close", "rename"}
    /\ IF pc = "idle" THEN tmp = NoFile ELSE tmp \in used
    /\ version \in Nat
    /\ reader \in {"idle", "first", "second", "done"}
    /\ opened \in used \cup {NoFile}
    /\ reader # "idle" => opened # NoFile
    /\ seen \in Halves /\ last \in Nat

(* File f holds all of version v.                                          *)
Holds(f, v) == content[f][1] = v /\ content[f][2] = v

(* The temporary file is nobody else's, and complete when it is renamed.   *)
TempIsPrivate ==
    pc # "idle" =>
        /\ tmp # path /\ tmp # opened
        /\ pc # "first" => content[tmp][1] = version
        /\ pc \in {"chmod", "close", "rename"} => Holds(tmp, version)

(* state.json is one whole version, older than the one being written.      *)
Whole(f) == content[f][1] = content[f][2] /\ content[f][1] # 0

PathIsWhole ==
    path # NoFile =>
        /\ Whole(path) /\ content[path][1] <= version
        /\ pc # "idle" => content[path][1] < version

(* So is the file a reader has open, which may have been replaced since,   *)
(* and what it has read so far is of that file.                            *)
ReaderHoldsWhole ==
    /\ reader # "idle" =>
          /\ Whole(opened) /\ last <= content[opened][1]
          /\ path # NoFile /\ content[opened][1] <= content[path][1]
    /\ reader = "idle" => seen[1] = 0
    /\ reader \in {"second", "done"} => seen[1] = content[opened][1]
    /\ reader = "done" => seen[2] = content[opened][2]

(* A write that began has a version.                                       *)
WriterInv ==
    /\ WriterType /\ TempIsPrivate /\ PathIsWhole /\ ReaderHoldsWhole
    /\ S!NoLitter
    /\ pc # "idle" => version > 0

LEMMA WriterInit == S!Init => WriterInv
<1> SUFFICES ASSUME S!Init PROVE WriterInv
  OBVIOUS
<1>1. <<0, 0>> \in Halves
  BY DEF Halves
<1>2. WriterType
  BY <1>1 DEF S!Init, WriterType
<1> QED BY <1>2 DEF S!Init, WriterInv, TempIsPrivate, PathIsWhole, ReaderHoldsWhole, S!NoLitter

LEMMA WriterNext == WriterInv /\ [S!Next]_S!vars => WriterInv'
<1> SUFFICES ASSUME WriterInv, [S!Next]_S!vars PROVE WriterInv'
  OBVIOUS
<1> USE DEF WriterInv, WriterType, TempIsPrivate, PathIsWhole, ReaderHoldsWhole, S!NoLitter, Holds, Whole,
            S!disk, S!writer, S!reading
<1>0. \A f \in S!Files : f # NoFile
  BY EffectsAssumption DEF S!Files, S!WriterAssumption
<1>a. \A f \in used : content[f][1] \in Nat
  BY DEF Halves
<1>1. CASE S!CreateTemp
  BY <1>0, <1>a, <1>1 DEF S!CreateTemp
<1>2. CASE S!WriteHalf
  BY <1>0, <1>2 DEF S!WriteHalf, S!Half, Halves
<1>3. CASE S!ChmodAndClose
  BY <1>3 DEF S!ChmodAndClose
<1>4. CASE S!Rename
  <2>1. /\ path' = tmp /\ opened' = opened /\ content' = content /\ reader' = reader
        /\ pc' = "idle" /\ version' = version /\ Holds(tmp, version) /\ version \in Nat \ {0}
    BY <1>4 DEF S!Rename, S!RenameReady
  <2>2. PathIsWhole'
    BY <1>0, <2>1
  <2>3. WriterType' /\ TempIsPrivate' /\ S!NoLitter'
    BY <1>0, <1>4 DEF S!Rename, S!RenameReady
  <2>4. ReaderHoldsWhole'
    <3>1. reader # "idle" => content[opened][1] <= version
      BY <1>0, <1>a, <1>4 DEF S!Rename, S!RenameReady
    <3>2. path' # NoFile /\ content'[path'][1] = version /\ UNCHANGED <<seen, last>>
      BY <1>0, <1>4, <2>1 DEF S!Rename, S!RenameReady
    <3> QED BY <2>1, <3>1, <3>2
  <2> QED BY <2>1, <2>2, <2>3, <2>4
<1>5. CASE S!Fail
  BY <1>0, <1>5 DEF S!Fail, S!Cleaned
<1>6. CASE S!Crash
  BY <1>6 DEF S!Crash
<1>7. CASE S!Open
  <2>1. <<0, 0>> \in Halves
    BY DEF Halves
  <2>2. last' \in Nat /\ WriterType'
    BY <1>7, <2>1 DEF S!Open, Halves
  <2>3. TempIsPrivate' /\ PathIsWhole' /\ S!NoLitter' /\ pc' = pc /\ version' = version
    BY <1>7 DEF S!Open
  <2>4. Whole(path) /\ last' <= content[path][1]
    BY <1>7 DEF S!Open, Halves
  <2>5. ReaderHoldsWhole'
    BY <1>7, <2>4 DEF S!Open, Halves
  <2> QED BY <2>2, <2>3, <2>5
<1>8. CASE S!ReadHalf
  BY <1>8 DEF S!ReadHalf, Halves
<1>9. CASE UNCHANGED S!vars
  BY <1>9 DEF S!vars
<1> QED BY <1>1, <1>2, <1>3, <1>4, <1>5, <1>6, <1>7, <1>8, <1>9 DEF S!Next

(* A reader of state.json always gets one whole snapshot, no older than    *)
(* the one before, and no temporary file stays behind but those of a       *)
(* daemon that died and those whose removal failed, wherever a write fails *)
(* or is cut off (Writer.Write).                                           *)
THEOREM StateFileReplacedAtomically == S!Spec => []ReplacedAtomically
<1>1. WriterInv => ReplacedAtomically
  BY DEF WriterInv, WriterType, ReaderHoldsWhole, Whole, ReplacedAtomically,
         S!ReplacedAtomically, S!ReadersSeeWholeStates
<1> QED BY WriterInit, WriterNext, <1>1, PTL DEF S!Spec

(***************************************************************************)
(* The conntrack flush.                                                    *)
(***************************************************************************)
FlushType ==
    /\ entries \subseteq Entries
    /\ flush \in {"next", "delete", "dump", "entries", "done"}
    /\ pos \in Nat \ {0}
    /\ flush \in {"delete", "dump", "entries"} => pos <= Len(F!Addrs)
    /\ flushed \in [1..Len(F!Addrs) -> {"none", "ok", "error"}]

(* The filter is used for IPv4 only.                                       *)
FilterIsV4 == flush = "delete" => FamilyOf[F!Addrs[pos]] = "v4"

(* What was there when the flush began is there, was deleted or expired,   *)
(* and what was deleted or expired is gone.                                *)
DeletedIsGone ==
    /\ initial \subseteq entries \cup removed \cup expired
    /\ entries \cap (removed \cup expired) = {}
    /\ dumped \subseteq removed \cup expired /\ IsFiniteSet(dumped)

(* What a dump returned matches its address and was not counted before.    *)
(* After a complete dump only that can still be there from the beginning.  *)
ListedMatches ==
    flush = "entries" =>
        /\ listed \subseteq F!Matches(F!Addrs[pos]) \cap (entries \cup expired)
        /\ listed \cap dumped = {}
        /\ dump = "complete" => entries \cap initial \cap F!Matches(F!Addrs[pos]) \subseteq listed

FlushInv ==
    /\ FlushType /\ FilterIsV4 /\ DeletedIsGone /\ ListedMatches
    /\ F!SparesOtherFlows /\ F!SuccessIsComplete
    /\ counted = Cardinality(dumped)

LEMMA FlushCardinality == \A X : F!Cardinality(X) = Cardinality(X)
BY DEF F!Cardinality, Cardinality

LEMMA FlushFinite == IsFiniteSet(Entries)
<1>1. F!IsFiniteSet(Entries)
  BY EffectsAssumption DEF F!FlushAssumption
<1> QED BY <1>1 DEF F!IsFiniteSet, IsFiniteSet

LEMMA FlushAddrs ==
    /\ Len(F!Addrs) \in Nat
    /\ \A i \in 1..Len(F!Addrs) : FamilyOf[F!Addrs[i]] \in {"v4", "v6"}
BY EffectsAssumption DEF F!FlushAssumption

LEMMA FlushInit == F!Init => FlushInv
BY FlushAddrs, FS_EmptySet
DEF F!Init, FlushInv, FlushType, FilterIsV4, DeletedIsGone, ListedMatches, F!SparesOtherFlows,
    F!SuccessIsComplete

(* Deleting more leaves the earlier successes as complete as they were.    *)
LEMMA SuccessStays ==
    ASSUME FlushInv, entries' \subseteq entries, initial' = initial, flushed' = flushed
    PROVE  F!SuccessIsComplete'
BY DEF FlushInv, FlushType, F!SuccessIsComplete

(* So does concluding an address, whose own matches must be gone if it     *)
(* succeeded.                                                              *)
LEMMA SuccessConcluded ==
    ASSUME FlushInv, entries' \subseteq entries, initial' = initial,
           NEW o, F!Conclude(o),
           o = "ok" => entries' \cap initial \cap F!Matches(F!Addrs[pos]) = {}
    PROVE  F!SuccessIsComplete'
BY DEF FlushInv, FlushType, F!SuccessIsComplete, F!Conclude

(* One entry's delete keeps the books.                                     *)
LEMMA DeleteKeeps ==
    ASSUME FlushInv, NEW e \in listed, F!DeleteEntry(e)
    PROVE  FlushInv'
<1>1. /\ flush = "entries" /\ pos <= Len(F!Addrs) /\ listed' = listed \ {e}
      /\ entries' = entries \ {e} /\ removed' = removed \cup (entries \cap {e})
      /\ dumped' = dumped \cup {e} /\ counted' = counted + 1
      /\ UNCHANGED <<flush, pos, dump, flushed, initial, expired>>
  BY DEF F!DeleteEntry, FlushInv, FlushType
<1>2. /\ IsFiniteSet(dumped) /\ e \notin dumped
      /\ e \in F!Matches(F!Addrs[pos]) /\ e \in entries \cup expired
  BY <1>1 DEF FlushInv, DeletedIsGone, ListedMatches
<1>3. IsFiniteSet(dumped') /\ counted' = Cardinality(dumped')
  BY <1>1, <1>2, FS_AddElement DEF FlushInv
<1>4. DeletedIsGone' /\ ListedMatches'
  <2>1. dumped' \subseteq removed' \cup expired'
    BY <1>1, <1>2 DEF FlushInv, DeletedIsGone
  <2> QED BY <1>1, <1>3, <2>1 DEF FlushInv, DeletedIsGone, ListedMatches, F!Matches
<1>5. F!SparesOtherFlows'
  <2>1. F!Matches(F!Addrs[pos]) \in {F!Matches(F!Addrs[i]) : i \in 1..Len(F!Addrs)}
    BY <1>1, FlushAddrs DEF FlushInv, FlushType
  <2>2. removed' \subseteq removed \cup {e}
    BY <1>1
  <2> QED BY <1>2, <2>1, <2>2 DEF FlushInv, F!SparesOtherFlows
<1>6. FlushType' /\ FilterIsV4'
  BY <1>1 DEF FlushInv, FlushType, FilterIsV4
<1>7. F!SuccessIsComplete'
  BY <1>1, SuccessStays
<1> QED BY <1>3, <1>4, <1>5, <1>6, <1>7 DEF FlushInv

(* An address is concluded in its bounds.                                  *)
LEMMA ConcludeType ==
    ASSUME FlushInv, pos <= Len(F!Addrs), NEW o \in {"ok", "error"}, F!Conclude(o),
           entries' \subseteq entries
    PROVE  FlushType' /\ FilterIsV4'
BY FlushAddrs DEF FlushInv, FlushType, FilterIsV4, F!Conclude

LEMMA FlushStep == FlushInv /\ [F!Next]_F!vars => FlushInv'
<1> SUFFICES ASSUME FlushInv, [F!Next]_F!vars PROVE FlushInv'
  OBVIOUS
<1> DEFINE addr == F!Addrs[pos]
<1>1. CASE \E e \in Entries : F!NewFlow(e) \/ F!Expire(e)
  <2>1. PICK e \in Entries : F!NewFlow(e) \/ F!Expire(e)
    BY <1>1
  <2>2. UNCHANGED <<flush, pos, listed, dump, counted, flushed, initial, removed, dumped>>
    BY <2>1 DEF F!NewFlow, F!Expire, F!flow
  <2>3. CASE F!NewFlow(e)
    <3>1. /\ e \notin entries \cup removed \cup expired /\ entries' = entries \cup {e}
          /\ expired' = expired
      BY <2>3 DEF F!NewFlow, F!flow
    <3>2. e \notin initial
      BY <3>1 DEF FlushInv, DeletedIsGone
    <3>3. F!SuccessIsComplete'
      BY <2>2, <3>1, <3>2 DEF FlushInv, F!SuccessIsComplete
    <3>4. FlushType' /\ FilterIsV4' /\ DeletedIsGone' /\ F!SparesOtherFlows'
      BY <2>2, <3>1 DEF FlushInv, FlushType, FilterIsV4, DeletedIsGone, F!SparesOtherFlows
    <3>5. ListedMatches'
      BY <2>2, <3>1, <3>2 DEF FlushInv, ListedMatches, F!Matches
    <3> QED BY <2>2, <3>3, <3>4, <3>5 DEF FlushInv
  <2>4. CASE F!Expire(e)
    <3>1. e \in entries /\ entries' = entries \ {e} /\ expired' = expired \cup {e}
      BY <2>4 DEF F!Expire
    <3>2. F!SuccessIsComplete'
      BY <2>2, <3>1, SuccessStays
    <3>3. FlushType' /\ FilterIsV4' /\ DeletedIsGone' /\ F!SparesOtherFlows'
      BY <2>2, <3>1 DEF FlushInv, FlushType, FilterIsV4, DeletedIsGone, F!SparesOtherFlows
    <3>4. ListedMatches'
      BY <2>2, <3>1 DEF FlushInv, ListedMatches, F!Matches
    <3> QED BY <2>2, <3>2, <3>3, <3>4 DEF FlushInv
  <2> QED BY <2>1, <2>3, <2>4
<1>2. CASE F!Cancel \/ F!Unresolved \/ UNCHANGED F!vars
  <2>1. /\ UNCHANGED <<entries, pos, listed, dump, counted, flushed, initial, removed, expired,
                       dumped>>
        /\ flush' \in {flush, "done"}
    BY <1>2 DEF F!Cancel, F!Unresolved, F!vars, F!flow
  <2> QED BY <2>1 DEF FlushInv, FlushType, FilterIsV4, DeletedIsGone, ListedMatches,
                      F!SparesOtherFlows, F!SuccessIsComplete, F!Matches
<1>3. CASE F!FlushNext
  <2>1. /\ UNCHANGED <<entries, initial, removed, expired>> /\ dumped' = {} /\ counted' = 0
        /\ flush' # "entries"
    BY <1>3 DEF F!FlushNext, F!flow, F!Conclude
  <2>2. DeletedIsGone' /\ ListedMatches' /\ counted' = Cardinality(dumped') /\ F!SparesOtherFlows'
    BY <2>1, FS_EmptySet DEF FlushInv, DeletedIsGone, ListedMatches, F!SparesOtherFlows
  <2>3. CASE flushed' = flushed /\ pos' = pos
    <3>1. F!SuccessIsComplete'
      BY <2>1, <2>3, SuccessStays
    <3>2. FlushType' /\ FilterIsV4'
      BY <1>3, <2>1, <2>3, FlushAddrs
      DEF F!FlushNext, FlushInv, FlushType, FilterIsV4, F!UsesFilter, F!Addr, F!Conclude
    <3> QED BY <2>2, <3>1, <3>2 DEF FlushInv
  <2>4. CASE pos <= Len(F!Addrs) /\ F!Conclude("error")
    <3>1. F!SuccessIsComplete'
      BY <2>1, <2>4, SuccessConcluded
    <3> QED BY <2>1, <2>2, <2>4, <3>1, ConcludeType DEF FlushInv
  <2> QED BY <1>3, <2>3, <2>4, FlushAddrs DEF F!FlushNext, FlushInv, FlushType
<1>4. CASE F!FilteredDelete
  <2>0. /\ flush = "delete" /\ pos <= Len(F!Addrs) /\ F!KernelFilter(addr) = F!Matches(addr)
        /\ UNCHANGED <<counted, dumped, initial, expired>> /\ flush' # "entries"
    BY <1>4 DEF F!FilteredDelete, FlushInv, FlushType, FilterIsV4, F!KernelFilter, F!Conclude
  <2>1. CASE /\ entries' = entries \ F!KernelFilter(addr)
             /\ removed' = removed \cup (entries \cap F!KernelFilter(addr))
             /\ F!Conclude("ok")
    <3>1. DeletedIsGone' /\ ListedMatches'
      BY <2>0, <2>1 DEF FlushInv, DeletedIsGone, ListedMatches
    <3>2. F!SparesOtherFlows'
      <4>1. F!Matches(addr) \in {F!Matches(F!Addrs[i]) : i \in 1..Len(F!Addrs)}
        BY <2>0, FlushAddrs DEF FlushInv, FlushType
      <4> QED BY <2>0, <2>1, <4>1 DEF FlushInv, F!SparesOtherFlows
    <3>3. F!SuccessIsComplete'
      BY <2>0, <2>1, SuccessConcluded
    <3>4. FlushType' /\ FilterIsV4'
      BY <2>0, <2>1, ConcludeType
    <3> QED BY <2>0, <3>1, <3>2, <3>3, <3>4 DEF FlushInv
  <2>2. CASE flush' = "dump" /\ UNCHANGED <<entries, removed, pos, flushed>>
    BY <2>0, <2>2 DEF FlushInv, FlushType, FilterIsV4, DeletedIsGone, ListedMatches,
                      F!SparesOtherFlows, F!SuccessIsComplete
  <2>3. CASE F!Conclude("error") /\ UNCHANGED <<entries, removed>>
    <3>1. F!SuccessIsComplete'
      BY <2>0, <2>3, SuccessConcluded
    <3>2. FlushType' /\ FilterIsV4'
      BY <2>0, <2>3, ConcludeType
    <3> QED BY <2>0, <2>3, <3>1, <3>2 DEF FlushInv, DeletedIsGone, ListedMatches, F!SparesOtherFlows
  <2> QED BY <1>4, <2>1, <2>2, <2>3 DEF F!FilteredDelete, F!Addr
<1>5. CASE F!DumpStopped \/ F!AttemptEnds
  <2>1. /\ flush \in {"dump", "entries"} /\ pos <= Len(F!Addrs)
        /\ UNCHANGED <<entries, counted, initial, removed, expired, dumped>>
        /\ flush' # "entries"
    BY <1>5 DEF F!DumpStopped, F!AttemptEnds, F!AfterInterrupt, F!RetryCount, F!Conclude, F!flow,
                FlushInv, FlushType
  <2>2. DeletedIsGone' /\ ListedMatches' /\ F!SparesOtherFlows' /\ counted' = Cardinality(dumped')
    BY <2>1 DEF FlushInv, DeletedIsGone, ListedMatches, F!SparesOtherFlows
  <2>3. CASE F!Conclude("error")
    <3>1. F!SuccessIsComplete'
      BY <2>1, <2>3, SuccessConcluded
    <3> QED BY <2>1, <2>2, <2>3, <3>1, ConcludeType DEF FlushInv
  <2>4. CASE F!AttemptEnds /\ dump = "complete" /\ F!Conclude("ok")
    <3>1. entries' \cap initial \cap F!Matches(addr) = {}
      BY <2>1, <2>4 DEF F!AttemptEnds, FlushInv, ListedMatches
    <3>2. F!SuccessIsComplete'
      BY <2>1, <2>4, <3>1, SuccessConcluded
    <3> QED BY <2>1, <2>2, <2>4, <3>2, ConcludeType DEF FlushInv
  <2>5. CASE flush' = "dump" /\ UNCHANGED <<pos, flushed>>
    <3>1. F!SuccessIsComplete'
      BY <2>1, <2>5, SuccessStays
    <3> QED BY <2>1, <2>2, <2>5, <3>1 DEF FlushInv, FlushType, FilterIsV4
  <2> QED BY <1>5, <2>3, <2>4, <2>5 DEF F!DumpStopped, F!AttemptEnds, F!AfterInterrupt
<1>6. CASE F!Dump
  <2>1. /\ flush = "dump" /\ flush' = "entries" /\ listed' \subseteq entries \cap F!Matches(addr)
        /\ dump' = "complete" => listed' = entries \cap F!Matches(addr)
        /\ UNCHANGED <<entries, pos, counted, flushed, initial, removed, expired, dumped>>
    BY <1>6 DEF F!Dump, F!Addr, F!flow
  <2>2. ListedMatches'
    BY <2>1 DEF FlushInv, DeletedIsGone, ListedMatches, F!Matches
  <2> QED BY <2>1, <2>2 DEF FlushInv, FlushType, FilterIsV4, DeletedIsGone, F!SparesOtherFlows,
                            F!SuccessIsComplete
<1>7. CASE \E e \in listed : F!DeleteFails(e)
  <2>1. /\ listed' \subseteq listed
        /\ dump' # "complete"
        /\ UNCHANGED <<flush, entries, pos, counted, flushed, initial, removed, expired, dumped>>
    BY <1>7 DEF F!DeleteFails, F!flow
  <2>2. ListedMatches'
    BY <2>1 DEF FlushInv, ListedMatches, F!Matches
  <2> QED BY <2>1, <2>2 DEF FlushInv, FlushType, FilterIsV4, DeletedIsGone, F!SparesOtherFlows,
                            F!SuccessIsComplete
<1> QED BY <1>1, <1>2, <1>3, <1>4, <1>5, <1>6, <1>7, DeleteKeeps DEF F!Next, F!Flush

(* The flush deletes the vacated WAN's entries and no others, claims no    *)
(* more than it did, and counts what it did, for every list of addresses   *)
(* and every table, while flows come up and expire, dumps are interrupted, *)
(* deletes fail and the daemon stops (FlushBySource, dumpFlush).           *)
THEOREM FlushDeletesExactly == F!Spec => []FlushIsExact
<1>1. FlushInv => FlushIsExact
  BY FlushCardinality
  DEF FlushInv, DeletedIsGone, FlushIsExact, F!FlushIsExact, F!CountsEveryAttempt
<1> QED BY FlushInit, FlushStep, <1>1, PTL DEF F!Spec

(***************************************************************************)
(* Hook delivery.                                                          *)
(***************************************************************************)
HookType ==
    /\ mu \in BOOLEAN /\ closed \in BOOLEAN /\ cancelled \in BOOLEAN
    /\ submitted \in Nat
    /\ jobs \in Seq(Nat) /\ accepted \in Seq(Nat) /\ begun \in Seq(Nat)
    /\ worker \in {"none", "select", "files", "wait", "drain", "done"}
    /\ proc \in {"none", "forked", "grouped", "exited", "reaped"}
    /\ child \in {"none", "group", "escaped"} /\ late \in BOOLEAN

(* What was accepted was taken up or is queued.                            *)
NothingLost == accepted = begun \o jobs

(* Notify holds the mutex while it sends, on a channel that was open when  *)
(* it took it, to a worker that was started.                               *)
SendsUnderMutex ==
    notifier = "sending" => mu /\ ~closed /\ worker # "none"

(* Only a worker that waits for its Hook has a process that is not reaped. *)
ReapedOutsideWait == worker # "wait" => proc \in {"none", "reaped"}

(* Before the first notification there is nothing; a worker that is done   *)
(* was stopped, or has emptied a channel nobody can send on.               *)
WorkerEnds ==
    /\ worker = "none" => jobs = <<>> /\ begun = <<>>
    /\ worker = "done" /\ ~cancelled => closed /\ jobs = <<>>
    /\ closer # "idle" => closed
    /\ closer = "returned" => worker \in {"none", "done"}

(* A watcher that has not acted has a process to act on.  While the group  *)
(* kill has missed, a child of the group is one of a Hook that entered it  *)
(* since.                                                                  *)
WatchesProcess ==
    /\ watch \in {"on", "missed"} => proc # "none"
    /\ watch = "missed" /\ (proc = "grouped" \/ child = "group") => late
    /\ proc = "forked" => child = "none"
    /\ KillReachesGroup

HookInv ==
    /\ HookType /\ NothingLost /\ SendsUnderMutex /\ ReapedOutsideWait /\ WorkerEnds
    /\ WatchesProcess

LEMMA HookInit == Init => HookInv
<1> SUFFICES ASSUME Init PROVE HookInv
  OBVIOUS
<1>1. <<>> \in Seq(Nat) /\ <<>> = <<>> \o <<>>
  BY EmptySeq, ConcatEmptySeq
<1> QED BY <1>1 DEF Init, HookInv, HookType, NothingLost, SendsUnderMutex, ReapedOutsideWait,
                    WorkerEnds, WatchesProcess, KillReachesGroup

(* The queue and the books of it move only by a send and a take.           *)
LEMMA QueueMoves ==
    ASSUME HookInv, NotifySend \/ Take
    PROVE  /\ jobs' \in Seq(Nat) /\ accepted' \in Seq(Nat) /\ begun' \in Seq(Nat)
           /\ NothingLost'
<1>0. /\ submitted \in Nat /\ jobs \in Seq(Nat) /\ begun \in Seq(Nat)
      /\ accepted = begun \o jobs
  BY DEF HookInv, HookType, NothingLost
<1>1. CASE NotifySend /\ jobs' = jobs
  BY <1>0, <1>1 DEF NotifySend, HookInv, HookType, NothingLost, event
<1>2. CASE NotifySend /\ jobs' # jobs
  <2>1. /\ jobs' = Append(jobs, submitted) /\ accepted' = Append(accepted, submitted)
        /\ begun' = begun
    BY <1>2 DEF NotifySend, Enqueue, event
  <2>2. /\ jobs' \in Seq(Nat) /\ accepted' \in Seq(Nat)
        /\ jobs' = jobs \o <<submitted>> /\ accepted' = accepted \o <<submitted>>
    BY <1>0, <2>1, AppendProperties, AppendIsConcat DEF HookInv, HookType
  <2>3. <<submitted>> \in Seq(Nat)
    BY <1>0
  <2>4. (begun \o jobs) \o <<submitted>> = begun \o (jobs \o <<submitted>>)
    BY <1>0, <2>3, ConcatAssociative
  <2> QED BY <1>0, <2>1, <2>2, <2>4 DEF NothingLost
<1>3. CASE Take
  <2>1. /\ jobs # <<>> /\ jobs' = Tail(jobs) /\ begun' = Append(begun, Head(jobs))
        /\ accepted' = accepted
    BY <1>3 DEF Take
  <2>2. Head(jobs) \in Nat /\ Tail(jobs) \in Seq(Nat) /\ <<Head(jobs)>> \in Seq(Nat)
    BY <1>0, <2>1, HeadTailProperties
  <2>3. begun' \in Seq(Nat) /\ begun' = begun \o <<Head(jobs)>>
    BY <1>0, <2>1, <2>2, AppendProperties, AppendIsConcat
  <2>4. jobs = <<Head(jobs)>> \o Tail(jobs)
    BY <1>0, <2>1
  <2>5. (begun \o <<Head(jobs)>>) \o Tail(jobs) = begun \o (<<Head(jobs)>> \o Tail(jobs))
    BY <1>0, <2>2, ConcatAssociative
  <2> QED BY <1>0, <2>1, <2>2, <2>3, <2>4, <2>5 DEF NothingLost, HookInv, HookType
<1> QED BY <1>1, <1>2, <1>3

LEMMA HookNext == HookInv /\ [Next]_vars => HookInv'
<1> SUFFICES ASSUME HookInv, [Next]_vars PROVE HookInv'
  OBVIOUS
<1> USE DEF HookInv, HookType, SendsUnderMutex, ReapedOutsideWait, WorkerEnds, WatchesProcess,
            KillReachesGroup, queue, event, process
<1>1. CASE NotifyEnter \/ Cancel \/ CloseEnter \/ CloseReturn
  <2>1. CASE NotifyEnter
    <3>1. CASE closed \/ cancelled
      BY <2>1, <3>1 DEF NotifyEnter, NothingLost
    <3>2. CASE ~closed /\ ~cancelled
      <4>1. /\ mu' = TRUE /\ notifier' = "sending" /\ submitted' = submitted + 1
            /\ worker' = IF worker = "none" THEN "select" ELSE worker
            /\ UNCHANGED <<cancelled, closed, jobs, closer, accepted, begun, process>>
        BY <2>1, <3>2 DEF NotifyEnter
      <4>2. HookType' /\ NothingLost'
        BY <4>1 DEF NothingLost
      <4>3. SendsUnderMutex' /\ ReapedOutsideWait' /\ WatchesProcess'
        BY <3>2, <4>1
      <4>4. WorkerEnds'
        BY <3>2, <4>1
      <4> QED BY <4>2, <4>3, <4>4
    <3> QED BY <3>1, <3>2
  <2>2. CASE Cancel
    BY <2>2 DEF Cancel, NothingLost
  <2>3. CASE CloseEnter
    BY <2>3 DEF CloseEnter, NothingLost
  <2>4. CASE CloseReturn
    BY <2>4 DEF CloseReturn, NothingLost
  <2> QED BY <1>1, <2>1, <2>2, <2>3, <2>4
<1>2. CASE NotifySend
  <2>1. UNCHANGED <<submitted, closed, closer, cancelled, worker, process>> /\ notifier' = "idle"
    BY <1>2 DEF NotifySend
  <2>2. worker # "none" /\ ~closed /\ closer = "idle" /\ (worker = "done" => cancelled)
    BY <1>2 DEF NotifySend
  <2>3. /\ mu' = FALSE
        /\ jobs' \in Seq(Nat) /\ accepted' \in Seq(Nat) /\ begun' \in Seq(Nat) /\ NothingLost'
    BY <1>2, QueueMoves DEF NotifySend
  <2> QED BY <2>1, <2>2, <2>3
<1>3. CASE Take
  <2>1. /\ UNCHANGED <<submitted, mu, notifier, closed, closer, cancelled, process>>
        /\ worker = "select" /\ worker' \in {"select", "files"}
    BY <1>3 DEF Take
  <2> QED BY <1>3, <2>1, QueueMoves
<1>4. CASE Stop \/ EndEvent \/ StartFails
  <2>1. CASE Stop
    BY <2>1 DEF Stop, Stops, NothingLost
  <2>2. CASE EndEvent
    BY <2>2 DEF EndEvent, NothingLost
  <2>3. CASE StartFails
    BY <2>3 DEF StartFails, Startable, NothingLost
  <2> QED BY <1>4, <2>1, <2>2, <2>3
<1>5. CASE Start
  BY <1>5 DEF Start, Startable, NothingLost
<1>6. CASE Deadline \/ SetGroup \/ ChildExits \/ Reap
  <2>1. UNCHANGED <<cancelled, queue, worker, event, watch>>
    BY <1>6 DEF Deadline, SetGroup, ChildExits, Reap
  <2>2. CASE Deadline
    BY <2>1, <2>2 DEF Deadline, NothingLost
  <2>3. CASE SetGroup
    <3>1. late' \in BOOLEAN /\ (watch = "missed" => late')
      BY <2>3, Zenon DEF SetGroup
    <3>2. proc = "forked" /\ proc' = "grouped" /\ child = "none" /\ child' = "none"
      BY <2>3 DEF SetGroup
    <3> QED BY <2>1, <3>1, <3>2 DEF NothingLost
  <2>4. CASE ChildExits
    BY <2>1, <2>4 DEF ChildExits, NothingLost
  <2>5. CASE Reap
    BY <2>1, <2>5 DEF Reap, NothingLost
  <2> QED BY <1>6, <2>2, <2>3, <2>4, <2>5
<1>7. CASE (\E how \in {"group", "escaped"} : Spawn(how)) \/ \E c \in {0, 1} : HookExits(c)
  <2>1. UNCHANGED <<cancelled, queue, worker, event, watch, late>>
    BY <1>7 DEF Spawn, HookExits
  <2>2. /\ proc = "grouped" /\ proc' \in {"grouped", "exited"}
        /\ child' \in {"none", "group", "escaped"}
    BY <1>7 DEF Spawn, HookExits
  <2> QED BY <2>1, <2>2 DEF NothingLost
<1>8. CASE CancelHook
  <2>1. CASE GroupKill
    BY <2>1 DEF GroupKill, GroupExists, NothingLost
  <2>2. CASE ProcKill
    BY <2>2 DEF ProcKill, NothingLost
  <2> QED BY <1>8, <2>1, <2>2 DEF CancelHook
<1>9. CASE HandOver
  BY <1>9 DEF HandOver, NothingLost
<1>10. CASE Drained \/ WaitDelay
  <2>1. /\ worker = "drain" /\ worker' = "files"
        /\ UNCHANGED <<cancelled, queue, begun, proc, child, watch, late>>
    BY <1>10 DEF Drained, WaitDelay, Return
  <2> QED BY <2>1 DEF NothingLost
<1>11. CASE UNCHANGED vars
  BY <1>11 DEF vars, NothingLost
<1> QED BY <1>1, <1>2, <1>3, <1>4, <1>5, <1>6, <1>7, <1>8, <1>9, <1>10, <1>11
        DEF Next, Hook, Worker

(* A sequence is a prefix of what it begins.                               *)
LEMMA ConcatHasPrefix ==
    ASSUME NEW s \in Seq(Nat), NEW t \in Seq(Nat)
    PROVE  IsPrefix(s, s \o t)
<1>1. Len(s) \in Nat /\ Len(t) \in Nat /\ Len(s \o t) = Len(s) + Len(t)
  BY LenProperties, ConcatProperties
<1>2. CASE Len(s) = 0
  BY <1>1, <1>2, SubSeqEmpty DEF IsPrefix
<1>3. CASE Len(s) # 0
  <2>1. SubSeq(s \o t, 1, Len(s)) = SubSeq(s, 1, Len(s))
    BY <1>1, <1>3, SubSeqOfConcat1
  <2> QED BY <1>1, <2>1 DEF IsPrefix
<1> QED BY <1>2, <1>3

(* Hooks are delivered in the order of the Decisions, none skipped, none   *)
(* twice, without a send on a closed channel, and Close returns only when  *)
(* all is delivered and no Hook runs, for every size of the queue and      *)
(* every interleaving of Notify, Close, the worker and shutdown            *)
(* (HookNotifier).                                                         *)
THEOREM HookQueueIsSound == Spec => []QueueIsSound
<1>1. ASSUME HookInv PROVE QueueIsSound
  <2>1. DeliveredInOrder
    BY <1>1, ConcatHasPrefix DEF HookInv, HookType, NothingLost, DeliveredInOrder
  <2>2. CloseFinishes
    <3>1. jobs = <<>> => begun = accepted
      BY <1>1, ConcatEmptySeq DEF HookInv, HookType, NothingLost
    <3> QED BY <1>1, <3>1 DEF HookInv, WorkerEnds, ReapedOutsideWait, CloseFinishes
  <2> QED BY <1>1, <2>1, <2>2 DEF QueueIsSound, NoSendOnClosed, HookInv, SendsUnderMutex
<1> QED BY HookInit, HookNext, <1>1, PTL DEF Spec

(* A Hook that was killed is dead, and no process of its group outlives    *)
(* it, for every interleaving of the child's steps with the two kill       *)
(* calls, but what a Hook started that entered its group between the two   *)
(* (cancelHook).                                                           *)
THEOREM KillsReachTheGroup == Spec => []KillReachesGroup
<1>1. HookInv => KillReachesGroup
  BY DEF HookInv, WatchesProcess
<1> QED BY HookInit, HookNext, <1>1, PTL DEF Spec
=============================================================================
