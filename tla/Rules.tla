------------------------------- MODULE Rules -------------------------------
(***************************************************************************)
(* The fwmark rules bootstrap ensures: for every Group and Family exactly  *)
(* one rule that routes all of the Group's mark to its table.  Rules       *)
(* outlive the daemon, earlier builds left copies behind, and a start may  *)
(* fail or be stopped between any two kernel calls.                        *)
(***************************************************************************)
EXTENDS Integers, FiniteSets

CONSTANTS
    Groups,    \* Group names; each has its own mark and table
    Families,  \* v4, v6
    MaxPref    \* preferences a rule can have, for model checking

RulesAssumption == MaxPref \in Nat \ {0}

Slots == Groups \X Families

(* A rule for a slot's mark and table.  A narrow one has another selector, *)
(* such as an iif, and routes only a part of the mark.                     *)
Rule == [slot : Slots, narrow : BOOLEAN, pref : 1..MaxPref]

VARIABLES
    rules,    \* kernel: the rules in place
    phase,    \* off, list, change, booted
    todo,     \* slots bootstrap has not reached
    cur,      \* the slot it is at
    matches   \* rules of that slot it found in its list

vars == <<rules, phase, todo, cur, matches>>

Init ==
    /\ rules \in SUBSET Rule
    /\ phase = "off" /\ todo = Slots
    /\ cur \in Slots /\ matches = {}

(* An administrator or another daemon adds a rule of its own.              *)
AddNarrow(r) ==
    /\ r.narrow /\ r \notin rules
    /\ rules' = rules \cup {r}
    /\ UNCHANGED <<phase, todo, cur, matches>>

Start ==
    /\ phase = "off"
    /\ phase' = "list"
    /\ todo' = Slots
    /\ UNCHANGED <<rules, cur, matches>>

(* Slip: any rule with the mark and the table counts as a match.           *)
MatchesRuleByMark(r, s) == r.slot = s

MatchesRule(r, s) == r.slot = s /\ ~r.narrow

(* EnsureRule lists the Family's rules.                                    *)
List ==
    /\ phase = "list" /\ todo # {}
    /\ \E s \in todo :
          /\ cur' = s
          /\ todo' = todo \ {s}
          /\ matches' = {r \in rules : MatchesRule(r, s)}
    /\ phase' = "change"
    /\ UNCHANGED rules

(* Slip: a rule is added without looking whether there is one.             *)
MissingAlways == TRUE

Missing == matches = {}

(* The kernel chooses the preference of the rule that is added.            *)
Add ==
    /\ phase = "change" /\ Missing
    /\ \E p \in 1..MaxPref :
          LET r == [slot |-> cur, narrow |-> FALSE, pref |-> p]
          IN  r \notin rules /\ rules' = rules \cup {r}
    /\ matches' = {}
    /\ phase' = "list"
    /\ UNCHANGED <<todo, cur>>

(* Slip: the copy with the highest preference number is kept.              *)
KeptHighest == CHOOSE r \in matches : \A q \in matches : q.pref <= r.pref

Kept == CHOOSE r \in matches : \A q \in matches : r.pref <= q.pref

(* The copies after the first go one by one, in the order of preference.   *)
(* The kernel takes the first rule that has what the request names, so the *)
(* delete is exact only while no narrower rule of the slot shares the      *)
(* copy's preference and precedes it; the model takes it to be exact.      *)
DeleteCopy ==
    /\ phase = "change" /\ Cardinality(matches) > 1
    /\ \E r \in matches \ {Kept} :
          /\ \A q \in matches \ {Kept} : r.pref <= q.pref
          /\ rules' = rules \ {r}
          /\ matches' = matches \ {r}
    /\ UNCHANGED <<phase, todo, cur>>

(* Slip: a slot is finished with copies left.                              *)
EnsuredOneMatch == matches # {}

Ensured == Cardinality(matches) = 1

NextSlot ==
    /\ phase = "change" /\ Ensured
    /\ phase' = "list"
    /\ matches' = {}
    /\ UNCHANGED <<rules, todo, cur>>

Booted ==
    /\ phase = "list" /\ todo = {}
    /\ phase' = "booted"
    /\ UNCHANGED <<rules, todo, cur, matches>>

(* A kernel call fails, the daemon is stopped or dies, or it is restarted  *)
(* later on.                                                               *)
Exit ==
    /\ phase # "off"
    /\ phase' = "off"
    /\ matches' = {}
    /\ UNCHANGED <<rules, todo, cur>>

Next ==
    \/ \E r \in Rule : AddNarrow(r)
    \/ Start \/ List \/ Add \/ DeleteCopy \/ NextSlot \/ Booted \/ Exit

Spec == Init /\ [][Next]_vars

Full(s) == {r \in rules : r.slot = s /\ ~r.narrow}
First(s) == CHOOSE r \in Full(s) : \A q \in Full(s) : r.pref <= q.pref
-----------------------------------------------------------------------------
(* A mark that is routed stays routed, by the same rule: of the copies the *)
(* one that decides is never removed, not even when the start fails        *)
(* between two deletions (ensureRuleVia).                                  *)
RoutingUnchanged ==
    [][\A s \in Slots : Full(s) # {} => Full(s)' # {} /\ First(s)' = First(s)]_vars

(* No rule of anyone else is removed (matchesRule, hasOtherSelector).      *)
SparesNarrowRules == [][\A r \in rules : r.narrow => r \in rules']_vars

(* However often the daemon is restarted, a start never adds a copy to a   *)
(* rule that is there (ensureRuleVia lists before it adds).                *)
NoNewCopies ==
    [][\A s \in Slots : Full(s) # {} => Cardinality(Full(s)') <= Cardinality(Full(s))]_vars

(* Starts, failed ones included, disturb no traffic: what is routed stays  *)
(* routed by its rule, nobody else's rule goes, and copies do not pile up  *)
(* (ensureRuleVia).                                                        *)
RulesUndisturbed == RoutingUnchanged /\ SparesNarrowRules /\ NoNewCopies

(* Once bootstrap has returned every Group and Family has its one rule     *)
(* (bootstrap, EnsureRule).                                                *)
OneRuleEach == phase = "booted" => \A s \in Slots : Cardinality(Full(s)) = 1
=============================================================================
