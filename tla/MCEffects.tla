----------------------------- MODULE MCEffects -----------------------------
(***************************************************************************)
(* The packages state and apply for TLC: Hook delivery, the replacement of *)
(* state.json, the fwmark rules and the conntrack flush.  They share       *)
(* nothing, so that the behaviours in which only one part moves stand for  *)
(* every interleaving.                                                     *)
(***************************************************************************)
EXTENDS HookDelivery, TLC

CONSTANTS
    a4, a6, ll, other, e1, e2, e3, e4,
    Entries, IfaceAddrs, NotGlobal, FamilyOf, ReplyDst, EntryFamily, DumpAttempts,
    Groups, Families, MaxPref,
    MaxWrites, NoFile

VARIABLES
    part,  \* the one that moves
    filtered, entries, stopped, flush, pos, attempt, listed, dump, counted, flushed, initial,
    removed, expired, dumped,
    rules, phase, todo, cur, matches,
    content, used, temps, path, pc, tmp, version, left, reader, opened, seen, last

flushVars == <<filtered, entries, stopped, flush, pos, attempt, listed, dump, counted, flushed,
               initial, removed, expired, dumped>>
ruleVars == <<rules, phase, todo, cur, matches>>
fileVars == <<content, used, temps, path, pc, tmp, version, left, reader, opened, seen, last>>

F == INSTANCE ConntrackFlush WITH
         cancelled <- stopped, pc <- flush, at <- pos, outcome <- flushed
R == INSTANCE Rules
S == INSTANCE StateWriter

ASSUME EffectsAssumption == F!FlushAssumption /\ R!RulesAssumption /\ S!WriterAssumption

(* Two global addresses of the vacated WAN, one flow on the IPv4 one, two  *)
(* on the IPv6 one, and one IPv6 flow elsewhere.                           *)
TwoGlobal == <<a4, ll, a6>>
AddrFamily == (a4 :> "v4") @@ (a6 :> "v6") @@ (ll :> "v6")
Destination == (e1 :> a4) @@ (e2 :> a6) @@ (e3 :> a6) @@ (e4 :> other)
FlowFamily == (e1 :> "v4") @@ (e2 :> "v6") @@ (e3 :> "v6") @@ (e4 :> "v6")

(* The parts that do not move: the ones that owe a step have ended.        *)
HooksEnded ==
    /\ cancelled = TRUE /\ closed = TRUE
    /\ mu = FALSE /\ notifier = "idle" /\ closer = "returned" /\ worker = "none"
    /\ submitted = MaxEvents /\ jobs = <<>> /\ accepted = <<>> /\ begun = <<>>
    /\ files = 0 /\ at = 1 /\ outcome = "none"
    /\ proc = "none" /\ code = 0 /\ child = "none"
    /\ deadline = FALSE /\ watch = "off" /\ late = FALSE /\ err = "none"

FlushEnded ==
    /\ filtered = TRUE /\ entries = {} /\ stopped = TRUE
    /\ flush = "done" /\ pos = 1 /\ attempt = 0 /\ listed = {} /\ dump = "complete" /\ counted = 0
    /\ flushed = [i \in 1..Len(F!Addrs) |-> "none"]
    /\ initial = {} /\ removed = {} /\ expired = {} /\ dumped = {}

RulesResting == rules = {} /\ cur = (CHOOSE s \in R!Slots : TRUE) /\ R!Init

EffectsInit ==
    \/ part = "hooks" /\ Init /\ FlushEnded /\ RulesResting /\ S!Init
    \/ part = "flush" /\ F!Init /\ HooksEnded /\ RulesResting /\ S!Init
    \/ part = "rules" /\ R!Init /\ HooksEnded /\ FlushEnded /\ S!Init
    \/ part = "file" /\ S!Init /\ HooksEnded /\ FlushEnded /\ RulesResting

EffectsNext ==
    /\ UNCHANGED part
    /\ \/ part = "hooks" /\ Next /\ UNCHANGED <<flushVars, ruleVars, fileVars>>
       \/ part = "flush" /\ F!Next /\ UNCHANGED <<vars, ruleVars, fileVars>>
       \/ part = "rules" /\ R!Next /\ UNCHANGED <<vars, flushVars, fileVars>>
       \/ part = "file" /\ S!Next /\ UNCHANGED <<vars, flushVars, ruleVars>>

EffectsSpec ==
    /\ EffectsInit /\ [][EffectsNext]_<<part, vars, flushVars, ruleVars, fileVars>>
    /\ Fairness
-----------------------------------------------------------------------------
(* The flush deletes what it should, and says what it did (ConntrackFlush). *)
FlushIsExact == F!FlushIsExact

(* After bootstrap every Group and Family has its one rule (Rules).        *)
OneRuleEach == R!OneRuleEach

(* A start disturbs no traffic and nobody else's rules (Rules).            *)
RulesUndisturbed == R!RulesUndisturbed

(* state.json is replaced as a whole or not at all (StateWriter).          *)
ReplacedAtomically == S!ReplacedAtomically
=============================================================================
