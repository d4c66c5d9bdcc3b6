------------------------------- MODULE Idents -------------------------------
(***************************************************************************)
(* AllocateIdents: every prober gets a 16-bit ICMP identifier, by which    *)
(* replies find their prober.  A key starts at a slot its hash names and   *)
(* takes the first free slot from there, around the end of the space.      *)
(***************************************************************************)
EXTENDS Integers, Sequences, FiniteSets

CONSTANTS
    Keys,       \* IdentKeys: a WAN and a Family
    IdentSpace  \* 2^16 in the code

ASSUME IdentsAssumption == IdentSpace \in Nat \ {0}

Ident == 0..(IdentSpace - 1)

VARIABLES
    keys,      \* the argument, in the sorted order of identKeysFor
    hash,      \* initialIdent, any function of the key
    next,      \* position of the key being placed
    offset,    \* the linear probe's distance from its start
    owners,    \* identifiers taken
    allocated, \* identifier of every key placed so far
    result     \* running, ok, tooMany, duplicate, exhausted

vars == <<keys, hash, next, offset, owners, allocated, result>>

Init ==
    /\ keys \in UNION {[1..n -> Keys] : n \in 0..(IdentSpace + 1)}
    /\ hash \in [Keys -> Ident]
    /\ next = 1 /\ offset = 0
    /\ owners = {}
    /\ allocated = [k \in {} |-> 0]
    /\ result = IF Len(keys) > IdentSpace THEN "tooMany" ELSE "running"

Placing == result = "running" /\ next <= Len(keys)

(* The key was placed before.                                              *)
Duplicate ==
    /\ Placing /\ offset = 0 /\ keys[next] \in DOMAIN allocated
    /\ result' = "duplicate"
    /\ UNCHANGED <<keys, hash, next, offset, owners, allocated>>

Searching == Placing /\ ~(offset = 0 /\ keys[next] \in DOMAIN allocated)

Candidate == (hash[keys[next]] + offset) % IdentSpace

(* Slip: the search does not look at the slots other keys own.             *)
TakenNever == FALSE

Taken == Candidate \in owners

(* Slip: the probe gives up at the end of the space instead of wrapping.   *)
SpaceExhaustedNoWrap(n) == hash[keys[next]] + n >= IdentSpace

SpaceExhausted(n) == n >= IdentSpace

ProbeNext ==
    /\ Searching /\ Taken
    /\ offset' = offset + 1
    /\ result' = IF SpaceExhausted(offset + 1) THEN "exhausted" ELSE "running"
    /\ UNCHANGED <<keys, hash, next, owners, allocated>>

Assign ==
    /\ Searching /\ ~Taken
    /\ owners' = owners \cup {Candidate}
    /\ allocated' = [k \in DOMAIN allocated \cup {keys[next]} |->
                        IF k = keys[next] THEN Candidate ELSE allocated[k]]
    /\ next' = next + 1
    /\ offset' = 0
    /\ UNCHANGED <<keys, hash, result>>

Finish ==
    /\ result = "running" /\ next > Len(keys)
    /\ result' = "ok"
    /\ UNCHANGED <<keys, hash, next, offset, owners, allocated>>

Next == Duplicate \/ ProbeNext \/ Assign \/ Finish
Spec == Init /\ [][Next]_vars /\ WF_vars(Next)
-----------------------------------------------------------------------------
Distinct == \A i, j \in 1..Len(keys) : keys[i] = keys[j] => i = j

(* Two probers never share an identifier, at any point of the allocation:  *)
(* a shared one would credit one WAN's replies to another WAN's window     *)
(* (AllocateIdents, owners).                                               *)
IdentsDistinct ==
    \A j, k \in DOMAIN allocated : allocated[j] = allocated[k] => j = k

(* The allocation succeeds exactly for a list of distinct keys that fits   *)
(* the space, and then gives every key an identifier: linear probing wraps *)
(* around and never gives up while a slot is free (AllocateIdents).  A     *)
(* list that just fills the space is accepted, although the comment on     *)
(* AllocateIdents calls more than 65535 keys an error.                     *)
AllocatesWhenItFits ==
    <>[]/\ result = "ok" <=> Distinct /\ Len(keys) <= IdentSpace
        /\ result = "ok" => DOMAIN allocated = {keys[i] : i \in 1..Len(keys)}
=============================================================================
