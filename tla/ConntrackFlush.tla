--------------------------- MODULE ConntrackFlush ---------------------------
(***************************************************************************)
(* flushVacatedConntrack and FlushBySource: for every global address of    *)
(* the vacated WAN, the conntrack entries whose replies go to it are       *)
(* removed, by one filtered delete where the kernel can (IPv4, from 6.12), *)
(* else by dumping the table and deleting each match.  Flows come up and   *)
(* expire meanwhile, and a table that changes interrupts a dump.           *)
(***************************************************************************)
EXTENDS Integers, FiniteSets, Sequences

CONSTANTS
    Entries,       \* conntrack entries that can exist
    IfaceAddrs,    \* the vacated WAN's addresses, in their order
    NotGlobal,     \* addresses that are link-local, loopback or multicast
    FamilyOf,      \* FamilyOf[a]: Family of address a
    ReplyDst,      \* ReplyDst[e]: the address replies of entry e go to
    EntryFamily,   \* EntryFamily[e]: Family of entry e
    DumpAttempts   \* dumpAttempts, 2 in the code

(* interfaceAddrs leaves out what no conntrack entry is pinned to.         *)
Addrs == SelectSeq(IfaceAddrs, LAMBDA a : a \notin NotGlobal)

FlushAssumption ==
    /\ DumpAttempts \in Nat \ {0}
    /\ IsFiniteSet(Entries)
    /\ Addrs \in Seq(DOMAIN FamilyOf)
    /\ \A a \in DOMAIN FamilyOf : FamilyOf[a] \in {"v4", "v6"}

VARIABLES
    filtered,   \* the kernel supports filtered deletes
    entries,    \* kernel: the conntrack table
    cancelled,  \* the daemon's context ended
    pc,         \* next, delete, dump, entries, done
    at,         \* position in Addrs
    attempt,    \* dumps of this address that were interrupted
    listed,     \* matches of the last dump that are still to be deleted
    dump,       \* complete, interrupted, failed: the last dump and its deletes
    counted,    \* FlushResult.Entries
    outcome,    \* per address: none, ok, error
    initial,    \* history: the table when the flush began
    removed,    \* history: entries the flush deleted
    expired,    \* history: entries that ended by themselves
    dumped      \* history: entries of this address a dump found and that are gone since

flow == <<initial, removed, expired>>
vars == <<filtered, entries, cancelled, pc, at, attempt, listed, dump, counted, outcome, flow,
          dumped>>

Addr == Addrs[at]
Matches(a) == {e \in Entries : EntryFamily[e] = FamilyOf[a] /\ ReplyDst[e] = a}

Init ==
    /\ filtered \in BOOLEAN
    /\ entries \in SUBSET Entries
    /\ cancelled = FALSE
    /\ pc = "next" /\ at = 1 /\ attempt = 0 /\ listed = {} /\ dump = "complete" /\ counted = 0
    /\ outcome = [i \in 1..Len(Addrs) |-> "none"]
    /\ initial = entries
    /\ removed = {} /\ expired = {} /\ dumped = {}

(* A flow comes up.  An entry that is gone does not return: its flow is    *)
(* then another one, on the new WAN.                                       *)
NewFlow(e) ==
    /\ e \notin entries \cup removed \cup expired
    /\ entries' = entries \cup {e}
    /\ UNCHANGED <<filtered, cancelled, pc, at, attempt, listed, dump, counted, outcome, flow,
                   dumped>>

(* An entry times out, or its connection ends.                             *)
Expire(e) ==
    /\ e \in entries
    /\ entries' = entries \ {e}
    /\ expired' = expired \cup {e}
    /\ UNCHANGED <<filtered, cancelled, pc, at, attempt, listed, dump, counted, outcome,
                   initial, removed, dumped>>

Cancel ==
    /\ ~cancelled
    /\ cancelled' = TRUE
    /\ UNCHANGED <<filtered, entries, pc, at, attempt, listed, dump, counted, outcome, flow,
                   dumped>>

(* The addresses cannot be resolved.                                       *)
Unresolved ==
    /\ pc = "next" /\ at = 1
    /\ pc' = "done"
    /\ UNCHANGED <<filtered, entries, cancelled, at, attempt, listed, dump, counted, outcome,
                   flow, dumped>>

(* An address is done, with its outcome, and the next one begins.          *)
Conclude(o) ==
    /\ outcome' = [outcome EXCEPT ![at] = o]
    /\ at' = at + 1
    /\ pc' = "next"

(* Slip: IPv6 entries are deleted with the kernel's filter too.            *)
UsesFilterAlways(a) == TRUE

UsesFilter(a) == FamilyOf[a] = "v4"

FlushNext ==
    /\ pc = "next"
    /\ IF at > Len(Addrs) THEN pc' = "done" /\ UNCHANGED <<at, outcome>>
       ELSE IF cancelled THEN Conclude("error")
       ELSE pc' = (IF UsesFilter(Addr) THEN "delete" ELSE "dump") /\ UNCHANGED <<at, outcome>>
    /\ attempt' = 0 /\ counted' = 0 /\ dumped' = {}
    /\ UNCHANGED <<filtered, entries, cancelled, listed, dump, flow>>

(* What one filtered delete removes: up to Linux 7.3 the kernel's IPv6     *)
(* match is inverted.                                                      *)
KernelFilter(a) ==
    IF FamilyOf[a] = "v4" THEN Matches(a)
    ELSE {e \in Entries : EntryFamily[e] = "v6" /\ e \notin Matches(a)}

FilteredDelete ==
    /\ pc = "delete"
    /\ \/ /\ filtered
          /\ entries' = entries \ KernelFilter(Addr)
          /\ removed' = removed \cup (entries \cap KernelFilter(Addr))
          /\ Conclude("ok")
       \/ /\ ~filtered
          /\ pc' = "dump"
          /\ UNCHANGED <<entries, removed, at, outcome>>
       \/ /\ Conclude("error")
          /\ UNCHANGED <<entries, removed>>
    /\ UNCHANGED <<filtered, cancelled, attempt, listed, dump, counted, initial, expired,
                   dumped>>

(* A dump returns the matches of its moment, an interrupted one some of    *)
(* them; what it returned is deleted either way.  Any other failure        *)
(* returns nothing.                                                        *)
Dump ==
    /\ pc = "dump" /\ ~cancelled
    /\ \/ dump' = "complete" /\ listed' = entries \cap Matches(Addr)
       \/ dump' = "interrupted" /\ listed' \in SUBSET (entries \cap Matches(Addr))
       \/ dump' = "failed" /\ listed' = {}
    /\ pc' = "entries"
    /\ UNCHANGED <<filtered, entries, cancelled, at, attempt, counted, outcome, flow, dumped>>

DumpStopped ==
    /\ pc = "dump" /\ cancelled
    /\ Conclude("error")
    /\ UNCHANGED <<filtered, entries, cancelled, attempt, listed, dump, counted, flow, dumped>>

(* One delete per entry the dump returned.  An entry that expired since    *)
(* is counted as if it had been deleted.                                   *)
DeleteEntry(e) ==
    /\ pc = "entries" /\ e \in listed
    /\ listed' = listed \ {e}
    /\ entries' = entries \ {e}
    /\ removed' = removed \cup (entries \cap {e})
    /\ dumped' = dumped \cup {e}
    /\ counted' = counted + 1
    /\ UNCHANGED <<filtered, cancelled, pc, at, attempt, dump, outcome, initial, expired>>

(* A failed delete does not stop the others.  Of an interrupted dump it is *)
(* still the interruption that dumpFlush goes by.                          *)
DeleteFails(e) ==
    /\ pc = "entries" /\ e \in listed \cap entries
    /\ listed' = listed \ {e}
    /\ dump' = IF dump = "complete" THEN "failed" ELSE dump
    /\ UNCHANGED <<filtered, entries, cancelled, pc, at, attempt, counted, outcome, flow, dumped>>

(* Slip: the count is that of the last attempt.                            *)
RetryCountOfLast == 0

RetryCount == counted

(* Slip: an interrupted dump counts as a complete one.                     *)
AfterInterruptOk == attempt' = attempt + 1 /\ Conclude("ok") /\ UNCHANGED counted

AfterInterrupt ==
    /\ attempt' = attempt + 1
    /\ \/ attempt' = DumpAttempts /\ Conclude("error") /\ UNCHANGED counted
       \/ /\ attempt' # DumpAttempts
          /\ pc' = "dump" /\ counted' = RetryCount
          /\ UNCHANGED <<at, outcome>>

AttemptEnds ==
    /\ pc = "entries" /\ listed = {}
    /\ \/ dump = "complete" /\ Conclude("ok") /\ UNCHANGED <<attempt, counted>>
       \/ dump = "failed" /\ Conclude("error") /\ UNCHANGED <<attempt, counted>>
       \/ dump = "interrupted" /\ AfterInterrupt
    /\ UNCHANGED <<filtered, entries, cancelled, listed, dump, flow, dumped>>

Flush ==
    \/ FlushNext \/ Unresolved \/ FilteredDelete
    \/ Dump \/ DumpStopped \/ AttemptEnds
    \/ \E e \in listed : DeleteEntry(e) \/ DeleteFails(e)

Next == Cancel \/ Flush \/ \E e \in Entries : NewFlow(e) \/ Expire(e)

Spec == Init /\ [][Next]_vars
-----------------------------------------------------------------------------
(* The flush deletes only entries whose replies go to an address of the    *)
(* vacated WAN, although the kernel's own IPv6 filter would delete all the *)
(* others instead (flushBySourceVia keeps IPv6 on the dump path).          *)
SparesOtherFlows == removed \subseteq UNION {Matches(Addrs[i]) : i \in 1..Len(Addrs)}

(* An address whose flush succeeded has lost every matching entry that was *)
(* there when the flush began, however often its dumps were interrupted    *)
(* (dumpFlush).                                                            *)
SuccessIsComplete ==
    \A i \in 1..Len(Addrs) :
        outcome[i] = "ok" => entries \cap initial \cap Matches(Addrs[i]) = {}

(* The count a dump flush reports covers every attempt: each entry that    *)
(* some dump returned and that is gone after its delete counts once, be it *)
(* deleted or expired in between (FlushResult.Entries).                    *)
CountsEveryAttempt == counted = Cardinality(dumped) /\ dumped \subseteq removed \cup expired

(* The flush deletes the vacated WAN's entries and no others, claims no    *)
(* more than it did, and counts what it did, while flows come and dumps    *)
(* are interrupted or cancelled (FlushBySource).                           *)
FlushIsExact == SparesOtherFlows /\ SuccessIsComplete /\ CountsEveryAttempt
=============================================================================
