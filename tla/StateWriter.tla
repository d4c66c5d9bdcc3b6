---------------------------- MODULE StateWriter ----------------------------
(***************************************************************************)
(* state.Writer: state.json is replaced by renaming a temporary file of    *)
(* the same directory over it.  A write takes several steps, any of which  *)
(* may fail, and the daemon may die between two of them.  Readers open the *)
(* path and read what it names, in several steps too.                      *)
(*                                                                         *)
(* A file is two halves, each written by one version; 0 is not written.    *)
(***************************************************************************)
EXTENDS Integers, FiniteSets

CONSTANTS
    MaxWrites,  \* bound on the versions written, for model checking
    NoFile      \* the path or the variable names no file

WriterAssumption == MaxWrites \in Nat \ {0} /\ NoFile \notin Nat

Files == 1..(MaxWrites + 1)

VARIABLES
    content,   \* the halves of every file
    used,      \* files ever created
    temps,     \* temporary names in the directory
    path,      \* the file state.json names, or NoFile
    pc,        \* idle, first, second, chmod, close, rename, cleanup: the writer
    tmp,       \* the file being written
    version,   \* the snapshot being written
    left,      \* history: files of a daemon that died, or whose removal failed
    reader,    \* idle, first, second, done
    opened,    \* the file the reader holds open
    seen,      \* the halves it has read
    last       \* history: the version the reader saw before

disk == <<content, used, temps, path>>
writer == <<pc, tmp, version, left>>
reading == <<reader, opened, seen, last>>
vars == <<disk, writer, reading>>

Init ==
    /\ content = [f \in Files |-> <<0, 0>>]
    /\ used = {} /\ temps = {} /\ path = NoFile
    /\ pc = "idle" /\ tmp = NoFile /\ version = 0 /\ left = {}
    /\ reader = "idle" /\ opened = NoFile /\ seen = <<0, 0>> /\ last = 0

CreateTemp ==
    /\ pc = "idle" /\ version < MaxWrites
    /\ version' = version + 1
    /\ \E f \in Files \ used :
          /\ tmp' = f
          /\ used' = used \cup {f}
          /\ temps' = temps \cup {f}
          /\ UNCHANGED content
    /\ pc' = "first"
    /\ UNCHANGED <<path, left, reading>>

Half == IF pc = "first" THEN 1 ELSE 2

WriteHalf ==
    /\ pc \in {"first", "second"}
    /\ content' = [content EXCEPT ![tmp][Half] = version]
    /\ pc' = IF pc = "first" THEN "second" ELSE "chmod"
    /\ UNCHANGED <<used, temps, path, tmp, version, left, reading>>

ChmodAndClose ==
    /\ pc \in {"chmod", "close"}
    /\ pc' = IF pc = "chmod" THEN "close" ELSE "rename"
    /\ UNCHANGED <<disk, tmp, version, left, reading>>

(* Slip: the file is renamed before all of it is written.                  *)
RenameReadyEarly == pc = "second"

RenameReady == pc = "rename"

Rename ==
    /\ RenameReady
    /\ path' = tmp
    /\ temps' = temps \ {tmp}
    /\ tmp' = NoFile
    /\ pc' = "idle"
    /\ UNCHANGED <<content, used, version, left, reading>>

(* Slip: a failed write leaves its temporary file behind.                  *)
CleanedNothing == temps

Cleaned == temps \ {tmp}

(* A step fails: the temporary file is removed.  The removal is            *)
(* best-effort, its own failure is passed over.                            *)
Fail ==
    /\ pc # "idle"
    /\ \/ temps' = Cleaned /\ UNCHANGED left
       \/ left' = left \cup {tmp} /\ UNCHANGED temps
    /\ tmp' = NoFile
    /\ pc' = "idle"
    /\ UNCHANGED <<content, used, path, version, reading>>

(* The daemon dies during a write.  The next one starts with a new writer. *)
Crash ==
    /\ pc # "idle"
    /\ left' = left \cup {tmp}
    /\ tmp' = NoFile
    /\ pc' = "idle"
    /\ UNCHANGED <<disk, version, reading>>

Open ==
    /\ reader \in {"idle", "done"} /\ path # NoFile
    /\ opened' = path
    /\ reader' = "first"
    /\ last' = seen[1]
    /\ seen' = <<0, 0>>
    /\ UNCHANGED <<disk, writer>>

ReadHalf ==
    /\ reader \in {"first", "second"}
    /\ seen' = [seen EXCEPT ![IF reader = "first" THEN 1 ELSE 2] =
                               content[opened][IF reader = "first" THEN 1 ELSE 2]]
    /\ reader' = IF reader = "first" THEN "second" ELSE "done"
    /\ UNCHANGED <<disk, writer, opened, last>>

Next == CreateTemp \/ WriteHalf \/ ChmodAndClose \/ Rename \/ Fail \/ Crash \/ Open \/ ReadHalf

Spec == Init /\ [][Next]_vars
-----------------------------------------------------------------------------
(* A reader of state.json always gets one whole snapshot, no older than    *)
(* the one it got before, while the daemon writes, fails to write, or dies *)
(* in the middle (Writer.Write).                                           *)
ReadersSeeWholeStates ==
    reader = "done" => seen[1] = seen[2] /\ seen[1] # 0 /\ seen[1] >= last

(* A write leaves no temporary file behind, whether it succeeds or fails:  *)
(* what is left is the file of a daemon that died in a write, or one whose *)
(* own removal failed (Writer.Write, the deferred removal).                *)
NoLitter == temps \subseteq {tmp} \cup left

(* state.json is replaced as a whole or not at all, and nothing is left    *)
(* beside it (Writer.Write).                                               *)
ReplacedAtomically == ReadersSeeWholeStates /\ NoLitter
=============================================================================
