----------------------------- MODULE HistoryStore -----------------------------
(***************************************************************************)
(* src/persist.rs on a file system: save writes a temporary file and       *)
(* renames it over the history file, load reads the history file.          *)
(*                                                                         *)
(* The file system is directory entries that point to inodes, and inodes   *)
(* with a content.  A history is a version number; its JSON text is        *)
(* Size[v] chunks, each written by a system call of its own.  A process    *)
(* may die between any two system calls, and any of them may fail.  What a *)
(* power cut does to data that was renamed but never synced is left out.   *)
(*                                                                         *)
(* The temporary file's name is derived from the history file's alone      *)
(* (with_extension), so two processes with the same history file share it: *)
(* Procs says how many there are.                                          *)
(***************************************************************************)
EXTENDS Integers, Sequences, FiniteSets

CONSTANTS
    Procs,        \* the processes that save to this history file
    Inodes,
    None,         \* no inode
    MaxSaves,     \* bound: how many saves are begun
    Size          \* Size[v]: the chunks of version v

ASSUME MaxSavesAssumption == MaxSaves \in Nat
ASSUME SizeAssumption == Size \in [1 .. MaxSaves -> Nat \ {0}]
ASSUME NoneAssumption == None \notin Inodes

VARIABLES
    dir,          \* dir.path, dir.tmp: the inode each name points to
    content,      \* content[i]: the chunks of inode i, each the version that
                  \* wrote it, 0 for a hole
    issued,       \* number of saves begun, by any process
    pc,           \* pc[p]: the system call p makes next
    ver,          \* ver[p]: the version p is saving
    fd,           \* fd[p]: the inode of p's open temporary file
    off,          \* off[p]: p's offset in it
    acked         \* acked[p]: history: newest version p's save returned Ok for

vars == <<dir, content, issued, pc, ver, fd, off, acked>>

Versions == 1 .. MaxSaves

Steps == {"down", "idle", "open", "write", "rename", "return"}

(* A text that parses: every chunk of one version, in place. *)
Holds(i, v) == Len(content[i]) = Size[v] /\ \A k \in 1 .. Size[v] : content[i][k] = v

Whole(i) == \E v \in Versions : Holds(i, v)

(* What load finds: read_to_string and from_str, and any failure of theirs
   yields no history.  A process that starts reads this. *)
Load == IF dir.path # None /\ Whole(dir.path) THEN content[dir.path][1] ELSE 0

Init ==
    /\ dir = [path |-> None, tmp |-> None]
    /\ content = [i \in Inodes |-> << >>]
    /\ issued = 0
    /\ pc = [p \in Procs |-> "down"]
    /\ ver = [p \in Procs |-> 0]
    /\ fd = [p \in Procs |-> None]
    /\ off = [p \in Procs |-> 0]
    /\ acked = [p \in Procs |-> 0]

(* The process starts; what it restores is Load. *)
Start(p) ==
    /\ pc[p] = "down"
    /\ pc' = [pc EXCEPT ![p] = "idle"]
    /\ UNCHANGED <<dir, content, issued, ver, fd, off, acked>>

(* save is called with a newer history, a copy made under its lock. *)
Save(p) ==
    /\ pc[p] = "idle"
    /\ issued < MaxSaves
    /\ issued' = issued + 1
    /\ ver' = [ver EXCEPT ![p] = issued + 1]
    /\ pc' = [pc EXCEPT ![p] = "open"]
    /\ UNCHANGED <<dir, content, fd, off, acked>>

(* Inodes that a name or an open file refers to are not free. *)
Free(i) == i # dir.path /\ i # dir.tmp /\ \A p \in Procs : fd[p] # i

(* Mutants: opens without O_TRUNC; removes the old history first. *)
OpenTmpKept(p) ==
    /\ pc[p] = "open"
    /\ \E i \in Inodes :
          /\ IF dir.tmp = None THEN Free(i) ELSE i = dir.tmp
          /\ dir' = [dir EXCEPT !.tmp = i]
          /\ fd' = [fd EXCEPT ![p] = i]
          /\ content' = IF dir.tmp = None THEN [content EXCEPT ![i] = << >>] ELSE content
    /\ off' = [off EXCEPT ![p] = 0]
    /\ pc' = [pc EXCEPT ![p] = "write"]
    /\ UNCHANGED <<issued, ver, acked>>
OpenTmpAfterRemove(p) ==
    /\ pc[p] = "open"
    /\ \E i \in Inodes :
          /\ IF dir.tmp = None THEN Free(i) ELSE i = dir.tmp
          /\ dir' = [path |-> None, tmp |-> i]
          /\ content' = [content EXCEPT ![i] = << >>]
          /\ fd' = [fd EXCEPT ![p] = i]
    /\ off' = [off EXCEPT ![p] = 0]
    /\ pc' = [pc EXCEPT ![p] = "write"]
    /\ UNCHANGED <<issued, ver, acked>>

(* fs::write, its open with O_CREAT and O_TRUNC. *)
OpenTmp(p) ==
    /\ pc[p] = "open"
    /\ \E i \in Inodes :
          /\ IF dir.tmp = None THEN Free(i) ELSE i = dir.tmp
          /\ dir' = [dir EXCEPT !.tmp = i]
          /\ content' = [content EXCEPT ![i] = << >>]
          /\ fd' = [fd EXCEPT ![p] = i]
    /\ off' = [off EXCEPT ![p] = 0]
    /\ pc' = [pc EXCEPT ![p] = "write"]
    /\ UNCHANGED <<issued, ver, acked>>

(* A text with one chunk written at offset o: past its end leaves a hole. *)
WrittenAt(text, o, v) ==
    [k \in 1 .. (IF Len(text) > o THEN Len(text) ELSE o + 1) |->
        IF k = o + 1 THEN v ELSE IF k <= Len(text) THEN text[k] ELSE 0]

(* fs::write, one write of write_all, and the close after the last. *)
WriteChunk(p) ==
    /\ pc[p] = "write"
    /\ content' = [content EXCEPT ![fd[p]] = WrittenAt(content[fd[p]], off[p], ver[p])]
    /\ off' = [off EXCEPT ![p] = off[p] + 1]
    /\ IF off[p] + 1 = Size[ver[p]]
       THEN /\ pc' = [pc EXCEPT ![p] = "rename"]
            /\ fd' = [fd EXCEPT ![p] = None]
       ELSE UNCHANGED <<pc, fd>>
    /\ UNCHANGED <<dir, issued, ver, acked>>

(* fs::rename: the temporary name goes, the history file is replaced. *)
Rename(p) ==
    /\ pc[p] = "rename"
    /\ dir.tmp # None
    /\ dir' = [path |-> dir.tmp, tmp |-> None]
    /\ pc' = [pc EXCEPT ![p] = "return"]
    /\ UNCHANGED <<content, issued, ver, fd, off, acked>>

(* save returns Ok. *)
Return(p) ==
    /\ pc[p] = "return"
    /\ pc' = [pc EXCEPT ![p] = "idle"]
    /\ acked' = [acked EXCEPT ![p] = ver[p]]
    /\ UNCHANGED <<dir, content, issued, ver, fd, off>>

(* Mutant: the error is swallowed. *)
FailSilently(p) ==
    /\ pc[p] \in {"open", "write", "rename"}
    /\ pc' = [pc EXCEPT ![p] = "idle"]
    /\ fd' = [fd EXCEPT ![p] = None]
    /\ acked' = [acked EXCEPT ![p] = ver[p]]
    /\ UNCHANGED <<dir, content, issued, ver, off>>

(* create_dir_all, the open, a write or the rename fails: save returns the
   error and leaves the temporary file as it is. *)
Fail(p) ==
    /\ pc[p] \in {"open", "write", "rename"}
    /\ pc' = [pc EXCEPT ![p] = "idle"]
    /\ fd' = [fd EXCEPT ![p] = None]
    /\ UNCHANGED <<dir, content, issued, ver, off, acked>>

(* The process dies: killed, out of memory, or an abort. *)
Crash(p) ==
    /\ pc[p] # "down"
    /\ pc' = [pc EXCEPT ![p] = "down"]
    /\ fd' = [fd EXCEPT ![p] = None]
    /\ UNCHANGED <<dir, content, issued, ver, off, acked>>

Next ==
    \E p \in Procs : \/ Start(p) \/ Save(p) \/ OpenTmp(p) \/ WriteChunk(p)
                     \/ Rename(p) \/ Return(p) \/ Fail(p) \/ Crash(p)

Spec == Init /\ [][Next]_vars

-----------------------------------------------------------------------------
(* Properties *)

(* The types of the directory, the inodes and the processes' state. *)
TypeOK ==
    /\ dir \in [path: Inodes \cup {None}, tmp: Inodes \cup {None}]
    /\ content \in [Inodes -> Seq(0 .. MaxSaves)]
    /\ issued \in 0 .. MaxSaves
    /\ pc \in [Procs -> Steps]
    /\ ver \in [Procs -> 0 .. MaxSaves]
    /\ fd \in [Procs -> Inodes \cup {None}]
    /\ off \in [Procs -> Nat]
    /\ acked \in [Procs -> 0 .. MaxSaves]

(* "Atomic save": whatever fails and whenever the process dies, what a
   reader finds under the history file's name is a whole history. *)
NeverTorn == dir.path # None => Whole(dir.path)

(* A save that returned Ok is not lost by anything that happens to the
   process afterwards: the file is that version or a newer one. *)
AckedIsDurable == \A p \in Procs : acked[p] <= Load

Saving(p) == pc[p] \in {"open", "write", "rename"}

(* The system calls of one process implement a register written as a whole:
   the rename is the commit, every failure and every crash before it an
   abort that leaves the file as it was. *)
SavedVersion ==
    IF \E p \in Procs : Saving(p) THEN ver[CHOOSE p \in Procs : Saving(p)] ELSE 0

Register == INSTANCE HistoryFile WITH file <- Load, saving <- SavedVersion

RefinesHistoryFile == Register!Spec
===============================================================================
