----------------------------- MODULE HistoryProofs -----------------------------
(***************************************************************************)
(* Proofs about HistoryStore when one process saves, for any number of     *)
(* saves and any length of the histories.                                  *)
(***************************************************************************)
EXTENDS HistoryStore, SequenceTheorems, TLAPS

(* Writing a chunk makes a text of chunks, as long as the chunk reaches. *)
LEMMA WritesChunk ==
    ASSUME NEW text \in Seq(0 .. MaxSaves), NEW v \in 0 .. MaxSaves, NEW o \in Nat
    PROVE  /\ WrittenAt(text, o, v) \in Seq(0 .. MaxSaves)
           /\ Len(WrittenAt(text, o, v)) = IF Len(text) > o THEN Len(text) ELSE o + 1
           /\ \A k \in 1 .. Len(WrittenAt(text, o, v)) : WrittenAt(text, o, v)[k] =
                 IF k = o + 1 THEN v ELSE IF k <= Len(text) THEN text[k] ELSE 0
<1> DEFINE n == IF Len(text) > o THEN Len(text) ELSE o + 1
           e(k) == IF k = o + 1 THEN v ELSE IF k <= Len(text) THEN text[k] ELSE 0
<1>1. n \in Nat
  OBVIOUS
<1>2. \A k \in 1 .. n : e(k) \in 0 .. MaxSaves
  BY MaxSavesAssumption
<1>3. [k \in 1 .. n |-> e(k)] \in Seq(0 .. MaxSaves)
  BY <1>1, <1>2, IsASeq
<1>4. WrittenAt(text, o, v) = [k \in 1 .. n |-> e(k)]
  BY DEF WrittenAt
<1>5. Len(WrittenAt(text, o, v)) = n
  BY <1>1, <1>3, <1>4, LenProperties
<1>6. QED  BY <1>3, <1>4, <1>5

(* The holder of a version is read as that version. *)
LEMMA LoadsWhatItHolds ==
    ASSUME dir.path # None, NEW v \in Versions, Holds(dir.path, v)
    PROVE  Load = v
BY SizeAssumption DEF Load, Holds, Whole, Versions

-----------------------------------------------------------------------------
(* The types hold for any number of processes. *)
LEMMA TypeCorrect == Spec => []TypeOK
<1>1. Init => TypeOK
  BY MaxSavesAssumption DEF Init, TypeOK, Steps
<1>2. TypeOK /\ [Next]_vars => TypeOK'
  <2> SUFFICES ASSUME TypeOK, [Next]_vars
               PROVE  TypeOK'
    OBVIOUS
  <2> USE DEF TypeOK, Steps
  <2>1. ASSUME NEW p \in Procs, Start(p)
        PROVE  TypeOK'
    BY <2>1 DEF Start
  <2>2. ASSUME NEW p \in Procs, Save(p)
        PROVE  TypeOK'
    BY <2>2, MaxSavesAssumption DEF Save
  <2>3. ASSUME NEW p \in Procs, OpenTmp(p)
        PROVE  TypeOK'
    <3>1. PICK i \in Inodes : /\ dir' = [dir EXCEPT !.tmp = i]
                              /\ content' = [content EXCEPT ![i] = << >>]
                              /\ fd' = [fd EXCEPT ![p] = i]
      BY <2>3 DEF OpenTmp
    <3>2. << >> \in Seq(0 .. MaxSaves)
      BY EmptySeq
    <3>3. content' \in [Inodes -> Seq(0 .. MaxSaves)]
      BY <3>1, <3>2
    <3>4. dir' \in [path: Inodes \cup {None}, tmp: Inodes \cup {None}]
      BY <3>1
    <3>5. fd' \in [Procs -> Inodes \cup {None}]
      BY <3>1
    <3>6. QED  BY <2>3, <3>3, <3>4, <3>5 DEF OpenTmp
  <2>4. ASSUME NEW p \in Procs, WriteChunk(p)
        PROVE  TypeOK'
    <3>1. content' \in [Inodes -> Seq(0 .. MaxSaves)]
      <4>1. CASE fd[p] \in Inodes
        <5>1. WrittenAt(content[fd[p]], off[p], ver[p]) \in Seq(0 .. MaxSaves)
          BY <4>1, WritesChunk
        <5>2. QED  BY <2>4, <4>1, <5>1 DEF WriteChunk
      <4>2. CASE fd[p] \notin Inodes
        BY <2>4, <4>2 DEF WriteChunk
      <4>3. QED  BY <4>1, <4>2
    <3>2. pc' \in [Procs -> Steps] /\ fd' \in [Procs -> Inodes \cup {None}]
      BY <2>4 DEF WriteChunk
    <3>3. off' \in [Procs -> Nat]
      BY <2>4 DEF WriteChunk
    <3>4. QED  BY <2>4, <3>1, <3>2, <3>3 DEF WriteChunk
  <2>5. ASSUME NEW p \in Procs, Rename(p)
        PROVE  TypeOK'
    BY <2>5 DEF Rename
  <2>6. ASSUME NEW p \in Procs, Return(p)
        PROVE  TypeOK'
    BY <2>6 DEF Return
  <2>7. ASSUME NEW p \in Procs, Fail(p)
        PROVE  TypeOK'
    BY <2>7 DEF Fail
  <2>8. ASSUME NEW p \in Procs, Crash(p)
        PROVE  TypeOK'
    BY <2>8 DEF Crash
  <2>9. CASE UNCHANGED vars
    BY <2>9 DEF vars
  <2>10. QED
    BY <2>1, <2>2, <2>3, <2>4, <2>5, <2>6, <2>7, <2>8, <2>9 DEF Next
<1>3. QED  BY <1>1, <1>2, PTL DEF Spec

-----------------------------------------------------------------------------
(* One process saves. *)
OneProcess == \A p, q \in Procs : p = q

(* The file is whole and older than what is being saved; the temporary file
   is another inode, and holds what has been written so far. *)
FileInv ==
    /\ NeverTorn
    /\ dir.tmp # None => dir.tmp # dir.path
    /\ Load <= issued

ProcInv(p) ==
    /\ Saving(p) => ver[p] = issued /\ ver[p] \in Versions /\ Load < issued
    /\ pc[p] = "return" => Load = ver[p]
    /\ acked[p] <= Load
    /\ pc[p] = "write" =>
          /\ dir.tmp # None
          /\ fd[p] = dir.tmp
          /\ off[p] = Len(content[dir.tmp])
          /\ off[p] < Size[ver[p]]
          /\ \A k \in 1 .. off[p] : content[dir.tmp][k] = ver[p]
    /\ pc[p] = "rename" => dir.tmp # None /\ Holds(dir.tmp, ver[p])

SaveInv == FileInv /\ \A p \in Procs : ProcInv(p)

(* Nothing but the history file's own inode matters to a reader. *)
LEMMA FileKept ==
    ASSUME dir'.path = dir.path,
           dir.path # None => content'[dir.path] = content[dir.path]
    PROVE  /\ Load' = Load
           /\ NeverTorn => NeverTorn'
BY DEF Load, NeverTorn, Whole, Holds

LEMMA LoadIsAVersion == ASSUME TypeOK PROVE Load \in 0 .. MaxSaves
<1>1. CASE dir.path # None /\ Whole(dir.path)
  <2>1. PICK v \in Versions : Holds(dir.path, v)
    BY <1>1 DEF Whole
  <2>2. Load = v
    BY <1>1, <2>1, LoadsWhatItHolds
  <2>3. QED  BY <2>2, MaxSavesAssumption DEF Versions
<1>2. CASE ~(dir.path # None /\ Whole(dir.path))
  BY <1>2, MaxSavesAssumption DEF Load
<1>3. QED  BY <1>1, <1>2

LEMMA SaveInvInit == Init => SaveInv
BY DEF Init, SaveInv, FileInv, ProcInv, NeverTorn, Load, Saving

(* One lemma per kind of step.  A step that leaves the names and the texts
   alone keeps the file; what is left is where the process stands. *)
LEMMA SaveInvControl ==
    ASSUME TypeOK, SaveInv, OneProcess, NEW p \in Procs,
           Start(p) \/ Save(p) \/ Return(p) \/ Fail(p) \/ Crash(p)
    PROVE  SaveInv'
<1>1. /\ dir' = dir
      /\ content' = content
      /\ \A q \in Procs : q = p
  BY DEF Start, Save, Return, Fail, Crash, OneProcess
<1>2. Load' = Load /\ (NeverTorn => NeverTorn')
  BY <1>1, FileKept
<1>3. /\ Load \in 0 .. MaxSaves
      /\ issued \in 0 .. MaxSaves /\ issued' \in Nat /\ issued' >= issued
  BY LoadIsAVersion, MaxSavesAssumption DEF TypeOK, Start, Save, Return, Fail, Crash
<1>4. FileInv'
  BY <1>1, <1>2, <1>3 DEF SaveInv, FileInv
<1>5. ProcInv(p)
  BY DEF SaveInv
<1>6. CASE Start(p)
  BY <1>1, <1>2, <1>4, <1>5, <1>6
     DEF Start, SaveInv, ProcInv, Saving, TypeOK, Holds
<1>7. CASE Save(p)
  BY <1>1, <1>2, <1>3, <1>4, <1>5, <1>7, MaxSavesAssumption
     DEF Save, SaveInv, ProcInv, FileInv, Saving, TypeOK, Versions
<1>8. CASE Return(p)
  BY <1>1, <1>2, <1>3, <1>4, <1>5, <1>8
     DEF Return, SaveInv, ProcInv, Saving, TypeOK
<1>9. CASE Fail(p)
  BY <1>1, <1>2, <1>4, <1>5, <1>9 DEF Fail, SaveInv, ProcInv, Saving, TypeOK
<1>10. CASE Crash(p)
  BY <1>1, <1>2, <1>4, <1>5, <1>10 DEF Crash, SaveInv, ProcInv, Saving, TypeOK
<1>11. QED  BY <1>6, <1>7, <1>8, <1>9, <1>10

(* Opening the temporary file empties an inode that is not the history's. *)
LEMMA SaveInvOpen ==
    ASSUME TypeOK, SaveInv, OneProcess, NEW p \in Procs, OpenTmp(p)
    PROVE  SaveInv'
<1>1. PICK i \in Inodes : /\ i # dir.path
                          /\ dir' = [dir EXCEPT !.tmp = i]
                          /\ content' = [content EXCEPT ![i] = << >>]
                          /\ fd' = [fd EXCEPT ![p] = i]
  BY NoneAssumption DEF OpenTmp, Free, SaveInv, FileInv
<1>2. /\ dir'.path = dir.path
      /\ dir.path # None => content'[dir.path] = content[dir.path]
  BY <1>1 DEF TypeOK
<1>3. Load' = Load /\ (NeverTorn => NeverTorn')
  BY <1>2, FileKept
<1>4. FileInv'
  BY <1>1, <1>2, <1>3 DEF SaveInv, FileInv, OpenTmp, TypeOK
<1>5. ProcInv(p) /\ pc[p] = "open" /\ \A q \in Procs : q = p
  BY DEF SaveInv, OpenTmp, OneProcess
<1>6. /\ Load < issued /\ ver[p] = issued /\ ver[p] \in Versions /\ acked[p] <= Load
  BY <1>5 DEF ProcInv, Saving
<1>7. /\ dir'.tmp = i /\ i # None /\ fd'[p] = i /\ content'[i] = << >>
      /\ off'[p] = 0 /\ pc'[p] = "write"
      /\ ver' = ver /\ issued' = issued /\ acked' = acked
  BY <1>1, NoneAssumption DEF OpenTmp, TypeOK
<1>8. Size[ver[p]] \in Nat \ {0}
  BY <1>6, SizeAssumption DEF Versions
<1>9. ProcInv(p)'
  BY <1>3, <1>6, <1>7, <1>8 DEF ProcInv, Saving
<1>10. QED  BY <1>4, <1>5, <1>9 DEF SaveInv

(* A chunk goes to the end of the temporary file; the last one makes it
   whole. *)
LEMMA SaveInvWrite ==
    ASSUME TypeOK, SaveInv, OneProcess, NEW p \in Procs, WriteChunk(p)
    PROVE  SaveInv'
<1> DEFINE tmp == dir.tmp
           text == content[tmp]
           more == WrittenAt(text, off[p], ver[p])
<1>1. /\ ProcInv(p) /\ pc[p] = "write" /\ \A q \in Procs : q = p
      /\ dir' = dir /\ issued' = issued /\ ver' = ver /\ acked' = acked
  BY DEF SaveInv, WriteChunk, OneProcess
<1>2. /\ Load < issued /\ ver[p] = issued /\ ver[p] \in Versions /\ acked[p] <= Load
      /\ tmp \in Inodes /\ tmp # None /\ fd[p] = tmp /\ tmp # dir.path
      /\ off[p] = Len(text) /\ off[p] < Size[ver[p]]
      /\ \A k \in 1 .. off[p] : text[k] = ver[p]
  BY <1>1 DEF ProcInv, Saving, SaveInv, FileInv, TypeOK
<1>3. /\ content' = [content EXCEPT ![tmp] = more]
      /\ off'[p] = off[p] + 1
  BY <1>2 DEF WriteChunk, TypeOK
<1>4. content'[tmp] = more /\ (dir.path # None => content'[dir.path] = content[dir.path])
  BY <1>2, <1>3 DEF TypeOK
<1>5. Load' = Load /\ (NeverTorn => NeverTorn')
  BY <1>1, <1>4, FileKept
<1>6. FileInv'
  BY <1>1, <1>5 DEF SaveInv, FileInv
<1>7. /\ text \in Seq(0 .. MaxSaves) /\ off[p] \in Nat /\ ver[p] \in 0 .. MaxSaves
      /\ Size[ver[p]] \in Nat
  BY <1>2, SizeAssumption DEF TypeOK, Versions
<1>8. /\ Len(more) = off[p] + 1
      /\ \A k \in 1 .. off[p] + 1 : more[k] = ver[p]
  <2> DEFINE v == ver[p]
             o == off[p]
  <2>0. more = WrittenAt(text, o, v) /\ v \in 0 .. MaxSaves /\ o \in Nat
    BY <1>7
  <2> HIDE DEF text, more, v, o
  <2>1. /\ Len(more) = IF Len(text) > o THEN Len(text) ELSE o + 1
        /\ \A k \in 1 .. Len(more) : more[k] =
              IF k = o + 1 THEN v ELSE IF k <= Len(text) THEN text[k] ELSE 0
    BY <1>7, <2>0, WritesChunk
  <2>2. o = Len(text) /\ \A k \in 1 .. o : text[k] = v
    BY <1>2 DEF o, v
  <2>3. Len(more) = o + 1 /\ \A k \in 1 .. o + 1 : more[k] = v
    BY <2>0, <2>1, <2>2
  <2>4. QED  BY <2>3 DEF o, v
<1>9. CASE off[p] + 1 = Size[ver[p]]
  <2>1. pc'[p] = "rename"
    BY <1>9 DEF WriteChunk, TypeOK
  <2>2. Holds(tmp, ver[p])'
    BY <1>1, <1>4, <1>8, <1>9 DEF Holds
  <2>3. ProcInv(p)'
    BY <1>1, <1>2, <1>5, <2>1, <2>2 DEF ProcInv, Saving
  <2>4. QED  BY <1>1, <1>6, <2>3 DEF SaveInv
<1>10. CASE off[p] + 1 # Size[ver[p]]
  <2>1. pc'[p] = "write" /\ fd'[p] = tmp
    BY <1>2, <1>10 DEF WriteChunk, TypeOK
  <2>2. /\ off'[p] = Len(content'[tmp])
        /\ off'[p] < Size[ver[p]]
        /\ \A k \in 1 .. off'[p] : content'[tmp][k] = ver[p]
    BY <1>2, <1>3, <1>4, <1>7, <1>8, <1>10
  <2>3. ProcInv(p)'
    BY <1>1, <1>2, <1>5, <2>1, <2>2 DEF ProcInv, Saving
  <2>4. QED  BY <1>1, <1>6, <2>3 DEF SaveInv
<1>11. QED  BY <1>9, <1>10

(* The rename puts a whole and newer history in place. *)
LEMMA SaveInvRename ==
    ASSUME TypeOK, SaveInv, OneProcess, NEW p \in Procs, Rename(p)
    PROVE  SaveInv' /\ Load' = ver[p]
<1>1. /\ ProcInv(p) /\ pc[p] = "rename" /\ \A q \in Procs : q = p
      /\ content' = content /\ issued' = issued /\ ver' = ver /\ acked' = acked
      /\ dir'.path = dir.tmp /\ dir'.tmp = None /\ pc'[p] = "return"
  BY DEF SaveInv, Rename, OneProcess, TypeOK
<1>2. /\ Load < issued /\ ver[p] = issued /\ ver[p] \in Versions /\ acked[p] <= Load
      /\ dir.tmp # None /\ Holds(dir.tmp, ver[p])
  BY <1>1 DEF ProcInv, Saving
<1>3. Holds(dir.path, ver[p])'
  BY <1>1, <1>2 DEF Holds
<1>4. Whole(dir.path)'
  BY <1>1, <1>2, <1>3 DEF Whole
<1>5. Load' = ver[p]
  <2>1. content'[dir'.path][1] = ver[p]
    BY <1>1, <1>2, SizeAssumption DEF Holds, Versions
  <2>2. QED  BY <1>1, <1>2, <1>4, <2>1 DEF Load
<1>6. /\ Load \in 0 .. MaxSaves /\ acked[p] \in 0 .. MaxSaves /\ issued \in 0 .. MaxSaves
  BY LoadIsAVersion DEF TypeOK
<1>7. FileInv'
  BY <1>1, <1>2, <1>4, <1>5, <1>6 DEF FileInv, NeverTorn
<1>8. ProcInv(p)'
  BY <1>1, <1>2, <1>5, <1>6 DEF ProcInv, Saving
<1>9. QED  BY <1>1, <1>5, <1>7, <1>8 DEF SaveInv

LEMMA SaveInvStep == OneProcess /\ TypeOK /\ SaveInv /\ [Next]_vars => SaveInv'
<1> SUFFICES ASSUME OneProcess, TypeOK, SaveInv, [Next]_vars
             PROVE  SaveInv'
  OBVIOUS
<1>1. CASE UNCHANGED vars
  BY <1>1 DEF vars, SaveInv, FileInv, NeverTorn, Whole, Holds, Load, ProcInv, Saving
<1>2. CASE Next
  BY <1>2, SaveInvControl, SaveInvOpen, SaveInvWrite, SaveInvRename DEF Next
<1>3. QED  BY <1>1, <1>2

(* "Atomic save": while one process saves to a history file, the file is
   whole at every moment, whatever fails and whenever the process dies, and
   no save that returned Ok is lost. *)
THEOREM AtomicSave ==
    ASSUME OneProcess
    PROVE  Spec => [](NeverTorn /\ AckedIsDurable)
<1>1. Init => SaveInv
  BY SaveInvInit
<1>2. TypeOK /\ SaveInv /\ [Next]_vars => SaveInv'
  BY SaveInvStep
<1>3. SaveInv => NeverTorn /\ AckedIsDurable
  BY DEF SaveInv, FileInv, ProcInv, AckedIsDurable
<1>4. QED  BY <1>1, <1>2, <1>3, TypeCorrect, PTL DEF Spec

(* What the function returned Ok for is in the file from then on, or
   something newer, through every later save, failure and crash. *)
THEOREM SavesAreDurable ==
    ASSUME OneProcess
    PROVE  Spec => []AckedIsDurable
<1>1. Spec => [](NeverTorn /\ AckedIsDurable)
  BY AtomicSave
<1>2. NeverTorn /\ AckedIsDurable => AckedIsDurable
  OBVIOUS
<1>3. QED  BY <1>1, <1>2, PTL

-----------------------------------------------------------------------------
(* Of one process, the version being saved is its own. *)
LEMMA SavedByOne ==
    ASSUME OneProcess, NEW p \in Procs
    PROVE  /\ SavedVersion = IF Saving(p) THEN ver[p] ELSE 0
           /\ SavedVersion' = IF Saving(p)' THEN ver'[p] ELSE 0
<1>1. \A q \in Procs : q = p
  BY DEF OneProcess
<1>2. SavedVersion = IF Saving(p) THEN ver[p] ELSE 0
  BY <1>1 DEF SavedVersion
<1>3. SavedVersion' = IF Saving(p)' THEN ver'[p] ELSE 0
  BY <1>1 DEF SavedVersion
<1>4. QED  BY <1>2, <1>3

LEMMA RegisterStep ==
    ASSUME TypeOK, SaveInv, OneProcess, NEW p \in Procs,
           \/ Start(p) \/ Save(p) \/ OpenTmp(p) \/ WriteChunk(p)
           \/ Rename(p) \/ Return(p) \/ Fail(p) \/ Crash(p)
    PROVE  Register!Next \/ UNCHANGED Register!vars
<1> USE DEF Register!Next, Register!vars
<1>1. /\ SavedVersion = IF Saving(p) THEN ver[p] ELSE 0
      /\ SavedVersion' = IF Saving(p)' THEN ver'[p] ELSE 0
  BY SavedByOne
<1>2. /\ ProcInv(p)
      /\ Load \in 0 .. MaxSaves /\ issued \in 0 .. MaxSaves
      /\ Load <= issued
  BY LoadIsAVersion DEF SaveInv, FileInv, TypeOK
<1>3. Saving(p) => ver[p] \in Versions /\ ver[p] # 0
  BY <1>2 DEF ProcInv, Versions
<1>4. CASE Start(p) \/ Return(p)
  <2>1. Load' = Load
    BY <1>4, FileKept DEF Start, Return
  <2>2. ~Saving(p) /\ ~Saving(p)'
    BY <1>4 DEF Start, Return, Saving, TypeOK
  <2>3. QED  BY <1>1, <2>1, <2>2
<1>5. CASE Save(p)
  <2>1. Load' = Load
    BY <1>5, FileKept DEF Save
  <2>2. /\ ~Saving(p) /\ Saving(p)' /\ ver'[p] = issued + 1
        /\ issued + 1 \in Versions /\ issued + 1 > Load
    BY <1>2, <1>5, MaxSavesAssumption DEF Save, Saving, TypeOK, Versions
  <2>3. Register!Begin
    BY <1>1, <2>1, <2>2 DEF Register!Begin
  <2>4. QED  BY <2>3
<1>6. CASE OpenTmp(p) \/ WriteChunk(p)
  <2>1. Saving(p) /\ Saving(p)' /\ ver' = ver
    BY <1>6 DEF OpenTmp, WriteChunk, Saving, TypeOK
  <2>2. Load' = Load
    <3>1. CASE OpenTmp(p)
      <4>1. PICK i \in Inodes : /\ i # dir.path
                                /\ dir' = [dir EXCEPT !.tmp = i]
                                /\ content' = [content EXCEPT ![i] = << >>]
        BY <3>1, NoneAssumption DEF OpenTmp, Free, SaveInv, FileInv
      <4>2. QED  BY <4>1, FileKept DEF TypeOK
    <3>2. CASE WriteChunk(p)
      <4>1. fd[p] # dir.path /\ dir' = dir
        BY <3>2 DEF WriteChunk, SaveInv, FileInv, ProcInv
      <4>2. dir.path # None => content'[dir.path] = content[dir.path]
        BY <3>2, <4>1 DEF WriteChunk, TypeOK
      <4>3. QED  BY <4>1, <4>2, FileKept
    <3>3. QED  BY <1>6, <3>1, <3>2
  <2>3. QED  BY <1>1, <2>1, <2>2
<1>7. CASE Rename(p)
  <2>1. Load' = ver[p]
    BY <1>7, SaveInvRename
  <2>2. Saving(p) /\ ~Saving(p)'
    BY <1>7 DEF Rename, Saving, TypeOK
  <2>3. Register!Commit
    BY <1>1, <1>3, <2>1, <2>2 DEF Register!Commit
  <2>4. QED  BY <2>3
<1>8. CASE Fail(p) \/ Crash(p)
  <2>1. Load' = Load
    BY <1>8, FileKept DEF Fail, Crash
  <2>2. ~Saving(p)'
    BY <1>8 DEF Fail, Crash, Saving, TypeOK
  <2>3. CASE Saving(p)
    <3>1. Register!Abort
      BY <1>1, <1>3, <2>1, <2>2, <2>3 DEF Register!Abort
    <3>2. QED  BY <3>1
  <2>4. CASE ~Saving(p)
    BY <1>1, <2>1, <2>2, <2>4
  <2>5. QED  BY <2>3, <2>4
<1>9. QED  BY <1>4, <1>5, <1>6, <1>7, <1>8

(* The system calls of one process implement the register. *)
THEOREM Refinement ==
    ASSUME OneProcess
    PROVE  Spec => RefinesHistoryFile
<1>1. Init => Register!Init
  BY DEF Init, Register!Init, Load, SavedVersion, Saving
<1>2. TypeOK /\ SaveInv /\ [Next]_vars => [Register!Next]_(Register!vars)
  <2>1. CASE UNCHANGED vars
    BY <2>1 DEF vars, Register!vars, Load, Whole, Holds, SavedVersion, Saving
  <2>2. QED  BY <2>1, RegisterStep DEF Next
<1>3. Init => SaveInv
  BY SaveInvInit
<1>4. TypeOK /\ SaveInv /\ [Next]_vars => SaveInv'
  BY SaveInvStep
<1>5. QED
  BY <1>1, <1>2, <1>3, <1>4, TypeCorrect, PTL DEF Spec, RefinesHistoryFile, Register!Spec
===============================================================================
