------------------------------ MODULE HistoryFile ------------------------------
(***************************************************************************)
(* What src/persist.rs promises of the history file: a register that a     *)
(* save replaces as a whole or leaves as it was, and that only moves on to *)
(* newer histories.                                                        *)
(***************************************************************************)
EXTENDS Integers

CONSTANT Versions     \* the histories saved, numbered in the order of saving

VARIABLES
    file,             \* the version a load would read, 0 when there is no file
    saving            \* the version being saved, 0 when none is

vars == <<file, saving>>

Init == file = 0 /\ saving = 0

Begin == \E v \in Versions : /\ saving = 0
                             /\ v > file
                             /\ saving' = v
                             /\ UNCHANGED file

Commit == /\ saving # 0
          /\ file' = saving
          /\ saving' = 0

(* A failed save and a process that dies while saving look the same. *)
Abort == /\ saving # 0
         /\ saving' = 0
         /\ UNCHANGED file

Next == Begin \/ Commit \/ Abort

Spec == Init /\ [][Next]_vars
===============================================================================
