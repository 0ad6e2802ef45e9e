---------------------------- MODULE MCHistoryStore ----------------------------
(***************************************************************************)
(* Versions of one to three chunks, so that a save can be shorter than the *)
(* one before it.                                                          *)
(***************************************************************************)
EXTENDS HistoryStore

CONSTANTS p1, p2

OneProc == {p1}
TwoProcs == {p1, p2}

MCSize == [v \in 1 .. MaxSaves |-> 1 + ((v * 2) % 3)]

===============================================================================
