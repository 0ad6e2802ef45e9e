----------------------------- MODULE MCHttpServer ------------------------------
(***************************************************************************)
(* Two handler threads, a client that reads slowly or never and one that   *)
(* reads; a sampler that restores what was saved, publishes one sample     *)
(* more and may be stopped or killed anywhere; the probe and the three     *)
(* endpoints behind a mutex.                                               *)
(*                                                                         *)
(* The process is the second one: the first has taken three samples, saved *)
(* two of them and was killed after the third.                             *)
(***************************************************************************)
EXTENDS HttpServer

MCInit ==
    /\ FreshProcess /\ HttpInit
    /\ now = 8 /\ skew = 0 /\ pc = "down" /\ starts = 1 /\ n = 3
    /\ file = << [n |-> 1, ts |-> 2, at |-> 4], [n |-> 2, ts |-> 3, at |-> 6] >>
    /\ atExit = << >>

MCSpec == MCInit /\ [][ServerNext]_serverVars /\ ServerFairness
===============================================================================
