------------------------------- MODULE MCSampler -------------------------------
(***************************************************************************)
(* One unit is half a nap: a nap is 2, the interval 3, so that the last    *)
(* nap of a sleep is a short one; the work of a tick is less or more than  *)
(* the interval; the history's window is three samples.                    *)
(***************************************************************************)
EXTENDS Sampler
===============================================================================
