---------------------------- MODULE MCAlertDelivery ----------------------------
(***************************************************************************)
(* Two rules on the same reading, so that one tick may emit two events.    *)
(* An interval is 3 units and curl has 5: two intervals are longer than    *)
(* that, one is not; a tick's work is nothing or more than the interval.   *)
(***************************************************************************)
EXTENDS AlertDelivery

MCRules == 1 .. 2

MCAlertSpec ==
    << [metric |-> "mem", target |-> None, threshold |-> 850],
       [metric |-> "mem", target |-> None, threshold |-> 500] >>

MCSnapshots == { [mem |-> [used |-> u, total |-> 100]] : u \in {40, 60, 90} }
===============================================================================
