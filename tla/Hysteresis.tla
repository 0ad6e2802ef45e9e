------------------------------ MODULE Hysteresis ------------------------------
(***************************************************************************)
(* What one alert rule promises, with no counters: the last HOLD_TICKS     *)
(* samples of the condition decide.  An alert starts when all of them were *)
(* over the threshold, ends when all of them were not, and is otherwise    *)
(* left as it is ("Alerts fire after the threshold is exceeded for 3       *)
(* consecutive samples and resolve the same way (no flapping)", README).   *)
(***************************************************************************)
EXTENDS Integers

CONSTANTS
    Rules,        \* the configured rules, all sampled on the same ticks
    HOLD_TICKS    \* how many consecutive samples decide

VARIABLES
    recent,       \* recent[r][i]: the i-th of the last HOLD_TICKS samples
    firing        \* firing[r]: is the alert on

vars == <<recent, firing>>

Sample == {"over", "under"}

(* "none" stands for the samples before the first one. *)
Window == [1 .. HOLD_TICKS -> Sample \cup {"none"}]

(* The window after one more sample: the oldest one drops out. *)
Shift(w, s) == [i \in 1 .. HOLD_TICKS |-> IF i = HOLD_TICKS THEN s ELSE w[i + 1]]

All(w, s) == \A i \in 1 .. HOLD_TICKS : w[i] = s

Init ==
    /\ recent = [r \in Rules |-> [i \in 1 .. HOLD_TICKS |-> "none"]]
    /\ firing = [r \in Rules |-> FALSE]

(* One tick samples every rule. *)
Tick ==
    \E s \in [Rules -> Sample] :
        /\ recent' = [r \in Rules |-> Shift(recent[r], s[r])]
        /\ firing' = [r \in Rules |->
               \/ All(Shift(recent[r], s[r]), "over")
               \/ firing[r] /\ ~All(Shift(recent[r], s[r]), "under")]

Spec == Init /\ [][Tick]_vars
===============================================================================
