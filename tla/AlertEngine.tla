------------------------------ MODULE AlertEngine ------------------------------
(***************************************************************************)
(* src/alerts.rs: the threshold rules and their hysteresis.                *)
(*                                                                         *)
(* One action, Eval, is AlertEngine::eval: the sampler calls it once per   *)
(* tick with the snapshot it has just collected.  Percentages and          *)
(* temperatures are integers in hundredths, the values shown and compared  *)
(* are integers in tenths (the code rounds to one decimal), and so are the *)
(* thresholds: a threshold with more decimals compares like the next       *)
(* smaller tenth.  A sensor label is the set of the rule targets it        *)
(* contains as a substring.  The wording of the event, the curl child that *)
(* delivers it and the host name are left out.                             *)
(***************************************************************************)
EXTENDS Integers, FiniteSetsExt

CONSTANTS
    Rules,          \* indices of config.alerts
    AlertSpec,      \* AlertSpec[r] = [metric, target, threshold]
    HOLD_TICKS,     \* 3 in the code
    CounterMod,     \* 2^32: over and under are u32 and a release build wraps
    Snapshots,      \* the snapshots a tick may collect (what measure reads)
    Timestamps,     \* values of snapshot.ts: the wall clock, which may step
    None

ASSUME HoldAssumption == HOLD_TICKS \in Nat \ {0}
ASSUME CounterAssumption == CounterMod \in Nat /\ CounterMod > HOLD_TICKS
ASSUME NoneAssumption == None \notin Timestamps

VARIABLES
    rule,           \* rule[r]: RuleState
    event,          \* event[r]: what the last eval emitted for r
    shown,          \* shown[r]: the value the last eval compared and reported
    recent          \* history variable: the last HOLD_TICKS conditions of r

vars == <<rule, event, shown, recent>>

RuleState == [ over: 0 .. CounterMod - 1,
               under: 0 .. CounterMod - 1,
               firing_since: Timestamps \cup {None} ]

-----------------------------------------------------------------------------
(* measure: the current value of a rule *)

Pct(used, total) == IF total = 0 THEN 0 ELSE (used * 10000) \div total

(* fold(0.0, f64::max): nothing to look at counts as zero *)
MaxOrZero(S) == Max(S \cup {0})

InScope(spec, names) == spec.target = None \/ spec.target \in names

Measure(spec, snap) ==
    CASE spec.metric = "cpu"  -> snap.cpu
      [] spec.metric = "mem"  -> Pct(snap.mem.used, snap.mem.total)
      [] spec.metric = "swap" -> Pct(snap.swap.used, snap.swap.total)
      [] spec.metric = "disk" ->
            MaxOrZero({ Pct(d.used, d.total) :
                            d \in { x \in snap.disks : InScope(spec, {x.mount}) } })
      [] spec.metric = "temp" ->
            IF snap.sensors = None THEN 0
            ELSE MaxOrZero({ t.temp_c :
                            t \in { x \in snap.sensors.temps : InScope(spec, x.label) } })
      [] OTHER -> 0

(* (raw * 10.0).round() / 10.0 *)
Rounded(raw) == (raw + 5) \div 10

Value(r, snap) == Rounded(Measure(AlertSpec[r], snap))

(* Mutant: compares the value before it is rounded. *)
ExceededUnrounded(r, snap) ==
    Measure(AlertSpec[r], snap) > 10 * AlertSpec[r].threshold

Exceeded(r, snap) == Value(r, snap) > AlertSpec[r].threshold

-----------------------------------------------------------------------------
(* eval *)

(* Mutant: a counter with no width. *)
IncrementForEver(n) == n + 1

(* u32 addition in a release build *)
Increment(n) == IF n = CounterMod - 1 THEN 0 ELSE n + 1

NextOver(r, snap)  == IF Exceeded(r, snap) THEN Increment(rule[r].over) ELSE 0

(* Mutants: a spike does not restart the count of calm samples; a value that
   rests on its threshold counts for neither side. *)
NextUnderKept(r, snap) ==
    IF Exceeded(r, snap) THEN rule[r].under ELSE Increment(rule[r].under)
NextUnderStrict(r, snap) ==
    IF Value(r, snap) >= AlertSpec[r].threshold THEN 0 ELSE Increment(rule[r].under)

NextUnder(r, snap) == IF Exceeded(r, snap) THEN 0 ELSE Increment(rule[r].under)

(* Mutant: one sample too late. *)
FiresLate(r, snap) ==
    rule[r].firing_since = None /\ NextOver(r, snap) > HOLD_TICKS

Fires(r, snap) ==
    rule[r].firing_since = None /\ NextOver(r, snap) >= HOLD_TICKS

Resolves(r, snap) ==
    rule[r].firing_since # None /\ NextUnder(r, snap) >= HOLD_TICKS

(* Mutant: every sample over the threshold restarts the alert. *)
NextFiringSinceRefreshed(r, snap, ts) ==
    IF NextOver(r, snap) >= HOLD_TICKS THEN ts
    ELSE IF Resolves(r, snap) THEN None
    ELSE rule[r].firing_since

NextFiringSince(r, snap, ts) ==
    IF Fires(r, snap) THEN ts
    ELSE IF Resolves(r, snap) THEN None
    ELSE rule[r].firing_since

Condition(r, snap) == IF Exceeded(r, snap) THEN "over" ELSE "under"

Shift(w, s) == [i \in 1 .. HOLD_TICKS |-> IF i = HOLD_TICKS THEN s ELSE w[i + 1]]

Init ==
    /\ rule = [r \in Rules |-> [over |-> 0, under |-> 0, firing_since |-> None]]
    /\ event = [r \in Rules |-> "none"]
    /\ shown = [r \in Rules |-> 0]
    /\ recent = [r \in Rules |-> [i \in 1 .. HOLD_TICKS |-> "none"]]

Eval(snap, ts) ==
    /\ rule' = [r \in Rules |-> [ over |-> NextOver(r, snap),
                                  under |-> NextUnder(r, snap),
                                  firing_since |-> NextFiringSince(r, snap, ts) ]]
    /\ event' = [r \in Rules |-> IF Fires(r, snap) THEN "firing"
                                 ELSE IF Resolves(r, snap) THEN "resolved"
                                 ELSE "none"]
    /\ shown' = [r \in Rules |-> Value(r, snap)]
    /\ recent' = [r \in Rules |-> Shift(recent[r], Condition(r, snap))]

Next == \E snap \in Snapshots, ts \in Timestamps : Eval(snap, ts)

Spec == Init /\ [][Next]_vars

(* The sampler evaluates the rules on every tick, for ever. *)
FairSpec == Spec /\ WF_vars(Next)

Firing(r) == rule[r].firing_since # None

(* What eval returns: the AlertStatus list embedded in the snapshot. *)
Alerts == { [metric |-> r, value |-> shown[r], since |-> rule[r].firing_since] :
                r \in { q \in Rules : Firing(q) } }

-----------------------------------------------------------------------------
(* Properties *)

(* The counters stay in the width of a u32 and every window is a window. *)
TypeOK ==
    /\ rule \in [Rules -> RuleState]
    /\ event \in [Rules -> {"none", "firing", "resolved"}]
    /\ recent \in [Rules -> [1 .. HOLD_TICKS -> {"over", "under", "none"}]]

(* The counter that can change a rule's state is exactly the length of the
   run of equal conditions at the end of its window, and it never reaches
   HOLD_TICKS without the state changing: the other counter, which keeps
   growing and wraps, is never the one that decides. *)
EndsInRun(w, n, s) ==
    /\ n < HOLD_TICKS
    /\ \A i \in 1 .. HOLD_TICKS : i > HOLD_TICKS - n => w[i] = s
    /\ w[HOLD_TICKS - n] # s

CountersMatchWindow ==
    \A r \in Rules : IF Firing(r) THEN EndsInRun(recent[r], rule[r].under, "under")
                                  ELSE EndsInRun(recent[r], rule[r].over, "over")

(* A dashboard shows how long an alert has been on: the start of an alert
   does not move while it is on, whatever the clock or the value does. *)
SinceStable ==
    [][\A r \in Rules :
          Firing(r) /\ Firing(r)' => rule'[r].firing_since = rule[r].firing_since]_vars

(* A webhook receiver that only sees events knows which alerts are on, and
   the value in an event backs it up: what an event calls firing is shown
   over its threshold, with the one decimal it is shown with. *)
EventsTellTransitions ==
    [][\A r \in Rules :
          /\ event'[r] = "firing" <=> ~Firing(r) /\ Firing(r)'
          /\ event'[r] = "resolved" <=> Firing(r) /\ ~Firing(r)'
          /\ event'[r] = "firing" => shown'[r] > AlertSpec[r].threshold
          /\ event'[r] = "resolved" => ~(shown'[r] > AlertSpec[r].threshold)]_vars

(* The counters implement the window of Hysteresis: three samples over the
   threshold in a row and nothing else starts an alert, three in a row that
   are not over it and nothing else end it. *)
Window == INSTANCE Hysteresis
              WITH firing <- [r \in Rules |-> Firing(r)]

RefinesHysteresis == Window!Spec

(* A condition that stays over its threshold is eventually reported for
   good, and one that stays under it is eventually resolved for good,
   even after the counters have wrapped. *)
AlertsSettle ==
    \A r \in Rules :
        /\ <>[](recent[r][HOLD_TICKS] = "over") => <>[]Firing(r)
        /\ <>[](recent[r][HOLD_TICKS] = "under") => <>[]~Firing(r)
===============================================================================
