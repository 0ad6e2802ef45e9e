----------------------------- MODULE SensorAlerts -----------------------------
(***************************************************************************)
(* The temperature path: src/collectors/sensors.rs keeps the hottest       *)
(* MAX_TEMPS of the host's sensors, and the alert rules only ever see what *)
(* it kept.  A tick reads the sensors, builds the snapshot around them and *)
(* evaluates the rules (AlertEngine).  The host offers its sensors in no   *)
(* particular order, so which of two equally hot ones is kept is not       *)
(* determined.                                                             *)
(***************************************************************************)
EXTENDS AlertEngine

CONSTANTS
    MAX_TEMPS,      \* 16 in the code
    HostReadings    \* what a tick may find: [temps, rest], the sensors'
                    \* readings and the rest of the snapshot

VARIABLE
    hot             \* history: for how many ticks a sensor in r's scope has
                    \* been over the threshold, up to HOLD_TICKS

sensorVars == <<vars, hot>>

TempRules == { r \in Rules : AlertSpec[r].metric = "temp" }

ASSUME TempsAssumption ==
    MAX_TEMPS \in Nat \ {0} /\ \A r \in TempRules : AlertSpec[r].threshold \in Int
ASSUME HostAssumption ==
    \A h \in HostReadings :
        /\ IsFiniteSet(h.temps) /\ \A t \in h.temps : t.temp_c \in Int
        /\ \A T \in SUBSET h.temps : None # [temps |-> T]
        /\ "sensors" \in DOMAIN h.rest

(* Mutant: sorts the coldest first. *)
KeptColdest(readings) ==
    LET live == { t \in readings : t.temp_c > 0 } IN
    { T \in SUBSET live :
        /\ Cardinality(T) = Min({MAX_TEMPS, Cardinality(live)})
        /\ \A t \in T, u \in live \ T : t.temp_c <= u.temp_c }

(* sort_by hottest first, truncate *)
Kept(readings) ==
    LET live == { t \in readings : t.temp_c > 0 } IN
    { T \in SUBSET live :
        /\ Cardinality(T) = Min({MAX_TEMPS, Cardinality(live)})
        /\ \A t \in T, u \in live \ T : t.temp_c >= u.temp_c }

(* The panel is hidden when there is neither a temperature nor a fan. *)
ReadSensors(temps, fans) ==
    IF temps = {} /\ ~fans THEN None ELSE [temps |-> temps]

SensorInit ==
    /\ Init
    /\ hot = [r \in TempRules |-> 0]

InScopeOver(r, readings) ==
    \E t \in readings : /\ InScope(AlertSpec[r], t.label)
                        /\ t.temp_c > 0
                        /\ Rounded(t.temp_c) > AlertSpec[r].threshold

Streak(n) == Min({n + 1, HOLD_TICKS})

Tick(readings, rest, fans, ts) ==
    /\ \E temps \in Kept(readings) :
          Eval([rest EXCEPT !.sensors = ReadSensors(temps, fans)], ts)
    /\ hot' = [r \in TempRules |-> IF InScopeOver(r, readings) THEN Streak(hot[r]) ELSE 0]

SensorNext ==
    \E host \in HostReadings, fans \in BOOLEAN, ts \in Timestamps :
        Tick(host.temps, host.rest, fans, ts)

SensorSpec == SensorInit /\ [][SensorNext]_sensorVars

(* The sampler samples for ever. *)
FairSensorSpec == SensorSpec /\ WF_sensorVars(SensorNext)

-----------------------------------------------------------------------------
(* A rule without a target reports the host's hottest sensor: leaving cooler
   sensors out of the snapshot never hides what it looks for. *)
HottestIsSeen ==
    \A r \in TempRules : AlertSpec[r].target = None /\ hot[r] = HOLD_TICKS => Firing(r)

(* The same promise as HottestIsSeen for rules scoped to a sensor: "temp to a
   sensor-label substring" (README), "scope to a target" (src/alerts.rs).
   It does not hold: a sensor that is over its threshold but not among the
   MAX_TEMPS hottest is not in the snapshot. *)
ScopedIsSeen ==
    \A r \in TempRules : AlertSpec[r].target # None /\ hot[r] = HOLD_TICKS => Firing(r)
===============================================================================
