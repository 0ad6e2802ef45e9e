------------------------------ MODULE EntryPoint -------------------------------
(***************************************************************************)
(* main of src/main.rs: the command line is read, then the sampler started *)
(* and either one sample printed (OnceMode) or the dashboard served        *)
(* (HttpServer). The sampler runs at the interval the command line gave.   *)
(***************************************************************************)
EXTENDS CommandLine, OnceMode

VARIABLE stage      \* "config", "once" or "serve"

mainStageVars == <<parseVars, vars, stage>>

MainInit == ParseInit /\ Init /\ interval = 0 /\ stage = "config"

ReadConfig ==
    /\ stage = "config" /\ ParseNext
    /\ UNCHANGED <<vars, stage>>

(* The sampler starts; what from_args worked with is gone. A poll is two
   units of the interval, and two units are a tenth of a second. *)
Started ==
    /\ stage = "config" /\ left = Accepted
    /\ interval' = 2 * config.setting["--interval"]
    /\ stage' = IF "--once" \in config.switched THEN "once" ELSE "serve"
    /\ left' = Returned /\ argv' = << >> /\ at' = 1 /\ given' = [s \in Settings |-> Unset]
    /\ alert_specs' = << >> /\ switched' = {} /\ config' = NoConfig
    /\ UNCHANGED <<env, now, json, phase, until, work, ready, mainVars, status, requested>>

Once(A) == stage = "once" /\ status = Running /\ A /\ UNCHANGED <<parseVars, stage>>

MainNext == ReadConfig \/ Started \/ Once(Next)

Ended == left \in 0 .. 2 \/ status # Running

(* The main thread runs, beside the sampler thread and the clock. *)
MainFairness ==
    /\ WF_mainStageVars(ReadConfig \/ Started)
    /\ WF_mainStageVars(Once(Advance))
    /\ WF_mainStageVars(Once(Main))
    /\ WF_mainStageVars(Once(Sampler))

MainSpec == MainInit /\ [][MainNext]_mainStageVars /\ MainFairness

-----------------------------------------------------------------------------
(* Properties *)

(* A process that does not serve ends, by what it prints, by a refusal, by
   the deadline or by the signal. *)
OnceEnds == <>(Ended \/ stage = "serve")
===============================================================================
