----------------------------- MODULE MCEntryPoint ------------------------------
(***************************************************************************)
(* Command lines of up to four arguments, in which every flag of a kind    *)
(* can come twice, without its value, as the value of another and after    *)
(* one that ends the process, and the environment gives values that are    *)
(* right, wrong, empty and, for --top, a number that is not an integer.    *)
(* With --once, a poll is two units, so that the main thread can be held   *)
(* up by half a poll, when it wakes up and between its two looks; at 29 s  *)
(* the first sample comes before, at and after the deadline, at 40 s only  *)
(* after it.  A behaviour that begins with a server is one of BasicAuth.   *)
(***************************************************************************)
EXTENDS EntryPoint, BasicAuth

MCTexts == {"2", "2.0", "0", "3600", "29", "40", "u:p", "cpu>90", "cpu>100", "none", "", "127.0.0.1:8077", "d"}

MCWords == {"--interval", "--top", "--auth", "--alert", "--once", "--version", "--check-update",
            "29", "40", "u:p", "cpu>90", "cpu>100", "--nonsense"}

MCNumber ==
    [t \in MCTexts \cup MCWords |->
        CASE t \in {"2", "2.0"} -> 20 [] t = "0" -> 0 [] t = "3600" -> 36000
          [] t = "29" -> 290 [] t = "40" -> 400 [] OTHER -> NaN]

MCWholeTexts == {"2", "0", "3600", "29", "40"}

MCSpecOf ==
    [t \in MCTexts \cup MCWords |->
        [cut |-> t \in {"cpu>90", "cpu>100"}, metric |-> "cpu", target |-> Unset,
         threshold |-> IF t = "cpu>90" THEN 900 ELSE IF t = "cpu>100" THEN 1000 ELSE NaN]]

MCNone == [s \in Settings |-> Unset]

MCEnvs ==
    { [value |-> MCNone, state_directory |-> << >>, xdg |-> "", home |-> "d"],
      [value |-> [MCNone EXCEPT !["--top"] = "2.0", !["--auth"] = "u:p"],
       state_directory |-> <<"", "d">>, xdg |-> "d", home |-> "d"],
      [value |-> [MCNone EXCEPT !["--auth"] = "", !["--history-file"] = "none"],
       state_directory |-> <<"d">>, xdg |-> "d", home |-> Unset] }

MCArgvs == UNION { [1 .. n -> MCWords] : n \in 0 .. 4 }

MCCurrent == <<0, 12, 0>>

MCAnswers == {NoAnswer, Unparsable, <<0, 9, 12>>, <<0, 12, 0>>, <<1, 0, 0>>}
MCCredentials == UNION { [1 .. k -> {0, 255}] : k \in 1 .. 4 }

MCInit ==
    \/ MainInit /\ configured = << >> /\ auth = << >> /\ asked = << >> /\ admitted = "none"
    \/ argv = << >> /\ ParseInit /\ Init /\ interval = 0 /\ stage = "serve" /\ AuthInit

MCNext ==
    \/ MainNext /\ UNCHANGED authVars
    \/ configured # << >> /\ AuthNext /\ UNCHANGED mainStageVars

MCSpec == MCInit /\ [][MCNext]_<<mainStageVars, authVars>> /\ MainFairness
===============================================================================
