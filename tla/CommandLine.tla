------------------------------ MODULE CommandLine ------------------------------
(***************************************************************************)
(* Config::from_args of src/config.rs, argument by argument: the           *)
(* environment gives the first values, flags replace them, some flags end  *)
(* the process at once, and only then are the values that remain looked    *)
(* at.  A setting is named by its flag.                                    *)
(*                                                                         *)
(* What the library makes of a text (a number, an address, a text with a   *)
(* colon) is a constant; numbers are in tenths.  --check-update is         *)
(* src/update.rs, with the answer of the releases API from a set.          *)
(***************************************************************************)
EXTENDS Integers, Sequences

CONSTANTS
    Number,         \* what a text parses to, NaN if nothing or negative
    WholeTexts,     \* the texts that parse to an integer: 2 but not 2.0
    Addresses, WithColon, \* the texts that are socket addresses; that have a colon
    SpecOf,         \* the parts of an --alert text, cut at the first > and at a : before it
    Envs,           \* environments
    Argvs,          \* arguments after the program's name
    Current,        \* version of the program: a triple
    Answers         \* what the releases API may say: a version, Unparsable, or no answer

NaN == -1
Unset == "unset"
Unparsable == << >>
NoAnswer == <<"none">>

Settings == {"--bind", "--interval", "--top", "--auth", "--history", "--history-file",
             "--container-socket", "--webhook"}
Switches == {"--no-docker", "--once"}
Prints == {"--version", "-V", "--help", "-h"}
TakesValue == Settings \cup {"--alert"}

ASSUME CommandLineAssumption ==
    /\ \A t \in DOMAIN Number : Number[t] \in Nat \cup {NaN}
    /\ \A t \in WholeTexts \cap DOMAIN Number : Number[t] % 10 = 0
    /\ \A e \in Envs : DOMAIN e.value = Settings
    /\ Argvs \subseteq Seq(STRING)
    /\ Len(Current) = 3

VARIABLES
    env,            \* [value, state_directory, xdg, home]
    argv,
    at,             \* the argument to be read next
    given,          \* the text of each setting so far
    alert_specs,    \* the texts of the rules
    switched,       \* the switches seen
    left,           \* Reading, Accepted, Returned or the exit status
    config          \* the result

parseVars == <<env, argv, at, given, alert_specs, switched, left, config>>

Reading == -1
Accepted == -2
Returned == -3     \* from_args is over
NoConfig == [alerts |-> << >>]

Default(s) ==
    CASE s = "--bind"     -> "127.0.0.1:8077"
      [] s = "--interval" -> "2"
      [] s = "--top"      -> "0"
      [] s = "--history"  -> "3600"
      [] OTHER            -> Unset

FromEnv(s) == IF env.value[s] = Unset THEN Default(s) ELSE env.value[s]

ParseInit ==
    /\ env \in Envs /\ argv \in Argvs
    /\ at = 1 /\ given = [s \in Settings |-> FromEnv(s)]
    /\ alert_specs = << >> /\ switched = {}
    /\ left = Reading /\ config = NoConfig

-----------------------------------------------------------------------------
(* Which values are usable *)

Within(text, low, high) == Number[text] # NaN /\ low <= Number[text] /\ Number[text] <= high

Whole(text) == text \in WholeTexts

Usable(s, text) ==
    CASE s = "--bind"     -> text \in Addresses
      [] s = "--interval" -> Within(text, 5, 36000)
      [] s = "--top"      -> Within(text, 0, 100000) /\ Whole(text)
      [] s = "--auth"     -> text = Unset \/ text \in WithColon
      [] s = "--history"  -> Within(text, 600, 864000) /\ Whole(text)
      [] OTHER            -> TRUE

(* parse_alert *)
UsableSpec(text) ==
    LET spec == SpecOf[text]
        max  == IF spec.metric = "temp" THEN 2000 ELSE 1000
    IN  /\ spec.cut
        /\ spec.metric \in {"cpu", "mem", "swap", "disk", "temp"}
        /\ spec.target # Unset => spec.metric \in {"disk", "temp"} /\ spec.target # ""
        /\ spec.threshold # NaN /\ 0 < spec.threshold /\ spec.threshold < max

-----------------------------------------------------------------------------
(* The loop over the arguments *)

Reads(flags) == left = Reading /\ at <= Len(argv) /\ argv[at] \in flags

Leave(status) ==
    /\ left' = status
    /\ UNCHANGED <<env, argv, at, given, alert_specs, switched, config>>

(* Mutant: the first flag wins. *)
TakeSettingOnce ==
    /\ Reads(Settings) /\ at < Len(argv)
    /\ given' = IF given[argv[at]] = FromEnv(argv[at])
                THEN [given EXCEPT ![argv[at]] = argv[at + 1]] ELSE given
    /\ at' = at + 2
    /\ UNCHANGED <<env, argv, alert_specs, switched, left, config>>

(* Mutant: a value is looked at when it is read. *)
TakeSettingChecked ==
    /\ Reads(Settings) /\ at < Len(argv)
    /\ given' = [given EXCEPT ![argv[at]] = argv[at + 1]]
    /\ left' = IF Usable(argv[at], argv[at + 1]) THEN left ELSE 2
    /\ at' = at + 2
    /\ UNCHANGED <<env, argv, alert_specs, switched, config>>

(* The next argument is the value, whatever it looks like. *)
TakeSetting ==
    /\ Reads(Settings) /\ at < Len(argv)
    /\ given' = [given EXCEPT ![argv[at]] = argv[at + 1]]
    /\ at' = at + 2
    /\ UNCHANGED <<env, argv, alert_specs, switched, left, config>>

TakeAlert ==
    /\ Reads({"--alert"}) /\ at < Len(argv)
    /\ alert_specs' = Append(alert_specs, argv[at + 1])
    /\ at' = at + 2
    /\ UNCHANGED <<env, argv, given, switched, left, config>>

ValueMissing == Reads(TakesValue) /\ at = Len(argv) /\ Leave(2)

TakeSwitch ==
    /\ Reads(Switches)
    /\ switched' = switched \cup {argv[at]}
    /\ at' = at + 1
    /\ UNCHANGED <<env, argv, given, alert_specs, left, config>>

PrintAndExit == Reads(Prints) /\ Leave(0)

(* is_newer: triples in order of their parts. *)
IsNewer(latest, current) ==
    /\ latest # Unparsable
    /\ \E i \in 1 .. 3 : latest[i] > current[i] /\ \A j \in 1 .. i - 1 : latest[j] = current[j]

(* check: 1 when there is no answer or it has no tag. *)
CheckUpdate ==
    /\ Reads({"--check-update"})
    /\ \E answer \in Answers :
          Leave(IF answer = NoAnswer THEN 1 ELSE IF IsNewer(answer, Current) THEN 2 ELSE 0)

UnknownFlag ==
    /\ left = Reading /\ at <= Len(argv)
    /\ argv[at] \notin TakesValue \cup Switches \cup Prints \cup {"--check-update"}
    /\ Leave(2)

-----------------------------------------------------------------------------
(* After the loop *)

(* resolve_history_file: << >> is no file, otherwise the directory and the
   convention it follows. *)
ResolveHistoryFile(text) ==
    CASE text \in {"none", ""} -> << >>
      [] text \notin {"none", "", Unset} -> <<"explicit", text>>
      [] text = Unset ->
           IF env.state_directory # << >> /\ Head(env.state_directory) # ""
           THEN <<"state", Head(env.state_directory)>>
           ELSE IF env.xdg \notin {Unset, ""} THEN <<"xdg", env.xdg>>
           ELSE IF env.home \notin {Unset, ""} THEN <<"home", env.home>> ELSE << >>

Value(s, text) ==
    CASE s \in {"--interval", "--top", "--history"} -> Number[text]
      [] s = "--history-file"     -> ResolveHistoryFile(text)
      [] s = "--container-socket" -> IF text = "" THEN Unset ELSE text
      [] OTHER                    -> text

AllUsable ==
    /\ \A s \in Settings : Usable(s, given[s])
    /\ \A i \in DOMAIN alert_specs : UsableSpec(alert_specs[i])

Refuse == left = Reading /\ at > Len(argv) /\ ~AllUsable /\ Leave(2)

Accept ==
    /\ left = Reading /\ at > Len(argv) /\ AllUsable
    /\ left' = Accepted
    /\ config' = [setting |-> [s \in Settings |-> Value(s, given[s])],
                  switched |-> switched,
                  alerts |-> [i \in DOMAIN alert_specs |-> SpecOf[alert_specs[i]]]]
    /\ UNCHANGED <<env, argv, at, given, alert_specs, switched>>

ParseNext ==
    \/ TakeSetting \/ TakeAlert \/ ValueMissing \/ TakeSwitch
    \/ PrintAndExit \/ CheckUpdate \/ UnknownFlag
    \/ Refuse \/ Accept

-----------------------------------------------------------------------------
(* Properties *)

(* Which arguments are flags, and which the values of the flag before them. *)
FlagsOf(args) ==
    LET flag[i \in 1 .. Len(args)] == i = 1 \/ ~(flag[i - 1] /\ args[i - 1] \in TakesValue)
    IN  flag

IsFlag(i) == FlagsOf(argv)[i]

ValuesOf(s) == { i \in 2 .. Len(argv) : IsFlag(i - 1) /\ argv[i - 1] = s }

Effective(s) ==
    IF ValuesOf(s) = {} THEN FromEnv(s)
    ELSE argv[CHOOSE i \in ValuesOf(s) : \A j \in ValuesOf(s) : j <= i]

(* "flags take precedence": a setting is the last value a flag gave it, else
   the environment's, else the default; every rule is kept, in order. *)
FlagsWin ==
    left = Accepted =>
        /\ \A s \in Settings : config.setting[s] = Value(s, Effective(s))
        /\ \A s \in Switches : s \in config.switched <=> \E i \in DOMAIN argv : IsFlag(i) /\ argv[i] = s
        /\ \E place \in [DOMAIN config.alerts -> ValuesOf("--alert")] :
              /\ \A i, j \in DOMAIN config.alerts : i < j => place[i] < place[j]
              /\ \A v \in ValuesOf("--alert") : \E i \in DOMAIN config.alerts : place[i] = v
              /\ \A i \in DOMAIN config.alerts : config.alerts[i] = SpecOf[argv[place[i]]]

(* The program refuses to start exactly for a reason the user can see in what
   counts: a value that a later flag replaces does no harm, whatever it is. *)
RefusedForAReason ==
    left \in {Accepted, 2} /\ ~(at <= Len(argv) /\ argv[at] = "--check-update") =>
        (left = 2 <=>
            \/ \E i \in DOMAIN argv : IsFlag(i) /\ argv[i] \notin TakesValue \cup Switches \cup Prints \cup {"--check-update"}
            \/ argv # << >> /\ IsFlag(Len(argv)) /\ argv[Len(argv)] \in TakesValue
            \/ \E s \in Settings : ~Usable(s, Effective(s))
            \/ \E i \in ValuesOf("--alert") : ~UsableSpec(argv[i]))
===============================================================================
