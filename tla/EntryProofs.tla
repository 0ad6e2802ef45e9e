------------------------------ MODULE EntryProofs ------------------------------
(***************************************************************************)
(* Proofs about the command line and --once, for arguments of any number   *)
(* and any environment, and for any interval, deadline and work; and about *)
(* the password of the command line, for any bytes.                        *)
(***************************************************************************)
EXTENDS EntryPoint, BasicAuth, ListLemmas, FiniteSetTheorems

-----------------------------------------------------------------------------
(* print_first_snapshot *)

(* What is printed is a sample: the text the process starts with is not
   recognised, and no sample is taken back. *)
OnceInv ==
    /\ json.real \/ json.mentions
    /\ main = "print" => copy.real
    /\ out # "none" => main = "print"

LEMMA OnceStep == OnceInv /\ [MainNext]_mainStageVars => OnceInv'
<1> SUFFICES ASSUME OnceInv, [MainNext]_mainStageVars
             PROVE  OnceInv'
  OBVIOUS
<1> USE DEF OnceInv
<1>1. CASE ReadConfig \/ Started \/ UNCHANGED mainStageVars
  BY <1>1 DEF ReadConfig, Started, mainStageVars, vars, samplerVars, mainVars
<1>2. CASE Advance \/ Signal
  BY <1>2 DEF Advance, Signal, samplerVars, mainVars
<1>3. CASE Main
  BY <1>3 DEF Main, PollPrints, PollMisses, PollGivesUp, PollAgain, PrintPart,
              PrintAndReturn, Recognised, samplerVars, mainVars
<1>4. CASE Sampler
  BY <1>4 DEF Sampler, SleepNoticesSignal, Exit, WarmedUp, SleepEnds, Publish, samplerVars, mainVars
<1>5. QED  BY <1>1, <1>2, <1>3, <1>4 DEF MainNext, Once, Next

(* What --once prints is a sample, never the text of the warm-up. *)
THEOREM OncePrintsSample == MainSpec => []PrintsRealSample
<1>1. MainInit => OnceInv
  BY DEF MainInit, Init, Initial, OnceInv
<1>2. OnceInv => PrintsRealSample
  BY DEF OnceInv, PrintsRealSample
<1>3. QED  BY <1>1, <1>2, OnceStep, PTL DEF MainSpec

(* As long as no snapshot contains the text, every sample is recognised, and
   what the last look has missed has come since. *)
ReadyInv ==
    /\ now \in 0 .. MaxTime /\ wake \in Int /\ ready \in Int
    /\ json.mentions => ready = Never
    /\ main = "clock" => wake <= now /\ now <= wake + Lateness /\ wake <= ready
    /\ status = 1 => ready > Deadline - Lateness

LEMMA ReadyStep ==
    TRUE \notin Mentions /\ ReadyInv /\ [MainNext]_mainStageVars => ReadyInv'
<1> SUFFICES ASSUME TRUE \notin Mentions, ReadyInv, [MainNext]_mainStageVars
             PROVE  ReadyInv'
  OBVIOUS
<1> USE OnceAssumption DEF ReadyInv
<1>1. CASE ReadConfig \/ Started \/ UNCHANGED mainStageVars
  BY <1>1 DEF ReadConfig, Started, mainStageVars, vars, samplerVars, mainVars
<1>2. CASE Advance \/ Signal
  BY <1>2 DEF Advance, Signal, samplerVars, mainVars
<1>3. ASSUME PollMisses, status = Running
      PROVE  ReadyInv'
  <2>1. ready = Never /\ wake' = now
    BY <1>3 DEF PollMisses, Recognised
  <2>2. QED  BY <1>3, <2>1 DEF PollMisses, samplerVars, Never, Running
<1>4. ASSUME PollGivesUp
      PROVE  ReadyInv'
  <2>1. UNCHANGED <<now, wake, ready, json, main>> /\ ready > Deadline - Lateness
    BY <1>4 DEF PollGivesUp, samplerVars, mainVars
  <2>2. QED  BY <2>1
<1>5. ASSUME PollAgain, status = Running
      PROVE  ReadyInv'
  BY <1>5 DEF PollAgain, samplerVars, Running
<1>6. CASE PollPrints \/ PrintPart \/ PrintAndReturn
  BY <1>6 DEF PollPrints, PrintPart, PrintAndReturn, samplerVars
<1>7. CASE SleepNoticesSignal \/ WarmedUp \/ \E w \in WorkTimes : SleepEnds(w)
  BY <1>7 DEF SleepNoticesSignal, Exit, WarmedUp, SleepEnds, samplerVars, mainVars
<1>8. ASSUME NEW mentions \in Mentions, Publish(mentions), status = Running
      PROVE  ReadyInv'
  <2>1. mentions = FALSE
    BY <1>8, Zenon DEF OnceAssumption
  <2>2. json' = [real |-> TRUE, mentions |-> FALSE] /\ UNCHANGED <<now, wake, main, status>>
    BY <1>8, <2>1 DEF Publish, mainVars
  <2>3. ready' = now \/ ready' = ready
    BY <1>8 DEF Publish
  <2>4. QED  BY <1>8, <2>2, <2>3 DEF Running
<1>9. QED  BY <1>1, <1>2, <1>3, <1>4, <1>5, <1>6, <1>7, <1>8 DEF MainNext, Once, Next, Main, Sampler

(* Unless a snapshot contains the text the program looks for, as one that
   lists a process of that name does, --once fails only if no sample came
   before the deadline, or one so late that the main thread had made its last
   look at the snapshot and was held up before it looked at the clock. *)
THEOREM OnceGivesUpLast ==
    TRUE \notin Mentions => (MainSpec => []GivesUpOnlyWithoutSample)
<1> SUFFICES ASSUME TRUE \notin Mentions
             PROVE  MainSpec => []GivesUpOnlyWithoutSample
  OBVIOUS
<1>1. MainInit => ReadyInv
  BY OnceAssumption DEF MainInit, Init, Initial, ReadyInv, Never, Running
<1>2. ReadyInv => GivesUpOnlyWithoutSample
  BY DEF ReadyInv, GivesUpOnlyWithoutSample
<1>3. QED
  <2>1. ReadyInv /\ [MainNext]_mainStageVars => ReadyInv'
    BY ReadyStep
  <2>2. QED  BY <1>1, <1>2, <2>1, PTL DEF MainSpec

-----------------------------------------------------------------------------
(* Which arguments are flags.  The definition of FlagsOf looks for a function
   that satisfies its equation; that there is one is shown for one argument
   more at a time. *)
Alternates(f, args, m) ==
    f = [i \in 1 .. m |-> i = 1 \/ ~(f[i - 1] /\ args[i - 1] \in TakesValue)]

LEMMA AlternatesOneMore ==
    ASSUME NEW args, NEW m \in Nat, NEW f, Alternates(f, args, m)
    PROVE  \E g : Alternates(g, args, m + 1)
<1> DEFINE e(i) == i = 1 \/ ~(f[i - 1] /\ args[i - 1] \in TakesValue)
           g == [i \in 1 .. m + 1 |-> e(i)]
<1>1. f = [i \in 1 .. m |-> e(i)]
  BY DEF Alternates
<1>2. \A i \in 1 .. m : g[i] = f[i]
  <2> SUFFICES ASSUME NEW i \in 1 .. m
               PROVE  g[i] = f[i]
    OBVIOUS
  <2>1. i \in 1 .. m + 1
    OBVIOUS
  <2>2. g[i] = e(i)
    BY <2>1
  <2>3. f[i] = e(i)
    BY <1>1, Zenon
  <2>4. QED  BY <2>2, <2>3, Zenon
<1> HIDE DEF g
<1>3. \A i \in 1 .. m + 1 : i = 1 \/ i - 1 \in 1 .. m
  OBVIOUS
<1>4. ASSUME NEW i \in 1 .. m + 1
      PROVE  e(i) = (i = 1 \/ ~(g[i - 1] /\ args[i - 1] \in TakesValue))
  <2>1. CASE i = 1
    BY <2>1, Zenon
  <2>2. CASE i # 1
    <3>1. g[i - 1] = f[i - 1]
      BY <1>2, <1>3, <2>2, Zenon
    <3>2. QED  BY <2>2, <3>1, Zenon
  <2>3. QED  BY <2>1, <2>2
<1>5. g = [i \in 1 .. m + 1 |-> i = 1 \/ ~(g[i - 1] /\ args[i - 1] \in TakesValue)]
  BY <1>4, Zenon DEF g
<1>6. QED  BY <1>5 DEF Alternates

LEMMA FlagsAlternate ==
    ASSUME NEW args, Len(args) \in Nat
    PROVE  Alternates(FlagsOf(args), args, Len(args))
<1> DEFINE S == { m \in Nat : \E f : Alternates(f, args, m) }
<1>1. 0 \in S
  <2> DEFINE f == [i \in {} |-> TRUE]
  <2>1. f = [i \in 1 .. 0 |-> i = 1 \/ ~(f[i - 1] /\ args[i - 1] \in TakesValue)]
    OBVIOUS
  <2>2. QED  BY <2>1 DEF Alternates
<1>2. \A m \in Nat : m \in S => m + 1 \in S
  BY AlternatesOneMore
<1> HIDE DEF S
<1>3. Len(args) \in S
  BY <1>1, <1>2, SetInduction
<1>4. \E f : f = [i \in 1 .. Len(args) |-> i = 1 \/ ~(f[i - 1] /\ args[i - 1] \in TakesValue)]
  BY <1>3 DEF S, Alternates
<1>5. QED  BY <1>4, Zenon DEF FlagsOf, Alternates

(* The first argument is a flag, and every one that is not the value of the
   one before it. *)
LEMMA FlagIs ==
    ASSUME Len(argv) \in Nat
    PROVE  /\ 1 \in 1 .. Len(argv) => IsFlag(1)
           /\ \A i \in 1 .. Len(argv) :
                 i # 1 => (IsFlag(i) <=> ~(IsFlag(i - 1) /\ argv[i - 1] \in TakesValue))
<1> DEFINE f == FlagsOf(argv)
<1>1. f = [i \in 1 .. Len(argv) |-> i = 1 \/ ~(f[i - 1] /\ argv[i - 1] \in TakesValue)]
  BY FlagsAlternate DEF Alternates
<1> HIDE DEF f
<1>2. \A i \in 1 .. Len(argv) : f[i] = (i = 1 \/ ~(f[i - 1] /\ argv[i - 1] \in TakesValue))
  BY <1>1, Zenon
<1>3. \A i : IsFlag(i) <=> f[i]
  BY DEF IsFlag, f
<1>4. QED  BY <1>2, <1>3, Zenon

-----------------------------------------------------------------------------
(* What the arguments before k say. *)
Past(s, k) == { i \in ValuesOf(s) : i < k }

GivenUpTo(g, k) ==
    \A s \in Settings :
        \/ Past(s, k) = {} /\ g[s] = FromEnv(s)
        \/ \E i \in Past(s, k) : (\A j \in Past(s, k) : j <= i) /\ g[s] = argv[i]

SwitchedUpTo(w, k) ==
    \A s \in Switches : s \in w <=> \E i \in 1 .. k - 1 : IsFlag(i) /\ argv[i] = s

Places(as, place, P) ==
    /\ place \in [1 .. Len(as) -> P]
    /\ \A i, j \in 1 .. Len(as) : i < j => place[i] < place[j]
    /\ \A v \in P : \E i \in 1 .. Len(as) : place[i] = v
    /\ \A i \in 1 .. Len(as) : as[i] = argv[place[i]]

AlertsUpTo(as, k) == \E place : Places(as, place, Past("--alert", k))

KnownUpTo(k) ==
    \A i \in 1 .. k - 1 : IsFlag(i) =>
        /\ argv[i] \in TakesValue \cup Switches
        /\ argv[i] \in TakesValue => i + 1 < k

ReadUpTo(g, w, as, k) ==
    /\ k \in 1 .. Len(argv) + 1
    /\ k <= Len(argv) => IsFlag(k)
    /\ g = [s \in Settings |-> g[s]] /\ as \in Seq(STRING)
    /\ GivenUpTo(g, k) /\ SwitchedUpTo(w, k) /\ AlertsUpTo(as, k) /\ KnownUpTo(k)

LEMMA ValuesFollowFlags ==
    ASSUME argv \in Seq(STRING), NEW k \in 1 .. Len(argv), IsFlag(k), NEW s \in TakesValue
    PROVE  /\ k \notin ValuesOf(s)
           /\ k < Len(argv) => (k + 1 \in ValuesOf(s) <=> argv[k] = s)
           /\ ValuesOf(s) \subseteq 2 .. Len(argv)
<1>1. Len(argv) \in Nat
  BY LenProperties
<1>2. k # 1 => ~(IsFlag(k - 1) /\ argv[k - 1] \in TakesValue)
  BY <1>1, FlagIs
<1>3. k \notin ValuesOf(s)
  BY <1>1, <1>2 DEF ValuesOf
<1>4. k < Len(argv) => (k + 1 \in ValuesOf(s) <=> argv[k] = s)
  <2>1. k < Len(argv) => k + 1 \in 2 .. Len(argv) /\ (k + 1) - 1 = k
    BY <1>1
  <2>2. QED  BY <2>1 DEF ValuesOf
<1>5. QED  BY <1>3, <1>4 DEF ValuesOf

(* A flag with its value, and a flag that takes none. *)
LEMMA PastValue ==
    ASSUME argv \in Seq(STRING), NEW k \in 1 .. Len(argv), IsFlag(k), k < Len(argv),
           argv[k] \in TakesValue
    PROVE  /\ \A s \in TakesValue :
                 Past(s, k + 2) = IF argv[k] = s THEN Past(s, k) \cup {k + 1} ELSE Past(s, k)
           /\ ~IsFlag(k + 1)
           /\ k + 2 <= Len(argv) => IsFlag(k + 2)
<1>1. Len(argv) \in Nat
  BY LenProperties
<1>2. ASSUME NEW s \in TakesValue
      PROVE  Past(s, k + 2) = IF argv[k] = s THEN Past(s, k) \cup {k + 1} ELSE Past(s, k)
  <2>1. /\ k \notin ValuesOf(s) /\ (k + 1 \in ValuesOf(s) <=> argv[k] = s)
        /\ ValuesOf(s) \subseteq 2 .. Len(argv)
    BY ValuesFollowFlags
  <2>2. \A i \in 2 .. Len(argv) : i < k + 2 <=> i < k \/ i = k \/ i = k + 1
    BY <1>1
  <2>3. \A i \in 2 .. Len(argv) : ~(k + 1 < k)
    BY <1>1
  <2>4. QED  BY <2>1, <2>2, <2>3 DEF Past
<1>3. k + 1 \in 1 .. Len(argv) /\ k + 1 # 1 /\ (k + 1) - 1 = k
  BY <1>1
<1>4. ~IsFlag(k + 1)
  BY <1>1, <1>3, FlagIs
<1>5. k + 2 <= Len(argv) => k + 2 \in 1 .. Len(argv) /\ k + 2 # 1 /\ (k + 2) - 1 = k + 1
  BY <1>1
<1>6. k + 2 <= Len(argv) => IsFlag(k + 2)
  BY <1>1, <1>4, <1>5, FlagIs
<1>7. QED  BY <1>2, <1>4, <1>6

LEMMA PastSwitch ==
    ASSUME argv \in Seq(STRING), NEW k \in 1 .. Len(argv), IsFlag(k),
           argv[k] \notin TakesValue
    PROVE  /\ \A s \in TakesValue : Past(s, k + 1) = Past(s, k)
           /\ k + 1 <= Len(argv) => IsFlag(k + 1)
<1>1. Len(argv) \in Nat
  BY LenProperties
<1>2. ASSUME NEW s \in TakesValue
      PROVE  Past(s, k + 1) = Past(s, k)
  <2>1. k \notin ValuesOf(s) /\ ValuesOf(s) \subseteq 2 .. Len(argv)
    BY ValuesFollowFlags
  <2>2. \A i \in 2 .. Len(argv) : i < k + 1 <=> i < k \/ i = k
    BY <1>1
  <2>3. QED  BY <2>1, <2>2 DEF Past
<1>3. k + 1 <= Len(argv) => k + 1 \in 1 .. Len(argv) /\ k + 1 # 1 /\ (k + 1) - 1 = k
  BY <1>1
<1>4. QED  BY <1>1, <1>2, <1>3, FlagIs

(* The arguments up to k + 1 of a flag with its value. *)
LEMMA NothingNew ==
    ASSUME argv \in Seq(STRING), NEW k \in 1 .. Len(argv), IsFlag(k), k < Len(argv),
           argv[k] \in TakesValue, NEW w, SwitchedUpTo(w, k), KnownUpTo(k)
    PROVE  SwitchedUpTo(w, k + 2) /\ KnownUpTo(k + 2)
<1>1. Len(argv) \in Nat
  BY LenProperties
<1>2. \A i \in 1 .. (k + 2) - 1 : i \in 1 .. k - 1 \/ i = k \/ i = k + 1
  BY <1>1
<1>3. \A i \in 1 .. k - 1 : i \in 1 .. (k + 2) - 1
  BY <1>1
<1>4. ~IsFlag(k + 1)
  BY PastValue
<1>5. argv[k] \notin Switches
  BY DEF TakesValue, Settings, Switches
<1>6. SwitchedUpTo(w, k + 2)
  BY <1>2, <1>3, <1>4, <1>5 DEF SwitchedUpTo
<1>7. KnownUpTo(k + 2)
  BY <1>1, <1>2, <1>4 DEF KnownUpTo
<1>8. QED  BY <1>6, <1>7

LEMMA SettingRead ==
    ASSUME argv \in Seq(STRING), NEW g, NEW w, NEW as, NEW k \in Nat, ReadUpTo(g, w, as, k),
           k < Len(argv), argv[k] \in Settings
    PROVE  ReadUpTo([g EXCEPT ![argv[k]] = argv[k + 1]], w, as, k + 2)
<1> DEFINE h == [g EXCEPT ![argv[k]] = argv[k + 1]]
<1>1. /\ Len(argv) \in Nat /\ k \in 1 .. Len(argv) /\ IsFlag(k)
      /\ argv[k] \in TakesValue /\ argv[k] # "--alert"
      /\ g = [s \in Settings |-> g[s]]
  <2>1. Len(argv) \in Nat
    BY LenProperties
  <2>2. k \in 1 .. Len(argv) /\ IsFlag(k)
    BY <2>1 DEF ReadUpTo
  <2>3. QED  BY <2>1, <2>2 DEF ReadUpTo, TakesValue, Settings
<1>2. /\ h = [s \in Settings |-> h[s]]
      /\ h[argv[k]] = argv[k + 1]
      /\ \A s \in Settings : s # argv[k] => h[s] = g[s]
  BY <1>1
<1> HIDE DEF h
<1>3. \A s \in Settings : s \in TakesValue
  BY DEF TakesValue
<1>4. /\ Past(argv[k], k + 2) = Past(argv[k], k) \cup {k + 1}
      /\ \A s \in TakesValue : s # argv[k] => Past(s, k + 2) = Past(s, k)
      /\ k + 2 <= Len(argv) => IsFlag(k + 2)
  BY <1>1, PastValue
<1>5. ASSUME NEW s \in Settings
      PROVE  \/ Past(s, k + 2) = {} /\ h[s] = FromEnv(s)
             \/ \E i \in Past(s, k + 2) : (\A j \in Past(s, k + 2) : j <= i) /\ h[s] = argv[i]
  <2>1. CASE s = argv[k]
    <3>1. k + 1 \in Past(s, k + 2) /\ h[s] = argv[k + 1]
      BY <1>2, <1>4, <2>1
    <3>2. \A j \in Past(s, k + 2) : j = k + 1 \/ (j \in 2 .. Len(argv) /\ j < k)
      BY <1>4, <2>1 DEF Past, ValuesOf
    <3>3. \A j \in Past(s, k + 2) : j <= k + 1
      BY <1>1, <3>2
    <3>4. QED  BY <3>1, <3>3
  <2>2. CASE s # argv[k]
    <3>1. Past(s, k + 2) = Past(s, k) /\ h[s] = g[s]
      BY <1>2, <1>3, <1>4, <2>2
    <3>2. QED  BY <3>1 DEF ReadUpTo, GivenUpTo
  <2>3. QED  BY <2>1, <2>2
<1>6. GivenUpTo(h, k + 2)
  BY <1>5 DEF GivenUpTo
<1>7. SwitchedUpTo(w, k + 2) /\ KnownUpTo(k + 2)
  BY <1>1, NothingNew DEF ReadUpTo
<1>8. AlertsUpTo(as, k + 2)
  <2>1. Past("--alert", k + 2) = Past("--alert", k)
    BY <1>1, <1>4 DEF TakesValue
  <2>2. QED  BY <2>1 DEF ReadUpTo, AlertsUpTo
<1>9. k + 2 \in 1 .. Len(argv) + 1
  BY <1>1
<1>10. QED  BY <1>2, <1>4, <1>6, <1>7, <1>8, <1>9 DEF ReadUpTo, h

LEMMA AppendFacts ==
    ASSUME NEW S, NEW q \in Seq(S), NEW x \in S
    PROVE  LET a == Append(q, x) IN
           /\ a \in Seq(S) /\ Len(q) \in Nat /\ Len(a) = Len(q) + 1
           /\ \A i \in 1 .. Len(q) : a[i] = q[i]
           /\ a[Len(q) + 1] = x
BY AppendProperties, LenProperties

(* One place more, after all the others. *)
LEMMA OnePlaceMore ==
    ASSUME NEW n \in Nat, NEW P, P \subseteq Nat, NEW place \in [1 .. n -> P], NEW q \in Nat,
           \A i, j \in 1 .. n : i < j => place[i] < place[j],
           \A v \in P : \E i \in 1 .. n : place[i] = v,
           \A v \in P : v < q
    PROVE  \E next \in [1 .. n + 1 -> P \cup {q}] :
              /\ \A i, j \in 1 .. n + 1 : i < j => next[i] < next[j]
              /\ \A v \in P \cup {q} : \E i \in 1 .. n + 1 : next[i] = v
              /\ \A i \in 1 .. n : next[i] = place[i]
              /\ next[n + 1] = q
              /\ \A i \in 1 .. n + 1 : i = n + 1 \/ i \in 1 .. n
<1> DEFINE next == [i \in 1 .. n + 1 |-> IF i = n + 1 THEN q ELSE place[i]]
<1>1. \A i \in 1 .. n + 1 : i = n + 1 \/ i \in 1 .. n
  OBVIOUS
<1>2. next[n + 1] = q /\ \A i \in 1 .. n : i \in 1 .. n + 1 /\ next[i] = place[i]
  OBVIOUS
<1>3. next \in [1 .. n + 1 -> P \cup {q}]
  BY <1>1
<1> HIDE DEF next
<1>4. ASSUME NEW i \in 1 .. n + 1, NEW j \in 1 .. n + 1, i < j
      PROVE  next[i] < next[j]
  <2>1. i \in 1 .. n
    BY <1>4
  <2>2. place[i] \in P
    BY <2>1
  <2>3. CASE j = n + 1
    BY <1>2, <2>1, <2>2, <2>3
  <2>4. CASE j \in 1 .. n
    BY <1>2, <1>4, <2>1, <2>4
  <2>5. QED  BY <1>1, <2>3, <2>4
<1>5. ASSUME NEW v \in P \cup {q}
      PROVE  \E i \in 1 .. n + 1 : next[i] = v
  <2>1. CASE v = q
    <3>1. n + 1 \in 1 .. n + 1
      OBVIOUS
    <3>2. QED  BY <1>2, <2>1, <3>1
  <2>2. CASE v \in P
    BY <1>2, <2>2
  <2>3. QED  BY <2>1, <2>2
<1>6. QED  BY <1>1, <1>2, <1>3, <1>4, <1>5

LEMMA AlertRead ==
    ASSUME argv \in Seq(STRING), NEW g, NEW w, NEW as, NEW k \in Nat, ReadUpTo(g, w, as, k),
           k < Len(argv), argv[k] = "--alert"
    PROVE  ReadUpTo(g, w, Append(as, argv[k + 1]), k + 2)
<1> DEFINE bs == Append(as, argv[k + 1])
           P == Past("--alert", k)
<1>1. /\ Len(argv) \in Nat /\ k \in 1 .. Len(argv) /\ IsFlag(k)
      /\ argv[k] \in TakesValue /\ argv[k] \notin Settings
      /\ as \in Seq(STRING) /\ argv[k + 1] \in STRING
  <2>1. Len(argv) \in Nat
    BY LenProperties
  <2>2. k \in 1 .. Len(argv) /\ IsFlag(k) /\ k + 1 \in 1 .. Len(argv)
    BY <2>1 DEF ReadUpTo
  <2>3. argv[k + 1] \in STRING
    BY <2>2, ElementOfSeq
  <2>4. QED  BY <2>1, <2>2, <2>3 DEF ReadUpTo, TakesValue, Settings
<1>2. /\ bs \in Seq(STRING) /\ Len(as) \in Nat /\ Len(bs) = Len(as) + 1
      /\ \A i \in 1 .. Len(as) : bs[i] = as[i]
      /\ bs[Len(as) + 1] = argv[k + 1]
  BY <1>1, AppendFacts, Zenon
<1>3. /\ Past("--alert", k + 2) = P \cup {k + 1}
      /\ \A s \in Settings : Past(s, k + 2) = Past(s, k)
      /\ k + 2 <= Len(argv) => IsFlag(k + 2)
  <2>1. \A s \in Settings : s \in TakesValue /\ s # argv[k]
    BY <1>1 DEF TakesValue
  <2>2. QED  BY <1>1, <2>1, PastValue
<1>4. \A v \in P : v \in Nat /\ v < k + 1
  BY <1>1 DEF Past, ValuesOf
<1>5. PICK place : Places(as, place, P)
  BY DEF ReadUpTo, AlertsUpTo
<1> HIDE DEF bs, P
<1>6. /\ place \in [1 .. Len(as) -> P]
      /\ \A i, j \in 1 .. Len(as) : i < j => place[i] < place[j]
      /\ \A v \in P : \E i \in 1 .. Len(as) : place[i] = v
      /\ \A i \in 1 .. Len(as) : as[i] = argv[place[i]]
  BY <1>5 DEF Places
<1>7. /\ k + 1 \in Nat /\ Len(as) \in Nat
      /\ P \subseteq Nat /\ \A v \in P : v < k + 1
  <2>1. k + 1 \in Nat /\ P \subseteq Nat /\ \A v \in P : v < k + 1
    BY <1>1, <1>4
  <2>2. QED  BY <1>2, <2>1, Zenon
<1>8. PICK next \in [1 .. Len(as) + 1 -> P \cup {k + 1}] :
         /\ \A i, j \in 1 .. Len(as) + 1 : i < j => next[i] < next[j]
         /\ \A v \in P \cup {k + 1} : \E i \in 1 .. Len(as) + 1 : next[i] = v
         /\ \A i \in 1 .. Len(as) : next[i] = place[i]
         /\ next[Len(as) + 1] = k + 1
         /\ \A i \in 1 .. Len(as) + 1 : i = Len(as) + 1 \/ i \in 1 .. Len(as)
  BY <1>6, <1>7, OnePlaceMore, Zenon
<1>9. Places(bs, next, P \cup {k + 1})
  BY <1>2, <1>6, <1>8, Zenon DEF Places
<1>10. AlertsUpTo(bs, k + 2)
  BY <1>3, <1>9 DEF AlertsUpTo
<1>11. GivenUpTo(g, k + 2)
  BY <1>3 DEF ReadUpTo, GivenUpTo
<1>12. SwitchedUpTo(w, k + 2) /\ KnownUpTo(k + 2)
  BY <1>1, NothingNew DEF ReadUpTo
<1>13. k + 2 \in 1 .. Len(argv) + 1
  BY <1>1
<1>14. QED  BY <1>2, <1>3, <1>10, <1>11, <1>12, <1>13 DEF ReadUpTo, bs

LEMMA SwitchRead ==
    ASSUME argv \in Seq(STRING), NEW g, NEW w, NEW as, NEW k \in Nat, ReadUpTo(g, w, as, k),
           k <= Len(argv), argv[k] \in Switches
    PROVE  ReadUpTo(g, w \cup {argv[k]}, as, k + 1)
<1>1. Len(argv) \in Nat /\ k \in 1 .. Len(argv) /\ IsFlag(k) /\ argv[k] \notin TakesValue
  BY LenProperties DEF ReadUpTo, TakesValue, Settings, Switches
<1>2. /\ \A s \in TakesValue : Past(s, k + 1) = Past(s, k)
      /\ k + 1 <= Len(argv) => IsFlag(k + 1)
  BY <1>1, PastSwitch
<1>3. /\ \A i \in 1 .. (k + 1) - 1 : i \in 1 .. k - 1 \/ i = k
      /\ \A i \in 1 .. k - 1 : i \in 1 .. (k + 1) - 1
      /\ k \in 1 .. (k + 1) - 1
  BY <1>1
<1>4. SwitchedUpTo(w \cup {argv[k]}, k + 1)
  BY <1>1, <1>3 DEF ReadUpTo, SwitchedUpTo
<1>5. KnownUpTo(k + 1)
  <2>1. \A i \in 1 .. k - 1 : i + 1 < k => i + 1 < k + 1
    BY <1>1
  <2>2. QED  BY <1>1, <1>3, <2>1 DEF ReadUpTo, KnownUpTo
<1>6. GivenUpTo(g, k + 1) /\ AlertsUpTo(as, k + 1)
  <2>1. \A s \in Settings : Past(s, k + 1) = Past(s, k)
    BY <1>2 DEF TakesValue
  <2>2. Past("--alert", k + 1) = Past("--alert", k)
    BY <1>2 DEF TakesValue
  <2>3. QED  BY <2>1, <2>2 DEF ReadUpTo, GivenUpTo, AlertsUpTo
<1>7. k + 1 \in 1 .. Len(argv) + 1
  BY <1>1
<1>8. QED  BY <1>2, <1>4, <1>5, <1>6, <1>7 DEF ReadUpTo

-----------------------------------------------------------------------------
(* While the arguments are read, what is kept is what those read say; and
   from_args is left for a reason. *)
Known == TakesValue \cup Switches \cup Prints \cup {"--check-update"}

ReadingInv ==
    /\ argv \in Seq(STRING) /\ env \in Envs
    /\ ReadUpTo(given, switched, alert_specs, at)

OutcomeInv ==
    /\ left = Accepted =>
          /\ at > Len(argv) /\ AllUsable
          /\ config = [setting |-> [s \in Settings |-> Value(s, given[s])],
                       switched |-> switched,
                       alerts |-> [i \in DOMAIN alert_specs |-> SpecOf[alert_specs[i]]]]
    /\ left = 2 =>
          \/ at <= Len(argv) /\ argv[at] = "--check-update"
          \/ at <= Len(argv) /\ argv[at] \notin Known
          \/ at = Len(argv) /\ argv[at] \in TakesValue
          \/ at > Len(argv) /\ ~AllUsable

ParseInv == left # Returned => ReadingInv /\ OutcomeInv

LEMMA ReadingSame ==
    ASSUME argv' = argv, env' = env
    PROVE  ReadUpTo(given', switched', alert_specs', at')
               <=> ReadUpTo(given, switched, alert_specs, at)'
<1>1. \A i : IsFlag(i)' <=> IsFlag(i)
  BY DEF IsFlag
<1>2. \A s : FromEnv(s)' = FromEnv(s)
  BY DEF FromEnv
<1>3. \A s : ValuesOf(s)' = ValuesOf(s)
  BY DEF ValuesOf, IsFlag
<1>4. GivenUpTo(given', at') <=> GivenUpTo(given, at)'
  BY <1>2, <1>3 DEF GivenUpTo, Past
<1>5. SwitchedUpTo(switched', at') <=> SwitchedUpTo(switched, at)'
  BY <1>1 DEF SwitchedUpTo
<1>6. AlertsUpTo(alert_specs', at') <=> AlertsUpTo(alert_specs, at)'
  BY <1>3 DEF AlertsUpTo, Past, Places
<1>7. KnownUpTo(at') <=> KnownUpTo(at)'
  BY <1>1 DEF KnownUpTo
<1>8. QED  BY <1>1, <1>4, <1>5, <1>6, <1>7 DEF ReadUpTo

LEMMA ParseInvInit == MainInit => ParseInv
<1> SUFFICES ASSUME MainInit
             PROVE  ReadingInv /\ OutcomeInv
  BY DEF ParseInv
<1> USE DEF MainInit, ParseInit
<1>1. /\ argv \in Seq(STRING) /\ env \in Envs /\ Len(argv) \in Nat
      /\ at = 1 /\ alert_specs = << >> /\ switched = {} /\ left = Reading
  BY CommandLineAssumption, LenProperties
<1>2. OutcomeInv
  BY <1>1 DEF OutcomeInv, Reading, Accepted
<1>3. \A s : Past(s, 1) = {}
  BY DEF Past, ValuesOf
<1>4. given = [s \in Settings |-> given[s]] /\ \A s \in Settings : given[s] = FromEnv(s)
  <2>1. given = [s \in Settings |-> FromEnv(s)]
    OBVIOUS
  <2> HIDE DEF MainInit, ParseInit
  <2>2. QED  BY <2>1
<1>5. GivenUpTo(given, 1)
  BY <1>3, <1>4 DEF GivenUpTo
<1>6. SwitchedUpTo({}, 1) /\ KnownUpTo(1)
  BY DEF SwitchedUpTo, KnownUpTo
<1>7. AlertsUpTo(<< >>, 1)
  <2> DEFINE place == [i \in {} |-> 0]
  <2>1. 1 .. Len(<< >>) = {}
    BY EmptySeq
  <2>2. Places(<< >>, place, {})
    BY <2>1 DEF Places
  <2>3. QED  BY <1>3, <2>2 DEF AlertsUpTo
<1>8. 1 <= Len(argv) => IsFlag(1)
  BY <1>1, FlagIs
<1>9. << >> \in Seq(STRING)
  BY EmptySeq
<1>10. QED  BY <1>1, <1>2, <1>4, <1>5, <1>6, <1>7, <1>8, <1>9 DEF ReadingInv, ReadUpTo

LEMMA ParseStep == ParseInv /\ [MainNext]_mainStageVars => ParseInv'
<1> SUFFICES ASSUME ParseInv, [MainNext]_mainStageVars, left' # Returned
             PROVE  ReadingInv' /\ OutcomeInv'
  BY DEF ParseInv
<1>1. ASSUME left = Reading, ParseNext, argv' = argv, env' = env, left' = Reading,
             ReadUpTo(given', switched', alert_specs', at')
      PROVE  ReadingInv' /\ OutcomeInv'
  <2>1. ReadingInv
    BY <1>1 DEF ParseInv, Reading, Returned
  <2>2. ReadingInv'
    BY <1>1, <2>1, ReadingSame DEF ReadingInv
  <2>3. OutcomeInv'
    BY <1>1 DEF OutcomeInv, Reading, Accepted
  <2>4. QED  BY <2>2, <2>3
<1>2. ASSUME left # Returned, UNCHANGED <<env, argv, at, given, alert_specs, switched>>, OutcomeInv'
      PROVE  ReadingInv' /\ OutcomeInv'
  <2>1. ReadingInv
    BY <1>2 DEF ParseInv
  <2>2. ReadUpTo(given', switched', alert_specs', at')
    BY <1>2, <2>1 DEF ReadingInv
  <2>3. QED  BY <1>2, <2>1, <2>2, ReadingSame DEF ReadingInv
<1>3. CASE ReadConfig
  <2>1. ParseNext
    BY <1>3 DEF ReadConfig
  <2>2. left = Reading /\ left # Returned
    BY <2>1 DEF ParseNext, TakeSetting, TakeAlert, ValueMissing, TakeSwitch, PrintAndExit, CheckUpdate,
                UnknownFlag, Refuse, Accept, Reads, Reading, Returned
  <2>3. ReadingInv
    BY <2>2 DEF ParseInv
  <2>4. argv \in Seq(STRING) /\ at \in Nat /\ Len(argv) \in Nat
        /\ ReadUpTo(given, switched, alert_specs, at)
    BY <2>3, LenProperties DEF ReadingInv, ReadUpTo
  <2>5. CASE TakeSetting
    <3>1. ReadUpTo([given EXCEPT ![argv[at]] = argv[at + 1]], switched, alert_specs, at + 2)
      BY <2>4, <2>5, SettingRead DEF TakeSetting, Reads
    <3>2. QED  BY <1>1, <2>1, <2>2, <2>5, <3>1 DEF TakeSetting
  <2>6. CASE TakeAlert
    <3>1. ReadUpTo(given, switched, Append(alert_specs, argv[at + 1]), at + 2)
      BY <2>4, <2>6, AlertRead DEF TakeAlert, Reads
    <3>2. QED  BY <1>1, <2>1, <2>2, <2>6, <3>1 DEF TakeAlert
  <2>7. CASE TakeSwitch
    <3>1. ReadUpTo(given, switched \cup {argv[at]}, alert_specs, at + 1)
      BY <2>4, <2>7, SwitchRead DEF TakeSwitch, Reads
    <3>2. QED  BY <1>1, <2>1, <2>2, <2>7, <3>1 DEF TakeSwitch
  <2>8. CASE ValueMissing \/ PrintAndExit \/ CheckUpdate \/ UnknownFlag
    <3>1. UNCHANGED <<env, argv, at, given, alert_specs, switched>>
      BY <2>8 DEF ValueMissing, PrintAndExit, CheckUpdate, UnknownFlag, Leave
    <3>2. left' # Accepted
      BY <2>8 DEF ValueMissing, PrintAndExit, CheckUpdate, UnknownFlag, Leave, Accepted
    <3>3. left' = 2 => \/ at <= Len(argv) /\ argv[at] = "--check-update"
                       \/ at <= Len(argv) /\ argv[at] \notin Known
                       \/ at = Len(argv) /\ argv[at] \in TakesValue
      BY <2>8 DEF ValueMissing, PrintAndExit, CheckUpdate, UnknownFlag, Leave, Reads, Known
    <3>4. OutcomeInv'
      BY <3>1, <3>2, <3>3 DEF OutcomeInv
    <3>5. QED  BY <1>2, <2>2, <3>1, <3>4
  <2>9. CASE Refuse
    <3>1. UNCHANGED <<env, argv, at, given, alert_specs, switched>> /\ left' = 2
          /\ at > Len(argv) /\ ~AllUsable
      BY <2>9 DEF Refuse, Leave
    <3>2. OutcomeInv'
      BY <3>1 DEF OutcomeInv, Accepted, AllUsable
    <3>3. QED  BY <1>2, <2>2, <3>1, <3>2
  <2>10. CASE Accept
    <3>1. UNCHANGED <<env, argv, at, given, alert_specs, switched>> /\ left' = Accepted
          /\ at > Len(argv) /\ AllUsable
      BY <2>10 DEF Accept
    <3>2. \A s, text : Value(s, text)' = Value(s, text)
      BY <3>1 DEF Value, ResolveHistoryFile
    <3>3. config' = [setting |-> [s \in Settings |-> Value(s, given[s])],
                     switched |-> switched,
                     alerts |-> [i \in DOMAIN alert_specs |-> SpecOf[alert_specs[i]]]]
      BY <2>10 DEF Accept
    <3>4. OutcomeInv'
      BY <3>1, <3>2, <3>3 DEF OutcomeInv, Accepted, AllUsable
    <3>5. QED  BY <1>2, <2>2, <3>1, <3>4
  <2>11. QED  BY <2>1, <2>5, <2>6, <2>7, <2>8, <2>9, <2>10 DEF ParseNext
<1>4. CASE Started
  BY <1>4 DEF Started
<1>5. CASE UNCHANGED parseVars
  <2>1. left # Returned /\ UNCHANGED <<env, argv, at, given, alert_specs, switched, left, config>>
    BY <1>5 DEF parseVars
  <2>2. OutcomeInv
    BY <2>1 DEF ParseInv
  <2>3. \A s, text : Value(s, text)' = Value(s, text)
    BY <2>1 DEF Value, ResolveHistoryFile
  <2>4. OutcomeInv'
    BY <2>1, <2>2, <2>3 DEF OutcomeInv, AllUsable
  <2>5. QED  BY <1>2, <2>1, <2>4
<1>6. QED  BY <1>3, <1>4, <1>5 DEF MainNext, Once, mainStageVars

-----------------------------------------------------------------------------
(* Once all the arguments are read. *)
LEMMA AllRead ==
    ASSUME ReadingInv, at > Len(argv)
    PROVE  /\ Len(argv) \in Nat /\ at = Len(argv) + 1
           /\ \A s \in TakesValue : Past(s, at) = ValuesOf(s)
           /\ \A s \in Settings : given[s] = Effective(s)
<1>1. Len(argv) \in Nat /\ at = Len(argv) + 1
  BY LenProperties DEF ReadingInv, ReadUpTo
<1>2. \A s : ValuesOf(s) \subseteq 2 .. Len(argv)
  BY DEF ValuesOf
<1>3. \A s : Past(s, at) = ValuesOf(s)
  BY <1>1, <1>2 DEF Past
<1>4. ASSUME NEW s \in Settings
      PROVE  given[s] = Effective(s)
  <2>1. CASE ValuesOf(s) = {}
    BY <1>3, <2>1 DEF ReadingInv, ReadUpTo, GivenUpTo, Effective
  <2>2. CASE ValuesOf(s) # {}
    <3>1. PICK i \in ValuesOf(s) : (\A j \in ValuesOf(s) : j <= i) /\ given[s] = argv[i]
      BY <1>3, <2>2 DEF ReadingInv, ReadUpTo, GivenUpTo
    <3>2. \A k \in ValuesOf(s) : (\A j \in ValuesOf(s) : j <= k) => k = i
      <4> SUFFICES ASSUME NEW k \in ValuesOf(s), \A j \in ValuesOf(s) : j <= k
                   PROVE  k = i
        OBVIOUS
      <4>1. k \in Int /\ i \in Int
        BY <1>2
      <4>2. k <= i /\ i <= k
        BY <3>1
      <4>3. QED  BY <4>1, <4>2
    <3>3. (CHOOSE k \in ValuesOf(s) : \A j \in ValuesOf(s) : j <= k) = i
      BY <3>1, <3>2
    <3>4. QED  BY <2>2, <3>1, <3>3, Zenon DEF Effective
  <2>3. QED  BY <2>1, <2>2
<1>5. QED  BY <1>1, <1>3, <1>4

(* A setting is the last value a flag gave it, else the environment's, else
   the default; every switch and every rule is kept. *)
THEOREM FlagsDecide == MainSpec => []FlagsWin
<1>1. ParseInv => FlagsWin
  <2> SUFFICES ASSUME ParseInv, left = Accepted
               PROVE  FlagsWin
    BY DEF FlagsWin
  <2>1. ReadingInv /\ OutcomeInv
    BY DEF ParseInv, Accepted, Returned
  <2>2. /\ at > Len(argv)
        /\ config = [setting |-> [s \in Settings |-> Value(s, given[s])],
                     switched |-> switched,
                     alerts |-> [i \in DOMAIN alert_specs |-> SpecOf[alert_specs[i]]]]
    BY <2>1 DEF OutcomeInv
  <2>3. /\ config.setting = [s \in Settings |-> Value(s, given[s])]
        /\ config.switched = switched
        /\ config.alerts = [i \in DOMAIN alert_specs |-> SpecOf[alert_specs[i]]]
    BY <2>2
  <2>4. /\ Len(argv) \in Nat /\ at = Len(argv) + 1
        /\ Past("--alert", at) = ValuesOf("--alert")
        /\ \A s \in Settings : given[s] = Effective(s)
    BY <2>1, <2>2, AllRead DEF TakesValue
  <2>5. \A s \in Settings : config.setting[s] = Value(s, Effective(s))
    BY <2>3, <2>4
  <2>6. \A s \in Switches : s \in config.switched <=> \E i \in DOMAIN argv : IsFlag(i) /\ argv[i] = s
    <3>1. DOMAIN argv = 1 .. at - 1
      BY <2>1, <2>4, LenProperties DEF ReadingInv
    <3>2. QED  BY <2>1, <2>3, <3>1 DEF ReadingInv, ReadUpTo, SwitchedUpTo
  <2>7. PICK place : Places(alert_specs, place, ValuesOf("--alert"))
    BY <2>1, <2>4 DEF ReadingInv, ReadUpTo, AlertsUpTo
  <2>8. DOMAIN alert_specs = 1 .. Len(alert_specs) /\ DOMAIN config.alerts = DOMAIN alert_specs
    BY <2>1, <2>3, LenProperties DEF ReadingInv, ReadUpTo
  <2>9. \A i \in DOMAIN config.alerts : config.alerts[i] = SpecOf[alert_specs[i]]
    BY <2>3, <2>8, Zenon
  <2>10. /\ place \in [1 .. Len(alert_specs) -> ValuesOf("--alert")]
         /\ \A i, j \in 1 .. Len(alert_specs) : i < j => place[i] < place[j]
         /\ \A v \in ValuesOf("--alert") : \E i \in 1 .. Len(alert_specs) : place[i] = v
         /\ \A i \in 1 .. Len(alert_specs) : alert_specs[i] = argv[place[i]]
    BY <2>7 DEF Places
  <2>11. DOMAIN config.alerts = 1 .. Len(alert_specs)
    BY <2>8
  <2>12. \A i \in 1 .. Len(alert_specs) : config.alerts[i] = SpecOf[argv[place[i]]]
    BY <2>9, <2>10, <2>11, Zenon
  <2>13. \E q \in [DOMAIN config.alerts -> ValuesOf("--alert")] :
            /\ \A i, j \in DOMAIN config.alerts : i < j => q[i] < q[j]
            /\ \A v \in ValuesOf("--alert") : \E i \in DOMAIN config.alerts : q[i] = v
            /\ \A i \in DOMAIN config.alerts : config.alerts[i] = SpecOf[argv[q[i]]]
    BY <2>10, <2>11, <2>12
  <2>14. QED  BY <2>5, <2>6, <2>13 DEF FlagsWin
<1>2. QED  BY <1>1, ParseInvInit, ParseStep, PTL DEF MainSpec

(* The program refuses to start exactly for a reason in what counts. *)
THEOREM RefusalsHaveReasons == MainSpec => []RefusedForAReason
<1>1. ParseInv => RefusedForAReason
  <2> DEFINE unknown == \E i \in DOMAIN argv : IsFlag(i) /\ argv[i] \notin Known
             missing == argv # << >> /\ IsFlag(Len(argv)) /\ argv[Len(argv)] \in TakesValue
             unusable == \/ \E s \in Settings : ~Usable(s, Effective(s))
                         \/ \E i \in ValuesOf("--alert") : ~UsableSpec(argv[i])
  <2> SUFFICES ASSUME ParseInv, left \in {Accepted, 2},
                      ~(at <= Len(argv) /\ argv[at] = "--check-update")
               PROVE  left = 2 <=> unknown \/ missing \/ unusable
    BY Zenon DEF RefusedForAReason, Known
  <2>1. ReadingInv /\ OutcomeInv
    BY DEF ParseInv, Accepted, Returned
  <2>2. /\ Len(argv) \in Nat /\ DOMAIN argv = 1 .. Len(argv) /\ at \in 1 .. Len(argv) + 1
        /\ DOMAIN alert_specs = 1 .. Len(alert_specs)
        /\ at <= Len(argv) => IsFlag(at)
    BY <2>1, LenProperties DEF ReadingInv, ReadUpTo
  <2>3. at > Len(argv) => (AllUsable <=> ~unusable)
    <3> SUFFICES ASSUME at > Len(argv)
                 PROVE  AllUsable <=> ~unusable
      OBVIOUS
    <3>1. /\ Past("--alert", at) = ValuesOf("--alert")
          /\ \A s \in Settings : given[s] = Effective(s)
      BY <2>1, AllRead DEF TakesValue
    <3>2. PICK place : Places(alert_specs, place, ValuesOf("--alert"))
      BY <2>1, <3>1 DEF ReadingInv, ReadUpTo, AlertsUpTo
    <3>3. (\A i \in DOMAIN alert_specs : UsableSpec(alert_specs[i]))
              <=> \A i \in ValuesOf("--alert") : UsableSpec(argv[i])
      <4>1. /\ \A i \in DOMAIN alert_specs : /\ place[i] \in ValuesOf("--alert")
                                             /\ alert_specs[i] = argv[place[i]]
            /\ \A v \in ValuesOf("--alert") : \E i \in DOMAIN alert_specs : place[i] = v
        BY <2>2, <3>2 DEF Places
      <4>2. ASSUME \A i \in DOMAIN alert_specs : UsableSpec(alert_specs[i]),
                   NEW v \in ValuesOf("--alert")
            PROVE  UsableSpec(argv[v])
        <5>1. PICK i \in DOMAIN alert_specs : place[i] = v
          BY <4>1
        <5>2. UsableSpec(alert_specs[i]) /\ alert_specs[i] = argv[v]
          BY <4>1, <4>2, <5>1
        <5>3. QED  BY <5>2, Zenon
      <4>3. ASSUME \A v \in ValuesOf("--alert") : UsableSpec(argv[v]),
                   NEW i \in DOMAIN alert_specs
            PROVE  UsableSpec(alert_specs[i])
        <5>1. UsableSpec(argv[place[i]]) /\ alert_specs[i] = argv[place[i]]
          BY <4>1, <4>3
        <5>2. QED  BY <5>1, Zenon
      <4>4. QED  BY <4>2, <4>3, Zenon
    <3>4. (\A s \in Settings : Usable(s, given[s])) <=> \A s \in Settings : Usable(s, Effective(s))
      BY <3>1
    <3>5. QED  BY <3>3, <3>4, Zenon DEF AllUsable
  <2>4. CASE left = 2
    <3>1. \/ at <= Len(argv) /\ argv[at] \notin Known
          \/ at = Len(argv) /\ argv[at] \in TakesValue
          \/ at > Len(argv) /\ ~AllUsable
      BY <2>1, <2>4 DEF OutcomeInv
    <3>2. CASE at <= Len(argv) /\ argv[at] \notin Known
      BY <2>2, <2>4, <3>2
    <3>3. CASE at = Len(argv) /\ argv[at] \in TakesValue
      <4>1. argv # << >>
        BY <2>2, <3>3, EmptySeq
      <4>2. QED  BY <2>2, <2>4, <3>3, <4>1
    <3>4. CASE at > Len(argv) /\ ~AllUsable
      BY <2>3, <2>4, <3>4
    <3>5. QED  BY <3>1, <3>2, <3>3, <3>4
  <2>5. CASE left = Accepted
    <3>1. at = Len(argv) + 1 /\ AllUsable
      <4>1. at > Len(argv) /\ AllUsable
        BY <2>1, <2>5, Zenon DEF OutcomeInv
      <4>2. QED  BY <2>2, <4>1
    <3>2. ~unusable
      BY <2>2, <2>3, <3>1
    <3>3. \A i \in 1 .. Len(argv) : IsFlag(i) =>
             /\ argv[i] \in TakesValue \cup Switches
             /\ argv[i] \in TakesValue => i # Len(argv)
      BY <2>1, <2>2, <3>1 DEF ReadingInv, ReadUpTo, KnownUpTo
    <3>4. ~unknown
      BY <2>2, <3>3, Zenon DEF Known
    <3>5. ~missing
      <4>1. argv # << >> => Len(argv) \in 1 .. Len(argv)
        BY <2>1, <2>2, EmptySeq DEF ReadingInv
      <4>2. QED  BY <3>3, <4>1, Zenon
    <3>6. left # 2
      BY <2>5 DEF Accepted
    <3>7. QED  BY <3>2, <3>4, <3>5, <3>6
  <2>6. QED  BY <2>4, <2>5
<1>2. QED  BY <1>1, ParseInvInit, ParseStep, PTL DEF MainSpec

-----------------------------------------------------------------------------
(* The password: BasicAuth *)

Byte == 0 .. 255

LEMMA SixBits ==
    ASSUME NEW n \in Nat
    PROVE  /\ (n \div 64) \div 64 = n \div 4096
           /\ (n \div 4096) \div 64 = n \div 262144
           /\ n \div 64 \in Nat /\ n \div 4096 \in Nat /\ n % 64 \in Nat /\ n % 64 < 64
           /\ n = 64 * (n \div 64) + (n % 64)
           /\ n \div 64 = 64 * ((n \div 64) \div 64) + ((n \div 64) % 64)
           /\ n \div 4096 = 64 * ((n \div 4096) \div 64) + ((n \div 4096) % 64)
BY SMT

(* What the first two, three and four sextets of a number decide. *)
LEMMA SextetsDecide ==
    ASSUME NEW n \in Nat, NEW m \in Nat,
           n \div 262144 = m \div 262144, (n \div 4096) % 64 = (m \div 4096) % 64
    PROVE  /\ n \div 4096 = m \div 4096
           /\ (n \div 64) % 64 = (m \div 64) % 64 =>
                 /\ n \div 64 = m \div 64
                 /\ n % 64 = m % 64 => n = m
BY SixBits, SMT

ByteAt(c, i) == IF i <= Len(c) THEN c[i] ELSE 0

ChunkNumber(c) == ByteAt(c, 1) * 65536 + ByteAt(c, 2) * 256 + ByteAt(c, 3)

LEMMA ByteAtType ==
    ASSUME NEW c \in Seq(Byte), Len(c) \in 1 .. 3, NEW i \in 1 .. 3
    PROVE  ByteAt(c, i) \in Nat /\ ByteAt(c, i) < 256
<1>1. \A j \in 1 .. Len(c) : c[j] \in Byte
  BY ElementOfSeq
<1>2. \A b \in Byte : b \in Nat /\ b < 256
  BY SMT DEF Byte
<1>3. CASE i <= Len(c)
  <2>1. i \in 1 .. Len(c)
    BY <1>3, SMT
  <2>2. QED  BY <1>1, <1>2, <1>3, <2>1 DEF ByteAt
<1>4. CASE ~(i <= Len(c))
  BY <1>4, SMT DEF ByteAt
<1>5. QED  BY <1>3, <1>4

LEMMA EncodedChunk ==
    ASSUME NEW c
    PROVE  /\ EncodeChunk(c)[1] = ChunkNumber(c) \div 262144
           /\ EncodeChunk(c)[2] = (ChunkNumber(c) \div 4096) % 64
           /\ EncodeChunk(c)[3] = IF Len(c) > 1 THEN (ChunkNumber(c) \div 64) % 64 ELSE Pad
           /\ EncodeChunk(c)[4] = IF Len(c) > 2 THEN ChunkNumber(c) % 64 ELSE Pad
BY SMT DEF EncodeChunk, ChunkNumber, ByteAt

(* The text of up to three bytes has only one reading. *)
LEMMA ChunkDecides ==
    ASSUME NEW c \in Seq(Byte), NEW d \in Seq(Byte), Len(c) \in 1 .. 3, Len(d) \in 1 .. 3,
           \A j \in 1 .. 4 : EncodeChunk(c)[j] = EncodeChunk(d)[j]
    PROVE  Len(c) = Len(d) /\ \A i \in 1 .. Len(c) : c[i] = d[i]
<1> DEFINE n == ChunkNumber(c)
           m == ChunkNumber(d)
<1>1. \A j \in {1, 2, 3, 4} : EncodeChunk(c)[j] = EncodeChunk(d)[j]
  BY SMT
<1>2. /\ n \div 262144 = m \div 262144 /\ (n \div 4096) % 64 = (m \div 4096) % 64
      /\ (IF Len(c) > 1 THEN (n \div 64) % 64 ELSE Pad) = (IF Len(d) > 1 THEN (m \div 64) % 64 ELSE Pad)
      /\ (IF Len(c) > 2 THEN n % 64 ELSE Pad) = (IF Len(d) > 2 THEN m % 64 ELSE Pad)
  <2>1. /\ EncodeChunk(c)[1] = EncodeChunk(d)[1] /\ EncodeChunk(c)[2] = EncodeChunk(d)[2]
        /\ EncodeChunk(c)[3] = EncodeChunk(d)[3] /\ EncodeChunk(c)[4] = EncodeChunk(d)[4]
    BY <1>1, SMT
  <2>2. QED  BY <2>1, EncodedChunk, SMT DEF n, m
<1>3. /\ ByteAt(c, 1) \in Nat /\ ByteAt(c, 1) < 256 /\ ByteAt(d, 1) \in Nat /\ ByteAt(d, 1) < 256
      /\ ByteAt(c, 2) \in Nat /\ ByteAt(c, 2) < 256 /\ ByteAt(d, 2) \in Nat /\ ByteAt(d, 2) < 256
      /\ ByteAt(c, 3) \in Nat /\ ByteAt(c, 3) < 256 /\ ByteAt(d, 3) \in Nat /\ ByteAt(d, 3) < 256
  <2>1. 1 \in 1 .. 3 /\ 2 \in 1 .. 3 /\ 3 \in 1 .. 3
    BY SMT
  <2>2. QED  BY <2>1, ByteAtType
<1>a. PICK x1 \in Nat : x1 < 256 /\ ByteAt(c, 1) = x1
  BY <1>3
<1>b. PICK x2 \in Nat : x2 < 256 /\ ByteAt(c, 2) = x2
  BY <1>3
<1>c. PICK x3 \in Nat : x3 < 256 /\ ByteAt(c, 3) = x3
  BY <1>3
<1>d. PICK y1 \in Nat : y1 < 256 /\ ByteAt(d, 1) = y1
  BY <1>3
<1>e. PICK y2 \in Nat : y2 < 256 /\ ByteAt(d, 2) = y2
  BY <1>3
<1>f. PICK y3 \in Nat : y3 < 256 /\ ByteAt(d, 3) = y3
  BY <1>3
<1>h. /\ x1 < 256 /\ x2 < 256 /\ x3 < 256 /\ y1 < 256 /\ y2 < 256 /\ y3 < 256
      /\ ByteAt(c, 1) = x1 /\ ByteAt(c, 2) = x2 /\ ByteAt(c, 3) = x3
      /\ ByteAt(d, 1) = y1 /\ ByteAt(d, 2) = y2 /\ ByteAt(d, 3) = y3
  BY <1>a, <1>b, <1>c, <1>d, <1>e, <1>f
<1>g. n = x1 * 65536 + x2 * 256 + x3 /\ m = y1 * 65536 + y2 * 256 + y3
  <2>1. ByteAt(c, 1) = x1 /\ ByteAt(c, 2) = x2 /\ ByteAt(c, 3) = x3
    BY <1>h
  <2>2. ByteAt(d, 1) = y1 /\ ByteAt(d, 2) = y2 /\ ByteAt(d, 3) = y3
    BY <1>h
  <2>3. n = x1 * 65536 + x2 * 256 + x3
    BY <2>1, SMT DEF ChunkNumber
  <2>4. m = y1 * 65536 + y2 * 256 + y3
    BY <2>2, SMT DEF ChunkNumber
  <2>5. QED  BY <2>3, <2>4
<1> HIDE DEF n, m
<1>4. n \in Nat /\ m \in Nat
  BY <1>g, SMT
<1>5. Len(c) = Len(d)
  <2>1. (n \div 64) % 64 # Pad /\ (m \div 64) % 64 # Pad /\ n % 64 # Pad /\ m % 64 # Pad
    <3>1. QED  BY <1>4, SixBits, SMT DEF Pad
  <2>2. QED  BY <1>2, <2>1, SMT
<1>6. ASSUME \A i \in 1 .. 3 : i <= Len(c) => ByteAt(c, i) = ByteAt(d, i)
      PROVE  \A i \in 1 .. Len(c) : c[i] = d[i]
  BY <1>5, <1>6, SMT DEF ByteAt
<1>7. CASE Len(c) = 1
  <2>1. x2 = 0 /\ x3 = 0 /\ y2 = 0 /\ y3 = 0
    BY <1>h, <1>5, <1>7, SMT DEF ByteAt
  <2>2. n \div 4096 = m \div 4096
    BY <1>2, <1>4, SextetsDecide, SMT
  <2>3. (x1 * 65536) \div 4096 = (y1 * 65536) \div 4096
    BY <1>g, <2>1, <2>2, SMT
  <2>4. x1 = y1
    BY <1>h, <2>3, SMT
  <2>5. QED  BY <1>h, <1>5, <1>6, <1>7, <2>4, SMT
<1>8. CASE Len(c) = 2
  <2>1. x3 = 0 /\ y3 = 0
    BY <1>h, <1>5, <1>8, SMT DEF ByteAt
  <2>2. n \div 64 = m \div 64
    BY <1>2, <1>4, <1>5, <1>8, SextetsDecide, SMT
  <2>3. (x1 * 65536 + x2 * 256) \div 64 = (y1 * 65536 + y2 * 256) \div 64
    BY <1>g, <2>1, <2>2, SMT
  <2>4. x1 = y1 /\ x2 = y2
    BY <1>h, <2>3, SMT
  <2>5. QED  BY <1>h, <1>5, <1>6, <1>8, <2>4, SMT
<1>9. CASE Len(c) = 3
  <2>1. n = m
    BY <1>2, <1>4, <1>5, <1>9, SextetsDecide, SMT
  <2>2. x1 = y1 /\ x2 = y2 /\ x3 = y3
    BY <1>h, <1>g, <2>1, SMT
  <2>3. QED  BY <1>h, <1>5, <1>6, <1>9, <2>2, SMT
<1>10. QED  BY <1>5, <1>7, <1>8, <1>9, SMT
(* A chunk and its symbols *)

LEMMA ThirdsOf ==
    ASSUME NEW l \in Nat
    PROVE  /\ (l + 2) \div 3 \in Nat
           /\ l <= 3 * ((l + 2) \div 3) /\ 3 * ((l + 2) \div 3) <= l + 2
BY SMT

(* The bytes of a chunk, and where they are. *)
LEMMA ChunkIs ==
    ASSUME NEW a \in Seq(Byte), NEW k \in 1 .. Chunks(a)
    PROVE  /\ Chunk(a, k) \in Seq(Byte)
           /\ Len(Chunk(a, k)) \in 1 .. 3
           /\ Len(Chunk(a, k)) = IF 3 * k <= Len(a) THEN 3 ELSE Len(a) - 3 * k + 3
           /\ \A j \in 1 .. Len(Chunk(a, k)) :
                 3 * k - 3 + j \in 1 .. Len(a) /\ Chunk(a, k)[j] = a[3 * k - 3 + j]
<1> DEFINE first == 3 * k - 2
           last == IF 3 * k <= Len(a) THEN 3 * k ELSE Len(a)
<1>1. Len(a) \in Nat /\ \A i \in 1 .. Len(a) : a[i] \in Byte
  BY LenProperties, ElementOfSeq
<1>2. 3 * k <= Len(a) + 2 /\ k \in Nat /\ 1 <= k
  BY <1>1, ThirdsOf, SMT DEF Chunks
<1>3. /\ first \in Int /\ last \in Int /\ 1 <= first /\ first <= last /\ last <= Len(a)
      /\ last - first + 1 \in 1 .. 3
      /\ last - first + 1 = IF 3 * k <= Len(a) THEN 3 ELSE Len(a) - 3 * k + 3
  <2>1. CASE 3 * k <= Len(a)
    BY <1>1, <1>2, <2>1, SMT
  <2>2. CASE ~(3 * k <= Len(a))
    BY <1>1, <1>2, <2>2, SMT
  <2>3. QED  BY <2>1, <2>2
<1>4. Chunk(a, k) = SubSeq(a, first, last)
  BY DEF Chunk
<1>5. \A j \in 1 .. last - first + 1 : 3 * k - 3 + j = first + j - 1 /\ 3 * k - 3 + j \in 1 .. Len(a)
  BY <1>1, <1>2, <1>3, SMT
<1> HIDE DEF first, last
<1>6. \A i \in first .. last : a[i] \in Byte
  BY <1>1, <1>3, SMT
<1>7. /\ SubSeq(a, first, last) \in Seq(Byte)
      /\ Len(SubSeq(a, first, last)) = last - first + 1
      /\ \A j \in 1 .. last - first + 1 : SubSeq(a, first, last)[j] = a[first + j - 1]
  BY <1>3, <1>6, SubSeqProperties
<1>8. QED  BY <1>3, <1>4, <1>5, <1>7

LEMMA SymbolPlace ==
    ASSUME NEW k \in Nat, 1 <= k, NEW j \in 1 .. 4
    PROVE  /\ (4 * k - 4 + j + 3) \div 4 = k
           /\ 1 + ((4 * k - 4 + j + 3) % 4) = j
BY SMT

(* The symbols of a chunk, and where they are. *)
LEMMA EncodedIs ==
    ASSUME NEW a \in Seq(Byte)
    PROVE  /\ Chunks(a) \in Nat
           /\ DOMAIN Base64Encode(a) = 1 .. 4 * Chunks(a)
           /\ Len(Base64Encode(a)) = 4 * Chunks(a)
           /\ \A k \in 1 .. Chunks(a), j \in 1 .. 4 :
                 /\ 4 * k - 4 + j \in 1 .. 4 * Chunks(a)
                 /\ Base64Encode(a)[4 * k - 4 + j] = EncodeChunk(Chunk(a, k))[j]
<1>1. Len(a) \in Nat /\ Chunks(a) \in Nat
  BY LenProperties, ThirdsOf, SMT DEF Chunks
<1> DEFINE K == Chunks(a)
           symbol(i) == EncodeChunk(Chunk(a, (i + 3) \div 4))[1 + ((i + 3) % 4)]
           S == { symbol(i) : i \in 1 .. 4 * K }
<1>2. Base64Encode(a) = [i \in 1 .. 4 * K |-> symbol(i)]
  BY DEF Base64Encode
<1>3. ASSUME NEW k \in 1 .. K, NEW j \in 1 .. 4
      PROVE  4 * k - 4 + j \in 1 .. 4 * K /\ symbol(4 * k - 4 + j) = EncodeChunk(Chunk(a, k))[j]
  <2>1. k \in Nat /\ 1 <= k /\ 4 * k - 4 + j \in 1 .. 4 * K
    BY <1>1, SMT
  <2>2. (4 * k - 4 + j + 3) \div 4 = k /\ 1 + ((4 * k - 4 + j + 3) % 4) = j
    BY <2>1, SymbolPlace
  <2>3. QED  BY <2>1, <2>2
<1> HIDE DEF symbol, K
<1>4. 4 * K \in Nat
  BY <1>1, SMT DEF K
<1>5. [i \in 1 .. 4 * K |-> symbol(i)] \in [1 .. 4 * K -> S]
  OBVIOUS
<1>6. Len(Base64Encode(a)) = 4 * K
  BY <1>2, <1>4, <1>5, SMT
<1>7. \A k \in 1 .. K, j \in 1 .. 4 :
         /\ 4 * k - 4 + j \in 1 .. 4 * K
         /\ Base64Encode(a)[4 * k - 4 + j] = EncodeChunk(Chunk(a, k))[j]
  BY <1>2, <1>3
<1>8. QED  BY <1>1, <1>2, <1>6, <1>7 DEF K

LEMMA LastChunk ==
    ASSUME NEW l \in Nat, NEW k \in Nat, l <= 3 * k,
           NEW n, n = IF 3 * k <= l THEN 3 ELSE l - 3 * k + 3
    PROVE  n = l - 3 * k + 3
<1>1. CASE 3 * k <= l
  <2>1. l = 3 * k
    BY <1>1, SMT
  <2>2. l - 3 * k + 3 = 3
    BY <2>1, SMT
  <2>3. QED  BY <1>1, <2>2
<1>2. CASE ~(3 * k <= l)
  BY <1>2
<1>3. QED  BY <1>1, <1>2

LEMMA BytePlace ==
    ASSUME NEW l \in Nat, NEW i \in 1 .. l, NEW k, k = (i + 2) \div 3
    PROVE  /\ k \in 1 .. (l + 2) \div 3
           /\ i - 3 * k + 3 \in 1 .. 3
           /\ 3 * k - 3 + (i - 3 * k + 3) = i
           /\ ~(3 * k <= l) => i - 3 * k + 3 <= l - 3 * k + 3
BY SMT

(* One text, one password. *)
LEMMA EncodingDecides ==
    ASSUME NEW a \in Seq(Byte), NEW b \in Seq(Byte),
           ConstantTimeEq(Base64Encode(a), Base64Encode(b))
    PROVE  a = b
<1> DEFINE K == Chunks(a)
<1>1. Len(a) \in Nat /\ Len(b) \in Nat
  BY LenProperties
<1>2. K \in Nat /\ Chunks(b) = K
  <2>1. 4 * Chunks(a) = 4 * Chunks(b)
    BY EncodedIs DEF ConstantTimeEq
  <2>2. QED  BY <2>1, EncodedIs, SMT
<1>3. ASSUME NEW k \in 1 .. K
      PROVE  /\ Len(Chunk(a, k)) = Len(Chunk(b, k))
             /\ \A j \in 1 .. Len(Chunk(a, k)) : Chunk(a, k)[j] = Chunk(b, k)[j]
  <2>1. ASSUME NEW j \in 1 .. 4
        PROVE  EncodeChunk(Chunk(a, k))[j] = EncodeChunk(Chunk(b, k))[j]
    <3>1. /\ 4 * k - 4 + j \in DOMAIN Base64Encode(a)
          /\ Base64Encode(a)[4 * k - 4 + j] = EncodeChunk(Chunk(a, k))[j]
          /\ Base64Encode(b)[4 * k - 4 + j] = EncodeChunk(Chunk(b, k))[j]
      BY <1>2, EncodedIs
    <3>2. QED  BY <3>1 DEF ConstantTimeEq
  <2>2. /\ Chunk(a, k) \in Seq(Byte) /\ Len(Chunk(a, k)) \in 1 .. 3
        /\ Chunk(b, k) \in Seq(Byte) /\ Len(Chunk(b, k)) \in 1 .. 3
    BY <1>2, ChunkIs
  <2>3. QED  BY <2>1, <2>2, ChunkDecides
<1>4. Len(a) = Len(b)
  <2>1. /\ Len(a) <= 3 * K /\ 3 * K <= Len(a) + 2 /\ Len(b) <= 3 * K /\ 3 * K <= Len(b) + 2
    BY <1>1, <1>2, ThirdsOf DEF Chunks
  <2> HIDE DEF K
  <2>2. CASE K = 0
    BY <1>1, <2>1, <2>2, SMT
  <2>3. CASE K # 0
    <3>1. K \in 1 .. K
      BY <1>2, <2>3, SMT
    <3>2. /\ Len(Chunk(a, K)) = IF 3 * K <= Len(a) THEN 3 ELSE Len(a) - 3 * K + 3
          /\ Len(Chunk(b, K)) = IF 3 * K <= Len(b) THEN 3 ELSE Len(b) - 3 * K + 3
      BY <1>2, <3>1, ChunkIs DEF K
    <3>3. Len(Chunk(a, K)) = Len(Chunk(b, K))
      BY <1>3, <3>1
    <3>4. Len(Chunk(a, K)) = Len(a) - 3 * K + 3
      BY <1>1, <1>2, <2>1, <3>2, LastChunk
    <3>5. Len(Chunk(b, K)) = Len(b) - 3 * K + 3
      BY <1>1, <1>2, <2>1, <3>2, LastChunk
    <3>6. Len(a) - 3 * K + 3 = Len(b) - 3 * K + 3
      BY <3>3, <3>4, <3>5
    <3>7. QED  BY <1>1, <1>2, <3>6, SMT
  <2>4. QED  BY <2>2, <2>3
<1>5. ASSUME NEW i \in 1 .. Len(a)
      PROVE  a[i] = b[i]
  <2> DEFINE k == (i + 2) \div 3
             j == i - 3 * k + 3
  <2>1. /\ k \in 1 .. K /\ j \in 1 .. 3 /\ 3 * k - 3 + j = i
        /\ ~(3 * k <= Len(a)) => j <= Len(a) - 3 * k + 3
    BY <1>1, BytePlace DEF Chunks
  <2> HIDE DEF k, j, K
  <2>2. j \in 1 .. Len(Chunk(a, k))
    <3>1. Len(Chunk(a, k)) = IF 3 * k <= Len(a) THEN 3 ELSE Len(a) - 3 * k + 3
      BY <2>1, ChunkIs DEF K
    <3>2. QED  BY <1>1, <2>1, <3>1, SMT
  <2>3. Len(Chunk(a, k)) = Len(Chunk(b, k)) /\ Chunk(a, k)[j] = Chunk(b, k)[j]
    BY <1>3, <2>1, <2>2
  <2>4. Chunk(a, k)[j] = a[3 * k - 3 + j]
    BY <2>1, <2>2, ChunkIs DEF K
  <2>5. Chunk(b, k)[j] = b[3 * k - 3 + j]
    BY <1>2, <2>1, <2>2, <2>3, ChunkIs
  <2>6. QED  BY <2>1, <2>3, <2>4, <2>5
<1>6. QED  BY <1>4, <1>5, SeqEqual

AuthInv ==
    /\ configured \in Seq(Byte) /\ auth = Base64Encode(configured)
    /\ PasswordDecides

(* Only the password opens the dashboard, and it does, whatever it is. *)
THEOREM PasswordOpens == AuthSpec => []PasswordDecides
<1>1. AuthInit => AuthInv
  BY CredentialsAssumption DEF AuthInit, AuthInv, PasswordDecides, Byte
<1>2. AuthInv /\ [AuthNext]_authVars => AuthInv'
  <2> SUFFICES ASSUME AuthInv, [AuthNext]_authVars
               PROVE  AuthInv'
    OBVIOUS
  <2>1. CASE UNCHANGED authVars
    BY <2>1 DEF AuthInv, PasswordDecides, authVars
  <2>2. CASE Ask(<<-1>>, NoHeader)
    <3>1. configured # <<-1>>
      <4>1. ASSUME configured = <<-1>>
            PROVE  FALSE
        <5>1. Len(configured) = 1 /\ configured[1] = -1
          BY <4>1
        <5>2. configured[1] \in Byte
          BY <5>1, ElementOfSeq DEF AuthInv
        <5>3. QED  BY <5>1, <5>2, SMT DEF Byte
      <4>2. QED  BY <4>1
    <3>2. admitted' = "no" /\ asked' = <<-1>> /\ UNCHANGED <<configured, auth>>
      BY <2>2 DEF Ask
    <3>3. QED  BY <3>1, <3>2 DEF AuthInv, PasswordDecides
  <2>3. ASSUME NEW c \in Credentials, Ask(c, Base64Encode(c))
        PROVE  AuthInv'
    <3>1. c \in Seq(Byte) /\ configured \in Seq(Byte) /\ auth = Base64Encode(configured)
      BY CredentialsAssumption DEF AuthInv, Byte
    <3>2. ConstantTimeEq(Base64Encode(c), auth) <=> c = configured
      <4>1. ASSUME ConstantTimeEq(Base64Encode(c), auth)
            PROVE  c = configured
        BY <3>1, <4>1, EncodingDecides
      <4>2. ConstantTimeEq(auth, auth)
        BY DEF ConstantTimeEq
      <4>3. QED  BY <3>1, <4>1, <4>2
    <3>3. Base64Encode(c) # NoHeader
      <4>1. Len(Base64Encode(c)) = 4 * Chunks(c) /\ Chunks(c) \in Nat
        BY <3>1, EncodedIs
      <4>2. Len(NoHeader) = 1
        BY DEF NoHeader
      <4>3. 4 * Chunks(c) # 1
        BY <4>1, SMT
      <4>4. QED  BY <4>1, <4>2, <4>3
    <3>4. /\ asked' = c /\ UNCHANGED <<configured, auth>>
          /\ admitted' = IF c = configured THEN "yes" ELSE "no"
      BY <2>3, <3>2, <3>3 DEF Ask
    <3>5. QED  BY <3>1, <3>4 DEF AuthInv, PasswordDecides
  <2>4. QED  BY <2>1, <2>2, <2>3 DEF AuthNext
<1>3. AuthInv => PasswordDecides
  BY DEF AuthInv
<1>4. QED  BY <1>1, <1>2, <1>3, PTL DEF AuthSpec
===============================================================================
