-------------------------------- MODULE Sampler --------------------------------
(***************************************************************************)
(* src/sampler.rs and src/shutdown.rs: the sampler thread's loop, what it  *)
(* publishes in the shared state (src/state.rs), the history it keeps      *)
(* across restarts, and the shutdown flag that SIGTERM and SIGINT set.     *)
(*                                                                         *)
(* One process runs at a time; it may be killed at any point and started   *)
(* again.  Each of the three mutexes of the shared state is written in a   *)
(* critical section of its own, so the three publications are three steps. *)
(*                                                                         *)
(* Time is a number of units; it passes while the thread sleeps, while it  *)
(* collects and while no process runs, the other steps are instantaneous   *)
(* beside those.  The wall clock is the time plus a skew that may step.    *)
(* A sample is its number, counted over all processes, with the second the *)
(* wall clock showed and the time it was taken at.  The history file is    *)
(* the register of HistoryFile, which HistoryStore implements: a save      *)
(* replaces it as a whole or fails.  What a tick collects is left to the   *)
(* modules of the collectors and of the alerts.                            *)
(***************************************************************************)
EXTENDS Integers, Sequences, FiniteSets

CONSTANTS
    Persist,        \* is there a history file (config.history_file)
    Interval,       \* config.interval
    Sec,            \* units in a second
    HistorySecs,    \* config.history, in seconds
    NapStep,        \* 200 ms, the longest single sleep
    WarmUp,         \* the sleep before the first tick
    SaveEvery,      \* 60 s, the time between two saves
    WorkTimes,      \* how long the collectors of one tick may take
    DownTimes,      \* how long the process may be down before it is restarted
    Skews,          \* what the wall clock may be off by
    MaxSamples,     \* bound: how many samples are taken, over all processes
    MaxStarts       \* bound: how many processes are started

ASSUME TimeAssumption ==
    /\ Interval \in Nat \ {0} /\ Sec \in Nat \ {0} /\ HistorySecs \in Nat \ {0}
    /\ NapStep \in Nat \ {0} /\ WarmUp \in Nat /\ SaveEvery \in Nat
    /\ WorkTimes \subseteq Nat /\ WorkTimes # {}
    /\ DownTimes \subseteq Nat /\ Skews \subseteq Nat
ASSUME PersistAssumption == Persist \in BOOLEAN
ASSUME BoundAssumption == MaxSamples \in Nat /\ MaxStarts \in Nat

VARIABLES
    now,            \* the monotonic clock
    skew,           \* wall clock minus monotonic clock
    pc,             \* where the sampler thread is
    requested,      \* shutdown::REQUESTED
    json, prom,     \* state.json, state.prom: the sample published, 0 for none
    history,        \* state.history
    file,           \* the history file
    n,              \* number of samples taken
    point,          \* the sample of this tick
    remaining,      \* sleep_interruptible: what is left to sleep
    work,           \* the last tick's cost
    tick_start,
    last_save,
    save_err_logged,
    starts,         \* number of processes started
    reqAt, reqIn,   \* history: when the shutdown was requested, and where
                    \* the thread was then
    gap,            \* history: time between the last two ticks, 0 before
    atExit          \* history: what the last process had in memory when it
                    \* exited with its history saved, << >> otherwise

clock  == <<now, skew>>
shared == <<json, prom, history>>
loop   == <<remaining, work, tick_start, last_save, save_err_logged>>
ghosts == <<reqAt, reqIn, gap, atExit>>
vars   == <<clock, pc, requested, shared, file, n, point, loop, starts, ghosts>>

PCs == {"down", "warmup", "restore", "sleep", "nap", "wake", "collect",
        "json", "prom", "push", "save"}

Saturating(a, b) == IF a > b THEN a - b ELSE 0

(* Mutants: the last nap is not shortened; the sleep is not cut in naps. *)
LeastSecond(a, b) == b
LeastFirst(a, b) == a

Least(a, b) == IF a < b THEN a ELSE b

(* Mutant: the cost of the tick is not subtracted. *)
SleepAlways(cost) == Interval

(* What is left of the interval after a tick of that cost. *)
SleepAfter(cost) == Saturating(Interval, cost)

Point == [n: Nat, ts: Nat, at: Nat]

(* UNIX seconds *)
WallSecs(t) == (t + skew) \div Sec

(* ceil(history / interval) *)
HistoryCap == (HistorySecs * Sec + Interval - 1) \div Interval

(* Mutant: keeps one too many. *)
TrimmedLate(h) == SubSeq(h, Saturating(Len(h), HistoryCap + 1) + 1, Len(h))

(* pop_front until at most HistoryCap are left *)
Trimmed(h) == SubSeq(h, Saturating(Len(h), HistoryCap) + 1, Len(h))

-----------------------------------------------------------------------------
(* The process and its surroundings *)

(* Nothing of a process survives it but the file: the next one starts with
   the shared state of Shared::new and the locals of run. *)
NoPoint == [n |-> 0, ts |-> 0, at |-> 0]

FreshProcess ==
    /\ requested = FALSE
    /\ json = 0 /\ prom = 0 /\ history = << >>
    /\ point = NoPoint
    /\ remaining = 0 /\ work = 0 /\ tick_start = 0 /\ last_save = 0
    /\ save_err_logged = FALSE
    /\ reqAt = 0 /\ reqIn = "down" /\ gap = 0

ProcessEnds ==
    /\ pc' = "down"
    /\ requested' = FALSE
    /\ json' = 0 /\ prom' = 0 /\ history' = << >>
    /\ point' = NoPoint
    /\ remaining' = 0 /\ work' = 0 /\ tick_start' = 0 /\ last_save' = 0
    /\ save_err_logged' = FALSE
    /\ reqAt' = 0 /\ reqIn' = "down" /\ gap' = 0
    /\ UNCHANGED <<clock, n, starts>>

Init ==
    /\ FreshProcess
    /\ now = 0 /\ skew \in Skews
    /\ pc = "down" /\ starts = 0
    /\ n = 0 /\ file = << >> /\ atExit = << >>

(* main: the signal handlers, the sampler thread. *)
Start ==
    /\ pc = "down"
    /\ starts < MaxStarts
    /\ starts' = starts + 1
    /\ \E d \in DownTimes : now' = now + d
    /\ pc' = "warmup"
    /\ UNCHANGED <<skew, requested, shared, file, n, point, loop, ghosts>>

(* SIGTERM or SIGINT *)
Signal ==
    /\ pc # "down"
    /\ ~requested
    /\ requested' = TRUE
    /\ reqAt' = now /\ reqIn' = pc
    /\ UNCHANGED <<clock, pc, shared, file, n, point, loop, starts, gap, atExit>>

(* SIGKILL, out of memory, a panic (the release profile aborts) *)
Crash ==
    /\ pc # "down"
    /\ ProcessEnds
    /\ atExit' = << >>
    /\ UNCHANGED file

(* The wall clock is set. *)
StepClock ==
    /\ skew' \in Skews \ {skew}
    /\ UNCHANGED <<now, pc, requested, shared, file, n, point, loop, starts, ghosts>>

-----------------------------------------------------------------------------
(* Before the loop *)

WarmUpSleep ==
    /\ pc = "warmup"
    /\ now' = now + WarmUp
    /\ pc' = "restore"
    /\ UNCHANGED <<skew, requested, shared, file, n, point, loop, starts, ghosts>>

(* The indices of the saved points that are not too old, in order. *)
MinTs == Saturating(WallSecs(now), HistorySecs)

(* Mutant: drops a point that is exactly as old as the window. *)
FreshStrictly(h) == { i \in 1 .. Len(h) : h[i].ts > MinTs }

Fresh(h) == { i \in 1 .. Len(h) : h[i].ts >= MinTs }
InOrder(S) ==
    { f \in [1 .. Cardinality(S) -> S] :
        \A i, j \in 1 .. Cardinality(S) : i < j => f[i] < f[j] }

(* The points f selects. *)
Picked(h, f) == [i \in 1 .. Cardinality(Fresh(h)) |-> h[f[i]]]

(* persist::load: the fresh points, the newest HistoryCap of them. *)
Restore ==
    /\ pc = "restore"
    /\ \E f \in InOrder(Fresh(file)) :
          history' = IF Persist
                     THEN Trimmed(Picked(file, f))
                     ELSE << >>
    /\ last_save' = now
    /\ remaining' = SleepAfter(work)
    /\ pc' = "sleep"
    /\ UNCHANGED <<clock, requested, json, prom, file, n, point, work, tick_start,
                   save_err_logged, starts, ghosts>>

(* "Any read/parse failure yields an empty buffer" *)
RestoreNothing ==
    /\ pc = "restore"
    /\ Persist
    /\ last_save' = now
    /\ remaining' = SleepAfter(work)
    /\ pc' = "sleep"
    /\ UNCHANGED <<clock, requested, shared, file, n, point, work, tick_start,
                   save_err_logged, starts, ghosts>>

-----------------------------------------------------------------------------
(* sleep_interruptible *)

(* Mutant: goes on with the loop instead of returning. *)
SleepHeadContinues ==
    /\ pc = "sleep"
    /\ pc' = IF remaining = 0 THEN "wake" ELSE IF requested THEN "sleep" ELSE "nap"
    /\ UNCHANGED <<clock, requested, shared, file, n, point, loop, starts, ghosts>>

(* The head of its loop: stop when the time is up or a shutdown requested. *)
SleepHead ==
    /\ pc = "sleep"
    /\ pc' = IF remaining > 0 /\ ~requested THEN "nap" ELSE "wake"
    /\ UNCHANGED <<clock, requested, shared, file, n, point, loop, starts, ghosts>>

Nap ==
    /\ pc = "nap"
    /\ now' = now + Least(remaining, NapStep)
    /\ remaining' = remaining - Least(remaining, NapStep)
    /\ pc' = "sleep"
    /\ UNCHANGED <<skew, requested, shared, file, n, point, work, tick_start,
                   last_save, save_err_logged, starts, ghosts>>

-----------------------------------------------------------------------------
(* The tick *)

(* flush_history and exit(0): the save may fail, the exit does not. *)
FlushAndExit ==
    /\ pc = "wake"
    /\ requested
    /\ \/ file' = (IF Persist THEN history ELSE file) /\ atExit' = history
       \/ UNCHANGED file /\ atExit' = << >>
    /\ ProcessEnds

BeginTick ==
    /\ pc = "wake"
    /\ ~requested
    /\ n < MaxSamples
    /\ tick_start' = now
    /\ gap' = IF json = 0 THEN 0 ELSE now - tick_start
    /\ pc' = "collect"
    /\ UNCHANGED <<clock, requested, shared, file, n, point, remaining, work,
                   last_save, save_err_logged, starts, reqAt, reqIn, atExit>>

(* The collectors run and the snapshot is built. *)
Collect ==
    /\ pc = "collect"
    /\ \E w \in WorkTimes :
          /\ now' = now + w
          /\ point' = [n |-> n + 1, ts |-> WallSecs(now + w), at |-> now + w]
    /\ n' = n + 1
    /\ pc' = "json"
    /\ UNCHANGED <<skew, requested, shared, file, loop, starts, ghosts>>

PublishJson ==
    /\ pc = "json"
    /\ json' = point.n
    /\ pc' = "prom"
    /\ UNCHANGED <<clock, requested, prom, history, file, n, point, loop, starts, ghosts>>

(* Mutant: the metrics are rendered of the sample before. *)
PublishPromLate ==
    /\ pc = "prom"
    /\ prom' = IF history = << >> THEN 0 ELSE history[Len(history)].n
    /\ pc' = "push"
    /\ UNCHANGED <<clock, requested, json, history, file, n, point, loop, starts, ghosts>>

PublishProm ==
    /\ pc = "prom"
    /\ prom' = point.n
    /\ pc' = "push"
    /\ UNCHANGED <<clock, requested, json, history, file, n, point, loop, starts, ghosts>>

(* Mutant: at the wrong end. *)
PushHistoryFront ==
    /\ pc = "push"
    /\ history' = Trimmed(<<point>> \o history)
    /\ pc' = "save"
    /\ UNCHANGED <<clock, requested, json, prom, file, n, point, loop, starts, ghosts>>

PushHistory ==
    /\ pc = "push"
    /\ history' = Trimmed(Append(history, point))
    /\ pc' = "save"
    /\ UNCHANGED <<clock, requested, json, prom, file, n, point, loop, starts, ghosts>>

(* Mutant: measured from the start of the tick. *)
SaveDueByTick == Persist /\ now - tick_start >= SaveEvery

SaveDue == Persist /\ now - last_save >= SaveEvery

(* The periodic save, due or not, successful or not, and the end of the
   tick.  A failed save is not retried before the next one is due. *)
SaveAndEndTick ==
    /\ pc = "save"
    /\ \/ ~SaveDue /\ UNCHANGED <<file, last_save, save_err_logged>>
       \/ SaveDue /\ last_save' = now /\ file' = history /\ UNCHANGED save_err_logged
       \/ SaveDue /\ last_save' = now /\ UNCHANGED file /\ save_err_logged' = TRUE
    /\ work' = now - tick_start
    /\ remaining' = SleepAfter(now - tick_start)
    /\ pc' = "sleep"
    /\ UNCHANGED <<clock, requested, shared, n, point, tick_start, starts, ghosts>>

Thread ==
    \/ WarmUpSleep \/ Restore \/ RestoreNothing \/ SleepHead \/ Nap \/ FlushAndExit \/ BeginTick
    \/ Collect \/ PublishJson \/ PublishProm \/ PushHistory \/ SaveAndEndTick

Next == Thread \/ Start \/ Signal \/ Crash \/ StepClock

Spec == Init /\ [][Next]_vars

-----------------------------------------------------------------------------
(* Properties *)

(* The types of the shared state, of the loop's locals and of the file. *)
TypeOK ==
    /\ now \in Nat /\ skew \in Nat
    /\ pc \in PCs /\ requested \in BOOLEAN
    /\ json \in Nat /\ prom \in Nat /\ history \in Seq(Point)
    /\ file \in Seq(Point)
    /\ n \in Nat /\ point \in Point
    /\ remaining \in Nat /\ work \in Nat /\ tick_start \in Nat /\ last_save \in Nat
    /\ save_err_logged \in BOOLEAN
    /\ starts \in Nat
    /\ reqAt \in Nat /\ reqIn \in PCs /\ gap \in Nat /\ atExit \in Seq(Point)

(* The chart's data: no sample twice, none out of order, never more than the
   configured window, in memory and in the file, across crashes, restarts,
   failed saves and failed loads. *)
Ordered(h) == \A i, j \in 1 .. Len(h) : i < j => h[i].n < h[j].n

HistoryOrdered ==
    /\ Ordered(history) /\ Len(history) <= HistoryCap
    /\ Ordered(file) /\ Len(file) <= HistoryCap

(* What the three endpoints serve: between two publications they show the
   same newest sample; during one the snapshot may be one sample ahead of
   the metrics, and then these and the history still agree, so that a client
   never sees three different samples. *)
Newest == history[Len(history)].n

EndpointsAgree ==
    json # 0 =>
        /\ pc \notin {"prom", "push"} => prom = json /\ history # << >> /\ Newest = json
        /\ prom \in {0, json - 1, json}
        /\ prom \notin {0, json} => history # << >> /\ Newest = prom

(* "a shutdown signal during the inter-tick wait is noticed promptly instead
   of after a full interval": what passes from the signal to the exit is at
   most the nap it came in, or the work of the tick it came in, however long
   the interval is. *)
Delays(where) ==
    CASE where = "nap"     -> {NapStep}
      [] where = "collect" -> WorkTimes
      [] where = "warmup"  -> {WarmUp}
      [] OTHER             -> {0}

ShutdownPrompt == requested => \E d \in Delays(reqIn) : now - reqAt <= d

(* "Subtract last tick's sampling cost so ticks stay near the interval": a
   tick starts exactly one interval after the one before it, or as soon as
   that one's work is done if it took longer; the cost never adds up. *)
TicksKeepCadence ==
    pc = "collect" /\ gap # 0 => gap = IF work > Interval THEN work ELSE Interval

(* What a kill can cost: unless a save has failed in this process, every
   sample in memory is in the file or was taken since the last save, which
   is at most SaveEvery and one tick ago. *)
InFile(p) == \E i \in 1 .. Len(file) : file[i] = p

LossBounded ==
    Persist /\ ~save_err_logged /\ pc \notin {"down", "warmup", "restore"} =>
        /\ \A i \in 1 .. Len(history) : InFile(history[i]) \/ history[i].at >= last_save
        /\ \E w \in WorkTimes : now - last_save <= SaveEvery + Interval + w

(* "flushes chart history before exiting so the dashboard's graphs survive
   restarts": of what was in memory at an exit that saved, the next process
   restores every sample that is still in the configured window. *)
CleanRestart ==
    [][Restore => \A i \in 1 .. Len(atExit) :
                     Persist /\ atExit[i].ts >= MinTs =>
                         \E j \in 1 .. Len(history') : history'[j] = atExit[i]]_vars

(* A requested shutdown ends the process. *)
ShutdownHappens == requested ~> pc = "down"
===============================================================================
