# watchlite in TLA+

watchlite is a host monitor in one process: a sampler thread collects a
snapshot of the host once per interval and publishes it, HTTP handler threads
serve what is published, alert rules are evaluated on every snapshot, and the
chart history is saved to a file so that it survives restarts. This directory
models its logic in TLA+, checks it with TLC and proves parts of it with TLAPS.
Paths below are relative to the repository; definitions keep the source's names
where TLA+ allows. `PROJECT.json` lists the runs, the definition-to-source map,
the hazards and the theorems.

## The system

| Component | State it keeps | Operations | Hard behaviour | What makes it correct |
|---|---|---|---|---|
| Sampler (`src/sampler.rs`) | loop locals: previous counters, cost of the last tick, time of the last save | warm-up, restore, sleep, collect, publish, push, save, flush and exit | crash between any two steps, signal at any point, failed save or load, clock steps, slow collectors | history in order and bounded, endpoints agree, cadence kept, prompt shutdown, bounded loss |
| Shared state (`src/state.rs`) | three mutexes: snapshot JSON, metrics text, history | written by the sampler, cloned by the handlers | three critical sections per tick | a client never sees three different samples |
| Shutdown flag (`src/shutdown.rs`) | `REQUESTED` | signal handlers, `requested` | polled, never waited for | every request ends the process |
| Alert engine (`src/alerts.rs`) | two wrapping counters and a firing time per rule | `eval`, once per tick; `emit` spawns a curl child | long sequences, rounding, wrap of the counters, events that overtake each other | three samples in a row and nothing else fire or resolve |
| Sensor collector (`src/collectors/sensors.rs`) | none | `read` | truncation before the rules look | the hottest sensor is always seen |
| History persistence (`src/persist.rs`) | the history file and its temporary file | `load`, `save` | death and failure between system calls, a second process | the file is a whole history, never older than an acknowledged save |
| Entry point (`src/main.rs`) | none | read the command line, start the sampler; serve, or with `--once` poll the snapshot | 30 s deadline against the interval, signal while polling or printing | prints one sample or fails, and always ends |
| Command line (`src/config.rs`) | the texts given so far | the arguments one by one, then the checks; the place of the history file; the encoded password | flags that repeat, take a flag for their value or end the process; an environment behind them | the last value counts, and only what counts is refused |
| Self-update (`src/update.rs`) | none | one request, one comparison | answers that are no version | the exit status says what was found |
| Container collector (`src/collectors/docker.rs`) | previous CPU counters, a warned-once flag | probe the sockets, list, ask each container; read an answer, chunked or not | time-outs, partial failures, answers cut off, counters over an outage | a share is of time that was used; an answer is taken whole or not at all |
| Disk and network collectors (`src/collectors/disk.rs`, `net.rs`) | none (rates are kept by the sampler) | counters, mounts | devices that come and go, mounts that are listed twice, more available than there is | a rate is never negative or huge |
| Connections and processes (`src/collectors/connections.rs`, `process.rs`) | none | parse, count, sort, cut | which come first and are kept when a list is cut | the list is what its length says, and counts are of all |
| Prometheus text (`src/prom.rs`) | none | render | names with characters the format gives a meaning | a scraper reads what the host has |
| HTTP server (`src/http/`) | none | four threads on one listener, routes, password | clients that read slowly or never; mutexes shared with the sampler | the others are served, the sampler goes on, nothing goes back |
| Dashboard (`src/static/app.js`) | chart buffers, the timer, the filter and the sort order | fetch and render, seed the charts | overlapping fetches, redraws | a chart shows each sample once and in order |

Interaction: `main` starts the sampler and serves HTTP. The sampler calls the
collectors, hands the snapshot to `AlertEngine::eval`, publishes to the shared
state, and calls `persist`. Handlers only read. Signals only set the flag.

## The modules

| Module | Models | Kind |
|---|---|---|
| `Hysteresis` | what one rule promises: a window of the last `HOLD_TICKS` conditions | abstract specification |
| `AlertEngine` | `AlertEngine::eval` with `measure`, `pct`, the rounding, the counters | detailed; implements `Hysteresis` |
| `SensorAlerts` | `sensors::read` composed with `AlertEngine` | composition |
| `AlertDelivery` | `emit`: the curl children, the thread that reaps each, restarts; on top of `AlertEngine` | composition |
| `AlertProofs` | the theorems of these three | proofs |
| `HistoryFile` | a register that is replaced whole or kept | abstract specification |
| `HistoryStore` | `persist::save` and `load`, system call by system call | detailed; implements `HistoryFile` |
| `HistoryProofs` | its theorems | proofs |
| `Sampler` | `sampler::run`, `sleep_interruptible`, `flush_history`, the signal flag, the shared state, restarts | detailed |
| `SamplerProofs` | the theorems of `Sampler` and `HttpServer` | proofs |
| `HttpServer` | `http::serve` and `handle`: listener, threads, mutexes, clients; on top of `Sampler` | composition |
| `BasicAuth` | the password: `base64_encode` and `constant_time_eq` | detailed |
| `CommandLine` | `Config::from_args` with `parse_alert` and `resolve_history_file`; `update::check` | detailed |
| `OnceMode` | `print_first_snapshot` beside the sampler thread | detailed |
| `EntryPoint` | `main`: `CommandLine`, then `OnceMode` at the interval that was given, or serving | composition |
| `EntryProofs` | the theorems of `EntryPoint` and `BasicAuth` | proofs |
| `Rates` | `Prev` and `rate` of the sampler: interfaces, disks, their counters and the first tick | detailed |
| `ContainerCollector` | `docker::collect`, request by request, with an engine that changes and fails in between | detailed |
| `EngineRequest` | `get` and `decode_chunked`: one answer of the engine, byte by byte | detailed |
| `ContainerProofs` | the theorems of `ContainerCollector` and `EngineRequest` | proofs |
| `Snapshot` | `disk::usage`, `parse_diskstats`, `connections::read`, `process::list`, `prom::render`, and a scraper | detailed |
| `RatesProofs` | the theorems of `Rates` and `Snapshot` | proofs |
| `Dashboard` | the callbacks of `app.js`, the network and what the handlers answer | detailed |
| `DashboardProofs` | its theorems | proofs |
| `ListLemmas` | induction over the naturals, recursion along a sequence, a text joined of blocks | lemmas |
| `MC*` | the small instances for TLC | model checking |

### AlertEngine

One action, `Eval(snap, ts)`, is one call of `eval`: `rule[r]` is the
`RuleState` of rule `r`, with counters modulo `CounterMod` (2^32 in a release
build). Percentages and temperatures are integers in hundredths; `Rounded`
rounds to tenths as the code does, and thresholds are tenths. `event[r]` is
what `emit` was called with, `shown[r]` the value in it, `recent[r]` a history
variable: the last `HOLD_TICKS` conditions, which no code keeps and which the
abstract specification is about. A sensor label is the set of rule targets it
contains; nothing else about the text matters.

### SensorAlerts

`Kept` is the filter, the sort and `truncate(16)`; which of two equally hot
sensors survives is not determined, as the host offers them in no particular
order. The rules are `AlertEngine`'s and see only what was kept. `hot`
remembers what the sensors of a rule's scope really were. Each host's sensors
are finitely many, there is room for at least one, and thresholds of `temp`
rules are numbers (`HostAssumption`, `TempsAssumption`).

### HistoryStore

Directory entries point to inodes, inodes have a content that is a sequence of
chunks, each marked with the version that wrote it. `save` is `Save`, `OpenTmp`,
`WriteChunk` (one per chunk), `Rename`, `Return`; `Fail` is any of these
returning an error, `Crash` the death of the process at any point. `Load` is
what a process that starts would find: a version, or 0 when the file is missing
or does not parse. Which samples of it are restored is `Sampler.Restore`. An
unreadable file (a transient failure of the read) is `Sampler.RestoreNothing`.

### Sampler

`pc` is the place of the sampler thread; each publication is a step of its own
because each is a critical section of its own. Time is a number of units that
passes in `Nap`, `WarmUpSleep`, `Collect` and between processes; the wall clock
is the time plus a skew that may step at any moment. A sample is its number
counted over all processes, the second the wall clock showed, and the time it
was taken at. The history file is a register here, replaced whole by a save or
left alone by one that fails: that is what `HistoryStore` is shown to
implement. `reqAt`, `reqIn`, `gap` and `atExit` are history variables.
What a tick collects is data the properties do not tell apart, so `Collect`
only takes time.

### AlertDelivery

`Sample` is one tick of the sampler: `AlertEngine.Eval`, and one curl child for
each event. Time is kept as the age of the children: from one evaluation to the
next passes what `sampler.rs:72` makes of the interval and the work of two
ticks (`Elapsed`), and no child outlives `curl -m 5` (`MayPass`). A child's
request is acted on while it runs or never. A restart makes a new engine; the
children of the old process live on, so that the new one's events race them.

### Rates

The reading part of a tick is one action per statement that reads something:
the interfaces (`RefreshNetworks`), the clock against the last date
(`TakeElapsed`) and for the new one (`TakeSampledAt`), the disks' counters
(`ReadDisks`); `EndTick` keeps them. Time passes between any two of them, so that
the refresh of the disks or the sensors, or the containers, may take as long as
they want. A reading carries the moment it was made at, which the code does not
know; `slack` is what the longer of a rate's two ticks has spent between its
first reading and its last. `moved` is what a device has really moved,
which its counter forgets when it is replaced by another of the same name. The
first `Prev` dates the interfaces after the warm-up although they were listed
before it, as `run` does (`WarmedUp`, `FirstDisks`).

### ContainerCollector

`Collect`, `List`, one `Stats` or `StatsFail` per container, `Return`; each is
a request on a connection of its own, and `Work`, `Stop` and `StartContainer`
of the engine happen between any two. A container that stopped since the list
answers with empty counters, which the deserialiser's defaults turn into
zeros. `used` and the `host` clock in a reading are history: what the two
counters stood for.

### EngineRequest

The engine sends an answer piece by piece: a head, and then the payload at
once or in chunks (`SendChunk`, `SendLast`). The client takes what has come
when the connection ends, after any number of symbols (`ReadToEnd`, which is
`get` up to the choice of the framing); `DecodeChunk` is one turn of the
decoder's loop, and `SizeOf` is `from_str_radix`, digit by digit. Symbols of the
payload look like sizes and line ends, so that a decoder that loses its place is
misled. How the engine frames is external. `marks` is history: where each chunk
begins, and how much of the payload is before it. The payload is a JSON array
that ends at its last bracket, and a radix has a digit for each of its values
(`EngineAssumption`).

### Snapshot

One action, `Tick`: what the collectors make of what the host says, and the
text rendered of it. A file of `/proc` is a sequence of lines with the fields
that are read, a name is a sequence of the characters that matter to the text
format (a name that is no UTF-8, which the code shows with replacement
characters, is not one). The text is the families one after the other, each its
type and a line per reading (`Families`, `Lines`, `Render`). What a sort
returns is any of the orders it may return (`Sorts`, `ByShare`). `ReadLabel` and
`SamplesOf` are the other side: a scraper that reads the text after the format's
rules. The names of file systems are in lower case. Families of one number that differ in the field only are represented by
those of the processes, connections and alerts. `HostsAssumption` says what is
relied on: the files have the fields that are read, a mount point that is listed
twice says one size, and the kernel and the engine give what they list names of
their own. Nothing says so of the labels of sensors.

### HttpServer

`Sampler` step by step, and handlers that share its mutexes. The sampler holds
a mutex only within a step (`Needs` says which), a handler from `Lock` to
`Copy`; writing the answer (`Respond`) ends when the client has read, and
nothing ends it before. Threads are alike, so that they are counted and each
request has a state. The queue of accepted requests belongs to `tiny_http`;
one thread at a time takes the oldest. `seen` and `base` are history: how far a
client knows the publications to have come, and how many samples had been taken
when the process started. The endpoints may be one sample apart while a
tick publishes. After a crash that lost samples the restored history ends
earlier than the sample before the process, and the distance in numbers is
larger without anything having been missed; what counts is therefore `Reached`:
the newest sample of an answer, or `base` if that is newer. `seen` begins again
with each process. The run starts in a second process to have this case.

### CommandLine, OnceMode and EntryPoint

`CommandLine` has one action per arm of the loop over the arguments, which
replaces the text of a setting, remembers a rule or a switch, or ends the
process; `Accept` and `Refuse` come after the last argument. `FlagsOf` is the
statement's own reading of the arguments: which of them are flags, given that
a flag swallows the next. What the library
makes of a text is a constant: its number, and whether it is one for an integer
as well (`WholeTexts`), which `2.0` is not. `EntryPoint` hands the interval to `OnceMode`,
in which the sampler thread is reduced to when it publishes and when it looks
at the signal flag. A poll is two steps: the copy of the snapshot (`PollPrints`,
`PollMisses`), and the look at the clock (`PollGivesUp`, `PollAgain`); the main
thread may be late for either (`Lateness`). A long line takes more than one write, so that a signal can end the process in the middle of it.

### BasicAuth

`auth` is what `from_args` keeps, `Ask` a request with a header that a client
made of some credentials, or with none. A byte is a number (`CredentialsAssumption`),
an encoded text a sequence of numbers below 64 and of `Pad`: the four of each
chunk of three bytes, one chunk after the other.

### Dashboard

Each callback of the page is an action: the timer, the arrival or failure of
an answer (`refresh` and `seedHistory` from their awaits on), a redraw, a
reload. `Answer` is the handler, which reads the shared state when it gets to
it, so that answers overtake each other. The four chart buffers are filled
together and are one here. `server` also ticks and restarts, with another
interval and a history cut at some sample.

## The runs

| Run | Shows | Bounds |
|---|---|---|
| `alerts` | types, `CountersMatchWindow`, `SinceStable`, `EventsTellTransitions`, the refinement of `Hysteresis`, `AlertsSettle`; `HottestIsSeen` of the sensors | four rules, one per way to measure; four hosts with values below, on and above the thresholds and within the rounding of them, three sensors with room for two; counters modulo 5, so that they wrap while a rule is on |
| `sensors_scoped` | finding: `ScopedIsSeen` is violated | the same |
| `delivery` | `ReceivedInOrder`, `ZombiesReaped` | two rules that fire on one tick, an interval of 3 s, ticks without work and longer than the interval, two events per rule, any number of restarts |
| `store` | `NeverTorn`, `AckedIsDurable`, the refinement of `HistoryFile` | one process (`OneProc`), four saves of different sizes, three inodes, failure or crash at every call |
| `store_shared` | finding: `NeverTorn` is violated by two processes | two processes |
| `sampler` | `HistoryOrdered`, `EndpointsAgree`, `ShutdownPrompt`, `TicksKeepCadence`, `LossBounded`, `CleanRestart` | see below |
| `http` | `AnswersMoveForward`, `OthersAreServed`, `ShutdownHappens` | two threads, one client that may never read and one that does, a password, four paths; a process that restores two of the three samples its predecessor took, publishes the fourth and is stopped or killed anywhere |
| `readings` | `RateIsEarned`, `RateCoversItsWindow`, and that `Prev` holds the last reading's devices only; `ScrapeReadsHost`, `ListsAreSelections` | an interface and a disk, two bytes each, three units of time, which pass in any of the steps of a tick or between: stalls before and after the date, a slow end of a tick, two sleeps; every pair of mounts, of five names with every character that is escaped; files of up to three lines, room for two ports; up to three processes, all or two of them shown |
| `containers` | `ShareIsEarned`, and that what is kept is bounded; `WholeOrNothing` | two containers of which one is asked, as fifty of fifty-one, three units of CPU time; answers of up to three symbols between their brackets, sent in chunks of any lengths and cut off anywhere, sizes of one digit and of two, with leading zeros (`Radix` 3), with and without an extension |
| `main` | `FlagsWin`, `RefusedForAReason`, `PrintsRealSample`, `GivesUpOnlyWithoutSample`, `OnceEnds`, `PasswordDecides` | every sequence of up to four of thirteen words, in three environments, one of which gives `2.0` for an integer; the true 30 s, 100 ms and 250 ms, intervals of 2 s, of 29 s with a first sample before, at and after the deadline, and of 40 s; passwords of one to four bytes |
| `dashboard` | `OneTimer`, `ChartFollowsSamples`, `PageCatchesUp` | charts of two points, one or two requests open, three samples, a restart and a reload |
| `dashboard_redraw` | finding: `RedrawOnlyDraws` is violated | the same |

The bounds of `sampler`: a unit is half a nap, the interval is a nap and a half
so that the last nap of a sleep is short, a tick's work is shorter or longer
than the interval, the window holds three samples and four are taken so that it
overflows, a save is due every other tick, two processes so that one restores
what the other left, and a wall clock that jumps by two seconds both ways, so
that restored samples are on both sides of the age limit and on it. Longer
histories repeat these cases: a step looks only at the ends of the ring and at
the age limit.

`MCRates`, `MCContainerCollector` and `MCEntryPoint` each hold a second module
that shares no state with the first: a behaviour is one of either, by its
initial state. The second ones are small, and their properties say nothing
about the first.

With three mutexes and no step that takes two of them, two threads are enough
to have every pair of holders; a third client would only queue. The password
and its header differ at most in the last of their chunks of three bytes, which
lengths up to four show.

Deadlock is checked except in `http`, where a process that has used its
bound of starts is down for good, and in `main`, where the process ends.

`ReceivedInOrder` says in its statement for which intervals it is meant: two
events of one rule are at least two intervals apart, which is longer than curl
lives from an interval of 3 s on. At the default of 2 s it is not, and a slow
receiver may see `resolved` before `firing`. `ChartFollowsSamples` says in the
same way that it is about networks that answer within the period
(`openLimit = 1`); with more requests open, an older answer may be drawn after
a newer one, and a late history after live samples.

### Fairness

`AlertEngine.FairSpec` and `SensorAlerts.FairSensorSpec`: the sampler evaluates the rules on every tick for ever
(`loop` in `run`). `HttpServer.ServerFairness`: every thread that is
ready runs, every sleep of the loop ends, and a client that is not slow reads
its answer (weak fairness of `Take`, `Copy` and `Respond`); a thread that waits
for a mutex gets it if it is free again and again (strong fairness of
`SamplerStep` and `Lock`), which a mutex of the operating system gives as long
as nobody holds it for ever, and that nobody does is what is checked.
`AlertDelivery.FairDelivery`: every child ends (`curl -m 5`) and a
waiting thread runs. `EntryPoint.MainFairness`: both threads run and time goes on.
`Dashboard.FairSpec`: the timer fires, the sampler samples, and, as strong
fairness, the network does not fail every request for ever: a page cannot catch
up otherwise. Signals, crashes, restarts and clock steps are never assumed.

## Findings

1. `src/collectors/sensors.rs:20` keeps the sixteen hottest sensors before the
   rules see them, so a rule scoped to a cooler sensor, which the README
   documents, never fires when that sensor is over its threshold (run
   `sensors_scoped`). A rule without a target is not affected (run `alerts`).
2. `src/persist.rs:31` derives the temporary name from the history file's name
   alone. Two processes with one history file, the default for two instances of
   one user, can rename a half-written text over the history, which "Atomic
   save" (`src/persist.rs:25`) excludes (run `store_shared`). With one process
   it holds, and is proved.
3. `src/static/app.js:136` appends to the chart on every `render`, and the
   callbacks of the sorts, the filter, the theme and the resize call `render`
   with the sample that is already there: a redraw adds a point that was never
   measured (run `dashboard_redraw`).

Seen while modelling, without a run of their own:

* `src/sampler.rs:197` logs "history: persistence disabled" at the first failed
  save; nothing is disabled, later saves are tried when due and at exit.
* `src/sampler.rs:29` reads the interfaces' first counters before the warm-up and
  line 38 dates them after it: the first rate of an interface is too high.
  `RateCoversItsWindow` therefore speaks of interfaces from the second tick on.
* Four clients that do not read, as many as threads, stall every request,
  `/healthz` too (`src/http/mod.rs:15`); `OthersAreServed` is about fewer.
* Exit status 2 means a command line that is refused (`src/config.rs:81`) and,
  with `--check-update`, a newer version (`src/update.rs:38`).
* A flag takes the next argument for its value even if it is a flag
  (`src/config.rs:101`): `--webhook --once` serves, and posts to `--once`.
* Two sensors with one label, two of one chip for example, become two samples
  with one name in the metrics (`src/prom.rs:163`), which a scraper may refuse.
* An answer of the engine that is not chunked and is cut off is not noticed as
  such (`src/collectors/docker.rs:253`); it is refused because it is no JSON,
  which `WholeOrNothing` says.
* `src/sampler.rs:82` waits for the mounts between the reading of the interfaces
  and the clock that dates it: when a mount hangs, the reading is older than its
  date by as much, and the next tick, which does not sleep, divides the bytes of
  all that time by its own short one. `RateCoversItsWindow` is exact only up to
  what a tick spends between its readings.
* A sample that is published between `src/main.rs:40` and the look at the clock
  in line 45 is not printed if the main thread is held up there past the
  deadline; `GivesUpOnlyWithoutSample` allows for that.
* `src/sampler.rs:218` subtracts a nap's nominal length, while `thread::sleep`
  takes at least that long. Naps are exact in `Sampler`, so `TicksKeepCadence` and
  `ShutdownPrompt` are up to what the naps of a sleep overshoot.
* `src/main.rs:37` gives up after 30 s, while the interval may be an hour; and
  line 41 takes any snapshot with a process named `warming_up` for the initial
  text. `GivesUpOnlyWithoutSample` is about samples it can recognise.
* `src/collectors/docker.rs:141` refers to the server log, but a timeout or a
  text that is not understood is never logged, and a rejection once. After a
  failed list the next percentage is taken over the whole outage.
* `src/static/app.js:382` spreads the whole history over a chart whose label
  still says `SPARK_LEN` intervals.

## What is proved

Every theorem holds for every value of the constants that satisfies the named
assumptions of the modules; two have a hypothesis besides, `OneProcess` and the
one of `OnceGivesUpLast`, and some properties say in their own statement when
they are meant (`OutlivesNoEvent`, `openLimit = 1`). The runs check the same
properties on small instances, and every invariant named below was checked with
TLC before it was proved.

`AlertProofs`, the engine: `TypeCorrect`, `CountersCorrect`, `SinceIsStable`,
`EventsAreTransitions`, `Refinement`. `CountersMatchWindow` is inductive
together with the types: the counter that can change a rule's state is below
`HOLD_TICKS`, so it never wraps (`CounterAssumption`: 2^32 > 3), and it is the
length of the run at the end of the window, so that it reaches `HOLD_TICKS`
exactly when the whole window is equal. The refinement follows step by step.

`AlertProofs`, the webhook: `DeliveredInOrder`, for every interval, any rules,
any work of a tick and any number of events and restarts. Three facts are
inductive together. `AgeInv`: a child that has seen k evaluations is at least
k - 1 intervals old, and never older than curl's time-out. `DistanceInv`: the
counter that decides over a rule's next event is at most the number of
evaluations its last child has seen, since the event reset it. `NewestInv`: a
running child is that of its rule's newest event and the only one. An event
needs `HOLD_TICKS` evaluations, so the last child would be `HOLD_TICKS` - 1
intervals old, which `OutlivesNoEvent` excludes; without it `NewestInv` is not
inductive, and at the default interval it is not true.

`AlertProofs`, the sensors: `HottestSeen`, for any number of sensors and any
room in the list. What is cut is not hotter than what is kept (`HottestKept`),
rounding keeps the order, so a rule without a target sees a hot sensor if there
is one; `SeenInv` says that the counter of a rule that is off keeps up with the
hot ticks, and so reaches `HOLD_TICKS` with them.

`HistoryProofs`: `AtomicSave`, `SavesAreDurable` and `Refinement` for one process
(`OneProcess`); the types are a lemma and hold for any number. The invariant says of each step of `save`
what the temporary file holds: a prefix of one version while writing, all of it
before the rename, on an inode the history's name does not point to. That the
two inodes differ is why truncating the temporary file cannot hurt the history;
with two processes it fails, which is finding 2. Versions only grow, so that the
file is never older than an acknowledged save.

`SamplerProofs`: `TypeCorrect`, `HistoryIsOrdered`, `EndpointsDoAgree` and
`RestartIsClean`. The invariant behind the second says that nothing in memory or
in the file is newer than the last sample taken, and that the sample of the
current tick is newer than everything in memory until it is pushed; the lemmas
about trimming and selecting say that both keep order and that a trimmed history
is within its capacity. `AgreeInv` says which of the three publications each
place of the loop has behind it. `ExitInv` says that what was in memory at an
exit that saved is in the file until the next process has restored it.

`SamplerProofs`, time: `ShutdownIsPrompt`, `CadenceIsKept` and `LossIsBounded`.
`PromptInv` bounds what has passed since the signal by what the current step of
the loop can still take; `CadenceInv` ties the sleep that remains, the work of
the last tick and the time since it started to the interval; `LossInv` says that
what is not in the file was taken since the last save, and how long ago that is.

`SamplerProofs`, the server: `AnswersDoMoveForward`, for any clients, threads and samples. A
sample is published in three steps, so that `Published` counts three per sample
less what is still to do, and only grows while a process lives (`BaseInv`, from
the three invariants of `Sampler`). What a handler copies under the mutex
is at most two publications behind, and its client learns nothing else until it
is written; `SeenInv` keeps that apart for the answers on their way and for the
ones that were read.

`EntryProofs`, `--once`: `OncePrintsSample`, without a condition, as only a text
that is recognised is printed and no sample is ever taken back; and
`OnceGivesUpLast` under `TRUE \notin Mentions`: no snapshot contains the text
`"warming_up"`, which one with a process of that name does. `ReadyInv` dates the
first snapshot that could be recognised: between the two looks of a poll it came
after the first of them, if there is one at all. The second look is at most
`Lateness` later and gives up only after the deadline, so what was missed came
later than `Lateness` before the deadline.

`EntryProofs`, the command line: `FlagsDecide` and `RefusalsHaveReasons`, for
arguments of any number and any text in any environment. `ReadingInv` says of
every prefix what it means: the text of each setting is that of the last flag
before `at` or of the environment, a rule is remembered for every `--alert`, in
order, and every flag read was known and had its value. `OutcomeInv` says what
each way to leave the loop means. That the statement's `FlagsOf` agrees with the
loop needs induction over the arguments: `FlagsAlternate` uses `SetInduction`,
which is derived from the order of the naturals.

`EntryProofs`, the password: `PasswordOpens`, for credentials of any length. The
encoding is injective: three bytes are recovered from four sextets
(`ChunkDecides`), the number of chunks from the length, and the length of the
last chunk from its padding (`EncodingDecides`).

`RatesProofs`: `TypeCorrect`, `RatesAreEarned` and `RatesCoverTheirWindow`, for
any devices, bytes and times. A reading is `Behind` its device: since it was
made, the counter has gained no more than the device has moved, which a counter
that starts again at zero keeps; `GainInv` says it of the readings
of the tick under way against those of the last. `DateInv`
is about the dates: the readings of `prev`, and its date, are within `prev.took` of
each other (`PrevDated`), and those of the tick under way lie between its beginning and now
(`TickDated`); only the first interfaces are older. A rate's time and the distance
of its two readings are differences of such dates, one above the other.

`ContainerProofs`: `TypeCorrect` (with it that at most `MAX_CONTAINERS` are
shown and remembered) and `SharesAreEarned`, for any containers, limit and
sockets. A reading is behind its container in one of two ways: both counters
were read, or both were answered as zero because it had stopped, and then what
its own counter holds once it runs again was used since.

`ContainerProofs`, the request: `AnswersAreWhole`, for any payload, any lengths
of chunks, any radix and an answer that ends anywhere. `StreamInv` is about what
was sent: at each mark begins a size line that has no line end inside and means
the length of the chunk up to the next mark (`SizeLine`, `ChunkFrom`, `Follows`),
and what comes later never changes it. That the digits the engine writes mean
what the client reads (`Numeral` against `NumberOf`) is an induction over the
digits. `DecodeInv` is about the reader: it stands at a mark and has exactly
the payload before that mark. So a size it reads is that of a chunk, and what is
missing of a chunk is noticed; the array that is not chunked is whole if its last
symbol is the bracket that occurs nowhere else.

`RatesProofs`, the lists: `ListsSelect`, for any processes, sockets and limits.
A selection keeps the order and all of what it selects (`PickedIs`); of a sorted
list without equal neighbours the place of a port is the number of ports below
it (`DedupIs`, `LowestOf`), which cutting the end off does not change; the
states of processes are counted apart (`StatesCount`).

`RatesProofs`, the text: `ScrapesRead`, for any host. Escaping and reading back
is the identity (`EscIsRead`): `EscOneMore` says what the three replacements
together make of one more character, and the reader is then followed character
by character. The text is joined of blocks, one for each family shown, and a
line is at one place of one block (`Blocks`, `RenderIs`); so the lines of a
family are together, and one name means one reading where the labels differ
(`FamiliesAre`). `UsageIs` ties the mounts shown to those that are listed. The
invariant `SnapshotInv` of both theorems is that after a tick the snapshot is
made from the host and the text is rendered from that snapshot; as there is one
action, the work is in the lemmas about the operators and not in the induction
over steps.

These are inductions over data. The library states them for an operator, which
the provers cannot take; `ListLemmas` states induction for a set
(`SetInduction`, from the order of the naturals) and recursion for a step that is
a function (`RunExists`, `Folds`), and the definitions of the modules are shown
to be such runs.

`DashboardProofs`: `OneTimerPolls`, and `ChartsFollow` for any length of chart
and history, any periods, samples, restarts and reloads. Every list that is put
into a chart is in order, thinned or not (`SeededInOrder`), and nothing in the
chart is newer than a sample on its way, which is so because there is one
request at a time; `ChartInv` says both of the page and of every request.

Every safety invariant, action property and refinement of the passing runs is the
statement of a theorem. Model-checked only is liveness (`AlertsSettle`,
`ZombiesReaped`, `OthersAreServed`, `ShutdownHappens`, `OnceEnds`,
`PageCatchesUp`), which needs fairness and so ENABLED.

## Not modelled

Packaging, the page's markup and the style sheet. `src/collectors/system.rs`,
which copies numbers from the library to the snapshot, and the like copies of
names and memory in `docker.rs`. The text of the webhook's payload. What a
power cut leaves of a file that was not synced (`src/persist.rs:33`): in
`HistoryStore` the processes die, the machine does not, and what survives is a
matter of the file system. `panic = "abort"` turns an index out of range into
the end of the process, which is a crash wherever crashes are modelled.

## Keeping it

A change of the code is made in the definition that `PROJECT.json` maps to its
lines, then checked with the run of its module, then proved again; a leaf that
fails names the fact that is gone. Two things could be added. The
properties of `ReceivedInOrder` and `ChartFollowsSamples` are about the
intervals and networks they name; what remains true of others has no statement
here. And the copies of numbers in `src/collectors/system.rs` have no module, as
nothing but their place in the snapshot could be wrong.
