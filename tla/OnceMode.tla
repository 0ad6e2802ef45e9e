------------------------------- MODULE OnceMode -------------------------------
(***************************************************************************)
(* src/main.rs with --once: the main thread polls the shared snapshot and  *)
(* prints the first real one, while the sampler thread runs as ever        *)
(* (src/sampler.rs) and exits the process when a signal asks for it.       *)
(*                                                                         *)
(* Time is counted in units of half a poll.  A snapshot is real or the     *)
(* initial text; what matters of a real one is whether the text of it      *)
(* contains "warming_up" in quotes, as a process of that name makes it.    *)
(* A poll is two steps: it copies the snapshot, and only when the copy is  *)
(* not recognised it looks at the clock; what happens in between it does   *)
(* not see.                                                                *)
(***************************************************************************)
EXTENDS Integers

CONSTANTS
    Poll,           \* 100 ms
    Deadline,       \* 30 s
    WarmUp,         \* 250 ms
    WorkTimes,      \* what a tick may take
    Lateness,       \* how late the main thread may wake up, and look at the clock
    Mentions,       \* may a snapshot contain the text: a set of Booleans
    MaxTime         \* bound

ASSUME OnceAssumption ==
    /\ Poll \in Nat \ {0} /\ Deadline \in Nat /\ WarmUp \in Nat
    /\ WorkTimes \subseteq Nat /\ Lateness \in Nat /\ Mentions \subseteq BOOLEAN
    /\ MaxTime \in Nat /\ MaxTime > Deadline + Poll + 2 * Lateness

VARIABLES
    interval,       \* config.interval, 0.5 s to an hour
    now,
    json,           \* [real, mentions]
    phase,          \* the sampler: "warm_up", "sleep" or "collect"
    until,          \* the end of its phase
    work,           \* the cost of its last tick
    wake,           \* when the main thread's sleep ends, then when it has looked
    main,           \* "poll", "clock" or "print"
    copy,           \* the snapshot it has looked at
    out,            \* stdout: "none", "part" or "whole"
    status,         \* exit status, Running before
    requested,
    ready           \* history: when a snapshot that can be recognised was published

samplerVars == <<interval, json, phase, until, work, ready>>
mainVars == <<wake, main, copy, out>>
vars == <<now, samplerVars, mainVars, status, requested>>

Running == 9
Never == MaxTime + 1

Initial == [real |-> FALSE, mentions |-> TRUE]

Init ==
    /\ now = 0 /\ json = Initial /\ copy = Initial
    /\ phase = "warm_up" /\ until = WarmUp /\ work = 0
    /\ wake = Poll /\ main = "poll" /\ out = "none"
    /\ status = Running /\ requested = FALSE /\ ready = Never

(* Nobody is held up but the main thread a little, when it wakes up and when
   it is about to look at the clock. *)
Advance ==
    /\ now < MaxTime /\ now < until
    /\ main \in {"poll", "clock"} => now < wake + Lateness
    /\ now' = now + 1
    /\ UNCHANGED <<samplerVars, mainVars, status, requested>>

Signal ==
    /\ ~requested
    /\ requested' = TRUE
    /\ UNCHANGED <<now, samplerVars, mainVars, status>>

-----------------------------------------------------------------------------
(* The sampler thread *)

Exit ==
    /\ status' = 0
    /\ UNCHANGED <<now, samplerVars, mainVars, requested>>

(* The signal is noticed between two naps or at the end of the sleep. *)
SleepNoticesSignal == phase = "sleep" /\ requested /\ Exit

WarmedUp ==
    /\ phase = "warm_up" /\ now = until
    /\ phase' = "sleep" /\ until' = now + interval
    /\ UNCHANGED <<interval, now, json, work, ready, mainVars, status, requested>>

SleepEnds(w) ==
    /\ phase = "sleep" /\ now = until /\ ~requested
    /\ phase' = "collect" /\ until' = now + w /\ work' = w
    /\ UNCHANGED <<interval, now, json, ready, mainVars, status, requested>>

(* The work of the tick is subtracted from the sleep that follows. *)
Publish(mentions) ==
    /\ phase = "collect" /\ now = until
    /\ json' = [real |-> TRUE, mentions |-> mentions]
    /\ phase' = "sleep" /\ until' = IF work < interval THEN now + interval - work ELSE now
    /\ ready' = IF ~mentions /\ now < ready THEN now ELSE ready
    /\ UNCHANGED <<interval, now, work, mainVars, status, requested>>

-----------------------------------------------------------------------------
(* print_first_snapshot *)

(* Mutant: any text will do. *)
RecognisedAlways == TRUE

Recognised == ~json.mentions

PollPrints ==
    /\ main = "poll" /\ now >= wake /\ Recognised
    /\ main' = "print" /\ copy' = json
    /\ UNCHANGED <<now, samplerVars, wake, out, status, requested>>

PollMisses ==
    /\ main = "poll" /\ now >= wake /\ ~Recognised
    /\ main' = "clock" /\ copy' = json /\ wake' = now
    /\ UNCHANGED <<now, samplerVars, out, status, requested>>

(* Mutants: the deadline is looked at before the snapshot; it is never met. *)
PollGivesUpFirst ==
    /\ main = "poll" /\ now >= wake /\ now > Deadline
    /\ status' = 1
    /\ UNCHANGED <<now, samplerVars, mainVars, requested>>

PollNeverGivesUp ==
    /\ main = "clock" /\ now > wake + Deadline
    /\ status' = 1
    /\ UNCHANGED <<now, samplerVars, mainVars, requested>>

PollGivesUp ==
    /\ main = "clock" /\ now > Deadline
    /\ status' = 1
    /\ UNCHANGED <<now, samplerVars, mainVars, requested>>

PollAgain ==
    /\ main = "clock" /\ now <= Deadline
    /\ main' = "poll" /\ wake' = now + Poll /\ copy' = Initial
    /\ UNCHANGED <<now, samplerVars, out, status, requested>>

(* A long line takes more than one write. *)
PrintPart ==
    /\ main = "print" /\ out = "none"
    /\ out' = "part"
    /\ UNCHANGED <<now, samplerVars, wake, main, copy, status, requested>>

PrintAndReturn ==
    /\ main = "print"
    /\ out' = "whole" /\ status' = 0
    /\ UNCHANGED <<now, samplerVars, wake, main, copy, requested>>

Main == PollPrints \/ PollMisses \/ PollGivesUp \/ PollAgain \/ PrintPart \/ PrintAndReturn

Sampler ==
    \/ SleepNoticesSignal
    \/ WarmedUp
    \/ \E w \in WorkTimes : SleepEnds(w)
    \/ \E mentions \in Mentions : Publish(mentions)

Next == status = Running /\ (Advance \/ Signal \/ Main \/ Sampler)

-----------------------------------------------------------------------------
(* Properties *)

(* What is printed is a sample, never the text of the warm-up. *)
PrintsRealSample == out # "none" => copy.real

(* The process fails only when there was nothing to print by the deadline.
   Every poll looks at the snapshot first, so that one that wakes up late
   still finds what has come; missed are only the samples that come while the
   last poll is held up between its two looks, at most Lateness before the
   deadline. *)
GivesUpOnlyWithoutSample == status = 1 => ready > Deadline - Lateness
===============================================================================
