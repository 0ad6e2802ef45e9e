------------------------------- MODULE Dashboard -------------------------------
(***************************************************************************)
(* src/static/app.js: the page that polls /api/stats and draws the charts. *)
(*                                                                         *)
(* The page is one thread; what interleaves are its callbacks: the timer,  *)
(* the answers to its requests, which overlap when they take longer than   *)
(* the period, the redraws the user causes, and reloads.  The server is    *)
(* what the handlers of src/http/mod.rs read: the last sample or the       *)
(* warm-up text, and the history.  A sample is its number; the four chart  *)
(* buffers are filled together, so that one stands for all of them.        *)
(***************************************************************************)
EXTENDS Integers, Sequences

CONSTANTS
    SPARK_LEN,      \* 180: points of a chart
    DefaultMs,      \* 2000: the period before the server has told its own
    Periods,        \* values of interval_secs a server may run with
    HistoryCap,     \* points the server keeps
    OpenLimits,     \* requests open at once: 1 is a network that answers
                    \* within the period; a browser has 6
    MaxSamples, MaxRestarts, MaxReloads     \* bounds

ASSUME DashboardAssumption ==
    /\ SPARK_LEN \in Nat \ {0} /\ HistoryCap \in Nat \ {0} /\ OpenLimits \subseteq Nat \ {0}
    /\ MaxSamples \in Nat /\ MaxRestarts \in Nat /\ MaxReloads \in Nat
    /\ DefaultMs \in Nat /\ Periods \subseteq Nat

VARIABLES
    server,         \* [sample, warm, period, history, restarts], and openLimit,
                    \* one of OpenLimits: how fast the network to it is
    open,           \* the page's requests
    timers,         \* the intervals that run
    timer,          \* the one the page knows
    intervalMs, lastData,
    hist,           \* a chart buffer
    conn,           \* the dot: "none", "ok" or "lost"
    reloads

pageVars == <<timers, timer, intervalMs, lastData, hist, conn>>
vars == <<server, open, pageVars, reloads>>

NoSample == 0

(* The body of an answer; sample = NoSample is the warm-up text. *)
Answers == [ sample: 0 .. MaxSamples, period: Periods \cup {DefaultMs},
             points: Seq(1 .. MaxSamples) ]

NoAnswer == [sample |-> NoSample, period |-> DefaultMs, points |-> << >>]

Slots == 1 .. server.openLimit

TimerIds == 1 .. 3

FreeSlots == { i \in Slots : \A q \in open : q.slot # i }

Larger(x, y) == IF x > y THEN x ELSE y

LastN(s, n) == SubSeq(s, Larger(1, Len(s) - n + 1), Len(s))

-----------------------------------------------------------------------------
(* Chart buffers *)

(* Mutant: drops the wrong end. *)
PushedKeepsOldest(buf, s) ==
    LET all == buf \o s IN IF Len(all) > SPARK_LEN THEN SubSeq(all, 1, SPARK_LEN) ELSE all

(* push, of each of s *)
Pushed(buf, s) == LastN(buf \o s, SPARK_LEN)

Stride(n) == Larger(1, (n + SPARK_LEN - 1) \div SPARK_LEN)

EveryNth(s, n) == [i \in 1 .. (Len(s) + n - 1) \div n |-> s[(i - 1) * n + 1]]

Seeded(points) == EveryNth(points, Stride(Len(points)))

-----------------------------------------------------------------------------
(* Requests *)

Asked(kind, slot) == [kind |-> kind, slot |-> slot, answered |-> FALSE, body |-> NoAnswer]

FreshTimer(running) == CHOOSE i \in TimerIds : \A t \in running : t.id # i

(* What a page starts with, its interval set and the history asked for. *)
FirstTimers == { [id |-> 1, ms |-> DefaultMs] }

FirstRequest == { Asked("history", 1) }

Init ==
    /\ server \in [ sample: {0}, warm: {FALSE}, period: Periods, history: {<< >>},
                    restarts: {0}, openLimit: OpenLimits ]
    /\ open = FirstRequest
    /\ timers = FirstTimers /\ timer = 1
    /\ intervalMs = DefaultMs /\ lastData = NoSample
    /\ hist = << >> /\ conn = "none"
    /\ reloads = 0

(* The timer of setInterval: it does not know whether an answer is due. *)
TimerFires ==
    /\ timers # {}
    /\ \E slot \in FreeSlots :
          /\ \A i \in FreeSlots : slot <= i
          /\ open' = open \cup { Asked("stats", slot) }
    /\ UNCHANGED <<server, pageVars, reloads>>

(* handle: the answer is what the shared state holds at that moment. *)
Answer(q) ==
    /\ ~q.answered
    /\ LET body == IF q.kind = "history"
                   THEN [NoAnswer EXCEPT !.points = server.history]
                   ELSE [NoAnswer EXCEPT !.sample = IF server.warm THEN server.sample ELSE NoSample,
                                         !.period = server.period]
       IN open' = (open \ {q}) \cup { [q EXCEPT !.answered = TRUE, !.body = body] }
    /\ UNCHANGED <<server, pageVars, reloads>>

-----------------------------------------------------------------------------
(* refresh and seedHistory, from the answer on *)

(* Mutant: a second interval beside the first. *)
SetPeriodTwice(ms) ==
    IF ms = intervalMs THEN UNCHANGED <<timers, timer, intervalMs>>
    ELSE LET id == FreshTimer(timers) IN
            /\ intervalMs' = ms
            /\ timer' = id
            /\ timers' = timers \cup { [id |-> id, ms |-> ms] }

SetPeriod(ms) ==
    IF ms = intervalMs THEN UNCHANGED <<timers, timer, intervalMs>>
    ELSE LET others == { t \in timers : t.id # timer }
             id == FreshTimer(others) IN
            /\ intervalMs' = ms
            /\ timer' = id
            /\ timers' = others \cup { [id |-> id, ms |-> ms] }

(* render; its two hundred other lines write the page from the sample. *)
Render(sample) == hist' = Pushed(hist, <<sample>>)

(* Mutant: the dot does not come back. *)
ConnStaysLost == IF conn = "lost" THEN conn ELSE "ok"

ConnAfterAnswer == "ok"

StatsArrive(q) ==
    /\ q.kind = "stats" /\ q.answered
    /\ open' = open \ {q}
    /\ conn' = ConnAfterAnswer
    /\ IF q.body.sample = NoSample THEN UNCHANGED <<timers, timer, intervalMs, lastData, hist>>
       ELSE /\ SetPeriod(q.body.period)
            /\ lastData' = q.body.sample
            /\ Render(q.body.sample)
    /\ UNCHANGED <<server, reloads>>

(* The charts are seeded, then refresh is called. *)
HistoryArrives(q) ==
    /\ q.kind = "history" /\ q.answered
    /\ hist' = Pushed(hist, Seeded(q.body.points))
    /\ open' = (open \ {q}) \cup { Asked("stats", q.slot) }
    /\ UNCHANGED <<server, timers, timer, intervalMs, lastData, conn, reloads>>

(* No connection, a status that is not 2xx, or a body cut short. *)
RequestFails(q) ==
    /\ open' = (open \ {q}) \cup IF q.kind = "history" THEN { Asked("stats", q.slot) } ELSE {}
    /\ conn' = IF q.kind = "stats" THEN "lost" ELSE conn
    /\ UNCHANGED <<server, timers, timer, intervalMs, lastData, hist, reloads>>

(* The state filter, the two sorts, the theme and a resize. *)
Redraw ==
    /\ lastData # NoSample
    /\ Render(lastData)
    /\ UNCHANGED <<server, open, timers, timer, intervalMs, lastData, conn, reloads>>

(* The user loads the page again; what was open is gone. *)
Reload ==
    /\ reloads < MaxReloads
    /\ reloads' = reloads + 1
    /\ open' = FirstRequest
    /\ timers' = FirstTimers /\ timer' = 1
    /\ intervalMs' = DefaultMs /\ lastData' = NoSample
    /\ hist' = << >> /\ conn' = "none"
    /\ UNCHANGED server

-----------------------------------------------------------------------------
(* The server *)

Tick ==
    /\ server.sample < MaxSamples
    /\ server' = [server EXCEPT !.sample = @ + 1, !.warm = TRUE,
                      !.history = LastN(Append(@, server.sample + 1), HistoryCap)]
    /\ UNCHANGED <<open, pageVars, reloads>>

(* A new process, perhaps with another interval: it restores the history up
   to some sample and has none of its own yet. *)
Restart ==
    /\ server.restarts < MaxRestarts
    /\ server.sample < MaxSamples
    /\ \E n \in 0 .. Len(server.history), p \in Periods :
          server' = [server EXCEPT !.warm = FALSE, !.period = p, !.restarts = @ + 1,
                         !.history = SubSeq(@, 1, n)]
    /\ UNCHANGED <<open, pageVars, reloads>>

Arrives == \E q \in open : StatsArrive(q) \/ HistoryArrives(q)

Next ==
    \/ Tick
    \/ Restart
    \/ TimerFires
    \/ \E q \in open : Answer(q)
    \/ Arrives
    \/ \E q \in open : RequestFails(q)
    \/ Redraw
    \/ Reload

Spec == Init /\ [][Next]_vars

(* The sampler samples, the timer fires, the server answers; the network may
   fail any number of requests, not all of them for ever. *)
FairSpec ==
    /\ Spec
    /\ WF_vars(Tick) /\ WF_vars(TimerFires)
    /\ SF_vars(\E q \in open : Answer(q))
    /\ SF_vars(Arrives)

-----------------------------------------------------------------------------
(* Properties *)

(* However answers overlap and periods change, exactly one interval polls,
   with the period the page labels its charts with. *)
OneTimer == timers = { [id |-> timer, ms |-> intervalMs] }

(* With a network that answers within the period a chart never runs
   backwards, and once a sample is shown it ends in the one whose numbers
   are on the page: across reloads, redraws and restarts of the server. *)
ChartFollowsSamples ==
    server.openLimit = 1 =>
        /\ \A i \in 1 .. Len(hist) - 1 : hist[i] <= hist[i + 1]
        /\ lastData # NoSample => hist[Len(hist)] = lastData

(* After any outage, reload or restart the page catches up with the server. *)
PageCatchesUp == []<>(lastData = server.sample /\ conn = "ok")

(* What the comments "redraw charts on resize" and "redraw charts with the
   new gridline colour" say of these callbacks: they redraw. *)
RedrawOnlyDraws == [][Redraw => UNCHANGED hist]_vars
===============================================================================
