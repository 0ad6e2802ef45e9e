----------------------------- MODULE AlertDelivery -----------------------------
(***************************************************************************)
(* src/alerts.rs, emit: every event of the alert engine is posted to the   *)
(* webhook by a curl child of its own, which nobody waits for but the      *)
(* thread that reaps it.  The children race: with one another, with the    *)
(* next ticks and with a restart of the process, which they survive.       *)
(*                                                                         *)
(* Time is kept as ages, in units: a tick starts one interval after the    *)
(* one before it, or as soon as that one's work is done (the cadence of    *)
(* Sampler), and evaluates the rules at the end of its work.  A child has  *)
(* ended CurlTimeout after its start (curl -m 5); the receiver acts on a   *)
(* request while its connection is open, or never.                         *)
(***************************************************************************)
EXTENDS AlertEngine, Sequences

CONSTANTS
    Webhook,        \* is there a config.webhook
    Interval,       \* config.interval
    WorkTimes,      \* what a tick may take until it evaluates the rules
    RestartTimes,   \* what may pass between the last eval and a new process
    CurlTimeout,    \* 5 s
    MaxEvents       \* bound: events per rule

ASSUME DeliveryAssumption ==
    /\ Webhook \in BOOLEAN
    /\ Interval \in Nat \ {0} /\ CurlTimeout \in Nat /\ MaxEvents \in Nat
    /\ WorkTimes \subseteq Nat /\ RestartTimes \subseteq Nat

VARIABLES
    work,           \* the cost of the last tick
    children,       \* the curl processes that run
    zombies,        \* those that have ended and are not reaped
    received,       \* what the receiver got, in order
    emitted         \* history: how many events r has had

deliveryVars == <<vars, work, children, zombies, received, emitted>>

(* no: the event's number for its rule; age: time since the start; evals:
   history, evaluations since the start; posted: has the receiver acted. *)
Child == [ rule: Rules, state: {"firing", "resolved"}, no: Nat,
           age: Nat, evals: Nat, posted: BOOLEAN ]

Later(x, y) == IF x > y THEN x ELSE y

(* From one eval to the next. *)
Elapsed(w) == Later(Interval, work) - work + w

(* Mutant: no limit on curl's time. *)
MayPassUnlimited(d) == TRUE

(* curl -m 5: no child outlives its time. *)
MayPass(d) == \A c \in children : c.age + d <= CurlTimeout

Aged(d, evals) == { [c EXCEPT !.age = @ + d, !.evals = @ + evals] : c \in children }

(* Command::spawn, without a webhook or without curl only the log line. *)
Spawned(S) ==
    { [ rule |-> r, state |-> event'[r], no |-> emitted[r] + 1,
        age |-> 0, evals |-> 0, posted |-> FALSE ] : r \in S }

DeliveryInit ==
    /\ Init
    /\ work = 0
    /\ children = {} /\ zombies = {} /\ received = << >>
    /\ emitted = [r \in Rules |-> 0]

Sample(snap, ts, w) ==
    /\ \A r \in Rules : emitted[r] < MaxEvents
    /\ MayPass(Elapsed(w))
    /\ Eval(snap, ts)
    /\ LET emits == { r \in Rules : event'[r] # "none" } IN
         /\ emitted' = [r \in Rules |-> IF r \in emits THEN emitted[r] + 1 ELSE emitted[r]]
         /\ \E S \in SUBSET emits :
               /\ ~Webhook => S = {}
               /\ children' = Aged(Elapsed(w), 1) \cup Spawned(S)
    /\ work' = w
    /\ UNCHANGED <<zombies, received>>

(* The request reaches the receiver. *)
Post(c) ==
    /\ ~c.posted
    /\ received' = Append(received, [rule |-> c.rule, state |-> c.state, no |-> c.no])
    /\ children' = (children \ {c}) \cup { [c EXCEPT !.posted = TRUE] }
    /\ UNCHANGED <<vars, work, zombies, emitted>>

(* The child exits: answered, refused or timed out. *)
End(c) ==
    /\ children' = children \ {c}
    /\ zombies' = zombies \cup {c}
    /\ UNCHANGED <<vars, work, received, emitted>>

(* Mutant: a child that fails is forgotten. *)
ReapPosted(c) ==
    /\ c.posted
    /\ zombies' = zombies \ {c}
    /\ UNCHANGED <<vars, work, children, received, emitted>>

(* child.wait() of its detached thread *)
Reap(c) ==
    /\ zombies' = zombies \ {c}
    /\ UNCHANGED <<vars, work, children, received, emitted>>

(* The process is replaced: a new engine, whose first tick comes an interval
   later; the children go on, and init reaps the dead. *)
Restart(d) ==
    /\ MayPass(d)
    /\ rule' = [r \in Rules |-> [over |-> 0, under |-> 0, firing_since |-> None]]
    /\ event' = [r \in Rules |-> "none"]
    /\ shown' = [r \in Rules |-> 0]
    /\ recent' = [r \in Rules |-> [i \in 1 .. HOLD_TICKS |-> "none"]]
    /\ work' = 0
    /\ children' = Aged(d, 0)
    /\ zombies' = {}
    /\ UNCHANGED <<received, emitted>>

Children == \E c \in children : Post(c) \/ End(c)
Reaper == \E c \in zombies : Reap(c)

DeliveryNext ==
    \/ \E snap \in Snapshots, ts \in Timestamps, w \in WorkTimes : Sample(snap, ts, w)
    \/ Children
    \/ Reaper
    \/ \E d \in RestartTimes : Restart(d)

DeliverySpec == DeliveryInit /\ [][DeliveryNext]_deliveryVars

(* Every child ends and every waiting thread runs. *)
FairDelivery ==
    /\ DeliverySpec
    /\ WF_deliveryVars(Reaper)
    /\ WF_deliveryVars(\E c \in children : End(c))

-----------------------------------------------------------------------------
(* Properties *)

(* Two events of a rule are HOLD_TICKS evaluations apart.  That takes
   HOLD_TICKS - 1 intervals at least, the first tick's work having come before
   its own evaluation: longer than curl lives from an interval of 3 s on, not
   at the default of 2 s. *)
OutlivesNoEvent == (HOLD_TICKS - 1) * Interval > CurlTimeout

(* The receiver's view: of the events of one rule it gets each at most once
   and none after a later one, so that the last one it got is never an
   outdated state; no restart, slow tick or slow receiver changes that. *)
ReceivedInOrder ==
    OutlivesNoEvent =>
        \A i, j \in 1 .. Len(received) :
            i < j /\ received[i].rule = received[j].rule =>
                received[i].no < received[j].no

(* "never block the sampler or leak zombies": all children that have ended
   are reaped, again and again. *)
ZombiesReaped == []<>(zombies = {})
===============================================================================
