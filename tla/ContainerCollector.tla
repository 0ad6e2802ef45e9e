-------------------------- MODULE ContainerCollector ---------------------------
(***************************************************************************)
(* src/collectors/docker.rs: the client of the container engine, called by *)
(* the sampler once per tick.                                              *)
(*                                                                         *)
(* A collection is a series of requests, each on a connection of its own,  *)
(* and containers work, stop and start between any two of them.  A request *)
(* is answered or fails (no connection, a timeout, a status other than     *)
(* 200, a text cut short or not understood).  cpu_pct is kept as the       *)
(* quotient it is computed from; the factor 100 * cores, the rounding to a *)
(* tenth, the names, the memory figures and the log are left out.          *)
(***************************************************************************)
EXTENDS Integers, FiniteSets

CONSTANTS
    Containers,
    Candidates,     \* number of sockets that are probed
    MAX_CONTAINERS, \* 50
    MaxCpu          \* bound: the host's CPU counter

ASSUME CollectorAssumption ==
    Candidates \in Nat /\ MAX_CONTAINERS \in Nat /\ MaxCpu \in Nat

VARIABLES
    host,           \* system_cpu_usage: CPU time of the host
    running,        \* the containers that run
    total,          \* total_usage of each container, since it was started
    used,           \* history: what each has used since ever
    pc,             \* "idle", "list" or "ask"
    todo,           \* running containers of the list, still to be asked
    prev_cpu, next_cpu,     \* readings by container
    shares,         \* what the collection under way or the last one shows
    result          \* "none", "docker", or the hint: "denied", "absent", "error"

engineVars == <<host, running, total, used>>
collectorVars == <<pc, todo, prev_cpu, next_cpu, shares, result>>
vars == <<engineVars, collectorVars>>

(* A reading: the two counters, and as history what they stood for. *)
Reading == [ cpu: 0 .. MaxCpu, sys: 0 .. MaxCpu, used: 0 .. MaxCpu, host: 0 .. MaxCpu ]

NoReadings == [ c \in {} |-> 0 ]

With(f, c, x) == [ k \in DOMAIN f \cup {c} |-> IF k = c THEN x ELSE f[k] ]

(* Mutant: the distance of two counters. *)
AbsDiff(cur, prev) == IF cur > prev THEN cur - prev ELSE prev - cur

(* saturating_sub *)
Delta(cur, prev) == IF cur > prev THEN cur - prev ELSE 0

(* A container is shown with a share of zero when there is no reading to
   compare with, or no time between the two. *)
NoShare == [num |-> 0, den |-> 1, of |-> 0, over |-> 1]

Share(prev, cur) ==
    LET sys == Delta(cur.sys, prev.sys) IN
        IF sys = 0 THEN NoShare
        ELSE [ num |-> Delta(cur.cpu, prev.cpu), den |-> sys,
               of |-> cur.used - prev.used, over |-> cur.host - prev.host ]

-----------------------------------------------------------------------------
(* The host and its containers *)

Work(busy) ==
    /\ host < MaxCpu
    /\ host' = host + 1
    /\ total' = [c \in Containers |-> IF c \in busy THEN total[c] + 1 ELSE total[c]]
    /\ used' = [c \in Containers |-> IF c \in busy THEN used[c] + 1 ELSE used[c]]
    /\ UNCHANGED <<running, collectorVars>>

Stop(c) ==
    /\ running' = running \ {c}
    /\ UNCHANGED <<host, total, used, collectorVars>>

StartContainer(c) ==
    /\ c \notin running
    /\ running' = running \cup {c}
    /\ total' = [total EXCEPT ![c] = 0]
    /\ UNCHANGED <<host, used, collectorVars>>

-----------------------------------------------------------------------------
(* collect *)

(* resolve_socket: the first socket that accepts wins; s[i] is what a
   connection to the i-th gives. *)
Resolved(s) ==
    IF \E i \in DOMAIN s : s[i] = "accepts" THEN "found"
    ELSE IF \E i \in DOMAIN s : s[i] = "denied" THEN "denied"
    ELSE "absent"

Ends(res) ==
    /\ pc' = "idle"
    /\ result' = res

Collect(s) ==
    /\ pc = "idle"
    /\ shares' = [c \in {} |-> 0]
    /\ IF Resolved(s) = "found"
       THEN pc' = "list" /\ UNCHANGED result
       ELSE Ends(Resolved(s))
    /\ UNCHANGED <<engineVars, todo, prev_cpu, next_cpu>>

(* Mutant: the readings of containers that are gone stay. *)
NextCpuKept == prev_cpu

NextCpu == NoReadings

(* The first MAX_CONTAINERS of a list in the engine's order; those that do
   not run are listed and not asked. *)
List(asked) ==
    /\ pc = "list"
    /\ asked \subseteq running /\ Cardinality(asked) <= MAX_CONTAINERS
    /\ pc' = "ask"
    /\ todo' = asked
    /\ next_cpu' = NextCpu
    /\ UNCHANGED <<engineVars, prev_cpu, shares, result>>

(* The engine's list fails: nothing is shown, and prev_cpu stays as it was. *)
ListFails ==
    /\ pc = "list"
    /\ Ends("error")
    /\ UNCHANGED <<engineVars, todo, prev_cpu, next_cpu, shares>>

(* A container that has stopped since is answered with empty counters. *)
Read(c) ==
    IF c \in running THEN [cpu |-> total[c], sys |-> host, used |-> used[c], host |-> host]
    ELSE [cpu |-> 0, sys |-> 0, used |-> used[c], host |-> host]

Stats(c) ==
    /\ pc = "ask" /\ c \in todo
    /\ todo' = todo \ {c}
    /\ shares' = With(shares, c, IF c \in DOMAIN prev_cpu THEN Share(prev_cpu[c], Read(c))
                                 ELSE NoShare)
    /\ next_cpu' = With(next_cpu, c, Read(c))
    /\ UNCHANGED <<engineVars, pc, prev_cpu, result>>

(* The container is shown all the same, with zeros. *)
StatsFail(c) ==
    /\ pc = "ask" /\ c \in todo
    /\ todo' = todo \ {c}
    /\ shares' = With(shares, c, NoShare)
    /\ UNCHANGED <<engineVars, pc, prev_cpu, next_cpu, result>>

Return ==
    /\ pc = "ask" /\ todo = {}
    /\ prev_cpu' = next_cpu
    /\ Ends("docker")
    /\ UNCHANGED <<engineVars, todo, next_cpu, shares>>

Sockets == [1 .. Candidates -> {"accepts", "denied", "fails"}]

Init ==
    /\ host = 0 /\ running = {}
    /\ total = [c \in Containers |-> 0] /\ used = [c \in Containers |-> 0]
    /\ pc = "idle" /\ todo = {}
    /\ prev_cpu = NoReadings /\ next_cpu = NoReadings /\ shares = [c \in {} |-> 0]
    /\ result = "none"

Next ==
    \/ \E busy \in SUBSET running : Work(busy)
    \/ \E c \in running : Stop(c)
    \/ \E c \in Containers : StartContainer(c)
    \/ \E s \in Sockets : Collect(s)
    \/ \E asked \in SUBSET running : List(asked)
    \/ ListFails
    \/ \E c \in todo : Stats(c)
    \/ \E c \in todo : StatsFail(c)
    \/ Return

Spec == Init /\ [][Next]_vars

-----------------------------------------------------------------------------
(* Properties *)

(* "Rebuilt from current keys each tick so container churn can't grow these
   maps": what is kept from a collection to the next is bounded. *)
TypeOK ==
    /\ pc \in {"idle", "list", "ask"} /\ todo \subseteq Containers
    /\ \A c \in DOMAIN prev_cpu : prev_cpu[c] \in Reading
    /\ Cardinality(DOMAIN prev_cpu) <= MAX_CONTAINERS
    /\ Cardinality(DOMAIN shares) <= MAX_CONTAINERS
    /\ DOMAIN next_cpu \subseteq Containers /\ DOMAIN shares \subseteq Containers
    /\ result \in {"none", "docker", "denied", "absent", "error"}

(* No container is ever shown with more than it has really used, on average
   over the time since it was last read, and none with more than the host
   has: whatever stops, starts anew with its counters at zero, is missing
   from a list or fails to answer between two requests. *)
ShareIsEarned ==
    \A c \in DOMAIN shares :
        LET s == shares[c] IN
            /\ 0 <= s.num /\ s.num <= s.den
            /\ s.num * s.over <= s.of * s.den
===============================================================================
