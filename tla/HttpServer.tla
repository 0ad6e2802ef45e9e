------------------------------ MODULE HttpServer -------------------------------
(***************************************************************************)
(* src/http/mod.rs beside the sampler thread: a few handler threads take   *)
(* requests from one listener, copy what the sampler has published under   *)
(* its mutex, and write it to clients that may read slowly or never.       *)
(*                                                                         *)
(* Which thread handles a request makes no difference, so that a request   *)
(* has a state and the threads are counted.  The sampler holds a mutex     *)
(* only within one of its steps, a handler from Lock to Copy; the sampler  *)
(* cannot take a step that needs a mutex a handler holds.  The body of an  *)
(* answer is the newest sample in it, 0 for none.  The listener, its queue *)
(* and the clients are external.                                           *)
(***************************************************************************)
EXTENDS Sampler, FiniteSetsExt

CONSTANTS
    HandlerThreads, \* 4: three spawned ones and the main thread
    Clients,        \* each with one request at a time
    Slow,           \* those that may stop reading
    Paths,          \* of the routes
    AuthSet         \* is there a password (config.auth)

Readers == Clients \ Slow

Data == {"/api/stats", "/api/history", "/metrics"}

ASSUME HttpAssumption ==
    /\ HandlerThreads \in Nat /\ Slow \subseteq Clients /\ AuthSet \in BOOLEAN
    /\ Paths \subseteq Data \cup {"/healthz", "/", "404"}

VARIABLES
    listening,
    queue,          \* clients whose request is accepted and not taken
    request,        \* request[c]: [step, path, body]
    seen,           \* history: what the client knows to have been published
    base            \* history: number of samples taken before this process

httpVars == <<listening, queue, request, seen, base>>
serverVars == <<vars, httpVars>>

Idle == [step |-> "idle", path |-> "/", body |-> 0]

Waiting(c) == request[c].step # "idle"

Handled == { c \in Clients : request[c].step \in {"lock", "locked", "write"} }

Mutex(path) ==
    CASE path = "/api/stats"   -> "json"
      [] path = "/api/history" -> "history"
      [] path = "/metrics"     -> "prom"

(* Mutant: the copy is not made, and the guard lives until the answer is
   written. *)
HoldsWhileWriting(c) == request[c].step \in {"locked", "write"} /\ request[c].path \in Data

HoldsMutex(c) == request[c].step = "locked"

Free(mutex) == \A c \in Clients : HoldsMutex(c) => Mutex(request[c].path) # mutex

-----------------------------------------------------------------------------
(* The sampler thread, which waits for the mutexes, and the process *)

Needs ==
    CASE pc = "json" -> {"json"}
      [] pc = "prom" -> {"prom"}
      [] pc = "push" \/ pc = "restore" -> {"history"}
      [] pc = "save" /\ SaveDue -> {"history"}
      [] pc = "wake" /\ requested /\ Persist -> {"history"}
      [] OTHER -> {}

HttpInit ==
    /\ listening = FALSE /\ queue = << >>
    /\ request = [c \in Clients |-> Idle]
    /\ seen = [c \in Readers |-> 0] /\ base = 0

(* No thread survives the process, and its connections are closed. *)
HttpEnds ==
    /\ listening' = FALSE /\ queue' = << >>
    /\ request' = [c \in Clients |-> Idle]
    /\ seen' = [c \in Readers |-> 0]
    /\ UNCHANGED base

SamplerStep ==
    /\ \A mutex \in Needs : Free(mutex)
    /\ Thread
    /\ IF pc' = "down" THEN HttpEnds ELSE UNCHANGED httpVars

ProcessStep ==
    \/ Start /\ base' = n /\ UNCHANGED <<listening, queue, request, seen>>
    \/ (Signal \/ StepClock) /\ UNCHANGED httpVars
    \/ Crash /\ HttpEnds

Listen ==
    /\ pc # "down" /\ ~listening
    /\ listening' = TRUE
    /\ UNCHANGED <<vars, queue, request, seen, base>>

(* The address is taken: exit(1), wherever the sampler is. *)
BindFails == ~listening /\ Crash /\ HttpEnds

-----------------------------------------------------------------------------
(* The clients *)

Send(c, path) ==
    /\ listening /\ ~Waiting(c)
    /\ queue' = Append(queue, c)
    /\ request' = [request EXCEPT ![c] = [step |-> "queued", path |-> path, body |-> 0]]
    /\ UNCHANGED <<vars, listening, seen, base>>

(* A client closes its connection: respond returns an error. *)
Close(c) ==
    /\ c \in Slow /\ request[c].step = "write"
    /\ request' = [request EXCEPT ![c] = Idle]
    /\ UNCHANGED <<vars, listening, queue, seen, base>>

-----------------------------------------------------------------------------
(* handle *)

(* Everything but the probe needs the password, if there is one; ok says
   whether the request has it. *)
Refused(path, ok) == AuthSet /\ ~ok /\ path # "/healthz"

(* One of the threads takes the oldest request.  The probe, what is refused,
   the assets and the unknown are answered at once. *)
Take(c, ok) ==
    /\ queue # << >> /\ Head(queue) = c
    /\ Cardinality(Handled) < HandlerThreads
    /\ queue' = Tail(queue)
    /\ request' = [request EXCEPT ![c] =
                      IF @.path \in Data /\ ~Refused(@.path, ok) THEN [@ EXCEPT !.step = "lock"]
                      ELSE [Idle EXCEPT !.step = "write"]]
    /\ UNCHANGED <<vars, listening, seen, base>>

Lock(c) ==
    /\ request[c].step = "lock" /\ Free(Mutex(request[c].path))
    /\ request' = [request EXCEPT ![c].step = "locked"]
    /\ UNCHANGED <<vars, listening, queue, seen, base>>

Shows(path) ==
    CASE path = "/api/stats"   -> json
      [] path = "/api/history" -> IF history = << >> THEN 0 ELSE Newest
      [] path = "/metrics"     -> prom

(* A sample is published to one after the other. *)
Lag(path) ==
    CASE path = "/api/stats"   -> 2
      [] path = "/metrics"     -> 1
      [] path = "/api/history" -> 0

(* How far an answer is: what the process has found in its file counts as
   the last sample before it, as some may have been lost with a crash. *)
Reached(body) == Max({body, base})

(* The text is cloned, or the history serialized, and the mutex released. *)
Copy(c) ==
    /\ request[c].step = "locked"
    /\ request' = [request EXCEPT ![c].step = "write", ![c].body = Shows(request[c].path)]
    /\ UNCHANGED <<vars, listening, queue, seen, base>>

(* The write ends when the client has read; no time-out ends it before. *)
Respond(c) ==
    /\ request[c].step = "write"
    /\ request' = [request EXCEPT ![c] = Idle]
    /\ seen' = [r \in Readers |->
                  IF r = c /\ request[c].body # 0
                  THEN Max({seen[c], 3 * Reached(request[c].body) - Lag(request[c].path)}) ELSE seen[r]]
    /\ UNCHANGED <<vars, listening, queue, base>>

ServerNext ==
    \/ SamplerStep \/ ProcessStep \/ Listen \/ BindFails
    \/ \E c \in Clients :
          \/ \E path \in Paths : Send(c, path)
          \/ \E ok \in BOOLEAN : Take(c, ok)
          \/ Lock(c) \/ Copy(c) \/ Respond(c) \/ Close(c)

ServerInit == Init /\ HttpInit

ServerSpec == ServerInit /\ [][ServerNext]_serverVars

(* Every thread runs; one that waits for a mutex gets it if it is free again
   and again; a client that is not slow reads its answer. *)
ServerFairness ==
    /\ SF_serverVars(SamplerStep)
    /\ \A c \in Clients : WF_serverVars(\E ok \in BOOLEAN : Take(c, ok)) /\ SF_serverVars(Lock(c)) /\ WF_serverVars(Copy(c))
    /\ \A c \in Readers : WF_serverVars(Respond(c))

-----------------------------------------------------------------------------
(* Properties *)

(* "A few handler threads so one slow client can't stall the dashboard": as
   long as there are fewer slow clients than threads, every request of the
   others is answered, although the slow ones may never read theirs, unless
   the process ends. *)
OthersAreServed ==
    Cardinality(Slow) < HandlerThreads =>
        \A c \in Readers : Waiting(c) ~> ~Waiting(c)

(* A client that asks one endpoint after the other, through any of the
   threads, never goes back while the process lives: a sample comes to the
   snapshot, the metrics and the history in that order, and an endpoint that
   has caught up once stays so.  A sample of an earlier process, which only
   the history can show, counts as the last one of them (Reached). *)
AnswersMoveForward ==
    \A c \in Readers :
        request[c].step = "write" /\ request[c].body # 0 =>
            Reached(request[c].body) >= (seen[c] + Lag(request[c].path)) \div 3
===============================================================================
