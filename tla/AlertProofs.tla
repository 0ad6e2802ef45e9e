------------------------------ MODULE AlertProofs ------------------------------
(***************************************************************************)
(* Proofs about AlertEngine for every set of rules and snapshots and every *)
(* HOLD_TICKS and counter width; about AlertDelivery for any interval, any *)
(* work of a tick and any number of restarts; and about SensorAlerts for   *)
(* any set of sensors.                                                     *)
(***************************************************************************)
EXTENDS AlertDelivery, SensorAlerts, FiniteSetTheorems, WellFoundedInduction, TLAPS

IInv == TypeOK /\ CountersMatchWindow

(* The condition of a tick is the new last element of the window. *)
LEMMA WindowStep ==
    ASSUME NEW w, NEW s
    PROVE  /\ Shift(w, s)[HOLD_TICKS] = s
           /\ \A i \in 1 .. HOLD_TICKS : i # HOLD_TICKS => Shift(w, s)[i] = w[i + 1]
BY HoldAssumption DEF Shift

LEMMA TypeOKInit == Init => TypeOK
BY HoldAssumption, CounterAssumption DEF Init, TypeOK, RuleState

(* An addition that wraps stays in the width of the counter. *)
LEMMA IncrementType ==
    ASSUME NEW n \in 0 .. CounterMod - 1
    PROVE  /\ Increment(n) \in 0 .. CounterMod - 1
           /\ n < HOLD_TICKS => Increment(n) = n + 1
BY HoldAssumption, CounterAssumption DEF Increment

LEMMA TypeOKEval ==
    ASSUME TypeOK, NEW snap, NEW ts \in Timestamps, Eval(snap, ts)
    PROVE  TypeOK'
<1>1. rule' \in [Rules -> RuleState]
  <2>1. ASSUME NEW r \in Rules
        PROVE  /\ NextOver(r, snap) \in 0 .. CounterMod - 1
               /\ NextUnder(r, snap) \in 0 .. CounterMod - 1
               /\ NextFiringSince(r, snap, ts) \in Timestamps \cup {None}
    BY <2>1, IncrementType, CounterAssumption
       DEF TypeOK, RuleState, NextOver, NextUnder, NextFiringSince
  <2>2. QED  BY <2>1 DEF Eval, RuleState
<1>2. event' \in [Rules -> {"none", "firing", "resolved"}]
  BY DEF Eval
<1>3. recent' \in [Rules -> [1 .. HOLD_TICKS -> {"over", "under", "none"}]]
  BY HoldAssumption DEF TypeOK, Eval, Shift, Condition
<1>4. QED  BY <1>1, <1>2, <1>3 DEF TypeOK

LEMMA CountersInit == Init => CountersMatchWindow
BY HoldAssumption DEF Init, CountersMatchWindow, EndsInRun, Firing

(* A window that ends in n conditions equal to s ends, after one more of
   them, in n + 1. *)
LEMMA RunGrows ==
    ASSUME NEW w, NEW n \in Nat, NEW s, EndsInRun(w, n, s), n + 1 < HOLD_TICKS
    PROVE  EndsInRun(Shift(w, s), n + 1, s)
<1>1. /\ Shift(w, s)[HOLD_TICKS] = s
      /\ \A i \in 1 .. HOLD_TICKS : i # HOLD_TICKS => Shift(w, s)[i] = w[i + 1]
  BY WindowStep
<1>2. QED  BY <1>1, HoldAssumption DEF EndsInRun

(* ... and one more of them fills the window when that is its length. *)
LEMMA RunFills ==
    ASSUME NEW w, NEW n \in Nat, NEW s, EndsInRun(w, n, s), n + 1 = HOLD_TICKS
    PROVE  \A i \in 1 .. HOLD_TICKS : Shift(w, s)[i] = s
<1>1. /\ Shift(w, s)[HOLD_TICKS] = s
      /\ \A i \in 1 .. HOLD_TICKS : i # HOLD_TICKS => Shift(w, s)[i] = w[i + 1]
  BY WindowStep
<1>2. QED  BY <1>1, HoldAssumption DEF EndsInRun

(* A window whose last element is not t ends in no run of t. *)
LEMMA NoRun ==
    ASSUME NEW w, NEW t, w[HOLD_TICKS] # t
    PROVE  EndsInRun(w, 0, t)
BY HoldAssumption DEF EndsInRun

LEMMA CountersEval ==
    ASSUME IInv, NEW snap, NEW ts \in Timestamps, Eval(snap, ts)
    PROVE  CountersMatchWindow'
<1> SUFFICES ASSUME NEW r \in Rules
             PROVE  IF Firing(r)' THEN EndsInRun(recent'[r], rule'[r].under, "under")
                                  ELSE EndsInRun(recent'[r], rule'[r].over, "over")
  BY DEF CountersMatchWindow
<1> DEFINE c == Condition(r, snap)
<1>1. /\ rule[r].over \in 0 .. CounterMod - 1
      /\ rule[r].under \in 0 .. CounterMod - 1
      /\ rule[r].firing_since \in Timestamps \cup {None}
  BY DEF IInv, TypeOK, RuleState
<1>2. /\ rule'[r].over = NextOver(r, snap)
      /\ rule'[r].under = NextUnder(r, snap)
      /\ rule'[r].firing_since = NextFiringSince(r, snap, ts)
      /\ recent'[r] = Shift(recent[r], c)
  BY DEF Eval
<1>3. recent'[r][HOLD_TICKS] = c
  BY <1>2, WindowStep
<1>4. CASE Firing(r) /\ Exceeded(r, snap)
  <2>1. Firing(r)' /\ rule'[r].under = 0
    BY <1>1, <1>2, <1>4, HoldAssumption
       DEF Firing, NextFiringSince, NextUnder, Fires, Resolves
  <2>2. QED  BY <1>3, <1>4, <2>1, NoRun DEF Condition
<1>5. CASE Firing(r) /\ ~Exceeded(r, snap)
  <2>1. EndsInRun(recent[r], rule[r].under, "under")
    BY <1>5 DEF IInv, CountersMatchWindow
  <2>2. rule'[r].under = rule[r].under + 1 /\ rule[r].under < HOLD_TICKS
    BY <1>1, <1>2, <1>5, <2>1, IncrementType DEF EndsInRun, NextUnder
  <2>3. CASE rule[r].under + 1 < HOLD_TICKS
    <3>1. Firing(r)'
      BY <1>1, <1>2, <1>5, <2>2, <2>3, HoldAssumption
         DEF Firing, NextFiringSince, Fires, Resolves
    <3>2. EndsInRun(recent'[r], rule'[r].under, "under")
      BY <1>1, <1>2, <1>5, <2>1, <2>2, <2>3, RunGrows DEF Condition
    <3>3. QED  BY <3>1, <3>2
  <2>4. CASE rule[r].under + 1 = HOLD_TICKS
    <3>1. ~Firing(r)' /\ rule'[r].over = 0
      BY <1>1, <1>2, <1>5, <2>2, <2>4, HoldAssumption
         DEF Firing, NextFiringSince, NextOver, Fires, Resolves
    <3>2. QED  BY <1>3, <1>5, <3>1, NoRun DEF Condition
  <2>5. QED  BY <1>1, <2>2, <2>3, <2>4, HoldAssumption
<1>6. CASE ~Firing(r) /\ ~Exceeded(r, snap)
  <2>1. ~Firing(r)' /\ rule'[r].over = 0
    BY <1>1, <1>2, <1>6, HoldAssumption
       DEF Firing, NextFiringSince, NextOver, Fires, Resolves
  <2>2. QED  BY <1>3, <1>6, <2>1, NoRun DEF Condition
<1>7. CASE ~Firing(r) /\ Exceeded(r, snap)
  <2>1. EndsInRun(recent[r], rule[r].over, "over")
    BY <1>7 DEF IInv, CountersMatchWindow
  <2>2. rule'[r].over = rule[r].over + 1 /\ rule[r].over < HOLD_TICKS
    BY <1>1, <1>2, <1>7, <2>1, IncrementType DEF EndsInRun, NextOver
  <2>3. CASE rule[r].over + 1 < HOLD_TICKS
    <3>1. ~Firing(r)'
      BY <1>1, <1>2, <1>7, <2>2, <2>3, HoldAssumption
         DEF Firing, NextFiringSince, Fires, Resolves
    <3>2. EndsInRun(recent'[r], rule'[r].over, "over")
      BY <1>1, <1>2, <1>7, <2>1, <2>2, <2>3, RunGrows DEF Condition
    <3>3. QED  BY <3>1, <3>2
  <2>4. CASE rule[r].over + 1 = HOLD_TICKS
    <3>1. Firing(r)' /\ rule'[r].under = 0
      BY <1>1, <1>2, <1>7, <2>2, <2>4, HoldAssumption, NoneAssumption
         DEF Firing, NextFiringSince, NextUnder, Fires, Resolves
    <3>2. QED  BY <1>3, <1>7, <3>1, NoRun DEF Condition
  <2>5. QED  BY <1>1, <2>2, <2>3, <2>4, HoldAssumption
<1>8. QED  BY <1>4, <1>5, <1>6, <1>7

LEMMA IInvStutter == IInv /\ UNCHANGED vars => IInv'
BY DEF IInv, TypeOK, CountersMatchWindow, EndsInRun, Firing, vars

(* The counters keep their width. *)
THEOREM TypeCorrect == Spec => []TypeOK
<1>1. Init => TypeOK
  BY TypeOKInit
<1>2. TypeOK /\ [Next]_vars => TypeOK'
  BY TypeOKEval DEF Next, vars, TypeOK
<1>3. QED  BY <1>1, <1>2, PTL DEF Spec

(* For any number of rules, any hold length and any counter width above it,
   the deciding counter is the length of the run that ends its window. *)
THEOREM CountersCorrect == Spec => []CountersMatchWindow
<1>1. Init => IInv
  BY TypeOKInit, CountersInit DEF IInv
<1>2. IInv /\ [Next]_vars => IInv'
  <2>1. IInv /\ Next => IInv'
    BY TypeOKEval, CountersEval DEF Next, IInv
  <2>2. QED  BY <2>1, IInvStutter
<1>3. IInv => CountersMatchWindow
  BY DEF IInv
<1>4. QED  BY <1>1, <1>2, <1>3, PTL DEF Spec

-----------------------------------------------------------------------------
(* What one Eval does to one rule, in terms of its state before. *)
LEMMA EvalTransitions ==
    ASSUME TypeOK, NEW snap, NEW ts \in Timestamps, Eval(snap, ts),
           NEW r \in Rules
    PROVE  /\ Fires(r, snap) <=> ~Firing(r) /\ Firing(r)'
           /\ Resolves(r, snap) <=> Firing(r) /\ ~Firing(r)'
           /\ Fires(r, snap) => Exceeded(r, snap)
           /\ Resolves(r, snap) => ~Exceeded(r, snap)
<1>1. /\ rule'[r].firing_since = NextFiringSince(r, snap, ts)
      /\ ts # None
  BY NoneAssumption DEF Eval
<1>2. /\ Fires(r, snap) => Exceeded(r, snap)
      /\ Resolves(r, snap) => ~Exceeded(r, snap)
  BY HoldAssumption DEF Fires, Resolves, NextOver, NextUnder
<1>3. QED  BY <1>1, <1>2 DEF Firing, NextFiringSince, Fires, Resolves

(* The start of an alert does not move while the alert is on. *)
THEOREM SinceIsStable == Spec => SinceStable
<1>1. TypeOK /\ [Next]_vars =>
          [\A r \in Rules : Firing(r) /\ Firing(r)' =>
              rule'[r].firing_since = rule[r].firing_since]_vars
  <2> SUFFICES ASSUME TypeOK, NEW snap \in Snapshots, NEW ts \in Timestamps,
                      Eval(snap, ts), NEW r \in Rules, Firing(r), Firing(r)'
               PROVE  rule'[r].firing_since = rule[r].firing_since
    BY DEF Next
  <2>1. ~Fires(r, snap) /\ ~Resolves(r, snap)
    BY EvalTransitions
  <2>2. QED  BY <2>1 DEF Eval, NextFiringSince
<1>2. QED  BY <1>1, TypeCorrect, PTL DEF Spec, SinceStable

(* Every change of an alert is told by one event, backed by its value. *)
THEOREM EventsAreTransitions == Spec => EventsTellTransitions
<1>1. TypeOK /\ [Next]_vars =>
          [\A r \in Rules :
              /\ event'[r] = "firing" <=> ~Firing(r) /\ Firing(r)'
              /\ event'[r] = "resolved" <=> Firing(r) /\ ~Firing(r)'
              /\ event'[r] = "firing" => shown'[r] > AlertSpec[r].threshold
              /\ event'[r] = "resolved" => ~(shown'[r] > AlertSpec[r].threshold)]_vars
  <2> SUFFICES ASSUME TypeOK, NEW snap \in Snapshots, NEW ts \in Timestamps,
                      Eval(snap, ts), NEW r \in Rules
               PROVE  /\ event'[r] = "firing" <=> ~Firing(r) /\ Firing(r)'
                      /\ event'[r] = "resolved" <=> Firing(r) /\ ~Firing(r)'
                      /\ event'[r] = "firing" => shown'[r] > AlertSpec[r].threshold
                      /\ event'[r] = "resolved" =>
                            ~(shown'[r] > AlertSpec[r].threshold)
    BY DEF Next
  <2>1. /\ event'[r] = "firing" <=> Fires(r, snap)
        /\ event'[r] = "resolved" <=> ~Fires(r, snap) /\ Resolves(r, snap)
    BY DEF Eval
  <2>2. shown'[r] = Value(r, snap)
    BY DEF Eval
  <2>3. QED  BY <2>1, <2>2, EvalTransitions DEF Exceeded
<1>2. QED  BY <1>1, TypeCorrect, PTL DEF Spec, EventsTellTransitions

-----------------------------------------------------------------------------
(* A rule only starts on a window full of "over", and only ends on one full
   of "under". *)
LEMMA FullWindowDecides ==
    ASSUME IInv, NEW snap, NEW ts \in Timestamps, Eval(snap, ts),
           NEW r \in Rules
    PROVE  /\ Fires(r, snap) => Window!All(recent'[r], "over")
           /\ Resolves(r, snap) => Window!All(recent'[r], "under")
<1>1. /\ rule[r].over \in 0 .. CounterMod - 1
      /\ rule[r].under \in 0 .. CounterMod - 1
      /\ recent'[r] = Shift(recent[r], Condition(r, snap))
  BY DEF IInv, TypeOK, RuleState, Eval
<1>2. ASSUME Fires(r, snap)
      PROVE  Window!All(recent'[r], "over")
  <2>1. EndsInRun(recent[r], rule[r].over, "over") /\ Exceeded(r, snap)
    BY <1>2, EvalTransitions DEF IInv, CountersMatchWindow
  <2>2. rule[r].over + 1 = HOLD_TICKS
    BY <1>1, <1>2, <2>1, IncrementType, HoldAssumption DEF EndsInRun, Fires, NextOver
  <2>3. \A i \in 1 .. HOLD_TICKS : Shift(recent[r], "over")[i] = "over"
    <3>1. rule[r].over \in Nat
      BY <1>1, CounterAssumption
    <3>2. QED  BY <2>1, <2>2, <3>1, RunFills
  <2>4. QED  BY <1>1, <2>1, <2>3 DEF Condition, Window!All
<1>3. ASSUME Resolves(r, snap)
      PROVE  Window!All(recent'[r], "under")
  <2>1. EndsInRun(recent[r], rule[r].under, "under") /\ ~Exceeded(r, snap)
    BY <1>3, EvalTransitions DEF IInv, CountersMatchWindow
  <2>2. rule[r].under + 1 = HOLD_TICKS
    BY <1>1, <1>3, <2>1, IncrementType, HoldAssumption
       DEF EndsInRun, Resolves, NextUnder
  <2>3. \A i \in 1 .. HOLD_TICKS : Shift(recent[r], "under")[i] = "under"
    <3>1. rule[r].under \in Nat
      BY <1>1, CounterAssumption
    <3>2. QED  BY <2>1, <2>2, <3>1, RunFills
  <2>4. QED  BY <1>1, <2>1, <2>3 DEF Condition, Window!All
<1>4. QED  BY <1>2, <1>3

(* A window that ends in a run shorter than itself is not full of it. *)
LEMMA RunIsNotFull ==
    ASSUME NEW w, NEW n \in Nat, NEW s, EndsInRun(w, n, s)
    PROVE  ~Window!All(w, s)
BY HoldAssumption DEF EndsInRun, Window!All

(* The counters implement the window: the engine refines Hysteresis. *)
THEOREM Refinement == Spec => RefinesHysteresis
<1>1. Init => Window!Init
  <2> SUFFICES ASSUME Init
               PROVE  Window!Init
    OBVIOUS
  <2>1. \A r \in Rules : Firing(r) = FALSE
    BY DEF Init, Firing
  <2>2. [r \in Rules |-> Firing(r)] = [r \in Rules |-> FALSE]
    BY <2>1, Zenon
  <2>3. QED  BY <2>2 DEF Init, Window!Init
<1>2. IInv /\ IInv' /\ [Next]_vars => [Window!Tick]_(Window!vars)
  <2>1. ASSUME IInv, IInv', NEW snap \in Snapshots, NEW ts \in Timestamps,
               Eval(snap, ts)
        PROVE  Window!Tick
    <3> DEFINE s == [r \in Rules |-> Condition(r, snap)]
    <3>1. s \in [Rules -> Window!Sample]
      BY DEF Condition, Window!Sample
    <3>2. recent' = [r \in Rules |-> Window!Shift(recent[r], s[r])]
      BY <2>1 DEF Eval, Shift, Window!Shift
    <3>3. ASSUME NEW r \in Rules
          PROVE  Firing(r)' <=> \/ Window!All(recent'[r], "over")
                                \/ Firing(r) /\ ~Window!All(recent'[r], "under")
      <4>1. /\ rule'[r].over \in Nat /\ rule'[r].under \in Nat
        BY <2>1, <3>3, CounterAssumption DEF IInv, TypeOK, RuleState
      <4>2. CASE Firing(r)'
        <5>1. EndsInRun(recent'[r], rule'[r].under, "under")
          BY <2>1, <3>3, <4>2 DEF IInv, CountersMatchWindow
        <5>2. ~Window!All(recent'[r], "under")
          BY <4>1, <5>1, RunIsNotFull
        <5>3. Firing(r) \/ Window!All(recent'[r], "over")
          BY <2>1, <3>3, <4>2, EvalTransitions, FullWindowDecides DEF IInv
        <5>4. QED  BY <4>2, <5>2, <5>3
      <4>3. CASE ~Firing(r)'
        <5>1. EndsInRun(recent'[r], rule'[r].over, "over")
          BY <2>1, <3>3, <4>3 DEF IInv, CountersMatchWindow
        <5>2. ~Window!All(recent'[r], "over")
          BY <4>1, <5>1, RunIsNotFull
        <5>3. ~Firing(r) \/ Window!All(recent'[r], "under")
          BY <2>1, <3>3, <4>3, EvalTransitions, FullWindowDecides DEF IInv
        <5>4. QED  BY <4>3, <5>2, <5>3
      <4>4. QED  BY <4>2, <4>3
    <3>4. \A r \in Rules : recent'[r] = Window!Shift(recent[r], s[r])
      BY <3>2
    <3>5. \A r \in Rules :
              Firing(r)' = \/ Window!All(Window!Shift(recent[r], s[r]), "over")
                           \/ /\ Firing(r)
                              /\ ~Window!All(Window!Shift(recent[r], s[r]), "under")
      <4> SUFFICES ASSUME NEW r \in Rules
                   PROVE  Firing(r)' =
                            \/ Window!All(Window!Shift(recent[r], s[r]), "over")
                            \/ /\ Firing(r)
                               /\ ~Window!All(Window!Shift(recent[r], s[r]), "under")
        OBVIOUS
      <4>1. recent'[r] = Window!Shift(recent[r], s[r])
        BY <3>4
      <4>2. QED  BY <3>3, <4>1 DEF Firing, Window!All
    <3>6. [r \in Rules |-> Firing(r)]' =
             [r \in Rules |->
                \/ Window!All(Window!Shift(recent[r], s[r]), "over")
                \/ Firing(r) /\ ~Window!All(Window!Shift(recent[r], s[r]), "under")]
      BY <3>5, Zenon
    <3>7. QED  BY <3>1, <3>2, <3>6, Zenon DEF Window!Tick
  <2>2. ASSUME UNCHANGED vars
        PROVE  UNCHANGED Window!vars
    BY <2>2 DEF vars, Window!vars, Firing
  <2>3. QED  BY <2>1, <2>2 DEF Next
<1>3. Spec => []IInv
  BY TypeCorrect, CountersCorrect, PTL DEF IInv
<1>4. QED  BY <1>1, <1>2, <1>3, PTL DEF Spec, RefinesHysteresis, Window!Spec

-----------------------------------------------------------------------------
(* The webhook: AlertDelivery *)

Message == [rule: Rules, state: {"firing", "resolved"}, no: Nat]

DeliveryTypeOK ==
    /\ TypeOK
    /\ work \in Nat
    /\ children \subseteq Child
    /\ received \in Seq(Message)
    /\ emitted \in [Rules -> Nat]

(* Of the time a child has lived, only the interval its own tick was in
   need not be a whole one; a restart only takes longer. *)
AgeInv ==
    \A c \in children :
        /\ c.age <= CurlTimeout
        /\ c.evals >= 1 => c.age >= (c.evals - 1) * Interval + work

(* The counter that decides over the next event of r. *)
Decider(r) == IF Firing(r) THEN rule[r].under ELSE rule[r].over

(* It was reset with the last event, and grows by one in an evaluation. *)
DistanceInv == \A c \in children : Decider(c.rule) <= c.evals

(* A child that runs is that of its rule's newest event, the only one, and
   ahead of all that was received. *)
NewestInv ==
    /\ \A c \in children : c.no = emitted[c.rule]
    /\ \A c, e \in children : c.rule = e.rule => c = e
    /\ \A i \in 1 .. Len(received) :
          /\ received[i].no <= emitted[received[i].rule]
          /\ \A c \in children : ~c.posted /\ received[i].rule = c.rule => received[i].no < c.no
    /\ \A i, j \in 1 .. Len(received) :
          i < j /\ received[i].rule = received[j].rule => received[i].no < received[j].no

DeliveryInv ==
    DeliveryTypeOK /\ AgeInv /\ DistanceInv /\ (OutlivesNoEvent => NewestInv)

-----------------------------------------------------------------------------
(* Time *)

LEMMA ElapsedTime ==
    ASSUME DeliveryTypeOK, NEW w \in Nat
    PROVE  Elapsed(w) \in Nat /\ Elapsed(w) >= w /\ Elapsed(w) >= Interval - work + w
BY DeliveryAssumption DEF DeliveryTypeOK, Elapsed, Later

(* One child older, and a new one. *)
AgedChild(c, d, n) == [c EXCEPT !.age = @ + d, !.evals = @ + n]
NewChild(r, state, no) ==
    [rule |-> r, state |-> state, no |-> no, age |-> 0, evals |-> 0, posted |-> FALSE]

LEMMA AgedChildren ==
    ASSUME children \subseteq Child, NEW d \in Nat, NEW n \in Nat, NEW a \in Aged(d, n)
    PROVE  /\ a \in Child
           /\ \E c \in children :
                 /\ a.rule = c.rule /\ a.no = c.no /\ a.posted = c.posted
                 /\ a.age = c.age + d /\ a.evals = c.evals + n
                 /\ a = AgedChild(c, d, n)
<1>1. PICK c \in children : a = AgedChild(c, d, n)
  BY DEF Aged, AgedChild
<1>2. c \in Child
  OBVIOUS
<1>3. /\ a.rule = c.rule /\ a.no = c.no /\ a.posted = c.posted
      /\ a.age = c.age + d /\ a.evals = c.evals + n
  BY <1>1, <1>2 DEF Child, AgedChild
<1>4. a \in Child
  <2>1. a = [ rule |-> c.rule, state |-> c.state, no |-> c.no,
              age |-> c.age + d, evals |-> c.evals + n, posted |-> c.posted ]
    BY <1>1, <1>2 DEF Child, AgedChild
  <2>2. /\ c.rule \in Rules /\ c.state \in {"firing", "resolved"} /\ c.no \in Nat
        /\ c.age + d \in Nat /\ c.evals + n \in Nat /\ c.posted \in BOOLEAN
    BY <1>2 DEF Child, AgedChild
  <2>3. QED  BY <2>1, <2>2 DEF Child, AgedChild
<1>5. QED  BY <1>1, <1>3, <1>4

(* A child that has seen HOLD_TICKS evaluations would have outlived curl. *)
LEMMA ChildIsYoung ==
    ASSUME OutlivesNoEvent, NEW c \in Child, NEW k \in Nat, c.age <= CurlTimeout,
           c.evals >= 1 => c.age >= (c.evals - 1) * Interval + k
    PROVE  c.evals < HOLD_TICKS
<1> SUFFICES ASSUME c.evals >= HOLD_TICKS
             PROVE  FALSE
  BY HoldAssumption DEF Child
<1> DEFINE e == c.evals - 1
           h == HOLD_TICKS - 1
<1>1. /\ e \in Nat /\ h \in Nat /\ h <= e /\ Interval \in Nat /\ CurlTimeout \in Nat
      /\ c.age \in Nat /\ c.age >= e * Interval + k
  BY HoldAssumption, DeliveryAssumption DEF Child
<1>2. h * Interval > CurlTimeout
  BY DEF OutlivesNoEvent
<1> HIDE DEF e, h
<1>3. h * Interval <= e * Interval
  BY <1>1
<1>4. h * Interval \in Nat /\ e * Interval \in Nat
  BY <1>1
<1>5. QED  BY <1>1, <1>2, <1>3, <1>4

-----------------------------------------------------------------------------
(* An evaluation *)

LEMMA DeciderStep ==
    ASSUME TypeOK, NEW snap \in Snapshots, NEW ts \in Timestamps, Eval(snap, ts), NEW r \in Rules
    PROVE  /\ Decider(r) \in Nat
           /\ event'[r] = "none"  => Decider(r)' <= Decider(r) + 1
           /\ event'[r] # "none" => Decider(r)' = 0 /\ Decider(r) + 1 >= HOLD_TICKS
           /\ event'[r] \in {"none", "firing", "resolved"}
<1>1. /\ rule[r].over \in Nat /\ rule[r].under \in Nat
  BY CounterAssumption DEF TypeOK, RuleState
<1>2. \A n \in Nat : Increment(n) \in Nat /\ Increment(n) <= n + 1
  BY DEF Increment
<1>3. /\ event'[r] = IF Fires(r, snap) THEN "firing" ELSE IF Resolves(r, snap) THEN "resolved" ELSE "none"
      /\ rule'[r].over = NextOver(r, snap) /\ rule'[r].under = NextUnder(r, snap)
  BY DEF Eval
<1>4. /\ Fires(r, snap) <=> ~Firing(r) /\ Firing(r)'
      /\ Resolves(r, snap) <=> Firing(r) /\ ~Firing(r)'
      /\ Fires(r, snap) => Exceeded(r, snap)
      /\ Resolves(r, snap) => ~Exceeded(r, snap)
  BY EvalTransitions
<1>5. CASE Fires(r, snap)
  BY <1>1, <1>2, <1>3, <1>4, <1>5, HoldAssumption DEF Decider, Fires, NextOver, NextUnder
<1>6. CASE Resolves(r, snap)
  BY <1>1, <1>2, <1>3, <1>4, <1>6, HoldAssumption DEF Decider, Resolves, NextOver, NextUnder
<1>7. CASE ~Fires(r, snap) /\ ~Resolves(r, snap)
  BY <1>1, <1>2, <1>3, <1>4, <1>7 DEF Decider, NextOver, NextUnder
<1>8. QED  BY <1>5, <1>6, <1>7

(* Where a child after an evaluation comes from. *)
LEMMA SampleChildren ==
    ASSUME DeliveryTypeOK, NEW snap \in Snapshots, NEW ts \in Timestamps, NEW w \in WorkTimes,
           Sample(snap, ts, w), NEW a \in children'
    PROVE  /\ a \in Child
           /\ \/ \E c \in children :
                    /\ a.rule = c.rule /\ a.no = c.no /\ a.posted = c.posted
                    /\ a.age = c.age + Elapsed(w) /\ a.evals = c.evals + 1
                    /\ a = AgedChild(c, Elapsed(w), 1)
              \/ /\ event'[a.rule] # "none" /\ a.no = emitted[a.rule] + 1
                 /\ a.age = 0 /\ a.evals = 0 /\ ~a.posted
                 /\ a = NewChild(a.rule, event'[a.rule], emitted[a.rule] + 1)
<1>1. children \subseteq Child /\ Elapsed(w) \in Nat
  BY ElapsedTime, DeliveryAssumption DEF DeliveryTypeOK
<1>2. PICK S \in SUBSET { r \in Rules : event'[r] # "none" } :
         children' = Aged(Elapsed(w), 1) \cup Spawned(S)
  BY DEF Sample
<1>3. CASE a \in Aged(Elapsed(w), 1)
  <2>1. /\ a \in Child
        /\ \E c \in children :
              /\ a.rule = c.rule /\ a.no = c.no /\ a.posted = c.posted
              /\ a.age = c.age + Elapsed(w) /\ a.evals = c.evals + 1
              /\ a = AgedChild(c, Elapsed(w), 1)
    BY <1>1, <1>3, AgedChildren
  <2>2. QED  BY <2>1
<1>4. CASE a \in Spawned(S)
  <2>1. PICK r \in S :
           a = NewChild(r, event'[r], emitted[r] + 1)
    BY <1>4 DEF Spawned, NewChild
  <2>2. r \in Rules /\ event'[r] \in {"firing", "resolved"} /\ emitted[r] \in Nat
    BY <1>2, DeciderStep DEF DeliveryTypeOK, Sample
  <2>3. a \in Child
    BY <2>1, <2>2 DEF Child, NewChild
  <2>4. a.rule = r /\ a.no = emitted[r] + 1 /\ a.age = 0 /\ a.evals = 0 /\ ~a.posted
    BY <2>1 DEF NewChild
  <2>5. QED  BY <1>2, <2>1, <2>3, <2>4
<1>5. QED  BY <1>2, <1>3, <1>4

LEMMA InvSample ==
    ASSUME DeliveryInv, NEW snap \in Snapshots, NEW ts \in Timestamps, NEW w \in WorkTimes,
           Sample(snap, ts, w)
    PROVE  DeliveryInv'
<1> USE DEF DeliveryInv
<1>1. Eval(snap, ts) /\ w \in Nat /\ work' = w /\ received' = received
  BY DeliveryAssumption DEF Sample
<1>2. /\ emitted' \in [Rules -> Nat]
      /\ \A r \in Rules : emitted'[r] = IF event'[r] # "none" THEN emitted[r] + 1 ELSE emitted[r]
  BY DEF DeliveryTypeOK, Sample
<1>3. DeliveryTypeOK'
  <2>1. TypeOK'
    BY <1>1, TypeOKEval DEF DeliveryTypeOK
  <2>2. children' \subseteq Child
    BY SampleChildren
  <2>3. QED  BY <1>1, <1>2, <2>1, <2>2 DEF DeliveryTypeOK
<1>4. AgeInv'
  <2> SUFFICES ASSUME NEW a \in children'
               PROVE  /\ a.age <= CurlTimeout
                      /\ a.evals >= 1 => a.age >= (a.evals - 1) * Interval + w
    BY <1>1 DEF AgeInv
  <2>1. CASE a.age = 0 /\ a.evals = 0
    BY <2>1, DeliveryAssumption
  <2>2. ASSUME NEW c \in children, a.age = c.age + Elapsed(w), a.evals = c.evals + 1
        PROVE  /\ a.age <= CurlTimeout
               /\ a.age >= (a.evals - 1) * Interval + w
    <3>1. /\ c.age \in Nat /\ c.evals \in Nat /\ work \in Nat /\ Interval \in Nat
          /\ c.evals >= 1 => c.age >= (c.evals - 1) * Interval + work
      BY DeliveryAssumption DEF DeliveryTypeOK, Child, AgeInv
    <3>2. Elapsed(w) \in Nat /\ Elapsed(w) >= w /\ Elapsed(w) >= Interval - work + w
      BY <1>1, ElapsedTime
    <3>3. a.age <= CurlTimeout
      BY <2>2 DEF Sample, MayPass
    <3>4. CASE c.evals = 0
      BY <1>1, <2>2, <3>1, <3>2, <3>3, <3>4
    <3>5. CASE c.evals >= 1
      <4>1. c.evals * Interval = (c.evals - 1) * Interval + Interval
        BY <3>1
      <4>2. (c.evals - 1) * Interval \in Int
        BY <3>1
      <4>3. a.age >= c.evals * Interval + w
        BY <1>1, <2>2, <3>1, <3>2, <3>5, <4>1, <4>2
      <4>4. a.evals - 1 = c.evals
        BY <2>2, <3>1
      <4>5. QED  BY <3>3, <4>3, <4>4
    <3>6. QED  BY <3>1, <3>4, <3>5
  <2>3. QED  BY <2>1, <2>2, SampleChildren
<1>5. DistanceInv'
  <2> SUFFICES ASSUME NEW a \in children'
               PROVE  Decider(a.rule)' <= a.evals
    BY DEF DistanceInv
  <2>1. a.rule \in Rules /\ a.evals \in Nat
    BY SampleChildren DEF Child
  <2>2. /\ Decider(a.rule) \in Nat
        /\ event'[a.rule] = "none" => Decider(a.rule)' <= Decider(a.rule) + 1
        /\ event'[a.rule] # "none" => Decider(a.rule)' = 0
    BY <1>1, <2>1, DeciderStep DEF DeliveryTypeOK
  <2>3. CASE event'[a.rule] # "none"
    BY <2>1, <2>2, <2>3
  <2>4. CASE event'[a.rule] = "none"
    <3>1. PICK c \in children : a.rule = c.rule /\ a.evals = c.evals + 1
      BY <2>4, SampleChildren
    <3>2. Decider(c.rule) <= c.evals /\ c.evals \in Nat
      BY DEF DistanceInv, DeliveryTypeOK, Child
    <3>3. Decider(a.rule) = Decider(c.rule) /\ Decider(a.rule)' \in Int
      BY <1>3, <2>1, <3>1, CounterAssumption DEF DeliveryTypeOK, TypeOK, RuleState, Decider
    <3>4. QED  BY <2>2, <2>4, <3>1, <3>2, <3>3
  <2>5. QED  BY <2>3, <2>4
<1>6. ASSUME OutlivesNoEvent
      PROVE  NewestInv'
  <2> USE <1>6
  (* No child is left of a rule that has an event. *)
  <2>1. ASSUME NEW a \in children', NEW c \in children, a.rule = c.rule, a.evals = c.evals + 1
        PROVE  event'[a.rule] = "none" /\ emitted'[a.rule] = emitted[a.rule]
    <3>1. a.evals < HOLD_TICKS
      <4>1. /\ a \in Child /\ a.age <= CurlTimeout /\ w \in Nat
            /\ a.evals >= 1 => a.age >= (a.evals - 1) * Interval + w
        BY <1>1, <1>3, <1>4 DEF DeliveryTypeOK, AgeInv
      <4>2. QED  BY <4>1, ChildIsYoung
    <3>2. a.rule \in Rules /\ c.evals \in Nat /\ Decider(c.rule) <= c.evals
      BY <2>1 DEF DeliveryTypeOK, Child, DistanceInv
    <3>3. /\ Decider(a.rule) \in Nat
          /\ event'[a.rule] # "none" => Decider(a.rule) + 1 >= HOLD_TICKS
      BY <1>1, <3>2, DeciderStep DEF DeliveryTypeOK
    <3>4. QED  BY <1>2, <2>1, <3>1, <3>2, <3>3, HoldAssumption
  <2>2. ASSUME NEW a \in children'
        PROVE  /\ a.rule \in Rules /\ a.no = emitted'[a.rule]
               /\ event'[a.rule] = "none" =>
                     \E c \in children : /\ a.rule = c.rule /\ a.no = c.no /\ a.posted = c.posted
                                         /\ a = AgedChild(c, Elapsed(w), 1)
               /\ event'[a.rule] # "none" =>
                     /\ ~a.posted /\ a.no = emitted[a.rule] + 1
                     /\ a = NewChild(a.rule, event'[a.rule], emitted[a.rule] + 1)
    <3>1. a.rule \in Rules
      BY SampleChildren DEF Child
    <3>2. CASE event'[a.rule] = "none"
      BY <1>2, <3>1, <3>2, SampleChildren DEF NewestInv
    <3>3. CASE event'[a.rule] # "none"
      BY <1>2, <2>1, <3>1, <3>3, SampleChildren
    <3>4. QED  BY <3>1, <3>2, <3>3
  <2>3. \A a, b \in children' : a.rule = b.rule => a = b
    <3> SUFFICES ASSUME NEW a \in children', NEW b \in children', a.rule = b.rule
                 PROVE  a = b
      OBVIOUS
    <3>1. CASE event'[a.rule] = "none"
      BY <2>2, <3>1 DEF NewestInv
    <3>2. CASE event'[a.rule] # "none"
      BY <2>2, <3>2
    <3>3. QED  BY <3>1, <3>2
  <2>4. ASSUME NEW i \in 1 .. Len(received)
        PROVE  /\ received[i].no <= emitted'[received[i].rule]
               /\ \A a \in children' : ~a.posted /\ received[i].rule = a.rule => received[i].no < a.no
    <3>1. /\ received[i].rule \in Rules /\ received[i].no \in Nat
          /\ received[i].no <= emitted[received[i].rule] /\ emitted[received[i].rule] \in Nat
      <4>1. received[i] \in Message
        BY DEF DeliveryTypeOK
      <4>2. QED  BY <4>1 DEF Message, DeliveryTypeOK, NewestInv
    <3>2. received[i].no <= emitted'[received[i].rule]
      BY <1>2, <3>1
    <3>3. ASSUME NEW a \in children', ~a.posted, received[i].rule = a.rule
          PROVE  received[i].no < a.no
      <4>1. CASE event'[a.rule] = "none"
        BY <2>2, <3>3, <4>1 DEF NewestInv
      <4>2. CASE event'[a.rule] # "none"
        BY <2>2, <3>1, <3>3, <4>2
      <4>3. QED  BY <4>1, <4>2
    <3>4. QED  BY <3>2, <3>3
  <2>5. QED  BY <1>1, <2>2, <2>3, <2>4 DEF NewestInv
<1>7. QED  BY <1>3, <1>4, <1>5, <1>6 DEF OutlivesNoEvent
-----------------------------------------------------------------------------
(* The children, the reaper and a restart *)

LEMMA InvInit == DeliveryInit => DeliveryInv
<1> SUFFICES ASSUME DeliveryInit
             PROVE  DeliveryInv
  OBVIOUS
<1>1. TypeOK
  BY TypeOKInit DEF DeliveryInit
<1>2. received = << >> /\ children = {} /\ work = 0 /\ emitted = [r \in Rules |-> 0]
  BY DEF DeliveryInit
<1>3. DeliveryTypeOK
  BY <1>1, <1>2 DEF DeliveryTypeOK
<1>4. NewestInv
  BY <1>2 DEF NewestInv
<1>5. QED  BY <1>2, <1>3, <1>4 DEF DeliveryInv, AgeInv, DistanceInv

LEMMA InvPost ==
    ASSUME DeliveryInv, NEW c \in children, Post(c)
    PROVE  DeliveryInv'
<1> DEFINE posted == [c EXCEPT !.posted = TRUE]
           m == [rule |-> c.rule, state |-> c.state, no |-> c.no]
<1> USE DEF DeliveryInv
<1>1. /\ ~c.posted /\ received' = Append(received, m)
      /\ children' = (children \ {c}) \cup {posted}
      /\ UNCHANGED <<rule, event, shown, recent, work, emitted>>
  BY DEF Post, vars
<1>2. /\ c \in Child /\ posted \in Child /\ m \in Message
      /\ posted.rule = c.rule /\ posted.no = c.no /\ posted.age = c.age
      /\ posted.evals = c.evals /\ posted.posted
      /\ m.rule = c.rule /\ m.no = c.no
  <2>1. c \in Child
    BY DEF DeliveryTypeOK
  <2>2. \A b \in BOOLEAN : [c EXCEPT !.posted = b] =
           [ rule |-> c.rule, state |-> c.state, no |-> c.no,
             age |-> c.age, evals |-> c.evals, posted |-> b ]
    BY <2>1 DEF Child
  <2>3. /\ c.rule \in Rules /\ c.state \in {"firing", "resolved"} /\ c.no \in Nat
        /\ c.age \in Nat /\ c.evals \in Nat
    BY <2>1 DEF Child
  <2> HIDE DEF posted
  <2>4. /\ posted.rule = c.rule /\ posted.no = c.no /\ posted.age = c.age
        /\ posted.evals = c.evals /\ posted.posted
    BY <2>2 DEF posted
  <2>5. posted \in Child
    BY <2>2, <2>3 DEF Child, posted
  <2>6. m \in Message /\ m.rule = c.rule /\ m.no = c.no
    BY <2>3 DEF Message
  <2>7. QED  BY <2>1, <2>4, <2>5, <2>6
<1> HIDE DEF posted, m
<1>3. /\ received \in Seq(Message) /\ received' \in Seq(Message)
      /\ Len(received') = Len(received) + 1 /\ received'[Len(received) + 1] = m
      /\ \A i \in 1 .. Len(received) : received'[i] = received[i]
  BY <1>1, <1>2 DEF DeliveryTypeOK
<1>4. DeliveryTypeOK'
  <2>1. TypeOK'
    BY <1>1 DEF DeliveryTypeOK, TypeOK
  <2>2. QED  BY <1>1, <1>2, <1>3, <2>1 DEF DeliveryTypeOK
<1>5. AgeInv'
  BY <1>1, <1>2 DEF AgeInv
<1>6. DistanceInv'
  <2>1. \A r : Decider(r)' = Decider(r)
    BY <1>1 DEF Decider, Firing
  <2>2. QED  BY <1>1, <1>2, <2>1 DEF DistanceInv
<1>7. ASSUME NewestInv
      PROVE  NewestInv'
  <2>1. c.no = emitted[c.rule] /\ c.no \in Nat /\ Len(received) \in Nat
    BY <1>2, <1>3, <1>7 DEF NewestInv, Child
  <2>2. \A e \in children' : e.no = emitted'[e.rule]
    BY <1>1, <1>2, <1>7 DEF NewestInv
  <2>3. \A d, e \in children' : d.rule = e.rule => d = e
    BY <1>1, <1>2, <1>7 DEF NewestInv
  <2>4. ASSUME NEW i \in 1 .. Len(received')
        PROVE  /\ received'[i].no <= emitted'[received'[i].rule]
               /\ \A e \in children' : ~e.posted /\ received'[i].rule = e.rule => received'[i].no < e.no
    <3>1. CASE i \in 1 .. Len(received)
      BY <1>1, <1>2, <1>3, <1>7, <3>1 DEF NewestInv
    <3>2. CASE i = Len(received) + 1
      <4>1. received'[i] = m /\ m.no <= emitted'[m.rule]
        BY <1>1, <1>2, <1>3, <2>1, <3>2
      <4>2. \A e \in children' : e.rule = m.rule => e.posted
        BY <1>1, <1>2, <1>7 DEF NewestInv
      <4>3. QED  BY <4>1, <4>2
    <3>3. QED  BY <1>3, <2>1, <3>1, <3>2
  <2>5. ASSUME NEW i \in 1 .. Len(received'), NEW j \in 1 .. Len(received'),
               i < j, received'[i].rule = received'[j].rule
        PROVE  received'[i].no < received'[j].no
    <3>1. i \in 1 .. Len(received)
      BY <1>3, <2>1, <2>5
    <3>2. CASE j \in 1 .. Len(received)
      BY <1>3, <1>7, <2>5, <3>1, <3>2 DEF NewestInv
    <3>3. CASE j = Len(received) + 1
      BY <1>1, <1>2, <1>3, <1>7, <2>5, <3>1, <3>3 DEF NewestInv
    <3>4. QED  BY <1>3, <2>1, <3>2, <3>3
  <2>6. QED  BY <2>2, <2>3, <2>4, <2>5 DEF NewestInv
<1>8. QED  BY <1>4, <1>5, <1>6, <1>7 DEF OutlivesNoEvent

LEMMA InvFewerChildren ==
    ASSUME DeliveryInv, children' \subseteq children, UNCHANGED <<vars, work, received, emitted>>
    PROVE  DeliveryInv'
<1> USE DEF DeliveryInv, vars
<1>1. DeliveryTypeOK'
  BY DEF DeliveryTypeOK, TypeOK
<1>2. AgeInv'
  BY DEF AgeInv
<1>3. DistanceInv'
  BY DEF DistanceInv, Decider, Firing
<1>4. NewestInv => NewestInv'
  BY DEF NewestInv
<1>5. QED  BY <1>1, <1>2, <1>3, <1>4 DEF OutlivesNoEvent

(* The new engine's counters are zero, like those of a rule that has just
   had an event. *)
LEMMA InvRestart ==
    ASSUME DeliveryInv, NEW d \in RestartTimes, Restart(d)
    PROVE  DeliveryInv'
<1> USE DEF DeliveryInv
<1>1. /\ d \in Nat /\ work' = 0 /\ children' = Aged(d, 0)
      /\ UNCHANGED <<received, emitted>>
  BY DeliveryAssumption DEF Restart
<1>2. ASSUME NEW a \in children'
      PROVE  /\ a \in Child /\ a.age <= CurlTimeout
             /\ \E c \in children :
                   /\ a.rule = c.rule /\ a.no = c.no /\ a.posted = c.posted
                   /\ a.age = c.age + d /\ a.evals = c.evals
                   /\ a = AgedChild(c, d, 0)
  <2>1. PICK c \in children :
           /\ a \in Child
           /\ a.rule = c.rule /\ a.no = c.no /\ a.posted = c.posted
           /\ a.age = c.age + d /\ a.evals = c.evals + 0
           /\ a = AgedChild(c, d, 0)
    BY <1>1, AgedChildren DEF DeliveryTypeOK
  <2>2. c.evals \in Nat
    BY DEF DeliveryTypeOK, Child
  <2>3. a.age <= CurlTimeout
    BY <2>1 DEF Restart, MayPass
  <2>4. QED  BY <2>1, <2>2, <2>3
<1>3. DeliveryTypeOK'
  <2>1. TypeOK'
    BY HoldAssumption, CounterAssumption DEF Restart, TypeOK, RuleState
  <2>2. QED  BY <1>1, <1>2, <2>1 DEF DeliveryTypeOK
<1>4. AgeInv'
  <2> SUFFICES ASSUME NEW a \in children', a.evals >= 1
               PROVE  a.age >= (a.evals - 1) * Interval + 0
    BY <1>1, <1>2 DEF AgeInv
  <2>1. PICK c \in children : a.age = c.age + d /\ a.evals = c.evals
    BY <1>2
  <2>2. /\ c.age \in Nat /\ c.evals \in Nat /\ work \in Nat /\ Interval \in Nat
        /\ c.age >= (c.evals - 1) * Interval + work
    BY <2>1, DeliveryAssumption DEF DeliveryTypeOK, Child, AgeInv
  <2>3. (c.evals - 1) * Interval \in Int
    BY <2>2
  <2>4. QED  BY <1>1, <2>1, <2>2, <2>3
<1>5. DistanceInv'
  <2>1. \A r \in Rules : Decider(r)' = 0
    BY DEF Restart, Decider, Firing
  <2>2. QED  BY <1>2, <2>1 DEF DistanceInv, Child
<1>6. ASSUME NewestInv
      PROVE  NewestInv'
  <2>1. \A a \in children' : a.no = emitted'[a.rule]
    BY <1>1, <1>2, <1>6 DEF NewestInv
  <2>2. \A a, b \in children' : a.rule = b.rule => a = b
    BY <1>2, <1>6 DEF NewestInv
  <2>3. \A i \in 1 .. Len(received') :
           /\ received'[i].no <= emitted'[received'[i].rule]
           /\ \A a \in children' : ~a.posted /\ received'[i].rule = a.rule => received'[i].no < a.no
    BY <1>1, <1>2, <1>6 DEF NewestInv
  <2>4. QED  BY <1>1, <1>6, <2>1, <2>2, <2>3 DEF NewestInv
<1>7. QED  BY <1>3, <1>4, <1>5, <1>6 DEF OutlivesNoEvent

LEMMA InvStep == DeliveryInv /\ [DeliveryNext]_deliveryVars => DeliveryInv'
<1> SUFFICES ASSUME DeliveryInv, [DeliveryNext]_deliveryVars
             PROVE  DeliveryInv'
  OBVIOUS
<1>1. ASSUME NEW c, End(c) \/ Reap(c) \/ UNCHANGED deliveryVars
      PROVE  DeliveryInv'
  BY <1>1, InvFewerChildren DEF End, Reap, deliveryVars
<1>2. QED
  BY <1>1, InvSample, InvPost, InvRestart DEF DeliveryNext, Children, Reaper

-----------------------------------------------------------------------------
(* Theorems *)

(* "The last one it got is never an outdated state": if HOLD_TICKS - 1
   intervals are longer than curl's -m 5, the webhook receiver gets the
   events of every rule in the order of emit, each at most once, whatever
   children fail, however slow they are, and across restarts. *)
THEOREM DeliveredInOrder == DeliverySpec => []ReceivedInOrder
<1>1. DeliveryInv => ReceivedInOrder
  BY DEF DeliveryInv, NewestInv, ReceivedInOrder
<1>2. QED  BY <1>1, InvInit, InvStep, PTL DEF DeliverySpec

-----------------------------------------------------------------------------
(* The hottest sensor: SensorAlerts *)

(* A set of numbers that has no greatest has a smallest subset like it,
   which is none once one of its elements is put aside. *)
LEMMA FiniteMax ==
    ASSUME NEW S, IsFiniteSet(S), S \subseteq Int, S # {}
    PROVE  \E m \in S : \A y \in S : m >= y
<1> DEFINE HasMax(U) == \E m \in U : \A y \in U : m >= y
           bad == { U \in FiniteSubsetsOf(S) : U # {} /\ ~HasMax(U) }
<1> SUFFICES ASSUME ~HasMax(S)
             PROVE  FALSE
  OBVIOUS
<1>1. S \in bad
  BY DEF FiniteSubsetsOf
<1>2. PICK U \in bad : \A V \in bad : <<V, U>> \notin StrictSubsetOrdering(S)
  BY <1>1, FS_StrictSubsetOrderingWellFounded, WFMin
<1>3. U \subseteq Int /\ IsFiniteSet(U) /\ U # {} /\ U \subseteq S /\ ~HasMax(U)
  BY DEF FiniteSubsetsOf
<1>4. PICK x \in U : TRUE
  BY <1>3
<1>5. CASE U \ {x} = {}
  BY <1>3, <1>4, <1>5
<1>6. CASE U \ {x} # {}
  <2>1. U \ {x} \in FiniteSubsetsOf(S) /\ <<U \ {x}, U>> \in StrictSubsetOrdering(S)
    BY <1>3, <1>4, FS_RemoveElement DEF FiniteSubsetsOf, StrictSubsetOrdering
  <2>2. HasMax(U \ {x})
    BY <1>2, <1>6, <2>1
  <2>3. PICK m \in U \ {x} : \A y \in U \ {x} : m >= y
    BY <2>2
  <2>4. m \in Int /\ x \in Int /\ \A y \in U : y = x \/ m >= y
    BY <1>3, <1>4, <2>3
  <2>5. HasMax(U)
    <3>1. CASE m >= x
      BY <2>3, <2>4, <3>1
    <3>2. CASE x > m
      BY <1>3, <2>4, <3>2
    <3>3. QED  BY <2>4, <3>1, <3>2
  <2>6. QED  BY <1>3, <2>5
<1>7. QED  BY <1>5, <1>6

LEMMA MaxIsGreatest ==
    ASSUME NEW S, IsFiniteSet(S), S \subseteq Int, S # {}
    PROVE  Max(S) \in S /\ \A y \in S : Max(S) >= y
BY FiniteMax DEF Max

LEMMA MaxOrZeroBounds ==
    ASSUME NEW S, IsFiniteSet(S), S \subseteq Int
    PROVE  MaxOrZero(S) \in Int /\ \A y \in S : MaxOrZero(S) >= y
<1>1. IsFiniteSet(S \cup {0}) /\ S \cup {0} \subseteq Int /\ S \cup {0} # {}
  BY FS_AddElement
<1>2. QED  BY <1>1, MaxIsGreatest DEF MaxOrZero

LEMMA RoundedGrows ==
    ASSUME NEW x \in Int, NEW y \in Int, x <= y
    PROVE  Rounded(x) \in Int /\ Rounded(x) <= Rounded(y)
BY DEF Rounded

(* Whatever is left out of a snapshot, a sensor as hot as any is kept. *)
LEMMA HottestKept ==
    ASSUME NEW readings, IsFiniteSet(readings), \A t \in readings : t.temp_c \in Int,
           NEW temps \in Kept(readings), NEW t \in readings, t.temp_c > 0
    PROVE  /\ IsFiniteSet(temps) /\ temps \subseteq readings
           /\ \E k \in temps : k.temp_c >= t.temp_c
<1> DEFINE live == { u \in readings : u.temp_c > 0 }
<1>1. /\ temps \subseteq live /\ live \subseteq readings /\ t \in live
      /\ Cardinality(temps) = Min({MAX_TEMPS, Cardinality(live)})
      /\ \A u \in temps, v \in live \ temps : u.temp_c >= v.temp_c
  BY DEF Kept
<1> HIDE DEF live
<1>2. IsFiniteSet(live) /\ IsFiniteSet(temps)
  BY <1>1, FS_Subset
<1>3. Cardinality(live) \in Nat \ {0}
  BY <1>1, <1>2, FS_EmptySet, FS_CardinalityType
<1>4. Min({MAX_TEMPS, Cardinality(live)}) # 0
  <2>1. Min({MAX_TEMPS, Cardinality(live)}) \in {MAX_TEMPS, Cardinality(live)}
    BY <1>3, TempsAssumption DEF Min
  <2>2. QED  BY <1>3, <2>1, TempsAssumption
<1>5. temps # {}
  BY <1>1, <1>4, FS_EmptySet
<1>6. \E k \in temps : k.temp_c >= t.temp_c
  <2>1. CASE t \in temps
    BY <2>1
  <2>2. CASE t \notin temps
    BY <1>1, <1>5, <2>2
  <2>3. QED  BY <2>1, <2>2
<1>7. QED  BY <1>1, <1>2, <1>6

(* A rule without a target sees what any of the host's sensors exceeds. *)
LEMMA HottestExceeds ==
    ASSUME NEW h \in HostReadings, NEW fans \in BOOLEAN, NEW temps \in Kept(h.temps),
           NEW r \in TempRules, AlertSpec[r].target = None, InScopeOver(r, h.temps)
    PROVE  Exceeded(r, [h.rest EXCEPT !.sensors = ReadSensors(temps, fans)])
<1> DEFINE snap == [h.rest EXCEPT !.sensors = ReadSensors(temps, fans)]
           shownTemps == { k.temp_c : k \in temps }
<1>1. PICK t \in h.temps : t.temp_c > 0 /\ Rounded(t.temp_c) > AlertSpec[r].threshold
  BY DEF InScopeOver
<1>2. /\ IsFiniteSet(h.temps) /\ \A u \in h.temps : u.temp_c \in Int
      /\ None # [temps |-> temps] /\ snap.sensors = ReadSensors(temps, fans)
  BY HostAssumption DEF Kept
<1>3. /\ IsFiniteSet(temps) /\ temps \subseteq h.temps
      /\ \E k \in temps : k.temp_c >= t.temp_c
  BY <1>1, <1>2, HottestKept
<1>4. snap.sensors = [temps |-> temps] /\ snap.sensors # None
  BY <1>2, <1>3 DEF ReadSensors
<1> HIDE DEF snap
<1>5. { x \in snap.sensors.temps : InScope(AlertSpec[r], x.label) } = temps
  BY <1>4 DEF InScope
<1>6. Measure(AlertSpec[r], snap) = MaxOrZero(shownTemps)
  <2>1. AlertSpec[r].metric = "temp"
    BY DEF TempRules
  <2>2. Measure(AlertSpec[r], snap) =
           MaxOrZero({ u.temp_c : u \in { x \in snap.sensors.temps : InScope(AlertSpec[r], x.label) } })
    BY <1>4, <2>1 DEF Measure
  <2>3. QED  BY <1>5, <2>2
<1>7. IsFiniteSet(shownTemps)
  <2> DEFINE f == [k \in temps |-> k.temp_c]
  <2>1. f \in Surjection(temps, shownTemps)
    <3>1. f \in [temps -> shownTemps] /\ \A x \in shownTemps : \E k \in temps : f[k] = x
      OBVIOUS
    <3>2. QED  BY <3>1 DEF Surjection
  <2>2. QED  BY <1>3, <2>1, FS_Surjection
<1>8. shownTemps \subseteq Int
  <2>1. \A k \in temps : k.temp_c \in Int
    BY <1>2, <1>3
  <2>2. QED  BY <2>1
<1>9. PICK x \in shownTemps : x >= t.temp_c
  BY <1>3
<1> HIDE DEF shownTemps
<1>10. /\ MaxOrZero(shownTemps) \in Int /\ MaxOrZero(shownTemps) >= x /\ x \in Int
  BY <1>7, <1>8, MaxOrZeroBounds
<1>11. t.temp_c <= MaxOrZero(shownTemps) /\ t.temp_c \in Int
  BY <1>2, <1>9, <1>10
<1>12. Rounded(t.temp_c) <= Rounded(MaxOrZero(shownTemps)) /\ Rounded(t.temp_c) \in Int
       /\ Rounded(MaxOrZero(shownTemps)) \in Int
  BY <1>10, <1>11, RoundedGrows
<1>13. Rounded(MaxOrZero(shownTemps)) > AlertSpec[r].threshold
  BY <1>1, <1>12, TempsAssumption
<1>14. QED  BY <1>6, <1>13 DEF Exceeded, Value, snap

-----------------------------------------------------------------------------

(* As long as a rule without a target is not on, its counter keeps up with
   the hot ticks. *)
SeenInv ==
    /\ hot \in [TempRules -> 0 .. HOLD_TICKS]
    /\ \A r \in TempRules :
          AlertSpec[r].target = None /\ ~Firing(r) => hot[r] <= rule[r].over /\ hot[r] < HOLD_TICKS

SensorInv == IInv /\ SeenInv

LEMMA StreakBounds ==
    ASSUME NEW n \in 0 .. HOLD_TICKS
    PROVE  Streak(n) \in 0 .. HOLD_TICKS /\ Streak(n) <= n + 1
<1>1. Streak(n) \in {n + 1, HOLD_TICKS} /\ Streak(n) <= n + 1
  BY HoldAssumption DEF Streak, Min
<1>2. Streak(n) <= HOLD_TICKS
  BY HoldAssumption DEF Streak, Min
<1>3. QED  BY <1>1, <1>2, HoldAssumption

LEMMA SeenTick ==
    ASSUME SensorInv, NEW h \in HostReadings, NEW fans \in BOOLEAN, NEW ts \in Timestamps,
           Tick(h.temps, h.rest, fans, ts)
    PROVE  SensorInv'
<1> DEFINE snapOf(temps) == [h.rest EXCEPT !.sensors = ReadSensors(temps, fans)]
<1>1. PICK temps \in Kept(h.temps) : Eval(snapOf(temps), ts)
  BY DEF Tick
<1> DEFINE snap == snapOf(temps)
<1>2. IInv'
  BY <1>1, TypeOKEval, CountersEval DEF SensorInv, IInv
<1>3. /\ hot' = [r \in TempRules |-> IF InScopeOver(r, h.temps) THEN Streak(hot[r]) ELSE 0]
      /\ hot \in [TempRules -> 0 .. HOLD_TICKS]
  BY DEF Tick, SensorInv, SeenInv
<1>4. hot' \in [TempRules -> 0 .. HOLD_TICKS]
  BY <1>3, StreakBounds, HoldAssumption
<1>5. ASSUME NEW r \in TempRules, AlertSpec[r].target = None, ~Firing(r)'
      PROVE  hot'[r] <= rule'[r].over /\ hot'[r] < HOLD_TICKS
  <2>1. /\ rule'[r].over \in Nat /\ rule[r].over \in 0 .. CounterMod - 1
        /\ rule'[r].over = NextOver(r, snap)
        /\ r \in Rules /\ hot[r] \in 0 .. HOLD_TICKS
    <3>1. r \in Rules /\ hot[r] \in 0 .. HOLD_TICKS
      BY <1>3 DEF TempRules
    <3>2. rule[r] \in RuleState /\ rule'[r] \in RuleState
      BY <1>2, <3>1 DEF SensorInv, IInv, TypeOK
    <3>3. rule'[r].over \in Nat /\ rule[r].over \in 0 .. CounterMod - 1
      BY <3>2, CounterAssumption DEF RuleState
    <3>4. rule'[r].over = NextOver(r, snap)
      BY <1>1, <3>1 DEF Eval
    <3>5. QED  BY <3>1, <3>3, <3>4
  <2>2. CASE ~InScopeOver(r, h.temps)
    BY <1>3, <2>1, <2>2, HoldAssumption
  <2>3. CASE InScopeOver(r, h.temps)
    <3>1. Exceeded(r, snap)
      BY <1>5, <2>3, HottestExceeds
    <3>2. ~Firing(r) /\ ~Fires(r, snap)
      <4>1. /\ Fires(r, snap) <=> ~Firing(r) /\ Firing(r)'
            /\ Resolves(r, snap) <=> Firing(r) /\ ~Firing(r)'
            /\ Resolves(r, snap) => ~Exceeded(r, snap)
        BY <1>1, <2>1, EvalTransitions DEF SensorInv, IInv
      <4>2. QED  BY <1>5, <3>1, <4>1
    <3>3. hot[r] <= rule[r].over /\ rule[r].over < HOLD_TICKS
      BY <1>5, <2>1, <3>2 DEF SensorInv, SeenInv, IInv, CountersMatchWindow, EndsInRun
    <3>4. NextOver(r, snap) = rule[r].over + 1
      BY <2>1, <3>1, <3>3, IncrementType DEF NextOver
    <3>5. NextOver(r, snap) < HOLD_TICKS
      BY <2>1, <3>2, HoldAssumption DEF Fires, Firing
    <3>6. hot'[r] = Streak(hot[r]) /\ Streak(hot[r]) <= hot[r] + 1 /\ Streak(hot[r]) \in Int
      BY <1>3, <2>1, <2>3, StreakBounds
    <3>7. QED  BY <2>1, <3>3, <3>4, <3>5, <3>6, HoldAssumption
  <2>4. QED  BY <2>2, <2>3
<1>6. QED  BY <1>2, <1>4, <1>5 DEF SensorInv, SeenInv

(* Leaving all but MAX_TEMPS sensors out of the snapshot (sensors::read)
   never hides the hottest: for any number of sensors and rules, a rule
   without a target is on once any sensor has been over its threshold for
   HOLD_TICKS ticks. *)
THEOREM HottestSeen == SensorSpec => []HottestIsSeen
<1>1. SensorInit => SensorInv
  BY TypeOKInit, CountersInit, HoldAssumption DEF SensorInit, SensorInv, IInv, SeenInv, Init, TempRules
<1>2. SensorInv /\ [SensorNext]_sensorVars => SensorInv'
  <2>1. SensorInv /\ SensorNext => SensorInv'
    BY SeenTick DEF SensorNext
  <2>2. SensorInv /\ UNCHANGED sensorVars => SensorInv'
    BY IInvStutter DEF SensorInv, SeenInv, sensorVars, Firing, vars
  <2>3. QED  BY <2>1, <2>2
<1>3. SensorInv => HottestIsSeen
  BY HoldAssumption DEF SensorInv, SeenInv, HottestIsSeen
<1>4. QED  BY <1>1, <1>2, <1>3, PTL DEF SensorSpec
===============================================================================
