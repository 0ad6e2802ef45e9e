---------------------------- MODULE ContainerProofs ----------------------------
(***************************************************************************)
(* Proofs about ContainerCollector for any containers, any limit, any      *)
(* number of sockets and any CPU time; and about EngineRequest for any     *)
(* payload, chunks and sizes, and any place where the answer is cut off.   *)
(***************************************************************************)
EXTENDS ContainerCollector, EngineRequest, ListLemmas, FiniteSetTheorems

HostInv ==
    /\ host \in 0 .. MaxCpu
    /\ running \subseteq Containers /\ IsFiniteSet(running)
    /\ total \in [Containers -> Nat] /\ used \in [Containers -> Nat]
    /\ \A c \in Containers : total[c] <= used[c] /\ used[c] <= host

(* A reading of c that was made some time ago.  A container that runs
   answers with both counters, and its own restarts at zero; one that has
   stopped answers with zeros, and what its counter holds once it runs again
   it has used since. *)
Behind(x, c) ==
    /\ x \in Reading
    /\ x.host <= host /\ x.used <= used[c] /\ used[c] - x.used <= host - x.host
    /\ \/ x.sys = x.host /\ total[c] - x.cpu <= used[c] - x.used
       \/ x.sys = 0 /\ x.cpu = 0 /\ (c \in running => total[c] <= used[c] - x.used)

ReadingsInv(f) == DOMAIN f \subseteq Containers /\ \A c \in DOMAIN f : Behind(f[c], c)

(* A set that is bounded by the limit of a collection. *)
Limited(S) == IsFiniteSet(S) /\ Cardinality(S) <= MAX_CONTAINERS

(* What is shown and what is still to be asked is what was asked. *)
CollectionInv ==
    /\ pc \in {"idle", "list", "ask"}
    /\ result \in {"none", "docker", "denied", "absent", "error"}
    /\ todo \subseteq Containers /\ DOMAIN shares \subseteq Containers
    /\ Limited(DOMAIN shares \cup todo) /\ Limited(DOMAIN prev_cpu)
    /\ pc = "list" => DOMAIN shares = {}
    /\ pc = "ask" => DOMAIN next_cpu \subseteq DOMAIN shares

Earned(s) ==
    /\ 0 <= s.num /\ s.num <= s.den
    /\ s.num * s.over <= s.of * s.den

SharesInv == \A c \in DOMAIN shares : Earned(shares[c])

IInv ==
    /\ HostInv
    /\ ReadingsInv(prev_cpu) /\ ReadingsInv(next_cpu)
    /\ CollectionInv
    /\ SharesInv

-----------------------------------------------------------------------------
(* Sets, readings and shares *)

LEMMA LimitedPart ==
    ASSUME NEW S, Limited(S), NEW T, T \subseteq S
    PROVE  Limited(T)
<1>1. IsFiniteSet(T) /\ Cardinality(T) <= Cardinality(S)
  BY FS_Subset DEF Limited
<1>2. Cardinality(S) \in Nat /\ Cardinality(T) \in Nat
  BY <1>1, FS_CardinalityType DEF Limited
<1>3. QED  BY <1>1, <1>2, CollectorAssumption DEF Limited

LEMMA LimitedEmpty == Limited({})
BY FS_EmptySet, CollectorAssumption DEF Limited

LEMMA FreshReading ==
    ASSUME HostInv, NEW c \in Containers
    PROVE  Behind(Read(c), c)
BY CollectorAssumption DEF HostInv, Behind, Read, Reading

LEMMA WithReading ==
    ASSUME NEW f, ReadingsInv(f), NEW c \in Containers, NEW x, Behind(x, c)
    PROVE  ReadingsInv(With(f, c, x)) /\ DOMAIN With(f, c, x) = DOMAIN f \cup {c}
BY DEF ReadingsInv, With

(* The bound on a product: what was used in the window, at most, is
   divided by the window or by more. *)
LEMMA Products ==
    ASSUME NEW a \in Nat, NEW b \in Nat, NEW m \in Nat, NEW n \in Nat, a <= b, m <= n
    PROVE  a * m <= b * n
<1>1. a * m <= b * m
  OBVIOUS
<1>2. b * m <= b * n
  OBVIOUS
<1>3. a * m \in Nat /\ b * m \in Nat /\ b * n \in Nat
  OBVIOUS
<1>4. QED  BY <1>1, <1>2, <1>3

LEMMA ShareEarned ==
    ASSUME HostInv, NEW c \in Containers, NEW x, Behind(x, c)
    PROVE  Earned(Share(x, Read(c)))
<1> DEFINE cur == Read(c)
           of == used[c] - x.used
           over == host - x.host
           sys == Delta(cur.sys, x.sys)
           num == Delta(cur.cpu, x.cpu)
<1>1. CASE sys = 0
  BY <1>1 DEF Share, NoShare, Earned
<1>2. CASE sys # 0
  <2>1. /\ x.cpu \in Nat /\ x.sys \in Nat /\ x.host \in Nat /\ x.used \in Nat
        /\ host \in Nat /\ used[c] \in Nat /\ total[c] \in Nat
    BY DEF HostInv, Behind, Reading
  <2>2. c \in running /\ cur = [cpu |-> total[c], sys |-> host, used |-> used[c], host |-> host]
    BY <1>2, <2>1 DEF Read, Delta
  <2>3. /\ sys \in Nat /\ num \in Nat /\ of \in Nat /\ over \in Nat
        /\ num <= of /\ over <= sys /\ of <= over
    BY <1>2, <2>1, <2>2 DEF Behind, Delta
  <2>4. Share(x, cur) = [num |-> num, den |-> sys, of |-> of, over |-> over]
    BY <1>2, <2>2 DEF Share
  <2> HIDE DEF cur, of, over, sys, num
  <2>5. num * over <= of * sys
    BY <2>3, Products
  <2>6. 0 <= num /\ num <= sys
    BY <2>3
  <2>7. QED  BY <2>4, <2>5, <2>6 DEF Earned, cur
<1>3. QED  BY <1>1, <1>2

LEMMA NoShareEarned == Earned(NoShare)
BY DEF Earned, NoShare

-----------------------------------------------------------------------------
(* One action after the other *)

LEMMA InvInit == Init => IInv
<1> SUFFICES ASSUME Init
             PROVE  IInv
  OBVIOUS
<1>1. HostInv
  BY CollectorAssumption, FS_EmptySet DEF Init, HostInv
<1>2. ReadingsInv(prev_cpu) /\ ReadingsInv(next_cpu) /\ SharesInv
  BY DEF Init, ReadingsInv, NoReadings, SharesInv
<1>3. DOMAIN shares \cup todo = {} /\ DOMAIN prev_cpu = {}
  BY DEF Init, NoReadings
<1>4. CollectionInv
  BY <1>3, LimitedEmpty DEF Init, CollectionInv
<1>5. QED  BY <1>1, <1>2, <1>4 DEF IInv

(* The steps of the host keep every reading behind it. *)
LEMMA InvHost ==
    ASSUME IInv, HostInv', UNCHANGED collectorVars,
           \A c \in Containers, x \in Reading : Behind(x, c) => Behind(x, c)'
    PROVE  IInv'
<1>1. ReadingsInv(prev_cpu)' /\ ReadingsInv(next_cpu)'
  BY DEF IInv, ReadingsInv, Behind, collectorVars
<1>2. CollectionInv' /\ SharesInv'
  BY DEF IInv, CollectionInv, SharesInv, collectorVars
<1>3. QED  BY <1>1, <1>2 DEF IInv

LEMMA InvWork ==
    ASSUME IInv, NEW busy \in SUBSET running, Work(busy)
    PROVE  IInv'
<1>1. HostInv'
  BY CollectorAssumption DEF IInv, HostInv, Work
<1>2. \A c \in Containers, x \in Reading : Behind(x, c) => Behind(x, c)'
  BY DEF IInv, HostInv, Work, Behind, Reading
<1>3. QED  BY <1>1, <1>2, InvHost DEF Work

LEMMA InvStopStart ==
    ASSUME IInv, NEW c \in Containers, Stop(c) \/ StartContainer(c)
    PROVE  IInv'
<1>1. IsFiniteSet(running')
  BY FS_AddElement, FS_RemoveElement DEF IInv, HostInv, Stop, StartContainer
<1>2. HostInv'
  BY <1>1 DEF IInv, HostInv, Stop, StartContainer
<1>3. \A k \in Containers, x \in Reading : Behind(x, k) => Behind(x, k)'
  BY DEF IInv, HostInv, Stop, StartContainer, Behind, Reading
<1>4. QED  BY <1>2, <1>3, InvHost DEF Stop, StartContainer

(* The steps of the collector leave the host, and what is behind it. *)
LEMMA HostStays ==
    ASSUME HostInv, UNCHANGED engineVars
    PROVE  /\ HostInv'
           /\ \A f : ReadingsInv(f) => DOMAIN f \subseteq Containers /\ \A c \in DOMAIN f : Behind(f[c], c)'
BY DEF HostInv, ReadingsInv, Behind, engineVars

LEMMA InvCollect ==
    ASSUME IInv, NEW s \in Sockets, Collect(s)
    PROVE  IInv'
<1>1. HostInv' /\ ReadingsInv(prev_cpu)' /\ ReadingsInv(next_cpu)'
  BY HostStays DEF IInv, Collect, ReadingsInv
<1>2. DOMAIN shares' = {} /\ todo' = todo
  BY DEF Collect
<1>3. Limited((DOMAIN shares \cup todo)')
  BY <1>2, LimitedPart DEF IInv, CollectionInv
<1>4. CollectionInv' /\ SharesInv'
  BY <1>2, <1>3 DEF IInv, CollectionInv, SharesInv, Collect, Ends, Resolved
<1>5. QED  BY <1>1, <1>4 DEF IInv

LEMMA InvList ==
    ASSUME IInv, NEW asked \in SUBSET running, List(asked)
    PROVE  IInv'
<1>1. HostInv' /\ ReadingsInv(prev_cpu)' /\ ReadingsInv(next_cpu)'
  BY HostStays DEF IInv, List, ReadingsInv, NextCpu, NoReadings
<1>2. DOMAIN shares' = {} /\ todo' = asked /\ DOMAIN next_cpu' = {}
  BY DEF IInv, CollectionInv, List, NextCpu, NoReadings
<1>3. Limited((DOMAIN shares \cup todo)')
  BY <1>2, FS_Subset DEF IInv, HostInv, List, Limited
<1>4. CollectionInv' /\ SharesInv'
  BY <1>2, <1>3 DEF IInv, HostInv, CollectionInv, SharesInv, List
<1>5. QED  BY <1>1, <1>4 DEF IInv

(* Both ways a container can answer, or not. *)
LEMMA InvStats ==
    ASSUME IInv, NEW c \in todo, Stats(c) \/ StatsFail(c)
    PROVE  IInv'
<1>1. c \in Containers /\ pc = "ask" /\ pc' = pc /\ UNCHANGED <<engineVars, prev_cpu, result>>
  BY DEF IInv, CollectionInv, Stats, StatsFail
<1>2. HostInv' /\ ReadingsInv(prev_cpu)'
  BY <1>1, HostStays DEF IInv, ReadingsInv
<1>3. PICK s : shares' = With(shares, c, s) /\ Earned(s)
  <2>1. CASE c \in DOMAIN prev_cpu /\ Stats(c)
    <3>1. Earned(Share(prev_cpu[c], Read(c)))
      BY <1>1, <2>1, ShareEarned DEF IInv, ReadingsInv
    <3>2. QED  BY <2>1, <3>1 DEF Stats
  <2>2. CASE ~(c \in DOMAIN prev_cpu /\ Stats(c))
    BY <2>2, NoShareEarned DEF Stats, StatsFail
  <2>3. QED  BY <2>1, <2>2
<1>4. /\ DOMAIN shares' = DOMAIN shares \cup {c} /\ SharesInv'
  BY <1>3 DEF With, SharesInv, IInv
<1>5. /\ ReadingsInv(next_cpu') /\ DOMAIN next_cpu' \subseteq DOMAIN next_cpu \cup {c}
  <2>1. Behind(Read(c), c)
    BY <1>1, FreshReading DEF IInv
  <2>2. /\ ReadingsInv(With(next_cpu, c, Read(c)))
        /\ DOMAIN With(next_cpu, c, Read(c)) = DOMAIN next_cpu \cup {c}
    BY <1>1, <2>1, WithReading DEF IInv
  <2>3. next_cpu' = With(next_cpu, c, Read(c)) \/ next_cpu' = next_cpu
    BY DEF Stats, StatsFail
  <2>4. QED  BY <2>2, <2>3 DEF IInv
<1>6. ReadingsInv(next_cpu)'
  BY <1>1, <1>2, <1>5 DEF ReadingsInv, Behind, engineVars
<1>7. (DOMAIN shares \cup todo)' = DOMAIN shares \cup todo
  BY <1>4 DEF Stats, StatsFail
<1>8. CollectionInv'
  BY <1>1, <1>4, <1>5, <1>7 DEF IInv, CollectionInv, Stats, StatsFail
<1>9. QED  BY <1>2, <1>4, <1>6, <1>8 DEF IInv

LEMMA InvEnds ==
    ASSUME IInv, ListFails \/ Return
    PROVE  IInv'
<1>1. HostInv' /\ ReadingsInv(prev_cpu)' /\ ReadingsInv(next_cpu)'
  BY HostStays DEF IInv, ListFails, Return, ReadingsInv
<1>2. Limited(DOMAIN prev_cpu')
  <2>1. CASE Return
    BY <2>1, LimitedPart DEF IInv, CollectionInv, Return
  <2>2. CASE ListFails
    BY <2>2 DEF IInv, CollectionInv, ListFails
  <2>3. QED  BY <2>1, <2>2
<1>3. CollectionInv' /\ SharesInv'
  BY <1>2 DEF IInv, CollectionInv, SharesInv, ListFails, Return, Ends
<1>4. QED  BY <1>1, <1>3 DEF IInv

LEMMA InvStep == IInv /\ [Next]_vars => IInv'
<1> SUFFICES ASSUME IInv, [Next]_vars
             PROVE  IInv'
  OBVIOUS
<1>1. CASE UNCHANGED vars
  <2>1. HostInv' /\ UNCHANGED collectorVars
    BY <1>1 DEF vars, engineVars, IInv, HostInv
  <2>2. \A c \in Containers, x \in Reading : Behind(x, c) => Behind(x, c)'
    BY <1>1 DEF vars, engineVars, Behind
  <2>3. QED  BY <2>1, <2>2, InvHost
<1>2. running \subseteq Containers
  BY DEF IInv, HostInv
<1>3. CASE Next
  BY <1>2, <1>3, InvWork, InvStopStart, InvCollect, InvList, InvStats, InvEnds DEF Next
<1>4. QED  BY <1>1, <1>3

LEMMA InvAlways == Spec => []IInv
<1>1. QED  BY InvInit, InvStep, PTL DEF Spec

-----------------------------------------------------------------------------
(* Theorems *)

(* "Rebuilt from current keys each tick so container churn can't grow these
   maps": of any number of containers, what is shown and what is kept from a
   collection to the next never exceeds MAX_CONTAINERS. *)
THEOREM TypeCorrect == Spec => []TypeOK
<1>1. ASSUME IInv
      PROVE  TypeOK
  <2>1. Limited(DOMAIN shares)
    BY <1>1, LimitedPart DEF IInv, CollectionInv
  <2>2. \A c \in DOMAIN prev_cpu : prev_cpu[c] \in Reading
    BY <1>1 DEF IInv, ReadingsInv, Behind
  <2>3. QED  BY <1>1, <2>1, <2>2 DEF IInv, CollectionInv, ReadingsInv, Limited, TypeOK
<1>2. QED  BY <1>1, InvAlways, PTL

(* No container is shown with more CPU than it has used over the time since
   it was last read, or with more than the host has (parse_stats): however
   many stop, restart at zero or fail to answer between two requests. *)
THEOREM SharesAreEarned == Spec => []ShareIsEarned
<1>1. IInv => ShareIsEarned
  BY DEF IInv, SharesInv, Earned, ShareIsEarned
<1>2. QED  BY <1>1, InvAlways, PTL

-----------------------------------------------------------------------------
(* EngineRequest *)

(* What is sent: the symbols of the payload, of the sizes and of the frame. *)
Symbol ==
    STRING \cup {"0", "1", "2", "3", "4", "5", "6", "7", "8", "9", "a", "b", "c", "d", "e", "f"}
           \cup {"head", "CR", "LF", ";", "x"}

(* The sizes of chunks *)

LEMMA QuotientsAre ==
    ASSUME NEW size \in Nat, NEW k \in Nat
    PROVE  /\ Quotients(size, k) \in [0 .. k -> Nat]
           /\ Quotients(size, k)[0] = size
           /\ \A i \in 1 .. k : Quotients(size, k)[i] = Quotients(size, k)[i - 1] \div Radix
<1> DEFINE q == Quotients(size, k)
           g == [x \in Nat \X Nat |-> x[1] \div Radix]
<1>1. \A x \in Nat : x \div Radix \in Nat
  BY EngineAssumption
<1>2. \A i \in 1 .. k : \A x \in Nat : g[<<x, i>>] = x \div Radix
  OBVIOUS
<1> HIDE DEF g
<1>a. \A i \in 1 .. k : \A x \in Nat : g[<<x, i>>] \in Nat
  BY <1>1, <1>2
<1>3. PICK f \in [0 .. k -> Nat] : Recurs(f, k, size, g)
  BY <1>a, RecursExists, Zenon
<1>4. f = [i \in 0 .. k |-> IF i = 0 THEN size ELSE f[i - 1] \div Radix]
  <2>1. f = [i \in 0 .. k |-> IF i = 0 THEN size ELSE g[<<f[i - 1], i>>]]
    BY <1>3 DEF Recurs
  <2>2. ASSUME NEW i \in 0 .. k, i # 0
        PROVE  g[<<f[i - 1], i>>] = f[i - 1] \div Radix
    BY <1>2, <2>2
  <2>3. \A i \in 0 .. k : (IF i = 0 THEN size ELSE g[<<f[i - 1], i>>])
                             = (IF i = 0 THEN size ELSE f[i - 1] \div Radix)
    BY <2>2, Zenon
  <2>4. QED  BY <2>1, <2>3, Zenon
<1>5. q = [i \in 0 .. k |-> IF i = 0 THEN size ELSE q[i - 1] \div Radix]
  BY <1>4, Zenon DEF Quotients
<1> HIDE DEF q
<1>6. q[0] = size /\ \A i \in 1 .. k : q[i] = q[i - 1] \div Radix
  <2>1. 0 \in 0 .. k /\ \A i \in 1 .. k : i \in 0 .. k /\ i # 0
    OBVIOUS
  <2>2. QED  BY <1>5, <2>1, Zenon
<1>7. q \in [0 .. k -> Nat]
  <2> DEFINE S == { i \in 0 .. k : q[i] \in Nat }
  <2>1. 0 \in S
    BY <1>6
  <2>2. ASSUME NEW i \in 1 .. k, i - 1 \in S
        PROVE  i \in S
    <3>1. q[i - 1] \in Nat /\ i \in 0 .. k
      BY <2>2
    <3>2. q[i] \in Nat
      BY <1>1, <1>6, <3>1
    <3>3. QED  BY <3>1, <3>2
  <2> HIDE DEF S
  <2>3. 0 .. k \subseteq S
    BY <2>1, <2>2, RangeInduction
  <2>4. \A i \in 0 .. k : q[i] \in Nat
    BY <2>3 DEF S
  <2>5. q = [i \in 0 .. k |-> q[i]]
    BY <1>5, Zenon
  <2>6. QED  BY <2>4, <2>5
<1>8. QED  BY <1>6, <1>7 DEF q

LEMMA DigitsDiffer ==
    /\ \A v \in 1 .. 16 : Digit[v] \in Symbol /\ Digit[v] # "CR" /\ Digit[v] # ";"
    /\ \A v, w \in 1 .. 16 : Digit[v] = Digit[w] => v = w
<1> DEFINE OneOf(v) ==
             \/ v = 1 \/ v = 2 \/ v = 3 \/ v = 4 \/ v = 5 \/ v = 6 \/ v = 7 \/ v = 8 \/ v = 9
             \/ v = 10 \/ v = 11 \/ v = 12 \/ v = 13 \/ v = 14 \/ v = 15 \/ v = 16
<1>1. \A v \in 1 .. 16 : OneOf(v)
  OBVIOUS
<1>2. ASSUME NEW v \in 1 .. 16
      PROVE  Digit[v] \in Symbol /\ Digit[v] # "CR" /\ Digit[v] # ";"
  <2>1. OneOf(v)
    BY <1>1
  <2>2. Digit[v] \in {"0", "1", "2", "3", "4", "5", "6", "7", "8", "9", "a", "b", "c", "d", "e", "f"}
    BY <2>1, SMTT(60) DEF Digit
  <2>3. Digit[v] \in Symbol
    BY <2>2 DEF Symbol
  <2>4. Digit[v] # "CR"
    BY <2>2
  <2>5. Digit[v] # ";"
    BY <2>2
  <2>6. QED  BY <2>3, <2>4, <2>5
<1>3. ASSUME NEW v \in 1 .. 16, NEW w \in 1 .. 16, Digit[v] = Digit[w], v < w
      PROVE  FALSE
  <2>1. OneOf(v) /\ OneOf(w)
    BY <1>1
  <2>2. QED  BY <1>3, <2>1, SMTT(60) DEF Digit
<1>4. ASSUME NEW v \in 1 .. 16, NEW w \in 1 .. 16, Digit[v] = Digit[w]
      PROVE  v = w
  <2>1. v < w \/ w < v \/ v = w
    OBVIOUS
  <2>2. QED  BY <1>3, <1>4, <2>1
<1>5. QED  BY <1>2, <1>4

LEMMA ValueOfDigit ==
    ASSUME NEW v \in 0 .. Radix - 1
    PROVE  Value(Digit[v + 1]) = v
<1>1. Radix \in 2 .. 16 /\ v + 1 \in 1 .. 16
  BY EngineAssumption
<1>2. ASSUME NEW w \in 0 .. Radix - 1, Digit[w + 1] = Digit[v + 1]
      PROVE  w = v
  <2>1. w + 1 \in 1 .. 16
    BY <1>1
  <2>2. w + 1 = v + 1
    BY <1>1, <1>2, <2>1, DigitsDiffer
  <2>3. QED  BY <2>2
<1>3. QED  BY <1>2 DEF Value

LEMMA Division ==
    ASSUME NEW x \in Nat
    PROVE  /\ (x \div Radix) * Radix + (x % Radix) = x
           /\ (x % Radix) \in 0 .. Radix - 1
<1>1. Radix \in {2, 3, 4, 5, 6, 7, 8, 9, 10, 11, 12, 13, 14, 15, 16}
  BY EngineAssumption
<1>2. QED  BY <1>1, SMTT(60)

(* What is printed by dividing is read by multiplying. *)
LEMMA NumberOfNumeral ==
    ASSUME NEW size \in Nat, NEW k \in Nat, Quotients(size, k)[k] = 0
    PROVE  /\ Numeral(size, k) \in Seq(Symbol) /\ Len(Numeral(size, k)) = k
           /\ \A i \in 1 .. k : \E v \in 1 .. Radix : Numeral(size, k)[i] = Digit[v]
           /\ NumberOf(Numeral(size, k)) = size
<1> DEFINE q == Quotients(size, k)
           digits == Numeral(size, k)
<1>1. /\ q \in [0 .. k -> Nat] /\ q[0] = size /\ q[k] = 0
      /\ \A i \in 1 .. k : q[i] = q[i - 1] \div Radix
  BY QuotientsAre
<1> HIDE DEF q
<1>2. \A i \in 1 .. k : k - i \in 0 .. k /\ q[k - i] \in Nat
  BY <1>1
<1>3. \A i \in 1 .. k : digits[i] = Digit[1 + (q[k - i] % Radix)]
  BY DEF q, Numeral
<1>4. \A i \in 1 .. k :
         1 + (q[k - i] % Radix) \in 1 .. Radix /\ 1 + (q[k - i] % Radix) \in 1 .. 16
  <2> SUFFICES ASSUME NEW i \in 1 .. k
               PROVE  1 + (q[k - i] % Radix) \in 1 .. Radix /\ 1 + (q[k - i] % Radix) \in 1 .. 16
    OBVIOUS
  <2> DEFINE v == q[k - i] % Radix
  <2>1. v \in 0 .. Radix - 1
    BY <1>2, Division
  <2> HIDE DEF v
  <2>2. 1 + v \in 1 .. Radix /\ 1 + v \in 1 .. 16
    BY <2>1, EngineAssumption
  <2>3. QED  BY <2>2 DEF v
<1>5. \A i \in 1 .. k : digits[i] \in Symbol /\ \E v \in 1 .. Radix : digits[i] = Digit[v]
  BY <1>3, <1>4, DigitsDiffer
<1>6. digits \in Seq(Symbol) /\ Len(digits) = k
  <2>1. digits \in [1 .. k -> Symbol]
    BY <1>5 DEF Numeral
  <2> HIDE DEF digits
  <2>2. QED  BY <2>1
<1> HIDE DEF digits
<1>7. \A i \in 1 .. k : Value(digits[i]) = q[k - i] % Radix
  <2> SUFFICES ASSUME NEW i \in 1 .. k
               PROVE  Value(digits[i]) = q[k - i] % Radix
    OBVIOUS
  <2>1. q[k - i] % Radix \in 0 .. Radix - 1
    BY <1>2, Division
  <2> DEFINE v == q[k - i] % Radix
  <2>2. digits[i] = Digit[v + 1]
    <3>1. v \in Int /\ 1 + v = v + 1
      BY <2>1, EngineAssumption
    <3>2. QED  BY <1>3, <3>1
  <2> HIDE DEF v
  <2>3. QED  BY <2>1, <2>2, ValueOfDigit DEF v
<1> DEFINE g == [x \in Int \X (1 .. k) |-> x[1] * Radix + Value(digits[x[2]])]
           n == CHOOSE n : n = [i \in 0 .. Len(digits) |-> IF i = 0 THEN 0 ELSE n[i - 1] * Radix + Value(digits[i])]
<1>8. n = [i \in 0 .. k |-> IF i = 0 THEN 0 ELSE n[i - 1] * Radix + Value(digits[i])]
  <2>1. \A i \in 1 .. k : \A x \in Int : g[<<x, i>>] = x * Radix + Value(digits[i])
    OBVIOUS
  <2>2. \A i \in 1 .. k : \A x \in Int : x * Radix + Value(digits[i]) \in Int
    <3>1. \A i \in 1 .. k : Value(digits[i]) \in Int
      <4> SUFFICES ASSUME NEW i \in 1 .. k
                   PROVE  Value(digits[i]) \in Int
        OBVIOUS
      <4>1. q[k - i] % Radix \in 0 .. Radix - 1
        BY <1>2, Division
      <4>2. QED  BY <1>7, <4>1, EngineAssumption
    <3>2. QED  BY <3>1, EngineAssumption
  <2>a. \A i \in 1 .. k : \A x \in Int : g[<<x, i>>] \in Int
    BY <2>1, <2>2
  <2> HIDE DEF g
  <2>b. 0 \in Int
    OBVIOUS
  <2>3. PICK f \in [0 .. k -> Int] : Recurs(f, k, 0, g)
    BY <2>a, <2>b, RecursExists, Zenon
  <2>4. f = [i \in 0 .. k |-> IF i = 0 THEN 0 ELSE f[i - 1] * Radix + Value(digits[i])]
    <3>1. f = [i \in 0 .. k |-> IF i = 0 THEN 0 ELSE g[<<f[i - 1], i>>]]
      BY <2>3 DEF Recurs
    <3>2. ASSUME NEW i \in 0 .. k, i # 0
          PROVE  g[<<f[i - 1], i>>] = f[i - 1] * Radix + Value(digits[i])
      <4>1. i \in 1 .. k /\ f[i - 1] \in Int
        BY <3>2
      <4>2. QED  BY <2>1, <4>1
    <3>3. \A i \in 0 .. k : (IF i = 0 THEN 0 ELSE g[<<f[i - 1], i>>])
                               = (IF i = 0 THEN 0 ELSE f[i - 1] * Radix + Value(digits[i]))
      BY <3>2, Zenon
    <3>4. QED  BY <3>1, <3>3, Zenon
  <2>5. Len(digits) = k
    BY <1>6
  <2> DEFINE Eq(h, m) == h = [i \in 0 .. m |-> IF i = 0 THEN 0 ELSE h[i - 1] * Radix + Value(digits[i])]
  <2>6. Eq(f, Len(digits))
    <3>1. Eq(f, k)
      BY <2>4
    <3> HIDE DEF Eq
    <3>2. QED  BY <2>5, <3>1
  <2>c. \E h : h = [i \in 0 .. Len(digits) |-> IF i = 0 THEN 0 ELSE h[i - 1] * Radix + Value(digits[i])]
    <3>1. \E h : Eq(h, Len(digits))
      <4> HIDE DEF Eq
      <4>1. QED  BY <2>6
    <3>2. QED  BY <3>1, Zenon
  <2>7. n = [i \in 0 .. Len(digits) |-> IF i = 0 THEN 0 ELSE n[i - 1] * Radix + Value(digits[i])]
    BY <2>c, Zenon
  <2>8. QED  BY <2>5, <2>7, Zenon
<1>9. NumberOf(digits) = n[k]
  BY <1>6, Zenon DEF NumberOf
<1> HIDE DEF n
<1>10. n[0] = 0 /\ \A i \in 1 .. k : n[i] = n[i - 1] * Radix + Value(digits[i])
  <2>1. 0 \in 0 .. k /\ \A i \in 1 .. k : i \in 0 .. k /\ i # 0
    OBVIOUS
  <2>2. QED  BY <1>8, <2>1, Zenon
<1>11. n[k] = q[0]
  <2> DEFINE S == { i \in 0 .. k : n[i] = q[k - i] }
  <2>1. 0 \in S
    BY <1>1, <1>10
  <2>2. ASSUME NEW i \in 1 .. k, i - 1 \in S
        PROVE  i \in S
    <3>1. n[i - 1] = q[k - i + 1]
      BY <2>2
    <3>2. q[k - i + 1] = q[k - i] \div Radix
      <4>1. k - i + 1 \in 1 .. k /\ (k - i + 1) - 1 = k - i
        OBVIOUS
      <4>2. QED  BY <1>1, <4>1
    <3>3. n[i] = (q[k - i] \div Radix) * Radix + (q[k - i] % Radix)
      BY <1>7, <1>10, <3>1, <3>2
    <3>4. n[i] = q[k - i]
      BY <1>2, <3>3, Division
    <3>5. QED  BY <3>4
  <2> HIDE DEF S
  <2>3. 0 .. k \subseteq S
    BY <2>1, <2>2, RangeInduction
  <2>4. k \in S
    BY <2>3
  <2>5. QED  BY <2>4 DEF S
<1>12. QED  BY <1>1, <1>5, <1>6, <1>9, <1>11 DEF digits

LEMMA EndLineIs == CRLF \in Seq(Symbol) /\ Len(CRLF) = 2 /\ CRLF[1] = "CR" /\ CRLF[2] = "LF"
<1>1. "CR" \in Symbol /\ "LF" \in Symbol
  BY DEF Symbol
<1>2. QED  BY <1>1 DEF CRLF

LEMMA ExtensionIs ==
    ASSUME NEW ext \in Extensions
    PROVE  /\ ext \in Seq(Symbol)
           /\ \A i \in 1 .. Len(ext) : ext[i] # "CR"
           /\ ext # << >> => ext[1] = ";" /\ Len(ext) = 2
<1>1. ";" \in Symbol /\ "x" \in Symbol
  BY DEF Symbol
<1>2. CASE ext = << >>
  BY <1>2
<1>3. CASE ext = <<";", "x">>
  <2>1. Len(ext) = 2 /\ ext[1] = ";" /\ ext[2] = "x"
    BY <1>3
  <2>2. \A i \in 1 .. 2 : i = 1 \/ i = 2
    OBVIOUS
  <2>3. \A c, d \in Symbol : <<c, d>> \in Seq(Symbol)
    OBVIOUS
  <2>4. ext \in Seq(Symbol)
    BY <1>1, <1>3, <2>3, Zenon
  <2>5. \A i \in 1 .. 2 : ext[i] # "CR"
    BY <2>1, <2>2
  <2>6. QED  BY <2>1, <2>4, <2>5, Zenon
<1>4. QED  BY <1>2, <1>3 DEF Extensions

(* The client reads the size that the engine prints, whatever follows it. *)
LEMMA SizeIsRead ==
    ASSUME NEW size \in Nat, NEW digits \in Numerals(size), NEW ext \in Extensions
    PROVE  /\ digits \in Seq(Symbol) /\ ext \in Seq(Symbol) /\ digits \o ext \in Seq(Symbol)
           /\ \A i \in 1 .. Len(digits \o ext) : (digits \o ext)[i] # "CR"
           /\ SizeOf(digits \o ext) = size
<1>1. PICK k \in 1 .. MaxDigits :
          /\ Quotients(size, k)[k] = 0
          /\ digits = Numeral(size, k)
  BY DEF Numerals
<1>k. k \in Nat /\ k > 0
  BY EngineAssumption
<1>2. /\ digits \in Seq(Symbol) /\ Len(digits) = k
      /\ \A i \in 1 .. k : \E v \in 1 .. Radix : digits[i] = Digit[v]
      /\ NumberOf(digits) = size
  BY <1>1, <1>k, NumberOfNumeral, Zenon
<1>3. \A i \in 1 .. k : digits[i] # "CR" /\ digits[i] # ";"
  <2> SUFFICES ASSUME NEW i \in 1 .. k
               PROVE  digits[i] # "CR" /\ digits[i] # ";"
    OBVIOUS
  <2>1. PICK v \in 1 .. Radix : digits[i] = Digit[v]
    BY <1>2
  <2>2. v \in 1 .. 16
    BY EngineAssumption
  <2>3. QED  BY <2>1, <2>2, DigitsDiffer
<1> DEFINE line == digits \o ext
           semis == { i \in 1 .. Len(line) : line[i] = ";" }
           last == IF semis = {} THEN Len(line) ELSE Min(semis) - 1
<1>4. /\ ext \in Seq(Symbol)
      /\ \A i \in 1 .. Len(ext) : ext[i] # "CR"
      /\ ext # << >> => ext[1] = ";" /\ Len(ext) = 2
  BY ExtensionIs
<1>5. /\ line \in Seq(Symbol) /\ Len(line) = k + Len(ext)
      /\ \A i \in 1 .. k : line[i] = digits[i]
      /\ \A i \in k + 1 .. Len(line) : line[i] = ext[i - k]
  <2>1. /\ line \in Seq(Symbol) /\ Len(line) = Len(digits) + Len(ext)
        /\ \A i \in 1 .. Len(digits) + Len(ext) :
              line[i] = IF i <= Len(digits) THEN digits[i] ELSE ext[i - Len(digits)]
    BY <1>2, <1>4, ConcatProperties
  <2>2. Len(ext) \in Nat
    BY <1>4, LenProperties
  <2> HIDE DEF line
  <2>3. \A i \in 1 .. k : i \in 1 .. Len(digits) + Len(ext) /\ i <= Len(digits)
    BY <1>2, <2>2
  <2>4. \A i \in k + 1 .. Len(line) : i \in 1 .. Len(digits) + Len(ext) /\ ~(i <= Len(digits))
    BY <1>2, <2>1, <2>2, <1>k
  <2>5. QED  BY <1>2, <2>1, <2>3, <2>4
<1> HIDE DEF line
<1>n. Len(ext) \in Nat
  BY <1>4, LenProperties
<1>6. \A i \in 1 .. Len(line) : line[i] # "CR"
  <2> SUFFICES ASSUME NEW i \in 1 .. Len(line)
               PROVE  line[i] # "CR"
    OBVIOUS
  <2>1. i \in 1 .. k \/ (i \in k + 1 .. Len(line) /\ i - k \in 1 .. Len(ext))
    BY <1>5, <1>k, <1>n
  <2>2. QED  BY <1>3, <1>4, <1>5, <2>1
<1>7. last = k
  <2>1. CASE ext = << >>
    <3>1. Len(line) = k
      BY <2>1, <1>5, <1>k
    <3>2. semis = {}
      BY <1>3, <1>5, <3>1
    <3>3. QED  BY <3>1, <3>2
  <2>2. CASE ext # << >>
    <3> HIDE DEF last
    <3>1. k + 1 \in semis
      <4>a. Len(line) = k + 2
        BY <2>2, <1>4, <1>5
      <4>1. k + 1 \in k + 1 .. k + 2 /\ (k + 1) - k = 1 /\ k + 1 \in 1 .. k + 2
        BY <1>k
      <4>2. line[k + 1] = ";"
        BY <2>2, <1>4, <1>5, <4>1, <4>a
      <4>3. QED  BY <4>1, <4>2, <4>a
    <3>l. Len(line) \in Nat
      BY <1>5, LenProperties
    <3>a. \A i \in 1 .. Len(line) : i \in 1 .. k \/ k + 1 <= i
      BY <3>l, <1>k
    <3>b. \A i \in 1 .. k : line[i] # ";"
      BY <1>3, <1>5
    <3>2. \A i \in semis : i \in Int /\ k + 1 <= i
      <4>1. \A i \in 1 .. Len(line) : i \in Int
        BY <3>l
      <4>2. QED  BY <3>a, <3>b, <4>1, Zenon
    <3> HIDE DEF semis
    <3>3. Min(semis) = k + 1
      BY <3>1, <3>2, <1>k DEF Min
    <3>4. last = Min(semis) - 1
      BY <3>1, Zenon DEF last
    <3>5. QED  BY <3>3, <3>4, <1>k
  <2>3. QED  BY <2>1, <2>2
<1>8. SubSeq(line, 1, last) = digits
  <2> HIDE DEF last
  <2>1. \A i \in 1 .. k : line[i] \in Symbol
    <3>1. \A i \in 1 .. k : digits[i] \in Symbol
      BY <1>2, ElementOfSeq
    <3>2. QED  BY <1>5, <3>1
  <2>2. /\ SubSeq(line, 1, k) \in Seq(Symbol) /\ Len(SubSeq(line, 1, k)) = k
        /\ \A i \in 1 .. k : SubSeq(line, 1, k)[i] = line[i]
    <3>1. 0 \in Nat /\ 0 <= k /\ k <= Len(line) /\ 0 + 1 = 1 /\ k - 0 = k /\ \A i \in 1 .. k : 0 + i = i
      BY <1>5, <1>k, <1>n
    <3>2. /\ SubSeq(line, 0 + 1, k) \in Seq(Symbol) /\ Len(SubSeq(line, 0 + 1, k)) = k - 0
          /\ \A i \in 1 .. k - 0 : SubSeq(line, 0 + 1, k)[i] = line[0 + i]
      BY <1>5, <1>k, <3>1, Part
    <3>3. QED  BY <3>1, <3>2
  <2>3. QED  BY <1>2, <1>5, <1>7, <2>2, SeqEqual
<1>9. SizeOf(line) = size
  <2>1. SizeOf(line) = (IF /\ SubSeq(line, 1, last) # << >>
                           /\ \A i \in 1 .. Len(SubSeq(line, 1, last)) : \E v \in 1 .. Radix : SubSeq(line, 1, last)[i] = Digit[v]
                        THEN NumberOf(SubSeq(line, 1, last)) ELSE -1)
    BY Zenon DEF SizeOf
  <2> HIDE DEF last
  <2>2. digits # << >>
    BY <1>2, <1>k
  <2>3. QED  BY <1>2, <1>8, <2>1, <2>2, Zenon
<1>10. QED  BY <1>2, <1>4, <1>5, <1>6, <1>9 DEF line

-----------------------------------------------------------------------------
(* The stream *)

(* A frame behind what was sent: a size line, what it is the size of, and
   the end of a line. *)
Frame(s, line, body) == s \o line \o CRLF \o body \o CRLF

IsFrame(t, s, line, k, body) ==
    /\ t \in Seq(Symbol) /\ Len(t) = k + 4 + Len(body)
    /\ \A i \in 1 .. Len(s) : t[i] = s[i]
    /\ \A i \in 1 .. Len(line) : t[Len(s) + i] = line[i]
    /\ t[k + 1] = "CR" /\ t[k + 2] = "LF"
    /\ \A j \in 1 .. Len(body) : t[k + 2 + j] = body[j]

LEMMA FrameIs ==
    ASSUME NEW s \in Seq(Symbol), NEW line \in Seq(Symbol), NEW body \in Seq(Symbol)
    PROVE  IsFrame(Frame(s, line, body), s, line, Len(s) + Len(line), body)
<1> DEFINE a == s \o line
           b == a \o CRLF
           c == b \o body
           t == c \o CRLF
           k == Len(s) + Len(line)
<1>1. /\ Len(s) \in Nat /\ Len(line) \in Nat
      /\ a \in Seq(Symbol) /\ Len(a) = k
      /\ \A i \in 1 .. Len(s) : a[i] = s[i]
      /\ \A i \in 1 .. Len(line) : a[Len(s) + i] = line[i]
  BY Joined
<1>a. a \in Seq(Symbol)
  BY <1>1
<1>2. k \in Nat
  BY <1>1
<1> HIDE DEF a
<1>3. CRLF \in Seq(Symbol) /\ Len(CRLF) = 2
  BY EndLineIs
<1>c. CRLF \in Seq(Symbol)
  BY <1>3
<1>4. /\ b \in Seq(Symbol) /\ Len(b) = Len(a) + Len(CRLF)
      /\ \A i \in 1 .. Len(a) : b[i] = a[i]
      /\ \A i \in 1 .. Len(CRLF) : b[Len(a) + i] = CRLF[i]
  BY <1>a, <1>c, Joined
<1>b. b \in Seq(Symbol)
  BY <1>4
<1>5. /\ Len(b) = k + 2
      /\ \A i \in 1 .. k : b[i] = a[i]
      /\ b[k + 1] = CRLF[1] /\ b[k + 2] = CRLF[2]
  <2> HIDE DEF b
  <2>1. 1 \in 1 .. 2 /\ 2 \in 1 .. 2
    OBVIOUS
  <2>2. QED  BY <1>1, <1>3, <1>4, <2>1, Zenon
<1>6. b[k + 1] = "CR" /\ b[k + 2] = "LF"
  BY <1>5, EndLineIs, Zenon
<1> HIDE DEF b
<1>7. /\ Len(body) \in Nat
      /\ c \in Seq(Symbol) /\ Len(c) = Len(b) + Len(body)
      /\ \A i \in 1 .. Len(b) : c[i] = b[i]
      /\ \A i \in 1 .. Len(body) : c[Len(b) + i] = body[i]
  BY <1>b, Joined
<1>d. c \in Seq(Symbol)
  BY <1>7
<1>8. /\ Len(c) = k + 2 + Len(body)
      /\ \A i \in 1 .. k + 2 : c[i] = b[i]
      /\ \A i \in 1 .. Len(body) : c[k + 2 + i] = body[i]
  BY <1>5, <1>7, Zenon
<1> HIDE DEF c
<1>9. /\ t \in Seq(Symbol) /\ Len(t) = Len(c) + Len(CRLF)
      /\ \A i \in 1 .. Len(c) : t[i] = c[i]
  BY <1>c, <1>d, Joined
<1>10. /\ Len(t) = k + 2 + Len(body) + 2
       /\ \A i \in 1 .. k + 2 + Len(body) : t[i] = c[i]
  BY <1>3, <1>8, <1>9, Zenon
<1> HIDE DEF t, k
<1>11. Len(t) = k + 4 + Len(body)
  BY <1>2, <1>7, <1>10
<1>12. /\ \A i \in 1 .. Len(s) : i \in 1 .. k /\ i \in 1 .. k + 2 /\ i \in 1 .. k + 2 + Len(body)
       /\ \A i \in 1 .. Len(line) :
             Len(s) + i \in 1 .. k /\ Len(s) + i \in 1 .. k + 2 /\ Len(s) + i \in 1 .. k + 2 + Len(body)
       /\ \A i \in {k + 1, k + 2} : i \in 1 .. k + 2 /\ i \in 1 .. k + 2 + Len(body)
       /\ \A j \in 1 .. Len(body) : k + 2 + j \in 1 .. k + 2 + Len(body)
  BY <1>1, <1>7 DEF k
<1>e. \A i \in 1 .. k : i \in 1 .. k + 2 /\ i \in 1 .. k + 2 + Len(body) => t[i] = a[i]
  BY <1>5, <1>8, <1>10, Zenon
<1>13. \A i \in 1 .. Len(s) : t[i] = s[i]
  BY <1>1, <1>e, <1>12, Zenon
<1>14. \A i \in 1 .. Len(line) : t[Len(s) + i] = line[i]
  BY <1>1, <1>e, <1>12, Zenon
<1>15. t[k + 1] = "CR" /\ t[k + 2] = "LF"
  BY <1>6, <1>8, <1>10, <1>12, Zenon
<1>16. \A j \in 1 .. Len(body) : t[k + 2 + j] = body[j]
  BY <1>8, <1>10, <1>12, Zenon
<1>17. t = Frame(s, line, body)
  BY Zenon DEF Frame, t, c, b, a
<1>18. IsFrame(t, s, line, k, body)
  BY <1>9, <1>11, <1>13, <1>14, <1>15, <1>16, Zenon DEF IsFrame
<1>19. QED  BY <1>17, <1>18, Zenon DEF k

(* r is what s has behind a, up to b. *)
IsPart(r, s, a, b) == r \in Seq(Symbol) /\ Len(r) = b - a /\ \A i \in 1 .. b - a : r[i] = s[a + i]

LEMMA PartIsPart ==
    ASSUME NEW s \in Seq(Symbol), NEW a \in Nat, NEW b \in Nat, a <= b, b <= Len(s)
    PROVE  IsPart(SubSeq(s, a + 1, b), s, a, b)
  BY Part DEF IsPart

LEMMA PartOfPart ==
    ASSUME NEW s, NEW r, NEW a \in Nat, NEW b \in Nat, IsPart(r, s, a, b),
           NEW c \in Nat, NEW d \in Nat, c <= d, d <= b - a
    PROVE  IsPart(SubSeq(r, c + 1, d), s, a + c, a + d)
<1>1. r \in Seq(Symbol) /\ Len(r) = b - a /\ \A i \in 1 .. b - a : r[i] = s[a + i]
  BY DEF IsPart
<1>2. d <= Len(r)
  BY <1>1
<1>3. /\ SubSeq(r, c + 1, d) \in Seq(Symbol) /\ Len(SubSeq(r, c + 1, d)) = d - c
      /\ \A i \in 1 .. d - c : SubSeq(r, c + 1, d)[i] = r[c + i]
  BY <1>1, <1>2, Part
<1>4. /\ (a + d) - (a + c) = d - c
      /\ \A i \in 1 .. d - c : c + i \in 1 .. b - a /\ a + (c + i) = (a + c) + i
  OBVIOUS
<1>5. \A i \in 1 .. d - c : SubSeq(r, c + 1, d)[i] = s[(a + c) + i]
  BY <1>1, <1>3, <1>4, Zenon
<1>6. QED  BY <1>3, <1>4, <1>5, Zenon DEF IsPart

LEMMA PartsJoined ==
    ASSUME NEW s, NEW a \in Nat, NEW b \in Nat, a <= b, NEW q, NEW r, IsPart(q, s, 0, a), IsPart(r, s, a, b)
    PROVE  IsPart(q \o r, s, 0, b)
<1>1. q \in Seq(Symbol) /\ r \in Seq(Symbol) /\ Len(q) = a - 0 /\ Len(r) = b - a
  BY DEF IsPart
<1>2. /\ q \o r \in Seq(Symbol) /\ Len(q \o r) = Len(q) + Len(r)
      /\ \A i \in 1 .. Len(q) : (q \o r)[i] = q[i]
      /\ \A i \in 1 .. Len(r) : (q \o r)[Len(q) + i] = r[i]
  <2>1. q \in Seq(Symbol) /\ r \in Seq(Symbol)
    BY <1>1
  <2>2. QED  BY <2>1, Joined
<1>3. \A i \in 1 .. a - 0 : q[i] = s[0 + i] /\ 0 + i = i
  BY DEF IsPart
<1>4. \A i \in 1 .. b - a : r[i] = s[a + i]
  BY DEF IsPart
<1>5. a - 0 = a /\ b - 0 = b /\ a + (b - a) = b
  OBVIOUS
<1>6. \A i \in 1 .. b : i \in 1 .. a \/ (i - a \in 1 .. b - a /\ a + (i - a) = i)
  OBVIOUS
<1>7. \A i \in 1 .. b : 0 + i = i
  OBVIOUS
<1>8. \A i \in 1 .. b : (q \o r)[i] = s[0 + i]
  <2>1. Len(q) = a /\ Len(r) = b - a
    BY <1>1
  <2>2. \A i \in 1 .. a : (q \o r)[i] = s[0 + i]
    BY <1>2, <1>3, <1>5, <2>1, Zenon
  <2>3. \A j \in 1 .. b - a : (q \o r)[a + j] = s[a + j]
    BY <1>2, <1>4, <2>1, Zenon
  <2>4. ASSUME NEW i \in 1 .. b, i - a \in 1 .. b - a, a + (i - a) = i
        PROVE  (q \o r)[i] = s[0 + i]
    <3>1. (q \o r)[a + (i - a)] = s[a + (i - a)]
      BY <2>3, <2>4, Zenon
    <3>2. QED  BY <1>7, <2>4, <3>1, Zenon
  <2>5. QED  BY <1>6, <2>2, <2>4, Zenon
<1>9. QED  BY <1>1, <1>2, <1>5, <1>8, Zenon DEF IsPart

LEMMA PartIsAll ==
    ASSUME NEW s \in Seq(Symbol), NEW r, IsPart(r, s, 0, Len(s))
    PROVE  r = s
<1>1. Len(s) \in Nat
  BY LenProperties
<1>2. r \in Seq(Symbol) /\ Len(r) = Len(s) /\ \A i \in 1 .. Len(s) : r[i] = s[i]
  BY <1>1 DEF IsPart
<1>3. QED  BY <1>2, SeqEqual

-----------------------------------------------------------------------------
(* The invariant *)

(* The size line of the chunk that begins at m ends at k. *)
SizeLine(s, m, k, size) ==
    /\ k \in m.at .. Len(s) - 2 /\ s[k + 1] = "CR" /\ s[k + 2] = "LF"
    /\ \A i \in m.at + 1 .. k : s[i] # "CR"
    /\ SizeOf(SubSeq(s, m.at + 1, k)) = size

(* From m to u there is one chunk, of what the payload has between them. *)
ChunkFrom(s, m, u) ==
    /\ u.told > m.told
    /\ \E k \in m.at .. Len(s) :
          /\ SizeLine(s, m, k, u.told - m.told)
          /\ u.at = k + 4 + (u.told - m.told)
          /\ \A j \in 1 .. u.told - m.told : s[k + 2 + j] = payload[m.told + j]

(* What comes after m: nothing so far, the end, or a chunk. *)
Follows(m) ==
    \/ ~ended /\ m.told = told /\ m.at = Len(sent)
    \/ ended /\ m.told = Len(payload) /\ \E k \in m.at .. Len(sent) : SizeLine(sent, m, k, 0)
    \/ \E u \in marks : ChunkFrom(sent, m, u)

Mark == [told: Nat, at: Nat]

StreamInv ==
    /\ payload \in Payloads /\ framing \in [chunked : BOOLEAN, extension : Extensions]
    /\ sent \in Seq(Symbol) /\ told \in 0 .. Len(payload) /\ ended \in BOOLEAN
    /\ ended => told = Len(payload)
    /\ FirstMark \in marks
    /\ \A m \in marks :
          /\ m \in Mark /\ m.told <= told /\ 1 <= m.at /\ m.at <= Len(sent)
          /\ framing.chunked => Follows(m)
    /\ ~framing.chunked => sent = Opened

(* The decoder is where a chunk begins, and has what is told before it. *)
DecodeInv ==
    /\ step \in {"read", "decode", "done"}
    /\ step = "read" => out = << >>
    /\ step = "decode" =>
          /\ framing.chunked
          /\ \E m \in marks, n \in 0 .. Len(sent) :
                m.at <= n /\ IsPart(rest, sent, m.at, n) /\ IsPart(out, payload, 0, m.told)

RequestInv == StreamInv /\ DecodeInv /\ WholeOrNothing

LEMMA PayloadIs ==
    ASSUME payload \in Payloads
    PROVE  /\ payload \in Seq(Symbol) /\ Len(payload) \in Nat /\ Len(payload) > 0
           /\ \A i \in 1 .. Len(payload) : payload[i] = "]" => i = Len(payload)
<1>1. STRING \subseteq Symbol
  BY DEF Symbol
<1>2. payload \in Seq(STRING) /\ payload # << >>
  BY EngineAssumption
<1>3. payload \in Seq(Symbol)
  BY <1>1, <1>2, SeqMonotonic
<1>4. Len(payload) \in Nat /\ Len(payload) > 0
  BY <1>2
<1>5. QED  BY <1>3, <1>4, EngineAssumption

(* What was there stays where it was. *)
LEMMA SizeLineStays ==
    ASSUME NEW s \in Seq(Symbol), NEW t \in Seq(Symbol), Len(s) <= Len(t), \A i \in 1 .. Len(s) : t[i] = s[i],
           NEW m \in Mark, 1 <= m.at, NEW k, NEW size, SizeLine(s, m, k, size)
    PROVE  SizeLine(t, m, k, size)
<1>1. Len(s) \in Nat /\ Len(t) \in Nat /\ m.at \in Nat
  BY LenProperties DEF Mark
<1>2. /\ k \in m.at .. Len(s) - 2 /\ s[k + 1] = "CR" /\ s[k + 2] = "LF"
      /\ \A i \in m.at + 1 .. k : s[i] # "CR"
      /\ SizeOf(SubSeq(s, m.at + 1, k)) = size
  BY DEF SizeLine
<1>a. k \in m.at .. Len(s) - 2
  BY <1>2
<1>3. /\ k \in m.at .. Len(t) - 2 /\ k + 1 \in 1 .. Len(s) /\ k + 2 \in 1 .. Len(s)
      /\ k \in Nat /\ m.at <= k /\ k <= Len(s) /\ k <= Len(t)
      /\ \A i \in m.at + 1 .. k : i \in 1 .. Len(s)
      /\ \A i \in 1 .. k - m.at : m.at + i \in 1 .. Len(s)
  BY <1>1, <1>a
<1>4. SubSeq(t, m.at + 1, k) = SubSeq(s, m.at + 1, k)
  <2>1. IsPart(SubSeq(s, m.at + 1, k), s, m.at, k) /\ IsPart(SubSeq(t, m.at + 1, k), t, m.at, k)
    BY <1>1, <1>3, PartIsPart
  <2>2. \A i \in 1 .. k - m.at : t[m.at + i] = s[m.at + i]
    BY <1>3
  <2> DEFINE x == SubSeq(s, m.at + 1, k)
             y == SubSeq(t, m.at + 1, k)
  <2>3. /\ x \in Seq(Symbol) /\ Len(x) = k - m.at /\ \A i \in 1 .. k - m.at : x[i] = s[m.at + i]
        /\ y \in Seq(Symbol) /\ Len(y) = k - m.at /\ \A i \in 1 .. k - m.at : y[i] = t[m.at + i]
    BY <2>1, Zenon DEF IsPart
  <2> HIDE DEF x, y
  <2>4. x = y
    <3>1. Len(y) = Len(x) /\ \A i \in 1 .. Len(y) : y[i] = x[i]
      BY <2>2, <2>3, Zenon
    <3>2. x \in Seq(Symbol) /\ y \in Seq(Symbol)
      BY <2>3
    <3>3. QED  BY <3>1, <3>2, SeqEqual
  <2>5. QED  BY <2>4 DEF x, y
<1>5. t[k + 1] = "CR" /\ t[k + 2] = "LF" /\ \A i \in m.at + 1 .. k : t[i] # "CR"
  BY <1>2, <1>3, Zenon
<1>6. QED  BY <1>2, <1>3, <1>4, <1>5, Zenon DEF SizeLine

LEMMA ChunkStays ==
    ASSUME NEW s \in Seq(Symbol), NEW t \in Seq(Symbol), Len(s) <= Len(t), \A i \in 1 .. Len(s) : t[i] = s[i],
           NEW m \in Mark, 1 <= m.at, NEW u \in Mark, u.at <= Len(s), ChunkFrom(s, m, u)
    PROVE  ChunkFrom(t, m, u)
<1>1. Len(s) \in Nat /\ Len(t) \in Nat /\ m.at \in Nat /\ m.told \in Nat /\ u.at \in Nat /\ u.told \in Nat
  BY LenProperties DEF Mark
<1>2. PICK k \in m.at .. Len(s) :
          /\ SizeLine(s, m, k, u.told - m.told)
          /\ u.at = k + 4 + (u.told - m.told)
          /\ \A j \in 1 .. u.told - m.told : s[k + 2 + j] = payload[m.told + j]
  BY DEF ChunkFrom
<1>3. u.told > m.told
  BY DEF ChunkFrom
<1>4. SizeLine(t, m, k, u.told - m.told)
  BY <1>2, SizeLineStays
<1>a. u.at = k + 4 + (u.told - m.told)
  BY <1>2
<1>5. k \in m.at .. Len(t)
  BY <1>1
<1>6. \A j \in 1 .. u.told - m.told : k + 2 + j \in 1 .. Len(s)
  BY <1>1, <1>3, <1>a
<1>7. \A j \in 1 .. u.told - m.told : t[k + 2 + j] = payload[m.told + j]
  BY <1>2, <1>6, Zenon
<1>8. QED  BY <1>3, <1>4, <1>5, <1>7, <1>a DEF ChunkFrom

-----------------------------------------------------------------------------
(* Every step keeps it *)

LEMMA FirstMarkIs == FirstMark \in Mark /\ FirstMark.told = 0 /\ FirstMark.at = 1
  BY DEF FirstMark, Mark

LEMMA OpenedIs ==
    ASSUME payload \in Payloads
    PROVE  /\ Opened \in Seq(Symbol) /\ Len(Opened) >= 1
           /\ framing.chunked => Len(Opened) = 1
           /\ ~framing.chunked =>
                 /\ Len(Opened) = 1 + Len(payload)
                 /\ \A i \in 1 .. Len(payload) : Opened[1 + i] = payload[i]
<1>1. payload \in Seq(Symbol) /\ Len(payload) \in Nat
  BY PayloadIs
<1>2. <<"head">> \in Seq(Symbol) /\ Len(<<"head">>) = 1
  <2>1. "head" \in Symbol
    BY DEF Symbol
  <2>2. \A c \in Symbol : <<c>> \in Seq(Symbol) /\ Len(<<c>>) = 1
    OBVIOUS
  <2>3. QED  BY <2>1, <2>2, Zenon
<1>3. CASE framing.chunked
  <2>1. Opened = <<"head">>
    BY <1>3, Zenon DEF Opened
  <2>2. 1 >= 1
    OBVIOUS
  <2>3. QED  BY <1>2, <1>3, <2>1, <2>2, Zenon
<1>4. CASE ~framing.chunked
  <2> DEFINE h == <<"head">>
  <2>1. Opened = h \o payload
    BY <1>4, Zenon DEF Opened
  <2>2. h \in Seq(Symbol) /\ payload \in Seq(Symbol) /\ Len(h) = 1
    BY <1>1, <1>2
  <2> HIDE DEF h
  <2>3. /\ h \o payload \in Seq(Symbol) /\ Len(h \o payload) = Len(h) + Len(payload)
        /\ \A i \in 1 .. Len(payload) : (h \o payload)[Len(h) + i] = payload[i]
    <3>1. h \in Seq(Symbol) /\ payload \in Seq(Symbol)
      BY <2>2
    <3>2. QED  BY <3>1, Joined
  <2>4. 1 + Len(payload) >= 1
    BY <1>1
  <2>5. QED  BY <1>4, <2>1, <2>2, <2>3, <2>4, Zenon
<1>5. QED  BY <1>3, <1>4

Begins ==
    /\ payload \in Payloads /\ framing \in [chunked : BOOLEAN, extension : Extensions]
    /\ sent = Opened /\ told = 0 /\ ended = FALSE /\ marks = {FirstMark}

LEMMA BeginsInv == Begins => StreamInv
<1> SUFFICES ASSUME Begins
             PROVE  StreamInv
  OBVIOUS
<1> USE DEF Begins
<1>1. /\ Opened \in Seq(Symbol) /\ Len(Opened) >= 1
      /\ framing.chunked => Len(Opened) = 1
  BY OpenedIs
<1>2. Len(payload) \in Nat /\ Len(Opened) \in Nat
  BY <1>1, PayloadIs, LenProperties
<1>3. \A m \in marks :
         /\ m \in Mark /\ m.told <= told /\ 1 <= m.at /\ m.at <= Len(sent)
         /\ framing.chunked => Follows(m)
  <2> SUFFICES ASSUME NEW m \in marks
               PROVE  /\ m \in Mark /\ m.told <= told /\ 1 <= m.at /\ m.at <= Len(sent)
                      /\ framing.chunked => Follows(m)
    OBVIOUS
  <2>1. m \in Mark /\ m.told = 0 /\ m.at = 1
    BY FirstMarkIs
  <2>2. m.told <= told /\ 1 <= m.at /\ m.at <= Len(sent)
    <3>1. 0 <= 0 /\ 1 <= 1 /\ 1 <= Len(Opened)
      BY <1>1, <1>2
    <3>2. QED  BY <2>1, <3>1, Zenon
  <2>3. framing.chunked => ~ended /\ m.told = told /\ m.at = Len(sent)
    BY <1>1, <2>1, Zenon
  <2>4. framing.chunked => Follows(m)
    BY <2>3, Zenon DEF Follows
  <2>5. QED  BY <2>1, <2>2, <2>4
<1>4. told \in 0 .. Len(payload)
  BY <1>2
<1>5. QED  BY <1>1, <1>3, <1>4, Zenon DEF StreamInv

LEMMA InitInv == RequestInit => RequestInv
<1> SUFFICES ASSUME RequestInit
             PROVE  RequestInv
  OBVIOUS
<1>1. StreamInv
  BY BeginsInv, Zenon DEF RequestInit, Begins
<1>2. step = "read" /\ out = << >>
  BY DEF RequestInit
<1>3. QED  BY <1>1, <1>2 DEF RequestInv, DecodeInv, WholeOrNothing

LEMMA BeginsInvNext == Begins' => StreamInv'
  BY BeginsInv, PTL

LEMMA NextRequestInv ==
    ASSUME RequestInv, NextRequest
    PROVE  RequestInv'
<1>1. Begins'
  BY Zenon DEF RequestInv, StreamInv, NextRequest, Opened, FirstMark, Begins
<1>2. StreamInv'
  BY <1>1, BeginsInvNext
<1>3. step' = "read" /\ out' = << >>
  BY DEF NextRequest
<1>4. QED  BY <1>2, <1>3 DEF RequestInv, DecodeInv, WholeOrNothing

LEMMA StreamStays ==
    ASSUME StreamInv, UNCHANGED <<payload, framing, sent, told, ended, marks>>
    PROVE  StreamInv'
<1>1. /\ payload' = payload /\ framing' = framing /\ sent' = sent /\ told' = told
      /\ ended' = ended /\ marks' = marks
  OBVIOUS
<1>2. \A m : Follows(m) => Follows(m)'
  BY <1>1 DEF Follows, ChunkFrom, SizeLine
<1>3. Opened' = Opened
  BY <1>1 DEF Opened
<1>4. \A m \in marks' :
         /\ m \in Mark /\ m.told <= told' /\ 1 <= m.at /\ m.at <= Len(sent')
         /\ framing'.chunked => Follows(m)'
  <2> SUFFICES ASSUME NEW m \in marks
               PROVE  /\ m \in Mark /\ m.told <= told /\ 1 <= m.at /\ m.at <= Len(sent)
                      /\ framing.chunked => Follows(m)'
    BY <1>1
  <2>1. /\ m \in Mark /\ m.told <= told /\ 1 <= m.at /\ m.at <= Len(sent)
        /\ framing.chunked => Follows(m)
    BY DEF StreamInv
  <2>2. QED  BY <1>2, <2>1
<1>5. /\ payload' \in Payloads /\ framing' \in [chunked : BOOLEAN, extension : Extensions]
      /\ sent' \in Seq(Symbol) /\ told' \in 0 .. Len(payload') /\ ended' \in BOOLEAN
      /\ (ended' => told' = Len(payload'))
      /\ FirstMark \in marks'
      /\ (~framing'.chunked => sent' = Opened')
  BY <1>1, <1>3 DEF StreamInv
<1>6. QED  BY <1>4, <1>5, Zenon DEF StreamInv, FirstMark, Mark

LEMMA FailsInv ==
    ASSUME RequestInv, Fails
    PROVE  RequestInv'
<1>1. /\ UNCHANGED <<payload, framing, sent, told, ended, marks>>
      /\ step' = "done" /\ reply' = Nothing
  BY DEF Fails, Answer, responseVars
<1>2. StreamInv'
  BY <1>1, StreamStays DEF RequestInv
<1>3. QED  BY <1>1, <1>2 DEF RequestInv, DecodeInv, WholeOrNothing

LEMMA ReadToEndInv ==
    ASSUME RequestInv, NEW ok \in BOOLEAN, NEW n \in 0 .. Len(sent), ReadToEnd(ok, SubSeq(sent, 1, n))
    PROVE  RequestInv'
<1> DEFINE got == SubSeq(sent, 1, n)
<1>1. UNCHANGED <<payload, framing, sent, told, ended, marks, out>> /\ step = "read"
  BY DEF ReadToEnd, responseVars
<1>2. StreamInv'
  BY <1>1, StreamStays DEF RequestInv
<1>3. sent \in Seq(Symbol) /\ out = << >> /\ payload \in Payloads
  BY <1>1 DEF RequestInv, StreamInv, DecodeInv
<1>4. Len(sent) \in Nat /\ n \in Nat /\ n <= Len(sent)
  <2>1. Len(sent) \in Nat
    BY <1>3, LenProperties
  <2>2. QED  BY <2>1
<1>5. IsPart(got, sent, 0, n)
  <2>1. 0 \in Nat /\ 0 + 1 = 1 /\ 0 <= n
    BY <1>4
  <2>2. IsPart(SubSeq(sent, 0 + 1, n), sent, 0, n)
    BY <1>3, <1>4, <2>1, PartIsPart
  <2>3. QED  BY <2>1, <2>2, Zenon
<1>6. got \in Seq(Symbol) /\ Len(got) = n /\ \A i \in 1 .. n : got[i] = sent[i]
  <2>1. n - 0 = n /\ \A i \in 1 .. n : 0 + i = i
    BY <1>4
  <2>2. QED  BY <1>5, <2>1, Zenon DEF IsPart
<1> HIDE DEF got
<1>7. ASSUME got # << >>
      PROVE  n >= 1 /\ IsPart(Tail(got), sent, 1, n)
  <2>a. got \in Seq(Symbol)
    BY <1>6
  <2>1. /\ Tail(got) \in Seq(Symbol) /\ Len(Tail(got)) = Len(got) - 1
        /\ \A i \in 1 .. Len(Tail(got)) : Tail(got)[i] = got[i + 1]
    BY <1>7, <2>a, HeadTailProperties
  <2>b. Len(got) > 0
    BY <1>7, <2>a
  <2>2. n >= 1
    BY <1>4, <1>6, <2>b
  <2>3. \A i \in 1 .. n - 1 : i + 1 \in 1 .. n /\ i + 1 = 1 + i
    BY <1>4
  <2>4. \A i \in 1 .. n - 1 : Tail(got)[i] = sent[1 + i]
    BY <1>6, <2>1, <2>3, Zenon
  <2>5. QED  BY <1>6, <2>1, <2>2, <2>4, Zenon DEF IsPart
<1>8. CASE got = << >> \/ ~ok
  <2>1. step' = "done" /\ reply' = Nothing
    BY <1>8 DEF ReadToEnd, Answer, got
  <2>2. QED  BY <1>2, <2>1 DEF RequestInv, DecodeInv, WholeOrNothing
<1>9. CASE ~(got = << >> \/ ~ok) /\ framing.chunked
  <2>1. step' = "decode" /\ rest' = Tail(got)
    BY <1>9, Zenon DEF ReadToEnd, got
  <2>2. IsPart(Tail(got), sent, 1, n) /\ n >= 1
    BY <1>7, <1>9
  <2>3. IsPart(out, payload, 0, 0)
    <3>1. << >> \in Seq(Symbol) /\ Len(<< >>) = 0 - 0 /\ \A i \in 1 .. 0 - 0 : out[i] = payload[0 + i]
      OBVIOUS
    <3>2. QED  BY <1>3, <3>1, Zenon DEF IsPart
  <2>4. FirstMark \in marks /\ FirstMark.told = 0 /\ FirstMark.at = 1 /\ 1 <= n
    BY <1>4, <2>2, FirstMarkIs DEF RequestInv, StreamInv
  <2>5. \E m \in marks, k \in 0 .. Len(sent) :
           m.at <= k /\ IsPart(Tail(got), sent, m.at, k) /\ IsPart(out, payload, 0, m.told)
    BY <2>2, <2>3, <2>4, Zenon
  <2>6. DecodeInv'
    BY <1>1, <1>9, <2>1, <2>5 DEF DecodeInv
  <2>7. QED  BY <1>2, <2>1, <2>6 DEF RequestInv, WholeOrNothing
<1>10. CASE ~(got = << >> \/ ~ok) /\ ~framing.chunked
  <2>1. step' = "done" /\ reply' = Tail(got)
    BY <1>10, Zenon DEF ReadToEnd, Answer, got
  <2>2. IsPart(Tail(got), sent, 1, n) /\ n >= 1
    BY <1>7, <1>10
  <2>3. /\ payload \in Seq(Symbol) /\ Len(payload) \in Nat /\ Len(payload) > 0
        /\ \A i \in 1 .. Len(payload) : payload[i] = "]" => i = Len(payload)
    BY <1>3, PayloadIs
  <2>4. /\ Len(sent) = 1 + Len(payload)
        /\ \A i \in 1 .. Len(payload) : sent[1 + i] = payload[i]
    <3>1. sent = Opened
      BY <1>10 DEF RequestInv, StreamInv
    <3>2. QED  BY <1>3, <1>10, <3>1, OpenedIs
  <2> DEFINE r == Tail(got)
             k == n - 1
  <2>5. r \in Seq(Symbol) /\ Len(r) = k /\ \A i \in 1 .. k : r[i] = sent[1 + i]
    BY <2>2, Zenon DEF IsPart
  <2> HIDE DEF r
  <2>6. k \in Nat /\ k <= Len(payload) /\ \A i \in 1 .. k : i \in 1 .. Len(payload)
    BY <1>4, <2>2, <2>3, <2>4
  <2> HIDE DEF k
  <2>7. \A i \in 1 .. k : r[i] = payload[i]
    BY <2>4, <2>5, <2>6, Zenon
  <2>8. IsJson(r) => r = payload
    <3> SUFFICES ASSUME r # << >>, r[Len(r)] = "]"
                 PROVE  r = payload
      BY DEF IsJson
    <3>a. r \in Seq(Symbol)
      BY <2>5
    <3>b. Len(r) > 0
      BY <3>a
    <3>1. k \in 1 .. k
      BY <2>5, <2>6, <3>b
    <3>2. payload[k] = "]" /\ k \in 1 .. Len(payload)
      BY <2>5, <2>6, <2>7, <3>1, Zenon
    <3>3. k = Len(payload)
      BY <2>3, <3>2, Zenon
    <3>4. Len(r) = Len(payload) /\ \A i \in 1 .. Len(r) : r[i] = payload[i]
      BY <2>5, <2>7, <3>3, Zenon
    <3>5. payload \in Seq(Symbol)
      BY <2>3
    <3>6. QED  BY <3>a, <3>4, <3>5, SeqEqual
  <2>9. WholeOrNothing'
    BY <1>1, <1>10, <2>1, <2>8, Zenon DEF WholeOrNothing, IsJson, r
  <2>10. DecodeInv'
    BY <2>1 DEF DecodeInv
  <2>11. QED  BY <1>2, <2>9, <2>10 DEF RequestInv
<1>11. QED  BY <1>8, <1>9, <1>10

LEMMA Regrouped ==
    ASSUME NEW s \in Seq(Symbol), NEW t \in Seq(Symbol), NEW u \in Seq(Symbol)
    PROVE  s \o t \o u = s \o (t \o u)
  BY ConcatAssociative

(* The line is the whole of what is between the mark and k. *)
LEMMA LineIsSizeLine ==
    ASSUME NEW s \in Seq(Symbol), NEW t \in Seq(Symbol), NEW line \in Seq(Symbol), NEW m \in Mark, m.at = Len(s),
           NEW k, k = Len(s) + Len(line), k + 2 <= Len(t),
           \A i \in 1 .. Len(line) : line[i] # "CR" /\ t[Len(s) + i] = line[i],
           t[k + 1] = "CR", t[k + 2] = "LF"
    PROVE  k \in m.at .. Len(t) /\ SizeLine(t, m, k, SizeOf(line))
<1>1. Len(s) \in Nat /\ Len(t) \in Nat /\ Len(line) \in Nat /\ k \in Nat
  BY LenProperties
<1>2. k \in m.at .. Len(t) - 2 /\ k \in m.at .. Len(t) /\ m.at <= k /\ k <= Len(t) /\ k - m.at = Len(line)
  BY <1>1
<1>3. \A i \in m.at + 1 .. k : t[i] # "CR"
  <2> SUFFICES ASSUME NEW i \in m.at + 1 .. k
               PROVE  t[i] # "CR"
    OBVIOUS
  <2>1. i - Len(s) \in 1 .. Len(line) /\ Len(s) + (i - Len(s)) = i
    BY <1>1
  <2>2. t[Len(s) + (i - Len(s))] # "CR"
    BY <2>1
  <2>3. QED  BY <2>1, <2>2
<1>4. SubSeq(t, m.at + 1, k) = line
  <2> DEFINE x == SubSeq(t, m.at + 1, k)
  <2>1. IsPart(x, t, m.at, k)
    BY <1>1, <1>2, PartIsPart
  <2> HIDE DEF x
  <2>2. x \in Seq(Symbol) /\ Len(x) = Len(line) /\ \A i \in 1 .. Len(line) : x[i] = line[i]
    <3>1. x \in Seq(Symbol) /\ Len(x) = k - m.at /\ \A i \in 1 .. k - m.at : x[i] = t[m.at + i]
      BY <2>1, Zenon DEF IsPart
    <3>2. QED  BY <1>2, <3>1, Zenon
  <2>3. x = line
    BY <2>2, SeqEqual
  <2>4. QED  BY <2>3 DEF x
<1>5. QED  BY <1>2, <1>3, <1>4, Zenon DEF SizeLine

LEMMA SendChunkInv ==
    ASSUME RequestInv, NEW upto \in 1 .. Len(payload), NEW digits \in Numerals(upto - told), SendChunk(upto, digits)
    PROVE  RequestInv'
<1> DEFINE line == digits \o framing.extension
           body == SubSeq(payload, told + 1, upto)
           t == sent \o digits \o framing.extension \o CRLF \o body \o CRLF
           k == Len(sent) + Len(line)
           new == [told |-> upto, at |-> Len(t)]
<1>1. /\ step = "read" /\ framing.chunked /\ told < upto
      /\ sent' = t /\ told' = upto /\ marks' = marks \cup {new}
      /\ UNCHANGED <<payload, framing, ended, step, rest, out, reply>>
  BY Zenon DEF SendChunk
<1>2. /\ payload \in Payloads /\ framing \in [chunked : BOOLEAN, extension : Extensions]
      /\ sent \in Seq(Symbol) /\ told \in 0 .. Len(payload) /\ ended \in BOOLEAN
      /\ ended => told = Len(payload)
      /\ FirstMark \in marks
      /\ \A m \in marks :
            m \in Mark /\ m.told <= told /\ 1 <= m.at /\ m.at <= Len(sent) /\ Follows(m)
  BY <1>1, Zenon DEF RequestInv, StreamInv
<1>3. payload \in Seq(Symbol) /\ Len(payload) \in Nat /\ Len(sent) \in Nat
  BY <1>2, PayloadIs, LenProperties
<1>a. told \in 0 .. Len(payload) /\ told < upto
  BY <1>1, <1>2
<1>4. told \in Nat /\ upto \in Nat /\ upto <= Len(payload) /\ upto - told \in Nat /\ upto - told > 0
  BY <1>3, <1>a
<1>5. framing.extension \in Extensions
  BY <1>2
<1>6. /\ digits \in Seq(Symbol) /\ framing.extension \in Seq(Symbol) /\ line \in Seq(Symbol)
      /\ \A i \in 1 .. Len(line) : line[i] # "CR"
      /\ SizeOf(line) = upto - told
  BY <1>4, <1>5, SizeIsRead
<1>7. IsPart(body, payload, told, upto)
  BY <1>3, <1>4, PartIsPart
<1>8. /\ body \in Seq(Symbol) /\ Len(body) = upto - told
      /\ \A j \in 1 .. upto - told : body[j] = payload[told + j]
  BY <1>7, Zenon DEF IsPart
<1>9. t = Frame(sent, line, body)
  <2>1. sent \in Seq(Symbol) /\ digits \in Seq(Symbol) /\ framing.extension \in Seq(Symbol)
    BY <1>2, <1>6
  <2>2. sent \o digits \o framing.extension = sent \o line
    BY <2>1, Regrouped, Zenon
  <2>3. QED  BY <2>2, Zenon DEF Frame
<1> HIDE DEF body, t, line
<1>10. /\ t \in Seq(Symbol) /\ Len(t) = k + 4 + Len(body)
       /\ \A i \in 1 .. Len(sent) : t[i] = sent[i]
       /\ \A i \in 1 .. Len(line) : t[Len(sent) + i] = line[i]
       /\ t[k + 1] = "CR" /\ t[k + 2] = "LF"
       /\ \A j \in 1 .. Len(body) : t[k + 2 + j] = body[j]
  <2>1. sent \in Seq(Symbol) /\ line \in Seq(Symbol) /\ body \in Seq(Symbol)
    BY <1>2, <1>6, <1>8
  <2>2. IsFrame(t, sent, line, k, body)
    BY <1>9, <2>1, FrameIs, Zenon
  <2>3. QED  BY <2>2, Zenon DEF IsFrame
<1>b. Len(t) = k + 4 + (upto - told) /\ Len(line) \in Nat
  BY <1>8, <1>10, <1>6, LenProperties
<1>11. k \in Nat /\ k + 2 <= Len(t) /\ Len(sent) <= Len(t) /\ Len(t) \in Nat /\ 1 <= Len(t)
  BY <1>3, <1>4, <1>b
<1>12. new \in Mark /\ new.told = upto /\ new.at = Len(t)
  BY <1>4, <1>11 DEF Mark
<1> HIDE DEF new
<1>13. ASSUME NEW m \in marks
       PROVE  Follows(m)'
  <2>1. m \in Mark /\ 1 <= m.at /\ m.at <= Len(sent) /\ m.told <= told /\ Follows(m)
    BY <1>2
  <2>2. CASE ~ended /\ m.told = told /\ m.at = Len(sent)
    <3>1. SizeLine(t, m, k, SizeOf(line)) /\ k \in m.at .. Len(t)
      <4>1. \A i \in 1 .. Len(line) : line[i] # "CR" /\ t[Len(sent) + i] = line[i]
        BY <1>6, <1>10
      <4>2. sent \in Seq(Symbol) /\ t \in Seq(Symbol) /\ line \in Seq(Symbol)
        BY <1>2, <1>6, <1>10
      <4>3. m \in Mark /\ m.at = Len(sent)
        BY <2>1, <2>2
      <4>4. t[k + 1] = "CR" /\ t[k + 2] = "LF"
        BY <1>10
      <4> HIDE DEF k
      <4>5. k = Len(sent) + Len(line) /\ k + 2 <= Len(t)
        BY <1>11 DEF k
      <4>6. QED  BY <4>1, <4>2, <4>3, <4>4, <4>5, LineIsSizeLine
    <3>2. SizeLine(t, m, k, new.told - m.told)
      BY <1>6, <1>12, <2>2, <3>1, Zenon
    <3>3. new.told > m.told
      BY <1>4, <1>12, <2>2
    <3>4. new.at = k + 4 + (new.told - m.told)
      BY <1>12, <1>b, <2>2, Zenon
    <3>5. \A j \in 1 .. new.told - m.told : t[k + 2 + j] = payload[m.told + j]
      BY <1>8, <1>10, <1>12, <2>2, Zenon
    <3>6. ChunkFrom(t, m, new)
      BY <3>1, <3>2, <3>3, <3>4, <3>5, Zenon DEF ChunkFrom
    <3>8. QED  BY <1>1, <3>6 DEF Follows, ChunkFrom, SizeLine
  <2>3. CASE ended /\ m.told = Len(payload)
    BY <1>2, <1>4, <2>3
  <2>4. CASE \E u \in marks : ChunkFrom(sent, m, u)
    <3>1. PICK u \in marks : ChunkFrom(sent, m, u)
      BY <2>4
    <3>2. u \in Mark /\ u.at <= Len(sent)
      BY <1>2
    <3>3. ChunkFrom(t, m, u)
      <4>1. sent \in Seq(Symbol) /\ t \in Seq(Symbol) /\ Len(sent) <= Len(t) /\ \A i \in 1 .. Len(sent) : t[i] = sent[i]
        BY <1>2, <1>10, <1>11
      <4>2. QED  BY <2>1, <3>1, <3>2, <4>1, ChunkStays
    <3>4. QED  BY <1>1, <3>3 DEF Follows, ChunkFrom, SizeLine
  <2>5. QED  BY <2>1, <2>2, <2>3, <2>4 DEF Follows
<1>14. ~ended
  BY <1>2, <1>4
<1>15. ASSUME NEW m, m = new
       PROVE  Follows(m)'
  BY <1>1, <1>12, <1>14, <1>15 DEF Follows
<1>16. \A m \in marks' : m \in Mark /\ m.told <= told' /\ 1 <= m.at /\ m.at <= Len(sent') /\ Follows(m)'
  <2>1. \A m \in marks : m.told <= upto /\ m.at <= Len(t)
    <3>1. \A m \in marks : m.told \in Nat /\ m.at \in Nat /\ m.told <= told /\ m.at <= Len(sent)
      BY <1>2 DEF Mark
    <3>2. QED  BY <1>3, <1>4, <1>11, <3>1
  <2>2. upto <= upto /\ Len(t) <= Len(t)
    BY <1>4, <1>11
  <2>3. \A m \in marks' : m \in marks \/ m = new
    BY <1>1
  <2> SUFFICES ASSUME NEW m \in marks'
               PROVE  m \in Mark /\ m.told <= upto /\ 1 <= m.at /\ m.at <= Len(t) /\ Follows(m)'
    BY <1>1
  <2>4. CASE m \in marks
    BY <1>2, <1>13, <2>1, <2>4
  <2>5. CASE m = new
    BY <1>11, <1>12, <1>15, <2>2, <2>5
  <2>6. QED  BY <2>3, <2>4, <2>5
<1>17. StreamInv'
  <2>1. told' \in 0 .. Len(payload')
    BY <1>1, <1>3, <1>4
  <2>2. FirstMark' = FirstMark /\ FirstMark \in marks'
    BY <1>1, <1>2 DEF FirstMark
  <2>3. QED  BY <1>1, <1>2, <1>10, <1>14, <1>16, <2>1, <2>2, Zenon DEF StreamInv, Mark
<1>18. DecodeInv' /\ WholeOrNothing'
  BY <1>1 DEF RequestInv, DecodeInv, WholeOrNothing
<1>19. QED  BY <1>17, <1>18 DEF RequestInv

LEMMA SendLastInv ==
    ASSUME RequestInv, NEW digits \in Numerals(0), SendLast(digits)
    PROVE  RequestInv'
<1> DEFINE t == sent \o digits \o CRLF \o CRLF
           k == Len(sent) + Len(digits)
<1>1. /\ step = "read" /\ framing.chunked /\ told = Len(payload) /\ ~ended
      /\ sent' = t /\ ended' = TRUE
      /\ UNCHANGED <<payload, framing, told, marks, step, rest, out, reply>>
  BY Zenon DEF SendLast
<1>2. /\ payload \in Payloads /\ framing \in [chunked : BOOLEAN, extension : Extensions]
      /\ sent \in Seq(Symbol) /\ told \in 0 .. Len(payload)
      /\ FirstMark \in marks
      /\ \A m \in marks :
            m \in Mark /\ m.told <= told /\ 1 <= m.at /\ m.at <= Len(sent) /\ Follows(m)
  BY <1>1, Zenon DEF RequestInv, StreamInv
<1>3. Len(sent) \in Nat
  BY <1>2, LenProperties
<1>4. /\ digits \in Seq(Symbol)
      /\ \A i \in 1 .. Len(digits) : digits[i] # "CR"
      /\ SizeOf(digits) = 0
  <2>1. << >> \in Extensions /\ 0 \in Nat
    BY DEF Extensions
  <2>2. /\ digits \in Seq(Symbol)
        /\ \A i \in 1 .. Len(digits \o << >>) : (digits \o << >>)[i] # "CR"
        /\ SizeOf(digits \o << >>) = 0
    BY <2>1, SizeIsRead
  <2>3. digits \o << >> = digits
    BY <2>2, ConcatEmptySeq
  <2>4. QED  BY <2>2, <2>3, Zenon
<1>5. t = Frame(sent, digits, << >>)
  <2>1. sent \o digits \o CRLF \in Seq(Symbol)
    <3>1. \A x, y, z \in Seq(Symbol) : x \o y \o z \in Seq(Symbol)
      BY ConcatProperties
    <3>2. QED  BY <1>2, <1>4, <3>1, EndLineIs, Zenon
  <2>2. sent \o digits \o CRLF \o << >> = sent \o digits \o CRLF
    BY <2>1, ConcatEmptySeq, Zenon
  <2>3. QED  BY <2>2, Zenon DEF Frame
<1> HIDE DEF t
<1>6. /\ t \in Seq(Symbol) /\ Len(t) = k + 4 + Len(<< >>)
      /\ \A i \in 1 .. Len(sent) : t[i] = sent[i]
      /\ \A i \in 1 .. Len(digits) : t[Len(sent) + i] = digits[i]
      /\ t[k + 1] = "CR" /\ t[k + 2] = "LF"
  <2>1. sent \in Seq(Symbol) /\ digits \in Seq(Symbol) /\ << >> \in Seq(Symbol)
    BY <1>2, <1>4
  <2>2. IsFrame(t, sent, digits, k, << >>)
    BY <1>5, <2>1, FrameIs, Zenon
  <2>3. QED  BY <2>2, Zenon DEF IsFrame
<1>a. Len(t) = k + 4 /\ Len(digits) \in Nat
  <2>1. Len(t) = k + 4 + 0
    BY <1>6
  <2>2. Len(digits) \in Nat
    BY <1>4, LenProperties
  <2>3. QED  BY <1>3, <2>1, <2>2
<1>7. k \in Nat /\ k + 2 <= Len(t) /\ Len(sent) <= Len(t) /\ Len(t) \in Nat
  BY <1>3, <1>a
<1>8. ASSUME NEW m \in marks
      PROVE  Follows(m)'
  <2>1. m \in Mark /\ 1 <= m.at /\ m.at <= Len(sent) /\ m.told <= told /\ Follows(m)
    BY <1>2
  <2>2. CASE m.told = told /\ m.at = Len(sent)
    <3>1. SizeLine(t, m, k, SizeOf(digits)) /\ k \in m.at .. Len(t)
      <4>1. \A i \in 1 .. Len(digits) : digits[i] # "CR" /\ t[Len(sent) + i] = digits[i]
        BY <1>4, <1>6
      <4>2. sent \in Seq(Symbol) /\ t \in Seq(Symbol) /\ digits \in Seq(Symbol)
        BY <1>2, <1>4, <1>6
      <4>3. m \in Mark /\ m.at = Len(sent)
        BY <2>1, <2>2
      <4>4. t[k + 1] = "CR" /\ t[k + 2] = "LF"
        BY <1>6
      <4> HIDE DEF k
      <4>5. k = Len(sent) + Len(digits) /\ k + 2 <= Len(t)
        BY <1>7 DEF k
      <4>6. QED  BY <4>1, <4>2, <4>3, <4>4, <4>5, LineIsSizeLine
    <3>2. SizeLine(t, m, k, 0)
      BY <1>4, <3>1
    <3>3. QED  BY <1>1, <2>2, <3>1, <3>2 DEF Follows, SizeLine
  <2>4. CASE \E u \in marks : ChunkFrom(sent, m, u)
    <3>1. PICK u \in marks : ChunkFrom(sent, m, u)
      BY <2>4
    <3>2. u \in Mark /\ u.at <= Len(sent)
      BY <1>2
    <3>3. ChunkFrom(t, m, u)
      <4>1. sent \in Seq(Symbol) /\ t \in Seq(Symbol) /\ Len(sent) <= Len(t) /\ \A i \in 1 .. Len(sent) : t[i] = sent[i]
        BY <1>2, <1>6, <1>7
      <4>2. QED  BY <2>1, <3>1, <3>2, <4>1, ChunkStays
    <3>4. QED  BY <1>1, <3>3 DEF Follows, ChunkFrom, SizeLine
  <2>5. QED  BY <1>1, <2>1, <2>2, <2>4 DEF Follows
<1>9. \A m \in marks' : m \in Mark /\ m.told <= told' /\ 1 <= m.at /\ m.at <= Len(sent') /\ Follows(m)'
  <2>1. \A m \in marks : m.at <= Len(t)
    <3>1. \A m \in marks : m.at \in Nat /\ m.at <= Len(sent)
      BY <1>2 DEF Mark
    <3>2. QED  BY <1>3, <1>7, <3>1
  <2> SUFFICES ASSUME NEW m \in marks
               PROVE  m \in Mark /\ m.told <= told /\ 1 <= m.at /\ m.at <= Len(t) /\ Follows(m)'
    BY <1>1
  <2>2. QED  BY <1>2, <1>8, <2>1
<1>10. StreamInv'
  <2>1. told' \in 0 .. Len(payload')
    BY <1>1, <1>2
  <2>2. FirstMark' = FirstMark /\ FirstMark \in marks'
    BY <1>1, <1>2 DEF FirstMark
  <2>3. TRUE \in BOOLEAN
    OBVIOUS
  <2>4. QED  BY <1>1, <1>2, <1>6, <1>9, <2>1, <2>2, <2>3, Zenon DEF StreamInv, Mark
<1>11. DecodeInv' /\ WholeOrNothing'
  BY <1>1 DEF RequestInv, DecodeInv, WholeOrNothing
<1>12. QED  BY <1>10, <1>11 DEF RequestInv

(* The first end of a line that came is the one of the size line. *)
LEMMA SizeLineIsFound ==
    ASSUME NEW s \in Seq(Symbol), NEW m \in Mark, 1 <= m.at, NEW k, NEW size, SizeLine(s, m, k, size),
           NEW r, NEW n \in 0 .. Len(s), m.at <= n, IsPart(r, s, m.at, n), LineEnds(r) # {}
    PROVE  /\ Min(LineEnds(r)) = k + 1 - m.at
           /\ k \in Nat /\ m.at <= k /\ k + 2 <= n
           /\ SizeOf(SubSeq(r, 1, Min(LineEnds(r)) - 1)) = size
<1>1. Len(s) \in Nat /\ m.at \in Nat
  BY LenProperties DEF Mark
<1>n. n \in Nat /\ n <= Len(s)
  BY <1>1
<1>2. /\ k \in m.at .. Len(s) - 2 /\ s[k + 1] = "CR" /\ s[k + 2] = "LF"
      /\ \A i \in m.at + 1 .. k : s[i] # "CR"
      /\ SizeOf(SubSeq(s, m.at + 1, k)) = size
  BY DEF SizeLine
<1>a. k \in m.at .. Len(s) - 2
  BY <1>2
<1>3. k \in Nat /\ m.at <= k
  BY <1>1, <1>a
<1>4. r \in Seq(Symbol) /\ Len(r) = n - m.at /\ \A i \in 1 .. n - m.at : r[i] = s[m.at + i]
  BY Zenon DEF IsPart
<1> DEFINE L == n - m.at
<1>5. L \in Nat /\ Len(r) = L
  BY <1>1, <1>n, <1>4
<1>6. \A x \in LineEnds(r) : x \in Nat /\ x \in 1 .. L /\ x + 1 \in 1 .. L /\ r[x] = "CR" /\ r[x + 1] = "LF"
  <2> SUFFICES ASSUME NEW x, x \in { i \in 1 .. L - 1 : r[i] = "CR" /\ r[i + 1] = "LF" }
               PROVE  x \in Nat /\ x \in 1 .. L /\ x + 1 \in 1 .. L /\ r[x] = "CR" /\ r[x + 1] = "LF"
    BY <1>5 DEF LineEnds
  <2>1. x \in 1 .. L - 1
    OBVIOUS
  <2>2. r[x] = "CR" /\ r[x + 1] = "LF"
    OBVIOUS
  <2> HIDE DEF L
  <2>3. x \in Nat /\ x \in 1 .. L /\ x + 1 \in 1 .. L
    BY <1>5, <2>1
  <2>4. QED  BY <2>2, <2>3
<1>7. \A x \in LineEnds(r) : k + 1 - m.at <= x
  <2> SUFFICES ASSUME NEW x \in LineEnds(r), ~(k + 1 - m.at <= x)
               PROVE  FALSE
    OBVIOUS
  <2>1. x \in Nat /\ x \in 1 .. L /\ r[x] = "CR"
    BY <1>6
  <2>2. s[m.at + x] = "CR"
    BY <1>4, <2>1
  <2>a. x \in Nat /\ x >= 1
    BY <1>5, <2>1
  <2>3. m.at + x \in m.at + 1 .. k
    BY <1>1, <1>3, <2>a
  <2>4. QED  BY <1>2, <2>2, <2>3, Zenon
<1>8. k + 2 <= n
  <2>1. PICK x : x \in LineEnds(r)
    OBVIOUS
  <2>2. x \in Nat /\ x + 1 \in 1 .. L
    BY <1>6, <2>1
  <2>3. k + 1 - m.at <= x
    BY <1>7, <2>1
  <2>4. QED  BY <1>1, <1>n, <1>3, <2>2, <2>3
<1>9. k + 1 - m.at \in LineEnds(r)
  <2> DEFINE y == k + 1 - m.at
  <2>1. /\ y \in 1 .. L - 1 /\ y \in 1 .. L /\ y + 1 \in 1 .. L
        /\ m.at + y = k + 1 /\ m.at + (y + 1) = k + 2
    BY <1>1, <1>n, <1>3, <1>8
  <2> HIDE DEF y
  <2>2. r[y] = "CR" /\ r[y + 1] = "LF"
    BY <1>2, <1>4, <2>1, Zenon
  <2>3. y \in LineEnds(r)
    BY <1>5, <2>1, <2>2, Zenon DEF LineEnds
  <2>4. QED  BY <2>3 DEF y
<1>10. Min(LineEnds(r)) = k + 1 - m.at
  <2> DEFINE y == k + 1 - m.at
             E == LineEnds(r)
  <2>1. y \in E /\ \A x \in E : x \in Int /\ y <= x
    BY <1>6, <1>7, <1>9
  <2>a. y \in Int
    BY <1>1, <1>3
  <2> HIDE DEF y, E
  <2>2. Min(E) = y
    <3>1. ASSUME NEW z \in E, \A x \in E : z <= x
          PROVE  z = y
      <4>1. z <= y /\ y <= z /\ z \in Int
        BY <2>1, <3>1
      <4>2. QED  BY <2>a, <4>1
    <3>2. Min(E) = CHOOSE z \in E : \A x \in E : z <= x
      BY Zenon DEF Min
    <3>3. QED  BY <2>1, <3>1, <3>2, Zenon
  <2>3. QED  BY <2>2 DEF y, E
<1>11. SubSeq(r, 1, k - m.at) = SubSeq(s, m.at + 1, k)
  <2> DEFINE x == SubSeq(r, 1, k - m.at)
             y == SubSeq(s, m.at + 1, k)
  <2>1. IsPart(SubSeq(r, 0 + 1, k - m.at), s, m.at + 0, m.at + (k - m.at))
    <3>1. 0 \in Nat /\ k - m.at \in Nat /\ 0 <= k - m.at /\ k - m.at <= n - m.at
      BY <1>1, <1>n, <1>3, <1>8
    <3>2. QED  BY <1>1, <1>n, <3>1, PartOfPart
  <2>2. 0 + 1 = 1 /\ m.at + 0 = m.at /\ m.at + (k - m.at) = k
    BY <1>1, <1>3
  <2>3. IsPart(x, s, m.at, k)
    BY <2>1, <2>2, Zenon
  <2>4. k <= Len(s)
    BY <1>1, <1>a
  <2>5. IsPart(y, s, m.at, k)
    BY <1>1, <1>3, <2>4, PartIsPart
  <2> HIDE DEF x, y
  <2>6. x \in Seq(Symbol) /\ y \in Seq(Symbol) /\ Len(x) = Len(y) /\ \A i \in 1 .. Len(x) : x[i] = y[i]
    BY <2>3, <2>5, Zenon DEF IsPart
  <2>7. x = y
    BY <2>6, SeqEqual
  <2>8. QED  BY <2>7 DEF x, y
<1>12. Min(LineEnds(r)) - 1 = k - m.at
  BY <1>1, <1>3, <1>10
<1>13. QED  BY <1>2, <1>3, <1>8, <1>10, <1>11, <1>12, Zenon

EndsAt(at, k, n, sz, l, end, next) ==
    /\ next <= n
    /\ l + 1 \in Nat /\ end \in Nat /\ l + 1 <= end /\ end <= n - at
    /\ at + (l + 1) = k + 2 /\ at + end = k + 2 + sz /\ (l + 1) + 1 = l + 2
    /\ end + 2 \in Nat /\ n - at \in Nat /\ end + 2 <= n - at /\ n - at <= n - at
    /\ at + (end + 2) = next /\ at + (n - at) = n /\ (end + 2) + 1 = end + 3

LEMMA ChunkEnds ==
    ASSUME NEW at \in Nat, NEW k \in Nat, NEW n \in Nat, NEW sz \in Nat, at <= k,
           NEW l, l = k + 1 - at, NEW end, end = l + 1 + sz, ~(end + 2 > n - at),
           NEW next, next = k + 4 + sz
    PROVE  EndsAt(at, k, n, sz, l, end, next)
  BY DEF EndsAt

LEMMA DecodeChunkInv ==
    ASSUME RequestInv, DecodeChunk
    PROVE  RequestInv'
<1>1. UNCHANGED <<payload, framing, sent, told, ended, marks>> /\ step = "decode"
  BY DEF DecodeChunk, responseVars
<1>2. StreamInv'
  BY <1>1, StreamStays DEF RequestInv
<1>3. /\ payload \in Payloads /\ sent \in Seq(Symbol) /\ framing.chunked
      /\ \A m \in marks :
            m \in Mark /\ m.told <= told /\ 1 <= m.at /\ m.at <= Len(sent) /\ Follows(m)
  BY <1>1 DEF RequestInv, StreamInv, DecodeInv
<1>4. PICK m \in marks, n \in 0 .. Len(sent) :
          m.at <= n /\ IsPart(rest, sent, m.at, n) /\ IsPart(out, payload, 0, m.told)
  BY <1>1 DEF RequestInv, DecodeInv
<1>5. m \in Mark /\ 1 <= m.at /\ m.at <= Len(sent) /\ Follows(m)
  BY <1>3
<1>6. Len(sent) \in Nat /\ n \in Nat /\ n <= Len(sent) /\ m.at \in Nat /\ m.told \in Nat
  <2>1. Len(sent) \in Nat
    BY <1>3, LenProperties
  <2>2. QED  BY <1>5, <2>1 DEF Mark
<1>7. ASSUME step' = "done", reply' = Nothing
      PROVE  RequestInv'
  BY <1>2, <1>7 DEF RequestInv, DecodeInv, WholeOrNothing
<1>8. CASE LineEnds(rest) = {}
  <2>1. step' = "done" /\ reply' = Nothing
    BY <1>8 DEF DecodeChunk, Answer, Unfinished
  <2>2. QED  BY <1>7, <2>1
<1>9. CASE LineEnds(rest) # {}
  <2> DEFINE line_end == Min(LineEnds(rest))
             size == SizeOf(SubSeq(rest, 1, line_end - 1))
             end == line_end + 1 + size
  <2>1. IF size = -1 THEN Answer(Unfinished) /\ UNCHANGED <<rest, out>>
        ELSE IF size = 0 THEN Answer(out) /\ UNCHANGED <<rest, out>>
        ELSE IF end + 2 > Len(rest) THEN Answer(Unfinished) /\ UNCHANGED <<rest, out>>
        ELSE /\ out' = out \o SubSeq(rest, line_end + 2, end)
             /\ rest' = SubSeq(rest, end + 3, Len(rest))
             /\ UNCHANGED <<step, reply>>
    BY <1>9, Zenon DEF DecodeChunk
  <2>2. m.at < Len(sent)
    <3>1. Len(rest) = n - m.at /\ n - m.at \in Nat
      BY <1>4, <1>6 DEF IsPart
    <3>2. PICK x : x \in LineEnds(rest)
      BY <1>9
    <3>3. x \in 1 .. Len(rest) - 1
      BY <3>2 DEF LineEnds
    <3>4. QED  BY <1>6, <3>1, <3>3
  <2>3. ASSUME NEW k, NEW sz, SizeLine(sent, m, k, sz)
        PROVE  line_end = k + 1 - m.at /\ k \in Nat /\ m.at <= k /\ k + 2 <= n /\ size = sz
    <3>1. sent \in Seq(Symbol) /\ m \in Mark /\ 1 <= m.at /\ SizeLine(sent, m, k, sz)
      BY <1>3, <1>5, <2>3
    <3>2. n \in 0 .. Len(sent) /\ m.at <= n /\ IsPart(rest, sent, m.at, n) /\ LineEnds(rest) # {}
      BY <1>4, <1>9
    <3>3. QED  BY <3>1, <3>2, SizeLineIsFound
  <2> HIDE DEF size, line_end
  <2>4. CASE m.told = Len(payload) /\ \E k \in m.at .. Len(sent) : SizeLine(sent, m, k, 0)
    <3>1. size = 0
      BY <2>3, <2>4, Zenon
    <3>2. step' = "done" /\ reply' = out
      <4>1. 0 # -1
        OBVIOUS
      <4>2. QED  BY <2>1, <3>1, <4>1, Zenon DEF Answer
    <3>3. out = payload
      BY <1>3, <1>4, <2>4, PayloadIs, PartIsAll
    <3>4. DecodeInv' /\ WholeOrNothing'
      BY <1>1, <3>2, <3>3 DEF DecodeInv, WholeOrNothing
    <3>5. QED  BY <1>2, <3>4 DEF RequestInv
  <2>5. CASE \E u \in marks : ChunkFrom(sent, m, u)
    <3>1. PICK u \in marks : ChunkFrom(sent, m, u)
      BY <2>5
    <3>2. PICK k \in m.at .. Len(sent) :
              /\ SizeLine(sent, m, k, u.told - m.told)
              /\ u.at = k + 4 + (u.told - m.told)
              /\ \A j \in 1 .. u.told - m.told : sent[k + 2 + j] = payload[m.told + j]
      BY <3>1 DEF ChunkFrom
    <3> DEFINE sz == u.told - m.told
    <3>a. u.told \in Nat /\ u.at \in Nat /\ u.told > m.told
      BY <1>3, <3>1 DEF Mark, ChunkFrom
    <3>3. sz \in Nat /\ sz > 0 /\ m.told + sz = u.told /\ m.told <= u.told
      BY <1>6, <3>a
    <3>4. line_end = k + 1 - m.at /\ k \in Nat /\ m.at <= k /\ k + 2 <= n /\ size = sz
      BY <2>3, <3>2
    <3>b. u.at = k + 4 + sz
      BY <3>2
    <3> HIDE DEF sz
    <3>5. size # -1 /\ size # 0
      BY <3>3, <3>4
    <3>6. Len(rest) = n - m.at
      BY <1>4 DEF IsPart
    <3>7. CASE end + 2 > Len(rest)
      <4>1. step' = "done" /\ reply' = Nothing
        BY <2>1, <3>5, <3>7, Zenon DEF Answer, Unfinished
      <4>2. QED  BY <1>7, <4>1
    <3>8. CASE ~(end + 2 > Len(rest))
      <4>1. /\ out' = out \o SubSeq(rest, line_end + 2, end)
            /\ rest' = SubSeq(rest, end + 3, Len(rest))
            /\ UNCHANGED <<step, reply>>
        BY <2>1, <3>5, <3>8, Zenon
      <4>2. end = line_end + 1 + sz
        BY <3>4
      <4> HIDE DEF end
      <4> DEFINE c == line_end + 1
      <4>4. /\ u.at <= n
            /\ c \in Nat /\ end \in Nat /\ c <= end /\ end <= n - m.at
            /\ m.at + c = k + 2 /\ m.at + end = k + 2 + sz /\ c + 1 = line_end + 2
            /\ end + 2 \in Nat /\ n - m.at \in Nat /\ end + 2 <= n - m.at /\ n - m.at <= n - m.at
            /\ m.at + (end + 2) = u.at /\ m.at + (n - m.at) = n /\ (end + 2) + 1 = end + 3
        <5>1. /\ m.at \in Nat /\ k \in Nat /\ n \in Nat /\ sz \in Nat /\ m.at <= k
              /\ line_end = k + 1 - m.at /\ u.at = k + 4 + sz /\ ~(end + 2 > n - m.at)
          BY <1>6, <3>3, <3>4, <3>6, <3>8, <3>b, Zenon
        <5>2. EndsAt(m.at, k, n, sz, line_end, end, u.at)
          BY <4>2, <5>1, ChunkEnds, Zenon
        <5>3. QED  BY <5>2, Zenon DEF EndsAt
      <4>3. u.at <= n
        BY <4>4
      <4> HIDE DEF c
      <4>5. IsPart(SubSeq(rest, line_end + 2, end), sent, k + 2, k + 2 + sz)
        <5>1. IsPart(SubSeq(rest, c + 1, end), sent, m.at + c, m.at + end)
          BY <1>4, <1>6, <4>4, PartOfPart
        <5>2. QED  BY <4>4, <5>1, Zenon
      <4>6. IsPart(SubSeq(rest, line_end + 2, end), payload, m.told, u.told)
        <5> DEFINE x == SubSeq(rest, line_end + 2, end)
        <5>1. (k + 2 + sz) - (k + 2) = sz /\ u.told - m.told = sz
          BY <3>3, <3>4 DEF sz
        <5>2. x \in Seq(Symbol) /\ Len(x) = sz /\ \A j \in 1 .. sz : x[j] = sent[k + 2 + j]
          BY <4>5, <5>1, Zenon DEF IsPart
        <5> HIDE DEF x
        <5>3. \A j \in 1 .. sz : x[j] = payload[m.told + j]
          BY <3>2, <5>1, <5>2, Zenon
        <5>4. IsPart(x, payload, m.told, u.told)
          BY <5>1, <5>2, <5>3, Zenon DEF IsPart
        <5>5. QED  BY <5>4 DEF x
      <4>7. IsPart(out', payload, 0, u.told)
        BY <1>4, <1>6, <3>3, <3>a, <4>1, <4>6, PartsJoined
      <4>8. IsPart(rest', sent, u.at, n)
        <5> DEFINE d == end + 2
                   L == n - m.at
        <5>1. /\ d \in Nat /\ L \in Nat /\ d <= L /\ L <= n - m.at
              /\ m.at + d = u.at /\ m.at + L = n /\ d + 1 = end + 3 /\ Len(rest) = L
          BY <3>6, <4>4, Zenon
        <5> HIDE DEF d, L
        <5>2. IsPart(SubSeq(rest, d + 1, L), sent, m.at + d, m.at + L)
          BY <1>4, <1>6, <5>1, PartOfPart
        <5>3. QED  BY <4>1, <5>1, <5>2, Zenon
      <4>9. DecodeInv'
        <5>1. \E q \in marks, p \in 0 .. Len(sent) :
                 q.at <= p /\ IsPart(rest', sent, q.at, p) /\ IsPart(out', payload, 0, q.told)
          BY <3>1, <4>3, <4>7, <4>8, Zenon
        <5>2. QED  BY <1>1, <1>3, <4>1, <5>1 DEF DecodeInv
      <4>10. WholeOrNothing'
        BY <1>1, <4>1 DEF WholeOrNothing
      <4>11. QED  BY <1>2, <4>9, <4>10 DEF RequestInv
    <3>9. QED  BY <3>7, <3>8
  <2>6. ~(m.at = Len(sent))
    BY <1>6, <2>2
  <2>7. QED  BY <1>5, <2>4, <2>5, <2>6, Zenon DEF Follows
<1>10. QED  BY <1>8, <1>9

LEMMA NextInv ==
    ASSUME RequestInv, [RequestNext]_requestVars
    PROVE  RequestInv'
<1>1. CASE UNCHANGED requestVars
  <2>1. UNCHANGED <<payload, framing, sent, told, ended, marks, step, rest, out, reply>>
    BY <1>1 DEF requestVars, responseVars
  <2>2. StreamInv'
    BY <2>1, StreamStays DEF RequestInv
  <2>3. DecodeInv' /\ WholeOrNothing'
    BY <2>1 DEF RequestInv, DecodeInv, WholeOrNothing
  <2>4. QED  BY <2>2, <2>3 DEF RequestInv
<1>2. CASE RequestNext
  BY <1>2, NextRequestInv, FailsInv, SendChunkInv, SendLastInv, ReadToEndInv, DecodeChunkInv DEF RequestNext
<1>3. QED  BY <1>1, <1>2

(* The caller is given all of what the engine said or nothing: whatever the
   payload, however it is cut into chunks, how large they are and wherever
   the connection ends. *)
THEOREM AnswersAreWhole == RequestSpec => []WholeOrNothing
<1>1. RequestSpec => []RequestInv
  BY InitInv, NextInv, PTL DEF RequestSpec
<1>2. RequestInv => WholeOrNothing
  BY DEF RequestInv
<1>3. QED  BY <1>1, <1>2, PTL
===============================================================================
