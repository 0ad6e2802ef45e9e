----------------------------- MODULE SamplerProofs -----------------------------
(***************************************************************************)
(* Proofs about Sampler for every interval, window, nap, save period, work *)
(* of the collectors, and every number of samples and restarts: what the   *)
(* history holds, and then how long a shutdown takes, how far apart ticks  *)
(* are, and how much a kill can lose; and then HttpServer on top of it.    *)
(***************************************************************************)
EXTENDS HttpServer, SequenceTheorems, FiniteSetTheorems, TLAPS

(* A quotient of naturals is a natural. *)
LEMMA DivNat ==
    ASSUME NEW a \in Nat, NEW b \in Nat \ {0}
    PROVE  a \div b \in Nat /\ (a >= b => a \div b >= 1)
OBVIOUS

(* The window has room for a sample. *)
LEMMA CapPositive == HistoryCap \in Nat \ {0}
<1>1. HistorySecs * Sec \in Nat /\ HistorySecs * Sec >= 1
  BY TimeAssumption
<1>2. HistorySecs * Sec + Interval - 1 \in Nat
      /\ HistorySecs * Sec + Interval - 1 >= Interval
  BY <1>1, TimeAssumption
<1>3. QED  BY <1>2, DivNat, TimeAssumption DEF HistoryCap

LEMMA WallSecsNat ==
    ASSUME NEW t \in Nat, skew \in Nat
    PROVE  WallSecs(t) \in Nat
BY DivNat, TimeAssumption DEF WallSecs

LEMMA SubtractAtMost ==
    ASSUME NEW a \in Nat, NEW c \in Nat
    PROVE  /\ Saturating(a, c) \in 0 .. a
           /\ a - Saturating(a, c) = Least(a, c)
BY DEF Saturating, Least

(* Trimming keeps the newest points, in their places from the end. *)
LEMMA TrimmedKeepsNewest ==
    ASSUME NEW h \in Seq(Point)
    PROVE  /\ Trimmed(h) \in Seq(Point)
           /\ Len(Trimmed(h)) = Least(Len(h), HistoryCap)
           /\ \A i \in 1 .. Len(Trimmed(h)) :
                 Trimmed(h)[i] = h[Saturating(Len(h), HistoryCap) + i]
           /\ h # << >> => /\ Trimmed(h) # << >>
                          /\ Trimmed(h)[Len(Trimmed(h))] = h[Len(h)]
<1> DEFINE d == Saturating(Len(h), HistoryCap)
<1>1. /\ Len(h) \in Nat /\ d \in 0 .. Len(h)
      /\ Len(h) - d = Least(Len(h), HistoryCap)
  <2>1. Len(h) \in Nat
    BY LenProperties
  <2>2. HistoryCap \in Nat
    BY CapPositive
  <2>3. QED  BY <2>1, <2>2, SubtractAtMost
<1>2. /\ Trimmed(h) \in Seq(Point)
      /\ Len(Trimmed(h)) = Len(h) - d
      /\ \A i \in 1 .. Len(h) - d : Trimmed(h)[i] = h[d + i]
  BY <1>1, SubSeqProperties DEF Trimmed
<1>3. h # << >> => Len(h) > 0 /\ Len(h) - d > 0
  BY <1>1, CapPositive, EmptySeq DEF Least
<1>4. QED  BY <1>1, <1>2, <1>3, EmptySeq

-----------------------------------------------------------------------------
(* A selection in order of the saved points is a list of points, each of
   them one of the saved ones, in the order they were saved in. *)
LEMMA FreshIsFinite ==
    ASSUME NEW h \in Seq(Point)
    PROVE  Cardinality(Fresh(h)) \in Nat
<1>1. Len(h) \in Nat
  BY LenProperties
<1>2. IsFiniteSet(1 .. Len(h)) /\ Fresh(h) \subseteq 1 .. Len(h)
  BY <1>1, FS_Interval DEF Fresh
<1>3. QED  BY <1>2, FS_Subset, FS_CardinalityType

LEMMA PickedIsSelection ==
    ASSUME NEW h \in Seq(Point), NEW f \in InOrder(Fresh(h))
    PROVE  /\ Picked(h, f) \in Seq(Point)
           /\ \A i \in 1 .. Len(Picked(h, f)) :
                 /\ f[i] \in 1 .. Len(h)
                 /\ Picked(h, f)[i] = h[f[i]]
           /\ \A i, j \in 1 .. Len(Picked(h, f)) : i < j => f[i] < f[j]
<1> DEFINE c == Cardinality(Fresh(h))
           e(i) == h[f[i]]
<1>1. c \in Nat
  BY FreshIsFinite
<1>2. \A i \in 1 .. c : f[i] \in 1 .. Len(h)
  BY DEF InOrder, Fresh
<1>3. \A i \in 1 .. c : e(i) \in Point
  BY <1>2, ElementOfSeq
<1>4. [i \in 1 .. c |-> e(i)] \in Seq(Point)
  BY <1>1, <1>3, IsASeq
<1>5. Len([i \in 1 .. c |-> e(i)]) = c
  BY <1>1, <1>4, LenProperties
<1>6. QED  BY <1>2, <1>4, <1>5 DEF Picked, InOrder

-----------------------------------------------------------------------------
(* Types.  A tick starts no later than now, so that its cost is a natural. *)
TypeInv == TypeOK /\ tick_start <= now /\ last_save <= now

LEMMA NoPointType == NoPoint \in Point /\ << >> \in Seq(Point)
BY EmptySeq DEF NoPoint, Point

LEMMA TypeInit == Init => TypeInv
<1> SUFFICES ASSUME Init
             PROVE  TypeInv
  OBVIOUS
<1> USE DEF Init, FreshProcess
<1>1. now \in Nat /\ skew \in Nat /\ tick_start <= now /\ last_save <= now
  BY TimeAssumption
<1>2. /\ pc \in PCs /\ reqIn \in PCs
      /\ requested \in BOOLEAN /\ save_err_logged \in BOOLEAN
  BY DEF PCs
<1>3. history \in Seq(Point) /\ file \in Seq(Point) /\ atExit \in Seq(Point)
      /\ point \in Point
  BY NoPointType
<1>4. /\ json \in Nat /\ prom \in Nat /\ n \in Nat /\ starts \in Nat
      /\ remaining \in Nat /\ work \in Nat /\ tick_start \in Nat /\ last_save \in Nat
      /\ reqAt \in Nat /\ gap \in Nat
  OBVIOUS
<1>5. QED  BY <1>1, <1>2, <1>3, <1>4 DEF TypeInv, TypeOK

LEMMA ProcessEndsType ==
    ASSUME TypeInv, ProcessEnds, file' \in Seq(Point), atExit' \in Seq(Point)
    PROVE  TypeInv'
<1> USE DEF ProcessEnds, clock
<1>1. /\ now' \in Nat /\ skew' \in Nat /\ n' \in Nat /\ starts' \in Nat
      /\ tick_start' <= now' /\ last_save' <= now'
  BY DEF TypeInv, TypeOK
<1>2. /\ pc' \in PCs /\ reqIn' \in PCs
      /\ requested' \in BOOLEAN /\ save_err_logged' \in BOOLEAN
  BY DEF PCs
<1>3. history' \in Seq(Point) /\ point' \in Point
  BY NoPointType
<1>4. /\ json' \in Nat /\ prom' \in Nat
      /\ remaining' \in Nat /\ work' \in Nat /\ tick_start' \in Nat /\ last_save' \in Nat
      /\ reqAt' \in Nat /\ gap' \in Nat
  OBVIOUS
<1>5. QED  BY <1>1, <1>2, <1>3, <1>4 DEF TypeInv, TypeOK

LEMMA TypeStep == TypeInv /\ [Next]_vars => TypeInv'
<1> SUFFICES ASSUME TypeInv, [Next]_vars
             PROVE  TypeInv'
  OBVIOUS
<1> USE DEF TypeInv, TypeOK, PCs, clock, shared, loop, ghosts
<1>1. CASE WarmUpSleep
  BY <1>1, TimeAssumption DEF WarmUpSleep
<1>2. ASSUME NEW c \in Nat
      PROVE  SleepAfter(c) \in Nat
  BY <1>2, TimeAssumption DEF SleepAfter, Saturating
<1>3. CASE Restore
  <2>1. history' \in Seq(Point)
    <3>1. CASE Persist
      <4>1. PICK f \in InOrder(Fresh(file)) : history' = Trimmed(Picked(file, f))
        BY <1>3, <3>1 DEF Restore
      <4>2. QED  BY <4>1, PickedIsSelection, TrimmedKeepsNewest
    <3>2. CASE ~Persist
      BY <1>3, <3>2, NoPointType DEF Restore
    <3>3. QED  BY <3>1, <3>2
  <2>2. QED  BY <1>2, <1>3, <2>1 DEF Restore
<1>4. CASE RestoreNothing
  BY <1>2, <1>4 DEF RestoreNothing
<1>5. CASE SleepHead
  BY <1>5 DEF SleepHead
<1>6. CASE Nap
  <2>1. /\ Least(remaining, NapStep) \in Nat
        /\ remaining - Least(remaining, NapStep) \in Nat
    BY TimeAssumption DEF Least
  <2>2. QED  BY <1>6, <2>1 DEF Nap
<1>7. CASE FlushAndExit
  <2>1. file' \in Seq(Point) /\ atExit' \in Seq(Point)
    BY <1>7, NoPointType DEF FlushAndExit
  <2>2. QED  BY <1>7, <2>1, ProcessEndsType DEF FlushAndExit
<1>8. CASE BeginTick
  BY <1>8 DEF BeginTick
<1>9. CASE Collect
  <2>1. PICK w \in WorkTimes :
           /\ now' = now + w
           /\ point' = [n |-> n + 1, ts |-> WallSecs(now + w), at |-> now + w]
    BY <1>9 DEF Collect
  <2>2. w \in Nat /\ now + w \in Nat
    BY TimeAssumption
  <2>3. WallSecs(now + w) \in Nat
    BY <2>2, WallSecsNat
  <2>4. point' \in Point
    BY <2>1, <2>2, <2>3 DEF Point
  <2>5. QED  BY <1>9, <2>1, <2>2, <2>4 DEF Collect
<1>10. CASE PublishJson
  BY <1>10 DEF PublishJson, Point
<1>11. CASE PublishProm
  BY <1>11 DEF PublishProm, Point
<1>12. CASE PushHistory
  <2>1. Append(history, point) \in Seq(Point)
    BY AppendProperties
  <2>2. history' \in Seq(Point)
    BY <1>12, <2>1, TrimmedKeepsNewest DEF PushHistory
  <2>3. QED  BY <1>12, <2>2 DEF PushHistory
<1>13. CASE SaveAndEndTick
  <2>1. now - tick_start \in Nat
    OBVIOUS
  <2>2. SleepAfter(now - tick_start) \in Nat
    BY <1>2, <2>1
  <2>3. file' \in Seq(Point) /\ last_save' \in Nat /\ last_save' <= now
    BY <1>13 DEF SaveAndEndTick
  <2>4. save_err_logged' \in BOOLEAN
    BY <1>13, Zenon DEF SaveAndEndTick
  <2>5. QED  BY <1>13, <2>1, <2>2, <2>3, <2>4 DEF SaveAndEndTick
<1>14. CASE Start
  BY <1>14, TimeAssumption DEF Start
<1>15. CASE Signal
  BY <1>15 DEF Signal
<1>16. CASE Crash
  BY <1>16, ProcessEndsType, NoPointType DEF Crash
<1>17. CASE StepClock
  BY <1>17, TimeAssumption DEF StepClock
<1>18. CASE UNCHANGED vars
  BY <1>18 DEF vars
<1>19. QED
  BY <1>1, <1>3, <1>4, <1>5, <1>6, <1>7, <1>8, <1>9, <1>10, <1>11, <1>12, <1>13,
     <1>14, <1>15, <1>16, <1>17, <1>18 DEF Next, Thread

(* The shared state, the loop's locals and the file have their types. *)
THEOREM TypeCorrect == Spec => []TypeOK
<1>1. TypeInv => TypeOK
  BY DEF TypeInv
<1>2. QED  BY <1>1, TypeInit, TypeStep, PTL DEF Spec

-----------------------------------------------------------------------------
(* The order of the samples. *)
OrderedUpTo(h, m) == Ordered(h) /\ \A i \in 1 .. Len(h) : h[i].n <= m

Kept(h, m) == OrderedUpTo(h, m) /\ Len(h) <= HistoryCap

(* Every sample in memory and in the file has been taken; the one of this
   tick is newer than those in memory until it joins them. *)
OrderInv ==
    /\ Kept(history, n)
    /\ Kept(file, n)
    /\ pc \in {"json", "prom", "push"} => point.n = n /\ Kept(history, n - 1)

LEMMA NothingKept == ASSUME NEW m \in Nat PROVE Kept(<< >>, m)
BY CapPositive, EmptySeq DEF Kept, OrderedUpTo, Ordered

LEMMA NumbersAreNat ==
    ASSUME NEW h \in Seq(Point) PROVE \A i \in 1 .. Len(h) : h[i].n \in Nat
<1>1. \A i \in 1 .. Len(h) : h[i] \in Point
  BY ElementOfSeq
<1>2. \A x \in Point : x.n \in Nat
  BY DEF Point
<1>3. QED  BY <1>1, <1>2

LEMMA KeptLater ==
    ASSUME NEW h \in Seq(Point), NEW m \in Int, NEW k \in Int, m <= k, Kept(h, m)
    PROVE  Kept(h, k)
<1>1. \A i \in 1 .. Len(h) : h[i].n \in Nat
  BY NumbersAreNat
<1>2. QED  BY <1>1 DEF Kept, OrderedUpTo

LEMMA TrimmedKept ==
    ASSUME NEW h \in Seq(Point), NEW m \in Nat, OrderedUpTo(h, m)
    PROVE  Kept(Trimmed(h), m)
<1> DEFINE d == Saturating(Len(h), HistoryCap)
           t == Trimmed(h)
<1>1. /\ Len(h) \in Nat /\ HistoryCap \in Nat
      /\ d \in 0 .. Len(h) /\ Len(h) - d = Least(Len(h), HistoryCap)
  BY LenProperties, CapPositive, SubtractAtMost
<1>2. /\ Len(t) = Len(h) - d
      /\ \A i \in 1 .. Len(t) : t[i] = h[d + i]
  BY <1>1, TrimmedKeepsNewest
<1>3. Len(t) <= HistoryCap
  BY <1>1, <1>2 DEF Least
<1> HIDE DEF d, t
<1>4. \A i \in 1 .. Len(t) : d + i \in 1 .. Len(h)
  BY <1>1, <1>2
<1>5. Ordered(t)
  BY <1>1, <1>2, <1>4 DEF OrderedUpTo, Ordered
<1>6. \A i \in 1 .. Len(t) : t[i].n <= m
  BY <1>2, <1>4 DEF OrderedUpTo
<1>7. QED  BY <1>3, <1>5, <1>6 DEF Kept, OrderedUpTo, t

LEMMA PickedOrdered ==
    ASSUME NEW h \in Seq(Point), NEW m \in Nat, OrderedUpTo(h, m),
           NEW f \in InOrder(Fresh(h))
    PROVE  OrderedUpTo(Picked(h, f), m)
<1> DEFINE p == Picked(h, f)
<1>1. /\ \A i \in 1 .. Len(p) : f[i] \in 1 .. Len(h) /\ p[i] = h[f[i]]
      /\ \A i, j \in 1 .. Len(p) : i < j => f[i] < f[j]
  BY PickedIsSelection
<1> HIDE DEF p
<1>2. Ordered(p)
  BY <1>1 DEF OrderedUpTo, Ordered
<1>3. \A i \in 1 .. Len(p) : p[i].n <= m
  BY <1>1 DEF OrderedUpTo
<1>4. QED  BY <1>2, <1>3 DEF OrderedUpTo, p

LEMMA AppendOrdered ==
    ASSUME NEW h \in Seq(Point), NEW x \in Point, OrderedUpTo(h, x.n - 1)
    PROVE  OrderedUpTo(Append(h, x), x.n)
<1> DEFINE a == Append(h, x)
<1>1. /\ Len(h) \in Nat /\ Len(a) = Len(h) + 1
      /\ \A i \in 1 .. Len(h) : a[i] = h[i]
      /\ a[Len(h) + 1] = x
  BY LenProperties, AppendProperties
<1>2. \A i \in 1 .. Len(h) : h[i].n \in Nat /\ h[i].n <= x.n - 1
  BY NumbersAreNat DEF OrderedUpTo
<1>3. x.n \in Nat
  BY DEF Point
<1> HIDE DEF a
<1>4. ASSUME NEW i \in 1 .. Len(a), NEW j \in 1 .. Len(a), i < j
      PROVE  a[i].n < a[j].n
  <2>1. i \in 1 .. Len(h) /\ a[i] = h[i]
    BY <1>1, <1>4
  <2>2. CASE j = Len(h) + 1
    BY <1>1, <1>2, <1>3, <2>1, <2>2
  <2>3. CASE j # Len(h) + 1
    <3>1. j \in 1 .. Len(h) /\ a[j] = h[j]
      BY <1>1, <2>3
    <3>2. QED  BY <1>4, <2>1, <3>1 DEF OrderedUpTo, Ordered
  <2>4. QED  BY <2>2, <2>3
<1>5. ASSUME NEW i \in 1 .. Len(a)
      PROVE  a[i].n <= x.n
  <2>1. CASE i = Len(h) + 1
    BY <1>1, <1>3, <2>1
  <2>2. CASE i # Len(h) + 1
    <3>1. i \in 1 .. Len(h) /\ a[i] = h[i]
      BY <1>1, <2>2
    <3>2. QED  BY <1>2, <1>3, <3>1
  <2>3. QED  BY <2>1, <2>2
<1>6. QED  BY <1>4, <1>5 DEF OrderedUpTo, Ordered, a

LEMMA OrderInit == Init => OrderInv
BY NothingKept DEF Init, FreshProcess, OrderInv

LEMMA OrderStep == TypeInv /\ OrderInv /\ [Next]_vars => OrderInv'
<1> SUFFICES ASSUME TypeInv, OrderInv, [Next]_vars
             PROVE  OrderInv'
  OBVIOUS
<1> USE DEF clock, shared, loop, ghosts
<1>1. /\ n \in Nat /\ history \in Seq(Point) /\ file \in Seq(Point) /\ point \in Point
      /\ Kept(history, n) /\ Kept(file, n)
  BY DEF TypeInv, TypeOK, OrderInv
<1>2. CASE \/ WarmUpSleep \/ RestoreNothing \/ SleepHead \/ Nap \/ BeginTick
           \/ Start \/ Signal \/ StepClock \/ UNCHANGED vars
  <2>1. /\ history' = history /\ file' = file /\ n' = n /\ point' = point
        /\ pc' \in {"json", "prom", "push"} => pc' = pc
    BY <1>2 DEF WarmUpSleep, RestoreNothing, SleepHead, Nap, BeginTick, Start,
                Signal, StepClock, vars
  <2>2. QED  BY <2>1 DEF OrderInv, Kept, OrderedUpTo, Ordered
<1>3. CASE PublishJson \/ PublishProm
  <2>1. /\ history' = history /\ file' = file /\ n' = n /\ point' = point
        /\ pc \in {"json", "prom", "push"}
    BY <1>3 DEF PublishJson, PublishProm
  <2>2. QED  BY <2>1 DEF OrderInv, Kept, OrderedUpTo, Ordered
<1>4. CASE Restore
  <2>1. /\ file' = file /\ n' = n /\ pc' = "sleep"
    BY <1>4 DEF Restore
  <2>2. Kept(history', n)
    <3>1. CASE Persist
      <4>1. PICK f \in InOrder(Fresh(file)) : history' = Trimmed(Picked(file, f))
        BY <1>4, <3>1 DEF Restore
      <4>2. OrderedUpTo(Picked(file, f), n) /\ Picked(file, f) \in Seq(Point)
        BY <1>1, PickedOrdered, PickedIsSelection DEF Kept
      <4>3. QED  BY <1>1, <4>1, <4>2, TrimmedKept
    <3>2. CASE ~Persist
      BY <1>1, <1>4, <3>2, NothingKept DEF Restore
    <3>3. QED  BY <3>1, <3>2
  <2>3. Kept(history', n') /\ Kept(file', n')
    BY <1>1, <2>1, <2>2
  <2>4. QED  BY <2>1, <2>3 DEF OrderInv, Kept, OrderedUpTo, Ordered
<1>5. CASE Collect
  <2>1. /\ history' = history /\ file' = file /\ point'.n = n'
        /\ n' = n + 1 /\ n' \in Int /\ n' - 1 = n
    BY <1>1, <1>5 DEF Collect
  <2>2. Kept(history', n') /\ Kept(file', n') /\ Kept(history', n' - 1)
    BY <1>1, <2>1, KeptLater
  <2>3. QED  BY <2>1, <2>2 DEF OrderInv, Kept, OrderedUpTo, Ordered
<1>6. CASE PushHistory
  <2>1. point.n = n /\ Kept(history, n - 1)
    BY <1>6 DEF PushHistory, OrderInv
  <2>2. OrderedUpTo(Append(history, point), n) /\ Append(history, point) \in Seq(Point)
    BY <1>1, <2>1, AppendOrdered, AppendProperties DEF Kept
  <2>3. Kept(history', n)
    BY <1>1, <1>6, <2>2, TrimmedKept DEF PushHistory
  <2>4. /\ file' = file /\ n' = n /\ pc' = "save"
    BY <1>6 DEF PushHistory
  <2>5. QED  BY <1>1, <2>3, <2>4 DEF OrderInv, Kept, OrderedUpTo, Ordered
<1>7. CASE SaveAndEndTick
  <2>1. /\ history' = history /\ n' = n /\ pc' = "sleep"
        /\ file' = file \/ file' = history
    BY <1>7 DEF SaveAndEndTick
  <2>2. QED  BY <1>1, <2>1 DEF OrderInv, Kept, OrderedUpTo, Ordered
<1>8. CASE FlushAndExit \/ Crash
  <2>1. /\ history' = << >> /\ n' = n /\ pc' = "down"
        /\ file' = file \/ file' = history
    BY <1>8 DEF FlushAndExit, Crash, ProcessEnds
  <2>2. Kept(<< >>, n)
    BY <1>1, NothingKept
  <2>3. QED  BY <1>1, <2>1, <2>2 DEF OrderInv, Kept, OrderedUpTo, Ordered
<1>9. QED
  BY <1>2, <1>3, <1>4, <1>5, <1>6, <1>7, <1>8 DEF Next, Thread

(* No sample twice, none out of order, never more than the window, in memory
   and in the file, across crashes, restarts, failed saves and loads. *)
THEOREM HistoryIsOrdered == Spec => []HistoryOrdered
<1>1. OrderInv => HistoryOrdered
  BY DEF OrderInv, HistoryOrdered, Kept, OrderedUpTo
<1>2. QED
  BY <1>1, TypeInit, TypeStep, OrderInit, OrderStep, PTL DEF Spec

-----------------------------------------------------------------------------
(* What the endpoints serve. *)
EndsWith(h, k) == h # << >> /\ h[Len(h)].n = k

(* Between two ticks all three hold the last sample taken, or none has been
   published by this process; during one they move on in turn. *)
AgreeInv ==
    /\ pc \in {"down", "warmup", "restore"} => json = 0 /\ prom = 0
    /\ pc \in {"sleep", "nap", "wake", "collect", "save"} =>
           prom = json /\ (json # 0 => json = n /\ EndsWith(history, json))
    /\ pc = "json" =>
           /\ point.n = n /\ prom = json
           /\ json # 0 => json = n - 1 /\ EndsWith(history, json)
    /\ pc = "prom" =>
           /\ point.n = n /\ json = n
           /\ prom # 0 => prom = n - 1 /\ EndsWith(history, prom)
    /\ pc = "push" => point.n = n /\ json = n /\ prom = n

LEMMA AgreeInit == Init => AgreeInv
BY DEF Init, FreshProcess, AgreeInv

LEMMA AgreeStep == TypeInv /\ AgreeInv /\ [Next]_vars => AgreeInv'
<1> SUFFICES ASSUME TypeInv, AgreeInv, [Next]_vars
             PROVE  AgreeInv'
  OBVIOUS
<1> USE DEF clock, shared, loop, ghosts
<1>1. /\ n \in Nat /\ json \in Nat /\ prom \in Nat
      /\ history \in Seq(Point) /\ point \in Point
  BY DEF TypeInv, TypeOK
<1>2. CASE WarmUpSleep \/ RestoreNothing \/ Start
  BY <1>2 DEF WarmUpSleep, RestoreNothing, Start, AgreeInv
<1>3. CASE Restore
  BY <1>3 DEF Restore, AgreeInv
<1>4. CASE SleepHead \/ Nap \/ BeginTick \/ SaveAndEndTick
  <2>1. /\ json' = json /\ prom' = prom /\ history' = history /\ n' = n
        /\ pc \in {"sleep", "nap", "wake", "save"}
        /\ pc' \in {"sleep", "nap", "wake", "collect"}
    BY <1>4 DEF SleepHead, Nap, BeginTick, SaveAndEndTick
  <2>2. QED  BY <2>1 DEF AgreeInv, EndsWith
<1>5. CASE Signal \/ StepClock \/ UNCHANGED vars
  <2>1. /\ json' = json /\ prom' = prom /\ history' = history /\ n' = n
        /\ point' = point /\ pc' = pc
    BY <1>5 DEF Signal, StepClock, vars
  <2>2. QED  BY <2>1 DEF AgreeInv, EndsWith
<1>6. CASE Collect
  <2>1. /\ json' = json /\ prom' = prom /\ history' = history
        /\ point'.n = n' /\ n' = n + 1 /\ pc = "collect" /\ pc' = "json"
    BY <1>6 DEF Collect
  <2>2. n' - 1 = n
    BY <1>1, <2>1
  <2>3. QED  BY <2>1, <2>2 DEF AgreeInv, EndsWith
<1>7. CASE PublishJson
  <2>1. /\ json' = point.n /\ prom' = prom /\ history' = history
        /\ point' = point /\ n' = n /\ pc = "json" /\ pc' = "prom"
    BY <1>7 DEF PublishJson
  <2>2. QED  BY <2>1 DEF AgreeInv, EndsWith
<1>8. CASE PublishProm
  <2>1. /\ json' = json /\ prom' = point.n /\ history' = history
        /\ point' = point /\ n' = n /\ pc = "prom" /\ pc' = "push"
    BY <1>8 DEF PublishProm
  <2>2. QED  BY <2>1 DEF AgreeInv, EndsWith
<1>9. CASE PushHistory
  <2> DEFINE h == Append(history, point)
  <2>1. /\ json' = json /\ prom' = prom /\ n' = n /\ history' = Trimmed(h)
        /\ pc = "push" /\ pc' = "save"
    BY <1>9 DEF PushHistory
  <2>2. /\ h \in Seq(Point) /\ h # << >> /\ h[Len(h)] = point
    BY <1>1, AppendProperties, EmptySeq
  <2> HIDE DEF h
  <2>3. EndsWith(history', point.n)
    BY <2>1, <2>2, TrimmedKeepsNewest DEF EndsWith
  <2>4. point.n = n /\ json = n /\ prom = n
    BY <2>1 DEF AgreeInv
  <2>5. EndsWith(history', n')
    BY <2>1, <2>3, <2>4
  <2>6. QED  BY <2>1, <2>4, <2>5 DEF AgreeInv, EndsWith
<1>10. CASE FlushAndExit \/ Crash
  <2>1. pc' = "down" /\ json' = 0 /\ prom' = 0
    BY <1>10 DEF FlushAndExit, Crash, ProcessEnds
  <2>2. QED  BY <2>1 DEF AgreeInv
<1>11. QED
  BY <1>2, <1>3, <1>4, <1>5, <1>6, <1>7, <1>8, <1>9, <1>10 DEF Next, Thread

(* A client that asks all three endpoints never sees three samples. *)
THEOREM EndpointsDoAgree == Spec => []EndpointsAgree
<1>1. TypeInv /\ AgreeInv => EndpointsAgree
  <2> SUFFICES ASSUME TypeInv, AgreeInv
               PROVE  EndpointsAgree
    OBVIOUS
  <2>1. n \in Nat /\ pc \in PCs
    BY DEF TypeInv, TypeOK
  <2>2. QED  BY <2>1 DEF EndpointsAgree, Newest, AgreeInv, EndsWith, PCs
<1>2. QED
  BY <1>1, TypeInit, TypeStep, AgreeInit, AgreeStep, PTL DEF Spec

-----------------------------------------------------------------------------
(* What a clean exit leaves for the next process. *)

(* A selection in order leaves out none of the fresh points: as many indices
   as there are, all different, are all of them. *)
LEMMA PickedIsAll ==
    ASSUME NEW h \in Seq(Point), NEW f \in InOrder(Fresh(h)),
           NEW k \in Fresh(h)
    PROVE  \E i \in 1 .. Len(Picked(h, f)) : Picked(h, f)[i] = h[k]
<1> DEFINE S == Fresh(h)
           c == Cardinality(S)
<1>1. c \in Nat
  BY FreshIsFinite
<1>2. IsFiniteSet(1 .. Len(h)) /\ S \subseteq 1 .. Len(h)
  <2>1. Len(h) \in Nat
    BY LenProperties
  <2>2. QED  BY <2>1, FS_Interval DEF Fresh
<1>3. IsFiniteSet(S)
  BY <1>2, FS_Subset
<1>4. /\ f \in [1 .. c -> S]
      /\ \A i, j \in 1 .. c : i < j => f[i] < f[j]
  BY DEF InOrder
<1>5. \A i \in 1 .. c : f[i] \in Nat
  BY <1>2, <1>4, LenProperties
<1> HIDE DEF c, S
<1>6. ASSUME NEW i \in 1 .. c, NEW j \in 1 .. c, f[i] = f[j]
      PROVE  i = j
  <2>1. ~(i < j) /\ ~(j < i)
    BY <1>4, <1>5, <1>6
  <2>2. QED  BY <1>1, <2>1
<1>7. f \in Injection(1 .. c, S)
  BY <1>4, <1>6 DEF Injection, IsInjective
<1>8. Cardinality(1 .. c) = c
  BY <1>1, FS_Interval
<1>9. f \in Surjection(1 .. c, S)
  BY <1>3, <1>7, <1>8, FS_Injection DEF c
<1>10. PICK i \in 1 .. c : f[i] = k
  BY <1>9 DEF Surjection, S
<1>11. /\ Len(Picked(h, f)) = c
       /\ Picked(h, f)[i] = h[f[i]]
  <2>1. Picked(h, f) \in Seq(Point) /\ Picked(h, f) = [j \in 1 .. c |-> h[f[j]]]
    BY PickedIsSelection DEF Picked, c, S
  <2>2. QED  BY <1>1, <1>10, <2>1, LenProperties
<1>12. QED  BY <1>10, <1>11

(* A history that fits is not trimmed. *)
LEMMA FitsUntrimmed ==
    ASSUME NEW h \in Seq(Point), Len(h) <= HistoryCap
    PROVE  Len(Trimmed(h)) = Len(h) /\ \A i \in 1 .. Len(h) : Trimmed(h)[i] = h[i]
<1>1. Len(h) \in Nat /\ HistoryCap \in Nat
  BY LenProperties, CapPositive
<1>2. Saturating(Len(h), HistoryCap) = 0 /\ Least(Len(h), HistoryCap) = Len(h)
  BY <1>1 DEF Saturating, Least
<1>3. QED  BY <1>1, <1>2, TrimmedKeepsNewest

(* What an exit saved stays in the file until the next process has read it. *)
ExitInv ==
    Persist /\ atExit # << >> /\ pc \in {"down", "warmup", "restore"} => file = atExit

LEMMA ExitStep == ExitInv /\ [Next]_vars => ExitInv'
<1> SUFFICES ASSUME ExitInv, [Next]_vars
             PROVE  ExitInv'
  OBVIOUS
<1> USE DEF ExitInv, clock, shared, loop, ghosts
<1>1. CASE Start \/ Signal \/ StepClock \/ WarmUpSleep \/ UNCHANGED vars
  BY <1>1 DEF Start, Signal, StepClock, WarmUpSleep, vars
<1>2. CASE Crash \/ FlushAndExit
  BY <1>2 DEF Crash, FlushAndExit, ProcessEnds
<1>3. CASE \/ Restore \/ RestoreNothing \/ SleepHead \/ Nap \/ BeginTick \/ Collect
           \/ PublishJson \/ PublishProm \/ PushHistory \/ SaveAndEndTick
  <2>1. pc' \notin {"down", "warmup", "restore"}
    BY <1>3 DEF Restore, RestoreNothing, SleepHead, Nap, BeginTick, Collect,
                PublishJson, PublishProm, PushHistory, SaveAndEndTick
  <2>2. QED  BY <2>1
<1>4. QED  BY <1>1, <1>2, <1>3 DEF Next, Thread

(* The graphs survive a clean restart. *)
RestoresExit ==
    Restore => \A i \in 1 .. Len(atExit) :
                   Persist /\ atExit[i].ts >= MinTs =>
                       \E j \in 1 .. Len(history') : history'[j] = atExit[i]

LEMMA RestoreKeepsExit ==
    TypeInv /\ OrderInv /\ ExitInv /\ [Next]_vars => [RestoresExit]_vars
<1> SUFFICES ASSUME TypeInv, OrderInv, ExitInv, Restore, Persist,
                    NEW i \in 1 .. Len(atExit), atExit[i].ts >= MinTs
             PROVE  \E j \in 1 .. Len(history') : history'[j] = atExit[i]
  BY DEF RestoresExit
<1>1. file \in Seq(Point) /\ atExit \in Seq(Point) /\ Len(file) <= HistoryCap
  BY DEF TypeInv, TypeOK, OrderInv, Kept
<1>2. atExit # << >>
  BY <1>1, EmptySeq
<1>3. file = atExit
  BY <1>2 DEF ExitInv, Restore
<1>4. i \in Fresh(file)
  BY <1>3 DEF Fresh
<1>5. PICK f \in InOrder(Fresh(file)) : history' = Trimmed(Picked(file, f))
  BY DEF Restore
<1> DEFINE p == Picked(file, f)
<1>6. PICK j \in 1 .. Len(p) : p[j] = atExit[i]
  BY <1>1, <1>3, <1>4, PickedIsAll
<1>7. p \in Seq(Point) /\ Len(p) <= HistoryCap
  <2>1. IsFiniteSet(1 .. Len(file)) /\ Cardinality(1 .. Len(file)) = Len(file)
    <3>1. PICK length \in Nat : Len(file) = length
      BY <1>1, LenProperties
    <3>2. length \in Int /\ 1 \in Int
      BY SMT
    <3>3. IsFiniteSet(1 .. length) /\ Cardinality(1 .. length) = IF 1 > length THEN 0 ELSE length - 1 + 1
      BY <3>2, FS_Interval, Zenon
    <3>4. (IF 1 > length THEN 0 ELSE length - 1 + 1) = length
      BY SMT
    <3>5. QED  BY <3>1, <3>3, <3>4, Zenon
  <2>2. Cardinality(Fresh(file)) <= Len(file) /\ Cardinality(Fresh(file)) \in Nat
    BY <1>1, <2>1, FS_Subset, FreshIsFinite DEF Fresh
  <2>3. p \in Seq(Point) /\ Len(p) = Cardinality(Fresh(file))
    BY <1>1, <2>2, PickedIsSelection, LenProperties DEF Picked
  <2>4. QED  BY <1>1, <2>2, <2>3, LenProperties, CapPositive
<1> HIDE DEF p
<1>8. Len(Trimmed(p)) = Len(p) /\ Trimmed(p)[j] = p[j]
  BY <1>6, <1>7, FitsUntrimmed
<1>9. QED  BY <1>5, <1>6, <1>8 DEF p

(* Of what was in memory at an exit that saved, the next process restores
   every sample that is still in the window. *)
THEOREM RestartIsClean == Spec => CleanRestart
<1>1. Init => ExitInv
  BY DEF Init, ExitInv
<1>2. TypeInv /\ OrderInv /\ ExitInv /\ [Next]_vars => [RestoresExit]_vars
  BY RestoreKeepsExit
<1>3. QED
  BY <1>1, <1>2, TypeInit, TypeStep, OrderInit, OrderStep, ExitStep, PTL
     DEF Spec, CleanRestart, RestoresExit

-----------------------------------------------------------------------------
(* Time *)

LEMMA TimesAreNat ==
    TypeInv => /\ now \in Nat /\ remaining \in Nat /\ work \in Nat
               /\ tick_start \in Nat /\ last_save \in Nat /\ reqAt \in Nat
               /\ tick_start <= now /\ last_save <= now
BY DEF TypeInv, TypeOK

LEMMA WorkIsNat == \A w \in WorkTimes : w \in Nat
BY TimeAssumption

LEMMA LeastIsSmaller ==
    ASSUME NEW a \in Nat, NEW b \in Nat
    PROVE  Least(a, b) \in Nat /\ Least(a, b) <= a /\ Least(a, b) <= b
BY DEF Least

-----------------------------------------------------------------------------
(* Shutdown *)

(* Time passes after a request only in the nap, the collection or the
   warm-up it came in: the step that ends that one is the only one that
   takes time and is still enabled. *)
PromptInv ==
    requested =>
        /\ pc # "down"
        /\ pc \in {"nap", "collect", "warmup"} => reqIn = pc /\ reqAt = now
        /\ ShutdownPrompt

LEMMA NoDelayYet ==
    ASSUME NEW where, NEW t \in Nat
    PROVE  \E d \in Delays(where) : t - t <= d
<1>1. CASE where = "collect"
  <2>1. PICK w \in WorkTimes : w \in Nat
    BY TimeAssumption
  <2>2. QED  BY <1>1, <2>1 DEF Delays
<1>2. CASE where # "collect"
  BY <1>2, TimeAssumption DEF Delays
<1>3. QED  BY <1>1, <1>2

LEMMA PromptInit == Init => PromptInv
BY DEF Init, FreshProcess, PromptInv

LEMMA PromptStep == TypeInv /\ PromptInv /\ [Next]_vars => PromptInv'
<1> SUFFICES ASSUME TypeInv, PromptInv, [Next]_vars
             PROVE  PromptInv'
  OBVIOUS
<1> USE DEF clock, shared, loop, ghosts
<1>1. CASE Signal
  <2>1. /\ requested' /\ pc' = pc /\ pc # "down"
        /\ now' = now /\ reqIn' = pc /\ reqAt' = now
    BY <1>1 DEF Signal
  <2>2. \E d \in Delays(pc) : now - now <= d
    BY NoDelayYet, TimesAreNat
  <2>3. QED  BY <2>1, <2>2 DEF PromptInv, ShutdownPrompt
<1>2. CASE Crash \/ FlushAndExit
  BY <1>2 DEF Crash, FlushAndExit, ProcessEnds, PromptInv
<1>3. CASE Start
  BY <1>3 DEF Start, PromptInv
<1>4. CASE \/ Restore \/ RestoreNothing \/ SleepHead \/ BeginTick \/ PublishJson
           \/ PublishProm \/ PushHistory \/ SaveAndEndTick
  <2>1. now' = now /\ requested' = requested /\ reqAt' = reqAt /\ reqIn' = reqIn
    BY <1>4 DEF Restore, RestoreNothing, SleepHead, BeginTick, PublishJson,
                PublishProm, PushHistory, SaveAndEndTick
  <2>2. ASSUME requested
        PROVE  pc' \notin {"nap", "collect", "warmup", "down"}
    BY <1>4, <2>2 DEF Restore, RestoreNothing, SleepHead, BeginTick, PublishJson,
                      PublishProm, PushHistory, SaveAndEndTick
  <2>3. QED  BY <2>1, <2>2 DEF PromptInv, ShutdownPrompt
<1>5. CASE StepClock \/ UNCHANGED vars
  <2>1. /\ now' = now /\ requested' = requested /\ reqAt' = reqAt /\ reqIn' = reqIn
        /\ pc' = pc
    BY <1>5 DEF StepClock, vars
  <2>2. QED  BY <2>1 DEF PromptInv, ShutdownPrompt
<1>6. CASE WarmUpSleep
  <2>1. /\ now' = now + WarmUp /\ requested' = requested /\ reqAt' = reqAt
        /\ reqIn' = reqIn /\ pc = "warmup" /\ pc' = "restore"
    BY <1>6 DEF WarmUpSleep
  <2>2. requested => now' - reqAt' <= WarmUp /\ WarmUp \in Delays(reqIn')
    BY <2>1, TimesAreNat, TimeAssumption DEF PromptInv, Delays
  <2>3. QED  BY <2>1, <2>2 DEF PromptInv, ShutdownPrompt
<1>7. CASE Nap
  <2>1. /\ now' = now + Least(remaining, NapStep) /\ requested' = requested
        /\ reqAt' = reqAt /\ reqIn' = reqIn /\ pc = "nap" /\ pc' = "sleep"
    BY <1>7 DEF Nap
  <2>2. requested => now' - reqAt' <= NapStep /\ NapStep \in Delays(reqIn')
    BY <2>1, TimesAreNat, LeastIsSmaller, TimeAssumption DEF PromptInv, Delays
  <2>3. QED  BY <2>1, <2>2 DEF PromptInv, ShutdownPrompt
<1>8. CASE Collect
  <2>1. PICK w \in WorkTimes : now' = now + w
    BY <1>8 DEF Collect
  <2>2. /\ requested' = requested /\ reqAt' = reqAt /\ reqIn' = reqIn
        /\ pc = "collect" /\ pc' = "json"
    BY <1>8 DEF Collect
  <2>3. requested => now' - reqAt' <= w /\ w \in Delays(reqIn')
    BY <2>1, <2>2, TimesAreNat, WorkIsNat DEF PromptInv, Delays
  <2>4. QED  BY <2>2, <2>3 DEF PromptInv, ShutdownPrompt
<1>9. QED
  BY <1>1, <1>2, <1>3, <1>4, <1>5, <1>6, <1>7, <1>8 DEF Next, Thread

(* A shutdown waits for one nap, or for the work of one tick, whatever the
   interval is. *)
THEOREM ShutdownIsPrompt == Spec => []ShutdownPrompt
<1>1. PromptInv => ShutdownPrompt
  BY DEF PromptInv, ShutdownPrompt
<1>2. QED
  BY <1>1, TypeInit, TypeStep, PromptInit, PromptStep, PTL DEF Spec

-----------------------------------------------------------------------------
(* The cadence of ticks *)

Cost == IF work > Interval THEN work ELSE Interval

(* From the end of a tick on, what has passed since its start and what is
   left to sleep add up to the interval, or to the tick's work if that took
   longer; the loop goes on only when nothing is left. *)
CadenceInv ==
    /\ pc \in {"sleep", "nap", "wake"} /\ json # 0 =>
           now - tick_start + remaining = Cost
    /\ pc = "wake" /\ ~requested => remaining = 0
    /\ TicksKeepCadence

LEMMA SleepCompletes ==
    ASSUME NEW c \in Nat
    PROVE  c + SleepAfter(c) = IF c > Interval THEN c ELSE Interval
BY TimeAssumption DEF SleepAfter, Saturating

LEMMA CadenceInit == Init => CadenceInv
BY DEF Init, FreshProcess, CadenceInv, TicksKeepCadence

LEMMA CadenceStep ==
    TypeInv /\ AgreeInv /\ CadenceInv /\ [Next]_vars => CadenceInv'
<1> SUFFICES ASSUME TypeInv, AgreeInv, CadenceInv, [Next]_vars
             PROVE  CadenceInv'
  OBVIOUS
<1> USE DEF clock, shared, loop, ghosts
<1>1. CASE \/ WarmUpSleep \/ Start \/ Collect \/ PublishJson \/ PublishProm
           \/ PushHistory \/ Crash \/ FlushAndExit
  <2>1. pc' \notin {"sleep", "nap", "wake", "collect"}
    BY <1>1 DEF WarmUpSleep, Start, Collect, PublishJson, PublishProm, PushHistory,
                Crash, FlushAndExit, ProcessEnds
  <2>2. QED  BY <2>1 DEF CadenceInv, TicksKeepCadence
<1>2. CASE Restore \/ RestoreNothing
  <2>1. pc' = "sleep" /\ json' = json /\ json = 0
    BY <1>2 DEF Restore, RestoreNothing, AgreeInv
  <2>2. QED  BY <2>1 DEF CadenceInv, TicksKeepCadence
<1>3. CASE Signal \/ StepClock \/ UNCHANGED vars
  <2>1. /\ pc' = pc /\ now' = now /\ tick_start' = tick_start /\ work' = work
        /\ remaining' = remaining /\ json' = json /\ gap' = gap
        /\ requested => requested'
    BY <1>3 DEF Signal, StepClock, vars
  <2>2. QED  BY <2>1 DEF CadenceInv, TicksKeepCadence, Cost
<1>4. CASE SleepHead
  <2>1. /\ pc = "sleep" /\ pc' \in {"nap", "wake"}
        /\ now' = now /\ tick_start' = tick_start /\ work' = work
        /\ remaining' = remaining /\ json' = json /\ requested' = requested
    BY <1>4 DEF SleepHead
  <2>2. pc' = "wake" /\ ~requested' => remaining' = 0
    BY <1>4, <2>1, TimesAreNat DEF SleepHead
  <2>3. QED  BY <2>1, <2>2 DEF CadenceInv, TicksKeepCadence, Cost
<1>5. CASE Nap
  <2> DEFINE d == Least(remaining, NapStep)
  <2>1. /\ pc = "nap" /\ pc' = "sleep" /\ now' = now + d
        /\ remaining' = remaining - d
        /\ tick_start' = tick_start /\ work' = work /\ json' = json
    BY <1>5 DEF Nap
  <2>2. d \in Nat
    BY TimesAreNat, LeastIsSmaller, TimeAssumption
  <2> HIDE DEF d
  <2>3. now' - tick_start' + remaining' = now - tick_start + remaining
    BY <2>1, <2>2, TimesAreNat
  <2>4. QED  BY <2>1, <2>3 DEF CadenceInv, TicksKeepCadence, Cost
<1>6. CASE BeginTick
  <2>1. /\ pc = "wake" /\ ~requested /\ pc' = "collect" /\ work' = work
        /\ gap' = IF json = 0 THEN 0 ELSE now - tick_start
    BY <1>6 DEF BeginTick
  <2>2. json # 0 => now - tick_start = Cost
    BY <2>1, TimesAreNat DEF CadenceInv
  <2>3. QED  BY <2>1, <2>2 DEF CadenceInv, TicksKeepCadence, Cost
<1>7. CASE SaveAndEndTick
  <2>1. /\ pc' = "sleep" /\ now' = now /\ tick_start' = tick_start
        /\ work' = now - tick_start /\ remaining' = SleepAfter(now - tick_start)
    BY <1>7 DEF SaveAndEndTick
  <2>2. now - tick_start \in Nat
    BY TimesAreNat
  <2>3. now' - tick_start' + remaining' = Cost'
    BY <2>1, <2>2, SleepCompletes DEF Cost
  <2>4. QED  BY <2>1, <2>3 DEF CadenceInv, TicksKeepCadence
<1>8. QED
  BY <1>1, <1>2, <1>3, <1>4, <1>5, <1>6, <1>7 DEF Next, Thread

(* The cost of a tick never adds up: ticks start one interval apart, or
   as soon as the work of the one before is done. *)
THEOREM CadenceIsKept == Spec => []TicksKeepCadence
<1>1. CadenceInv => TicksKeepCadence
  BY DEF CadenceInv
<1>2. QED
  BY <1>1, TypeInit, TypeStep, AgreeInit, AgreeStep, CadenceInit, CadenceStep,
     PTL DEF Spec

-----------------------------------------------------------------------------
(* What a kill can cost *)

(* Every sample of h is in f or was taken at t or later. *)
SavedOrSince(h, f, t) ==
    \A i \in 1 .. Len(h) : (\E k \in 1 .. Len(f) : f[k] = h[i]) \/ h[i].at >= t

(* The time since the last save, what is left to sleep included, is bounded
   while a tick may still find that a save is due. *)
Running == pc \notin {"down", "warmup", "restore"}

InTime ==
    /\ pc \in {"sleep", "nap", "wake"} =>
           now - last_save + remaining <= SaveEvery + Interval
    /\ pc = "collect" => now - last_save <= SaveEvery + Interval
    /\ pc \in {"json", "prom", "push", "save"} =>
           \E w \in WorkTimes : now - last_save <= SaveEvery + Interval + w

LossInv ==
    /\ ~Running => history = << >>
    /\ Persist /\ ~save_err_logged /\ Running =>
           /\ SavedOrSince(history, file, last_save)
           /\ pc \in {"json", "prom", "push"} => point.at >= last_save
           /\ InTime

LEMMA TrimmedSaved ==
    ASSUME NEW h \in Seq(Point), NEW f \in Seq(Point), NEW t \in Nat,
           SavedOrSince(h, f, t)
    PROVE  SavedOrSince(Trimmed(h), f, t)
<1> DEFINE d == Saturating(Len(h), HistoryCap)
           r == Trimmed(h)
<1>1. /\ Len(h) \in Nat /\ d \in 0 .. Len(h)
      /\ Len(h) - d = Least(Len(h), HistoryCap)
  BY LenProperties, CapPositive, SubtractAtMost
<1>2. /\ Len(r) = Len(h) - d
      /\ \A i \in 1 .. Len(r) : r[i] = h[d + i]
  BY <1>1, TrimmedKeepsNewest
<1> HIDE DEF d, r
<1>3. \A i \in 1 .. Len(r) : d + i \in 1 .. Len(h)
  BY <1>1, <1>2
<1>4. SavedOrSince(r, f, t)
  BY <1>2, <1>3 DEF SavedOrSince
<1>5. QED  BY <1>4 DEF r

LEMMA PickedSaved ==
    ASSUME NEW h \in Seq(Point), NEW f \in InOrder(Fresh(h)), NEW t \in Nat
    PROVE  SavedOrSince(Picked(h, f), h, t)
BY PickedIsSelection DEF SavedOrSince

LEMMA AppendSaved ==
    ASSUME NEW h \in Seq(Point), NEW f \in Seq(Point), NEW t \in Nat,
           NEW x \in Point, SavedOrSince(h, f, t), x.at >= t
    PROVE  SavedOrSince(Append(h, x), f, t)
<1> DEFINE a == Append(h, x)
<1>1. /\ Len(h) \in Nat /\ Len(a) = Len(h) + 1
      /\ \A i \in 1 .. Len(h) : a[i] = h[i]
      /\ a[Len(h) + 1] = x
  BY LenProperties, AppendProperties
<1> HIDE DEF a
<1>2. ASSUME NEW i \in 1 .. Len(a)
      PROVE  (\E k \in 1 .. Len(f) : f[k] = a[i]) \/ a[i].at >= t
  <2>1. CASE i = Len(h) + 1
    BY <1>1, <2>1
  <2>2. CASE i # Len(h) + 1
    <3>1. i \in 1 .. Len(h) /\ a[i] = h[i]
      BY <1>1, <2>2
    <3>2. QED  BY <3>1 DEF SavedOrSince
  <2>3. QED  BY <2>1, <2>2
<1>3. QED  BY <1>2 DEF SavedOrSince, a

LEMMA LossInit == Init => LossInv
BY DEF Init, FreshProcess, LossInv, Running

LEMMA SleepAtMostInterval ==
    ASSUME NEW c \in Nat PROVE SleepAfter(c) \in Nat /\ SleepAfter(c) <= Interval
BY TimeAssumption DEF SleepAfter, Saturating

LEMMA LossStep == TypeInv /\ LossInv /\ [Next]_vars => LossInv'
<1> SUFFICES ASSUME TypeInv, LossInv, [Next]_vars
             PROVE  LossInv'
  OBVIOUS
<1> USE DEF clock, shared, loop, ghosts
<1>1. /\ history \in Seq(Point) /\ file \in Seq(Point) /\ point \in Point
      /\ save_err_logged \in BOOLEAN
  BY DEF TypeInv, TypeOK
<1>2. CASE WarmUpSleep \/ Start
  BY <1>2 DEF WarmUpSleep, Start, LossInv, Running
<1>3. CASE Crash \/ FlushAndExit
  BY <1>3 DEF Crash, FlushAndExit, ProcessEnds, LossInv, Running
<1>4. CASE Restore \/ RestoreNothing
  <2>1. /\ pc' = "sleep" /\ now' = now /\ file' = file /\ last_save' = now
        /\ remaining' = SleepAfter(work)
    BY <1>4 DEF Restore, RestoreNothing
  <2>2. now' - last_save' + remaining' <= SaveEvery + Interval
    BY <2>1, TimesAreNat, SleepAtMostInterval, TimeAssumption
  <2>3. ASSUME Persist PROVE SavedOrSince(history', file, now)
    <3>1. CASE Restore
      <4>1. PICK f \in InOrder(Fresh(file)) : history' = Trimmed(Picked(file, f))
        BY <3>1, <2>3 DEF Restore
      <4>2. SavedOrSince(Picked(file, f), file, now) /\ Picked(file, f) \in Seq(Point)
        BY <1>1, TimesAreNat, PickedSaved, PickedIsSelection
      <4>3. QED  BY <1>1, <4>1, <4>2, TimesAreNat, TrimmedSaved
    <3>2. CASE RestoreNothing
      BY <3>2, EmptySeq DEF RestoreNothing, LossInv, Running, SavedOrSince
    <3>3. QED  BY <1>4, <3>1, <3>2
  <2>4. QED  BY <2>1, <2>2, <2>3 DEF LossInv, InTime, Running, SavedOrSince
<1>5. CASE Signal \/ StepClock \/ UNCHANGED vars
  <2>1. /\ pc' = pc /\ now' = now /\ last_save' = last_save /\ remaining' = remaining
        /\ history' = history /\ file' = file /\ point' = point
        /\ save_err_logged' = save_err_logged
    BY <1>5 DEF Signal, StepClock, vars
  <2>2. QED  BY <2>1 DEF LossInv, InTime, Running, SavedOrSince
<1>6. CASE SleepHead \/ BeginTick
  <2>1. /\ now' = now /\ last_save' = last_save /\ remaining' = remaining
        /\ history' = history /\ file' = file /\ save_err_logged' = save_err_logged
        /\ pc \in {"sleep", "wake"} /\ pc' \in {"nap", "wake", "collect"}
    BY <1>6 DEF SleepHead, BeginTick
  <2>2. InTime => InTime'
    BY <2>1, TimesAreNat, TimeAssumption DEF InTime
  <2>3. QED  BY <2>1, <2>2 DEF LossInv, Running, SavedOrSince
<1>7. CASE Nap
  <2> DEFINE d == Least(remaining, NapStep)
  <2>1. /\ pc = "nap" /\ pc' = "sleep" /\ now' = now + d /\ remaining' = remaining - d
        /\ last_save' = last_save /\ history' = history /\ file' = file
        /\ save_err_logged' = save_err_logged
    BY <1>7 DEF Nap
  <2>2. d \in Nat
    BY TimesAreNat, LeastIsSmaller, TimeAssumption
  <2> HIDE DEF d
  <2>3. now' - last_save' + remaining' = now - last_save + remaining
    BY <2>1, <2>2, TimesAreNat
  <2>4. QED  BY <2>1, <2>3 DEF LossInv, InTime, Running, SavedOrSince
<1>8. CASE Collect
  <2>1. PICK w \in WorkTimes : now' = now + w /\ point'.at = now + w
    BY <1>8 DEF Collect
  <2>2. /\ pc = "collect" /\ pc' = "json" /\ last_save' = last_save
        /\ history' = history /\ file' = file /\ save_err_logged' = save_err_logged
    BY <1>8 DEF Collect
  <2>3. point'.at >= last_save'
    BY <2>1, <2>2, TimesAreNat, WorkIsNat
  <2>4. InTime => InTime'
    BY <2>1, <2>2, TimesAreNat, WorkIsNat, TimeAssumption DEF InTime
  <2>5. QED  BY <2>2, <2>3, <2>4 DEF LossInv, Running, SavedOrSince
<1>9. CASE PublishJson \/ PublishProm
  <2>1. /\ pc \in {"json", "prom"} /\ pc' \in {"prom", "push"} /\ now' = now
        /\ last_save' = last_save /\ history' = history /\ file' = file
        /\ point' = point /\ save_err_logged' = save_err_logged
    BY <1>9 DEF PublishJson, PublishProm
  <2>2. QED  BY <2>1 DEF LossInv, InTime, Running, SavedOrSince
<1>10. CASE PushHistory
  <2>1. /\ pc = "push" /\ pc' = "save" /\ now' = now /\ last_save' = last_save
        /\ file' = file /\ save_err_logged' = save_err_logged
        /\ history' = Trimmed(Append(history, point))
    BY <1>10 DEF PushHistory
  <2>2. ASSUME Persist, ~save_err_logged
        PROVE  SavedOrSince(history', file, last_save) /\ InTime
    <3>1. SavedOrSince(history, file, last_save) /\ point.at >= last_save /\ InTime
      BY <2>1, <2>2 DEF LossInv, Running
    <3>2. SavedOrSince(Append(history, point), file, last_save)
      BY <1>1, <3>1, TimesAreNat, AppendSaved
    <3>3. Append(history, point) \in Seq(Point)
      BY <1>1, AppendProperties
    <3>4. QED  BY <1>1, <2>1, <3>1, <3>2, <3>3, TimesAreNat, TrimmedSaved
  <2>3. InTime => InTime'
    BY <2>1 DEF InTime
  <2>4. QED  BY <2>1, <2>2, <2>3 DEF LossInv, Running, SavedOrSince
<1>11. CASE SaveAndEndTick
  <2>1. /\ pc = "save" /\ pc' = "sleep" /\ now' = now /\ history' = history
        /\ remaining' = SleepAfter(now - tick_start)
    BY <1>11 DEF SaveAndEndTick
  <2>2. remaining' \in Nat /\ remaining' <= Interval
    BY <2>1, TimesAreNat, SleepAtMostInterval
  <2>3. ASSUME Persist, ~save_err_logged'
        PROVE  /\ now' - last_save' <= SaveEvery
               /\ SavedOrSince(history', file', last_save')
    <3>1. CASE ~SaveDue /\ UNCHANGED <<file, last_save, save_err_logged>>
      <4>1. now - last_save < SaveEvery
        BY <2>3, <3>1, TimesAreNat, TimeAssumption DEF SaveDue
      <4>2. SavedOrSince(history, file, last_save)
        BY <2>1, <2>3, <3>1 DEF LossInv, Running
      <4>3. QED  BY <2>1, <3>1, <4>1, <4>2, TimesAreNat, TimeAssumption
                 DEF SavedOrSince
    <3>2. CASE SaveDue /\ last_save' = now /\ file' = history
      <4>1. now' - last_save' = 0
        BY <2>1, <3>2, TimesAreNat
      <4>2. SavedOrSince(history', file', last_save')
        BY <2>1, <3>2 DEF SavedOrSince
      <4>3. QED  BY <4>1, <4>2, TimeAssumption
    <3>3. QED  BY <1>11, <2>3, <3>1, <3>2 DEF SaveAndEndTick
  <2>4. ASSUME Persist, ~save_err_logged' PROVE InTime'
    <3>1. last_save' \in Nat
      BY <1>11, TimesAreNat DEF SaveAndEndTick
    <3>2. now' - last_save' + remaining' <= SaveEvery + Interval
      BY <2>1, <2>2, <2>3, <2>4, <3>1, TimesAreNat, TimeAssumption
    <3>3. QED  BY <2>1, <3>2 DEF InTime
  <2>5. QED  BY <2>1, <2>3, <2>4 DEF LossInv, Running
<1>12. QED
  BY <1>2, <1>3, <1>4, <1>5, <1>6, <1>7, <1>8, <1>9, <1>10, <1>11 DEF Next, Thread

(* Until a save fails, a kill loses only what was sampled since the last
   save, and that is at most a save period and one tick ago. *)
THEOREM LossIsBounded == Spec => []LossBounded
<1>1. TypeInv /\ LossInv => LossBounded
  <2> SUFFICES ASSUME TypeInv, LossInv, Persist, ~save_err_logged, Running
               PROVE  /\ SavedOrSince(history, file, last_save)
                      /\ \E w \in WorkTimes : now - last_save <= SaveEvery + Interval + w
    BY DEF LossBounded, SavedOrSince, InFile, Running
  <2>1. SavedOrSince(history, file, last_save) /\ InTime
    BY DEF LossInv
  <2>2. PICK w \in WorkTimes : w \in Nat
    BY TimeAssumption
  <2>3. CASE pc \in {"sleep", "nap", "wake", "collect"}
    BY <2>1, <2>2, <2>3, TimesAreNat, TimeAssumption DEF InTime
  <2>4. CASE pc \in {"json", "prom", "push", "save"}
    BY <2>1, <2>4 DEF InTime
  <2>5. QED  BY <2>1, <2>3, <2>4 DEF TypeInv, TypeOK, PCs, Running
<1>2. QED
  BY <1>1, TypeInit, TypeStep, LossInit, LossStep, PTL DEF Spec

-----------------------------------------------------------------------------
(***************************************************************************)
(* HttpServer, for every number of clients and threads: what a client is   *)
(* shown never goes back.                                                  *)
(*                                                                         *)
(* The argument counts publications.  A sample is published to the         *)
(* snapshot, the metrics and the history one after the other, so that      *)
(* 3 * (sample) less what is left to do (Published) grows by one with each *)
(* and is what the process has shown at most.  A handler copies an answer  *)
(* under the mutex and may write it much later; what it copied is at most  *)
(* two publications behind, and its client, that waits for it, learns      *)
(* nothing else meanwhile.                                                 *)
(***************************************************************************)

LEMMA MaxOfTwo ==
    ASSUME NEW a \in Int, NEW b \in Int
    PROVE  Max({a, b}) = IF a >= b THEN a ELSE b
<1> DEFINE m == IF a >= b THEN a ELSE b
<1>1. m \in {a, b} /\ \A y \in {a, b} : m >= y
  OBVIOUS
<1>2. \A x \in {a, b} : (\A y \in {a, b} : x >= y) => x = m
  OBVIOUS
<1>3. QED  BY <1>1, <1>2 DEF Max

(* The process moves by the steps of the sampler module. *)
LEMMA ServerStepIsNext == [ServerNext]_serverVars => [Next]_vars
BY DEF ServerNext, SamplerStep, ProcessStep, Listen, BindFails, Send, Take, Lock, Copy,
       Respond, Close, Next, serverVars

-----------------------------------------------------------------------------
(* What the process has published, counted in publications. *)
Published ==
    IF json = 0 THEN 3 * base
    ELSE IF pc = "prom" THEN 3 * json - 2
    ELSE IF pc = "push" THEN 3 * json - 1
    ELSE 3 * json

(* Which of them an answer shows. *)
UpTo(body, path) == 3 * Reached(body) - Lag(path)

Steps == {"idle", "queued", "lock", "locked", "write"}

Request == [step: Steps, path: Paths \cup {"/"}, body: Nat]

HttpTypeInv ==
    /\ base \in Nat
    /\ seen \in [Readers -> Int]
    /\ request \in [Clients -> Request]
    /\ \A c \in Clients :
          HoldsMutex(c) \/ request[c].step = "lock" \/ request[c].body # 0 => request[c].path \in Data

(* No request outlives the process. *)
DownInv ==
    pc = "down" =>
        /\ ~listening /\ queue = << >>
        /\ \A c \in Clients : request[c] = Idle
        /\ \A c \in Readers : seen[c] = 0

(* What this process has published is newer than all before it; while a
   sample is on its way to the history, that one ends with the one before. *)
BaseInv ==
    /\ base <= n
    /\ pc \in {"json", "prom", "push"} => n > base
    /\ json = 0 /\ pc \notin {"down", "json", "prom", "push"} => n = base
    /\ json = 0 /\ pc = "json" => n = base + 1
    /\ json # 0 => json > base
    /\ prom # 0 => prom > base
    /\ pc \in {"prom", "push"} /\ history # << >> => Reached(Newest) = n - 1

SeenInv ==
    /\ \A c \in Readers : seen[c] <= Published
    /\ \A c \in Clients :
          request[c].body # 0 =>
              /\ UpTo(request[c].body, request[c].path) <= Published
              /\ c \in Readers => seen[c] <= UpTo(request[c].body, request[c].path) + 2

SamplerInv == TypeInv /\ OrderInv /\ AgreeInv

LEMMA SamplerInvStep == SamplerInv /\ [ServerNext]_serverVars => SamplerInv'
BY ServerStepIsNext, TypeStep, OrderStep, AgreeStep DEF SamplerInv

-----------------------------------------------------------------------------
(* The newest sample of the history. *)
LEMMA NewestInHistory ==
    ASSUME NEW h \in Seq(Point), h # << >>
    PROVE  /\ h[Len(h)].n \in Nat
           /\ \A m \in Int : Kept(h, m) => h[Len(h)].n <= m
<1>1. Len(h) \in 1 .. Len(h)
  BY LenProperties, EmptySeq
<1>2. QED  BY <1>1, NumbersAreNat DEF Kept, OrderedUpTo

LEMMA ReachedIs ==
    ASSUME NEW b \in Int, base \in Int
    PROVE  Reached(b) = IF b >= base THEN b ELSE base
BY MaxOfTwo DEF Reached

LEMMA ServerBaseInit == ServerInit => BaseInv
BY DEF ServerInit, Init, FreshProcess, HttpInit, BaseInv

LEMMA BaseUnchanged ==
    ASSUME BaseInv, UNCHANGED <<json, prom, history, n, base, pc>>
    PROVE  BaseInv'
BY DEF BaseInv, Reached, Newest

(* What a step of the process and the handlers does to both. *)
Runs ==
    \/ WarmUpSleep \/ Restore \/ RestoreNothing \/ SleepHead \/ Nap \/ BeginTick
    \/ Collect \/ PublishJson \/ PublishProm \/ PushHistory \/ SaveAndEndTick

(* The requests of the handlers and the clients. *)
RequestStep(c) ==
    \/ \E path \in Paths : Send(c, path)
    \/ \E ok \in BOOLEAN : Take(c, ok)
    \/ Lock(c) \/ Copy(c) \/ Respond(c) \/ Close(c)

LEMMA ServerCases ==
    [ServerNext]_serverVars =>
        \/ (\E c \in Clients : RequestStep(c)) /\ UNCHANGED <<vars, listening, base>>
        \/ UNCHANGED <<vars, request, seen, base>> /\ (Listen \/ UNCHANGED httpVars)
        \/ Start /\ base' = n /\ UNCHANGED <<listening, queue, request, seen>>
        \/ (Signal \/ StepClock \/ Runs) /\ UNCHANGED httpVars
        \/ (FlushAndExit \/ Crash) /\ HttpEnds
<1> SUFFICES ASSUME [ServerNext]_serverVars
             PROVE  \/ (\E c \in Clients : RequestStep(c)) /\ UNCHANGED <<vars, listening, base>>
                    \/ UNCHANGED <<vars, request, seen, base>> /\ (Listen \/ UNCHANGED httpVars)
                    \/ Start /\ base' = n /\ UNCHANGED <<listening, queue, request, seen>>
                    \/ (Signal \/ StepClock \/ Runs) /\ UNCHANGED httpVars
                    \/ (FlushAndExit \/ Crash) /\ HttpEnds
  OBVIOUS
<1>1. CASE SamplerStep
  <2>1. CASE Runs
    <3>1. pc' # "down"
      BY <2>1 DEF Runs, WarmUpSleep, Restore, RestoreNothing, SleepHead, Nap, BeginTick,
                  Collect, PublishJson, PublishProm, PushHistory, SaveAndEndTick
    <3>2. QED  BY <1>1, <2>1, <3>1 DEF SamplerStep
  <2>2. CASE FlushAndExit
    <3>1. pc' = "down"
      BY <2>2 DEF FlushAndExit, ProcessEnds
    <3>2. QED  BY <1>1, <2>2, <3>1 DEF SamplerStep
  <2>3. QED  BY <1>1, <2>1, <2>2 DEF SamplerStep, Thread, Runs
<1>2. CASE ProcessStep
  BY <1>2 DEF ProcessStep
<1>3. CASE BindFails
  BY <1>3 DEF BindFails
<1>4. CASE Listen
  BY <1>4 DEF Listen
<1>5. ASSUME NEW c \in Clients, RequestStep(c)
      PROVE  (\E d \in Clients : RequestStep(d)) /\ UNCHANGED <<vars, listening, base>>
  BY <1>5 DEF RequestStep, Send, Take, Lock, Copy, Respond, Close
<1>6. CASE UNCHANGED serverVars
  BY <1>6 DEF serverVars, httpVars
<1>7. QED  BY <1>1, <1>2, <1>3, <1>4, <1>5, <1>6 DEF ServerNext, RequestStep

LEMMA RunsKeepBase ==
    ASSUME SamplerInv, BaseInv, base \in Nat, Runs, base' = base
    PROVE  BaseInv'
<1> USE DEF clock, shared, loop, ghosts
<1>1. /\ n \in Nat /\ json \in Nat /\ prom \in Nat /\ history \in Seq(Point) /\ pc \in PCs
  BY DEF SamplerInv, TypeInv, TypeOK
<1>2. CASE WarmUpSleep \/ SleepHead \/ Nap \/ BeginTick \/ SaveAndEndTick
  <2>1. /\ json' = json /\ prom' = prom /\ n' = n
        /\ pc \in {"warmup", "sleep", "nap", "wake", "save"}
        /\ pc' \in {"restore", "sleep", "nap", "wake", "collect"}
    BY <1>2 DEF WarmUpSleep, SleepHead, Nap, BeginTick, SaveAndEndTick
  <2>2. QED  BY <2>1 DEF BaseInv
<1>3. CASE Restore \/ RestoreNothing
  <2>1. json' = json /\ prom' = prom /\ n' = n /\ pc = "restore" /\ pc' = "sleep"
    BY <1>3 DEF Restore, RestoreNothing
  <2>2. QED  BY <2>1 DEF BaseInv
<1>4. CASE Collect
  <2>1. json' = json /\ prom' = prom /\ n' = n + 1 /\ pc = "collect" /\ pc' = "json"
    BY <1>4 DEF Collect
  <2>2. json # 0 => json = n
    BY <2>1 DEF SamplerInv, AgreeInv
  <2>3. QED  BY <1>1, <2>1, <2>2 DEF BaseInv
<1>5. CASE PublishJson
  <2>1. /\ json' = point.n /\ prom' = prom /\ n' = n /\ history' = history
        /\ pc = "json" /\ pc' = "prom"
    BY <1>5 DEF PublishJson
  <2>2. /\ point.n = n /\ n > base /\ Kept(history, n - 1)
        /\ json # 0 => json = n - 1 /\ json > base /\ EndsWith(history, json)
        /\ json = 0 => n = base + 1
    BY <2>1 DEF SamplerInv, AgreeInv, OrderInv, BaseInv
  <2>3. history # << >> => Reached(Newest) = n - 1
    <3>1. SUFFICES ASSUME history # << >>
                   PROVE  Reached(Newest) = n - 1
      OBVIOUS
    <3>2. Newest \in Nat /\ Newest <= n - 1
      BY <1>1, <2>2, <3>1, NewestInHistory DEF Newest
    <3>3. Reached(Newest) = IF Newest >= base THEN Newest ELSE base
      BY <3>2, ReachedIs
    <3>4. CASE json = 0
      BY <1>1, <2>2, <3>2, <3>3, <3>4
    <3>5. CASE json # 0
      BY <1>1, <2>2, <3>2, <3>3, <3>5 DEF EndsWith, Newest
    <3>6. QED  BY <3>4, <3>5
  <2>4. (Reached(Newest) = n - 1)' <=> Reached(Newest) = n - 1
    BY <2>1 DEF Reached, Newest
  <2>5. QED  BY <1>1, <2>1, <2>2, <2>3, <2>4 DEF BaseInv
<1>6. CASE PublishProm
  <2>1. /\ json' = json /\ prom' = point.n /\ n' = n /\ history' = history
        /\ pc = "prom" /\ pc' = "push" /\ point.n = n /\ n > base
    BY <1>6 DEF PublishProm, SamplerInv, AgreeInv, BaseInv
  <2>2. (Reached(Newest) = n - 1)' <=> Reached(Newest) = n - 1
    BY <2>1 DEF Reached, Newest
  <2>3. QED  BY <2>1, <2>2 DEF BaseInv
<1>7. CASE PushHistory
  <2>1. /\ json' = json /\ prom' = prom /\ n' = n /\ json = n /\ n > base
        /\ pc = "push" /\ pc' = "save"
    BY <1>7 DEF PushHistory, SamplerInv, AgreeInv, BaseInv
  <2>2. QED  BY <1>1, <2>1 DEF BaseInv
<1>8. QED  BY <1>2, <1>3, <1>4, <1>5, <1>6, <1>7 DEF Runs

LEMMA BaseStep ==
    SamplerInv /\ BaseInv /\ base \in Nat /\ [ServerNext]_serverVars => BaseInv' /\ base' \in Nat
<1> SUFFICES ASSUME SamplerInv, BaseInv, base \in Nat, [ServerNext]_serverVars
             PROVE  BaseInv' /\ base' \in Nat
  OBVIOUS
<1>1. n \in Nat
  BY DEF SamplerInv, TypeInv, TypeOK
<1>2. CASE UNCHANGED <<vars, base>>
  BY <1>2, BaseUnchanged DEF vars, shared
<1>3. CASE Start /\ base' = n
  <2>1. json' = 0 /\ prom' = 0 /\ n' = n /\ pc' = "warmup"
    BY <1>3 DEF Start, shared, SamplerInv, AgreeInv
  <2>2. QED  BY <1>1, <1>3, <2>1 DEF BaseInv
<1>4. CASE (Signal \/ StepClock) /\ UNCHANGED httpVars
  BY <1>4, BaseUnchanged DEF Signal, StepClock, shared, httpVars
<1>5. CASE Runs /\ UNCHANGED httpVars
  BY <1>5, RunsKeepBase DEF httpVars
<1>6. CASE (FlushAndExit \/ Crash) /\ HttpEnds
  <2>1. json' = 0 /\ prom' = 0 /\ n' = n /\ pc' = "down" /\ base' = base
    BY <1>6 DEF FlushAndExit, Crash, ProcessEnds, HttpEnds
  <2>2. QED  BY <2>1 DEF BaseInv
<1>7. QED  BY <1>2, <1>3, <1>4, <1>5, <1>6, ServerCases

-----------------------------------------------------------------------------
(* Requests keep their types; what locks a mutex or bears a sample is a
   request for data. *)
ServerInv == SamplerInv /\ HttpTypeInv /\ DownInv /\ BaseInv

LEMMA IdleType ==
    /\ Idle \in Request /\ Idle.step = "idle" /\ Idle.body = 0
    /\ [Idle EXCEPT !.step = "write"] \in Request
    /\ [Idle EXCEPT !.step = "write"].step = "write" /\ [Idle EXCEPT !.step = "write"].body = 0
BY DEF Idle, Request, Steps

(* A request r is well formed. *)
Proper(r) ==
    r \in Request /\ (r.step \in {"lock", "locked"} \/ r.body # 0 => r.path \in Data)

LEMMA HttpTypeIsProper ==
    HttpTypeInv <=> /\ base \in Nat /\ seen \in [Readers -> Int]
                    /\ request \in [Clients -> Request]
                    /\ \A c \in Clients : Proper(request[c])
BY DEF HttpTypeInv, Proper, HoldsMutex

LEMMA OneRequest ==
    ASSUME HttpTypeInv, NEW c \in Clients, NEW r, Proper(r),
           request' = [request EXCEPT ![c] = r], base' = base,
           seen' \in [Readers -> Int]
    PROVE  HttpTypeInv'
<1>1. r \in Request
  BY DEF Proper
<1>2. /\ request' \in [Clients -> Request]
      /\ \A d \in Clients : request'[d] = IF d = c THEN r ELSE request[d]
  BY <1>1 DEF HttpTypeInv
<1>3. \A d \in Clients : Proper(request[d])
  BY HttpTypeIsProper
<1>4. \A d \in Clients : Proper(request'[d])
  BY <1>2, <1>3
<1>5. QED  BY <1>2, <1>4 DEF HttpTypeInv, Proper, HoldsMutex

LEMMA ShowsIsNat ==
    ASSUME TypeInv, NEW path \in Data
    PROVE  Shows(path) \in Nat
<1>1. json \in Nat /\ prom \in Nat /\ history \in Seq(Point)
  BY DEF TypeInv, TypeOK
<1>2. history # << >> => Newest \in Nat
  BY <1>1, NewestInHistory DEF Newest
<1>3. QED  BY <1>1, <1>2 DEF Shows, Data

LEMMA LagIs == ASSUME NEW path \in Data PROVE Lag(path) \in 0 .. 2
BY DEF Lag, Data

LEMMA UpToIsInt ==
    ASSUME NEW b \in Int, NEW path \in Data, base \in Int
    PROVE  UpTo(b, path) \in Int /\ Reached(b) \in Int
BY ReachedIs, LagIs DEF UpTo

LEMMA RequestType ==
    ASSUME SamplerInv, HttpTypeInv, NEW c \in Clients, RequestStep(c)
    PROVE  HttpTypeInv'
<1> DEFINE q == request[c]
<1>1. q \in Request /\ Proper(q) /\ base \in Nat /\ seen \in [Readers -> Int]
  BY HttpTypeIsProper
<1>2. Proper(Idle) /\ Proper([Idle EXCEPT !.step = "write"])
  BY IdleType DEF Proper
<1>3. ASSUME NEW path \in Paths, Send(c, path)
      PROVE  HttpTypeInv'
  <2> DEFINE r == [step |-> "queued", path |-> path, body |-> 0]
  <2>1. Proper(r)
    BY DEF Proper, Request, Steps
  <2>2. request' = [request EXCEPT ![c] = r] /\ base' = base /\ seen' = seen
    BY <1>3 DEF Send
  <2> HIDE DEF r
  <2>3. QED  BY <1>1, <2>1, <2>2, OneRequest
<1>4. ASSUME NEW ok \in BOOLEAN, Take(c, ok)
      PROVE  HttpTypeInv'
  <2> DEFINE r == IF q.path \in Data /\ ~Refused(q.path, ok)
                  THEN [q EXCEPT !.step = "lock"] ELSE [Idle EXCEPT !.step = "write"]
  <2>1. q.path \in Data => Proper([q EXCEPT !.step = "lock"])
    BY <1>1 DEF Proper, Request, Steps
  <2>2. Proper(r)
    BY <1>2, <2>1
  <2>3. request' = [request EXCEPT ![c] = r] /\ base' = base /\ seen' = seen
    BY <1>4 DEF Take
  <2> HIDE DEF r
  <2>4. QED  BY <1>1, <2>2, <2>3, OneRequest
<1>5. CASE Lock(c)
  <2> DEFINE r == [q EXCEPT !.step = "locked"]
  <2>1. Proper(r)
    BY <1>1, <1>5 DEF Lock, Proper, Request, Steps
  <2>2. request' = [request EXCEPT ![c] = r] /\ base' = base /\ seen' = seen
    BY <1>5 DEF Lock
  <2> HIDE DEF r
  <2>3. QED  BY <1>1, <2>1, <2>2, OneRequest
<1>6. CASE Copy(c)
  <2> DEFINE r == [q EXCEPT !.step = "write", !.body = Shows(q.path)]
  <2>1. q.path \in Data
    BY <1>1, <1>6 DEF Copy, Proper
  <2>2. Shows(q.path) \in Nat
    BY <2>1, ShowsIsNat DEF SamplerInv
  <2>3. Proper(r)
    BY <1>1, <2>1, <2>2 DEF Proper, Request, Steps
  <2>4. request' = [request EXCEPT ![c] = r] /\ base' = base /\ seen' = seen
    BY <1>1, <1>6 DEF Copy, HttpTypeInv
  <2> HIDE DEF r
  <2>5. QED  BY <1>1, <2>3, <2>4, OneRequest
<1>7. CASE Respond(c)
  <2> DEFINE x == 3 * Reached(q.body) - Lag(q.path)
  <2>1. q.body # 0 => x \in Int
    BY <1>1, UpToIsInt DEF Proper, Request, UpTo
  <2>2. c \in Readers /\ q.body # 0 => Max({seen[c], x}) \in Int
    <3> HIDE DEF x
    <3>1. QED  BY <1>1, <2>1, MaxOfTwo
  <2>3. seen' = [r \in Readers |-> IF r = c /\ q.body # 0 THEN Max({seen[c], x}) ELSE seen[r]]
    BY <1>7 DEF Respond
  <2> HIDE DEF x
  <2>4. seen' \in [Readers -> Int]
    BY <1>1, <2>2, <2>3
  <2>5. request' = [request EXCEPT ![c] = Idle] /\ base' = base
    BY <1>7 DEF Respond
  <2>6. QED  BY <1>2, <2>4, <2>5, OneRequest
<1>8. CASE Close(c)
  <2>1. request' = [request EXCEPT ![c] = Idle] /\ base' = base /\ seen' = seen
    BY <1>8 DEF Close
  <2>2. QED  BY <1>1, <1>2, <2>1, OneRequest
<1>9. QED  BY <1>3, <1>4, <1>5, <1>6, <1>7, <1>8 DEF RequestStep

LEMMA HttpTypeInit == ServerInit => HttpTypeInv
<1> SUFFICES ASSUME ServerInit
             PROVE  HttpTypeInv
  OBVIOUS
<1>1. /\ request = [c \in Clients |-> Idle] /\ seen = [c \in Readers |-> 0] /\ base = 0
  BY DEF ServerInit, HttpInit
<1>2. \A c \in Clients : request[c] = Idle
  BY <1>1
<1>3. request \in [Clients -> Request]
  BY <1>1, IdleType
<1>4. QED  BY <1>1, <1>2, <1>3, IdleType DEF HttpTypeInv, HoldsMutex

(* The start of the process and its end. *)
LEMMA EndsType ==
    ASSUME base \in Nat, HttpEnds
    PROVE  HttpTypeInv' /\ (\A c \in Clients : request'[c] = Idle) /\ (\A c \in Readers : seen'[c] = 0)
           /\ ~listening' /\ queue' = << >>
<1>1. /\ request' = [c \in Clients |-> Idle] /\ seen' = [c \in Readers |-> 0] /\ base' = base
      /\ listening' = FALSE /\ queue' = << >>
  BY DEF HttpEnds
<1>2. \A c \in Clients : request'[c] = Idle
  BY <1>1
<1>3. request' \in [Clients -> Request]
  BY <1>1, IdleType
<1>4. QED  BY <1>1, <1>2, <1>3, IdleType DEF HttpTypeInv, HoldsMutex

LEMMA HttpUnchanged ==
    ASSUME HttpTypeInv, UNCHANGED <<request, seen>>, base' \in Nat
    PROVE  HttpTypeInv'
BY DEF HttpTypeInv, HoldsMutex

LEMMA ServerInvStep == ServerInv /\ [ServerNext]_serverVars => ServerInv'
<1> SUFFICES ASSUME ServerInv, [ServerNext]_serverVars
             PROVE  HttpTypeInv' /\ DownInv'
  BY SamplerInvStep, BaseStep DEF ServerInv, HttpTypeInv
<1>1. SamplerInv /\ HttpTypeInv /\ DownInv /\ base \in Nat /\ n \in Nat
  BY DEF ServerInv, HttpTypeInv, SamplerInv, TypeInv, TypeOK
<1>2. ASSUME NEW c \in Clients, RequestStep(c), UNCHANGED <<vars, listening, base>>
      PROVE  HttpTypeInv' /\ DownInv'
  <2>1. pc # "down"
    <3>1. CASE pc = "down"
      <4>1. ~listening /\ queue = << >> /\ request[c].step = "idle"
        BY <1>1, <3>1, IdleType DEF DownInv
      <4>2. \A path \in Paths : ~Send(c, path)
        BY <4>1 DEF Send
      <4>3. ~Lock(c) /\ ~Copy(c) /\ ~Respond(c) /\ ~Close(c)
        BY <4>1 DEF Lock, Copy, Respond, Close
      <4>4. \A ok \in BOOLEAN : ~Take(c, ok)
        BY <4>1 DEF Take
      <4>5. QED  BY <1>2, <4>2, <4>3, <4>4 DEF RequestStep
    <3>2. QED  BY <3>1
  <2>2. pc' = pc
    BY <1>2 DEF vars
  <2>3. QED  BY <1>1, <1>2, <2>1, <2>2, RequestType DEF DownInv
<1>3. CASE UNCHANGED <<vars, request, seen, base>> /\ (Listen \/ UNCHANGED httpVars)
  BY <1>1, <1>3, HttpUnchanged DEF DownInv, Listen, vars, httpVars
<1>4. CASE Start /\ base' = n /\ UNCHANGED <<listening, queue, request, seen>>
  BY <1>1, <1>4, HttpUnchanged DEF DownInv, Start
<1>5. CASE (Signal \/ StepClock \/ Runs) /\ UNCHANGED httpVars
  <2>1. pc' = "down" => pc = "down"
    BY <1>5 DEF Signal, StepClock, Runs, WarmUpSleep, Restore, RestoreNothing, SleepHead, Nap, BeginTick,
                Collect, PublishJson, PublishProm, PushHistory, SaveAndEndTick
  <2>2. QED  BY <1>1, <1>5, <2>1, HttpUnchanged DEF DownInv, httpVars
<1>6. CASE (FlushAndExit \/ Crash) /\ HttpEnds
  BY <1>1, <1>6, EndsType DEF DownInv
<1>7. QED  BY <1>2, <1>3, <1>4, <1>5, <1>6, ServerCases

-----------------------------------------------------------------------------
(* What a handler copies is what has been published, but for the last two
   publications; and nothing that was published is taken back. *)
LEMMA ServerInvTypes ==
    ServerInv => /\ n \in Nat /\ json \in Nat /\ prom \in Nat /\ base \in Nat /\ base <= n
                 /\ history \in Seq(Point) /\ pc \in PCs
BY DEF ServerInv, SamplerInv, TypeInv, TypeOK, HttpTypeInv, BaseInv

LEMMA CopyIsRecent ==
    ASSUME ServerInv, pc # "down", NEW path \in Data, Shows(path) # 0
    PROVE  /\ UpTo(Shows(path), path) <= Published
           /\ Published <= UpTo(Shows(path), path) + 2
<1>1. /\ n \in Nat /\ json \in Nat /\ prom \in Nat /\ base \in Nat /\ base <= n
      /\ history \in Seq(Point) /\ pc \in PCs
  BY ServerInvTypes
<1>2. CASE path = "/api/stats"
  <2>1. Shows(path) = json /\ Lag(path) = 2 /\ json > base
    BY <1>2 DEF Shows, Lag, ServerInv, BaseInv
  <2>2. UpTo(Shows(path), path) = 3 * json - 2
    BY <1>1, <2>1, ReachedIs DEF UpTo
  <2>3. QED  BY <1>1, <1>2, <2>1, <2>2 DEF Published, Shows
<1>3. CASE path = "/metrics"
  <2>1. Shows(path) = prom /\ Lag(path) = 1 /\ prom > base /\ prom # 0
    BY <1>3 DEF Shows, Lag, ServerInv, BaseInv
  <2>2. UpTo(Shows(path), path) = 3 * prom - 1
    BY <1>1, <2>1, ReachedIs DEF UpTo
  <2>3. pc = "prom" => json = n /\ prom = n - 1
    BY <2>1 DEF ServerInv, SamplerInv, AgreeInv
  <2>4. pc # "prom" => prom = json
    BY <1>1, <2>1 DEF ServerInv, SamplerInv, AgreeInv, PCs
  <2>5. CASE pc = "prom"
    <3>1. json # 0 /\ json = prom + 1
      BY <1>1, <2>1, <2>3, <2>5
    <3>2. Published = 3 * json - 2
      BY <2>5, <3>1 DEF Published
    <3>3. QED  BY <1>1, <2>2, <3>1, <3>2
  <2>6. CASE pc # "prom"
    <3>1. Published \in {3 * json - 1, 3 * json}
      BY <2>1, <2>4, <2>6 DEF Published
    <3>2. QED  BY <1>1, <2>2, <2>4, <2>6, <3>1
  <2>7. QED  BY <2>5, <2>6
<1>4. CASE path = "/api/history"
  <2>1. history # << >> /\ Shows(path) = Newest /\ Lag(path) = 0
    BY <1>4 DEF Shows, Lag
  <2>2. /\ Newest \in Nat
        /\ Newest <= n
        /\ pc = "json" => Newest <= n - 1
    BY <1>1, <2>1, NewestInHistory DEF Newest, ServerInv, SamplerInv, OrderInv
  <2>3. Reached(Newest) = IF Newest >= base THEN Newest ELSE base
    BY <1>1, <2>2, ReachedIs
  <2>4. UpTo(Shows(path), path) = 3 * Reached(Newest)
    BY <1>1, <2>1, <2>2, <2>3 DEF UpTo
  <2>5. CASE pc \in {"prom", "push"}
    <3>1. json = n /\ json # 0 /\ Reached(Newest) = n - 1
      BY <1>1, <2>1, <2>5 DEF ServerInv, SamplerInv, AgreeInv, BaseInv
    <3>2. Published \in {3 * n - 2, 3 * n - 1}
      BY <2>5, <3>1 DEF Published
    <3>3. QED  BY <1>1, <2>4, <3>1, <3>2
  <2>6. CASE pc \notin {"prom", "push"} /\ json = 0
    <3>1. Newest <= base
      BY <1>1, <2>2, <2>6 DEF ServerInv, BaseInv
    <3>2. Reached(Newest) = base /\ Published = 3 * base
      BY <1>1, <2>2, <2>3, <2>6, <3>1 DEF Published
    <3>3. QED  BY <1>1, <2>4, <3>2
  <2>7. CASE pc \notin {"prom", "push"} /\ json # 0
    <3>1. Newest = json /\ json > base
      BY <1>1, <2>7 DEF ServerInv, SamplerInv, AgreeInv, BaseInv, EndsWith, Newest, PCs
    <3>2. Reached(Newest) = json /\ Published = 3 * json
      BY <1>1, <2>3, <2>7, <3>1 DEF Published
    <3>3. QED  BY <1>1, <2>4, <3>2
  <2>8. QED  BY <2>5, <2>6, <2>7
<1>5. QED  BY <1>2, <1>3, <1>4 DEF Data

LEMMA PublishedType == ServerInv => Published \in Int
BY ServerInvTypes DEF Published

LEMMA PublishedGrows ==
    ASSUME ServerInv, ServerInv', Runs \/ Signal \/ StepClock, base' = base
    PROVE  Published <= Published'
<1> USE DEF clock, shared, loop, ghosts
<1>1. /\ n \in Nat /\ json \in Nat /\ base \in Nat
      /\ n' \in Nat /\ json' \in Nat /\ pc \in PCs
  BY ServerInvTypes DEF ServerInv, SamplerInv, TypeInv, TypeOK
<1>2. CASE \/ WarmUpSleep \/ Restore \/ RestoreNothing \/ SleepHead \/ Nap \/ BeginTick
           \/ Collect \/ SaveAndEndTick
  <2>1. json' = json /\ pc \notin {"prom", "push"} /\ pc' \notin {"prom", "push"}
    BY <1>2 DEF WarmUpSleep, Restore, RestoreNothing, SleepHead, Nap, BeginTick, Collect, SaveAndEndTick
  <2>2. QED  BY <1>1, <2>1 DEF Published
<1>3. CASE PublishJson
  <2>1. /\ pc = "json" /\ pc' = "prom" /\ json' = n /\ n > base
        /\ json = 0 => n = base + 1
        /\ json # 0 => json = n - 1
    BY <1>3 DEF PublishJson, ServerInv, SamplerInv, AgreeInv, BaseInv
  <2>2. json' # 0 /\ Published' = 3 * n - 2
    BY <1>1, <2>1 DEF Published
  <2>3. Published = IF json = 0 THEN 3 * base ELSE 3 * json
    BY <2>1 DEF Published
  <2>4. QED  BY <1>1, <2>1, <2>2, <2>3
<1>4. CASE PublishProm
  <2>1. pc = "prom" /\ pc' = "push" /\ json' = json
    BY <1>4 DEF PublishProm
  <2>2. QED  BY <1>1, <2>1 DEF Published
<1>5. CASE PushHistory
  <2>1. pc = "push" /\ pc' = "save" /\ json' = json
    BY <1>5 DEF PushHistory
  <2>2. QED  BY <1>1, <2>1 DEF Published
<1>6. CASE Signal \/ StepClock
  <2>1. pc' = pc /\ json' = json
    BY <1>6 DEF Signal, StepClock
  <2>2. QED  BY <1>1, <2>1 DEF Published
<1>7. QED  BY <1>2, <1>3, <1>4, <1>5, <1>6 DEF Runs

LEMMA SeenInvInit == ServerInit => SeenInv
<1> SUFFICES ASSUME ServerInit
             PROVE  SeenInv
  OBVIOUS
<1>1. /\ request = [c \in Clients |-> Idle] /\ seen = [c \in Readers |-> 0]
      /\ base = 0 /\ json = 0
  BY DEF ServerInit, HttpInit, Init, FreshProcess
<1>2. Published = 0
  BY <1>1 DEF Published
<1>3. QED  BY <1>1, <1>2, IdleType DEF SeenInv

(* A step of a request that leaves what it bears alone or takes it off. *)
LEMMA RequestKeeps ==
    ASSUME SeenInv, HttpTypeInv, NEW c \in Clients, NEW r,
           request' = [request EXCEPT ![c] = r], UNCHANGED <<seen, base, Published>>,
           r.body = 0 \/ (r.body = request[c].body /\ r.path = request[c].path)
    PROVE  SeenInv'
<1>1. \A d \in Clients : request'[d] = IF d = c THEN r ELSE request[d]
  BY DEF HttpTypeInv
<1>2. ASSUME NEW d \in Clients, request'[d].body # 0
      PROVE  request'[d].body = request[d].body /\ request'[d].path = request[d].path
  BY <1>1, <1>2
<1>3. QED  BY <1>2 DEF SeenInv, UpTo, Reached

LEMMA CopySeen ==
    ASSUME ServerInv, SeenInv, NEW c \in Clients, Copy(c)
    PROVE  SeenInv'
<1> DEFINE q == request[c]
           s == Shows(q.path)
<1>1. /\ request \in [Clients -> Request] /\ seen \in [Readers -> Int] /\ base \in Nat
      /\ q.path \in Data /\ Published \in Int
  BY PublishedType DEF ServerInv, HttpTypeInv, Copy, HoldsMutex
<1>2. pc # "down"
  BY IdleType DEF Copy, ServerInv, DownInv
<1>3. /\ request' = [request EXCEPT ![c] = [q EXCEPT !.step = "write", !.body = s]]
      /\ seen' = seen /\ base' = base
  BY <1>1 DEF Copy
<1>4. Published' = Published
  BY DEF Copy, vars, shared, Published
<1>5. /\ request'[c].body = s /\ request'[c].path = q.path
      /\ \A d \in Clients : d # c => request'[d] = request[d]
  <2>1. q \in Request
    BY <1>1
  <2> HIDE DEF q, s
  <2>2. [q EXCEPT !.step = "write", !.body = s].body = s /\ [q EXCEPT !.step = "write", !.body = s].path = q.path
    BY <2>1 DEF Request
  <2>3. QED  BY <1>1, <1>3, <2>2
<1>6. s # 0 => UpTo(s, q.path) <= Published /\ Published <= UpTo(s, q.path) + 2 /\ UpTo(s, q.path) \in Int
  <2>1. s \in Nat
    BY <1>1, ShowsIsNat DEF ServerInv, SamplerInv
  <2>2. QED  BY <1>1, <1>2, <2>1, CopyIsRecent, UpToIsInt
<1>7. \A d \in Readers : seen[d] \in Int /\ seen[d] <= Published
  BY <1>1 DEF SeenInv
<1> HIDE DEF s, q
<1>8. ASSUME NEW d \in Clients, request'[d].body # 0
      PROVE  /\ UpTo(request'[d].body, request'[d].path) <= Published
             /\ d \in Readers => seen[d] <= UpTo(request'[d].body, request'[d].path) + 2
  <2>1. CASE d = c
    BY <1>1, <1>5, <1>6, <1>7, <1>8, <2>1
  <2>2. CASE d # c
    BY <1>5, <1>8, <2>2 DEF SeenInv
  <2>3. QED  BY <2>1, <2>2
<1>9. QED  BY <1>3, <1>4, <1>7, <1>8 DEF SeenInv, UpTo, Reached

LEMMA RespondSeen ==
    ASSUME ServerInv, SeenInv, NEW c \in Clients, Respond(c)
    PROVE  SeenInv'
<1> DEFINE q == request[c]
           x == UpTo(q.body, q.path)
<1>1. /\ request \in [Clients -> Request] /\ seen \in [Readers -> Int] /\ base \in Nat
      /\ Published \in Int /\ q \in Request /\ (q.body # 0 => q.path \in Data)
  BY PublishedType DEF ServerInv, HttpTypeInv
<1>2. /\ request' = [request EXCEPT ![c] = Idle] /\ base' = base
      /\ seen' = [d \in Readers |-> IF d = c /\ q.body # 0 THEN Max({seen[c], x}) ELSE seen[d]]
  BY DEF Respond, UpTo
<1>3. Published' = Published
  BY DEF Respond, vars, shared, Published
<1>4. q.body # 0 => x \in Int /\ x <= Published
  BY <1>1, UpToIsInt DEF Request, SeenInv
<1>5. /\ request'[c].body = 0
      /\ \A d \in Clients : d # c => request'[d] = request[d]
  BY <1>1, <1>2, IdleType
<1> HIDE DEF x, q
<1>6. ASSUME NEW d \in Readers
      PROVE  seen'[d] <= Published
  <2>1. seen[d] \in Int /\ seen[d] <= Published
    BY <1>1 DEF SeenInv
  <2>2. CASE d = c /\ q.body # 0
    <3>1. seen'[d] = Max({seen[d], x})
      BY <1>2, <2>2
    <3>2. Max({seen[d], x}) = IF seen[d] >= x THEN seen[d] ELSE x
      BY <1>4, <2>1, <2>2, MaxOfTwo
    <3>3. QED  BY <1>1, <1>4, <2>1, <2>2, <3>1, <3>2
  <2>3. CASE ~(d = c /\ q.body # 0)
    BY <1>2, <2>1, <2>3
  <2>4. QED  BY <2>2, <2>3
<1>7. ASSUME NEW d \in Clients, request'[d].body # 0
      PROVE  /\ UpTo(request'[d].body, request'[d].path) <= Published
             /\ d \in Readers => seen'[d] <= UpTo(request'[d].body, request'[d].path) + 2
  <2>1. d # c /\ request'[d] = request[d]
    BY <1>5, <1>7
  <2>2. d \in Readers => seen'[d] = seen[d]
    BY <1>2, <2>1
  <2>3. QED  BY <1>7, <2>1, <2>2 DEF SeenInv
<1>8. QED  BY <1>2, <1>3, <1>6, <1>7 DEF SeenInv, UpTo, Reached

LEMMA RequestSeen ==
    ASSUME ServerInv, SeenInv, NEW c \in Clients, RequestStep(c)
    PROVE  SeenInv'
<1> DEFINE q == request[c]
<1>1. HttpTypeInv /\ q \in Request
  BY DEF ServerInv, HttpTypeInv
<1>2. ASSUME UNCHANGED <<vars, base>>
      PROVE  Published' = Published
  BY <1>2 DEF vars, shared, Published
<1>3. ASSUME NEW path \in Paths, Send(c, path)
      PROVE  SeenInv'
  BY <1>1, <1>2, <1>3, RequestKeeps DEF Send
<1>4. ASSUME NEW ok \in BOOLEAN, Take(c, ok)
      PROVE  SeenInv'
  <2> DEFINE r == IF q.path \in Data /\ ~Refused(q.path, ok)
                  THEN [q EXCEPT !.step = "lock"] ELSE [Idle EXCEPT !.step = "write"]
  <2>1. r.body = 0 \/ (r.body = q.body /\ r.path = q.path)
    BY <1>1, IdleType DEF Request
  <2>2. request' = [request EXCEPT ![c] = r] /\ UNCHANGED <<seen, base, Published>>
    BY <1>2, <1>4 DEF Take
  <2> HIDE DEF r
  <2>3. QED  BY <1>1, <2>1, <2>2, RequestKeeps
<1>5. CASE Lock(c)
  <2> DEFINE r == [q EXCEPT !.step = "locked"]
  <2>1. r.body = q.body /\ r.path = q.path
    BY <1>1 DEF Request
  <2>2. request' = [request EXCEPT ![c] = r] /\ UNCHANGED <<seen, base, Published>>
    BY <1>2, <1>5 DEF Lock
  <2> HIDE DEF r
  <2>3. QED  BY <1>1, <2>1, <2>2, RequestKeeps
<1>6. CASE Close(c)
  <2>1. request' = [request EXCEPT ![c] = Idle] /\ UNCHANGED <<seen, base, Published>>
    BY <1>2, <1>6 DEF Close
  <2>2. QED  BY <1>1, <2>1, IdleType, RequestKeeps
<1>7. QED  BY <1>3, <1>4, <1>5, <1>6, CopySeen, RespondSeen DEF RequestStep

LEMMA SeenInvStep == ServerInv /\ ServerInv' /\ SeenInv /\ [ServerNext]_serverVars => SeenInv'
<1> SUFFICES ASSUME ServerInv, ServerInv', SeenInv, [ServerNext]_serverVars
             PROVE  SeenInv'
  OBVIOUS
<1>1. /\ request \in [Clients -> Request] /\ seen \in [Readers -> Int] /\ base \in Nat
      /\ Published \in Int
      /\ \A c \in Clients : request[c].body # 0 => UpTo(request[c].body, request[c].path) \in Int
  <2>1. \A c \in Clients : request[c].body # 0 => request[c].path \in Data /\ request[c].body \in Int
    BY DEF ServerInv, HttpTypeInv, Request
  <2>2. QED  BY <2>1, PublishedType, UpToIsInt DEF ServerInv, HttpTypeInv
<1>2. CASE (\E c \in Clients : RequestStep(c)) /\ UNCHANGED <<vars, listening, base>>
  BY <1>2, RequestSeen
<1>3. CASE UNCHANGED <<vars, request, seen, base>>
  BY <1>3 DEF SeenInv, Published, UpTo, Reached, vars, shared
<1>4. CASE Start /\ base' = n /\ UNCHANGED <<listening, queue, request, seen>>
  <2>1. pc = "down" /\ json' = 0 /\ n \in Nat
    BY <1>4, ServerInvTypes DEF Start, shared, ServerInv, SamplerInv, AgreeInv
  <2>2. /\ \A c \in Clients : request'[c].body = 0
        /\ \A c \in Readers : seen'[c] = 0
    BY <1>4, <2>1, IdleType DEF ServerInv, DownInv
  <2>3. Published' = 3 * n
    BY <1>4, <2>1 DEF Published
  <2>4. QED  BY <2>1, <2>2, <2>3 DEF SeenInv
<1>5. CASE (Signal \/ StepClock \/ Runs) /\ UNCHANGED httpVars
  <2>1. request' = request /\ seen' = seen /\ base' = base
    BY <1>5 DEF httpVars
  <2>2. Published <= Published' /\ Published' \in Int
    <3>1. json' \in Nat /\ base' \in Nat
      BY DEF ServerInv, SamplerInv, TypeInv, TypeOK, HttpTypeInv
    <3>2. Published' \in Int
      BY <3>1 DEF Published
    <3>3. QED  BY <1>5, <2>1, <3>2, PublishedGrows
  <2>3. \A c \in Readers : seen[c] \in Int /\ seen[c] <= Published'
    BY <1>1, <2>2 DEF SeenInv
  <2>4. \A c \in Clients :
           request[c].body # 0 =>
               /\ UpTo(request[c].body, request[c].path) <= Published'
               /\ c \in Readers => seen[c] <= UpTo(request[c].body, request[c].path) + 2
    BY <1>1, <2>2 DEF SeenInv
  <2>5. QED  BY <2>1, <2>3, <2>4 DEF SeenInv, UpTo, Reached
<1>6. CASE (FlushAndExit \/ Crash) /\ HttpEnds
  <2>1. /\ \A c \in Clients : request'[c].body = 0
        /\ \A c \in Readers : seen'[c] = 0
    BY <1>1, <1>6, EndsType, IdleType
  <2>2. Published' = 3 * base
    BY <1>6 DEF FlushAndExit, Crash, ProcessEnds, HttpEnds, Published
  <2>3. QED  BY <1>1, <2>1, <2>2 DEF SeenInv
<1>7. QED  BY <1>2, <1>3, <1>4, <1>5, <1>6, ServerCases

(* A client that asks one endpoint after the other never goes back. *)
THEOREM AnswersDoMoveForward == ServerSpec => []AnswersMoveForward
<1>1. ServerInit => ServerInv /\ SeenInv
  <2>1. ServerInit => Init /\ DownInv
    BY DEF ServerInit, HttpInit, DownInv
  <2>2. QED  BY <2>1, TypeInit, OrderInit, AgreeInit, HttpTypeInit, ServerBaseInit, SeenInvInit
             DEF ServerInv, SamplerInv
<1>2. ServerInv /\ SeenInv => AnswersMoveForward
  <2> SUFFICES ASSUME ServerInv, SeenInv, NEW c \in Readers,
                      request[c].step = "write", request[c].body # 0
               PROVE  Reached(request[c].body) >= (seen[c] + Lag(request[c].path)) \div 3
    BY DEF AnswersMoveForward
  <2> DEFINE r == Reached(request[c].body)
             l == Lag(request[c].path)
  <2>1. c \in Clients /\ request[c].path \in Data /\ request[c].body \in Int /\ seen[c] \in Int /\ base \in Int
    BY DEF Readers, ServerInv, HttpTypeInv, Request
  <2>2. r \in Int /\ l \in Int
    <3>1. l \in 0 .. 2
      BY <2>1, LagIs
    <3>2. r = IF request[c].body >= base THEN request[c].body ELSE base
      BY <2>1, ReachedIs
    <3>3. QED  BY <2>1, <3>1, <3>2
  <2>3. seen[c] <= (3 * r - l) + 2
    BY <2>1 DEF SeenInv, UpTo
  <2> HIDE DEF r, l
  <2>4. seen[c] + l <= 3 * r + 2
    BY <2>1, <2>2, <2>3
  <2>5. (seen[c] + l) \div 3 <= r
    BY <2>1, <2>2, <2>4
  <2>6. QED  BY <2>1, <2>2, <2>5 DEF r, l
<1>3. QED
  BY <1>1, <1>2, ServerInvStep, SeenInvStep, PTL DEF ServerSpec

===============================================================================
