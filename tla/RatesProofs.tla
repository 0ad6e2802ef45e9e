------------------------------ MODULE RatesProofs ------------------------------
(***************************************************************************)
(* Proofs about Rates for any devices, any bytes moved and any times; and  *)
(* about Snapshot for any host.  The second part goes from the selections, *)
(* the ports and the processes over the escapes and the reader of a label  *)
(* to the blocks of the text, the disks and the families.                  *)
(***************************************************************************)
EXTENDS Rates, Snapshot, ListLemmas, FiniteSetTheorems

HostInv ==
    /\ now \in 0 .. MaxTime /\ present \subseteq Devices
    /\ counter \in [Devices -> Nat] /\ moved \in [Devices -> Nat]

(* A reading of d that was made some time ago: since then its counter has
   not gained more than the device has moved, as it restarts at zero. *)
Behind(x, d) ==
    /\ x.bytes \in Nat /\ x.moved \in Nat /\ x.at \in 0 .. now
    /\ counter[d] - x.bytes <= moved[d] - x.moved
    /\ x.moved <= moved[d]

ReadingsInv(f, devices) == DOMAIN f \subseteq devices /\ \A d \in DOMAIN f : Behind(f[d], d)

PrevInv ==
    /\ ReadingsInv(networks, Interfaces) /\ ReadingsInv(disk_counters, Disks)
    /\ ReadingsInv(prev.net, Interfaces) /\ ReadingsInv(prev.disk, Disks)

(* Two readings of a device: what its counter has gained, it has moved. *)
Earned(cur, old) ==
    /\ cur.bytes \in Nat /\ cur.moved \in Nat /\ cur.at \in Int
    /\ old.bytes \in Nat /\ old.moved \in Nat /\ old.at \in Int
    /\ cur.bytes - old.bytes <= cur.moved - old.moved /\ old.moved <= cur.moved

AllEarned(f, g) == \A d \in DOMAIN f \cap DOMAIN g : Earned(f[d], g[d])

Reading == {"elapsed", "date", "disks"}

GainInv == pc \in Reading => AllEarned(networks, prev.net)

DatedIn(f, low, high) == \A d \in DOMAIN f : low <= f[d].at /\ f[d].at <= high

(* The disks are read no later after the date that is kept beside them than
   the readings of their tick took, the interfaces no earlier before it; the
   first interfaces are older. *)
PrevDated ==
    /\ prev.took \in Nat
    /\ DatedIn(prev.disk, prev.at, prev.at + prev.took)
    /\ pc \in Reading \cup {"sleep"} /\ reads > 0 => DatedIn(prev.net, prev.at - prev.took, prev.at)

TickDated ==
    /\ pc \in Reading => began \in 0 .. now /\ DatedIn(networks, began, began)
    /\ pc \in {"date", "disks"} =>
          elapsed \in Int /\ began <= prev.at + elapsed /\ prev.at + elapsed <= now
    /\ pc = "disks" => began <= sampled_at
    /\ pc = "collect" =>
          /\ took \in Nat
          /\ DatedIn(networks, sampled_at - took, sampled_at)
          /\ DatedIn(disk_counters, sampled_at, sampled_at + took)

CountInv == reads \in 0 .. 2 /\ (pc \in {"warm_up", "first"} => reads = 0)

DateInv == PrevDated /\ TickDated /\ CountInv

(* The devices of a reading are those of the rates it shows. *)
ChurnInv ==
    /\ pc \in {"warm_up", "first"} => DOMAIN rates = {}
    /\ pc = "collect" => DOMAIN rates = DOMAIN networks \cup DOMAIN disk_counters

IInv == HostInv /\ TypeOK /\ PrevInv /\ GainInv /\ DateInv /\ ChurnInv

-----------------------------------------------------------------------------
(* Readings *)

LEMMA FreshReadings ==
    ASSUME HostInv, NEW devices \in SUBSET Devices
    PROVE  /\ ReadingsInv(ReadingsOf(devices), devices)
           /\ DatedIn(ReadingsOf(devices), now, now)
           /\ ReadingsInv(NoReadings, devices)
           /\ DOMAIN NoReadings = {}
BY DEF HostInv, ReadingsInv, DatedIn, ReadingsOf, NoReadings, Behind

LEMMA FreshDisks ==
    ASSUME HostInv, NEW disk \in DiskReadings
    PROVE  ReadingsInv(disk, Disks) /\ DatedIn(disk, now, now)
<1>1. CASE disk = ReadingsOf(Disks)
  BY <1>1, FreshReadings DEF Devices
<1>2. CASE disk = NoReadings
  BY <1>2, FreshReadings DEF Devices, DatedIn
<1>3. QED  BY <1>1, <1>2 DEF DiskReadings

(* A new reading of what older readings are Behind. *)
LEMMA FreshIsEarned ==
    ASSUME HostInv, NEW devices \in SUBSET Devices, NEW old, ReadingsInv(old, devices),
           NEW cur, cur \in {ReadingsOf(devices), NoReadings}
    PROVE  AllEarned(cur, old)
<1> SUFFICES ASSUME NEW d \in DOMAIN cur \cap DOMAIN old
             PROVE  Earned(cur[d], old[d])
  BY DEF AllEarned
<1>1. d \in Devices /\ cur[d] = [bytes |-> counter[d], moved |-> moved[d], at |-> now]
  BY DEF ReadingsOf, NoReadings
<1>2. Behind(old[d], d)
  BY DEF ReadingsInv
<1>3. QED  BY <1>1, <1>2 DEF Earned, Behind, HostInv

(* What the host does leaves every reading behind it. *)
LEMMA StaysBehind ==
    ASSUME HostInv, HostInv', NEW d \in Devices, NEW x, Behind(x, d), now <= now',
           \/ counter'[d] - counter[d] <= moved'[d] - moved[d] /\ moved[d] <= moved'[d]
           \/ counter'[d] = 0 /\ moved'[d] = moved[d]
    PROVE  Behind(x, d)'
BY DEF HostInv, Behind

-----------------------------------------------------------------------------
(* One action after the other *)

LEMMA InvInit == Init => IInv
<1> SUFFICES ASSUME Init
             PROVE  IInv
  OBVIOUS
<1>1. HostInv
  BY RatesAssumption DEF Init, HostInv, Devices
<1>2. ReadingsInv(networks, Interfaces)
  BY <1>1, FreshReadings DEF Init, Devices
<1>3. PrevInv
  BY <1>1, <1>2 DEF Init, NoTick, PrevInv, ReadingsInv, NoReadings
<1>4. GainInv /\ DateInv /\ ChurnInv
  BY DEF Init, GainInv, Reading, DateInv, PrevDated, TickDated, CountInv, ChurnInv, DatedIn, NoReadings
<1>5. TypeOK
  BY <1>1 DEF Init, NoTick, TypeOK, HostInv
<1>6. QED  BY <1>1, <1>3, <1>4, <1>5 DEF IInv

LEMMA HostKeepsReadings ==
    ASSUME IInv, HostInv', now <= now', NEW f, NEW devices \in SUBSET Devices,
           ReadingsInv(f, devices),
           \A d \in Devices :
              \/ counter'[d] - counter[d] <= moved'[d] - moved[d] /\ moved[d] <= moved'[d]
              \/ counter'[d] = 0 /\ moved'[d] = moved[d]
    PROVE  ReadingsInv(f, devices)'
BY StaysBehind DEF IInv, ReadingsInv

(* The host's steps and the clock's change nothing of the sampler's. *)
LEMMA InvHost ==
    ASSUME IInv, HostInv', now <= now', UNCHANGED runVars,
           \A d \in Devices :
              \/ counter'[d] - counter[d] <= moved'[d] - moved[d] /\ moved[d] <= moved'[d]
              \/ counter'[d] = 0 /\ moved'[d] = moved[d]
    PROVE  IInv'
<1> USE DEF runVars, localVars
<1>1. /\ Interfaces \in SUBSET Devices /\ Disks \in SUBSET Devices
  BY DEF Devices
<1>2. PrevInv'
  <2>1. /\ ReadingsInv(networks, Interfaces)' /\ ReadingsInv(disk_counters, Disks)'
        /\ ReadingsInv(prev.net, Interfaces)' /\ ReadingsInv(prev.disk, Disks)'
    BY <1>1, HostKeepsReadings DEF IInv, PrevInv, ReadingsInv, Behind
  <2>2. QED  BY <2>1 DEF PrevInv
<1>3. GainInv' /\ ChurnInv' /\ PrevDated' /\ CountInv'
  BY DEF IInv, GainInv, AllEarned, Earned, DateInv, PrevDated, CountInv, ChurnInv, DatedIn
<1>4. TickDated'
  BY DEF IInv, DateInv, TickDated, DatedIn, Reading, HostInv, TypeOK
<1>5. TypeOK'
  BY DEF IInv, TypeOK, HostInv
<1>6. QED  BY <1>2, <1>3, <1>4, <1>5 DEF IInv, DateInv

LEMMA InvHostSteps ==
    ASSUME IInv,
           \/ \E d \in Devices : Move(d) \/ Disappear(d) \/ Appear(d)
           \/ TimePasses
           \/ UNCHANGED vars
    PROVE  IInv'
<1>1. CASE TimePasses \/ UNCHANGED vars
  <2>1. HostInv' /\ now <= now' /\ UNCHANGED <<counter, moved, runVars>>
    BY <1>1, RatesAssumption DEF IInv, HostInv, TimePasses, vars, hostVars
  <2>2. QED  BY <2>1, InvHost DEF IInv, HostInv
<1>2. ASSUME NEW d \in Devices, Move(d) \/ Disappear(d) \/ Appear(d)
      PROVE  IInv'
  <2>1. HostInv' /\ now <= now' /\ UNCHANGED runVars
    BY <1>2 DEF IInv, HostInv, Move, Disappear, Appear
  <2>2. \A e \in Devices :
           \/ counter'[e] - counter[e] <= moved'[e] - moved[e] /\ moved[e] <= moved'[e]
           \/ counter'[e] = 0 /\ moved'[e] = moved[e]
    BY <1>2 DEF IInv, HostInv, Move, Disappear, Appear
  <2>3. QED  BY <2>1, <2>2, InvHost
<1>3. QED  BY <1>1, <1>2

LEMMA InvWarmedUp ==
    ASSUME IInv, WarmedUp
    PROVE  IInv'
<1> USE DEF IInv, WarmedUp, hostVars, localVars
<1>1. HostInv'
  BY DEF HostInv
<1>2. PrevInv'
  BY DEF PrevInv, ReadingsInv, Behind, NoReadings
<1>3. GainInv' /\ DateInv' /\ ChurnInv'
  BY DEF GainInv, Reading, DateInv, PrevDated, TickDated, CountInv, ChurnInv, DatedIn, NoReadings
<1>4. TypeOK'
  BY DEF TypeOK, HostInv
<1>5. QED  BY <1>1, <1>2, <1>3, <1>4

LEMMA InvFirstDisks ==
    ASSUME IInv, FirstDisks
    PROVE  IInv'
<1>1. PICK disk \in DiskReadings :
         prev' = [at |-> prev.at, net |-> prev.net, disk |-> disk, took |-> now - prev.at]
  BY DEF FirstDisks
<1>2. ReadingsInv(disk, Disks) /\ DatedIn(disk, now, now)
  BY FreshDisks DEF IInv
<1> USE DEF IInv, FirstDisks, hostVars, localVars
<1>3. HostInv'
  BY DEF HostInv
<1>4. PrevInv'
  BY <1>1, <1>2 DEF PrevInv, ReadingsInv, Behind
<1>5. GainInv' /\ CountInv' /\ ChurnInv' /\ TickDated'
  BY DEF GainInv, Reading, DateInv, TickDated, CountInv, ChurnInv
<1>6. PrevDated'
  <2>1. prev.at \in 0 .. now /\ now \in Int
    BY DEF TypeOK, HostInv
  <2>2. DatedIn(disk, prev.at, prev.at + (now - prev.at)) /\ now - prev.at \in Nat
    BY <1>2, <2>1 DEF DatedIn, ReadingsInv, Behind
  <2>3. reads' = 0
    BY DEF DateInv, CountInv
  <2>4. QED  BY <1>1, <2>2, <2>3 DEF PrevDated, DatedIn
<1>7. TypeOK'
  BY <1>1 DEF TypeOK, HostInv, ChurnInv
<1>8. QED  BY <1>3, <1>4, <1>5, <1>6, <1>7 DEF DateInv

LEMMA InvRefreshNetworks ==
    ASSUME IInv, RefreshNetworks
    PROVE  IInv'
<1>1. /\ ReadingsInv(networks', Interfaces) /\ DatedIn(networks', now, now)
      /\ AllEarned(networks', prev.net)
  BY FreshReadings, FreshIsEarned DEF IInv, PrevInv, RefreshNetworks, Devices
<1> USE DEF IInv, hostVars
<1>2. /\ UNCHANGED <<now, hostVars, prev, elapsed, sampled_at, disk_counters, took, reads>>
      /\ pc = "sleep" /\ pc' = "elapsed" /\ began' = now /\ DOMAIN rates' = {}
  BY DEF RefreshNetworks
<1>3. HostInv'
  BY <1>2 DEF HostInv
<1>4. PrevInv'
  BY <1>1, <1>2 DEF PrevInv, ReadingsInv, Behind
<1>5. GainInv' /\ ChurnInv' /\ CountInv' /\ PrevDated'
  BY <1>1, <1>2 DEF GainInv, AllEarned, Earned, ChurnInv, DateInv, CountInv, PrevDated, DatedIn, Reading
<1>6. TickDated'
  BY <1>1, <1>2 DEF TickDated, DatedIn, Reading, HostInv
<1>7. TypeOK'
  BY <1>2 DEF TypeOK, HostInv
<1>8. QED  BY <1>3, <1>4, <1>5, <1>6, <1>7 DEF DateInv

LEMMA InvDates ==
    ASSUME IInv, TakeElapsed \/ TakeSampledAt
    PROVE  IInv'
<1> USE DEF IInv, hostVars
<1>1. /\ UNCHANGED <<now, hostVars, networks, prev, disk_counters, began, took, reads, rates>>
      /\ pc \in {"elapsed", "date"} /\ pc' \in {"date", "disks"}
  BY DEF TakeElapsed, TakeSampledAt
<1>2. HostInv' /\ PrevInv' /\ ChurnInv'
  BY <1>1 DEF HostInv, PrevInv, ReadingsInv, Behind, ChurnInv
<1>3. GainInv' /\ CountInv' /\ PrevDated'
  BY <1>1 DEF GainInv, AllEarned, Earned, DateInv, CountInv, PrevDated, DatedIn, Reading
<1>4. now \in Int /\ prev.at \in 0 .. now /\ began \in 0 .. now
  BY <1>1 DEF TypeOK, HostInv, DateInv, TickDated, Reading
<1>5. TickDated'
  <2>1. DatedIn(networks, began, began)'
    BY <1>1 DEF DateInv, TickDated, DatedIn, Reading
  <2>2. CASE TakeElapsed
    BY <1>1, <1>4, <2>1, <2>2 DEF TakeElapsed, TickDated
  <2>3. CASE TakeSampledAt
    BY <1>1, <1>4, <2>1, <2>3 DEF TakeSampledAt, TickDated, DateInv
  <2>4. QED  BY <2>2, <2>3
<1>6. TypeOK'
  BY <1>1, <1>4 DEF TypeOK, HostInv, TakeElapsed, TakeSampledAt
<1>7. QED  BY <1>2, <1>3, <1>5, <1>6 DEF DateInv

Slack == Larger(prev.took, now - began)

LEMMA InvReadDisks ==
    ASSUME IInv, ReadDisks
    PROVE  IInv'
<1>1. PICK disk \in DiskReadings :
         /\ disk_counters' = disk
         /\ rates' = Merged(RatesOf(networks, prev.net, elapsed, Slack),
                            RatesOf(disk, prev.disk, elapsed, Slack))
  BY DEF ReadDisks, Slack
<1>2. ReadingsInv(disk, Disks) /\ DatedIn(disk, now, now)
  BY FreshDisks DEF IInv
<1>3. DOMAIN rates' = DOMAIN networks \cup DOMAIN disk
  BY <1>1 DEF Merged, RatesOf
<1> USE DEF IInv, hostVars
<1>4. /\ UNCHANGED <<now, hostVars, networks, prev, sampled_at>>
      /\ pc = "disks" /\ pc' = "collect" /\ took' = now - began
      /\ reads' = IF reads = 2 THEN 2 ELSE reads + 1
  BY DEF ReadDisks
<1>5. HostInv'
  BY <1>4 DEF HostInv
<1>6. PrevInv'
  BY <1>1, <1>2, <1>4 DEF PrevInv, ReadingsInv, Behind
<1>7. GainInv' /\ CountInv' /\ ChurnInv'
  BY <1>1, <1>3, <1>4 DEF GainInv, Reading, DateInv, CountInv, ChurnInv
<1>8. PrevDated'
  BY <1>4 DEF DateInv, PrevDated, DatedIn, Reading
<1>9. TickDated'
  <2>1. /\ began \in 0 .. now /\ began <= sampled_at /\ sampled_at \in 0 .. now /\ now \in Int
        /\ DatedIn(networks, began, began)
    BY <1>4 DEF DateInv, TickDated, Reading, TypeOK, HostInv
  <2>2. /\ now - began \in Nat
        /\ sampled_at - (now - began) <= began /\ now <= sampled_at + (now - began)
    BY <2>1
  <2>3. DatedIn(networks, sampled_at - (now - began), sampled_at)
    BY <2>1, <2>2 DEF DatedIn, PrevInv, ReadingsInv, Behind
  <2>4. DatedIn(disk, sampled_at, sampled_at + (now - began))
    BY <1>2, <2>1, <2>2 DEF DatedIn, ReadingsInv, Behind
  <2>5. QED  BY <1>1, <1>4, <2>2, <2>3, <2>4 DEF TickDated, DatedIn, Reading
<1>10. TypeOK'
  BY <1>4 DEF TypeOK, HostInv
<1>11. QED  BY <1>5, <1>6, <1>7, <1>8, <1>9, <1>10 DEF DateInv

LEMMA InvEndTick ==
    ASSUME IInv, EndTick
    PROVE  IInv'
<1> USE DEF IInv, EndTick, NextPrev, hostVars
<1>1. HostInv' /\ ChurnInv' /\ GainInv' /\ CountInv'
  BY DEF HostInv, ChurnInv, GainInv, Reading, DateInv, CountInv
<1>2. PrevInv'
  BY DEF PrevInv, ReadingsInv, Behind, NoReadings
<1>3. PrevDated' /\ TickDated'
  BY DEF DateInv, PrevDated, TickDated, DatedIn, Reading
<1>4. TypeOK'
  BY DEF TypeOK, ChurnInv, HostInv
<1>5. QED  BY <1>1, <1>2, <1>3, <1>4 DEF DateInv

LEMMA InvStep == IInv /\ [Next]_vars => IInv'
<1> SUFFICES ASSUME IInv, [Next]_vars
             PROVE  IInv'
  OBVIOUS
<1>1. ASSUME NEW d \in present, Disappear(d)
      PROVE  \E e \in Devices : Move(e) \/ Disappear(e) \/ Appear(e)
  BY <1>1 DEF IInv, HostInv
<1>2. QED
  BY <1>1, InvHostSteps, InvWarmedUp, InvFirstDisks, InvRefreshNetworks, InvDates, InvReadDisks,
     InvEndTick DEF Next

LEMMA InvAlways == Spec => []IInv
<1>1. QED  BY InvInit, InvStep, PTL DEF Spec

-----------------------------------------------------------------------------
(* Rates *)

(* A rate of two readings. *)
LEMMA RateOfReading ==
    ASSUME NEW cur, NEW old, AllEarned(cur, old), NEW secs \in Int, NEW slack \in Nat,
           NEW d \in DOMAIN cur
    PROVE  LET r == RatesOf(cur, old, secs, slack)[d] IN
              /\ 0 <= r.num /\ r.num <= r.of
              /\ (d \in DOMAIN old =>
                    /\ secs <= cur[d].at - old[d].at + slack
                    /\ cur[d].at - old[d].at <= secs + slack)
                 => r.den <= r.over + r.slack /\ r.over <= r.den + r.slack
<1>1. RatesOf(cur, old, secs, slack)[d] =
         IF d \in DOMAIN old THEN Rate(cur[d], old[d], secs, slack) ELSE NoRate
  BY DEF RatesOf
<1>2. CASE d \notin DOMAIN old \/ secs = 0
  BY <1>1, <1>2 DEF Rate, NoRate
<1>3. CASE d \in DOMAIN old /\ secs # 0
  <2>1. Earned(cur[d], old[d])
    BY <1>3 DEF AllEarned
  <2>2. RatesOf(cur, old, secs, slack)[d] =
           [ num |-> Delta(cur[d].bytes, old[d].bytes), den |-> secs,
             of |-> cur[d].moved - old[d].moved, over |-> cur[d].at - old[d].at, slack |-> slack ]
    BY <1>1, <1>3 DEF Rate
  <2>3. /\ 0 <= Delta(cur[d].bytes, old[d].bytes)
        /\ Delta(cur[d].bytes, old[d].bytes) <= cur[d].moved - old[d].moved
    BY <2>1 DEF Earned, Delta
  <2>4. QED  BY <1>3, <2>2, <2>3
<1>4. QED  BY <1>2, <1>3

LEMMA LargerIs ==
    ASSUME NEW a \in Nat, NEW b \in Nat
    PROVE  Larger(a, b) \in Nat /\ a <= Larger(a, b) /\ b <= Larger(a, b)
BY DEF Larger

(* When a tick computes its rates, its two kinds of readings are no further
   from the time it divides by than the slack. *)
LEMMA TickWindow ==
    ASSUME IInv, pc = "disks", NEW disk, ReadingsInv(disk, Disks), DatedIn(disk, now, now)
    PROVE  /\ elapsed \in Int /\ Slack \in Nat
           /\ reads > 0 => \A d \in DOMAIN networks \cap DOMAIN prev.net :
                 /\ elapsed <= networks[d].at - prev.net[d].at + Slack
                 /\ networks[d].at - prev.net[d].at <= elapsed + Slack
           /\ \A d \in DOMAIN disk \cap DOMAIN prev.disk :
                 /\ elapsed <= disk[d].at - prev.disk[d].at + Slack
                 /\ disk[d].at - prev.disk[d].at <= elapsed + Slack
<1>1. /\ now \in Int /\ began \in 0 .. now /\ elapsed \in Int /\ prev.at \in 0 .. now
      /\ began <= prev.at + elapsed /\ prev.at + elapsed <= now
      /\ prev.took \in Nat
  BY DEF IInv, HostInv, TypeOK, DateInv, PrevDated, TickDated, Reading
<1>2. Slack \in Nat /\ prev.took <= Slack /\ now - began <= Slack
  <2>1. now - began \in Nat
    BY <1>1
  <2>2. QED  BY <1>1, <2>1, LargerIs DEF Slack
<1> HIDE DEF Slack
<1>3. ASSUME reads > 0, NEW d \in DOMAIN networks \cap DOMAIN prev.net
      PROVE  /\ elapsed <= networks[d].at - prev.net[d].at + Slack
             /\ networks[d].at - prev.net[d].at <= elapsed + Slack
  <2>1. networks[d].at \in Int /\ prev.net[d].at \in Int
    BY DEF IInv, PrevInv, ReadingsInv, Behind
  <2>2. /\ began <= networks[d].at /\ networks[d].at <= began
        /\ prev.at - prev.took <= prev.net[d].at /\ prev.net[d].at <= prev.at
    BY <1>3 DEF IInv, DateInv, PrevDated, TickDated, DatedIn, Reading
  <2>3. QED  BY <1>1, <1>2, <2>1, <2>2
<1>4. ASSUME NEW d \in DOMAIN disk \cap DOMAIN prev.disk
      PROVE  /\ elapsed <= disk[d].at - prev.disk[d].at + Slack
             /\ disk[d].at - prev.disk[d].at <= elapsed + Slack
  <2>1. disk[d].at \in Int /\ prev.disk[d].at \in Int
    BY DEF IInv, PrevInv, ReadingsInv, Behind
  <2>2. /\ now <= disk[d].at /\ disk[d].at <= now
        /\ prev.at <= prev.disk[d].at /\ prev.disk[d].at <= prev.at + prev.took
    BY DEF IInv, DateInv, PrevDated, DatedIn
  <2>3. QED  BY <1>1, <1>2, <2>1, <2>2
<1>5. QED  BY <1>1, <1>2, <1>3, <1>4

(* What a tick shows, of which only ReadDisks computes anything. *)
LEMMA RatesRead ==
    ASSUME IInv, ReadDisks
    PROVE  RateIsEarned' /\ RateCoversItsWindow'
<1> DEFINE n == RatesOf(networks, prev.net, elapsed, Slack)
<1>1. PICK disk \in DiskReadings :
         rates' = Merged(n, RatesOf(disk, prev.disk, elapsed, Slack))
  BY DEF ReadDisks, Slack
<1> DEFINE k == RatesOf(disk, prev.disk, elapsed, Slack)
<1>2. /\ ReadingsInv(disk, Disks) /\ DatedIn(disk, now, now)
      /\ AllEarned(disk, prev.disk) /\ AllEarned(networks, prev.net)
  <2>1. ReadingsInv(disk, Disks) /\ DatedIn(disk, now, now)
    BY FreshDisks DEF IInv
  <2>2. AllEarned(disk, prev.disk)
    BY FreshIsEarned DEF IInv, PrevInv, DiskReadings, Devices
  <2>3. AllEarned(networks, prev.net)
    BY DEF IInv, GainInv, ReadDisks, Reading
  <2>4. QED  BY <2>1, <2>2, <2>3
<1>3. DOMAIN n = DOMAIN networks /\ DOMAIN k = DOMAIN disk
  BY DEF RatesOf
<1>4. DOMAIN n \subseteq Interfaces /\ DOMAIN k \subseteq Disks
  BY <1>2, <1>3 DEF IInv, PrevInv, ReadingsInv
<1>5. elapsed \in Int /\ Slack \in Nat /\ (reads' = 2 => reads > 0)
  BY <1>2, TickWindow DEF ReadDisks, IInv, DateInv, CountInv
<1>6. ASSUME NEW d \in DOMAIN n
      PROVE  /\ 0 <= n[d].num /\ n[d].num <= n[d].of
             /\ reads' = 2 => n[d].den <= n[d].over + n[d].slack /\ n[d].over <= n[d].den + n[d].slack
  <2>1. d \in DOMAIN networks
    BY <1>3
  <2>2. reads' = 2 /\ d \in DOMAIN prev.net =>
           /\ elapsed <= networks[d].at - prev.net[d].at + Slack
           /\ networks[d].at - prev.net[d].at <= elapsed + Slack
    BY <1>2, <1>5, <2>1, TickWindow DEF ReadDisks
  <2>3. QED  BY <1>2, <1>5, <2>1, <2>2, RateOfReading
<1>7. ASSUME NEW d \in DOMAIN k
      PROVE  /\ 0 <= k[d].num /\ k[d].num <= k[d].of
             /\ k[d].den <= k[d].over + k[d].slack /\ k[d].over <= k[d].den + k[d].slack
  <2>1. d \in DOMAIN disk
    BY <1>3
  <2>2. d \in DOMAIN prev.disk =>
           /\ elapsed <= disk[d].at - prev.disk[d].at + Slack
           /\ disk[d].at - prev.disk[d].at <= elapsed + Slack
    BY <1>2, <2>1, TickWindow DEF ReadDisks
  <2>3. QED  BY <1>2, <1>5, <2>1, <2>2, RateOfReading
<1> HIDE DEF n, k
<1>8. /\ DOMAIN rates' = DOMAIN n \cup DOMAIN k
      /\ \A d \in DOMAIN rates' : rates'[d] = IF d \in DOMAIN n THEN n[d] ELSE k[d]
  BY <1>1 DEF Merged, k
<1>9. RateIsEarned'
  BY <1>6, <1>7, <1>8 DEF RateIsEarned
<1>10. RateCoversItsWindow'
  BY <1>4, <1>6, <1>7, <1>8, RatesAssumption DEF RateCoversItsWindow
<1>11. QED  BY <1>9, <1>10

LEMMA RatesStep ==
    IInv /\ RateIsEarned /\ RateCoversItsWindow /\ [Next]_vars
        => RateIsEarned' /\ RateCoversItsWindow'
<1> SUFFICES ASSUME IInv, RateIsEarned, RateCoversItsWindow, [Next]_vars
             PROVE  RateIsEarned' /\ RateCoversItsWindow'
  OBVIOUS
<1>1. CASE UNCHANGED <<rates, reads>>
  BY <1>1 DEF RateIsEarned, RateCoversItsWindow
<1>2. CASE ReadDisks
  BY <1>2, RatesRead
<1>3. CASE RefreshNetworks
  BY <1>3 DEF RefreshNetworks, RateIsEarned, RateCoversItsWindow
<1>4. UNCHANGED <<rates, reads>> \/ ReadDisks \/ RefreshNetworks
  BY DEF Next, Move, Disappear, Appear, TimePasses, WarmedUp, FirstDisks, TakeElapsed, TakeSampledAt,
         EndTick, vars, runVars
<1>5. QED  BY <1>1, <1>2, <1>3, <1>4

LEMMA RatesAlways == Spec => [](RateIsEarned /\ RateCoversItsWindow)
<1>1. Init => RateIsEarned /\ RateCoversItsWindow
  BY DEF Init, RateIsEarned, RateCoversItsWindow
<1>2. QED  BY <1>1, RatesStep, InvAlways, PTL DEF Spec

-----------------------------------------------------------------------------
(* Theorems *)

(* "Rebuilt from current keys each tick so container churn can't grow these
   maps": for any devices that come and go, Prev has the devices of the last
   reading and no others (EndTick), and no date is in the future. *)
THEOREM TypeCorrect == Spec => []TypeOK
<1>1. IInv => TypeOK
  BY DEF IInv
<1>2. QED  BY <1>1, InvAlways, PTL

(* No device is shown with bytes it has not moved since it was last read
   (rate, saturating_sub), whatever is replaced, restarts or fails. *)
THEOREM RatesAreEarned == Spec => []RateIsEarned
<1>1. QED  BY RatesAlways, PTL

(* A rate is divided by the time its bytes were counted over, give or take
   what one of its two ticks has spent between its first reading and its
   last: Prev carries a date from among its readings, except those of the
   first interfaces, which are older than it. *)
THEOREM RatesCoverTheirWindow == Spec => []RateCoversItsWindow
<1>1. QED  BY RatesAlways, PTL

-----------------------------------------------------------------------------
(* Selections *)

Increasing(pos, m) == \A a, b \in 1 .. m : a < b => pos[a] < pos[b]

IsPicked(s, K, pos) ==
    /\ pos \in [1 .. Cardinality(K) -> K]
    /\ \A i \in K : \E a \in 1 .. Cardinality(K) : pos[a] = i
    /\ Increasing(pos, Cardinality(K))
    /\ Picked(s, K) = [a \in 1 .. Cardinality(K) |-> s[pos[a]]]

(* What is picked is picked at positions that increase, and all of them. *)
LEMMA PickedIs ==
    ASSUME NEW s, NEW n \in Nat, NEW K, K \subseteq 1 .. n
    PROVE  /\ Cardinality(K) \in Nat
           /\ \E pos : IsPicked(s, K, pos)
<1> DEFINE U(i) == { j \in K : j <= i }
           c == Cardinality(K)
           rank == [i \in K |-> Cardinality(U(i))]
           pos == [a \in 1 .. c |-> CHOOSE i \in K : Cardinality(U(i)) = a]
<1>1. IsFiniteSet(K) /\ c \in Nat /\ K \subseteq Int
  <2>1. IsFiniteSet(1 .. n)
    BY FS_Interval
  <2>2. IsFiniteSet(K)
    BY <2>1, FS_Subset
  <2>3. QED  BY <2>2, FS_CardinalityType
<1>t. \A i, j \in K : i < j \/ j < i \/ i = j
  BY <1>1
<1>2. \A i \in K : IsFiniteSet(U(i)) /\ Cardinality(U(i)) \in 1 .. c
  <2> SUFFICES ASSUME NEW i \in K
               PROVE  IsFiniteSet(U(i)) /\ Cardinality(U(i)) \in 1 .. c
    OBVIOUS
  <2>1. IsFiniteSet(U(i)) /\ Cardinality(U(i)) <= c
    <3>1. U(i) \in SUBSET K
      OBVIOUS
    <3> HIDE DEF U
    <3>2. QED  BY <1>1, <3>1, FS_Subset
  <2>2. i \in U(i)
    BY <1>1
  <2> HIDE DEF U
  <2>3. Cardinality(U(i)) \in Nat /\ Cardinality(U(i)) # 0
    BY <2>1, <2>2, FS_CardinalityType, FS_EmptySet
  <2>4. QED  BY <1>1, <2>1, <2>3
<1>3. \A i, j \in K : i < j => Cardinality(U(i)) < Cardinality(U(j))
  <2> SUFFICES ASSUME NEW i \in K, NEW j \in K, i < j
               PROVE  Cardinality(U(i)) < Cardinality(U(j))
    OBVIOUS
  <2>1. U(i) \in SUBSET U(j)
    <3>1. \A k \in K : k <= i => k <= j
      BY <1>1
    <3>2. QED  BY <3>1
  <2>2. j \in U(j) /\ j \notin U(i)
    BY <1>1
  <2> HIDE DEF U
  <2>3. Cardinality(U(i)) <= Cardinality(U(j)) /\ Cardinality(U(i)) # Cardinality(U(j))
    BY <1>2, <2>1, <2>2, FS_Subset
  <2>4. Cardinality(U(i)) \in Int /\ Cardinality(U(j)) \in Int
    BY <1>1, <1>2
  <2>5. QED  BY <2>3, <2>4
<1> HIDE DEF U
<1>4. \A i, j \in K : Cardinality(U(i)) = Cardinality(U(j)) => i = j
  <2> SUFFICES ASSUME NEW i \in K, NEW j \in K, Cardinality(U(i)) = Cardinality(U(j))
               PROVE  i = j
    OBVIOUS
  <2>1. i < j \/ j < i \/ i = j
    BY <1>1
  <2>2. Cardinality(U(i)) \in Int
    BY <1>1, <1>2
  <2>3. ~(Cardinality(U(i)) < Cardinality(U(i)))
    BY <2>2
  <2>4. QED  BY <1>3, <2>1, <2>3
<1>5. \A a \in 1 .. c : \E i \in K : Cardinality(U(i)) = a
  <2>1. rank \in Injection(K, 1 .. c)
    BY <1>2, <1>4 DEF Injection, IsInjective
  <2>2. IsFiniteSet(1 .. c) /\ Cardinality(1 .. c) = c
    BY <1>1, FS_Interval
  <2> HIDE DEF rank
  <2>3. rank \in Surjection(K, 1 .. c)
    BY <2>1, <2>2, FS_Injection
  <2>4. QED  BY <2>3 DEF Surjection, rank
<1>6. \A a \in 1 .. c : pos[a] \in K /\ Cardinality(U(pos[a])) = a
  BY <1>5
<1>7. Picked(s, K) = [a \in 1 .. c |-> s[pos[a]]]
  BY DEF Picked, U
<1>a. pos \in [1 .. c -> K]
  BY <1>6
<1> HIDE DEF pos, c
<1>8. \A i \in K : \E a \in 1 .. c : pos[a] = i
  <2> SUFFICES ASSUME NEW i \in K
               PROVE  \E a \in 1 .. c : pos[a] = i
    OBVIOUS
  <2>1. Cardinality(U(i)) \in 1 .. c
    BY <1>2
  <2>2. QED  BY <1>4, <1>6, <2>1
<1>9. Increasing(pos, c)
  <2> SUFFICES ASSUME NEW a \in 1 .. c, NEW b \in 1 .. c, a < b
               PROVE  pos[a] < pos[b]
    BY DEF Increasing
  <2>1. pos[a] \in K /\ pos[b] \in K /\ Cardinality(U(pos[a])) = a /\ Cardinality(U(pos[b])) = b
    BY <1>6
  <2>2. pos[a] < pos[b] \/ pos[b] < pos[a] \/ pos[a] = pos[b]
    BY <1>t, <2>1
  <2>3. pos[b] < pos[a] => b < a
    BY <1>3, <2>1
  <2>4. ~(b < a) /\ a # b
    BY <1>1
  <2>5. QED  BY <2>1, <2>2, <2>3, <2>4
<1>10. IsPicked(s, K, pos)
  BY <1>7, <1>8, <1>9, <1>a, Zenon DEF c, IsPicked
<1>11. QED  BY <1>1, <1>10 DEF c

(* Of a sequence that increases there are as many as it is long. *)
LEMMA AsManyAsLong ==
    ASSUME NEW m \in Nat, NEW d, \A a \in 1 .. m : d[a] \in Int, Increasing(d, m)
    PROVE  Cardinality({ d[a] : a \in 1 .. m }) = m
<1> DEFINE S == { d[a] : a \in 1 .. m }
           f == [a \in 1 .. m |-> d[a]]
<1>1. ASSUME NEW a \in 1 .. m, NEW b \in 1 .. m, d[a] = d[b]
      PROVE  a = b
  <2>1. a < b \/ b < a \/ a = b
    OBVIOUS
  <2>2. ~(d[a] < d[b]) /\ ~(d[b] < d[a])
    BY <1>1
  <2>3. QED  BY <2>1, <2>2 DEF Increasing
<1>2. f \in Injection(1 .. m, S) /\ f \in Surjection(1 .. m, S)
  BY <1>1 DEF Injection, IsInjective, Surjection
<1>3. ExistsBijection(1 .. m, S)
  BY <1>2 DEF ExistsBijection, Bijection
<1> HIDE DEF S
<1>4. Cardinality(S) = m
  BY <1>3, FS_CountingElements
<1>5. QED  BY <1>4 DEF S

(* r is what s has at the positions in K. *)
Picks(r, s, K, pos) ==
    /\ \A a \in 1 .. Len(r) : pos[a] \in K /\ r[a] = s[pos[a]]
    /\ \A i \in K : \E a \in 1 .. Len(r) : pos[a] = i
    /\ Increasing(pos, Len(r))

LEMMA PickedFrom ==
    ASSUME NEW S, NEW s \in Seq(S), NEW K, K \subseteq DOMAIN s
    PROVE  /\ Picked(s, K) \in Seq(S) /\ Len(Picked(s, K)) \in Nat
           /\ \E pos : Picks(Picked(s, K), s, K, pos)
<1>1. Len(s) \in Nat /\ K \subseteq 1 .. Len(s)
  BY LenProperties
<1> DEFINE c == Cardinality(K)
<1>2. c \in Nat /\ \E pos : IsPicked(s, K, pos)
  BY <1>1, PickedIs
<1>p. PICK pos : IsPicked(s, K, pos)
  BY <1>2, Zenon
<1>3. /\ pos \in [1 .. c -> K]
      /\ \A i \in K : \E a \in 1 .. c : pos[a] = i
      /\ Increasing(pos, c)
      /\ Picked(s, K) = [a \in 1 .. c |-> s[pos[a]]]
  BY <1>p, Zenon DEF IsPicked
<1> HIDE DEF c
<1>4. \A a \in 1 .. c : pos[a] \in K /\ s[pos[a]] \in S
  <2>1. \A a \in 1 .. c : pos[a] \in K
    BY <1>3
  <2>2. \A i \in K : s[i] \in S
    BY <1>1, ElementOfSeq
  <2>3. QED  BY <2>1, <2>2
<1> DEFINE r == [a \in 1 .. c |-> s[pos[a]]]
<1>5. r \in Seq(S) /\ Len(r) = c /\ \A a \in 1 .. c : r[a] = s[pos[a]]
  <2>1. r \in [1 .. c -> S]
    BY <1>4
  <2>2. \A a \in 1 .. c : r[a] = s[pos[a]]
    OBVIOUS
  <2> HIDE DEF r
  <2>3. r \in Seq(S) /\ Len(r) = c
    BY <1>2, <2>1
  <2>4. QED  BY <2>2, <2>3
<1>6. Picked(s, K) = r
  BY <1>3
<1> HIDE DEF r
<1>7. Picks(r, s, K, pos)
  BY <1>3, <1>4, <1>5, Zenon DEF Picks
<1>8. QED  BY <1>2, <1>5, <1>6, <1>7, Zenon

-----------------------------------------------------------------------------
(* Ports *)

LEMMA TcpLinesAre ==
    ASSUME NEW h \in Hosts
    PROVE  TcpLines(h.tcp) \in Seq(TcpLine)
<1>a. \A f \in 1 .. 2 : h.tcp[f].lines \in Seq(TcpLine)
  BY HostsAssumption, Zenon
<1>b. 1 \in 1 .. 2 /\ 2 \in 1 .. 2
  OBVIOUS
<1>1. h.tcp[1].lines \in Seq(TcpLine) /\ h.tcp[2].lines \in Seq(TcpLine)
  BY <1>a, <1>b, Zenon
<1>2. LinesOf(h.tcp[1]) \in Seq(TcpLine) /\ LinesOf(h.tcp[2]) \in Seq(TcpLine)
  BY <1>1 DEF LinesOf
<1>3. QED  BY <1>2, ConcatProperties DEF TcpLines

HasAll(s, R) == (\A a \in 1 .. Len(s) : s[a] \in R) /\ \A x \in R : \E a \in 1 .. Len(s) : s[a] = x

LEMMA PortsAre ==
    ASSUME host \in Hosts
    PROVE  /\ PortsOf(host.tcp) \in Seq(Int)
           /\ HasAll(PortsOf(host.tcp), ListedPorts)
<1> DEFINE lines == TcpLines(host.tcp)
           K == { i \in DOMAIN lines : lines[i].state = "0A" /\ lines[i].port # -1 }
           heard == Picked(lines, K)
           ports == [i \in DOMAIN heard |-> heard[i].port]
<1>1. lines \in Seq(TcpLine)
  BY TcpLinesAre
<1>2. \A i \in K : /\ i \in DOMAIN lines /\ lines[i].state = "0A" /\ lines[i].port # -1
  OBVIOUS
<1>k. \A i \in DOMAIN lines : lines[i].state = "0A" /\ lines[i].port # -1 => i \in K
  OBVIOUS
<1>a. K \subseteq DOMAIN lines
  OBVIOUS
<1>3. /\ PortsOf(host.tcp) = ports
      /\ ListedPorts = { lines[i].port : i \in { j \in DOMAIN lines : lines[j].state = "0A" } } \ {-1}
  BY Zenon DEF PortsOf, ListedPorts
<1> HIDE DEF lines, K
<1>4. heard \in Seq(TcpLine) /\ Len(heard) \in Nat /\ \E pos : Picks(heard, lines, K, pos)
  BY <1>1, <1>a, PickedFrom
<1> HIDE DEF heard
<1>5. PICK pos : Picks(heard, lines, K, pos)
  BY <1>4
<1>6. DOMAIN heard = 1 .. Len(heard)
  BY <1>4, LenProperties
<1>7. /\ ports \in Seq(Int) /\ Len(ports) = Len(heard)
      /\ \A a \in 1 .. Len(heard) : ports[a] = heard[a].port
  <2>1. \A a \in 1 .. Len(heard) : heard[a].port \in Int
    <3>1. \A a \in 1 .. Len(heard) : heard[a] \in TcpLine
      BY <1>4, ElementOfSeq
    <3>2. QED  BY <3>1 DEF TcpLine
  <2>2. ports \in [1 .. Len(heard) -> Int]
    BY <1>6, <2>1
  <2>3. \A a \in 1 .. Len(heard) : ports[a] = heard[a].port
    BY <1>6
  <2> HIDE DEF ports
  <2>4. ports \in Seq(Int) /\ Len(ports) = Len(heard)
    BY <1>4, <2>2
  <2>5. QED  BY <2>3, <2>4
<1> HIDE DEF ports
<1>8. \A a \in 1 .. Len(heard) : pos[a] \in K /\ heard[a] = lines[pos[a]]
  BY <1>5 DEF Picks
<1>9. \A a \in 1 .. Len(ports) : ports[a] \in ListedPorts
  BY <1>2, <1>3, <1>7, <1>8
<1>10. \A x \in ListedPorts : \E a \in 1 .. Len(ports) : ports[a] = x
  <2> SUFFICES ASSUME NEW x \in ListedPorts
               PROVE  \E a \in 1 .. Len(ports) : ports[a] = x
    OBVIOUS
  <2>1. PICK i \in DOMAIN lines : lines[i].state = "0A" /\ lines[i].port = x /\ x # -1
    BY <1>3
  <2>2. i \in K
    BY <1>k, <2>1
  <2>3. PICK a \in 1 .. Len(heard) : pos[a] = i
    BY <1>5, <2>2 DEF Picks
  <2>4. QED  BY <1>7, <1>8, <2>1, <2>3
<1>11. QED  BY <1>3, <1>7, <1>9, <1>10 DEF HasAll

LEMMA SortsAre ==
    ASSUME NEW ports \in Seq(Int), NEW R, HasAll(ports, R), NEW t \in Sorts(ports)
    PROVE  /\ t \in Seq(Int) /\ HasAll(t, R)
           /\ \A i, j \in 1 .. Len(t) : i < j => t[i] <= t[j]
<1> DEFINE n == Len(ports)
<1>1. n \in Nat /\ DOMAIN ports = 1 .. n /\ \A i \in 1 .. n : ports[i] \in Int
  BY LenProperties, ElementOfSeq
<1>2. PICK p \in [DOMAIN ports -> DOMAIN ports] :
          /\ \A j \in DOMAIN ports : \E i \in DOMAIN ports : p[i] = j
          /\ \A i, j \in DOMAIN ports : i < j => ports[p[i]] <= ports[p[j]]
          /\ t = [i \in DOMAIN ports |-> ports[p[i]]]
  <2>1. t \in Sorts(ports)
    OBVIOUS
  <2>2. QED  BY <2>1, Zenon DEF Sorts
<1>d. DOMAIN ports = 1 .. n
  BY <1>1
<1>3. HasAll(ports, R)
  OBVIOUS
<1> HIDE DEF n
<1>4. \A i \in 1 .. n : t[i] = ports[p[i]] /\ p[i] \in 1 .. n
  BY <1>2, <1>d
<1>5. t \in Seq(Int) /\ Len(t) = n
  <2>1. t \in [1 .. n -> Int]
    BY <1>1, <1>2, <1>4, <1>d
  <2>2. QED  BY <1>1, <2>1
<1>6. /\ \A a \in 1 .. n : ports[a] \in R
      /\ \A x \in R : \E a \in 1 .. n : ports[a] = x
  BY <1>3 DEF HasAll, n
<1>7. HasAll(t, R)
  <2>1. \A a \in 1 .. n : t[a] \in R
    BY <1>4, <1>6
  <2>2. ASSUME NEW x \in R
        PROVE  \E a \in 1 .. n : t[a] = x
    <3>1. PICK b \in 1 .. n : ports[b] = x
      BY <1>6
    <3>2. PICK a \in 1 .. n : p[a] = b
      BY <1>2, <1>d, Zenon
    <3>3. QED  BY <1>4, <3>1, <3>2, Zenon
  <2>3. QED  BY <1>5, <2>1, <2>2, Zenon DEF HasAll
<1>8. \A i, j \in 1 .. Len(t) : i < j => t[i] <= t[j]
  BY <1>2, <1>4, <1>5, <1>d
<1>9. QED  BY <1>5, <1>7, <1>8

LEMMA DedupIs ==
    ASSUME NEW t \in Seq(Int), NEW R, HasAll(t, R), \A i, j \in 1 .. Len(t) : i < j => t[i] <= t[j]
    PROVE  /\ Dedup(t) \in Seq(Int) /\ HasAll(Dedup(t), R) /\ Increasing(Dedup(t), Len(Dedup(t)))
<1> DEFINE K == { i \in DOMAIN t : i = 1 \/ t[i] # t[i - 1] }
           d == Picked(t, K)
<1>1. Len(t) \in Nat /\ DOMAIN t = 1 .. Len(t) /\ \A i \in 1 .. Len(t) : t[i] \in Int
  BY LenProperties, ElementOfSeq
<1>a. K \subseteq DOMAIN t
  OBVIOUS
<1>b. \A i \in 1 .. Len(t) : i \in K <=> (i = 1 \/ t[i] # t[i - 1])
  BY <1>1
<1>c. d = Dedup(t)
  BY DEF Dedup
<1> HIDE DEF K
<1>2. d \in Seq(Int) /\ Len(d) \in Nat /\ \E pos : Picks(d, t, K, pos)
  BY <1>a, PickedFrom
<1> HIDE DEF d
<1>3. PICK pos : Picks(d, t, K, pos)
  BY <1>2
<1>4. \A a \in 1 .. Len(d) : pos[a] \in K /\ pos[a] \in 1 .. Len(t) /\ d[a] = t[pos[a]]
  BY <1>1, <1>3, <1>a DEF Picks
<1>5. Increasing(d, Len(d))
  <2> SUFFICES ASSUME NEW a \in 1 .. Len(d), NEW b \in 1 .. Len(d), a < b
               PROVE  d[a] < d[b]
    BY DEF Increasing
  <2>1. pos[a] < pos[b]
    BY <1>3 DEF Picks, Increasing
  <2> DEFINE i == pos[a]
             j == pos[b]
  <2>2. i \in 1 .. Len(t) /\ j \in 1 .. Len(t) /\ i < j /\ j \in K /\ d[a] = t[i] /\ d[b] = t[j]
    BY <1>4, <2>1
  <2> HIDE DEF i, j
  <2>3. j - 1 \in 1 .. Len(t) /\ j # 1 /\ j - 1 < j /\ (i < j - 1 \/ i = j - 1)
    BY <1>1, <2>2
  <2>4. t[j] # t[j - 1]
    BY <1>b, <2>2, <2>3
  <2>5. t[j - 1] <= t[j]
    BY <2>2, <2>3
  <2>6. i < j - 1 => t[i] <= t[j - 1]
    BY <2>2, <2>3
  <2>7. t[i] \in Int /\ t[j] \in Int /\ t[j - 1] \in Int
    BY <1>1, <2>2, <2>3
  <2>8. t[i] < t[j]
    BY <2>3, <2>4, <2>5, <2>6, <2>7
  <2>9. QED  BY <2>2, <2>8
<1>6. \A i \in 1 .. Len(t) : \E k \in K : t[k] = t[i]
  <2> DEFINE S == { i \in 0 .. Len(t) : i = 0 \/ \E k \in K : t[k] = t[i] }
  <2>1. 0 \in S
    BY <1>1
  <2>2. ASSUME NEW i \in 1 .. Len(t), i - 1 \in S
        PROVE  i \in S
    <3>1. i \in 0 .. Len(t)
      BY <1>1
    <3>2. CASE i \in K
      BY <3>1, <3>2
    <3>3. CASE i \notin K
      <4>1. i # 1 /\ t[i] = t[i - 1]
        BY <1>b, <3>3
      <4>2. i - 1 # 0
        BY <4>1
      <4>3. PICK k \in K : t[k] = t[i - 1]
        BY <2>2, <4>2
      <4>4. QED  BY <3>1, <4>1, <4>3
    <3>4. QED  BY <3>2, <3>3
  <2> HIDE DEF S
  <2>3. 0 .. Len(t) \subseteq S
    BY <1>1, <2>1, <2>2, RangeInduction
  <2>4. \A i \in 1 .. Len(t) : i \in S /\ i # 0
    BY <2>3
  <2>5. QED  BY <2>4 DEF S
<1>7. \A a \in 1 .. Len(d) : d[a] \in R
  BY <1>4 DEF HasAll
<1>8. \A x \in R : \E a \in 1 .. Len(d) : d[a] = x
  <2> SUFFICES ASSUME NEW x \in R
               PROVE  \E a \in 1 .. Len(d) : d[a] = x
    OBVIOUS
  <2>1. PICK i \in 1 .. Len(t) : t[i] = x
    BY DEF HasAll
  <2>2. PICK k \in K : t[k] = x
    BY <1>6, <2>1
  <2>3. PICK a \in 1 .. Len(d) : pos[a] = k
    BY <1>3 DEF Picks
  <2>4. QED  BY <1>4, <2>2, <2>3
<1>9. QED  BY <1>2, <1>5, <1>7, <1>8, <1>c DEF HasAll

IsLowest(l, R, m) ==
    /\ Len(l) = Smaller(m, Cardinality(R))
    /\ \A i \in DOMAIN l : l[i] \in R /\ Cardinality({ p \in R : p < l[i] }) = i - 1

(* The first of what increases are the lowest. *)
LEMMA LowestOf ==
    ASSUME NEW d \in Seq(Int), NEW R, HasAll(d, R), Increasing(d, Len(d)), NEW m \in Nat
    PROVE  IsLowest(Truncated(d, m), R, m)
<1> DEFINE n == Len(d)
           k == Smaller(n, m)
           l == SubSeq(d, 1, k)
<1>1. n \in Nat /\ \A a \in 1 .. n : d[a] \in Int
  BY LenProperties, ElementOfSeq
<1>2. k \in Nat /\ k <= n /\ k = Smaller(m, n)
  BY <1>1 DEF Smaller
<1>3. /\ \A a \in 1 .. n : d[a] \in R
      /\ \A x \in R : \E a \in 1 .. n : d[a] = x
  BY DEF HasAll
<1>i. Increasing(d, n)
  OBVIOUS
<1>4. l \in Seq(Int) /\ Len(l) = k /\ \A i \in 1 .. k : l[i] = d[i]
  <2> HIDE DEF k
  <2>1. n = Len(d) /\ 0 \in Nat /\ 0 <= k /\ 0 + 1 = 1 /\ k - 0 = k /\ \A i \in 1 .. k : 0 + i = i
    BY <1>2
  <2>2. SubSeq(d, 0 + 1, k) \in Seq(Int) /\ Len(SubSeq(d, 0 + 1, k)) = k - 0
        /\ \A i \in 1 .. k - 0 : SubSeq(d, 0 + 1, k)[i] = d[0 + i]
    BY <1>2, <2>1, Part
  <2>3. QED  BY <2>1, <2>2, Zenon
<1>l. Truncated(d, m) = l
  BY DEF Truncated
<1> HIDE DEF n, k, l
<1>5. Cardinality(R) = n
  <2>1. R = { d[a] : a \in 1 .. n }
    BY <1>3
  <2>2. Cardinality({ d[a] : a \in 1 .. n }) = n
    BY <1>1, <1>i, AsManyAsLong
  <2>3. QED  BY <2>1, <2>2
<1>6. ASSUME NEW i \in 1 .. k
      PROVE  l[i] \in R /\ Cardinality({ p \in R : p < l[i] }) = i - 1
  <2>1. i \in 1 .. n /\ i - 1 \in Nat /\ l[i] = d[i]
    BY <1>1, <1>2, <1>4
  <2>2. \A a \in 1 .. i - 1 : a \in 1 .. n /\ a < i
    BY <1>1, <2>1
  <2>3. \A a \in 1 .. n : d[a] < d[i] <=> a < i
    <3> SUFFICES ASSUME NEW a \in 1 .. n
                 PROVE  d[a] < d[i] <=> a < i
      OBVIOUS
    <3>1. d[a] \in Int /\ d[i] \in Int
      BY <1>1, <2>1
    <3>2. a < i \/ a = i \/ i < a
      BY <2>1
    <3>3. a < i => d[a] < d[i]
      BY <1>i, <2>1 DEF Increasing
    <3>4. i < a => d[i] < d[a]
      BY <1>i, <2>1 DEF Increasing
    <3>5. QED  BY <2>1, <3>1, <3>2, <3>3, <3>4
  <2>4. \A a \in 1 .. n : a < i => a \in 1 .. i - 1
    BY <1>1, <2>1
  <2>5. { p \in R : p < d[i] } = { d[a] : a \in 1 .. i - 1 }
    <3>1. ASSUME NEW p \in R, p < d[i]
          PROVE  p \in { d[a] : a \in 1 .. i - 1 }
      <4>1. PICK a \in 1 .. n : d[a] = p
        BY <1>3
      <4>2. a \in 1 .. i - 1
        BY <2>3, <2>4, <3>1, <4>1
      <4>3. QED  BY <4>1, <4>2
    <3>2. ASSUME NEW a \in 1 .. i - 1
          PROVE  d[a] \in R /\ d[a] < d[i]
      BY <1>3, <2>2, <2>3
    <3>3. QED  BY <3>1, <3>2
  <2>6. Cardinality({ d[a] : a \in 1 .. i - 1 }) = i - 1
    <3> DEFINE j == i - 1
    <3>1. j \in Nat /\ (\A a \in 1 .. j : d[a] \in Int)
      BY <1>1, <2>1, <2>2
    <3>2. Increasing(d, j)
      BY <1>i, <2>2 DEF Increasing
    <3> HIDE DEF j
    <3>3. Cardinality({ d[a] : a \in 1 .. j }) = j
      BY <3>1, <3>2, AsManyAsLong
    <3>4. QED  BY <3>3 DEF j
  <2>7. d[i] \in R
    BY <1>3, <2>1
  <2>8. QED  BY <2>1, <2>5, <2>6, <2>7, Zenon
<1>7. DOMAIN l = 1 .. k
  BY <1>4
<1>8. IsLowest(l, R, m)
  BY <1>2, <1>4, <1>5, <1>6, <1>7, Zenon DEF IsLowest
<1>9. QED  BY <1>8, <1>l

LEMMA ListeningIs ==
    ASSUME host \in Hosts, NEW l \in Listening(host.tcp)
    PROVE  IsLowest(l, ListedPorts, MAX_PORTS)
<1>1. PICK t \in Sorts(PortsOf(host.tcp)) : l = Truncated(Dedup(t), MAX_PORTS)
  BY Zenon DEF Listening
<1>2. PortsOf(host.tcp) \in Seq(Int) /\ HasAll(PortsOf(host.tcp), ListedPorts)
  BY PortsAre
<1>3. t \in Seq(Int) /\ HasAll(t, ListedPorts) /\ \A i, j \in 1 .. Len(t) : i < j => t[i] <= t[j]
  BY <1>2, SortsAre
<1>4. /\ Dedup(t) \in Seq(Int) /\ HasAll(Dedup(t), ListedPorts)
      /\ Increasing(Dedup(t), Len(Dedup(t)))
  BY <1>3, DedupIs
<1>5. MAX_PORTS \in Nat
  BY HostsAssumption
<1>6. QED  BY <1>1, <1>4, <1>5, LowestOf

-----------------------------------------------------------------------------
(* Processes *)

IsBusiest(list, procs, n) ==
    /\ Len(list) = (IF n = 0 THEN Cardinality(procs) ELSE Smaller(n, Cardinality(procs)))
    /\ \A p \in procs :
          (\A i \in DOMAIN list : list[i] # p) => \A i \in DOMAIN list : p.cpu <= list[i].cpu

LEMMA ProcessesAre ==
    ASSUME NEW procs, IsFiniteSet(procs), procs \subseteq [pid: Nat, cpu: Int, state: ProcStates],
           NEW n \in Nat, NEW order \in ByShare(procs)
    PROVE  IsBusiest(IF n > 0 THEN Truncated(order, n) ELSE order, procs, n)
<1> DEFINE c == Cardinality(procs)
           k == IF n = 0 THEN c ELSE Smaller(c, n)
           list == IF n > 0 THEN Truncated(order, n) ELSE order
<1>1. c \in Nat
  BY FS_CardinalityType
<1>2. /\ order \in [1 .. c -> procs]
      /\ \A p \in procs : \E i \in DOMAIN order : order[i] = p
      /\ \A i, j \in DOMAIN order : i < j => order[i].cpu >= order[j].cpu
  <2>1. order \in ByShare(procs)
    OBVIOUS
  <2>2. QED  BY <2>1, Zenon DEF ByShare
<1>3. DOMAIN order = 1 .. c
  BY <1>2
<1>k. k \in Nat /\ k <= c /\ k = (IF n = 0 THEN c ELSE Smaller(n, c)) /\ (n > 0 => k = Smaller(c, n)) /\ (n = 0 => k = c)
  BY <1>1 DEF Smaller
<1> HIDE DEF c, k
<1>4. order \in Seq(procs) /\ Len(order) = c
  BY <1>1, <1>2
<1>5. Len(list) = k /\ DOMAIN list = 1 .. k /\ \A i \in 1 .. k : list[i] = order[i]
  <2>1. CASE n > 0
    <3>1. list = SubSeq(order, 1, k)
      BY <1>4, <1>k, <2>1 DEF Truncated
    <3>2. 0 \in Nat /\ 0 <= k /\ k <= Len(order) /\ 0 + 1 = 1 /\ k - 0 = k /\ \A i \in 1 .. k : 0 + i = i
      BY <1>k, <1>4
    <3>3. /\ SubSeq(order, 0 + 1, k) \in Seq(procs) /\ Len(SubSeq(order, 0 + 1, k)) = k - 0
          /\ \A i \in 1 .. k - 0 : SubSeq(order, 0 + 1, k)[i] = order[0 + i]
      BY <1>4, <1>k, <3>2, Part
    <3> HIDE DEF list
    <3>4. list \in Seq(procs) /\ Len(list) = k /\ \A i \in 1 .. k : list[i] = order[i]
      BY <3>1, <3>2, <3>3, Zenon
    <3>5. QED  BY <3>4, LenProperties
  <2>2. CASE n = 0
    <3>1. list = order
      BY <2>2
    <3>2. QED  BY <1>3, <1>4, <1>k, <2>2, <3>1
  <2>3. QED  BY <2>1, <2>2
<1> HIDE DEF list
<1>6. ASSUME NEW p \in procs, \A i \in DOMAIN list : list[i] # p, NEW i \in DOMAIN list
      PROVE  p.cpu <= list[i].cpu
  <2>1. PICK j \in 1 .. c : order[j] = p
    BY <1>2, <1>3
  <2>2. i \in 1 .. k /\ i \in 1 .. c /\ list[i] = order[i]
    BY <1>1, <1>5, <1>k
  <2>3. j \notin 1 .. k
    BY <1>5, <1>6, <2>1
  <2>4. i < j
    BY <1>1, <1>k, <2>2, <2>3
  <2>5. order[i].cpu >= order[j].cpu
    BY <1>2, <1>3, <2>2, <2>4
  <2>6. order[i] \in procs /\ order[i].cpu \in Int /\ p.cpu \in Int
    BY <1>2, <2>2
  <2>7. QED  BY <2>1, <2>2, <2>5, <2>6
<1>7. IsBusiest(list, procs, n)
  BY <1>5, <1>6, <1>k, Zenon DEF IsBusiest, c
<1>8. QED  BY <1>7 DEF list

LEMMA TwoParts ==
    ASSUME NEW A, NEW B, IsFiniteSet(A), IsFiniteSet(B), A \cap B = {}
    PROVE  Cardinality(A \cup B) = Cardinality(A) + Cardinality(B)
<1>1. Cardinality(A \cup B) = Cardinality(A) + Cardinality(B) - Cardinality(A \cap B)
  BY FS_Union
<1>2. Cardinality(A \cap B) = 0
  BY FS_EmptySet
<1>3. Cardinality(A) \in Nat /\ Cardinality(B) \in Nat
  BY FS_CardinalityType
<1>4. QED  BY <1>1, <1>2, <1>3

LEMMA StatesCount ==
    ASSUME NEW procs, IsFiniteSet(procs), procs \subseteq [pid: Nat, cpu: Int, state: ProcStates]
    PROVE  InState(procs, {"running"}) + InState(procs, {"sleeping", "idle"}) + InState(procs, {"zombie"})
             + InState(procs, {"stopped", "unknown"}) = Cardinality(procs)
<1> DEFINE In(states) == { p \in procs : p.state \in states }
           A == In({"running"})
           B == In({"sleeping", "idle"})
           C == In({"zombie"})
           D == In({"stopped", "unknown"})
<1>1. IsFiniteSet(A) /\ IsFiniteSet(B) /\ IsFiniteSet(C) /\ IsFiniteSet(D)
  <2>1. A \subseteq procs /\ B \subseteq procs /\ C \subseteq procs /\ D \subseteq procs
    OBVIOUS
  <2> HIDE DEF A, B, C, D
  <2>2. QED  BY <2>1, FS_Subset
<1>2. A \cap B = {} /\ (A \cup B) \cap C = {} /\ ((A \cup B) \cup C) \cap D = {}
  OBVIOUS
<1>3. ((A \cup B) \cup C) \cup D = procs
  <2>1. \A p \in procs : p.state \in ProcStates
    OBVIOUS
  <2>2. QED  BY <2>1 DEF ProcStates
<1>4. /\ InState(procs, {"running"}) = Cardinality(A) /\ InState(procs, {"sleeping", "idle"}) = Cardinality(B)
      /\ InState(procs, {"zombie"}) = Cardinality(C) /\ InState(procs, {"stopped", "unknown"}) = Cardinality(D)
  BY DEF InState
<1> HIDE DEF A, B, C, D
<1>5. IsFiniteSet(A \cup B) /\ IsFiniteSet((A \cup B) \cup C)
  BY <1>1, FS_Union
<1>6. /\ Cardinality(A \cup B) = Cardinality(A) + Cardinality(B)
      /\ Cardinality((A \cup B) \cup C) = Cardinality(A \cup B) + Cardinality(C)
      /\ Cardinality(((A \cup B) \cup C) \cup D) = Cardinality((A \cup B) \cup C) + Cardinality(D)
  BY <1>1, <1>2, <1>5, TwoParts
<1>7. QED  BY <1>3, <1>4, <1>6

-----------------------------------------------------------------------------
(* Ticks *)

(* Processes and Connections are made from parts of the host. *)
TakenFrom(ps, cs) ==
    /\ \E order \in ByShare(host.procs) : ps = Processes(host.procs, order)
    /\ \E listening \in Listening(host.tcp) : cs = Connections(host.tcp, listening)

LEMMA TakenAreSelections ==
    ASSUME host \in Hosts, cap \in Caps, TakenFrom(snapshot.processes, snapshot.connections)
    PROVE  BusiestAreListed /\ LowestAreListed
<1>1. IsFiniteSet(host.procs) /\ host.procs \subseteq [pid: Nat, cpu: Int, state: ProcStates] /\ cap \in Nat
  BY HostsAssumption
<1>2. PICK order \in ByShare(host.procs) : snapshot.processes = Processes(host.procs, order)
  BY Zenon DEF TakenFrom
<1>3. PICK listening \in Listening(host.tcp) : snapshot.connections = Connections(host.tcp, listening)
  BY Zenon DEF TakenFrom
<1>4. BusiestAreListed
  <2> DEFINE ps == snapshot.processes
             procs == host.procs
             list == IF cap > 0 THEN Truncated(order, cap) ELSE order
  <2>1. /\ ps.total = Cardinality(procs) /\ ps.running = InState(procs, {"running"})
        /\ ps.sleeping = InState(procs, {"sleeping", "idle"}) /\ ps.zombie = InState(procs, {"zombie"})
        /\ ps.list = list
    BY <1>2 DEF Processes
  <2>2. IsBusiest(list, procs, cap)
    BY <1>1, ProcessesAre
  <2>3. ps.running + ps.sleeping + ps.zombie + InState(procs, {"stopped", "unknown"}) = Cardinality(procs)
    BY <1>1, <2>1, StatesCount
  <2> HIDE DEF list, ps, procs
  <2>4. /\ Len(ps.list) = (IF cap = 0 THEN ps.total ELSE Smaller(cap, ps.total))
        /\ \A p \in procs :
              (\A i \in DOMAIN ps.list : ps.list[i] # p) => \A i \in DOMAIN ps.list : p.cpu <= ps.list[i].cpu
    BY <2>1, <2>2, Zenon DEF IsBusiest
  <2>5. QED  BY <2>3, <2>4, Zenon DEF BusiestAreListed, ps, procs
<1>5. LowestAreListed
  <2>1. snapshot.connections = {} <=> (~host.tcp[1].readable /\ ~host.tcp[2].readable)
    BY <1>3 DEF Connections
  <2>2. (\A f \in 1 .. 2 : ~host.tcp[f].readable) <=> (~host.tcp[1].readable /\ ~host.tcp[2].readable)
    <3>1. \A f \in 1 .. 2 : f = 1 \/ f = 2
      OBVIOUS
    <3>2. 1 \in 1 .. 2 /\ 2 \in 1 .. 2
      OBVIOUS
    <3>3. QED  BY <3>1, <3>2, Zenon
  <2>3. \A c \in snapshot.connections : c.listening = listening
    BY <1>3 DEF Connections
  <2>4. IsLowest(listening, ListedPorts, MAX_PORTS)
    BY ListeningIs
  <2>5. \A c \in snapshot.connections : IsLowest(c.listening, ListedPorts, MAX_PORTS)
    BY <2>3, <2>4, Zenon
  <2>6. QED  BY <2>1, <2>2, <2>5, Zenon DEF LowestAreListed, IsLowest
<1>6. QED  BY <1>4, <1>5

LEMMA TickTakes ==
    ASSUME Tick
    PROVE  TakenFrom(snapshot.processes, snapshot.connections)' /\ host' = host /\ cap' = cap
<1>1. PICK order \in ByShare(host.procs), listening \in Listening(host.tcp) :
          snapshot' = [disks |-> Usage(host.mounts), disk_io |-> IoCounters(host.stats),
                       processes |-> Processes(host.procs, order), connections |-> Connections(host.tcp, listening),
                       cores |-> host.cores, net |-> host.net, docker |-> host.containers,
                       sensors |-> host.sensors, alerts |-> host.alerts]
  BY Zenon DEF Tick
<1>2. host' = host /\ cap' = cap
  BY Zenon DEF Tick
<1>3. snapshot'.processes = Processes(host.procs, order) /\ snapshot'.connections = Connections(host.tcp, listening)
  BY <1>1
<1>4. Processes(host.procs, order)' = Processes(host.procs, order)
  BY <1>2 DEF Processes
<1>5. QED  BY <1>2, <1>3, <1>4 DEF TakenFrom, Processes

-----------------------------------------------------------------------------
(* Escapes *)

Char == STRING \cup {"\\", "quote", "newline", "n"}

InPlaceOf(d, c, by) == IF d = c THEN by ELSE <<d>>

ReplaceStep(c, by) == [p \in Seq(Char) \X Char |-> p[1] \o InPlaceOf(p[2], c, by)]

LEMMA OneMoreReplaced ==
    ASSUME NEW c, NEW by \in Seq(Char), NEW x \in Seq(Char), NEW d \in Char
    PROVE  /\ x \o InPlaceOf(d, c, by) \in Seq(Char)
           /\ ReplaceStep(c, by)[<<x, d>>] = x \o InPlaceOf(d, c, by)
<1>1. <<d>> \in Seq(Char)
  OBVIOUS
<1>2. InPlaceOf(d, c, by) \in Seq(Char)
  BY <1>1 DEF InPlaceOf
<1>3. x \o InPlaceOf(d, c, by) \in Seq(Char)
  BY <1>2, ConcatProperties
<1>4. <<x, d>> \in Seq(Char) \X Char /\ <<x, d>>[1] = x /\ <<x, d>>[2] = d
  OBVIOUS
<1>5. ReplaceStep(c, by)[<<x, d>>] = x \o InPlaceOf(d, c, by)
  BY <1>4, Zenon DEF ReplaceStep
<1>6. QED  BY <1>3, <1>5, Zenon

LEMMA ReplacedRun ==
    ASSUME NEW c, NEW by \in Seq(Char), NEW s \in Seq(Char)
    PROVE  /\ Replaced(s, c, by) \in Seq(Char)
           /\ Run(Replaced(s, c, by), s, << >>, ReplaceStep(c, by))
<1> DEFINE n == Len(s)
           g == ReplaceStep(c, by)
           e(i) == InPlaceOf(s[i], c, by)
           r == CHOOSE r : r = [i \in 0 .. n |-> IF i = 0 THEN << >> ELSE r[i - 1] \o e(i)]
<1>1. n \in Nat /\ \A i \in 1 .. n : s[i] \in Char
  BY LenProperties, ElementOfSeq
<1>2. \A x \in Seq(Char) : \A d \in Char : g[<<x, d>>] \in Seq(Char)
  <2> SUFFICES ASSUME NEW x \in Seq(Char), NEW d \in Char
               PROVE  g[<<x, d>>] \in Seq(Char)
    OBVIOUS
  <2>1. x \o InPlaceOf(d, c, by) \in Seq(Char) /\ g[<<x, d>>] = x \o InPlaceOf(d, c, by)
    BY OneMoreReplaced
  <2>2. QED  BY <2>1, Zenon
<1>3. \A x \in Seq(Char) : \A i \in 1 .. n : g[<<x, s[i]>>] = x \o e(i) /\ x \o e(i) \in Seq(Char)
  BY <1>1, OneMoreReplaced
<1>r. Replaced(s, c, by) = r[n]
  BY Zenon DEF Replaced, InPlaceOf
<1>4. << >> \in Seq(Char)
  OBVIOUS
<1> HIDE DEF g
<1>5. PICK f \in [0 .. Len(s) -> Seq(Char)] : Folds(f, s, << >>, g)
  BY <1>2, <1>4, RunExists
<1> HIDE DEF n, e
<1>6. f = [i \in 0 .. n |-> IF i = 0 THEN << >> ELSE f[i - 1] \o e(i)]
  <2>1. f = [i \in 0 .. n |-> IF i = 0 THEN << >> ELSE g[<<f[i - 1], s[i]>>]]
    BY <1>5, Zenon DEF n, Folds
  <2>2. ASSUME NEW i \in 0 .. n, i # 0
        PROVE  g[<<f[i - 1], s[i]>>] = f[i - 1] \o e(i)
    <3>1. i \in 1 .. n /\ i - 1 \in 0 .. n
      BY <1>1, <2>2
    <3>2. f[i - 1] \in Seq(Char)
      BY <3>1, Zenon DEF n
    <3>3. QED  BY <1>3, <3>1, <3>2
  <2>3. \A i \in 0 .. n : (IF i = 0 THEN << >> ELSE g[<<f[i - 1], s[i]>>])
                             = (IF i = 0 THEN << >> ELSE f[i - 1] \o e(i))
    BY <2>2, Zenon
  <2>4. QED  BY <2>1, <2>3, Zenon
<1>7. r = [i \in 0 .. n |-> IF i = 0 THEN << >> ELSE r[i - 1] \o e(i)]
  BY <1>6, Zenon
<1> HIDE DEF r
<1>8. r[0] = << >> /\ \A i \in 1 .. n : r[i] = r[i - 1] \o e(i)
  <2>1. 0 \in 0 .. n /\ \A i \in 1 .. n : i \in 0 .. n /\ i # 0
    BY <1>1
  <2>2. QED  BY <1>7, <2>1, Zenon
<1>9. \A i \in 0 .. n : r[i] \in Seq(Char)
  <2> DEFINE P == { i \in 0 .. n : r[i] \in Seq(Char) }
  <2>1. 0 \in P
    <3>1. r[0] \in Seq(Char)
      BY <1>4, <1>8
    <3>2. QED  BY <1>1, <3>1
  <2>2. ASSUME NEW i \in 1 .. n, i - 1 \in P
        PROVE  i \in P
    <3>1. r[i - 1] \in Seq(Char) /\ i \in 0 .. n
      BY <1>1, <2>2
    <3>2. r[i] \in Seq(Char)
      BY <1>3, <1>8, <3>1, Zenon
    <3>3. QED  BY <3>1, <3>2
  <2> HIDE DEF P
  <2>3. 0 .. n \subseteq P
    BY <1>1, <2>1, <2>2, RangeInduction
  <2>4. QED  BY <2>3 DEF P
<1>10. \A i \in 1 .. n : r[i] = g[<<r[i - 1], s[i]>>]
  <2>1. \A i \in 1 .. n : i - 1 \in 0 .. n
    BY <1>1
  <2>2. QED  BY <1>3, <1>8, <1>9, <2>1, Zenon
<1>11. Run(r[n], s, << >>, g)
  BY <1>8, <1>10, Zenon DEF Run, n
<1>12. n \in 0 .. n
  BY <1>1
<1>13. r[n] \in Seq(Char)
  BY <1>9, <1>12, Zenon
<1>14. QED  BY <1>11, <1>13, <1>r, Zenon DEF g

LEMMA ReplacedOfNone ==
    ASSUME NEW c, NEW by \in Seq(Char)
    PROVE  Replaced(<< >>, c, by) = << >>
<1>1. << >> \in Seq(Char)
  OBVIOUS
<1>2. QED  BY <1>1, ReplacedRun, RunOfNone, Zenon

LEMMA ReplacedOneMore ==
    ASSUME NEW c, NEW by \in Seq(Char), NEW s \in Seq(Char), NEW d \in Char
    PROVE  Replaced(s \o <<d>>, c, by) = Replaced(s, c, by) \o InPlaceOf(d, c, by)
<1> DEFINE t == s \o <<d>>
           g == ReplaceStep(c, by)
           x == Replaced(s, c, by)
           y == Replaced(t, c, by)
<1>1. t \in Seq(Char)
  BY Longer
<1> HIDE DEF t
<1>2. Run(x, s, << >>, g) /\ x \in Seq(Char) /\ Run(y, t, << >>, g)
  BY <1>1, ReplacedRun, Zenon
<1> HIDE DEF x, y
<1>3. y = g[<<x, d>>]
  BY <1>2, RunOneMore, Zenon DEF t
<1>4. g[<<x, d>>] = x \o InPlaceOf(d, c, by)
  BY <1>2, OneMoreReplaced
<1>5. QED  BY <1>3, <1>4, Zenon DEF x, y, t

(* A character that is another one is copied, and the character itself is
   replaced by two. *)
LEMMA ReplacedOther ==
    ASSUME NEW c, NEW by \in Seq(Char), NEW s \in Seq(Char), NEW d \in Char, d # c
    PROVE  Replaced(s \o <<d>>, c, by) = Replaced(s, c, by) \o <<d>>
<1>1. InPlaceOf(d, c, by) = <<d>>
  BY DEF InPlaceOf
<1>2. QED  BY <1>1, ReplacedOneMore

LEMMA ReplacedSame ==
    ASSUME NEW c \in Char, NEW a \in Char, NEW b \in Char, NEW s \in Seq(Char)
    PROVE  Replaced(s \o <<c>>, c, <<a, b>>) = (Replaced(s, c, <<a, b>>) \o <<a>>) \o <<b>>
<1> DEFINE by == <<a, b>>
           r == Replaced(s, c, by)
<1>0. by \in Seq(Char) /\ <<a>> \in Seq(Char) /\ <<b>> \in Seq(Char)
  OBVIOUS
<1>a. by = <<a>> \o <<b>>
  <2> DEFINE s1 == <<a>>
             u == s1 \o <<b>>
  <2>1. s1 \in Seq(Char) /\ Len(s1) = 1 /\ s1[1] = a /\ 1 \in 1 .. 1 /\ 1 + 1 = 2
    OBVIOUS
  <2> HIDE DEF s1
  <2>2. /\ u \in Seq(Char) /\ Len(u) = Len(s1) + 1 /\ u[Len(s1) + 1] = b
        /\ \A i \in 1 .. Len(s1) : u[i] = s1[i]
    <3>1. s1 \in Seq(Char) /\ b \in Char
      BY <2>1
    <3>2. \A z \in Seq(Char) : \A d \in Char :
             /\ z \o <<d>> \in Seq(Char) /\ Len(z \o <<d>>) = Len(z) + 1
             /\ (z \o <<d>>)[Len(z) + 1] = d
             /\ \A i \in 1 .. Len(z) : (z \o <<d>>)[i] = z[i]
      BY Longer
    <3>3. QED  BY <3>1, <3>2, Zenon
  <2> HIDE DEF u
  <2>3. u \in Seq(Char) /\ Len(u) = 2 /\ u[1] = a /\ u[2] = b
    BY <2>1, <2>2, Zenon
  <2>4. by \in Seq(Char) /\ Len(by) = 2 /\ by[1] = a /\ by[2] = b
    BY <1>0
  <2> HIDE DEF by
  <2>5. \A i \in 1 .. 2 : i = 1 \/ i = 2
    OBVIOUS
  <2>6. \A i \in 1 .. Len(u) : u[i] = by[i]
    BY <2>3, <2>4, <2>5, Zenon
  <2>7. u = by
    BY <2>3, <2>4, <2>6, SeqEqual
  <2>8. QED  BY <2>7 DEF u, s1
<1>1. by \in Seq(Char) /\ <<a>> \in Seq(Char) /\ <<b>> \in Seq(Char) /\ by = <<a>> \o <<b>>
  BY <1>0, <1>a
<1>2. InPlaceOf(c, c, by) = by
  BY DEF InPlaceOf
<1> HIDE DEF by
<1>3. r \in Seq(Char)
  BY <1>1, ReplacedRun
<1>4. Replaced(s \o <<c>>, c, by) = r \o by
  <2>1. Replaced(s \o <<c>>, c, by) = Replaced(s, c, by) \o InPlaceOf(c, c, by)
    BY <1>1, ReplacedOneMore
  <2>2. QED  BY <1>2, <2>1, Zenon DEF r
<1> HIDE DEF r
<1>5. r \o (<<a>> \o <<b>>) = (r \o <<a>>) \o <<b>>
  BY <1>1, <1>3, ConcatAssociative
<1>6. Replaced(s \o <<c>>, c, by) = (r \o <<a>>) \o <<b>>
  BY <1>1, <1>4, <1>5, Zenon
<1>7. QED  BY <1>6 DEF r, by

Backslash == "\\"

LEMMA CharsDiffer ==
    /\ Backslash \in Char /\ "quote" \in Char /\ "newline" \in Char /\ "n" \in Char
    /\ Backslash # "quote" /\ Backslash # "newline" /\ Backslash # "n"
    /\ "quote" # "newline" /\ "quote" # "n" /\ "newline" # "n"
BY DEF Char, Backslash

First(s) == Replaced(s, Backslash, <<Backslash, Backslash>>)
Second(s) == Replaced(s, "quote", <<Backslash, "quote">>)
Third(s) == Replaced(s, "newline", <<Backslash, "n">>)

LEMMA EscIs ==
    ASSUME NEW s \in Seq(Char)
    PROVE  /\ Esc(s) = Third(Second(First(s)))
           /\ First(s) \in Seq(Char) /\ Second(s) \in Seq(Char) /\ Third(s) \in Seq(Char)
<1>1. Esc(s) = Third(Second(First(s)))
  BY DEF Esc, First, Second, Third, Backslash
<1>2. \A a, b \in Char : <<a, b>> \in Seq(Char)
  OBVIOUS
<1>3. /\ <<Backslash, Backslash>> \in Seq(Char) /\ <<Backslash, "quote">> \in Seq(Char)
      /\ <<Backslash, "n">> \in Seq(Char)
  BY <1>2, CharsDiffer
<1>4. QED  BY <1>1, <1>3, ReplacedRun DEF First, Second, Third

LEMMA PassesOther ==
    ASSUME NEW s \in Seq(Char), NEW d \in Char
    PROVE  /\ d # Backslash => First(s \o <<d>>) = First(s) \o <<d>>
           /\ d # "quote" => Second(s \o <<d>>) = Second(s) \o <<d>>
           /\ d # "newline" => Third(s \o <<d>>) = Third(s) \o <<d>>
<1>2. \A a, b \in Char : <<a, b>> \in Seq(Char)
  OBVIOUS
<1>3. /\ <<Backslash, Backslash>> \in Seq(Char) /\ <<Backslash, "quote">> \in Seq(Char)
      /\ <<Backslash, "n">> \in Seq(Char)
  BY <1>2, CharsDiffer
<1>4. ASSUME d # Backslash
      PROVE  First(s \o <<d>>) = First(s) \o <<d>>
  <2> DEFINE by == <<Backslash, Backslash>>
  <2>1. by \in Seq(Char)
    BY <1>3
  <2> HIDE DEF by
  <2>2. Replaced(s \o <<d>>, Backslash, by) = Replaced(s, Backslash, by) \o <<d>>
    BY <1>4, <2>1, ReplacedOther
  <2>3. QED  BY <2>2 DEF First, by
<1>5. ASSUME d # "quote"
      PROVE  Second(s \o <<d>>) = Second(s) \o <<d>>
  <2> DEFINE by == <<Backslash, "quote">>
  <2>1. by \in Seq(Char)
    BY <1>3
  <2> HIDE DEF by
  <2>2. Replaced(s \o <<d>>, "quote", by) = Replaced(s, "quote", by) \o <<d>>
    BY <1>5, <2>1, ReplacedOther
  <2>3. QED  BY <2>2 DEF Second, by
<1>6. ASSUME d # "newline"
      PROVE  Third(s \o <<d>>) = Third(s) \o <<d>>
  <2> DEFINE by == <<Backslash, "n">>
  <2>1. by \in Seq(Char)
    BY <1>3
  <2> HIDE DEF by
  <2>2. Replaced(s \o <<d>>, "newline", by) = Replaced(s, "newline", by) \o <<d>>
    BY <1>6, <2>1, ReplacedOther
  <2>3. QED  BY <2>2 DEF Third, by
<1>7. QED  BY <1>4, <1>5, <1>6

LEMMA PassesSame ==
    ASSUME NEW s \in Seq(Char)
    PROVE  /\ First(s \o <<Backslash>>) = (First(s) \o <<Backslash>>) \o <<Backslash>>
           /\ Second(s \o <<"quote">>) = (Second(s) \o <<Backslash>>) \o <<"quote">>
           /\ Third(s \o <<"newline">>) = (Third(s) \o <<Backslash>>) \o <<"n">>
<1>1. First(s \o <<Backslash>>) = (First(s) \o <<Backslash>>) \o <<Backslash>>
  BY CharsDiffer, ReplacedSame DEF First
<1>2. Second(s \o <<"quote">>) = (Second(s) \o <<Backslash>>) \o <<"quote">>
  BY CharsDiffer, ReplacedSame DEF Second
<1>3. Third(s \o <<"newline">>) = (Third(s) \o <<Backslash>>) \o <<"n">>
  BY CharsDiffer, ReplacedSame DEF Third
<1>4. QED  BY <1>1, <1>2, <1>3

LEMMA EscOneMore ==
    ASSUME NEW s \in Seq(Char), NEW d \in Char
    PROVE  /\ Esc(s) \in Seq(Char)
           /\ d = Backslash => Esc(s \o <<d>>) = (Esc(s) \o <<Backslash>>) \o <<Backslash>>
           /\ d = "quote" => Esc(s \o <<d>>) = (Esc(s) \o <<Backslash>>) \o <<"quote">>
           /\ d = "newline" => Esc(s \o <<d>>) = (Esc(s) \o <<Backslash>>) \o <<"n">>
           /\ d \notin {Backslash, "quote", "newline"} => Esc(s \o <<d>>) = Esc(s) \o <<d>>
<1> DEFINE a == First(s)
           b == Second(a)
           c == Third(b)
           t == s \o <<d>>
<1>1. t \in Seq(Char)
  BY Longer
<1>2. a \in Seq(Char) /\ b \in Seq(Char) /\ c \in Seq(Char) /\ Esc(s) = c /\ Esc(t) = Third(Second(First(t)))
  BY <1>1, EscIs
<1> HIDE DEF a, b, c
<1>3. a = First(s) /\ b = Second(a) /\ c = Third(b)
  BY DEF a, b, c
<1>4. ASSUME d = Backslash
      PROVE  Esc(t) = (c \o <<Backslash>>) \o <<Backslash>>
  <2>1. First(t) = (a \o <<d>>) \o <<d>>
    BY <1>3, <1>4, PassesSame
  <2>2. d # "quote" /\ d # "newline"
    BY <1>4, CharsDiffer
  <2>3. a \o <<d>> \in Seq(Char) /\ b \o <<d>> \in Seq(Char)
    BY <1>2, Longer
  <2>4. Second((a \o <<d>>) \o <<d>>) = Second(a \o <<d>>) \o <<d>> /\ Second(a \o <<d>>) = b \o <<d>>
    BY <1>2, <1>3, <2>2, <2>3, PassesOther
  <2>5. Third((b \o <<d>>) \o <<d>>) = Third(b \o <<d>>) \o <<d>> /\ Third(b \o <<d>>) = c \o <<d>>
    BY <1>2, <1>3, <2>2, <2>3, PassesOther
  <2> HIDE DEF t
  <2>6. QED  BY <1>2, <1>4, <2>1, <2>4, <2>5, Zenon
<1>5. ASSUME d = "quote"
      PROVE  Esc(t) = (c \o <<Backslash>>) \o <<d>>
  <2>1. First(t) = a \o <<d>>
    BY <1>3, <1>5, PassesOther, CharsDiffer
  <2>2. Second(a \o <<d>>) = (b \o <<Backslash>>) \o <<d>>
    BY <1>2, <1>3, <1>5, PassesSame
  <2>3. b \o <<Backslash>> \in Seq(Char) /\ Backslash # "newline" /\ d # "newline" /\ Backslash \in Char
    BY <1>2, <1>5, Longer, CharsDiffer
  <2>4. Third((b \o <<Backslash>>) \o <<d>>) = Third(b \o <<Backslash>>) \o <<d>>
    BY <2>3, PassesOther
  <2>5. Third(b \o <<Backslash>>) = c \o <<Backslash>>
    <3>1. Third(b \o <<Backslash>>) = Third(b) \o <<Backslash>>
      BY <1>2, <2>3, PassesOther
    <3>2. QED  BY <1>3, <3>1, Zenon
  <2> HIDE DEF t
  <2>6. QED  BY <1>2, <2>1, <2>2, <2>4, <2>5, Zenon
<1>6. ASSUME d = "newline"
      PROVE  Esc(t) = (c \o <<Backslash>>) \o <<"n">>
  <2>1. First(t) = a \o <<d>>
    BY <1>3, <1>6, PassesOther, CharsDiffer
  <2>2. Second(a \o <<d>>) = b \o <<d>>
    BY <1>2, <1>3, <1>6, PassesOther, CharsDiffer
  <2>3. Third(b \o <<d>>) = (c \o <<Backslash>>) \o <<"n">>
    BY <1>2, <1>3, <1>6, PassesSame
  <2> HIDE DEF t
  <2>4. QED  BY <1>2, <2>1, <2>2, <2>3, Zenon
<1>7. ASSUME d \notin {Backslash, "quote", "newline"}
      PROVE  Esc(t) = c \o <<d>>
  <2>0. d # Backslash /\ d # "quote" /\ d # "newline"
    BY <1>7
  <2>1. First(t) = a \o <<d>>
    BY <1>3, <2>0, PassesOther
  <2>2. Second(a \o <<d>>) = b \o <<d>>
    BY <1>2, <1>3, <2>0, PassesOther
  <2>3. Third(b \o <<d>>) = c \o <<d>>
    BY <1>2, <1>3, <2>0, PassesOther
  <2> HIDE DEF t
  <2>4. QED  BY <1>2, <2>1, <2>2, <2>3, Zenon
<1>8. QED  BY <1>2, <1>4, <1>5, <1>6, <1>7, Zenon

-----------------------------------------------------------------------------
(* The reader *)

Reader == [at: STRING \cup {"text", "escaped", "end", "bad"}, out: Seq(Char)]

At(at, out) == [at |-> at, out |-> out]

LEMMA ReaderReads ==
    ASSUME NEW r \in Reader, NEW c \in Char
    PROVE  ReadChar(r, c) \in Reader
<1>1. r.out \in Seq(Char) /\ r.out \o <<c>> \in Seq(Char) /\ r.out \o <<"newline">> \in Seq(Char)
  <2>1. r.out \in Seq(Char)
    BY DEF Reader
  <2>2. QED  BY <2>1, Longer, CharsDiffer
<1>2. \A o \in Seq(Char) : /\ [at |-> "text", out |-> o] \in Reader /\ [at |-> "escaped", out |-> o] \in Reader
                           /\ [at |-> "end", out |-> o] \in Reader /\ [at |-> "bad", out |-> o] \in Reader
  BY DEF Reader
<1>3. \/ ReadChar(r, c) = [at |-> "text", out |-> r.out \o <<c>>]
      \/ ReadChar(r, c) = [at |-> "text", out |-> r.out \o <<"newline">>]
      \/ ReadChar(r, c) = [at |-> "escaped", out |-> r.out]
      \/ ReadChar(r, c) = [at |-> "end", out |-> r.out]
      \/ ReadChar(r, c) = [at |-> "bad", out |-> r.out]
  BY DEF ReadChar
<1>4. QED  BY <1>1, <1>2, <1>3, Zenon

LEMMA TextIsRead ==
    ASSUME NEW o \in Seq(Char), NEW c \in Char
    PROVE  /\ c = Backslash => ReadChar(At("text", o), c) = At("escaped", o)
           /\ c = "quote" => ReadChar(At("text", o), c) = At("end", o)
           /\ c \notin {Backslash, "quote", "newline"} => ReadChar(At("text", o), c) = At("text", o \o <<c>>)
           /\ c \in {Backslash, "quote"} => ReadChar(At("escaped", o), c) = At("text", o \o <<c>>)
           /\ c = "n" => ReadChar(At("escaped", o), c) = At("text", o \o <<"newline">>)
<1>1. At("text", o).at = "text" /\ At("text", o).out = o /\ At("escaped", o).at = "escaped" /\ At("escaped", o).out = o
  BY DEF At
<1>2. "text" # "escaped"
  OBVIOUS
<1>3. ReadChar(At("text", o), c) = IF c = "\\" THEN [at |-> "escaped", out |-> o]
                             ELSE IF c = "quote" THEN [at |-> "end", out |-> o]
                             ELSE IF c = "newline" THEN [at |-> "bad", out |-> o]
                             ELSE [at |-> "text", out |-> o \o <<c>>]
  BY <1>1, <1>2 DEF ReadChar
<1>4. ReadChar(At("escaped", o), c) = IF c \in {"\\", "quote"} THEN [at |-> "text", out |-> o \o <<c>>]
                             ELSE IF c = "n" THEN [at |-> "text", out |-> o \o <<"newline">>]
                             ELSE [at |-> "bad", out |-> o]
  BY <1>1, <1>2 DEF ReadChar
<1>5. QED  BY <1>3, <1>4, CharsDiffer DEF At, Backslash

ReadStep == [p \in Reader \X Char |-> ReadChar(p[1], p[2])]

LEMMA ReadsRun ==
    ASSUME NEW s \in Seq(Char)
    PROVE  Reads(s) \in Reader /\ Run(Reads(s), s, At("text", << >>), ReadStep)
<1> DEFINE n == Len(s)
           g == ReadStep
           b == At("text", << >>)
           r == CHOOSE r : r = [i \in 0 .. n |-> IF i = 0 THEN b ELSE ReadChar(r[i - 1], s[i])]
<1>1. n \in Nat /\ \A i \in 1 .. n : s[i] \in Char
  BY LenProperties, ElementOfSeq
<1>a. \A x \in Reader : \A d \in Char : g[<<x, d>>] = ReadChar(x, d) /\ ReadChar(x, d) \in Reader
  <2>1. \A x \in Reader : \A d \in Char : <<x, d>> \in Reader \X Char /\ <<x, d>>[1] = x /\ <<x, d>>[2] = d
    OBVIOUS
  <2>2. QED  BY <2>1, ReaderReads, Zenon DEF ReadStep
<1>2. \A x \in Reader : \A d \in Char : g[<<x, d>>] \in Reader
  BY <1>a, Zenon
<1>3. \A x \in Reader : \A i \in 1 .. n : g[<<x, s[i]>>] = ReadChar(x, s[i]) /\ ReadChar(x, s[i]) \in Reader
  BY <1>1, <1>a, Zenon
<1>r. Reads(s) = r[n]
  BY Zenon DEF Reads, At
<1>4. b \in Reader
  BY DEF Reader, At
<1> HIDE DEF g, b
<1>5. PICK f \in [0 .. Len(s) -> Reader] : Folds(f, s, b, g)
  BY <1>2, <1>4, RunExists
<1> HIDE DEF n
<1>6. f = [i \in 0 .. n |-> IF i = 0 THEN b ELSE ReadChar(f[i - 1], s[i])]
  <2>1. f = [i \in 0 .. n |-> IF i = 0 THEN b ELSE g[<<f[i - 1], s[i]>>]]
    BY <1>5, Zenon DEF n, Folds
  <2>2. ASSUME NEW i \in 0 .. n, i # 0
        PROVE  g[<<f[i - 1], s[i]>>] = ReadChar(f[i - 1], s[i])
    <3>1. i \in 1 .. n /\ i - 1 \in 0 .. n
      BY <1>1, <2>2
    <3>2. f[i - 1] \in Reader
      BY <3>1, Zenon DEF n
    <3>3. QED  BY <1>3, <3>1, <3>2
  <2>3. \A i \in 0 .. n : (IF i = 0 THEN b ELSE g[<<f[i - 1], s[i]>>])
                             = (IF i = 0 THEN b ELSE ReadChar(f[i - 1], s[i]))
    BY <2>2, Zenon
  <2>4. QED  BY <2>1, <2>3, Zenon
<1>7. r = [i \in 0 .. n |-> IF i = 0 THEN b ELSE ReadChar(r[i - 1], s[i])]
  BY <1>6, Zenon
<1> HIDE DEF r
<1>8. r[0] = b /\ \A i \in 1 .. n : r[i] = ReadChar(r[i - 1], s[i])
  <2>1. 0 \in 0 .. n /\ \A i \in 1 .. n : i \in 0 .. n /\ i # 0
    BY <1>1
  <2>2. QED  BY <1>7, <2>1, Zenon
<1>9. \A i \in 0 .. n : r[i] \in Reader
  <2> DEFINE P == { i \in 0 .. n : r[i] \in Reader }
  <2>1. 0 \in P
    <3>1. r[0] \in Reader
      BY <1>4, <1>8
    <3>2. QED  BY <1>1, <3>1
  <2>2. ASSUME NEW i \in 1 .. n, i - 1 \in P
        PROVE  i \in P
    <3>1. r[i - 1] \in Reader /\ i \in 0 .. n
      BY <1>1, <2>2
    <3>2. r[i] \in Reader
      BY <1>3, <1>8, <3>1, Zenon
    <3>3. QED  BY <3>1, <3>2
  <2> HIDE DEF P
  <2>3. 0 .. n \subseteq P
    BY <1>1, <2>1, <2>2, RangeInduction
  <2>4. QED  BY <2>3 DEF P
<1>10. \A i \in 1 .. n : r[i] = g[<<r[i - 1], s[i]>>]
  <2>1. \A i \in 1 .. n : i - 1 \in 0 .. n
    BY <1>1
  <2>2. QED  BY <1>3, <1>8, <1>9, <2>1, Zenon
<1>11. Run(r[n], s, b, g)
  BY <1>8, <1>10, Zenon DEF Run, n
<1>12. n \in 0 .. n
  BY <1>1
<1>13. r[n] \in Reader
  BY <1>9, <1>12, Zenon
<1>14. QED  BY <1>11, <1>13, <1>r, Zenon DEF g, b

LEMMA ReadsOneMore ==
    ASSUME NEW s \in Seq(Char), NEW c \in Char
    PROVE  Reads(s \o <<c>>) = ReadChar(Reads(s), c)
<1> DEFINE t == s \o <<c>>
           x == Reads(s)
           y == Reads(t)
           b == At("text", << >>)
<1>1. t \in Seq(Char)
  BY Longer
<1> HIDE DEF t
<1>2. Run(x, s, b, ReadStep) /\ x \in Reader /\ Run(y, t, b, ReadStep)
  BY <1>1, ReadsRun
<1> HIDE DEF x, y, b
<1>3. y = ReadStep[<<x, c>>]
  BY <1>2, RunOneMore, Zenon DEF t
<1>4. <<x, c>> \in Reader \X Char /\ <<x, c>>[1] = x /\ <<x, c>>[2] = c
  BY <1>2
<1>5. ReadStep[<<x, c>>] = ReadChar(x, c)
  BY <1>4, Zenon DEF ReadStep
<1>6. QED  BY <1>3, <1>5, Zenon DEF x, y, t

(* What was escaped is read as it was. *)
LEMMA EscIsRead ==
    ASSUME NEW name \in Seq(Char)
    PROVE  Reads(Esc(name)) = At("text", name) /\ Esc(name) \in Seq(Char)
<1> DEFINE P == { s \in Seq(Char) : Reads(Esc(s)) = At("text", s) }
<1>1. << >> \in P
  <2>1. << >> \in Seq(Char)
    OBVIOUS
  <2>2. Reads(<< >>) = At("text", << >>)
    BY <2>1, ReadsRun, RunOfNone
  <2>3. <<Backslash, Backslash>> \in Seq(Char) /\ <<Backslash, "quote">> \in Seq(Char) /\ <<Backslash, "n">> \in Seq(Char)
    BY CharsDiffer
  <2>4. First(<< >>) = << >> /\ Second(<< >>) = << >> /\ Third(<< >>) = << >>
    BY <2>3, ReplacedOfNone DEF First, Second, Third
  <2>5. Esc(<< >>) = << >>
    BY <2>1, <2>4, EscIs
  <2>6. QED  BY <2>1, <2>2, <2>5, Zenon
<1>2. ASSUME NEW s \in Seq(Char), NEW c \in Char, s \in P
      PROVE  s \o <<c>> \in P
  <2> DEFINE e == Esc(s)
             t == s \o <<c>>
  <2>1. e \in Seq(Char) /\ Reads(e) = At("text", s) /\ t \in Seq(Char)
    BY <1>2, EscOneMore, Longer
  <2>2. /\ c = Backslash => Esc(t) = (e \o <<Backslash>>) \o <<Backslash>>
        /\ c = "quote" => Esc(t) = (e \o <<Backslash>>) \o <<"quote">>
        /\ c = "newline" => Esc(t) = (e \o <<Backslash>>) \o <<"n">>
        /\ c \notin {Backslash, "quote", "newline"} => Esc(t) = e \o <<c>>
    BY EscOneMore
  <2> SUFFICES Reads(Esc(t)) = At("text", t)
    BY <2>1
  <2> HIDE DEF e, t
  <2>3. e \o <<Backslash>> \in Seq(Char) /\ Reads(e \o <<Backslash>>) = At("escaped", s)
    <3>1. e \o <<Backslash>> \in Seq(Char)
      BY <2>1, CharsDiffer, Longer
    <3>2. Reads(e \o <<Backslash>>) = ReadChar(Reads(e), Backslash)
      BY <2>1, CharsDiffer, ReadsOneMore
    <3>3. ReadChar(At("text", s), Backslash) = At("escaped", s)
      BY CharsDiffer, TextIsRead
    <3>4. QED  BY <2>1, <3>1, <3>2, <3>3, Zenon
  <2>4. \A d \in Char : Reads((e \o <<Backslash>>) \o <<d>>) = ReadChar(At("escaped", s), d)
    <3> DEFINE u == e \o <<Backslash>>
    <3>1. u \in Seq(Char) /\ Reads(u) = At("escaped", s)
      BY <2>3
    <3> HIDE DEF u
    <3>2. \A d \in Char : Reads(u \o <<d>>) = ReadChar(At("escaped", s), d)
      BY <3>1, ReadsOneMore
    <3>3. QED  BY <3>2 DEF u
  <2>5. CASE c = Backslash
    <3>1. ReadChar(At("escaped", s), c) = At("text", t)
      BY <2>5, TextIsRead, Zenon DEF t
    <3>2. QED  BY <2>1, <2>2, <2>4, <2>5, <3>1, Zenon
  <2>6. CASE c = "quote"
    <3>1. ReadChar(At("escaped", s), c) = At("text", t)
      BY <2>6, TextIsRead, Zenon DEF t
    <3>2. QED  BY <2>1, <2>2, <2>4, <2>6, <3>1, Zenon
  <2>7. CASE c = "newline"
    <3>1. ReadChar(At("escaped", s), "n") = At("text", t)
      BY <2>7, CharsDiffer, TextIsRead, Zenon DEF t
    <3>2. QED  BY <2>1, <2>2, <2>4, <2>7, <3>1, CharsDiffer, Zenon
  <2>8. CASE c \notin {Backslash, "quote", "newline"}
    <3>1. ReadChar(At("text", s), c) = At("text", t)
      BY <2>8, TextIsRead, Zenon DEF t
    <3>2. Reads(e \o <<c>>) = ReadChar(At("text", s), c)
      BY <2>1, ReadsOneMore
    <3>3. QED  BY <2>1, <2>2, <2>8, <3>1, <3>2, Zenon
  <2>9. QED  BY <2>5, <2>6, <2>7, <2>8
<1> HIDE DEF P
<1>3. name \in P
  <2>1. Seq(Char) \subseteq P
    BY <1>1, <1>2, SeqInduction
  <2>2. QED  BY <2>1
<1>4. QED  BY <1>3, EscOneMore, CharsDiffer DEF P

-----------------------------------------------------------------------------
(* The text *)

LineOf(f, k) == IF k = 0 THEN TypeLine(f.family) ELSE Sample(f.family, Esc(f.labels[k]), f.values[k])

AllLines(fs) == { LineOf(fs[b], k) : b \in DOMAIN fs, k \in Nat }

LEMMA LinesAre ==
    ASSUME NEW f, NEW S, f.labels \in Seq(S), f.shown \in BOOLEAN, NEW T, \A k \in Nat : LineOf(f, k) \in T
    PROVE  /\ Lines(f) \in Seq(T)
           /\ ~f.shown => Len(Lines(f)) = 0
           /\ f.shown => /\ Len(Lines(f)) = Len(f.labels) + 1
                         /\ \A k \in 1 .. Len(f.labels) + 1 : Lines(f)[k] = LineOf(f, k - 1)
<1> DEFINE n == Len(f.labels)
           t == <<TypeLine(f.family)>>
           s == [i \in DOMAIN f.labels |-> Sample(f.family, Esc(f.labels[i]), f.values[i])]
<1>1. n \in Nat /\ DOMAIN f.labels = 1 .. n
  BY LenProperties
<1>2. CASE ~f.shown
  <2>1. Lines(f) = << >>
    BY <1>2 DEF Lines
  <2>2. QED  BY <1>2, <2>1
<1>3. CASE f.shown
  <2>1. Lines(f) = t \o s
    BY <1>3, Zenon DEF Lines
  <2>2. LineOf(f, 0) = TypeLine(f.family) /\ 0 \in Nat
    BY DEF LineOf
  <2>3. t \in Seq(T) /\ Len(t) = 1 /\ t[1] = LineOf(f, 0) /\ 1 \in 1 .. 1
    <3> DEFINE x == TypeLine(f.family)
    <3>1. x \in T /\ x = LineOf(f, 0)
      BY <2>2
    <3>2. \A y \in T : <<y>> \in Seq(T) /\ Len(<<y>>) = 1 /\ <<y>>[1] = y
      OBVIOUS
    <3>3. 1 \in 1 .. 1
      OBVIOUS
    <3>4. QED  BY <3>1, <3>2, <3>3, Zenon
  <2>4. s = [i \in 1 .. n |-> Sample(f.family, Esc(f.labels[i]), f.values[i])]
    BY <1>1, Zenon
  <2>5. \A k \in 1 .. n : k # 0 /\ k \in Nat
    BY <1>1
  <2>6. \A k \in 1 .. n : s[k] = LineOf(f, k)
    BY <2>4, <2>5, Zenon DEF LineOf
  <2> HIDE DEF t
  <2>7. s \in Seq(T) /\ Len(s) = n
    <3>1. \A k \in 1 .. n : s[k] \in T
      BY <2>5, <2>6
    <3>2. s = [i \in 1 .. n |-> s[i]]
      BY <2>4, Zenon
    <3> HIDE DEF s
    <3>3. QED  BY <1>1, <3>1, <3>2
  <2> HIDE DEF s, n
  <2>8. /\ t \o s \in Seq(T) /\ Len(t \o s) = Len(t) + Len(s)
        /\ \A i \in 1 .. Len(t) : (t \o s)[i] = t[i]
        /\ \A i \in 1 .. Len(s) : (t \o s)[Len(t) + i] = s[i]
    <3>1. t \in Seq(T) /\ s \in Seq(T)
      BY <2>3, <2>7
    <3>2. \A u, v \in Seq(T) :
             /\ u \o v \in Seq(T) /\ Len(u \o v) = Len(u) + Len(v)
             /\ \A i \in 1 .. Len(u) : (u \o v)[i] = u[i]
             /\ \A i \in 1 .. Len(v) : (u \o v)[Len(u) + i] = v[i]
      BY Joined
    <3>3. QED  BY <3>1, <3>2, Zenon
  <2>9. Lines(f) \in Seq(T) /\ Len(Lines(f)) = 1 + n /\ Lines(f)[1] = LineOf(f, 0)
        /\ \A i \in 1 .. n : Lines(f)[1 + i] = LineOf(f, i)
    BY <2>1, <2>3, <2>6, <2>7, <2>8, Zenon
  <2>10. ASSUME NEW k \in 1 .. n + 1
         PROVE  Lines(f)[k] = LineOf(f, k - 1)
    <3>1. CASE k = 1
      <4>1. k - 1 = 0
        BY <3>1
      <4>2. QED  BY <2>9, <3>1, <4>1, Zenon
    <3>2. CASE k # 1
      <4> DEFINE j == k - 1
      <4>1. j \in 1 .. n /\ k = 1 + j
        BY <1>1, <3>2
      <4> HIDE DEF j
      <4>2. Lines(f)[k] = LineOf(f, j)
        BY <2>9, <4>1, Zenon
      <4>3. QED  BY <4>2 DEF j
    <3>3. QED  BY <3>1, <3>2
  <2>11. 1 + n = n + 1
    BY <1>1
  <2>12. QED  BY <1>3, <2>9, <2>10, <2>11, Zenon DEF n
<1>4. QED  BY <1>2, <1>3

(* fs is a text's families, and line off[b] + 1 + k is line k of family b. *)
IsText(t, fs, off) ==
    /\ \A i \in DOMAIN t : \E b \in DOMAIN fs : \E k \in 0 .. Len(fs[b].labels) :
          fs[b].shown /\ off[b] \in Nat /\ i = off[b] + 1 + k /\ t[i] = LineOf(fs[b], k)
    /\ \A b \in DOMAIN fs : \A k \in 0 .. Len(fs[b].labels) :
          fs[b].shown => off[b] + 1 + k \in DOMAIN t /\ t[off[b] + 1 + k] = LineOf(fs[b], k)

LEMMA RenderIs ==
    ASSUME NEW s, NEW n \in Nat, NEW F, Families(s) \in Seq(F), Len(Families(s)) = n, NEW S,
           \A b \in 1 .. n : Families(s)[b].labels \in Seq(S) /\ Families(s)[b].shown \in BOOLEAN
    PROVE  \E off : IsText(Render(s), Families(s), off)
<1> DEFINE fs == Families(s)
           T == AllLines(fs)
           o == CHOOSE o : o = [b \in 0 .. Len(fs) |-> IF b = 0 THEN << >> ELSE o[b - 1] \o Lines(fs[b])]
           R == { fs[b] : b \in 1 .. n }
           g == [p \in Seq(T) \X R |-> p[1] \o Lines(p[2])]
<1>1. Render(s) = o[Len(fs)]
  BY Zenon DEF Render
<1>2. DOMAIN fs = 1 .. n /\ fs \in Seq(R) /\ Len(fs) = n
  <2>1. fs \in Seq(F) /\ Len(fs) = n
    OBVIOUS
  <2> HIDE DEF fs
  <2>2. fs \in [1 .. n -> F]
    BY <2>1
  <2>3. fs \in [1 .. n -> R]
    BY <2>2
  <2> HIDE DEF R
  <2>4. QED  BY <2>1, <2>3
<1>3. \A b \in 1 .. n : fs[b].labels \in Seq(S) /\ fs[b].shown \in BOOLEAN
  OBVIOUS
<1>4. \A b \in 1 .. n : \A k \in Nat : LineOf(fs[b], k) \in T
  BY <1>2 DEF AllLines
<1> HIDE DEF fs, T, o
<1>5. \A b \in 1 .. n : Lines(fs[b]) \in Seq(T)
  BY <1>3, <1>4, LinesAre
<1>a. \A x \in Seq(T) : \A f \in R : g[<<x, f>>] = x \o Lines(f) /\ x \o Lines(f) \in Seq(T)
  <2> SUFFICES ASSUME NEW x \in Seq(T), NEW f \in R
               PROVE  g[<<x, f>>] = x \o Lines(f) /\ x \o Lines(f) \in Seq(T)
    OBVIOUS
  <2>1. Lines(f) \in Seq(T)
    BY <1>5
  <2> HIDE DEF R
  <2>2. <<x, f>> \in Seq(T) \X R /\ <<x, f>>[1] = x /\ <<x, f>>[2] = f
    OBVIOUS
  <2>3. g[<<x, f>>] = x \o Lines(f)
    BY <2>2, Zenon
  <2>4. x \o Lines(f) \in Seq(T)
    BY <2>1, ConcatProperties
  <2>5. QED  BY <2>3, <2>4
<1>b. \A b \in 1 .. n : fs[b] \in R
  OBVIOUS
<1> HIDE DEF g, R
<1>6. PICK f \in [0 .. Len(fs) -> Seq(T)] : Folds(f, fs, << >>, g)
  <2>1. \A x \in Seq(T) : \A d \in R : g[<<x, d>>] \in Seq(T)
    <3> SUFFICES ASSUME NEW x \in Seq(T), NEW d \in R
                 PROVE  g[<<x, d>>] \in Seq(T)
      OBVIOUS
    <3>1. g[<<x, d>>] = x \o Lines(d) /\ x \o Lines(d) \in Seq(T)
      BY <1>a
    <3>2. QED  BY <3>1, Zenon
  <2>2. << >> \in Seq(T)
    OBVIOUS
  <2>3. QED  BY <1>2, <2>1, <2>2, RunExists
<1>7. f = [b \in 0 .. n |-> IF b = 0 THEN << >> ELSE f[b - 1] \o Lines(fs[b])]
  <2>1. f = [i \in 0 .. n |-> IF i = 0 THEN << >> ELSE g[<<f[i - 1], fs[i]>>]]
    BY <1>2, <1>6, Zenon DEF Folds
  <2>2. ASSUME NEW i \in 0 .. n, i # 0
        PROVE  g[<<f[i - 1], fs[i]>>] = f[i - 1] \o Lines(fs[i])
    <3>1. i \in 1 .. n /\ i - 1 \in 0 .. n
      BY <2>2
    <3>2. f[i - 1] \in Seq(T)
      BY <1>2, <3>1, Zenon
    <3>3. QED  BY <1>a, <1>b, <3>1, <3>2
  <2>3. \A i \in 0 .. n : (IF i = 0 THEN << >> ELSE g[<<f[i - 1], fs[i]>>])
                             = (IF i = 0 THEN << >> ELSE f[i - 1] \o Lines(fs[i]))
    BY <2>2, Zenon
  <2>4. QED  BY <2>1, <2>3, Zenon
<1>8. o = [b \in 0 .. n |-> IF b = 0 THEN << >> ELSE o[b - 1] \o Lines(fs[b])]
  BY <1>2, <1>7, Zenon DEF o
<1> DEFINE L == [b \in 1 .. n |-> Lines(fs[b])]
           off == [b \in 1 .. n |-> Len(o[b - 1])]
<1>9. o[0] = << >> /\ \A b \in 1 .. n : L[b] = Lines(fs[b]) /\ o[b] = o[b - 1] \o L[b]
  <2>1. 0 \in 0 .. n /\ \A i \in 1 .. n : i \in 0 .. n /\ i # 0
    OBVIOUS
  <2>2. QED  BY <1>8, <2>1, Zenon
<1>c. \A b \in 1 .. n : off[b] = Len(o[b - 1])
  OBVIOUS
<1>l. \A b \in 1 .. n : L[b] \in Seq(T)
  BY <1>5, <1>9
<1> HIDE DEF L, off
<1>10. /\ \A b \in 0 .. n : o[b] \in Seq(T)
       /\ \A i \in 1 .. Len(o[n]) :
                 \E b \in 1 .. n : \E k \in 1 .. Len(L[b]) : i = Len(o[b - 1]) + k /\ o[n][i] = L[b][k]
       /\ \A b \in 1 .. n : \A k \in 1 .. Len(L[b]) :
                 Len(o[b - 1]) + k \in 1 .. Len(o[n]) /\ o[n][Len(o[b - 1]) + k] = L[b][k]
  <2>1. JoinedOf(o, L, n)
    BY <1>9, Zenon DEF JoinedOf
  <2>2. HasBlocks(o, L, n, T)
    BY <1>l, <2>1, Blocks
  <2>3. QED  BY <2>2, Zenon DEF HasBlocks
<1>11. DOMAIN o[n] = 1 .. Len(o[n]) /\ Len(o[n]) \in Nat
  <2>1. n \in 0 .. n
    OBVIOUS
  <2>2. o[n] \in Seq(T)
    BY <1>10, <2>1
  <2>3. QED  BY <2>2, LenProperties
<1>12. \A b \in 1 .. n : off[b] \in Nat
  <2>1. \A b \in 1 .. n : b - 1 \in 0 .. n
    OBVIOUS
  <2>2. \A b \in 1 .. n : Len(o[b - 1]) \in Nat
    BY <1>10, <2>1, LenProperties
  <2>3. QED  BY <1>c, <2>2
<1>13. ASSUME NEW b \in 1 .. n
       PROVE  /\ ~fs[b].shown => Len(L[b]) = 0
              /\ fs[b].shown => /\ Len(L[b]) = Len(fs[b].labels) + 1
                                /\ \A k \in 1 .. Len(fs[b].labels) + 1 : L[b][k] = LineOf(fs[b], k - 1)
              /\ fs[b].shown \in BOOLEAN /\ Len(fs[b].labels) \in Nat
  <2> DEFINE u == fs[b]
  <2>1. u.labels \in Seq(S) /\ u.shown \in BOOLEAN /\ (\A k \in Nat : LineOf(u, k) \in T) /\ L[b] = Lines(u)
    BY <1>3, <1>4, <1>9
  <2> HIDE DEF u
  <2>2. /\ ~u.shown => Len(Lines(u)) = 0
        /\ u.shown => /\ Len(Lines(u)) = Len(u.labels) + 1
                      /\ \A k \in 1 .. Len(u.labels) + 1 : Lines(u)[k] = LineOf(u, k - 1)
    BY <2>1, LinesAre, Zenon
  <2>3. Len(u.labels) \in Nat
    BY <2>1, LenProperties
  <2>4. QED  BY <2>1, <2>2, <2>3, Zenon DEF u
<1>14. ASSUME NEW i \in DOMAIN o[n]
       PROVE  \E b \in DOMAIN fs : \E k \in 0 .. Len(fs[b].labels) :
                 fs[b].shown /\ off[b] \in Nat /\ i = off[b] + 1 + k /\ o[n][i] = LineOf(fs[b], k)
  <2>1. PICK b \in 1 .. n : \E k \in 1 .. Len(L[b]) : i = Len(o[b - 1]) + k /\ o[n][i] = L[b][k]
    BY <1>10, <1>11, Zenon
  <2>2. PICK k \in 1 .. Len(L[b]) : i = off[b] + k /\ o[n][i] = L[b][k]
    BY <1>c, <2>1, Zenon
  <2>3. fs[b].shown /\ Len(L[b]) = Len(fs[b].labels) + 1 /\ k \in 1 .. Len(fs[b].labels) + 1
        /\ Len(fs[b].labels) \in Nat
    <3>1. fs[b].shown
      <4>1. ~fs[b].shown => Len(L[b]) = 0
        BY <1>13, Zenon
      <4>2. Len(L[b]) # 0
        BY <2>2
      <4>3. QED  BY <4>1, <4>2
    <3>2. Len(L[b]) = Len(fs[b].labels) + 1 /\ Len(fs[b].labels) \in Nat
      BY <1>13, <3>1, Zenon
    <3>3. QED  BY <2>2, <3>1, <3>2, Zenon
  <2> DEFINE j == k - 1
             m == Len(fs[b].labels)
  <2>4. j \in 0 .. m /\ off[b] + k = off[b] + 1 + j
    BY <1>12, <2>3
  <2>5. L[b][k] = LineOf(fs[b], j)
    BY <1>13, <2>3, Zenon
  <2> HIDE DEF j
  <2>6. QED  BY <1>2, <1>12, <2>2, <2>3, <2>4, <2>5, Zenon
<1>15. ASSUME NEW b \in DOMAIN fs, NEW k \in 0 .. Len(fs[b].labels), fs[b].shown
       PROVE  off[b] + 1 + k \in DOMAIN o[n] /\ o[n][off[b] + 1 + k] = LineOf(fs[b], k)
  <2> DEFINE m == Len(fs[b].labels)
             j == k + 1
  <2>1. b \in 1 .. n
    BY <1>2
  <2>2. Len(L[b]) = m + 1 /\ m \in Nat /\ \A x \in 1 .. m + 1 : L[b][x] = LineOf(fs[b], x - 1)
    BY <1>13, <1>15, <2>1, Zenon
  <2>k. k \in 0 .. m
    OBVIOUS
  <2> HIDE DEF m
  <2>3. j \in 1 .. m + 1 /\ j - 1 = k /\ off[b] + 1 + k = off[b] + j
    BY <1>12, <2>1, <2>2, <2>k
  <2> HIDE DEF j
  <2>4. Len(o[b - 1]) + j \in 1 .. Len(o[n]) /\ o[n][Len(o[b - 1]) + j] = L[b][j]
    BY <1>10, <2>1, <2>2, <2>3, Zenon
  <2>5. off[b] + j \in DOMAIN o[n] /\ o[n][off[b] + j] = LineOf(fs[b], k)
    BY <1>11, <1>c, <2>1, <2>2, <2>3, <2>4, Zenon
  <2>6. QED  BY <2>3, <2>5, Zenon
<1>16. IsText(o[n], fs, off)
  BY <1>14, <1>15, Zenon DEF IsText
<1>17. Render(s) = o[n]
  BY <1>1, <1>2
<1>18. QED  BY <1>16, <1>17, Zenon DEF fs

LEMMA NameIsRead ==
    ASSUME NEW name \in Name
    PROVE  ReadLabel(Esc(name)) = At("end", name) /\ ReadLabel(Esc(name)).at = "end" /\ ReadLabel(Esc(name)).out = name
<1>1. name \in Seq(Char)
  <2>1. STRING \subseteq Char
    BY DEF Char
  <2> HIDE DEF Char
  <2>2. name \in Seq(STRING) /\ Len(name) \in Nat
    BY LenProperties DEF Name
  <2>3. name \in [1 .. Len(name) -> STRING]
    BY <2>2
  <2>4. name \in [1 .. Len(name) -> Char]
    BY <2>1, <2>3
  <2>5. QED  BY <2>2, <2>4
<1>2. Reads(Esc(name)) = At("text", name) /\ Esc(name) \in Seq(Char)
  BY <1>1, EscIsRead
<1>3. Reads(Esc(name) \o <<"quote">>) = ReadChar(Reads(Esc(name)), "quote")
  BY <1>2, ReadsOneMore, CharsDiffer
<1>4. ReadChar(At("text", name), "quote") = At("end", name)
  BY <1>1, TextIsRead, CharsDiffer
<1>5. ReadLabel(Esc(name)) = At("end", name)
  BY <1>2, <1>3, <1>4, Zenon DEF ReadLabel
<1>6. QED  BY <1>5 DEF At

LEMMA EscapedDiffer ==
    ASSUME NEW a \in Name, NEW b \in Name, Esc(a) = Esc(b)
    PROVE  a = b
BY NameIsRead

LEMMA LinesDiffer ==
    ASSUME NEW f, NEW k
    PROVE  /\ LineOf(f, k).family = f.family
           /\ k = 0 => LineOf(f, k).type = "TYPE"
           /\ k # 0 => LineOf(f, k).type = "sample" /\ LineOf(f, k).label = Esc(f.labels[k]) /\ LineOf(f, k).value = f.values[k]
BY DEF LineOf, TypeLine, Sample

LEMMA TypesDiffer == "TYPE" # "sample"
OBVIOUS

(* The families of a text have names of their own, and a family has names
   of its own unless the host repeats one. *)
AreNamed(fs) ==
    /\ \A b, c \in DOMAIN fs : fs[b].family = fs[c].family => b = c
    /\ \A b \in DOMAIN fs : /\ fs[b].labels \in Seq(Name)
                            /\ fs[b].shown /\ ~Distinct(fs[b].labels) => HostRepeats(fs[b].family)

(* Line k of family b. *)
IsLine(fs, off, i, b, k) ==
    /\ b \in DOMAIN fs /\ fs[b].shown /\ off[b] \in Nat
    /\ k \in 0 .. Len(fs[b].labels)
    /\ i = off[b] + 1 + k /\ text[i] = LineOf(fs[b], k)

LEMMA IsSomeLine ==
    ASSUME NEW fs, NEW off, IsText(text, fs, off), NEW i \in DOMAIN text
    PROVE  \E b, k : IsLine(fs, off, i, b, k)
<1>1. PICK b \in DOMAIN fs : \E k \in 0 .. Len(fs[b].labels) :
          fs[b].shown /\ off[b] \in Nat /\ i = off[b] + 1 + k /\ text[i] = LineOf(fs[b], k)
  BY Zenon DEF IsText
<1>2. QED  BY <1>1, Zenon DEF IsLine

LEMMA TextIsNamed ==
    ASSUME NEW fs, NEW off, IsText(text, fs, off), AreNamed(fs)
    PROVE  LabelsAreRead /\ NamesAreUnique /\ FamiliesAreTogether
<1>n. \A b, c \in DOMAIN fs : fs[b].family = fs[c].family => b = c
  BY Zenon DEF AreNamed
<1>s. \A b \in DOMAIN fs : /\ fs[b].labels \in Seq(Name)
                           /\ fs[b].shown /\ ~Distinct(fs[b].labels) => HostRepeats(fs[b].family)
  BY Zenon DEF AreNamed
<1>l. ASSUME NEW b \in DOMAIN fs, NEW k \in 0 .. Len(fs[b].labels), k # 0
      PROVE  k \in 1 .. Len(fs[b].labels) /\ k \in DOMAIN fs[b].labels /\ fs[b].labels[k] \in Name
  <2> DEFINE s == fs[b].labels
  <2>1. s \in Seq(Name) /\ k \in 0 .. Len(s)
    BY <1>s, Zenon
  <2> HIDE DEF s
  <2>2. Len(s) \in Nat /\ DOMAIN s = 1 .. Len(s)
    BY <2>1, LenProperties
  <2>3. k \in 1 .. Len(s)
    BY <1>l, <2>1, <2>2
  <2>4. s[k] \in Name
    BY <2>1, <2>3, ElementOfSeq
  <2>5. QED  BY <2>2, <2>3, <2>4 DEF s
<1>1. LabelsAreRead
  <2> SUFFICES ASSUME NEW i \in DOMAIN text, text[i].type = "sample"
               PROVE  ReadLabel(text[i].label).at = "end"
    BY DEF LabelsAreRead
  <2>1. PICK b, k : IsLine(fs, off, i, b, k)
    BY IsSomeLine
  <2>2. b \in DOMAIN fs /\ k \in 0 .. Len(fs[b].labels) /\ text[i] = LineOf(fs[b], k)
    BY <2>1 DEF IsLine
  <2>3. k # 0
    BY <2>2, LinesDiffer, TypesDiffer
  <2>4. fs[b].labels[k] \in Name
    BY <1>l, <2>2, <2>3
  <2>5. text[i].label = Esc(fs[b].labels[k])
    BY <2>2, <2>3, LinesDiffer
  <2>6. QED  BY <2>4, <2>5, NameIsRead
<1>2. NamesAreUnique
  <2> SUFFICES ASSUME NEW i \in DOMAIN text, NEW j \in DOMAIN text, text[i].family = text[j].family,
                      text[i].type = text[j].type, text[i].label = text[j].label
               PROVE  i = j \/ (text[i].type = "sample" /\ HostRepeats(text[i].family))
    BY DEF NamesAreUnique
  <2>1. PICK b, k : IsLine(fs, off, i, b, k)
    BY IsSomeLine
  <2>2. PICK c, l : IsLine(fs, off, j, c, l)
    BY IsSomeLine
  <2>3. /\ b \in DOMAIN fs /\ fs[b].shown /\ k \in 0 .. Len(fs[b].labels)
        /\ i = off[b] + 1 + k /\ text[i] = LineOf(fs[b], k)
    BY <2>1 DEF IsLine
  <2>4. /\ c \in DOMAIN fs /\ l \in 0 .. Len(fs[c].labels)
        /\ j = off[c] + 1 + l /\ text[j] = LineOf(fs[c], l)
    BY <2>2 DEF IsLine
  <2>5. c = b
    <3>1. text[i].family = fs[b].family /\ text[j].family = fs[c].family
      BY <2>3, <2>4, LinesDiffer
    <3>2. QED  BY <1>n, <2>3, <2>4, <3>1
  <2>6. k = 0 <=> l = 0
    BY <2>3, <2>4, LinesDiffer, TypesDiffer
  <2>7. CASE k = 0
    BY <2>3, <2>4, <2>5, <2>6, <2>7
  <2>8. CASE k # 0
    <3>1. text[i].type = "sample" /\ text[i].family = fs[b].family /\ text[i].label = Esc(fs[b].labels[k])
      BY <2>3, <2>8, LinesDiffer
    <3>2. text[j].label = Esc(fs[b].labels[l])
      BY <2>4, <2>5, <2>6, <2>8, LinesDiffer
    <3>3. k \in DOMAIN fs[b].labels /\ fs[b].labels[k] \in Name
      BY <1>l, <2>3, <2>8
    <3>4. l \in DOMAIN fs[b].labels /\ fs[b].labels[l] \in Name
      BY <1>l, <2>4, <2>5, <2>6, <2>8
    <3>5. fs[b].labels[k] = fs[b].labels[l]
      BY <3>1, <3>2, <3>3, <3>4, EscapedDiffer
    <3>6. CASE Distinct(fs[b].labels)
      <4>1. k = l
        BY <3>3, <3>4, <3>5, <3>6 DEF Distinct
      <4>2. QED  BY <2>3, <2>4, <2>5, <4>1
    <3>7. CASE ~Distinct(fs[b].labels)
      BY <1>s, <2>3, <3>1, <3>7, Zenon
    <3>8. QED  BY <3>6, <3>7
  <2>9. QED  BY <2>7, <2>8
<1>3. FamiliesAreTogether
  <2> SUFFICES ASSUME NEW i \in DOMAIN text, NEW j \in DOMAIN text, text[i].family = text[j].family, i < j
               PROVE  (\A m \in i .. j : text[m].family = text[i].family) /\ text[j].type = "sample"
    BY DEF FamiliesAreTogether
  <2>1. PICK b, k : IsLine(fs, off, i, b, k)
    BY IsSomeLine
  <2>2. PICK c, l : IsLine(fs, off, j, c, l)
    BY IsSomeLine
  <2>3. /\ b \in DOMAIN fs /\ fs[b].shown /\ k \in 0 .. Len(fs[b].labels) /\ off[b] \in Nat
        /\ i = off[b] + 1 + k /\ text[i] = LineOf(fs[b], k)
    BY <2>1 DEF IsLine
  <2>4. /\ c \in DOMAIN fs /\ l \in 0 .. Len(fs[c].labels)
        /\ j = off[c] + 1 + l /\ text[j] = LineOf(fs[c], l)
    BY <2>2 DEF IsLine
  <2>f. text[i].family = fs[b].family /\ text[j].family = fs[c].family
    BY <2>3, <2>4, LinesDiffer
  <2>5. c = b
    BY <1>n, <2>3, <2>4, <2>f
  <2> DEFINE n == Len(fs[b].labels)
             o == off[b]
  <2>6. n \in Nat
    <3>1. fs[b].labels \in Seq(Name)
      BY <1>s, <2>3, Zenon
    <3>2. QED  BY <3>1, LenProperties
  <2>7. o \in Nat /\ k \in 0 .. n /\ l \in 0 .. n /\ i = o + 1 + k /\ j = o + 1 + l
    BY <2>3, <2>4, <2>5
  <2> HIDE DEF n, o
  <2>8. l # 0
    BY <2>6, <2>7
  <2>9. ASSUME NEW m \in i .. j
        PROVE  text[m].family = fs[b].family
    <3> DEFINE q == m - o - 1
    <3>1. q \in 0 .. n /\ m = o + 1 + q
      BY <2>6, <2>7
    <3> HIDE DEF q
    <3>2. text[m] = LineOf(fs[b], q)
      BY <2>3, <3>1, Zenon DEF IsText, n, o
    <3>3. QED  BY <3>2, LinesDiffer
  <2>10. text[j].type = "sample"
    BY <2>4, <2>8, LinesDiffer
  <2>11. QED  BY <2>9, <2>10, <2>f
<1>4. QED  BY <1>1, <1>2, <1>3

-----------------------------------------------------------------------------
(* Disks *)

Disk == [mount: Name, total: Nat, used: Nat]

Real(mounts, i) == i \in 1 .. Len(mounts) /\ mounts[i].fs \notin PSEUDO_FS

SameTotals(mounts) ==
    \A i, j \in DOMAIN mounts : mounts[i].mount = mounts[j].mount => mounts[i].total = mounts[j].total

(* Every real mount point once. *)
IsOnce(shown, mounts) ==
    /\ shown \in Seq(Mount) /\ Len(shown) \in Nat
    /\ \A a \in 1 .. Len(shown) : \E i \in 1 .. Len(mounts) : Real(mounts, i) /\ shown[a] = mounts[i]
    /\ \A a, b \in 1 .. Len(shown) : shown[a].mount = shown[b].mount => a = b
    /\ \A i \in 1 .. Len(mounts) : Real(mounts, i) => \E a \in 1 .. Len(shown) : shown[a].mount = mounts[i].mount

LEMMA OncePerMountIs ==
    ASSUME NEW mounts \in Seq(Mount)
    PROVE  IsOnce(OncePerMount(mounts), mounts)
<1> DEFINE real == { i \in DOMAIN mounts : mounts[i].fs \notin PSEUDO_FS }
           K == { i \in real : \A j \in real : j < i => mounts[j].mount # mounts[i].mount }
           shown == Picked(mounts, K)
           n == Len(mounts)
<1>1. n \in Nat /\ DOMAIN mounts = 1 .. n
  BY LenProperties
<1>2. \A i : i \in real <=> Real(mounts, i)
  BY <1>1 DEF Real
<1>3. real \subseteq 1 .. n
  BY <1>1
<1>4. \A i \in K : i \in real /\ \A j \in real : j < i => mounts[j].mount # mounts[i].mount
  OBVIOUS
<1>5. \A i \in real : (\A j \in real : j < i => mounts[j].mount # mounts[i].mount) => i \in K
  OBVIOUS
<1>6. OncePerMount(mounts) = shown
  BY Zenon DEF OncePerMount
<1>7. K \subseteq DOMAIN mounts
  OBVIOUS
<1> HIDE DEF K, n, real
<1>8. shown \in Seq(Mount) /\ Len(shown) \in Nat /\ \E pos : Picks(shown, mounts, K, pos)
  BY <1>7, PickedFrom
<1> HIDE DEF shown
<1>9. PICK pos : Picks(shown, mounts, K, pos)
  BY <1>8
<1>10. /\ \A a \in 1 .. Len(shown) : pos[a] \in K /\ shown[a] = mounts[pos[a]]
       /\ \A i \in K : \E a \in 1 .. Len(shown) : pos[a] = i
       /\ \A a, b \in 1 .. Len(shown) : a < b => pos[a] < pos[b]
  BY <1>9, Zenon DEF Picks, Increasing
<1>11. ASSUME NEW a \in 1 .. Len(shown), NEW b \in 1 .. Len(shown), a < b
       PROVE  shown[a].mount # shown[b].mount
  <2>1. pos[a] \in real /\ pos[b] \in K /\ pos[a] < pos[b]
    BY <1>4, <1>10, <1>11
  <2>2. mounts[pos[a]].mount # mounts[pos[b]].mount
    BY <1>4, <2>1, Zenon
  <2>3. QED  BY <1>10, <2>2, Zenon
<1>12. \A a, b \in 1 .. Len(shown) : shown[a].mount = shown[b].mount => a = b
  <2> SUFFICES ASSUME NEW a \in 1 .. Len(shown), NEW b \in 1 .. Len(shown), shown[a].mount = shown[b].mount
               PROVE  a = b
    OBVIOUS
  <2>1. a < b \/ b < a \/ a = b
    BY <1>8
  <2>2. QED  BY <1>11, <2>1, Zenon
<1>13. ASSUME NEW i \in real
       PROVE  \E a \in 1 .. Len(shown) : shown[a].mount = mounts[i].mount
  <2> DEFINE A == { j \in real : mounts[j].mount = mounts[i].mount }
  <2>1. A \subseteq Nat /\ i \in A
    <3>1. A \subseteq real /\ i \in A
      OBVIOUS
    <3>2. real \subseteq Nat
      <4>1. \A x \in 1 .. n : x \in Nat
        BY <1>1
      <4>2. QED  BY <1>3, <4>1
    <3> HIDE DEF A
    <3>3. QED  BY <3>1, <3>2
  <2>2. PICK m \in A : \A k \in A : m <= k
    <3> HIDE DEF A
    <3>1. QED  BY <2>1, Least
  <2>3. m \in real /\ mounts[m].mount = mounts[i].mount
    OBVIOUS
  <2>4. \A j \in real : j < m => mounts[j].mount # mounts[m].mount
    <3> SUFFICES ASSUME NEW j \in real, j < m, mounts[j].mount = mounts[m].mount
                 PROVE  FALSE
      OBVIOUS
    <3>1. j \in A
      BY <2>3
    <3>2. m <= j /\ m \in Nat /\ j \in Nat
      BY <2>1, <2>2, <3>1
    <3>3. QED  BY <3>2
  <2>5. m \in K
    BY <1>5, <2>3, <2>4
  <2>6. PICK a \in 1 .. Len(shown) : pos[a] = m
    BY <1>10, <2>5, Zenon
  <2>7. shown[a] = mounts[m]
    BY <1>10, <2>6
  <2>8. QED  BY <2>3, <2>7
<1>14. \A a \in 1 .. Len(shown) : \E i \in 1 .. n : Real(mounts, i) /\ shown[a] = mounts[i]
  BY <1>2, <1>3, <1>4, <1>10
<1>15. \A i \in 1 .. n : Real(mounts, i) => \E a \in 1 .. Len(shown) : shown[a].mount = mounts[i].mount
  BY <1>2, <1>13, Zenon
<1>16. IsOnce(shown, mounts)
  BY <1>8, <1>12, <1>14, <1>15, Zenon DEF IsOnce, n
<1>17. QED  BY <1>6, <1>16

(* Every real mount point with room on it once, and no more used than there
   is. *)
IsUsage(disks, mounts) ==
    /\ disks \in Seq(Disk) /\ Len(disks) \in Nat
    /\ \A a \in 1 .. Len(disks) : disks[a].used <= disks[a].total
    /\ \A a \in 1 .. Len(disks) : \E i \in 1 .. Len(mounts) :
          Real(mounts, i) /\ mounts[i].total > 0 /\ disks[a].mount = mounts[i].mount
    /\ \A a, b \in 1 .. Len(disks) : disks[a].mount = disks[b].mount => a = b
    /\ \A i \in 1 .. Len(mounts) :
          Real(mounts, i) /\ mounts[i].total > 0 => \E a \in 1 .. Len(disks) : disks[a].mount = mounts[i].mount

LEMMA UsageIs ==
    ASSUME NEW mounts \in Seq(Mount), SameTotals(mounts)
    PROVE  IsUsage(Usage(mounts), mounts)
<1> DEFINE shown == OncePerMount(mounts)
           K == { i \in DOMAIN shown : shown[i].total > 0 }
           kept == Picked(shown, K)
           used(m) == IF m.available > m.total THEN 0 ELSE m.total - m.available
           entry(m) == [mount |-> m.mount, total |-> m.total, used |-> used(m)]
           disks == [i \in DOMAIN kept |-> entry(kept[i])]
<1>1. IsOnce(shown, mounts)
  BY OncePerMountIs
<1>2. Usage(mounts) = disks
  BY Zenon DEF Usage
<1> HIDE DEF shown
<1>3. /\ shown \in Seq(Mount) /\ Len(shown) \in Nat
      /\ \A a \in 1 .. Len(shown) : \E i \in 1 .. Len(mounts) : Real(mounts, i) /\ shown[a] = mounts[i]
      /\ \A a, b \in 1 .. Len(shown) : shown[a].mount = shown[b].mount => a = b
      /\ \A i \in 1 .. Len(mounts) : Real(mounts, i) => \E a \in 1 .. Len(shown) : shown[a].mount = mounts[i].mount
  BY <1>1, Zenon DEF IsOnce
<1>4. DOMAIN shown = 1 .. Len(shown)
  BY <1>3, LenProperties
<1>5. \A i : i \in K <=> i \in 1 .. Len(shown) /\ shown[i].total > 0
  BY <1>4
<1>6. K \subseteq DOMAIN shown
  OBVIOUS
<1> HIDE DEF K
<1>7. kept \in Seq(Mount) /\ Len(kept) \in Nat /\ \E pos : Picks(kept, shown, K, pos)
  BY <1>3, <1>6, PickedFrom
<1> HIDE DEF kept
<1>8. PICK pos : Picks(kept, shown, K, pos)
  BY <1>7
<1>9. /\ \A a \in 1 .. Len(kept) : pos[a] \in K /\ kept[a] = shown[pos[a]]
      /\ \A i \in K : \E a \in 1 .. Len(kept) : pos[a] = i
      /\ \A a, b \in 1 .. Len(kept) : a < b => pos[a] < pos[b]
  BY <1>8, Zenon DEF Picks, Increasing
<1>10. DOMAIN kept = 1 .. Len(kept) /\ \A a \in 1 .. Len(kept) : kept[a] \in Mount
  BY <1>7, LenProperties, ElementOfSeq
<1>11. ASSUME NEW m \in Mount
       PROVE  /\ entry(m) \in Disk /\ entry(m).mount = m.mount /\ entry(m).used <= entry(m).total
  <2>1. m.mount \in Name /\ m.total \in Nat /\ m.available \in Nat
    BY DEF Mount
  <2>2. used(m) \in Nat /\ used(m) <= m.total
    BY <2>1
  <2> HIDE DEF used
  <2>3. QED  BY <2>1, <2>2 DEF Disk
<1>12. \A a \in 1 .. Len(kept) : disks[a] = entry(kept[a])
  BY <1>10
<1> HIDE DEF entry
<1>13. disks \in Seq(Disk) /\ Len(disks) = Len(kept)
  <2>1. \A a \in 1 .. Len(kept) : entry(kept[a]) \in Disk
    BY <1>10, <1>11
  <2>2. disks \in [1 .. Len(kept) -> Disk]
    BY <1>10, <2>1
  <2> HIDE DEF disks
  <2>3. QED  BY <1>7, <2>2
<1> HIDE DEF disks
<1>14. \A a \in 1 .. Len(disks) : disks[a].used <= disks[a].total /\ disks[a].mount = shown[pos[a]].mount /\ pos[a] \in K
  <2> SUFFICES ASSUME NEW a \in 1 .. Len(kept)
               PROVE  disks[a].used <= disks[a].total /\ disks[a].mount = shown[pos[a]].mount /\ pos[a] \in K
    BY <1>13
  <2>1. kept[a] \in Mount /\ disks[a] = entry(kept[a]) /\ kept[a] = shown[pos[a]] /\ pos[a] \in K
    BY <1>9, <1>10, <1>12
  <2>2. entry(kept[a]).mount = kept[a].mount /\ entry(kept[a]).used <= entry(kept[a]).total
    BY <1>11, <2>1, Zenon
  <2>3. QED  BY <2>1, <2>2, Zenon
<1>15. ASSUME NEW a \in 1 .. Len(disks)
       PROVE  \E i \in 1 .. Len(mounts) :
                 Real(mounts, i) /\ mounts[i].total > 0 /\ disks[a].mount = mounts[i].mount
  <2>1. pos[a] \in 1 .. Len(shown) /\ shown[pos[a]].total > 0 /\ disks[a].mount = shown[pos[a]].mount
    BY <1>5, <1>14, Zenon
  <2>2. PICK i \in 1 .. Len(mounts) : Real(mounts, i) /\ shown[pos[a]] = mounts[i]
    BY <1>3, <2>1, Zenon
  <2>3. QED  BY <2>1, <2>2, Zenon
<1>16. ASSUME NEW a \in 1 .. Len(disks), NEW b \in 1 .. Len(disks), disks[a].mount = disks[b].mount
       PROVE  a = b
  <2>1. pos[a] \in 1 .. Len(shown) /\ pos[b] \in 1 .. Len(shown) /\ shown[pos[a]].mount = shown[pos[b]].mount
    BY <1>5, <1>14, <1>16, Zenon
  <2>2. pos[a] = pos[b] /\ pos[a] \in Int
    <3>1. pos[a] = pos[b]
      BY <1>3, <2>1, Zenon
    <3>2. pos[a] \in Int
      BY <2>1
    <3>3. QED  BY <3>1, <3>2
  <2>3. a \in 1 .. Len(kept) /\ b \in 1 .. Len(kept)
    BY <1>13
  <2>4. a < b \/ b < a \/ a = b
    BY <2>3
  <2>5. ~(pos[a] < pos[b]) /\ ~(pos[b] < pos[a])
    BY <2>2
  <2>6. QED  BY <1>9, <2>3, <2>4, <2>5, Zenon
<1>17. ASSUME NEW i \in 1 .. Len(mounts), Real(mounts, i), mounts[i].total > 0
       PROVE  \E a \in 1 .. Len(disks) : disks[a].mount = mounts[i].mount
  <2>1. PICK b \in 1 .. Len(shown) : shown[b].mount = mounts[i].mount
    BY <1>3, <1>17, Zenon
  <2>2. PICK j \in 1 .. Len(mounts) : shown[b] = mounts[j]
    BY <1>3, <2>1, Zenon
  <2>3. mounts[j].total = mounts[i].total
    <3>1. DOMAIN mounts = 1 .. Len(mounts)
      BY LenProperties
    <3>2. QED  BY <2>1, <2>2, <3>1 DEF SameTotals
  <2>4. b \in K
    BY <1>5, <1>17, <2>2, <2>3, Zenon
  <2>5. PICK a \in 1 .. Len(kept) : pos[a] = b
    BY <1>9, <2>4, Zenon
  <2>6. a \in 1 .. Len(disks)
    BY <1>13
  <2>7. QED  BY <1>14, <2>1, <2>5, <2>6, Zenon
<1>18. Len(disks) \in Nat
  BY <1>7, <1>13
<1>19. IsUsage(disks, mounts)
  BY <1>13, <1>14, <1>15, <1>16, <1>17, <1>18, Zenon DEF IsUsage
<1>20. QED  BY <1>2, <1>19

-----------------------------------------------------------------------------
(* Families *)

(* What the tick made is made from the host. *)
MadeFromHost ==
    /\ snapshot.disks = Usage(host.mounts) /\ snapshot.disk_io = IoCounters(host.stats)
    /\ snapshot.cores = host.cores /\ snapshot.net = host.net
    /\ snapshot.docker = host.containers /\ snapshot.sensors = host.sensors
    /\ TakenFrom(snapshot.processes, snapshot.connections)

(* Names that are told apart. *)
Apart == { names \in Seq(Name) : Distinct(names) }

LEMMA NoneAreApart == << >> \in Apart /\ << << >> >> \in Apart
<1>1. << >> \in Name
  BY DEF Name
<1> HIDE DEF Name
<1>2. << >> \in Seq(Name) /\ << << >> >> \in Seq(Name)
  BY <1>1
<1>3. Distinct(<< >>)
  BY DEF Distinct
<1>4. Distinct(<< << >> >>)
  BY DEF Distinct
<1>5. QED  BY <1>2, <1>3, <1>4 DEF Apart

LEMMA TheIs ==
    ASSUME NEW S, NEW panel, NEW none \in S, \A x \in panel : x \in S
    PROVE  The(panel, none) \in S /\ (panel # {} => The(panel, none) \in panel)
BY DEF The

LEMMA DevicesAreApart ==
    ASSUME NEW file, file.lines \in Seq(StatsLine), Distinct([i \in DOMAIN file.lines |-> file.lines[i].name])
    PROVE  \A io \in IoCounters(file) : Each(io, "device") \in Apart
<1> DEFINE lines == file.lines
           K == { i \in DOMAIN lines : lines[i].fields >= 10 /\ lines[i].whole /\ lines[i].numbers }
           read == Picked(lines, K)
           x == [i \in DOMAIN read |-> [device |-> read[i].name, rd |-> read[i].rd * Sector, wr |-> read[i].wr * Sector]]
           names == [i \in DOMAIN lines |-> lines[i].name]
<1>1. \A io \in IoCounters(file) : io = x
  BY Zenon DEF IoCounters
<1>2. K \subseteq DOMAIN lines /\ lines \in Seq(StatsLine)
  OBVIOUS
<1>3. \A i \in DOMAIN lines : names[i] = lines[i].name
  OBVIOUS
<1>4. \A i, j \in DOMAIN lines : lines[i].name = lines[j].name => i = j
  <2>1. Distinct(names) /\ DOMAIN names = DOMAIN lines
    OBVIOUS
  <2> HIDE DEF names, lines
  <2>2. QED  BY <1>3, <2>1 DEF Distinct
<1> HIDE DEF K, lines
<1>5. read \in Seq(StatsLine) /\ Len(read) \in Nat /\ \E pos : Picks(read, lines, K, pos)
  BY <1>2, PickedFrom
<1> HIDE DEF read
<1>6. PICK pos : Picks(read, lines, K, pos)
  BY <1>5
<1>7. /\ \A a \in 1 .. Len(read) : pos[a] \in K /\ read[a] = lines[pos[a]]
      /\ \A a, b \in 1 .. Len(read) : a < b => pos[a] < pos[b]
  BY <1>6, Zenon DEF Picks, Increasing
<1>8. DOMAIN read = 1 .. Len(read)
  BY <1>5, LenProperties
<1>l. DOMAIN lines = 1 .. Len(lines)
  BY <1>2, LenProperties
<1> DEFINE devices == [i \in 1 .. Len(read) |-> read[i].name]
<1>9. Each(x, "device") = devices
  <2>1. DOMAIN x = 1 .. Len(read)
    BY <1>8
  <2>2. \A i \in 1 .. Len(read) : x[i]["device"] = read[i].name
    BY <1>8
  <2> HIDE DEF x
  <2>3. QED  BY <2>1, <2>2, Zenon DEF Each
<1>10. devices \in Seq(Name)
  <2>1. \A i \in 1 .. Len(read) : read[i].name \in Name
    <3>1. \A i \in 1 .. Len(read) : read[i] \in StatsLine
      BY <1>5, ElementOfSeq
    <3> HIDE DEF Name
    <3>2. QED  BY <3>1 DEF StatsLine
  <2> HIDE DEF Name
  <2>2. devices \in [1 .. Len(read) -> Name]
    BY <2>1
  <2> HIDE DEF devices
  <2>3. QED  BY <1>5, <2>2
<1>11. ASSUME NEW a \in 1 .. Len(read), NEW b \in 1 .. Len(read), read[a].name = read[b].name
       PROVE  a = b
  <2>1. pos[a] \in K /\ pos[b] \in K /\ lines[pos[a]].name = lines[pos[b]].name
    BY <1>7, <1>11, Zenon
  <2>2. pos[a] = pos[b]
    BY <1>2, <1>4, <2>1
  <2>3. pos[a] \in Int
    BY <1>2, <1>l, <2>1
  <2>4. a < b \/ b < a \/ a = b
    BY <1>5
  <2>5. ~(pos[a] < pos[b]) /\ ~(pos[b] < pos[a])
    BY <2>2, <2>3
  <2>6. QED  BY <1>7, <2>4, <2>5, Zenon
<1>12. Distinct(devices)
  BY <1>11 DEF Distinct
<1> HIDE DEF x, devices
<1>13. QED  BY <1>1, <1>9, <1>10, <1>12 DEF Apart

LEMMA MountsAreApart ==
    ASSUME NEW disks, NEW mounts, IsUsage(disks, mounts)
    PROVE  /\ Each(disks, "mount") \in Apart
           /\ DOMAIN Each(disks, "mount") = 1 .. Len(disks) /\ Len(Each(disks, "mount")) = Len(disks)
           /\ \A i \in 1 .. Len(disks) : /\ Each(disks, "mount")[i] = disks[i].mount
                                         /\ Each(disks, "total")[i] = disks[i].total
                                         /\ Each(disks, "used")[i] = disks[i].used
<1>1. /\ disks \in Seq(Disk) /\ Len(disks) \in Nat
      /\ \A a, b \in 1 .. Len(disks) : disks[a].mount = disks[b].mount => a = b
  BY Zenon DEF IsUsage
<1>2. DOMAIN disks = 1 .. Len(disks)
  BY <1>1, LenProperties
<1> DEFINE names == Each(disks, "mount")
<1>3. DOMAIN names = 1 .. Len(disks) /\ names = [i \in 1 .. Len(disks) |-> disks[i]["mount"]]
  BY <1>2, Zenon DEF Each
<1>4. \A i \in 1 .. Len(disks) : /\ names[i] = disks[i].mount
                                 /\ Each(disks, "total")[i] = disks[i].total
                                 /\ Each(disks, "used")[i] = disks[i].used
  BY <1>2 DEF Each
<1> HIDE DEF names
<1>5. names \in Seq(Name) /\ Len(names) = Len(disks)
  <2>1. \A i \in 1 .. Len(disks) : disks[i].mount \in Name
    <3>1. \A i \in 1 .. Len(disks) : disks[i] \in Disk
      BY <1>1, ElementOfSeq
    <3> HIDE DEF Name
    <3>2. QED  BY <3>1 DEF Disk
  <2> HIDE DEF Name
  <2>2. \A i \in 1 .. Len(disks) : names[i] \in Name
    BY <1>4, <2>1
  <2>3. names \in [1 .. Len(disks) -> Name]
    BY <1>3, <2>2
  <2>4. QED  BY <1>1, <2>3
<1>6. Distinct(names)
  BY <1>1, <1>3, <1>4 DEF Distinct
<1>7. QED  BY <1>3, <1>4, <1>5, <1>6 DEF Apart, names

FamilyName ==
    << "cpu_core", "disk_total", "disk_used", "disk_read", "disk_write", "net_rx", "net_tx", "net_rx_total",
       "net_tx_total", "procs_total", "procs_running", "procs_sleeping", "procs_zombie", "tcp_established",
       "tcp_time_wait", "tcp_listening_ports", "container_cpu", "container_mem", "temp", "fan", "alerts_firing" >>

LEMMA FamilyNamesDiffer == \A a, b \in 1 .. 21 : FamilyName[a] = FamilyName[b] => a = b
BY DEF FamilyName

(* Names that the host, and not the program, may repeat in a family. *)
IsNamed(f, name) ==
    /\ f.family = name /\ f.labels \in Seq(Name) /\ f.shown \in BOOLEAN
    /\ f.shown /\ ~Distinct(f.labels) => HostRepeats(f.family)

LEMMA ApartIsNamed ==
    ASSUME NEW name, NEW shown \in BOOLEAN, NEW labels \in Apart, NEW values
    PROVE  IsNamed(Family(name, shown, labels, values), name)
<1>1. labels \in Seq(Name) /\ Distinct(labels)
  BY DEF Apart
<1> DEFINE f == Family(name, shown, labels, values)
<1>2. f.family = name /\ f.shown = shown /\ f.labels = labels
  BY DEF Family
<1> HIDE DEF f
<1>3. f.labels \in Seq(Name) /\ Distinct(f.labels) /\ f.shown \in BOOLEAN
  BY <1>1, <1>2
<1>4. QED  BY <1>2, <1>3, Zenon DEF IsNamed, f

LEMMA GaugeIsNamed ==
    ASSUME NEW name, NEW shown \in BOOLEAN, NEW value
    PROVE  IsNamed(Gauge(name, shown, value), name)
BY NoneAreApart, ApartIsNamed DEF Gauge

LEMMA SensedIsNamed ==
    ASSUME NEW name, NEW shown \in BOOLEAN, NEW labels \in Seq(Name),
           shown /\ ~Distinct(labels) => HostRepeats(name)
    PROVE  IsNamed(Named(name, shown, labels), name)
<1> DEFINE f == Named(name, shown, labels)
<1>1. f.family = name /\ f.shown = shown /\ f.labels = labels
  BY DEF Family, Named
<1> HIDE DEF f
<1>2. f.labels \in Seq(Name) /\ f.shown \in BOOLEAN
  BY <1>1
<1>3. f.shown /\ ~Distinct(f.labels) => HostRepeats(f.family)
  BY <1>1, Zenon
<1>4. QED  BY <1>1, <1>2, <1>3, Zenon DEF IsNamed, f

(* The families of a text. *)
AreFamilies(fs) ==
    /\ Len(fs) = 21 /\ fs \in Seq({ fs[b] : b \in 1 .. 21 })
    /\ \A b \in 1 .. 21 : IsNamed(fs[b], FamilyName[b])
    /\ fs[2] = Family("disk_total", TRUE, Each(snapshot.disks, "mount"), Each(snapshot.disks, "total"))
    /\ fs[3] = Family("disk_used", TRUE, Each(snapshot.disks, "mount"), Each(snapshot.disks, "used"))

LEMMA FamiliesAre ==
    ASSUME host \in Hosts, MadeFromHost
    PROVE  AreFamilies(Families(snapshot))
<1> DEFINE s == snapshot
           mounts == Each(s.disks, "mount")
           io == The(s.disk_io, << >>)
           tcp == The(s.connections, [established |-> 0, time_wait |-> 0, listening |-> << >>])
           docker == The(s.docker, << >>)
           sensed == The(s.sensors, [temps |-> << >>, fans |-> << >>])
           shows == [io |-> s.disk_io # {}, tcp |-> s.connections # {}, docker |-> s.docker # {},
                     temps |-> s.sensors # {}, fans |-> s.sensors # {} /\ sensed.fans # << >>]
           f1 == Named("cpu_core", TRUE, s.cores)
           f2 == Family("disk_total", TRUE, mounts, Each(s.disks, "total"))
           f3 == Family("disk_used", TRUE, mounts, Each(s.disks, "used"))
           f4 == Family("disk_read", shows.io, Each(io, "device"), Each(io, "rd"))
           f5 == Family("disk_write", shows.io, Each(io, "device"), Each(io, "wr"))
           f6 == Named("net_rx", TRUE, s.net)
           f7 == Named("net_tx", TRUE, s.net)
           f8 == Named("net_rx_total", TRUE, s.net)
           f9 == Named("net_tx_total", TRUE, s.net)
           f10 == Gauge("procs_total", TRUE, s.processes.total)
           f11 == Gauge("procs_running", TRUE, s.processes.running)
           f12 == Gauge("procs_sleeping", TRUE, s.processes.sleeping)
           f13 == Gauge("procs_zombie", TRUE, s.processes.zombie)
           f14 == Gauge("tcp_established", shows.tcp, tcp.established)
           f15 == Gauge("tcp_time_wait", shows.tcp, tcp.time_wait)
           f16 == Gauge("tcp_listening_ports", shows.tcp, Len(tcp.listening))
           f17 == Named("container_cpu", shows.docker, docker)
           f18 == Named("container_mem", shows.docker, docker)
           f19 == Named("temp", shows.temps, sensed.temps)
           f20 == Named("fan", shows.fans, sensed.fans)
           f21 == Gauge("alerts_firing", TRUE, s.alerts)
           fs == Families(s)
<1>1. fs = << f1, f2, f3, f4, f5, f6, f7, f8, f9, f10, f11, f12, f13, f14, f15, f16, f17, f18, f19, f20, f21 >>
  BY Zenon DEF Families
<1>2. mounts \in Apart
  <2>1. host.mounts \in Seq(Mount) /\ SameTotals(host.mounts)
    BY HostsAssumption, Zenon DEF SameTotals
  <2>2. IsUsage(Usage(host.mounts), host.mounts)
    BY <2>1, UsageIs
  <2>3. s.disks = Usage(host.mounts)
    BY Zenon DEF MadeFromHost
  <2>4. QED  BY <2>2, <2>3, MountsAreApart
<1>3. s.cores \in Apart /\ s.net \in Apart
  <2>1. host.cores \in Seq(Name) /\ Distinct(host.cores) /\ host.net \in Seq(Name) /\ Distinct(host.net)
    BY HostsAssumption, Zenon
  <2>2. s.cores = host.cores /\ s.net = host.net
    BY Zenon DEF MadeFromHost
  <2>3. QED  BY <2>1, <2>2 DEF Apart
<1>4. docker \in Apart
  <2>1. \A d \in host.containers : d \in Seq(Name) /\ Distinct(d)
    BY HostsAssumption, Zenon
  <2>2. s.docker = host.containers
    BY Zenon DEF MadeFromHost
  <2>3. \A d \in s.docker : d \in Apart
    BY <2>1, <2>2 DEF Apart
  <2>4. QED  BY <2>3, NoneAreApart, TheIs
<1>5. Each(io, "device") \in Apart
  <2>1. host.stats.lines \in Seq(StatsLine) /\ Distinct([i \in DOMAIN host.stats.lines |-> host.stats.lines[i].name])
    BY HostsAssumption, Zenon
  <2>2. \A x \in IoCounters(host.stats) : Each(x, "device") \in Apart
    BY <2>1, DevicesAreApart
  <2>3. s.disk_io = IoCounters(host.stats)
    BY Zenon DEF MadeFromHost
  <2>4. io = << >> \/ io \in IoCounters(host.stats)
    BY <2>3 DEF The
  <2>5. Each(<< >>, "device") = << >>
    BY DEF Each
  <2> HIDE DEF io
  <2>6. CASE io = << >>
    BY <2>5, <2>6, NoneAreApart
  <2>7. CASE io \in IoCounters(host.stats)
    BY <2>2, <2>7
  <2>8. QED  BY <2>4, <2>6, <2>7
<1>6. /\ sensed.temps \in Seq(Name) /\ sensed.fans \in Seq(Name)
      /\ shows.temps => sensed \in host.sensors
  <2>1. \A t \in host.sensors : t.temps \in Seq(Name) /\ t.fans \in Seq(Name)
    BY HostsAssumption, Zenon
  <2>2. s.sensors = host.sensors
    BY Zenon DEF MadeFromHost
  <2>3. (s.sensors = {} /\ sensed = [temps |-> << >>, fans |-> << >>]) \/ sensed \in host.sensors
    BY <2>2 DEF The
  <2> HIDE DEF sensed
  <2>4. CASE s.sensors = {} /\ sensed = [temps |-> << >>, fans |-> << >>]
    <3>1. sensed.temps = << >> /\ sensed.fans = << >>
      BY <2>4
    <3>2. << >> \in Seq(Name)
      OBVIOUS
    <3>3. QED  BY <2>4, <3>1, <3>2
  <2>5. CASE sensed \in host.sensors
    BY <2>1, <2>5
  <2>6. QED  BY <2>3, <2>4, <2>5
<1>b. shows.io \in BOOLEAN /\ shows.tcp \in BOOLEAN /\ shows.docker \in BOOLEAN /\ shows.temps \in BOOLEAN
      /\ shows.fans \in BOOLEAN /\ TRUE \in BOOLEAN /\ (shows.fans => shows.temps)
  OBVIOUS
<1> HIDE DEF mounts, io, tcp, docker, sensed, shows
<1>n1. IsNamed(f1, "cpu_core")
  BY <1>3, <1>b, ApartIsNamed DEF Named
<1>n2. IsNamed(f2, "disk_total")
  BY <1>2, <1>b, ApartIsNamed
<1>n3. IsNamed(f3, "disk_used")
  BY <1>2, <1>b, ApartIsNamed
<1>n4. IsNamed(f4, "disk_read")
  BY <1>5, <1>b, ApartIsNamed
<1>n5. IsNamed(f5, "disk_write")
  BY <1>5, <1>b, ApartIsNamed
<1>n6. IsNamed(f6, "net_rx")
  BY <1>3, <1>b, ApartIsNamed DEF Named
<1>n7. IsNamed(f7, "net_tx")
  BY <1>3, <1>b, ApartIsNamed DEF Named
<1>n8. IsNamed(f8, "net_rx_total")
  BY <1>3, <1>b, ApartIsNamed DEF Named
<1>n9. IsNamed(f9, "net_tx_total")
  BY <1>3, <1>b, ApartIsNamed DEF Named
<1>n10. IsNamed(f10, "procs_total")
  BY <1>b, GaugeIsNamed
<1>n11. IsNamed(f11, "procs_running")
  BY <1>b, GaugeIsNamed
<1>n12. IsNamed(f12, "procs_sleeping")
  BY <1>b, GaugeIsNamed
<1>n13. IsNamed(f13, "procs_zombie")
  BY <1>b, GaugeIsNamed
<1>n14. IsNamed(f14, "tcp_established")
  BY <1>b, GaugeIsNamed
<1>n15. IsNamed(f15, "tcp_time_wait")
  BY <1>b, GaugeIsNamed
<1>n16. IsNamed(f16, "tcp_listening_ports")
  BY <1>b, GaugeIsNamed
<1>n17. IsNamed(f17, "container_cpu")
  BY <1>4, <1>b, ApartIsNamed DEF Named
<1>n18. IsNamed(f18, "container_mem")
  BY <1>4, <1>b, ApartIsNamed DEF Named
<1>n21. IsNamed(f21, "alerts_firing")
  BY <1>b, GaugeIsNamed
<1>t. /\ ~Distinct(sensed.temps) /\ shows.temps => HostRepeats("temp")
      /\ ~Distinct(sensed.fans) /\ shows.fans => HostRepeats("fan")
  BY <1>6, <1>b, Zenon DEF HostRepeats
<1>n19. IsNamed(f19, "temp")
  BY <1>6, <1>b, <1>t, SensedIsNamed
<1>n20. IsNamed(f20, "fan")
  BY <1>6, <1>b, <1>t, SensedIsNamed
<1>d. f2 = Family("disk_total", TRUE, Each(s.disks, "mount"), Each(s.disks, "total"))
      /\ f3 = Family("disk_used", TRUE, Each(s.disks, "mount"), Each(s.disks, "used"))
  BY DEF mounts
<1> HIDE DEF f1, f2, f3, f4, f5, f6, f7, f8, f9, f10, f11, f12, f13, f14, f15, f16, f17, f18, f19, f20, f21, fs, s
<1>7. Len(fs) = 21
  BY <1>1
<1>8. fs[1] = f1 /\ fs[2] = f2 /\ fs[3] = f3 /\ fs[4] = f4 /\ fs[5] = f5 /\ fs[6] = f6
      /\ fs[7] = f7 /\ fs[8] = f8 /\ fs[9] = f9 /\ fs[10] = f10 /\ fs[11] = f11 /\ fs[12] = f12 /\ fs[13] = f13 /\ fs[14] = f14
      /\ fs[15] = f15 /\ fs[16] = f16 /\ fs[17] = f17 /\ fs[18] = f18 /\ fs[19] = f19 /\ fs[20] = f20
      /\ fs[21] = f21
  BY <1>1
<1>9. fs \in Seq({ fs[b] : b \in 1 .. 21 })
  <2>1. fs \in [1 .. 21 -> { fs[b] : b \in 1 .. 21 }]
    <3>1. fs = [b \in 1 .. 21 |-> fs[b]]
      BY <1>1
    <3>2. QED  BY <3>1
  <2> DEFINE T == { fs[b] : b \in 1 .. 21 }
  <2>2. fs \in [1 .. 21 -> T] /\ 21 \in Nat
    BY <2>1
  <2> HIDE DEF T
  <2>3. \A n \in Nat : fs \in [1 .. n -> T] => fs \in Seq(T)
    OBVIOUS
  <2>4. fs \in Seq(T)
    BY <2>2, <2>3, Zenon
  <2>5. QED  BY <2>4 DEF T
<1>10. FamilyName[1] = "cpu_core" /\ FamilyName[2] = "disk_total" /\ FamilyName[3] = "disk_used"
       /\ FamilyName[4] = "disk_read" /\ FamilyName[5] = "disk_write" /\ FamilyName[6] = "net_rx"
       /\ FamilyName[7] = "net_tx" /\ FamilyName[8] = "net_rx_total" /\ FamilyName[9] = "net_tx_total"
       /\ FamilyName[10] = "procs_total" /\ FamilyName[11] = "procs_running"
       /\ FamilyName[12] = "procs_sleeping" /\ FamilyName[13] = "procs_zombie" /\ FamilyName[14] = "tcp_established"
       /\ FamilyName[15] = "tcp_time_wait" /\ FamilyName[16] = "tcp_listening_ports" /\ FamilyName[17] = "container_cpu"
       /\ FamilyName[18] = "container_mem" /\ FamilyName[19] = "temp" /\ FamilyName[20] = "fan"
       /\ FamilyName[21] = "alerts_firing"
  BY DEF FamilyName
<1>11. IsNamed(fs[1], FamilyName[1]) /\ IsNamed(fs[2], FamilyName[2]) /\ IsNamed(fs[3], FamilyName[3])
       /\ IsNamed(fs[4], FamilyName[4]) /\ IsNamed(fs[5], FamilyName[5]) /\ IsNamed(fs[6], FamilyName[6])
       /\ IsNamed(fs[7], FamilyName[7]) /\ IsNamed(fs[8], FamilyName[8]) /\ IsNamed(fs[9], FamilyName[9])
       /\ IsNamed(fs[10], FamilyName[10]) /\ IsNamed(fs[11], FamilyName[11])
       /\ IsNamed(fs[12], FamilyName[12]) /\ IsNamed(fs[13], FamilyName[13]) /\ IsNamed(fs[14], FamilyName[14])
       /\ IsNamed(fs[15], FamilyName[15]) /\ IsNamed(fs[16], FamilyName[16]) /\ IsNamed(fs[17], FamilyName[17])
       /\ IsNamed(fs[18], FamilyName[18]) /\ IsNamed(fs[19], FamilyName[19]) /\ IsNamed(fs[20], FamilyName[20])
       /\ IsNamed(fs[21], FamilyName[21])
  BY <1>8, <1>10, <1>n1, <1>n2, <1>n3, <1>n4, <1>n5, <1>n6, <1>n7, <1>n8, <1>n9, <1>n10, <1>n11, <1>n12, <1>n13, <1>n14, <1>n15, <1>n16, <1>n17, <1>n18, <1>n19, <1>n20, <1>n21, Zenon
<1>12. ASSUME NEW b \in 1 .. 21
       PROVE  IsNamed(fs[b], FamilyName[b])
  <2>1. b = 1 \/ b = 2 \/ b = 3 \/ b = 4 \/ b = 5 \/ b = 6 \/ b = 7 \/ b = 8 \/ b = 9 \/ b = 10
       \/ b = 11 \/ b = 12 \/ b = 13 \/ b = 14 \/ b = 15 \/ b = 16 \/ b = 17 \/ b = 18 \/ b = 19
       \/ b = 20 \/ b = 21
    OBVIOUS
  <2>2. QED  BY <1>11, <2>1, Zenon
<1>13. AreFamilies(fs)
  BY <1>7, <1>8, <1>9, <1>12, <1>d, Zenon DEF AreFamilies, s
<1>14. QED  BY <1>13 DEF fs, s

LEMMA FamiliesAreNamed ==
    ASSUME NEW fs, AreFamilies(fs)
    PROVE  AreNamed(fs) /\ DOMAIN fs = 1 .. 21
<1>1. /\ Len(fs) = 21 /\ fs \in Seq({ fs[b] : b \in 1 .. 21 })
      /\ \A b \in 1 .. 21 : IsNamed(fs[b], FamilyName[b])
  BY Zenon DEF AreFamilies
<1>2. DOMAIN fs = 1 .. 21
  <2> DEFINE S == { fs[b] : b \in 1 .. 21 }
  <2>1. fs \in Seq(S)
    BY <1>1
  <2> HIDE DEF S
  <2>2. DOMAIN fs = 1 .. Len(fs)
    BY <2>1, LenProperties
  <2>3. QED  BY <1>1, <2>2, Zenon
<1>3. \A b \in 1 .. 21 :
         /\ fs[b].family = FamilyName[b] /\ fs[b].labels \in Seq(Name)
         /\ fs[b].shown /\ ~Distinct(fs[b].labels) => HostRepeats(fs[b].family)
  BY <1>1, Zenon DEF IsNamed
<1>4. \A b, c \in DOMAIN fs : fs[b].family = fs[c].family => b = c
  BY <1>2, <1>3, FamilyNamesDiffer, Zenon
<1>5. QED  BY <1>2, <1>3, <1>4, Zenon DEF AreNamed

(* The samples of family b. *)
HasSamples(fs, b) ==
    /\ \A i \in SamplesOf(FamilyName[b]) : \E k \in 1 .. Len(fs[b].labels) :
          text[i].label = Esc(fs[b].labels[k]) /\ text[i].value = fs[b].values[k]
    /\ \A k \in 1 .. Len(fs[b].labels) : \E i \in SamplesOf(FamilyName[b]) :
          text[i].label = Esc(fs[b].labels[k])

LEMMA SamplesAre ==
    ASSUME NEW fs, AreFamilies(fs), NEW off, IsText(text, fs, off), NEW b \in 1 .. 21, fs[b].shown
    PROVE  HasSamples(fs, b)
<1>1. DOMAIN fs = 1 .. 21 /\ fs[b].labels \in Seq(Name)
      /\ \A c, d \in DOMAIN fs : fs[c].family = fs[d].family => c = d
  BY FamiliesAreNamed, Zenon DEF AreNamed
<1>2. fs[b].family = FamilyName[b]
  BY Zenon DEF AreFamilies, IsNamed
<1> DEFINE n == Len(fs[b].labels)
<1>3. n \in Nat
  BY <1>1, LenProperties
<1>4. ASSUME NEW i \in SamplesOf(FamilyName[b])
      PROVE  \E k \in 1 .. n : text[i].label = Esc(fs[b].labels[k]) /\ text[i].value = fs[b].values[k]
  <2>1. i \in DOMAIN text /\ text[i].type = "sample" /\ text[i].family = FamilyName[b]
    BY Zenon DEF SamplesOf
  <2>2. PICK c, k : IsLine(fs, off, i, c, k)
    BY <2>1, IsSomeLine
  <2>3. c \in DOMAIN fs /\ k \in 0 .. Len(fs[c].labels) /\ text[i] = LineOf(fs[c], k)
    BY <2>2, Zenon DEF IsLine
  <2>4. c = b
    <3>1. fs[c].family = fs[b].family
      BY <1>2, <2>1, <2>3, LinesDiffer
    <3>2. QED  BY <1>1, <2>3, <3>1, Zenon
  <2>5. k # 0
    BY <2>1, <2>3, LinesDiffer, TypesDiffer
  <2>6. k \in 0 .. n
    BY <2>3, <2>4
  <2>7. text[i].label = Esc(fs[b].labels[k]) /\ text[i].value = fs[b].values[k]
    <3>1. LineOf(fs[b], k).label = Esc(fs[b].labels[k]) /\ LineOf(fs[b], k).value = fs[b].values[k]
      BY <2>5, LinesDiffer
    <3>2. text[i] = LineOf(fs[b], k)
      BY <2>3, <2>4
    <3>3. QED  BY <3>1, <3>2, Zenon
  <2> HIDE DEF n
  <2>8. k \in 1 .. n
    BY <1>3, <2>5, <2>6
  <2>9. QED  BY <2>7, <2>8
<1>5. ASSUME NEW k \in 1 .. n
      PROVE  \E i \in SamplesOf(FamilyName[b]) : text[i].label = Esc(fs[b].labels[k])
  <2> DEFINE i == off[b] + 1 + k
  <2>1. k \in 0 .. n /\ k # 0
    <3> HIDE DEF n
    <3>1. QED  BY <1>3
  <2>2. i \in DOMAIN text /\ text[i] = LineOf(fs[b], k)
    BY <1>1, <2>1, Zenon DEF IsText
  <2> HIDE DEF i
  <2>3. text[i].type = "sample" /\ text[i].family = FamilyName[b] /\ text[i].label = Esc(fs[b].labels[k])
    <3>1. /\ LineOf(fs[b], k).type = "sample" /\ LineOf(fs[b], k).family = fs[b].family
          /\ LineOf(fs[b], k).label = Esc(fs[b].labels[k])
      BY <2>1, LinesDiffer
    <3>2. QED  BY <1>2, <2>2, <3>1, Zenon
  <2>4. i \in SamplesOf(FamilyName[b])
    BY <2>2, <2>3, Zenon DEF SamplesOf
  <2>5. QED  BY <2>3, <2>4
<1>6. QED  BY <1>4, <1>5, Zenon DEF HasSamples

LEMMA DisksAreShown ==
    ASSUME host \in Hosts, MadeFromHost, NEW fs, AreFamilies(fs), NEW off, IsText(text, fs, off)
    PROVE  MountsAreShown /\ UsedIsWithinTotal
<1> DEFINE disks == snapshot.disks
           mounts == host.mounts
           names == Each(disks, "mount")
           n == Len(disks)
<1>1. mounts \in Seq(Mount) /\ IsUsage(disks, mounts)
  <2>1. mounts \in Seq(Mount) /\ SameTotals(mounts)
    BY HostsAssumption, Zenon DEF SameTotals
  <2>2. disks = Usage(mounts)
    BY Zenon DEF MadeFromHost
  <2>3. QED  BY <2>1, <2>2, UsageIs
<1>2. DOMAIN mounts = 1 .. Len(mounts)
  BY <1>1, LenProperties
<1>u. /\ \A a \in 1 .. n : disks[a].used <= disks[a].total
      /\ \A a \in 1 .. n : \E i \in 1 .. Len(mounts) :
            Real(mounts, i) /\ mounts[i].total > 0 /\ disks[a].mount = mounts[i].mount
      /\ \A a, b \in 1 .. n : disks[a].mount = disks[b].mount => a = b
      /\ \A i \in 1 .. Len(mounts) :
            Real(mounts, i) /\ mounts[i].total > 0 => \E a \in 1 .. n : disks[a].mount = mounts[i].mount
  BY <1>1, Zenon DEF IsUsage
<1>3. /\ names \in Seq(Name) /\ Len(names) = n
      /\ \A i \in 1 .. n : /\ names[i] = disks[i].mount
                           /\ Each(disks, "total")[i] = disks[i].total
                           /\ Each(disks, "used")[i] = disks[i].used
  BY <1>1, MountsAreApart, Zenon DEF Apart
<1>4. \A i \in 1 .. n : disks[i].mount \in Name
  <2>1. \A i \in 1 .. n : names[i] \in Name
    <3> HIDE DEF names, n, Name
    <3>1. QED  BY <1>3, ElementOfSeq
  <2>2. QED  BY <1>3, <2>1, Zenon
<1>5. FamilyName[2] = "disk_total" /\ FamilyName[3] = "disk_used" /\ 2 \in 1 .. 21 /\ 3 \in 1 .. 21
  BY DEF FamilyName
<1>6. /\ fs[2].shown /\ fs[2].labels = names /\ fs[2].values = Each(disks, "total")
      /\ fs[3].shown /\ fs[3].labels = names /\ fs[3].values = Each(disks, "used")
  <2>1. fs[2] = Family("disk_total", TRUE, names, Each(disks, "total"))
        /\ fs[3] = Family("disk_used", TRUE, names, Each(disks, "used"))
    BY Zenon DEF AreFamilies
  <2> HIDE DEF names, disks
  <2>2. QED  BY <2>1 DEF Family
<1> HIDE DEF disks, mounts, names, n
<1>s. HasSamples(fs, 2) /\ HasSamples(fs, 3)
  BY <1>5, <1>6, SamplesAre
<1>7. /\ \A i \in SamplesOf("disk_total") : \E k \in 1 .. n :
            text[i].label = Esc(disks[k].mount) /\ text[i].value = disks[k].total
      /\ \A i \in SamplesOf("disk_used") : \E k \in 1 .. n :
            text[i].label = Esc(disks[k].mount) /\ text[i].value = disks[k].used
      /\ \A k \in 1 .. n : \E i \in SamplesOf("disk_used") : text[i].label = Esc(disks[k].mount)
  <2>1. \A i \in SamplesOf("disk_total") : \E k \in 1 .. n :
            text[i].label = Esc(disks[k].mount) /\ text[i].value = disks[k].total
    <3>1. \A i \in SamplesOf(FamilyName[2]) : \E k \in 1 .. Len(fs[2].labels) :
              text[i].label = Esc(fs[2].labels[k]) /\ text[i].value = fs[2].values[k]
      BY <1>s, Zenon DEF HasSamples
    <3>2. SUFFICES ASSUME NEW i \in SamplesOf(FamilyName[2])
                   PROVE  \E k \in 1 .. n : text[i].label = Esc(disks[k].mount) /\ text[i].value = disks[k].total
      BY <1>5, Zenon
    <3>3. PICK k \in 1 .. Len(fs[2].labels) : text[i].label = Esc(fs[2].labels[k]) /\ text[i].value = fs[2].values[k]
      BY <3>1, Zenon
    <3>4. k \in 1 .. n /\ fs[2].labels[k] = disks[k].mount /\ fs[2].values[k] = disks[k].total
      BY <1>3, <1>6, Zenon
    <3>5. QED  BY <3>3, <3>4, Zenon
  <2>2. \A i \in SamplesOf("disk_used") : \E k \in 1 .. n :
            text[i].label = Esc(disks[k].mount) /\ text[i].value = disks[k].used
    <3>1. \A i \in SamplesOf(FamilyName[3]) : \E k \in 1 .. Len(fs[3].labels) :
              text[i].label = Esc(fs[3].labels[k]) /\ text[i].value = fs[3].values[k]
      BY <1>s, Zenon DEF HasSamples
    <3>2. SUFFICES ASSUME NEW i \in SamplesOf(FamilyName[3])
                   PROVE  \E k \in 1 .. n : text[i].label = Esc(disks[k].mount) /\ text[i].value = disks[k].used
      BY <1>5, Zenon
    <3>3. PICK k \in 1 .. Len(fs[3].labels) : text[i].label = Esc(fs[3].labels[k]) /\ text[i].value = fs[3].values[k]
      BY <3>1, Zenon
    <3>4. k \in 1 .. n /\ fs[3].labels[k] = disks[k].mount /\ fs[3].values[k] = disks[k].used
      BY <1>3, <1>6, Zenon
    <3>5. QED  BY <3>3, <3>4, Zenon
  <2>3. ASSUME NEW k \in 1 .. n
        PROVE  \E i \in SamplesOf("disk_used") : text[i].label = Esc(disks[k].mount)
    <3>1. \A l \in 1 .. Len(fs[3].labels) : \E i \in SamplesOf(FamilyName[3]) :
              text[i].label = Esc(fs[3].labels[l])
      BY <1>s, Zenon DEF HasSamples
    <3>2. k \in 1 .. Len(fs[3].labels) /\ fs[3].labels[k] = disks[k].mount
      BY <1>3, <1>6, Zenon
    <3>3. QED  BY <1>5, <3>1, <3>2, Zenon
  <2>4. QED  BY <2>1, <2>2, <2>3, Zenon
<1>8. UsedIsWithinTotal
  <2> SUFFICES ASSUME NEW i \in SamplesOf("disk_used"), NEW j \in SamplesOf("disk_total"),
                      text[i].label = text[j].label
               PROVE  text[i].value <= text[j].value
    BY Zenon DEF UsedIsWithinTotal
  <2>1. PICK k \in 1 .. n : text[i].label = Esc(disks[k].mount) /\ text[i].value = disks[k].used
    BY <1>7
  <2>2. PICK l \in 1 .. n : text[j].label = Esc(disks[l].mount) /\ text[j].value = disks[l].total
    BY <1>7
  <2>3. disks[k].mount = disks[l].mount
    <3>1. Esc(disks[k].mount) = Esc(disks[l].mount)
      BY <2>1, <2>2, Zenon
    <3>2. QED  BY <1>4, <3>1, EscapedDiffer
  <2>4. k = l
    BY <1>u, <2>3, Zenon
  <2>5. QED  BY <1>u, <2>1, <2>2, <2>4, Zenon
<1>9. MountsAreShown
  <2> DEFINE A == { ReadLabel(text[i].label).out : i \in SamplesOf("disk_used") }
             R == { j \in DOMAIN mounts : mounts[j].fs \notin PSEUDO_FS /\ mounts[j].total > 0 }
             B == { mounts[i].mount : i \in R }
  <2>1. \A j : j \in R <=> j \in 1 .. Len(mounts) /\ Real(mounts, j) /\ mounts[j].total > 0
    BY <1>2, Zenon DEF Real
  <2>2. ASSUME NEW x \in A
        PROVE  x \in B
    <3>1. PICK i \in SamplesOf("disk_used") : x = ReadLabel(text[i].label).out
      OBVIOUS
    <3>2. PICK k \in 1 .. n : text[i].label = Esc(disks[k].mount)
      BY <1>7
    <3>3. x = disks[k].mount
      BY <1>4, <3>1, <3>2, NameIsRead
    <3>4. PICK j \in 1 .. Len(mounts) : Real(mounts, j) /\ mounts[j].total > 0 /\ disks[k].mount = mounts[j].mount
      BY <1>u, Zenon
    <3>5. j \in R
      BY <2>1, <3>4, Zenon
    <3> HIDE DEF R
    <3>6. QED  BY <3>3, <3>4, <3>5
  <2>3. ASSUME NEW x \in B
        PROVE  x \in A
    <3>1. PICK j \in R : x = mounts[j].mount
      OBVIOUS
    <3>2. PICK k \in 1 .. n : disks[k].mount = mounts[j].mount
      BY <1>u, <2>1, <3>1, Zenon
    <3>3. PICK i \in SamplesOf("disk_used") : text[i].label = Esc(disks[k].mount)
      BY <1>7, Zenon
    <3>4. ReadLabel(text[i].label).out = disks[k].mount
      BY <1>4, <3>3, NameIsRead
    <3>5. QED  BY <3>1, <3>2, <3>3, <3>4
  <2> HIDE DEF A, B
  <2>4. A = B
    BY <2>2, <2>3
  <2>5. QED  BY <2>4, Zenon DEF A, B, R, MountsAreShown, mounts
<1>10. QED  BY <1>8, <1>9

LEMMA TextReads ==
    ASSUME host \in Hosts, MadeFromHost, text = Render(snapshot)
    PROVE  LabelsAreRead /\ MountsAreShown /\ UsedIsWithinTotal /\ NamesAreUnique /\ FamiliesAreTogether
<1> DEFINE fs == Families(snapshot)
           F == { fs[b] : b \in 1 .. 21 }
<1>1. AreFamilies(fs)
  BY FamiliesAre
<1>2. /\ fs \in Seq(F) /\ Len(fs) = 21 /\ 21 \in Nat
      /\ \A b \in 1 .. 21 : fs[b].labels \in Seq(Name) /\ fs[b].shown \in BOOLEAN
  BY <1>1, Zenon DEF AreFamilies, IsNamed
<1>3. \E off : IsText(Render(snapshot), fs, off)
  <2> HIDE DEF F
  <2>1. QED  BY <1>2, RenderIs
<1> HIDE DEF fs
<1>4. PICK off : IsText(text, fs, off)
  BY <1>3
<1>5. AreNamed(fs)
  BY <1>1, FamiliesAreNamed
<1>6. QED  BY <1>1, <1>4, <1>5, TextIsNamed, DisksAreShown

-----------------------------------------------------------------------------
(* The invariant *)

SnapshotInv ==
    /\ host \in Hosts /\ cap \in Caps
    /\ snapshot # << >> => MadeFromHost /\ text = Render(snapshot)

LEMMA SnapshotInvIsEnough ==
    ASSUME SnapshotInv
    PROVE  ScrapeReadsHost /\ ListsAreSelections
<1>1. ASSUME snapshot # << >>
      PROVE  host \in Hosts /\ cap \in Caps /\ MadeFromHost /\ text = Render(snapshot)
  BY <1>1, Zenon DEF SnapshotInv
<1>2. ScrapeReadsHost
  BY <1>1, TextReads, Zenon DEF ScrapeReadsHost
<1>3. ListsAreSelections
  BY <1>1, TakenAreSelections, Zenon DEF ListsAreSelections, MadeFromHost
<1>4. QED  BY <1>2, <1>3

LEMMA SnapshotInitHolds == SnapshotInit => SnapshotInv
BY DEF SnapshotInit, SnapshotInv

LEMMA SnapshotInvStays == SnapshotInv /\ [Tick]_snapshotVars => SnapshotInv'
<1> SUFFICES ASSUME SnapshotInv, [Tick]_snapshotVars
             PROVE  SnapshotInv'
  OBVIOUS
<1>0. host \in Hosts /\ cap \in Caps
  BY DEF SnapshotInv
<1>1. CASE Tick
  <2>1. PICK order \in ByShare(host.procs), listening \in Listening(host.tcp) :
            snapshot' = [disks |-> Usage(host.mounts), disk_io |-> IoCounters(host.stats),
                         processes |-> Processes(host.procs, order), connections |-> Connections(host.tcp, listening),
                         cores |-> host.cores, net |-> host.net, docker |-> host.containers,
                         sensors |-> host.sensors, alerts |-> host.alerts]
    BY <1>1, Zenon DEF Tick
  <2>2. host' = host /\ cap' = cap /\ text' = Render(snapshot')
    BY <1>1, Zenon DEF Tick
  <2>3. /\ snapshot'.disks = Usage(host.mounts) /\ snapshot'.disk_io = IoCounters(host.stats)
        /\ snapshot'.cores = host.cores /\ snapshot'.net = host.net
        /\ snapshot'.docker = host.containers /\ snapshot'.sensors = host.sensors
    BY <2>1
  <2>4. TakenFrom(snapshot.processes, snapshot.connections)'
    BY <1>1, TickTakes
  <2>5. MadeFromHost'
    BY <2>2, <2>3, <2>4 DEF MadeFromHost
  <2>6. (text = Render(snapshot))'
    BY <2>2
  <2>7. QED  BY <1>0, <2>2, <2>5, <2>6 DEF SnapshotInv
<1>2. CASE UNCHANGED snapshotVars
  <2>1. host' = host /\ cap' = cap /\ snapshot' = snapshot /\ text' = text
    BY <1>2 DEF snapshotVars
  <2>2. (snapshot # << >> => MadeFromHost /\ text = Render(snapshot))'
    <3>1. snapshot # << >> => MadeFromHost /\ text = Render(snapshot)
      BY DEF SnapshotInv
    <3>2. MadeFromHost' <=> MadeFromHost
      BY <2>1 DEF MadeFromHost, TakenFrom, Processes
    <3>3. QED  BY <2>1, <3>1, <3>2
  <2>3. QED  BY <1>0, <2>1, <2>2 DEF SnapshotInv
<1>3. QED  BY <1>1, <1>2

(* prom::render, disk::usage: whatever the host's names are and however it
   lists them, the text is read back as what the host has. *)
THEOREM ScrapesRead == SnapshotSpec => []ScrapeReadsHost
<1>1. SnapshotInv => ScrapeReadsHost
  BY SnapshotInvIsEnough
<1>2. QED  BY <1>1, SnapshotInitHolds, SnapshotInvStays, PTL DEF SnapshotSpec

(* connections::read, process::list: whatever is cut off or merged. *)
THEOREM ListsSelect == SnapshotSpec => []ListsAreSelections
<1>1. SnapshotInv => ListsAreSelections
  BY SnapshotInvIsEnough
<1>2. QED  BY <1>1, SnapshotInitHolds, SnapshotInvStays, PTL DEF SnapshotSpec
===============================================================================
