--------------------------------- MODULE Rates ---------------------------------
(***************************************************************************)
(* src/sampler.rs, Prev and rate: bytes per second out of the cumulative   *)
(* counters of network interfaces and block devices, which come and go and *)
(* whose counters restart with them.                                       *)
(*                                                                         *)
(* A tick reads the interfaces, refreshes the disks and the sensors, which *)
(* a mount may hold up, reads the clock twice and then the disks' counters *)
(* and goes on, perhaps to ask many containers: time passes between any    *)
(* two of these, as in the warm-up and the sleep.  A rate is kept as the   *)
(* quotient it is computed from.  One counter stands for the two of a      *)
(* device.                                                                 *)
(***************************************************************************)
EXTENDS Integers

CONSTANTS
    Interfaces, Disks,
    MaxBytes,       \* bound: bytes a device moves
    MaxTime         \* bound

ASSUME RatesAssumption ==
    Interfaces \cap Disks = {} /\ MaxBytes \in Nat /\ MaxTime \in Nat

Devices == Interfaces \cup Disks

VARIABLES
    now,
    present,        \* devices the host has
    counter,        \* their counters, since they appeared
    moved,          \* history: the bytes of each since ever
    pc,             \* what comes next: "warm_up", "first", "sleep", "elapsed", "date", "disks" or "collect"
    networks,       \* Networks: the readings of its last refresh
    prev,           \* Prev: [at, net, disk], and as history what its readings took
    elapsed, sampled_at, disk_counters,         \* of the tick under way
    began, took,    \* history: when its first reading was, and how long until the last
    reads,          \* history: ticks that have read, 2 for more
    rates           \* what the last reading showed, by device

hostVars == <<present, counter, moved>>
localVars == <<elapsed, sampled_at, disk_counters, began, took>>
runVars == <<pc, networks, prev, localVars, reads, rates>>
vars == <<now, hostVars, runVars>>

(* A reading: the counter, and as history what it stood for and when. *)
ReadingsOf(devices) ==
    [ d \in devices \cap present |-> [bytes |-> counter[d], moved |-> moved[d], at |-> now] ]

(* Mutant: the distance of two counters. *)
AbsDiff(cur, old) == IF cur > old THEN cur - old ELSE old - cur

(* saturating_sub *)
Delta(cur, old) == IF cur > old THEN cur - old ELSE 0

NoRate == [num |-> 0, den |-> 1, of |-> 0, over |-> 1, slack |-> 0]

(* A device that was not there a tick ago is compared with itself. *)
Rate(cur, old, secs, slack) ==
    IF secs = 0 THEN NoRate
    ELSE [ num |-> Delta(cur.bytes, old.bytes), den |-> secs,
           of |-> cur.moved - old.moved, over |-> cur.at - old.at, slack |-> slack ]

RatesOf(cur, old, secs, slack) ==
    [ d \in DOMAIN cur |-> IF d \in DOMAIN old THEN Rate(cur[d], old[d], secs, slack) ELSE NoRate ]

Merged(f, g) == [ d \in DOMAIN f \cup DOMAIN g |-> IF d \in DOMAIN f THEN f[d] ELSE g[d] ]

NoReadings == [ d \in {} |-> 0 ]

(* io_counters: a file that cannot be read counts as no devices here, and in
   the maps of the next tick. *)
DiskReadings == { ReadingsOf(Disks), NoReadings }

-----------------------------------------------------------------------------
(* The host *)

Move(d) ==
    /\ d \in present /\ moved[d] < MaxBytes
    /\ counter' = [counter EXCEPT ![d] = @ + 1]
    /\ moved' = [moved EXCEPT ![d] = @ + 1]
    /\ UNCHANGED <<now, present, runVars>>

Disappear(d) ==
    /\ present' = present \ {d}
    /\ counter' = [counter EXCEPT ![d] = 0]
    /\ UNCHANGED <<now, moved, runVars>>

Appear(d) ==
    /\ d \notin present
    /\ present' = present \cup {d}
    /\ UNCHANGED <<now, counter, moved, runVars>>

TimePasses ==
    /\ now < MaxTime
    /\ now' = now + 1
    /\ UNCHANGED <<hostVars, runVars>>

-----------------------------------------------------------------------------
(* run *)

(* Between two ticks there is none of what a tick works with; what it has
   used for the last time is forgotten earlier. *)
NoTick == elapsed = 0 /\ sampled_at = 0 /\ disk_counters = NoReadings /\ began = 0 /\ took = 0

Init ==
    /\ now = 0
    /\ present \in SUBSET Devices
    /\ counter = [d \in Devices |-> 0] /\ moved = [d \in Devices |-> 0]
    /\ pc = "warm_up"
    /\ networks = ReadingsOf(Interfaces)
    /\ prev = [at |-> 0, net |-> NoReadings, disk |-> NoReadings, took |-> 0]
    /\ NoTick /\ reads = 0 /\ rates = [ d \in {} |-> NoRate ]

(* The first Prev: the interfaces as they were listed before the warm-up. *)
WarmedUp ==
    /\ pc = "warm_up" /\ pc' = "first"
    /\ prev' = [at |-> now, net |-> networks, disk |-> NoReadings, took |-> 0]
    /\ UNCHANGED <<now, hostVars, networks, localVars, reads, rates>>

FirstDisks ==
    /\ pc = "first" /\ pc' = "sleep"
    /\ \E disk \in DiskReadings :
          prev' = [at |-> prev.at, net |-> prev.net, disk |-> disk, took |-> now - prev.at]
    /\ UNCHANGED <<now, hostVars, networks, localVars, reads, rates>>

(* The tick begins: networks.refresh. *)
RefreshNetworks ==
    /\ pc = "sleep" /\ pc' = "elapsed"
    /\ networks' = ReadingsOf(Interfaces)
    /\ began' = now /\ rates' = [ d \in {} |-> NoRate ]
    /\ UNCHANGED <<now, hostVars, prev, elapsed, sampled_at, disk_counters, took, reads>>

(* After disks.refresh and components.refresh. *)
TakeElapsed ==
    /\ pc = "elapsed" /\ pc' = "date"
    /\ elapsed' = now - prev.at
    /\ UNCHANGED <<now, hostVars, networks, prev, sampled_at, disk_counters, began, took, reads, rates>>

TakeSampledAt ==
    /\ pc = "date" /\ pc' = "disks"
    /\ sampled_at' = now
    /\ UNCHANGED <<now, hostVars, networks, prev, elapsed, disk_counters, began, took, reads, rates>>

Larger(a, b) == IF a < b THEN b ELSE a

ReadDisks ==
    /\ pc = "disks" /\ pc' = "collect"
    /\ took' = now - began /\ began' = 0 /\ elapsed' = 0
    /\ reads' = IF reads = 2 THEN 2 ELSE reads + 1
    /\ \E disk \in DiskReadings :
          /\ disk_counters' = disk
          /\ rates' = Merged(RatesOf(networks, prev.net, elapsed, Larger(prev.took, now - began)),
                             RatesOf(disk, prev.disk, elapsed, Larger(prev.took, now - began)))
    /\ UNCHANGED <<now, hostVars, networks, prev, sampled_at>>

(* Mutants: dated at the end of the tick; the maps grow. *)
NextPrevLate == [at |-> now, net |-> networks, disk |-> disk_counters, took |-> took]
NextPrevGrows ==
    [at |-> sampled_at, net |-> Merged(networks, prev.net),
     disk |-> Merged(disk_counters, prev.disk), took |-> took]

NextPrev == [at |-> sampled_at, net |-> networks, disk |-> disk_counters, took |-> took]

EndTick ==
    /\ pc = "collect" /\ pc' = "sleep"
    /\ prev' = NextPrev
    /\ sampled_at' = 0 /\ disk_counters' = NoReadings /\ took' = 0
    /\ UNCHANGED <<now, hostVars, networks, elapsed, began, reads, rates>>

Next ==
    \/ \E d \in Devices : Move(d)
    \/ \E d \in present : Disappear(d)
    \/ \E d \in Devices : Appear(d)
    \/ TimePasses
    \/ WarmedUp \/ FirstDisks
    \/ RefreshNetworks \/ TakeElapsed \/ TakeSampledAt \/ ReadDisks \/ EndTick

Spec == Init /\ [][Next]_vars

-----------------------------------------------------------------------------
(* Properties *)

(* "churn can't grow these maps": between two ticks Prev has the devices of
   the last reading and no others. *)
TypeOK ==
    /\ now \in 0 .. MaxTime /\ present \subseteq Devices
    /\ pc \in {"warm_up", "first", "sleep", "elapsed", "date", "disks", "collect"}
    /\ prev.at \in 0 .. now /\ sampled_at \in 0 .. now
    /\ pc = "sleep" /\ DOMAIN rates # {} =>
          DOMAIN prev.net \cup DOMAIN prev.disk = DOMAIN rates

(* No device is shown with bytes it has not moved since it was last read,
   whether it was replaced by one of the same name, its counter restarted,
   or a reading failed. *)
RateIsEarned ==
    \A d \in DOMAIN rates : 0 <= rates[d].num /\ rates[d].num <= rates[d].of

(* A rate is divided by the time its bytes were counted over, however long
   the tick before has gone on after its readings, give or take no more than
   what one of the two ticks has spent between its first reading and its last;
   for interfaces, from the second tick on. *)
RateCoversItsWindow ==
    \A d \in DOMAIN rates :
        d \in Disks \/ reads = 2 =>
            /\ rates[d].den <= rates[d].over + rates[d].slack
            /\ rates[d].over <= rates[d].den + rates[d].slack
===============================================================================
