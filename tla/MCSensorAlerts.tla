---------------------------- MODULE MCSensorAlerts ----------------------------
(***************************************************************************)
(* One rule per way measure looks at a snapshot: a percentage, the disks   *)
(* in scope of one mount, the hottest of all sensors, and the sensors with *)
(* a label.  The host has three sensors, of which two fit into a snapshot. *)
(* CounterMod is just above HOLD_TICKS, so that a condition held for a few *)
(* ticks wraps its counter as 2^32 ticks would.                            *)
(***************************************************************************)
EXTENDS SensorAlerts

MCRules == 1 .. 4

MCAlertSpec ==
    << [metric |-> "mem",  target |-> None,    threshold |-> 850],
       [metric |-> "disk", target |-> "/data", threshold |-> 850],
       [metric |-> "temp", target |-> None,    threshold |-> 800],
       [metric |-> "temp", target |-> "nvme",  threshold |-> 600] >>

Disks(root, data) ==
    { [mount |-> "/", used |-> root, total |-> 1000],
      [mount |-> "/data", used |-> data, total |-> 1000] }

Snap(used, disks) ==
    [ cpu |-> 0, swap |-> [used |-> 0, total |-> 0],
      mem |-> [used |-> used, total |-> 10000],
      disks |-> disks, sensors |-> None ]

Reading(core0, core1, nvme) ==
    { [label |-> {"core", "core 0"}, temp_c |-> core0],
      [label |-> {"core", "core 1"}, temp_c |-> core1],
      [label |-> {"nvme"},           temp_c |-> nvme] }

(* 85.04% and 80.04 degrees round down to the threshold, 85.05% and 80.05 up
   above it.  The mount of rule 2 is unmounted in the third one, and of size
   zero in the fourth.  A sensor that reads zero or less is not counted as
   live; two sensors are equal; the disk's is pushed out by two hotter ones. *)
MCHostReadings ==
    { [ temps |-> Reading(8004, 4000, 6005), rest |-> Snap(8504, Disks(950, 100)) ],
      [ temps |-> Reading(8005, 4000, 100), rest |-> Snap(8505, Disks(100, 851)) ],
      [ temps |-> Reading(9000, 9000, 7000),
        rest |-> Snap(9900, { [mount |-> "/", used |-> 990, total |-> 1000] }) ],
      [ temps |-> Reading(-1000, 0, 0),
        rest |-> Snap(1000, { [mount |-> "/data", used |-> 0, total |-> 0] }) ] }
===============================================================================
