-------------------------------- MODULE MCRates --------------------------------
(***************************************************************************)
(* A behaviour is either of Rates, with an interface and a disk, two bytes *)
(* each and time for a warm-up, a sleep and a stall anywhere, or of        *)
(* Snapshot, where the hosts differ from one host in one respect each.     *)
(***************************************************************************)
EXTENDS Rates, Snapshot

(* Names with every character that has to be escaped, alone and next to
   each other. *)
MCNames == { <<"n">>, <<"\\", "n">>, <<"newline">>, <<"quote", "\\">>, <<"\\", "\\", "quote">> }

MCMount == [mount: MCNames, fs: {"ext4", "tmpfs"}, total: {0, 2}, available: {1, 3}]

(* One file system has one size, however often it is listed. *)
MCMounts == { m \in UNION { [1 .. k -> MCMount] : k \in 0 .. 2 } :
                \A i, j \in DOMAIN m : m[i].mount = m[j].mount => m[i].total = m[j].total /\ m[i].available = m[j].available }

MCLine == [state: {"0A"}, port: {-1, 5, 7, 9}] \cup [state: {"01", "06", "short"}, port: {5}]

MCFile(lines) == [readable |-> TRUE, lines |-> lines]
MCUnreadable == [readable |-> FALSE, lines |-> << >>]

MCTcpFile == {MCUnreadable} \cup { MCFile(lines) : lines \in UNION { [1 .. k -> MCLine] : k \in 0 .. 3 } }

MCProcs == { { [pid |-> pid, cpu |-> cpu[pid], state |-> state[pid]] : pid \in 1 .. k } :
               k \in 0 .. 3, cpu \in [1 .. 3 -> 0 .. 2],
               state \in { <<"running", "idle", "zombie">>, <<"sleeping", "stopped", "running">> } }

MCHost ==
    [mounts |-> << >>, stats |-> MCFile(<< [fields |-> 14, name |-> <<"d">>, whole |-> TRUE, numbers |-> TRUE, rd |-> 1, wr |-> 2],
                                    [fields |-> 14, name |-> <<"d", "1">>, whole |-> FALSE, numbers |-> TRUE, rd |-> 1, wr |-> 2],
                                    [fields |-> 3, name |-> <<"e">>, whole |-> TRUE, numbers |-> TRUE, rd |-> 0, wr |-> 0],
                                    [fields |-> 14, name |-> <<"f">>, whole |-> TRUE, numbers |-> FALSE, rd |-> 0, wr |-> 0] >>),
     tcp |-> << MCFile(<< >>), MCFile(<< >>) >>, procs |-> {}, cores |-> << <<"0">>, <<"1">> >>, net |-> << <<"e">> >>,
     containers |-> { << <<"n">>, <<"\\", "n">> >> }, sensors |-> { [temps |-> << <<"quote">> >>, fans |-> << >>] },
     alerts |-> 1]

MCHosts ==
    { [MCHost EXCEPT !.mounts = m] : m \in MCMounts }
    \cup { [MCHost EXCEPT !.tcp = <<f, g>>] : f \in MCTcpFile, g \in { MCUnreadable, MCFile(<< >>), MCFile(<<[state |-> "0A", port |-> 7]>>) } }
    \cup { [MCHost EXCEPT !.procs = p] : p \in MCProcs }
    \cup { [MCHost EXCEPT !.containers = {}, !.stats = MCUnreadable, !.sensors = s] :
              s \in { {}, {[temps |-> << <<"n">>, <<"n">> >>, fans |-> << <<"n">> >>]} } }

NoHost == << >>

MCInit ==
    /\ Init
    /\ \/ SnapshotInit
       \/ host = NoHost /\ cap = 0 /\ snapshot = << >> /\ text = << >>

MCNext ==
    \/ host = NoHost /\ Next /\ UNCHANGED snapshotVars
    \/ host # NoHost /\ Tick /\ UNCHANGED vars

MCSpec == MCInit /\ [][MCNext]_<<vars, snapshotVars>>
===============================================================================
