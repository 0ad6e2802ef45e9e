------------------------------- MODULE Snapshot --------------------------------
(***************************************************************************)
(* What one tick makes of what the host says: the readings of              *)
(* src/collectors (disk.rs, process.rs, connections.rs), and the text that *)
(* src/prom.rs renders of the snapshot for a scraper.                      *)
(*                                                                         *)
(* A name is a sequence of characters, of which only those that the text   *)
(* format gives a meaning are told apart.  A line of a file is a record of *)
(* the fields that are read.  A panel is a set, empty if there is none.     *)
(***************************************************************************)
EXTENDS Integers, Sequences, FiniteSets

CONSTANTS
    Hosts,          \* what the operating system may say
    Caps,           \* config.top_n, 0 for all
    MAX_PORTS,      \* 50
    Sector          \* 512

Name == Seq(STRING)

Mount == [mount: Name, fs: STRING, total: Nat, available: Nat]

StatsLine == [fields: Nat, name: Name, whole: BOOLEAN, numbers: BOOLEAN, rd: Nat, wr: Nat]

TcpLine == [state: STRING, port: Int]

ProcStates == {"running", "sleeping", "idle", "zombie", "stopped", "unknown"}

Distinct(names) == \A i, j \in DOMAIN names : names[i] = names[j] => i = j

(* A mount point that is listed twice is asked for its size twice and says
   the same.  The kernel and the engine name what they list apart; for the
   labels of sensors nothing says so. *)
ASSUME HostsAssumption ==
    /\ Caps \subseteq Nat /\ MAX_PORTS \in Nat /\ Sector \in Nat
    /\ \A h \in Hosts :
          /\ h.mounts \in Seq(Mount)
          /\ \A i, j \in DOMAIN h.mounts : h.mounts[i].mount = h.mounts[j].mount => h.mounts[i].total = h.mounts[j].total
          /\ h.stats.lines \in Seq(StatsLine)
          /\ Distinct([i \in DOMAIN h.stats.lines |-> h.stats.lines[i].name])
          /\ \A f \in 1 .. 2 : h.tcp[f].readable \in BOOLEAN /\ h.tcp[f].lines \in Seq(TcpLine)
          /\ IsFiniteSet(h.procs) /\ h.procs \subseteq [pid: Nat, cpu: Int, state: ProcStates]
          /\ h.cores \in Seq(Name) /\ Distinct(h.cores)
          /\ h.net \in Seq(Name) /\ Distinct(h.net)
          /\ \A d \in h.containers : d \in Seq(Name) /\ Distinct(d)
          /\ \A t \in h.sensors : t.temps \in Seq(Name) /\ t.fans \in Seq(Name)

VARIABLES
    host,           \* [mounts, stats, tcp, procs, cores, net, containers, sensors, alerts]
    cap,
    snapshot,       \* << >> before the tick
    text            \* Shared.prom

snapshotVars == <<host, cap, snapshot, text>>

PSEUDO_FS == {"tmpfs", "devtmpfs", "overlay", "squashfs", "proc", "sysfs", "devfs", "autofs", "ramfs"}

(* What s has at the positions in K, in its order. *)
Picked(s, K) == [n \in 1 .. Cardinality(K) |-> s[CHOOSE i \in K : Cardinality({ j \in K : j <= i }) = n]]

-----------------------------------------------------------------------------
(* Collectors *)

(* The name of a file system is one in lower case, as disk.rs makes it. *)
OncePerMount(mounts) ==
    LET real == { i \in DOMAIN mounts : mounts[i].fs \notin PSEUDO_FS }
    IN  Picked(mounts, { i \in real : \A j \in real : j < i => mounts[j].mount # mounts[i].mount })

(* disk::usage; what is available may be more than the total, and used is
   then 0. *)
Usage(mounts) ==
    LET shown == OncePerMount(mounts)
        kept  == Picked(shown, { i \in DOMAIN shown : shown[i].total > 0 })
    IN  [i \in DOMAIN kept |->
            [mount |-> kept[i].mount, total |-> kept[i].total,
             used |-> IF kept[i].available > kept[i].total THEN 0 ELSE kept[i].total - kept[i].available]]

(* parse_diskstats with is_whole_device: a line that is short or has no
   numbers is skipped. *)
IoCounters(file) ==
    LET lines == file.lines
        read  == Picked(lines, { i \in DOMAIN lines : lines[i].fields >= 10 /\ lines[i].whole /\ lines[i].numbers })
    IN  IF ~file.readable THEN {}
        ELSE {[i \in DOMAIN read |-> [device |-> read[i].name, rd |-> read[i].rd * Sector, wr |-> read[i].wr * Sector]]}

LinesOf(file) == IF file.readable THEN file.lines ELSE << >>

(* parse_proc_net_tcp over both files, of which one may be missing. *)
TcpLines(tcp) == LinesOf(tcp[1]) \o LinesOf(tcp[2])

CountState(tcp, state) == Cardinality({ i \in DOMAIN TcpLines(tcp) : TcpLines(tcp)[i].state = state })

PortsOf(tcp) ==
    LET lines == TcpLines(tcp)
        heard == Picked(lines, { i \in DOMAIN lines : lines[i].state = "0A" /\ lines[i].port # -1 })
    IN  [i \in DOMAIN heard |-> heard[i].port]

(* What a sort may return. *)
Sorts(ports) ==
    { [i \in DOMAIN ports |-> ports[p[i]]] :
         p \in { p \in [DOMAIN ports -> DOMAIN ports] :
                   /\ \A j \in DOMAIN ports : \E i \in DOMAIN ports : p[i] = j
                   /\ \A i, j \in DOMAIN ports : i < j => ports[p[i]] <= ports[p[j]] } }

(* Neighbours that are equal become one. *)
Dedup(ports) == Picked(ports, { i \in DOMAIN ports : i = 1 \/ ports[i] # ports[i - 1] })

Smaller(m, n) == IF m <= n THEN m ELSE n

Truncated(s, most) == SubSeq(s, 1, Smaller(Len(s), most))

(* Mutant: sorted last. *)
ListeningSortedLast(tcp) == Sorts(Truncated(Dedup(PortsOf(tcp)), MAX_PORTS))

Listening(tcp) == { Truncated(Dedup(ports), MAX_PORTS) : ports \in Sorts(PortsOf(tcp)) }

Connections(tcp, listening) ==
    IF ~tcp[1].readable /\ ~tcp[2].readable THEN {}
    ELSE {[established |-> CountState(tcp, "01"), time_wait |-> CountState(tcp, "06"), listening |-> listening]}

(* The sort does not say in which order processes with the same share come. *)
ByShare(procs) ==
    { s \in [1 .. Cardinality(procs) -> procs] :
        /\ \A p \in procs : \E i \in DOMAIN s : s[i] = p
        /\ \A i, j \in DOMAIN s : i < j => s[i].cpu >= s[j].cpu }

InState(procs, states) == Cardinality({ p \in procs : p.state \in states })

(* process::list *)
Processes(procs, order) ==
    [total |-> Cardinality(procs), running |-> InState(procs, {"running"}),
     sleeping |-> InState(procs, {"sleeping", "idle"}), zombie |-> InState(procs, {"zombie"}),
     list |-> IF cap > 0 THEN Truncated(order, cap) ELSE order]

-----------------------------------------------------------------------------
(* prom::render *)

Replaced(name, c, by) ==
    LET r[i \in 0 .. Len(name)] ==
          IF i = 0 THEN << >> ELSE r[i - 1] \o (IF name[i] = c THEN by ELSE <<name[i]>>)
    IN  r[Len(name)]

(* Mutant: the backslashes that escape are escaped again. *)
EscBackslashLast(name) ==
    Replaced(Replaced(Replaced(name, "quote", <<"\\", "quote">>), "newline", <<"\\", "n">>), "\\", <<"\\", "\\">>)

Esc(name) ==
    Replaced(Replaced(Replaced(name, "\\", <<"\\", "\\">>), "quote", <<"\\", "quote">>), "newline", <<"\\", "n">>)

TypeLine(family) == [type |-> "TYPE", family |-> family, label |-> << >>, value |-> 0]

Sample(family, label, value) == [type |-> "sample", family |-> family, label |-> label, value |-> value]

(* A family with one sample per reading, in the text only if it is shown. *)
Family(family, shown, labels, values) == [family |-> family, shown |-> shown, labels |-> labels, values |-> values]

Named(family, shown, names) == Family(family, shown, names, [i \in DOMAIN names |-> 1])

Gauge(family, shown, value) == Family(family, shown, << << >> >>, <<value>>)

Each(readings, field) == [i \in DOMAIN readings |-> readings[i][field]]

(* What is in a panel; there may be none. *)
The(panel, none) == IF panel = {} THEN none ELSE CHOOSE x \in panel : TRUE

Families(s) ==
    LET mounts == Each(s.disks, "mount")
        io     == The(s.disk_io, << >>)
        tcp    == The(s.connections, [established |-> 0, time_wait |-> 0, listening |-> << >>])
        docker == The(s.docker, << >>)
        sensed == The(s.sensors, [temps |-> << >>, fans |-> << >>])
        shows  == [io |-> s.disk_io # {}, tcp |-> s.connections # {}, docker |-> s.docker # {},
                   temps |-> s.sensors # {}, fans |-> s.sensors # {} /\ sensed.fans # << >>]
    IN  << Named("cpu_core", TRUE, s.cores),
           Family("disk_total", TRUE, mounts, Each(s.disks, "total")),
           Family("disk_used", TRUE, mounts, Each(s.disks, "used")),
           Family("disk_read", shows.io, Each(io, "device"), Each(io, "rd")),
           Family("disk_write", shows.io, Each(io, "device"), Each(io, "wr")),
           Named("net_rx", TRUE, s.net), Named("net_tx", TRUE, s.net),
           Named("net_rx_total", TRUE, s.net), Named("net_tx_total", TRUE, s.net),
           Gauge("procs_total", TRUE, s.processes.total), Gauge("procs_running", TRUE, s.processes.running),
           Gauge("procs_sleeping", TRUE, s.processes.sleeping), Gauge("procs_zombie", TRUE, s.processes.zombie),
           Gauge("tcp_established", shows.tcp, tcp.established), Gauge("tcp_time_wait", shows.tcp, tcp.time_wait),
           Gauge("tcp_listening_ports", shows.tcp, Len(tcp.listening)),
           Named("container_cpu", shows.docker, docker), Named("container_mem", shows.docker, docker),
           Named("temp", shows.temps, sensed.temps), Named("fan", shows.fans, sensed.fans),
           Gauge("alerts_firing", TRUE, s.alerts) >>

Lines(f) ==
    IF f.shown
    THEN <<TypeLine(f.family)>> \o [i \in DOMAIN f.labels |-> Sample(f.family, Esc(f.labels[i]), f.values[i])]
    ELSE << >>

Render(s) ==
    LET fs == Families(s)
        o[b \in 0 .. Len(fs)] == IF b = 0 THEN << >> ELSE o[b - 1] \o Lines(fs[b])
    IN  o[Len(fs)]

-----------------------------------------------------------------------------

(* The part of the tick from the readings to the text. *)
Tick ==
    /\ \E order \in ByShare(host.procs), listening \in Listening(host.tcp) :
          snapshot' = [disks |-> Usage(host.mounts), disk_io |-> IoCounters(host.stats),
                       processes |-> Processes(host.procs, order), connections |-> Connections(host.tcp, listening),
                       cores |-> host.cores, net |-> host.net, docker |-> host.containers,
                       sensors |-> host.sensors, alerts |-> host.alerts]
    /\ text' = Render(snapshot')
    /\ UNCHANGED <<host, cap>>

SnapshotInit == host \in Hosts /\ cap \in Caps /\ snapshot = << >> /\ text = << >>

SnapshotSpec == SnapshotInit /\ [][Tick]_snapshotVars

-----------------------------------------------------------------------------
(* The scraper, after the text format of Prometheus *)

(* Reads a label's value up to the quote that ends it. *)
ReadChar(r, c) ==
    CASE r.at = "escaped" -> IF c \in {"\\", "quote"} THEN [at |-> "text", out |-> r.out \o <<c>>]
                             ELSE IF c = "n" THEN [at |-> "text", out |-> r.out \o <<"newline">>]
                             ELSE [at |-> "bad", out |-> r.out]
      [] r.at = "text"    -> IF c = "\\" THEN [at |-> "escaped", out |-> r.out]
                             ELSE IF c = "quote" THEN [at |-> "end", out |-> r.out]
                             ELSE IF c = "newline" THEN [at |-> "bad", out |-> r.out]
                             ELSE [at |-> "text", out |-> r.out \o <<c>>]
      [] OTHER            -> [at |-> "bad", out |-> r.out]

Reads(chars) ==
    LET r[i \in 0 .. Len(chars)] == IF i = 0 THEN [at |-> "text", out |-> << >>] ELSE ReadChar(r[i - 1], chars[i])
    IN  r[Len(chars)]

ReadLabel(label) == Reads(label \o <<"quote">>)

SamplesOf(family) == { i \in DOMAIN text : text[i].type = "sample" /\ text[i].family = family }

-----------------------------------------------------------------------------
(* Properties *)

LabelsAreRead == \A i \in DOMAIN text : text[i].type = "sample" => ReadLabel(text[i].label).at = "end"

MountsAreShown ==
    { ReadLabel(text[i].label).out : i \in SamplesOf("disk_used") } =
        { host.mounts[i].mount : i \in { j \in DOMAIN host.mounts :
                                           host.mounts[j].fs \notin PSEUDO_FS /\ host.mounts[j].total > 0 } }

UsedIsWithinTotal ==
    \A i \in SamplesOf("disk_used"), j \in SamplesOf("disk_total") :
        text[i].label = text[j].label => text[i].value <= text[j].value

(* The host has given two sensors of the family one label. *)
HostRepeats(family) ==
    \E t \in host.sensors :
        (family = "temp" /\ ~Distinct(t.temps)) \/ (family = "fan" /\ ~Distinct(t.fans))

NamesAreUnique ==
    \A i, j \in DOMAIN text :
        text[i].family = text[j].family /\ text[i].type = text[j].type /\ text[i].label = text[j].label =>
            i = j \/ (text[i].type = "sample" /\ HostRepeats(text[i].family))

FamiliesAreTogether ==
    \A i, j \in DOMAIN text :
        text[i].family = text[j].family /\ i < j =>
            /\ \A k \in i .. j : text[k].family = text[i].family
            /\ text[j].type = "sample"

(* A scraper reads from the text what the host has: every mount point with
   room on it under its own name, however it is spelled and however often it
   is listed, with no more used than there is; no two samples of one family
   have one name, unless the host has given it twice to two sensors; and the
   samples of a family follow its type. *)
ScrapeReadsHost ==
    snapshot # << >> =>
        LabelsAreRead /\ MountsAreShown /\ UsedIsWithinTotal /\ NamesAreUnique /\ FamiliesAreTogether

ListedPorts ==
    LET lines == TcpLines(host.tcp)
    IN  { lines[i].port : i \in { j \in DOMAIN lines : lines[j].state = "0A" } } \ {-1}

BusiestAreListed ==
    LET ps == snapshot.processes
    IN  /\ Len(ps.list) = (IF cap = 0 THEN ps.total ELSE Smaller(cap, ps.total))
        /\ \A p \in host.procs :
              (\A i \in DOMAIN ps.list : ps.list[i] # p) => \A i \in DOMAIN ps.list : p.cpu <= ps.list[i].cpu
        /\ ps.running + ps.sleeping + ps.zombie + InState(host.procs, {"stopped", "unknown"}) = Cardinality(host.procs)

LowestAreListed ==
    /\ snapshot.connections = {} <=> \A f \in 1 .. 2 : ~host.tcp[f].readable
    /\ \A c \in snapshot.connections :
          /\ Len(c.listening) = Smaller(MAX_PORTS, Cardinality(ListedPorts))
          /\ \A i \in DOMAIN c.listening :
                /\ c.listening[i] \in ListedPorts
                /\ Cardinality({ p \in ListedPorts : p < c.listening[i] }) = i - 1

(* Whatever is cut off or merged: the processes left out are no busier than
   those listed, and counted like them; the ports listed are the lowest that
   anything listens on, each once; a panel is missing only if nothing could
   be read. *)
ListsAreSelections == snapshot # << >> => BusiestAreListed /\ LowestAreListed
===============================================================================
