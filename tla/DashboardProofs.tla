--------------------------- MODULE DashboardProofs ----------------------------
(***************************************************************************)
(* Proofs about Dashboard for any length of a chart and of the server's    *)
(* history, any periods, and any number of samples, restarts and reloads.  *)
(*                                                                         *)
(* A chart is in order because every list that is ever put into it is, and *)
(* because nothing in it is newer than the sample that comes next. The     *)
(* second needs the network to answer within the period: while the         *)
(* history is on its way the chart is empty, and while a sample is, no     *)
(* newer one can be drawn before it.                                       *)
(***************************************************************************)
EXTENDS Dashboard, SequenceTheorems, TLAPS

Sorted(s) == \A i, j \in 1 .. Len(s) : i <= j => s[i] <= s[j]

UpTo(s, n) == \A i \in 1 .. Len(s) : s[i] <= n

Servers == [ sample: Nat, warm: BOOLEAN, period: Periods, history: Seq(Nat),
             restarts: Nat, openLimit: OpenLimits ]

ServerInv ==
    /\ server \in Servers
    /\ Sorted(server.history) /\ UpTo(server.history, server.sample)

(* A chart h and the sample d on the page, of a server that is at sample n. *)
PageFits(h, d, n) ==
    /\ h \in Seq(Nat) /\ Sorted(h) /\ UpTo(h, n)
    /\ d \in Nat
    /\ d # NoSample => h # << >> /\ h[Len(h)] = d

Bodies == [ sample: Nat, period: Nat, points: Seq(Nat) ]

Requests == [ kind: {"stats", "history"}, slot: {1}, answered: BOOLEAN, body: Bodies ]

(* The request of a page that has one open at a time. *)
RequestFits(q, h, d, n) ==
    /\ q \in Requests
    /\ q.kind = "history" => h = << >> /\ d = NoSample
    /\ Sorted(q.body.points) /\ UpTo(q.body.points, n)
    /\ q.body.sample <= n
    /\ q.body.sample # NoSample => UpTo(h, q.body.sample)

AllFits(requests, h, d, n) ==
    /\ PageFits(h, d, n)
    /\ \A q \in requests : RequestFits(q, h, d, n) /\ requests = {q}

ChartInv ==
    /\ ServerInv
    /\ server.openLimit = 1 => AllFits(open, hist, lastData, server.sample)
-----------------------------------------------------------------------------
(* Lists *)

LEMMA NonEmpty ==
    ASSUME NEW s \in Seq(Nat)
    PROVE  Len(s) \in Nat /\ (s # << >> <=> Len(s) >= 1)
<1>1. /\ Len(<< >>) = 0
      /\ s # << >> => Len(s) \in Nat \ {0}
  BY EmptySeq
<1>2. QED  BY <1>1, LenProperties

LEMMA EmptyList ==
    /\ << >> \in Seq(Nat) /\ Sorted(<< >>)
    /\ \A n \in Nat : UpTo(<< >>, n)
BY EmptySeq DEF Sorted, UpTo

LEMMA OneElement ==
    ASSUME NEW m \in Nat
    PROVE  /\ <<m>> \in Seq(Nat) /\ Len(<<m>>) = 1 /\ <<m>>[1] = m
           /\ Sorted(<<m>>) /\ UpTo(<<m>>, m)
BY DEF Sorted, UpTo

LEMMA UpToMore ==
    ASSUME NEW s \in Seq(Nat), NEW m \in Nat, NEW n \in Nat, m <= n, UpTo(s, m)
    PROVE  UpTo(s, n)
<1>1. \A i \in 1 .. Len(s) : s[i] \in Nat /\ s[i] <= m
  BY ElementOfSeq DEF UpTo
<1>2. QED  BY <1>1 DEF UpTo

(* A part of a list, cut out anywhere. *)
LEMMA PartOfList ==
    ASSUME NEW s \in Seq(Nat), NEW m \in Int, NEW k \in Int, 1 <= m, k <= Len(s), m <= k + 1
    PROVE  /\ SubSeq(s, m, k) \in Seq(Nat)
           /\ Len(SubSeq(s, m, k)) = k - m + 1
           /\ \A i \in 1 .. k - m + 1 : SubSeq(s, m, k)[i] = s[m + i - 1]
           /\ Sorted(s) => Sorted(SubSeq(s, m, k))
           /\ \A n \in Nat : UpTo(s, n) => UpTo(SubSeq(s, m, k), n)
<1> DEFINE part == SubSeq(s, m, k)
<1>1. Len(s) \in Nat /\ \A i \in m .. k : s[i] \in Nat
  BY LenProperties, ElementOfSeq
<1>2. /\ part \in Seq(Nat) /\ Len(part) = k - m + 1
      /\ \A i \in 1 .. k - m + 1 : part[i] = s[m + i - 1]
  BY <1>1, SubSeqProperties
<1> HIDE DEF part
<1>a. \A i \in 1 .. Len(part) : m + i - 1 \in 1 .. Len(s) /\ part[i] = s[m + i - 1]
  BY <1>1, <1>2
<1>3. ASSUME Sorted(s)
      PROVE  Sorted(part)
  <2> SUFFICES ASSUME NEW i \in 1 .. Len(part), NEW j \in 1 .. Len(part), i <= j
               PROVE  part[i] <= part[j]
    BY DEF Sorted
  <2>1. m + i - 1 <= m + j - 1
    OBVIOUS
  <2>2. s[m + i - 1] <= s[m + j - 1]
    BY <1>a, <1>3, <2>1 DEF Sorted
  <2>3. QED  BY <1>a, <2>2
<1>4. ASSUME NEW n \in Nat, UpTo(s, n)
      PROVE  UpTo(part, n)
  <2> SUFFICES ASSUME NEW i \in 1 .. Len(part)
               PROVE  part[i] <= n
    BY DEF UpTo
  <2>1. s[m + i - 1] <= n
    BY <1>a, <1>4 DEF UpTo
  <2>2. QED  BY <1>a, <2>1
<1>5. QED  BY <1>2, <1>3, <1>4 DEF part

LEMMA LastOfList ==
    ASSUME NEW s \in Seq(Nat), NEW n \in Nat \ {0}
    PROVE  /\ LastN(s, n) \in Seq(Nat)
           /\ Sorted(s) => Sorted(LastN(s, n))
           /\ \A m \in Nat : UpTo(s, m) => UpTo(LastN(s, n), m)
           /\ s # << >> => /\ LastN(s, n) # << >>
                          /\ LastN(s, n)[Len(LastN(s, n))] = s[Len(s)]
<1> DEFINE first == Larger(1, Len(s) - n + 1)
<1>1. Len(s) \in Nat /\ first \in Int /\ 1 <= first /\ first <= Len(s) + 1
      /\ (Len(s) # 0 => first <= Len(s))
  BY LenProperties DEF Larger
<1>2. s # << >> <=> Len(s) >= 1
  BY NonEmpty
<1> HIDE DEF first
<1>3. /\ SubSeq(s, first, Len(s)) \in Seq(Nat)
      /\ Len(SubSeq(s, first, Len(s))) = Len(s) - first + 1
      /\ \A i \in 1 .. Len(s) - first + 1 : SubSeq(s, first, Len(s))[i] = s[first + i - 1]
      /\ Sorted(s) => Sorted(SubSeq(s, first, Len(s)))
      /\ \A m \in Nat : UpTo(s, m) => UpTo(SubSeq(s, first, Len(s)), m)
  BY <1>1, PartOfList
<1>4. LastN(s, n) = SubSeq(s, first, Len(s))
  BY DEF LastN, first
<1>5. ASSUME s # << >>
      PROVE  /\ LastN(s, n) # << >>
             /\ LastN(s, n)[Len(LastN(s, n))] = s[Len(s)]
  <2>1. Len(LastN(s, n)) = Len(s) - first + 1 /\ Len(s) - first + 1 >= 1
    BY <1>1, <1>2, <1>3, <1>4, <1>5
  <2>2. LastN(s, n)[Len(s) - first + 1] = s[first + (Len(s) - first + 1) - 1]
    BY <1>1, <1>3, <1>4, <2>1
  <2>3. first + (Len(s) - first + 1) - 1 = Len(s)
    BY <1>1
  <2>4. LastN(s, n) # << >>
    BY <1>3, <1>4, <2>1, NonEmpty
  <2>5. QED  BY <2>1, <2>2, <2>3, <2>4
<1>6. QED  BY <1>3, <1>4, <1>5

(* Two lists one after the other, where nothing in the first is more than
   what is in the second. *)
LEMMA ListAfterList ==
    ASSUME NEW s \in Seq(Nat), NEW t \in Seq(Nat)
    PROVE  /\ s \o t \in Seq(Nat)
           /\ Sorted(s) /\ Sorted(t) /\ (t # << >> => UpTo(s, t[1])) => Sorted(s \o t)
           /\ \A n \in Nat : UpTo(s, n) /\ UpTo(t, n) => UpTo(s \o t, n)
           /\ t # << >> => s \o t # << >> /\ (s \o t)[Len(s \o t)] = t[Len(t)]
<1> DEFINE st == s \o t
<1>1. /\ st \in Seq(Nat) /\ Len(st) = Len(s) + Len(t)
      /\ \A i \in 1 .. Len(s) + Len(t) : st[i] = IF i <= Len(s) THEN s[i] ELSE t[i - Len(s)]
  BY ConcatProperties
<1>2. /\ Len(s) \in Nat /\ Len(t) \in Nat
      /\ \A i \in 1 .. Len(s) : s[i] \in Nat
      /\ \A i \in 1 .. Len(t) : t[i] \in Nat
      /\ (t # << >> <=> Len(t) >= 1)
  BY LenProperties, ElementOfSeq, NonEmpty
<1> HIDE DEF st
<1>a. ASSUME NEW i \in 1 .. Len(s)
      PROVE  i \in 1 .. Len(st) /\ st[i] = s[i]
  <2>1. i \in 1 .. Len(s) + Len(t) /\ i <= Len(s)
    BY <1>2
  <2>2. QED  BY <1>1, <2>1
<1>b. ASSUME NEW i \in 1 .. Len(st), i > Len(s)
      PROVE  i - Len(s) \in 1 .. Len(t) /\ st[i] = t[i - Len(s)]
  <2>1. i \in 1 .. Len(s) + Len(t) /\ ~(i <= Len(s)) /\ i - Len(s) \in 1 .. Len(t)
    BY <1>1, <1>2, <1>b
  <2>2. QED  BY <1>1, <2>1
<1>3. ASSUME Sorted(s), Sorted(t), t # << >> => UpTo(s, t[1])
      PROVE  Sorted(st)
  <2> SUFFICES ASSUME NEW i \in 1 .. Len(st), NEW j \in 1 .. Len(st), i <= j
               PROVE  st[i] <= st[j]
    BY DEF Sorted
  <2>1. CASE j <= Len(s)
    <3>1. i \in 1 .. Len(s) /\ j \in 1 .. Len(s)
      BY <1>1, <1>2, <2>1
    <3>2. s[i] <= s[j]
      BY <1>3, <3>1 DEF Sorted
    <3>3. QED  BY <1>a, <3>1, <3>2
  <2>2. CASE i > Len(s)
    <3>1. j > Len(s) /\ i - Len(s) <= j - Len(s)
      BY <1>1, <1>2, <2>2
    <3>2. /\ i - Len(s) \in 1 .. Len(t) /\ st[i] = t[i - Len(s)]
          /\ j - Len(s) \in 1 .. Len(t) /\ st[j] = t[j - Len(s)]
      BY <1>b, <2>2, <3>1
    <3>3. QED  BY <1>3, <3>1, <3>2 DEF Sorted
  <2>3. CASE i <= Len(s) /\ j > Len(s)
    <3>1. i \in 1 .. Len(s) /\ j - Len(s) \in 1 .. Len(t) /\ 1 \in 1 .. Len(t)
      BY <1>1, <1>2, <2>3
    <3>2. t # << >> /\ 1 <= j - Len(s)
      BY <1>2, <3>1
    <3>3. s[i] <= t[1] /\ t[1] <= t[j - Len(s)]
      BY <1>3, <3>1, <3>2 DEF Sorted, UpTo
    <3>4. st[i] = s[i] /\ st[j] = t[j - Len(s)]
      BY <1>a, <1>b, <2>3, <3>1
    <3>5. s[i] \in Nat /\ t[1] \in Nat /\ t[j - Len(s)] \in Nat
      BY <1>2, <3>1
    <3>6. QED  BY <3>3, <3>4, <3>5
  <2>4. QED  BY <1>1, <1>2, <2>1, <2>2, <2>3
<1>4. ASSUME NEW n \in Nat, UpTo(s, n), UpTo(t, n)
      PROVE  UpTo(st, n)
  <2> SUFFICES ASSUME NEW i \in 1 .. Len(st)
               PROVE  st[i] <= n
    BY DEF UpTo
  <2>1. CASE i <= Len(s)
    <3>1. i \in 1 .. Len(s)
      BY <2>1, <1>2
    <3>2. QED  BY <1>4, <1>a, <3>1 DEF UpTo
  <2>2. CASE i > Len(s)
    BY <1>4, <1>b, <2>2 DEF UpTo
  <2>3. QED  BY <1>2, <2>1, <2>2
<1>5. ASSUME t # << >>
      PROVE  st # << >> /\ st[Len(st)] = t[Len(t)]
  <2>1. Len(st) \in 1 .. Len(st) /\ Len(st) > Len(s) /\ Len(st) - Len(s) = Len(t)
    BY <1>1, <1>2, <1>5
  <2>2. st[Len(st)] = t[Len(t)]
    BY <1>b, <2>1
  <2>3. QED  BY <1>1, <2>1, <2>2, NonEmpty
<1>6. QED  BY <1>1, <1>3, <1>4, <1>5 DEF st

LEMMA PushedInOrder ==
    ASSUME NEW s \in Seq(Nat), NEW t \in Seq(Nat),
           Sorted(s), Sorted(t), t # << >> => UpTo(s, t[1])
    PROVE  /\ Pushed(s, t) \in Seq(Nat) /\ Sorted(Pushed(s, t))
           /\ \A n \in Nat : UpTo(s, n) /\ UpTo(t, n) => UpTo(Pushed(s, t), n)
           /\ t # << >> => Pushed(s, t) # << >> /\ Pushed(s, t)[Len(Pushed(s, t))] = t[Len(t)]
<1>1. /\ s \o t \in Seq(Nat) /\ Sorted(s \o t)
      /\ \A n \in Nat : UpTo(s, n) /\ UpTo(t, n) => UpTo(s \o t, n)
      /\ t # << >> => s \o t # << >> /\ (s \o t)[Len(s \o t)] = t[Len(t)]
  BY ListAfterList
<1>2. SPARK_LEN \in Nat \ {0}
  BY DashboardAssumption
<1>3. QED  BY <1>1, <1>2, LastOfList DEF Pushed

(* A multiple grows with its factor. *)
LEMMA Multiples ==
    ASSUME NEW a \in Nat, NEW b \in Nat, NEW n \in Nat, a <= b
    PROVE  a * n \in Nat /\ a * n <= b * n
<1>1. b * n = a * n + (b - a) * n
  OBVIOUS
<1>2. a * n \in Nat /\ (b - a) * n \in Nat
  OBVIOUS
<1>3. QED  BY <1>1, <1>2

LEMMA DivideUp ==
    ASSUME NEW l \in Nat, NEW n \in Nat \ {0}
    PROVE  /\ (l + n - 1) \div n \in Nat
           /\ ((l + n - 1) \div n) * n <= l + n - 1
OBVIOUS

(* Every n-th element of a list. *)
LEMMA ThinnedList ==
    ASSUME NEW s \in Seq(Nat), NEW n \in Nat \ {0}
    PROVE  /\ EveryNth(s, n) \in Seq(Nat)
           /\ Sorted(s) => Sorted(EveryNth(s, n))
           /\ \A m \in Nat : UpTo(s, m) => UpTo(EveryNth(s, n), m)
<1> DEFINE q == (Len(s) + n - 1) \div n
           at(i) == (i - 1) * n + 1
           thin == EveryNth(s, n)
<1>1. Len(s) \in Nat /\ q \in Nat /\ q * n <= Len(s) + n - 1
  BY LenProperties, DivideUp
<1>2. thin = [i \in 1 .. q |-> s[at(i)]]
  BY DEF EveryNth
<1> HIDE DEF q, thin
<1>3. ASSUME NEW i \in 1 .. q
      PROVE  at(i) \in 1 .. Len(s)
  <2>1. i * n \in Nat /\ i * n <= q * n
    BY <1>1, Multiples
  <2>2. (i - 1) * n = i * n - n /\ (i - 1) * n \in Nat
    BY <1>1
  <2>3. q * n \in Nat
    BY <1>1
  <2>4. QED  BY <1>1, <2>1, <2>2, <2>3
<1>4. ASSUME NEW i \in 1 .. q, NEW j \in 1 .. q, i <= j
      PROVE  at(i) <= at(j)
  <2>1. (i - 1) * n \in Nat /\ (j - 1) * n \in Nat /\ (i - 1) * n <= (j - 1) * n
    BY <1>1, <1>4, Multiples
  <2>2. QED  BY <2>1
<1> HIDE DEF at
<1>5. thin \in [1 .. q -> Nat]
  <2>1. \A i \in 1 .. q : s[at(i)] \in Nat
    BY <1>3, ElementOfSeq
  <2>2. QED  BY <1>2, <2>1
<1>6. thin \in Seq(Nat) /\ Len(thin) = q
  BY <1>1, <1>5, IsASeq
<1>7. Sorted(s) => Sorted(thin)
  BY <1>1, <1>2, <1>3, <1>4, <1>6 DEF Sorted
<1>8. \A m \in Nat : UpTo(s, m) => UpTo(thin, m)
  BY <1>1, <1>2, <1>3, <1>6 DEF UpTo
<1>9. QED  BY <1>6, <1>7, <1>8 DEF thin

LEMMA SeededInOrder ==
    ASSUME NEW s \in Seq(Nat)
    PROVE  /\ Seeded(s) \in Seq(Nat)
           /\ Sorted(s) => Sorted(Seeded(s))
           /\ \A m \in Nat : UpTo(s, m) => UpTo(Seeded(s), m)
<1>1. Stride(Len(s)) \in Nat \ {0}
  <2>1. Len(s) \in Nat /\ SPARK_LEN \in Nat \ {0}
    BY LenProperties, DashboardAssumption
  <2>2. (Len(s) + SPARK_LEN - 1) \div SPARK_LEN \in Nat
    BY <2>1, DivideUp
  <2>3. QED  BY <2>2 DEF Stride, Larger
<1>2. QED  BY <1>1, ThinnedList DEF Seeded
-----------------------------------------------------------------------------
(* One interval *)

(* setInterval is only called after clearInterval of the one that runs. *)
LEMMA TimerStep == OneTimer /\ [Next]_vars => OneTimer'
<1> SUFFICES ASSUME OneTimer, [Next]_vars
             PROVE  OneTimer'
  OBVIOUS
<1>1. ASSUME NEW ms, SetPeriod(ms)
      PROVE  OneTimer'
  BY <1>1 DEF OneTimer, SetPeriod
<1>2. CASE UNCHANGED <<timers, timer, intervalMs>>
  BY <1>2 DEF OneTimer
<1>3. CASE Reload
  BY <1>3 DEF OneTimer, Reload, FirstTimers
<1>4. CASE Arrives
  BY <1>1, <1>2, <1>4 DEF Arrives, StatsArrive, HistoryArrives
<1>5. QED
  BY <1>2, <1>3, <1>4
     DEF Next, Tick, Restart, TimerFires, Answer, RequestFails, Redraw, vars, pageVars

(* However answers overlap and periods change, one interval polls. *)
THEOREM OneTimerPolls == Spec => []OneTimer
<1>1. Init => OneTimer
  BY DEF Init, OneTimer, FirstTimers
<1>2. QED  BY <1>1, TimerStep, PTL DEF Spec

-----------------------------------------------------------------------------
(* The server *)

LEMMA ServerType ==
    ASSUME ServerInv
    PROVE  /\ server.sample \in Nat /\ server.warm \in BOOLEAN /\ server.period \in Nat
           /\ server.history \in Seq(Nat)
           /\ Sorted(server.history) /\ UpTo(server.history, server.sample)
BY DashboardAssumption DEF ServerInv, Servers

LEMMA TickServer ==
    ASSUME ServerInv, Tick
    PROVE  /\ ServerInv' /\ server'.openLimit = server.openLimit
           /\ server'.sample = server.sample + 1
<1> DEFINE h == Append(server.history, server.sample + 1)
           n == server.sample + 1
<1>1. /\ server' \in [ sample: {n}, warm: {TRUE}, period: {server.period},
                       history: {LastN(h, HistoryCap)}, restarts: {server.restarts},
                       openLimit: {server.openLimit} ]
  BY DEF Tick, ServerInv, Servers
<1>2. n \in Nat /\ UpTo(server.history, n) /\ n >= server.sample
  BY ServerType, UpToMore
<1>3. h = server.history \o <<n>>
  BY <1>2, ServerType, AppendIsConcat
<1>4. h \in Seq(Nat) /\ Sorted(h) /\ UpTo(h, n)
  <2>1. <<n>> # << >> /\ <<n>>[1] = n /\ <<n>> \in Seq(Nat) /\ Sorted(<<n>>) /\ UpTo(<<n>>, n)
    BY <1>2, OneElement
  <2> HIDE DEF h
  <2>2. QED  BY <1>2, <1>3, <2>1, ServerType, ListAfterList
<1> HIDE DEF h
<1>5. /\ LastN(h, HistoryCap) \in Seq(Nat) /\ Sorted(LastN(h, HistoryCap))
      /\ UpTo(LastN(h, HistoryCap), n)
  BY <1>2, <1>4, LastOfList, DashboardAssumption
<1>6. QED  BY <1>1, <1>2, <1>5 DEF ServerInv, Servers

LEMMA RestartServer ==
    ASSUME ServerInv, Restart
    PROVE  /\ ServerInv' /\ server'.openLimit = server.openLimit
           /\ server'.sample = server.sample
<1>1. PICK n \in 0 .. Len(server.history), p \in Periods :
         server' = [server EXCEPT !.warm = FALSE, !.period = p, !.restarts = @ + 1,
                         !.history = SubSeq(@, 1, n)]
  BY DEF Restart
<1> DEFINE h == SubSeq(server.history, 1, n)
<1>2. server' \in [ sample: {server.sample}, warm: {FALSE}, period: {p}, history: {h},
                   restarts: {server.restarts + 1}, openLimit: {server.openLimit} ]
  BY <1>1 DEF ServerInv, Servers
<1>3. Len(server.history) \in Nat
  BY ServerType, LenProperties
<1>4. h \in Seq(Nat) /\ Sorted(h) /\ UpTo(h, server.sample)
  BY <1>3, ServerType, PartOfList
<1> HIDE DEF h
<1>5. server.restarts + 1 \in Nat
  BY DEF ServerInv, Servers
<1>6. QED  BY <1>2, <1>4, <1>5 DEF ServerInv, Servers

(* Whatever happens on the server, what a page has stays in order. *)
LEMMA LaterFits ==
    ASSUME NEW R, NEW h, NEW d, NEW n \in Nat, NEW m \in Nat, n <= m, AllFits(R, h, d, n)
    PROVE  AllFits(R, h, d, m)
<1>1. PageFits(h, d, m)
  BY UpToMore DEF AllFits, PageFits
<1>2. ASSUME NEW q \in R
      PROVE  RequestFits(q, h, d, m)
  <2>1. /\ q.body.points \in Seq(Nat) /\ q.body.sample \in Nat
        /\ RequestFits(q, h, d, n)
    BY DEF AllFits, RequestFits, Requests, Bodies
  <2>2. UpTo(q.body.points, m)
    BY <2>1, UpToMore DEF RequestFits
  <2>3. q.body.sample <= m
    BY <2>1 DEF RequestFits
  <2>4. QED  BY <2>1, <2>2, <2>3 DEF RequestFits
<1>3. QED  BY <1>1, <1>2 DEF AllFits

-----------------------------------------------------------------------------
(* The page *)

LEMMA NoRequest == ASSUME NEW h, NEW d, NEW n, PageFits(h, d, n) PROVE AllFits({}, h, d, n)
BY DEF AllFits

(* A request that is only asked promises nothing. *)
LEMMA AskedFits ==
    ASSUME NEW h, NEW d, NEW n \in Nat, PageFits(h, d, n), NEW kind \in {"stats", "history"},
           kind = "history" => h = << >> /\ d = NoSample
    PROVE  AllFits({ Asked(kind, 1) }, h, d, n)
<1>1. NoAnswer \in Bodies
  BY EmptyList, DashboardAssumption DEF NoAnswer, Bodies, NoSample
<1>2. Asked(kind, 1) \in Requests
  BY <1>1 DEF Asked, Requests
<1>3. /\ Asked(kind, 1).body = NoAnswer /\ NoAnswer.points = << >> /\ NoAnswer.sample = NoSample
      /\ Asked(kind, 1).kind = kind
  BY DEF Asked, NoAnswer
<1>4. RequestFits(Asked(kind, 1), h, d, n)
  BY <1>2, <1>3, EmptyList DEF RequestFits, NoSample
<1>5. QED  BY <1>4 DEF AllFits

(* A page that has just been loaded. *)
LEMMA FirstFits == ASSUME NEW n \in Nat PROVE AllFits(FirstRequest, << >>, NoSample, n)
<1>1. PageFits(<< >>, NoSample, n)
  BY EmptyList DEF PageFits, NoSample
<1>2. QED  BY <1>1, AskedFits DEF FirstRequest

LEMMA ChartInvInit == Init => ChartInv
<1> SUFFICES ASSUME Init
             PROVE  ChartInv
  OBVIOUS
<1>1. server \in Servers /\ server.history = << >> /\ server.sample = 0
  <2>1. server \in [ sample: {0}, warm: {FALSE}, period: Periods, history: {<< >>},
                     restarts: {0}, openLimit: OpenLimits ]
    BY DEF Init
  <2>2. << >> \in Seq(Nat)
    BY EmptyList
  <2>3. server.history \in {<< >>} /\ server.sample \in {0}
    BY <2>1
  <2>4. {0} \subseteq Nat /\ {FALSE} \subseteq BOOLEAN /\ {<< >>} \subseteq Seq(Nat)
    BY <2>2
  <2>5. ASSUME NEW A, NEW B, NEW C, A \subseteq Nat, B \subseteq BOOLEAN, C \subseteq Seq(Nat)
        PROVE  [ sample: A, warm: B, period: Periods, history: C, restarts: A,
                 openLimit: OpenLimits ] \subseteq Servers
    BY <2>5 DEF Servers
  <2>6. server \in Servers
    BY <2>1, <2>4, <2>5
  <2>7. QED  BY <2>3, <2>6
<1>2. ServerInv
  BY <1>1, EmptyList DEF ServerInv
<1>3. AllFits(open, hist, lastData, server.sample)
  BY <1>1, FirstFits DEF Init
<1>4. QED  BY <1>2, <1>3 DEF ChartInv

(* With one slot the timer asks only when nothing is open. *)
LEMMA FitsTimer ==
    ASSUME ServerInv, server.openLimit = 1, AllFits(open, hist, lastData, server.sample), TimerFires
    PROVE  AllFits(open, hist, lastData, server.sample)'
<1>1. PICK slot \in FreeSlots : open' = open \cup { Asked("stats", slot) }
  BY DEF TimerFires
<1>2. slot = 1 /\ \A q \in open : q.slot # 1
  BY <1>1 DEF FreeSlots, Slots
<1>3. open = {}
  BY <1>2 DEF AllFits, RequestFits, Requests
<1>4. open' = { Asked("stats", 1) }
  BY <1>1, <1>2, <1>3
<1>5. UNCHANGED <<server, hist, lastData>>
  BY DEF TimerFires, pageVars
<1>6. AllFits({ Asked("stats", 1) }, hist, lastData, server.sample)
  BY AskedFits, ServerType DEF AllFits
<1>7. QED  BY <1>4, <1>5, <1>6

(* The server answers from what it holds: nothing in it is newer than its
   newest sample, and nothing on the page is. *)
LEMMA FitsAnswer ==
    ASSUME ServerInv, AllFits(open, hist, lastData, server.sample), NEW q \in open, Answer(q)
    PROVE  AllFits(open, hist, lastData, server.sample)'
<1> DEFINE body == IF q.kind = "history"
                   THEN [NoAnswer EXCEPT !.points = server.history]
                   ELSE [NoAnswer EXCEPT !.sample = IF server.warm THEN server.sample ELSE NoSample,
                                         !.period = server.period]
           p == [q EXCEPT !.answered = TRUE, !.body = body]
<1>1. open' = (open \ {q}) \cup {p} /\ UNCHANGED <<server, hist, lastData>>
  BY DEF Answer, pageVars
<1>2. open = {q} /\ RequestFits(q, hist, lastData, server.sample) /\ q \in Requests
      /\ PageFits(hist, lastData, server.sample)
  BY DEF AllFits, RequestFits
<1>3. body \in Bodies /\ (body.points = << >> \/ body.points = server.history)
      /\ body.sample \in {NoSample, server.sample}
  BY ServerType, EmptyList, DashboardAssumption DEF NoAnswer, Bodies, NoSample
<1> HIDE DEF body
<1>4. p \in Requests /\ p.kind = q.kind /\ p.body = body
  BY <1>2, <1>3 DEF Requests
<1> HIDE DEF p
<1>5. RequestFits(p, hist, lastData, server.sample)
  <2>1. Sorted(body.points) /\ UpTo(body.points, server.sample)
    BY <1>3, ServerType, EmptyList
  <2>2. body.sample <= server.sample
    BY <1>3, ServerType DEF NoSample
  <2>3. body.sample # NoSample => UpTo(hist, body.sample)
    BY <1>2, <1>3 DEF PageFits
  <2>4. QED  BY <1>2, <1>4, <2>1, <2>2, <2>3 DEF RequestFits
<1>6. AllFits({p}, hist, lastData, server.sample)
  BY <1>2, <1>5 DEF AllFits
<1>7. open' = {p}
  BY <1>1, <1>2
<1>8. QED  BY <1>1, <1>6, <1>7

(* The chart after a sample no older than all that is in it. *)
LEMMA RenderFits ==
    ASSUME NEW h \in Seq(Nat), NEW n \in Nat, NEW m \in Nat,
           Sorted(h), UpTo(h, m), m <= n
    PROVE  PageFits(Pushed(h, <<m>>), m, n)
<1>1. /\ <<m>> \in Seq(Nat) /\ Len(<<m>>) = 1 /\ <<m>>[1] = m /\ <<m>> # << >>
      /\ Sorted(<<m>>) /\ UpTo(<<m>>, m)
  BY OneElement
<1>2. /\ Pushed(h, <<m>>) \in Seq(Nat) /\ Sorted(Pushed(h, <<m>>))
      /\ UpTo(Pushed(h, <<m>>), m)
      /\ Pushed(h, <<m>>) # << >> /\ Pushed(h, <<m>>)[Len(Pushed(h, <<m>>))] = m
  BY <1>1, PushedInOrder
<1>3. UpTo(Pushed(h, <<m>>), n)
  BY <1>2, UpToMore
<1>4. QED  BY <1>2, <1>3 DEF PageFits

LEMMA FitsStats ==
    ASSUME ServerInv, AllFits(open, hist, lastData, server.sample), NEW q \in open, StatsArrive(q)
    PROVE  AllFits(open, hist, lastData, server.sample)'
<1>1. open = {q} /\ RequestFits(q, hist, lastData, server.sample) /\ q \in Requests
      /\ PageFits(hist, lastData, server.sample)
  BY DEF AllFits, RequestFits
<1>2. open' = {} /\ UNCHANGED server
  BY <1>1 DEF StatsArrive
<1>3. PageFits(hist, lastData, server.sample)'
  <2>1. CASE q.body.sample = NoSample
    BY <1>1, <2>1 DEF StatsArrive
  <2>2. CASE q.body.sample # NoSample
    <3>1. q.body.sample \in Nat /\ q.body.sample <= server.sample /\ UpTo(hist, q.body.sample)
      BY <1>1, <2>2 DEF RequestFits, Requests, Bodies
    <3>2. PageFits(Pushed(hist, <<q.body.sample>>), q.body.sample, server.sample)
      BY <1>1, <3>1, RenderFits, ServerType DEF PageFits
    <3>3. hist' = Pushed(hist, <<q.body.sample>>) /\ lastData' = q.body.sample
      BY <2>2 DEF StatsArrive, Render
    <3>4. QED  BY <1>2, <3>2, <3>3
  <2>3. QED  BY <2>1, <2>2
<1>4. QED  BY <1>2, <1>3, NoRequest DEF AllFits

LEMMA FitsHistory ==
    ASSUME ServerInv, AllFits(open, hist, lastData, server.sample), NEW q \in open, HistoryArrives(q)
    PROVE  AllFits(open, hist, lastData, server.sample)'
<1>1. open = {q} /\ RequestFits(q, hist, lastData, server.sample) /\ q \in Requests /\ q.slot = 1
      /\ PageFits(hist, lastData, server.sample)
  BY DEF AllFits, RequestFits, Requests
<1>2. /\ open' = { Asked("stats", 1) } /\ UNCHANGED <<server, lastData>>
      /\ hist' = Pushed(hist, Seeded(q.body.points))
      /\ hist = << >> /\ lastData = NoSample
  BY <1>1 DEF HistoryArrives, RequestFits
<1>3. /\ q.body.points \in Seq(Nat) /\ Sorted(q.body.points)
      /\ UpTo(q.body.points, server.sample)
  BY <1>1 DEF RequestFits, Requests, Bodies
<1> DEFINE seed == Seeded(q.body.points)
<1>4. seed \in Seq(Nat) /\ Sorted(seed) /\ UpTo(seed, server.sample)
  BY <1>3, SeededInOrder, ServerType
<1> HIDE DEF seed
<1>5. UpTo(<< >>, seed[1])
  BY EmptySeq DEF UpTo
<1>6. /\ Pushed(<< >>, seed) \in Seq(Nat) /\ Sorted(Pushed(<< >>, seed))
      /\ UpTo(Pushed(<< >>, seed), server.sample)
  BY <1>4, <1>5, EmptyList, PushedInOrder, ServerType
<1>7. PageFits(hist, lastData, server.sample)'
  BY <1>2, <1>6 DEF PageFits, NoSample, seed
<1>8. server'.sample \in Nat
  BY <1>2, ServerType
<1>9. QED  BY <1>2, <1>7, <1>8, AskedFits

LEMMA FitsFailure ==
    ASSUME ServerInv, AllFits(open, hist, lastData, server.sample), NEW q \in open, RequestFails(q)
    PROVE  AllFits(open, hist, lastData, server.sample)'
<1>1. open = {q} /\ RequestFits(q, hist, lastData, server.sample) /\ q \in Requests /\ q.slot = 1
      /\ PageFits(hist, lastData, server.sample)
  BY DEF AllFits, RequestFits, Requests
<1>2. UNCHANGED <<server, hist, lastData>> /\ open' \in { {}, { Asked("stats", 1) } }
  BY <1>1 DEF RequestFails
<1>3. /\ AllFits({}, hist, lastData, server.sample)
      /\ AllFits({ Asked("stats", 1) }, hist, lastData, server.sample)
  BY <1>1, AskedFits, NoRequest, ServerType
<1>4. QED  BY <1>2, <1>3

(* The last sample is drawn again. *)
LEMMA FitsRedraw ==
    ASSUME ServerInv, AllFits(open, hist, lastData, server.sample), Redraw
    PROVE  AllFits(open, hist, lastData, server.sample)'
<1>1. /\ PageFits(hist, lastData, server.sample) /\ lastData # NoSample
      /\ lastData \in Nat /\ hist \in Seq(Nat) /\ Sorted(hist)
  BY DEF AllFits, PageFits, Redraw
<1>2. UNCHANGED <<server, open, lastData>> /\ hist' = Pushed(hist, <<lastData>>)
  BY DEF Redraw, Render
<1>3. UpTo(hist, lastData) /\ lastData <= server.sample
  <2>1. Len(hist) \in 1 .. Len(hist) /\ hist[Len(hist)] = lastData
    BY <1>1, NonEmpty DEF PageFits
  <2>2. QED  BY <1>1, <2>1 DEF Sorted, UpTo, PageFits
<1>4. PageFits(hist', lastData, server.sample)
  BY <1>1, <1>2, <1>3, RenderFits, ServerType
<1>5. ASSUME NEW q \in open
      PROVE  RequestFits(q, hist', lastData, server.sample) /\ open = {q}
  <2>1. RequestFits(q, hist, lastData, server.sample) /\ open = {q} /\ q.body.sample \in Nat
    BY DEF AllFits, RequestFits, Requests, Bodies
  <2>2. q.kind # "history"
    BY <1>1, <2>1 DEF RequestFits
  <2>3. ASSUME q.body.sample # NoSample
        PROVE  UpTo(hist', q.body.sample)
    <3>1. UpTo(hist, q.body.sample)
      BY <2>1, <2>3 DEF RequestFits
    <3>2. lastData <= q.body.sample
      <4>1. Len(hist) \in 1 .. Len(hist) /\ hist[Len(hist)] = lastData
        BY <1>1, NonEmpty DEF PageFits
      <4>2. QED  BY <3>1, <4>1 DEF UpTo
    <3>3. PageFits(Pushed(hist, <<lastData>>), lastData, q.body.sample)
      BY <1>1, <1>3, <2>1, <3>2, RenderFits
    <3>4. QED  BY <1>2, <3>3 DEF PageFits
  <2>4. QED  BY <2>1, <2>2, <2>3 DEF RequestFits
<1>6. QED  BY <1>2, <1>4, <1>5 DEF AllFits

LEMMA ChartInvStep == ChartInv /\ [Next]_vars => ChartInv'
<1> SUFFICES ASSUME ChartInv, [Next]_vars
             PROVE  ChartInv'
  OBVIOUS
<1>1. ServerInv /\ server.sample \in Nat
  BY ServerType DEF ChartInv
<1>2. CASE Tick \/ Restart
  <2>1. /\ ServerInv' /\ server'.openLimit = server.openLimit
        /\ server'.sample \in Nat /\ server.sample <= server'.sample
    BY <1>1, <1>2, TickServer, RestartServer
  <2>2. UNCHANGED <<open, hist, lastData>>
    BY <1>2 DEF Tick, Restart, pageVars
  <2>3. server.openLimit = 1 => AllFits(open, hist, lastData, server'.sample)
    BY <1>1, <2>1, LaterFits DEF ChartInv
  <2>4. QED  BY <2>1, <2>2, <2>3 DEF ChartInv
<1>3. CASE UNCHANGED vars
  BY <1>3 DEF ChartInv, ServerInv, vars, pageVars
<1>4. CASE ~(Tick \/ Restart) /\ Next
  <2>1. UNCHANGED server
    BY <1>4 DEF Next, TimerFires, Answer, Arrives, StatsArrive, HistoryArrives, RequestFails,
                Redraw, Reload
  <2>2. ServerInv'
    BY <1>1, <2>1 DEF ServerInv
  <2>3. ASSUME server.openLimit = 1
        PROVE  AllFits(open, hist, lastData, server.sample)'
    <3>1. AllFits(open, hist, lastData, server.sample)
      BY <2>3 DEF ChartInv
    <3>2. CASE TimerFires
      BY <1>1, <2>3, <3>1, <3>2, FitsTimer
    <3>3. CASE \E q \in open : Answer(q)
      BY <1>1, <3>1, <3>3, FitsAnswer
    <3>4. CASE Arrives
      BY <1>1, <3>1, <3>4, FitsStats, FitsHistory DEF Arrives
    <3>5. CASE \E q \in open : RequestFails(q)
      BY <1>1, <3>1, <3>5, FitsFailure
    <3>6. CASE Redraw
      BY <1>1, <3>1, <3>6, FitsRedraw
    <3>7. CASE Reload
      BY <1>1, <2>1, <3>7, FirstFits DEF Reload
    <3>8. QED  BY <1>4, <3>2, <3>3, <3>4, <3>5, <3>6, <3>7 DEF Next
  <2>4. QED  BY <2>1, <2>2, <2>3 DEF ChartInv
<1>5. QED  BY <1>2, <1>3, <1>4

(* With a network that answers within the period a chart never runs
   backwards and ends in the sample on the page. *)
THEOREM ChartsFollow == Spec => []ChartFollowsSamples
<1>1. ChartInv => ChartFollowsSamples
  <2> SUFFICES ASSUME PageFits(hist, lastData, server.sample)
               PROVE  /\ \A i \in 1 .. Len(hist) - 1 : hist[i] <= hist[i + 1]
                      /\ lastData # NoSample => hist[Len(hist)] = lastData
    BY DEF ChartInv, AllFits, ChartFollowsSamples
  <2>1. hist \in Seq(Nat) /\ Len(hist) \in Nat /\ Sorted(hist)
    BY NonEmpty DEF PageFits
  <2>2. ASSUME NEW i \in 1 .. Len(hist) - 1
        PROVE  hist[i] <= hist[i + 1]
    <3>1. i \in 1 .. Len(hist) /\ i + 1 \in 1 .. Len(hist) /\ i <= i + 1
      BY <2>1
    <3>2. QED  BY <2>1, <3>1 DEF Sorted
  <2>3. QED  BY <2>2 DEF PageFits
<1>2. QED  BY <1>1, ChartInvInit, ChartInvStep, PTL DEF Spec
===============================================================================
