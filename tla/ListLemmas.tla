------------------------------ MODULE ListLemmas -------------------------------
(***************************************************************************)
(* Induction and recursion over the naturals, in a form that the provers   *)
(* can use: about sets and functions and not about operators.  Then what a *)
(* function computes step by step along a sequence, and where the parts of *)
(* a text that is joined of blocks are.                                    *)
(***************************************************************************)
EXTENDS Integers, SequenceTheorems, WellFoundedInduction, TLAPS

(* The library states induction for an operator; for a set it follows from
   the well-founded order of the naturals. *)
LEMMA SetInduction ==
    ASSUME NEW S, 0 \in S, \A m \in Nat : m \in S => m + 1 \in S
    PROVE  Nat \subseteq S
<1> DEFINE outside == Nat \ S
<1> SUFFICES ASSUME outside # {}
             PROVE  FALSE
  OBVIOUS
<1>1. PICK m \in outside : \A k \in outside : <<k, m>> \notin OpToRel(<, Nat)
  BY NatLessThanWellFounded, WFMin
<1>2. m \in Nat /\ m # 0 /\ m - 1 \in Nat /\ m - 1 < m
  OBVIOUS
<1>3. m - 1 \in outside
  BY <1>2
<1>4. <<m - 1, m>> \in OpToRel(<, Nat)
  BY <1>2 DEF OpToRel
<1>5. QED  BY <1>1, <1>3, <1>4

LEMMA Least ==
    ASSUME NEW A, A \subseteq Nat, A # {}
    PROVE  \E m \in A : \A k \in A : m <= k
<1>1. PICK m \in A : \A k \in A : <<k, m>> \notin OpToRel(<, Nat)
  BY NatLessThanWellFounded, WFMin
<1>2. ASSUME NEW k \in A
      PROVE  m <= k
  <2>1. ~(k < m)
    <3>1. k < m => <<k, m>> \in OpToRel(<, Nat)
      BY DEF OpToRel
    <3>2. QED  BY <1>1, <3>1
  <2>2. k \in Nat /\ m \in Nat
    OBVIOUS
  <2>3. QED  BY <2>1, <2>2
<1>3. QED  BY <1>2

(* f is b at 0, and after that what g makes of the value before. *)
Recurs(f, m, b, g) == f = [i \in 0 .. m |-> IF i = 0 THEN b ELSE g[<<f[i - 1], i>>]]

LEMMA RecursOneMore ==
    ASSUME NEW S, NEW b \in S, NEW m \in Nat, NEW g, NEW f \in [0 .. m -> S], Recurs(f, m, b, g),
           \A x \in S : g[<<x, m + 1>>] \in S
    PROVE  \E h \in [0 .. m + 1 -> S] : Recurs(h, m + 1, b, g)
<1> DEFINE e(i) == IF i = 0 THEN b ELSE g[<<f[i - 1], i>>]
           h == [i \in 0 .. m + 1 |-> e(i)]
<1>1. f = [i \in 0 .. m |-> e(i)]
  BY DEF Recurs
<1>2. \A i \in 0 .. m : h[i] = f[i]
  <2> SUFFICES ASSUME NEW i \in 0 .. m
               PROVE  h[i] = f[i]
    OBVIOUS
  <2>1. i \in 0 .. m + 1
    OBVIOUS
  <2>2. h[i] = e(i)
    BY <2>1
  <2>3. f[i] = e(i)
    BY <1>1, Zenon
  <2>4. QED  BY <2>2, <2>3, Zenon
<1>3. \A i \in 0 .. m + 1 : i = 0 \/ (i # 0 /\ i - 1 \in 0 .. m)
  OBVIOUS
<1>4. h \in [0 .. m + 1 -> S]
  <2>1. \A i \in 0 .. m + 1 : i \in 0 .. m \/ i = m + 1
    OBVIOUS
  <2>2. h[m + 1] = g[<<f[m], m + 1>>] /\ f[m] \in S
    BY SMT
  <2>3. h[m + 1] \in S
    BY <2>2
  <2>4. \A i \in 0 .. m + 1 : h[i] \in S
    BY <1>2, <2>1, <2>3
  <2>5. QED  BY <2>4
<1> HIDE DEF h
<1>5. ASSUME NEW i \in 0 .. m + 1
      PROVE  e(i) = (IF i = 0 THEN b ELSE g[<<h[i - 1], i>>])
  BY <1>2, <1>3, Zenon
<1>6. h = [i \in 0 .. m + 1 |-> IF i = 0 THEN b ELSE g[<<h[i - 1], i>>]]
  BY <1>5, Zenon DEF h
<1>7. QED  BY <1>4, <1>6 DEF Recurs

(* There is such a function, however long. *)
LEMMA RecursExists ==
    ASSUME NEW S, NEW b \in S, NEW m \in Nat, NEW g,
           \A i \in 1 .. m : \A x \in S : g[<<x, i>>] \in S
    PROVE  \E f \in [0 .. m -> S] : Recurs(f, m, b, g)
<1> DEFINE I == { k \in Nat : k <= m => \E f \in [0 .. k -> S] : Recurs(f, k, b, g) }
<1>1. 0 \in I
  <2> DEFINE f == [i \in 0 .. 0 |-> b]
  <2>1. f \in [0 .. 0 -> S]
    OBVIOUS
  <2>2. f = [i \in 0 .. 0 |-> IF i = 0 THEN b ELSE g[<<f[i - 1], i>>]]
    OBVIOUS
  <2>3. QED  BY <2>1, <2>2 DEF Recurs
<1>2. ASSUME NEW k \in Nat, k \in I
      PROVE  k + 1 \in I
  <2> SUFFICES ASSUME k + 1 <= m
               PROVE  \E f \in [0 .. k + 1 -> S] : Recurs(f, k + 1, b, g)
    OBVIOUS
  <2>1. PICK f \in [0 .. k -> S] : Recurs(f, k, b, g)
    BY <1>2
  <2>2. k + 1 \in 1 .. m
    OBVIOUS
  <2>3. QED  BY <2>1, <2>2, RecursOneMore
<1> HIDE DEF I
<1>3. m \in I
  BY <1>1, <1>2, SetInduction
<1>4. QED  BY <1>3 DEF I

(* What is true at the beginning and kept by every step is true. *)
LEMMA RangeInduction ==
    ASSUME NEW m \in Nat, NEW S, 0 \in S, \A i \in 1 .. m : i - 1 \in S => i \in S
    PROVE  0 .. m \subseteq S
<1> DEFINE I == { k \in Nat : k <= m => k \in S }
<1>1. 0 \in I
  OBVIOUS
<1>2. ASSUME NEW k \in Nat, k \in I
      PROVE  k + 1 \in I
  <2> SUFFICES ASSUME k + 1 <= m
               PROVE  k + 1 \in S
    OBVIOUS
  <2>1. k \in S /\ k + 1 \in 1 .. m /\ (k + 1) - 1 = k
    BY <1>2
  <2>2. QED  BY <2>1
<1> HIDE DEF I
<1>3. Nat \subseteq I
  BY <1>1, <1>2, SetInduction
<1>4. QED  BY <1>3 DEF I

LEMMA Joined ==
    ASSUME NEW S, NEW s \in Seq(S), NEW t \in Seq(S)
    PROVE  /\ Len(s) \in Nat /\ Len(t) \in Nat
           /\ s \o t \in Seq(S) /\ Len(s \o t) = Len(s) + Len(t)
           /\ \A i \in 1 .. Len(s) : (s \o t)[i] = s[i]
           /\ \A i \in 1 .. Len(t) : (s \o t)[Len(s) + i] = t[i]
<1>1. Len(s) \in Nat /\ Len(t) \in Nat
  BY LenProperties
<1>2. /\ s \o t \in Seq(S) /\ Len(s \o t) = Len(s) + Len(t)
      /\ \A i \in 1 .. Len(s) + Len(t) : (s \o t)[i] = IF i <= Len(s) THEN s[i] ELSE t[i - Len(s)]
  BY ConcatProperties, Zenon
<1>3. \A i \in 1 .. Len(s) : i \in 1 .. Len(s) + Len(t) /\ i <= Len(s)
  BY <1>1
<1>4. \A i \in 1 .. Len(t) :
         Len(s) + i \in 1 .. Len(s) + Len(t) /\ ~(Len(s) + i <= Len(s)) /\ (Len(s) + i) - Len(s) = i
  BY <1>1
<1>5. \A i \in 1 .. Len(t) : (s \o t)[Len(s) + i] = t[i]
  BY <1>2, <1>4, Zenon
<1>6. QED  BY <1>1, <1>2, <1>3, <1>5, Zenon

(* A part of a sequence. *)
LEMMA Part ==
    ASSUME NEW S, NEW s \in Seq(S), NEW a \in Nat, NEW b \in Nat, a <= b, b <= Len(s)
    PROVE  /\ SubSeq(s, a + 1, b) \in Seq(S) /\ Len(SubSeq(s, a + 1, b)) = b - a
           /\ \A i \in 1 .. b - a : SubSeq(s, a + 1, b)[i] = s[a + i]
<1>1. Len(s) \in Nat
  BY LenProperties
<1>2. \A i \in a + 1 .. b : s[i] \in S
  <2>1. \A i \in a + 1 .. b : i \in 1 .. Len(s)
    BY <1>1
  <2>2. QED  BY <2>1, ElementOfSeq
<1>3. a + 1 \in Int /\ b \in Int /\ b - (a + 1) + 1 = b - a
  OBVIOUS
<1>4. /\ SubSeq(s, a + 1, b) \in Seq(S)
      /\ Len(SubSeq(s, a + 1, b)) = IF a + 1 <= b THEN b - (a + 1) + 1 ELSE 0
      /\ \A i \in 1 .. b - (a + 1) + 1 : SubSeq(s, a + 1, b)[i] = s[a + 1 + i - 1]
  BY <1>2, <1>3, SubSeqProperties
<1>5. \A i \in 1 .. b - a : a + 1 + i - 1 = a + i
  OBVIOUS
<1>6. (IF a + 1 <= b THEN b - (a + 1) + 1 ELSE 0) = b - a
  OBVIOUS
<1>7. QED  BY <1>3, <1>4, <1>5, <1>6, Zenon

LEMMA Longer ==
    ASSUME NEW S, NEW s \in Seq(S), NEW c \in S
    PROVE  /\ Len(s) \in Nat /\ s \o <<c>> \in Seq(S) /\ Len(s \o <<c>>) = Len(s) + 1
           /\ (s \o <<c>>)[Len(s) + 1] = c
           /\ \A i \in 1 .. Len(s) : (s \o <<c>>)[i] = s[i]
<1>1. <<c>> \in Seq(S) /\ Len(<<c>>) = 1 /\ <<c>>[1] = c /\ 1 \in 1 .. 1
  OBVIOUS
<1> DEFINE t == <<c>>
<1>2. t \in Seq(S)
  BY <1>1
<1>3. t[1] = c /\ Len(t) = 1
  BY <1>1
<1> HIDE DEF t
<1>4. /\ Len(s) \in Nat
      /\ s \o t \in Seq(S) /\ Len(s \o t) = Len(s) + Len(t)
      /\ \A i \in 1 .. Len(s) : (s \o t)[i] = s[i]
      /\ \A i \in 1 .. Len(t) : (s \o t)[Len(s) + i] = t[i]
  BY <1>2, Joined
<1>5. (s \o t)[Len(s) + 1] = c
  BY <1>1, <1>3, <1>4, Zenon
<1>6. QED  BY <1>3, <1>4, <1>5, Zenon DEF t

(* What holds of the empty sequence, and of a longer one if of the shorter. *)
LEMMA SeqInduction ==
    ASSUME NEW S, NEW P, << >> \in P,
           \A s \in Seq(S) : \A c \in S : s \in P => s \o <<c>> \in P
    PROVE  Seq(S) \subseteq P
<1> DEFINE I == { n \in Nat : \A s \in Seq(S) : Len(s) = n => s \in P }
<1>1. 0 \in I
  <2>1. \A s \in Seq(S) : Len(s) = 0 => s = << >>
    BY EmptySeq
  <2>2. QED  BY <2>1
<1>2. ASSUME NEW n \in Nat, n \in I
      PROVE  n + 1 \in I
  <2> SUFFICES ASSUME NEW s \in Seq(S), Len(s) = n + 1
               PROVE  s \in P
    OBVIOUS
  <2>1. s # << >>
    BY EmptySeq
  <2>2. PICK t \in Seq(S), c \in S : s = Append(t, c)
    BY <2>1, SequenceEmptyOrAppend
  <2>3. Len(t) \in Nat /\ Len(s) = Len(t) + 1 /\ s = t \o <<c>>
    BY <2>2, AppendProperties, AppendIsConcat, LenProperties
  <2>4. t \in P
    BY <1>2, <2>3
  <2>5. QED  BY <2>3, <2>4
<1> HIDE DEF I
<1>3. Nat \subseteq I
  BY <1>1, <1>2, SetInduction
<1>4. \A s \in Seq(S) : Len(s) \in I
  BY <1>3, LenProperties
<1>5. QED  BY <1>4 DEF I

(* x is what g makes of b, reading s from the left. *)
Run(x, s, b, g) ==
    \E f : f[0] = b /\ (\A i \in 1 .. Len(s) : f[i] = g[<<f[i - 1], s[i]>>]) /\ x = f[Len(s)]

LEMMA RunOneMore ==
    ASSUME NEW S, NEW s \in Seq(S), NEW c \in S, NEW b, NEW g, NEW x, NEW y,
           Run(x, s, b, g), Run(y, s \o <<c>>, b, g)
    PROVE  y = g[<<x, c>>]
<1> DEFINE n == Len(s)
           t == s \o <<c>>
<1>1. n \in Nat /\ Len(t) = n + 1 /\ t[n + 1] = c /\ \A i \in 1 .. n : t[i] = s[i]
  BY Longer
<1>2. PICK f : f[0] = b /\ (\A i \in 1 .. n : f[i] = g[<<f[i - 1], s[i]>>]) /\ x = f[n]
  BY Zenon DEF Run
<1>3. PICK h : h[0] = b /\ (\A i \in 1 .. Len(t) : h[i] = g[<<h[i - 1], t[i]>>]) /\ y = h[Len(t)]
  BY Zenon DEF Run
<1> HIDE DEF n, t
<1> DEFINE P == { i \in 0 .. n : h[i] = f[i] }
<1>4. 0 \in P
  BY <1>1, <1>2, <1>3
<1>5. ASSUME NEW i \in 1 .. n, i - 1 \in P
      PROVE  i \in P
  <2>1. i \in 0 .. n /\ i \in 1 .. Len(t) /\ h[i - 1] = f[i - 1]
    BY <1>1, <1>5
  <2>2. h[i] = g[<<h[i - 1], t[i]>>] /\ f[i] = g[<<f[i - 1], s[i]>>] /\ t[i] = s[i]
    BY <1>1, <1>2, <1>3, <2>1
  <2>3. h[i] = f[i]
    BY <2>1, <2>2, Zenon
  <2>4. QED  BY <2>1, <2>3
<1> HIDE DEF P
<1>6. n \in P
  <2>1. n \in Nat /\ n \in 0 .. n
    BY <1>1
  <2>2. 0 .. n \subseteq P
    BY <1>4, <1>5, <2>1, RangeInduction
  <2>3. QED  BY <2>1, <2>2
<1>7. h[n] = f[n]
  BY <1>6 DEF P
<1>8. n + 1 \in 1 .. n + 1 /\ (n + 1) - 1 = n
  BY <1>1
<1>9. y = g[<<h[n], t[n + 1]>>]
  BY <1>1, <1>3, <1>8, Zenon
<1>10. QED  BY <1>1, <1>2, <1>7, <1>9, Zenon

LEMMA RunOfNone ==
    ASSUME NEW b, NEW g, NEW x, Run(x, << >>, b, g)
    PROVE  x = b
BY DEF Run

Folds(f, s, b, g) == f = [i \in 0 .. Len(s) |-> IF i = 0 THEN b ELSE g[<<f[i - 1], s[i]>>]]

LEMMA RunExists ==
    ASSUME NEW S, NEW T, NEW s \in Seq(S), NEW b \in T, NEW g, \A x \in T : \A c \in S : g[<<x, c>>] \in T
    PROVE  \E f \in [0 .. Len(s) -> T] : Folds(f, s, b, g)
<1> DEFINE n == Len(s)
           h == [p \in T \X (1 .. n) |-> g[<<p[1], s[p[2]]>>]]
<1>1. n \in Nat /\ \A i \in 1 .. n : s[i] \in S
  BY LenProperties, ElementOfSeq
<1>2. \A i \in 1 .. n : \A x \in T : h[<<x, i>>] = g[<<x, s[i]>>]
  OBVIOUS
<1> HIDE DEF h, n
<1>3. \A i \in 1 .. n : \A x \in T : h[<<x, i>>] \in T
  BY <1>1, <1>2
<1>4. PICK f \in [0 .. n -> T] : Recurs(f, n, b, h)
  BY <1>1, <1>3, RecursExists, Zenon
<1>5. f = [i \in 0 .. n |-> IF i = 0 THEN b ELSE h[<<f[i - 1], i>>]]
  BY <1>4 DEF Recurs
<1>6. ASSUME NEW i \in 0 .. n, i # 0
      PROVE  h[<<f[i - 1], i>>] = g[<<f[i - 1], s[i]>>]
  <2>1. i \in 1 .. n /\ i - 1 \in 0 .. n
    BY <1>1, <1>6
  <2>2. f[i - 1] \in T
    BY <2>1
  <2>3. QED  BY <1>2, <2>1, <2>2
<1>7. \A i \in 0 .. n : (IF i = 0 THEN b ELSE h[<<f[i - 1], i>>]) = (IF i = 0 THEN b ELSE g[<<f[i - 1], s[i]>>])
  BY <1>6, Zenon
<1>8. f = [i \in 0 .. n |-> IF i = 0 THEN b ELSE g[<<f[i - 1], s[i]>>]]
  BY <1>5, <1>7, Zenon
<1>9. Folds(f, s, b, g) /\ f \in [0 .. Len(s) -> T]
  BY <1>8, Zenon DEF n, Folds
<1>10. QED  BY <1>9

JoinedOf(o, L, n) == o[0] = << >> /\ \A b \in 1 .. n : o[b] = o[b - 1] \o L[b]

HasBlocks(o, L, n, S) ==
    /\ \A b \in 0 .. n : o[b] \in Seq(S)
    /\ \A i \in 1 .. Len(o[n]) :
          \E b \in 1 .. n : \E k \in 1 .. Len(L[b]) : i = Len(o[b - 1]) + k /\ o[n][i] = L[b][k]
    /\ \A b \in 1 .. n : \A k \in 1 .. Len(L[b]) :
          Len(o[b - 1]) + k \in 1 .. Len(o[n]) /\ o[n][Len(o[b - 1]) + k] = L[b][k]

(* Where the parts are of which a sequence is joined. *)
LEMMA Blocks ==
    ASSUME NEW S, NEW n \in Nat, NEW L, NEW o, \A b \in 1 .. n : L[b] \in Seq(S), JoinedOf(o, L, n)
    PROVE  HasBlocks(o, L, n, S)
<1> DEFINE At(m, i) == \E b \in 1 .. m : \E k \in 1 .. Len(L[b]) : i = Len(o[b - 1]) + k /\ o[m][i] = L[b][k]
           In(m, b, k) == Len(o[b - 1]) + k \in 1 .. Len(o[m]) /\ o[m][Len(o[b - 1]) + k] = L[b][k]
           Good(m) == /\ o[m] \in Seq(S) /\ Len(o[m]) \in Nat
                      /\ \A i \in 1 .. Len(o[m]) : At(m, i)
                      /\ \A b \in 1 .. m : \A k \in 1 .. Len(L[b]) : In(m, b, k)
           P == { m \in 0 .. n : Good(m) }
<1>0. o[0] = << >> /\ \A b \in 1 .. n : o[b] = o[b - 1] \o L[b]
  BY DEF JoinedOf
<1>1. 0 \in P
  <2>1. o[0] \in Seq(S) /\ Len(o[0]) = 0
    BY <1>0, EmptySeq
  <2>2. Good(0)
    BY <2>1
  <2> HIDE DEF Good
  <2>3. 0 \in 0 .. n
    OBVIOUS
  <2>4. QED  BY <2>2, <2>3
<1>2. ASSUME NEW m \in 1 .. n, m - 1 \in P
      PROVE  m \in P
  <2> DEFINE p == m - 1
             s == o[p]
             t == L[m]
  <2>1. p \in Nat /\ m = p + 1 /\ m - 1 = p /\ m \in 0 .. n /\ p \in P
    BY <1>2
  <2>2. s \in Seq(S) /\ t \in Seq(S) /\ Good(p)
    BY <1>2
  <2>3. o[m] = s \o t
    BY <1>0
  <2> HIDE DEF p, Good, P, t
  <2>4. /\ Len(s) \in Nat /\ Len(t) \in Nat
        /\ s \o t \in Seq(S) /\ Len(s \o t) = Len(s) + Len(t)
        /\ \A i \in 1 .. Len(s) : (s \o t)[i] = s[i]
        /\ \A i \in 1 .. Len(t) : (s \o t)[Len(s) + i] = t[i]
    BY <2>2, Joined
  <2>5. /\ o[m] \in Seq(S) /\ Len(o[m]) = Len(o[p]) + Len(t) /\ Len(o[p]) \in Nat /\ Len(t) \in Nat
        /\ \A i \in 1 .. Len(o[p]) : o[m][i] = o[p][i]
        /\ \A i \in 1 .. Len(t) : o[m][Len(o[p]) + i] = t[i]
    BY <2>3, <2>4, Zenon
  <2>6. /\ \A i \in 1 .. Len(o[p]) : At(p, i)
        /\ \A b \in 1 .. p : \A k \in 1 .. Len(L[b]) : In(p, b, k)
    BY <2>2, Zenon DEF Good
  <2>7. \A b \in 1 .. p : b \in 1 .. m
    BY <2>1
  <2>8. ASSUME NEW i \in 1 .. Len(o[m])
        PROVE  At(m, i)
    <3>1. CASE i <= Len(o[p])
      <4>1. i \in 1 .. Len(o[p])
        BY <2>5, <3>1
      <4>2. PICK b \in 1 .. p : \E k \in 1 .. Len(L[b]) : i = Len(o[b - 1]) + k /\ o[p][i] = L[b][k]
        BY <2>6, <4>1, Zenon
      <4>3. o[m][i] = o[p][i]
        BY <2>5, <4>1, Zenon
      <4>4. QED  BY <2>7, <4>2, <4>3, Zenon
    <3>2. CASE ~(i <= Len(o[p]))
      <4>1. i - Len(o[p]) \in 1 .. Len(t) /\ i = Len(o[p]) + (i - Len(o[p]))
        BY <2>5, <3>2
      <4> DEFINE k == i - Len(o[p])
      <4>2. k \in 1 .. Len(t) /\ i = Len(o[p]) + k
        BY <4>1
      <4> HIDE DEF k
      <4>3. o[m][i] = t[k]
        BY <2>5, <4>2, Zenon
      <4>4. m \in 1 .. m
        BY <2>1
      <4>5. QED  BY <2>1, <4>2, <4>3, <4>4, Zenon DEF t
    <3>3. QED  BY <3>1, <3>2
  <2>9. ASSUME NEW b \in 1 .. m, NEW k \in 1 .. Len(L[b])
        PROVE  In(m, b, k)
    <3>1. CASE b = m
      <4>1. k \in 1 .. Len(t) /\ b - 1 = p /\ L[b] = t
        BY <2>1, <3>1 DEF t
      <4>2. o[m][Len(o[p]) + k] = t[k]
        BY <2>5, <4>1, Zenon
      <4>3. Len(o[p]) + k \in 1 .. Len(o[m])
        BY <2>5, <4>1
      <4>4. QED  BY <4>1, <4>2, <4>3, Zenon
    <3>2. CASE b # m
      <4>1. b \in 1 .. p
        BY <2>1, <3>2
      <4>2. Len(o[b - 1]) + k \in 1 .. Len(o[p]) /\ o[p][Len(o[b - 1]) + k] = L[b][k]
        BY <2>6, <4>1, Zenon
      <4>3. o[m][Len(o[b - 1]) + k] = o[p][Len(o[b - 1]) + k]
        BY <2>5, <4>2, Zenon
      <4> DEFINE j == Len(o[b - 1]) + k
      <4>4. j \in 1 .. Len(o[p])
        BY <4>2
      <4> HIDE DEF j
      <4>5. j \in 1 .. Len(o[m])
        BY <2>5, <4>4
      <4>6. Len(o[b - 1]) + k \in 1 .. Len(o[m])
        BY <4>5 DEF j
      <4>7. QED  BY <4>2, <4>3, <4>6, Zenon
    <3>3. QED  BY <3>1, <3>2
  <2>10. Len(o[m]) \in Nat
    BY <2>5
  <2>11. Good(m)
    BY <2>5, <2>8, <2>9, <2>10, Zenon DEF Good
  <2>12. QED  BY <2>1, <2>11 DEF P
<1> HIDE DEF P, Good
<1>3. 0 .. n \subseteq P
  BY <1>1, <1>2, RangeInduction
<1>4. \A m \in 0 .. n : Good(m)
  BY <1>3 DEF P
<1>5. n \in 0 .. n
  OBVIOUS
<1>6. QED  BY <1>4, <1>5, Zenon DEF Good, HasBlocks
===============================================================================
