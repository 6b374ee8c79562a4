----------------------------- MODULE NetplayProofs -----------------------------
(***************************************************************************)
(* What holds of a whole netplay session, for every number of slots and of *)
(* consoles, any nicknames, pads and delays, and any number of clicks.     *)
(*                                                                         *)
(* Along is the fold of an operator over what is on its way: Ends is what  *)
(* it computes, and the lemmas about Ends are proved by induction over how *)
(* far it has come.  Five invariants build on each other: TypeInv, AskInv  *)
(* (who has asked for a controller), GameInv (what the consoles have       *)
(* played and will play), the parts of Delay, and PictureInv (what a       *)
(* console will know when it has heard what is on its way to it).          *)
(***************************************************************************)
EXTENDS Netplay, SequenceTheorems, WellFoundedInduction, TLAPS

\* Every set of numbers has a least one, hence induction.
LEMMA Least ==
    ASSUME NEW T, T \subseteq Nat, T # {}
    PROVE  \E n \in T : \A m \in T : n <= m
<1>1. PICK n \in T : \A m \in T : ~(<<m, n>> \in OpToRel(<, Nat))
  BY WFMin, NatLessThanWellFounded
<1>2. \A m \in T : <<m, n>> \in OpToRel(<, Nat) <=> m < n
  BY <1>1 DEF OpToRel
<1>3. \A m \in T : ~(m < n)
  BY <1>1, <1>2
<1>4. n \in Nat /\ \A m \in T : m \in Nat
  OBVIOUS
<1>5. \A m \in T : n <= m
  BY <1>3, <1>4
<1> QED
  BY <1>5

LEMMA Induction ==
    ASSUME NEW T, 0 \in T, \A n \in T \cap Nat : n + 1 \in T
    PROVE  Nat \subseteq T
<1> SUFFICES ASSUME Nat \ T # {} PROVE FALSE
  OBVIOUS
<1>1. PICK n \in Nat \ T : \A m \in Nat \ T : n <= m
  BY Least
<1>2. n # 0 /\ n - 1 \in Nat
  BY <1>1
<1>3. n - 1 \in T \cap Nat
  BY <1>1, <1>2
<1>4. (n - 1) + 1 \in T
  BY <1>3
<1> QED
  BY <1>1, <1>2, <1>4

Together(n, f, g) ==
    f[0] = g[0] /\ \A k \in 1 .. n : f[k-1] = g[k-1] => f[k] = g[k]

LEMMA SameSteps ==
    ASSUME NEW n \in Nat, NEW f, NEW g, Together(n, f, g)
    PROVE  \A k \in 0 .. n : f[k] = g[k]
<1> USE DEF Together
<1> DEFINE T == {k \in Nat : k <= n => f[k] = g[k]}
<1>1. 0 \in T
  OBVIOUS
<1>2. ASSUME NEW k \in T \cap Nat PROVE k + 1 \in T
  <2>1. CASE k + 1 <= n
    <3>1. k + 1 \in 1 .. n /\ (k + 1) - 1 = k /\ f[k] = g[k]
      BY <2>1
    <3> QED
      BY <3>1
  <2> QED
    BY <2>1
<1> HIDE DEF T
<1>3. Nat \subseteq T
  BY <1>1, <1>2, Induction
<1> QED
  BY <1>3 DEF T

Steps(A, M) == [A \X M -> A]

\* The way of step from a along s.
Way(step, a, s, f) ==
    f[0] = a /\ \A k \in 1 .. Len(s) : f[k] = step[<<f[k-1], s[k]>>]

Ends(step, a, s) ==
    (CHOOSE f : f = [k \in 0 .. Len(s) |-> IF k = 0 THEN a ELSE step[<<f[k-1], s[k]>>]])[Len(s)]

LEMMA WayExists ==
    ASSUME NEW A, NEW M, NEW a \in A, NEW s \in Seq(M), NEW step \in Steps(A, M)
    PROVE  \E f \in [0 .. Len(s) -> A] : Way(step, a, s, f)
<1> DEFINE Start(k, f) == f[0] = a /\ \A j \in 1 .. k : f[j] = step[<<f[j-1], s[j]>>]
           T == {k \in Nat : k <= Len(s) => \E f \in [0 .. k -> A] : Start(k, f)}
<1>0. Len(s) \in Nat /\ \A k \in 1 .. Len(s) : s[k] \in M
  OBVIOUS
<1>1. 0 \in T
  <2>1. [k \in 0 .. 0 |-> a] \in [0 .. 0 -> A] /\ Start(0, [k \in 0 .. 0 |-> a])
    OBVIOUS
  <2> QED
    BY <2>1
<1>2. ASSUME NEW k \in T \cap Nat PROVE k + 1 \in T
  <2> SUFFICES ASSUME k + 1 <= Len(s)
               PROVE  \E f \in [0 .. k+1 -> A] : Start(k+1, f)
    OBVIOUS
  <2>1. k <= Len(s)
    BY <1>0
  <2>2. PICK f \in [0 .. k -> A] : Start(k, f)
    BY <2>1
  <2>3. PICK b \in A : b = step[<<f[k], s[k+1]>>]
    <3>1. f[k] \in A /\ s[k+1] \in M
      BY <1>0
    <3> QED
      BY <3>1 DEF Steps
  <2>4. [j \in 0 .. k+1 |-> IF j = k+1 THEN b ELSE f[j]] \in [0 .. k+1 -> A]
    OBVIOUS
  <2>5. PICK g \in [0 .. k+1 -> A] : g = [j \in 0 .. k+1 |-> IF j = k+1 THEN b ELSE f[j]]
    BY <2>4
  <2>6. g[k+1] = b /\ \A j \in 0 .. k : g[j] = f[j]
    BY <2>5
  <2>7. ASSUME NEW j \in 1 .. k+1
        PROVE  g[j] = step[<<g[j-1], s[j]>>]
    <3>1. CASE j = k+1
      <4>1. j - 1 = k /\ g[j-1] = f[k] /\ g[j] = b
        BY <2>6, <3>1
      <4> QED
        BY <2>3, <3>1, <4>1
    <3>2. CASE j # k+1
      <4>1. j \in 1 .. k /\ j-1 \in 0 .. k /\ j \in 0 .. k
        BY <3>2
      <4> QED
        BY <2>2, <2>6, <4>1
    <3> QED
      BY <3>1, <3>2
  <2>8. g[0] = a
    BY <2>2, <2>6
  <2> QED
    BY <2>7, <2>8
<1> HIDE DEF T
<1>3. Nat \subseteq T
  BY <1>1, <1>2, Induction
<1>4. \E f \in [0 .. Len(s) -> A] : Start(Len(s), f)
  BY <1>0, <1>3 DEF T
<1> QED
  BY <1>4 DEF Way

LEMMA OneWay ==
    ASSUME NEW M, NEW s \in Seq(M), NEW step, NEW a, NEW f, Way(step, a, s, f)
    PROVE  Ends(step, a, s) = f[Len(s)]
<1> DEFINE len == Len(s)
           Is(g) == g = [k \in 0 .. len |-> IF k = 0 THEN a ELSE step[<<g[k-1], s[k]>>]]
           h == [k \in 0 .. len |-> f[k]]
           c == CHOOSE g : Is(g)
<1>1. len \in Nat
  OBVIOUS
<1>2. Is(h)
  <2>1. ASSUME NEW k \in 0 .. len PROVE f[k] = IF k = 0 THEN a ELSE step[<<h[k-1], s[k]>>]
    <3>1. k # 0 => k \in 1 .. len /\ k-1 \in 0 .. len
      OBVIOUS
    <3> QED
      BY <3>1 DEF Way
  <2> QED
    BY <2>1
<1> HIDE DEF h
<1>3. Is(c)
  BY <1>2
<1> HIDE DEF c
<1>4. c[0] = a /\ \A k \in 1 .. len : c[k] = step[<<c[k-1], s[k]>>]
  BY <1>3
<1>5. f[0] = a /\ \A k \in 1 .. len : f[k] = step[<<f[k-1], s[k]>>]
  BY DEF Way
<1> HIDE DEF len
<1>7. \A k \in 1 .. len : c[k-1] = f[k-1] => c[k] = f[k]
  BY <1>4, <1>5
<1>9. c[0] = f[0]
  BY <1>4, <1>5
<1>10. Together(len, c, f)
  BY <1>7, <1>9 DEF Together
<1>8. \A k \in 0 .. len : c[k] = f[k]
  BY <1>1, <1>10, SameSteps
<1>6. Ends(step, a, s) = c[len]
  BY DEF Ends, c, len
<1> QED
  BY <1>1, <1>6, <1>8 DEF len

LEMMA EndsNothing ==
    ASSUME NEW step, NEW a
    PROVE  Ends(step, a, <<>>) = a
<1>1. Way(step, a, <<>>, [k \in {0} |-> a])
  BY DEF Way
<1>2. <<>> \in Seq({}) /\ Len(<<>>) = 0
  OBVIOUS
<1> QED
  BY <1>1, <1>2, OneWay

LEMMA EndsAll ==
    ASSUME NEW A, NEW M, NEW a \in A, NEW s \in Seq(M), NEW t \in Seq(M),
           NEW step \in Steps(A, M)
    PROVE  /\ Ends(step, a, s) \in A
           /\ Ends(step, a, s \o t) = Ends(step, Ends(step, a, s), t)
<1>1. PICK f \in [0 .. Len(s) -> A] : Way(step, a, s, f)
  BY WayExists
<1> DEFINE b == f[Len(s)]
<1>2. Ends(step, a, s) = b /\ b \in A
  BY <1>1, OneWay
<1>3. PICK g \in [0 .. Len(t) -> A] : Way(step, b, t, g)
  BY <1>2, WayExists
<1> DEFINE h == [k \in 0 .. Len(s) + Len(t) |-> IF k <= Len(s) THEN f[k] ELSE g[k - Len(s)]]
<1>4. /\ s \o t \in Seq(M) /\ Len(s \o t) = Len(s) + Len(t)
      /\ Len(s) \in Nat /\ Len(t) \in Nat
  OBVIOUS
<1>5. ASSUME NEW k \in 1 .. Len(s \o t)
      PROVE  h[k] = step[<<h[k-1], (s \o t)[k]>>]
  <2>1. k - 1 \in 0 .. Len(s) + Len(t) /\ k \in 0 .. Len(s) + Len(t)
    BY <1>4
  <2>2. CASE k <= Len(s)
    <3>1. (s \o t)[k] = s[k] /\ k \in 1 .. Len(s)
      BY <1>4, <2>2
    <3>2. h[k] = f[k] /\ h[k-1] = f[k-1]
      BY <2>1, <2>2, <1>4
    <3> QED
      BY <1>1, <3>1, <3>2 DEF Way
  <2>3. CASE k > Len(s)
    <3> DEFINE j == k - Len(s)
    <3>1. (s \o t)[k] = t[j] /\ j \in 1 .. Len(t)
      BY <1>4, <2>3
    <3>2. h[k] = g[j]
      BY <2>1, <2>3, <1>4
    <3>3. h[k-1] = g[j-1]
      <4>1. CASE j = 1
        <5>1. h[k-1] = f[Len(s)] /\ g[0] = b
          BY <1>3, <1>4, <2>1, <4>1 DEF Way
        <5> QED
          BY <4>1, <5>1
      <4>2. CASE j # 1
        <5>1. ~(k - 1 <= Len(s)) /\ (k - 1) - Len(s) = j - 1
          BY <1>4, <3>1, <4>2
        <5> QED
          BY <2>1, <5>1
      <4> QED
        BY <4>1, <4>2
    <3> HIDE DEF j, h
    <3> QED
      BY <1>3, <3>1, <3>2, <3>3 DEF Way
  <2>4. k \in Int /\ Len(s) \in Int
    BY <1>4
  <2>5. k <= Len(s) \/ k > Len(s)
    BY <2>4
  <2> HIDE DEF h
  <2> QED
    BY <2>2, <2>3, <2>5
<1>6. h[0] = a
  BY <1>1, <1>4 DEF Way
<1>7. h[Len(s \o t)] = g[Len(t)]
  <2>1. CASE Len(t) = 0
    <3>1. h[Len(s \o t)] = b
      BY <1>4, <2>1
    <3> QED
      BY <1>3, <2>1, <3>1 DEF Way
  <2>2. CASE Len(t) # 0
    BY <1>4, <2>2
  <2> QED
    BY <2>1, <2>2
<1> HIDE DEF h, b
<1>10. Way(step, a, s \o t, h)
  BY <1>5, <1>6 DEF Way
<1>8. Ends(step, a, s \o t) = h[Len(s \o t)]
  BY <1>4, <1>10, OneWay
<1>9. Ends(step, b, t) = g[Len(t)]
  BY <1>3, OneWay
<1> QED
  BY <1>2, <1>7, <1>8, <1>9

LEMMA EndsOne ==
    ASSUME NEW A, NEW M, NEW a \in A, NEW m \in M, NEW step \in Steps(A, M)
    PROVE  Ends(step, a, <<m>>) = step[<<a, m>>]
<1>0. <<m>> \in Seq(M)
  OBVIOUS
<1>1. PICK f \in [0 .. Len(<<m>>) -> A] : Way(step, a, <<m>>, f)
  BY <1>0, WayExists
<1>2. Len(<<m>>) = 1 /\ <<m>>[1] = m /\ <<m>> \in Seq(M)
  OBVIOUS
<1>3. f[0] = a /\ f[1] = step[<<f[0], m>>]
  BY <1>1, <1>2 DEF Way
<1> QED
  BY <1>1, <1>2, <1>3, OneWay

LEMMA EndsHead ==
    ASSUME NEW A, NEW M, NEW a \in A, NEW s \in Seq(M), s # <<>>,
           NEW step \in Steps(A, M)
    PROVE  Ends(step, a, s) = Ends(step, step[<<a, Head(s)>>], Tail(s))
<1>0. Head(s) \in M /\ Tail(s) \in Seq(M) /\ s = <<Head(s)>> \o Tail(s)
  OBVIOUS
<1>1. PICK p \in M, r \in Seq(M) : p = Head(s) /\ r = Tail(s) /\ s = <<p>> \o r
  BY <1>0
<1>2. <<p>> \in Seq(M)
  OBVIOUS
<1>3. Ends(step, a, <<p>>) = step[<<a, p>>]
  BY EndsOne
<1>4. \A q \in Seq(M) : Ends(step, a, q \o r) = Ends(step, Ends(step, a, q), r)
  BY EndsAll
<1> QED
  BY <1>1, <1>2, <1>3, <1>4

\* A step that adds to what is there.
Adds(A, M, zero, step, plus) ==
    /\ zero \in A /\ step \in Steps(A, M) /\ plus \in Steps(A, A)
    /\ \A a \in A : plus[<<a, zero>>] = a
    /\ \A a, b \in A, m \in M : step[<<plus[<<a, b>>], m>>] = plus[<<a, step[<<b, m>>]>>]

LEMMA EndsFrom ==
    ASSUME NEW A, NEW M, NEW zero, NEW step, NEW plus, Adds(A, M, zero, step, plus),
           NEW a \in A, NEW s \in Seq(M)
    PROVE  Ends(step, a, s) = plus[<<a, Ends(step, zero, s)>>]
<1>0. zero \in A /\ step \in Steps(A, M)
  BY DEF Adds
<1>1. PICK f \in [0 .. Len(s) -> A] : Way(step, a, s, f)
  BY <1>0, WayExists
<1>2. PICK g \in [0 .. Len(s) -> A] : Way(step, zero, s, g)
  BY <1>0, WayExists
<1>3. PICK h : h = [k \in 0 .. Len(s) |-> plus[<<a, g[k]>>]]
  OBVIOUS
<1>4. Len(s) \in Nat /\ \A k \in 1 .. Len(s) : k-1 \in 0 .. Len(s) /\ s[k] \in M
  OBVIOUS
<1>5. f[0] = h[0]
  <2>1. g[0] = zero /\ f[0] = a /\ h[0] = plus[<<a, g[0]>>]
    BY <1>1, <1>2, <1>3, <1>4 DEF Way
  <2> QED
    BY <2>1 DEF Adds
<1>6. ASSUME NEW k \in 1 .. Len(s), f[k-1] = h[k-1]
      PROVE  f[k] = h[k]
  <2>1. PICK b \in A, m \in M : b = g[k-1] /\ m = s[k]
    BY <1>4
  <2>2. f[k] = step[<<f[k-1], m>>] /\ g[k] = step[<<b, m>>]
    BY <1>1, <1>2, <2>1 DEF Way
  <2>3. h[k] = plus[<<a, g[k]>>] /\ h[k-1] = plus[<<a, b>>]
    BY <1>3, <1>4, <2>1
  <2>4. step[<<plus[<<a, b>>], m>>] = plus[<<a, step[<<b, m>>]>>]
    BY DEF Adds
  <2> QED
    BY <1>6, <2>2, <2>3, <2>4
<1>7. f[Len(s)] = h[Len(s)]
  <2>1. Together(Len(s), f, h)
    BY <1>5, <1>6 DEF Together
  <2> QED
    BY <1>4, <2>1, SameSteps
<1>8. h[Len(s)] = plus[<<a, g[Len(s)]>>]
  BY <1>3, <1>4
<1> QED
  BY <1>1, <1>2, <1>7, <1>8, OneWay

AddsUp(A, M, zero, step, plus) ==
    /\ Ends(step, zero, <<>>) = zero
    /\ \A m \in M : Ends(step, zero, <<m>>) = step[<<zero, m>>]
    /\ \A s, t \in Seq(M) :
         /\ Ends(step, zero, s) \in A
         /\ Ends(step, zero, s \o t) = plus[<<Ends(step, zero, s), Ends(step, zero, t)>>]

LEMMA EndsAdd ==
    ASSUME NEW A, NEW M, NEW zero, NEW step, NEW plus, Adds(A, M, zero, step, plus)
    PROVE  AddsUp(A, M, zero, step, plus)
<1>0. zero \in A /\ step \in Steps(A, M)
  BY DEF Adds
<1>1. ASSUME NEW s \in Seq(M), NEW t \in Seq(M)
      PROVE  /\ Ends(step, zero, s) \in A
             /\ Ends(step, zero, s \o t) = plus[<<Ends(step, zero, s), Ends(step, zero, t)>>]
  <2>1. /\ Ends(step, zero, s) \in A
        /\ Ends(step, zero, s \o t) = Ends(step, Ends(step, zero, s), t)
    BY <1>0, EndsAll
  <2> QED
    BY <2>1, EndsFrom
<1>2. \A m \in M : Ends(step, zero, <<m>>) = step[<<zero, m>>]
  BY <1>0, EndsOne
<1> QED
  BY <1>1, <1>2, EndsNothing DEF AddsUp

\* FlattenSeq, one sequence after another.
LEMMA FlatWay ==
    ASSUME NEW M, NEW s \in Seq(Seq(M)), s # <<>>
    PROVE  \E g \in [0 .. Len(s) -> Seq(M)] :
              /\ g[0] = <<>> /\ g[Len(s)] = FlattenSeq(s)
              /\ \A k \in 1 .. Len(s) : g[k] = g[k-1] \o s[k]
<1> DEFINE join == [x \in Seq(M) \X Seq(M) |-> x[1] \o x[2]]
           Is(it) == it = [i \in 1 .. Len(s) |-> IF i = 1 THEN s[i] ELSE it[i-1] \o s[i]]
           c == CHOOSE it : Is(it)
<1>1. Len(s) \in Nat \ {0} /\ \A k \in 1 .. Len(s) : s[k] \in Seq(M)
  OBVIOUS
<1>2. join \in Steps(Seq(M), Seq(M)) /\ <<>> \in Seq(M)
  BY DEF Steps
<1>3. \A x, y \in Seq(M) : join[<<x, y>>] = x \o y
  OBVIOUS
<1> HIDE DEF join
<1>4. PICK g \in [0 .. Len(s) -> Seq(M)] : Way(join, <<>>, s, g)
  BY <1>2, WayExists
<1>5. \A k \in 1 .. Len(s) : k-1 \in 0 .. Len(s) /\ k \in 0 .. Len(s)
  BY <1>1
<1>6. g[0] = <<>> /\ \A k \in 1 .. Len(s) : g[k] = g[k-1] \o s[k]
  BY <1>1, <1>3, <1>4, <1>5 DEF Way
<1>7. Is([i \in 1 .. Len(s) |-> g[i]])
  <2>1. 1 \in 1 .. Len(s) => g[1] = s[1]
    <3>1. 1 \in 1 .. Len(s) /\ 1 - 1 = 0
      BY <1>1
    <3>2. g[1] = g[0] \o s[1]
      BY <1>6, <3>1
    <3> QED
      BY <1>1, <1>6, <3>1, <3>2
  <2>2. \A i \in 1 .. Len(s) : i # 1 => i-1 \in 1 .. Len(s)
    BY <1>1
  <2> QED
    BY <1>6, <2>1, <2>2
<1>8. Is(c)
  BY <1>7
<1>9. FlattenSeq(s) = c[Len(s)]
  BY <1>1 DEF FlattenSeq
<1> HIDE DEF c
<1>14. c[1] = s[1] /\ \A i \in 1 .. Len(s) : i # 1 => c[i] = c[i-1] \o s[i]
  <2>1. \A i \in 1 .. Len(s) : c[i] = IF i = 1 THEN s[i] ELSE c[i-1] \o s[i]
    BY <1>8
  <2> HIDE DEF Is
  <2>2. 1 \in 1 .. Len(s)
    BY <1>1
  <2>3. c[1] = IF 1 = 1 THEN s[1] ELSE c[1-1] \o s[1]
    BY <2>1, <2>2
  <2> QED
    BY <2>1, <2>3
<1> HIDE DEF Is
<1>10. PICK d : d = [k \in 0 .. Len(s) |-> IF k = 0 THEN <<>> ELSE c[k]]
  OBVIOUS
<1>11. Together(Len(s), d, g)
  <2>1. d[0] = <<>> /\ \A k \in 1 .. Len(s) : d[k] = c[k] /\ (k # 1 => d[k-1] = c[k-1])
    BY <1>1, <1>10
  <2>2. ASSUME NEW k \in 1 .. Len(s), d[k-1] = g[k-1]
        PROVE  d[k] = g[k]
    <3>1. CASE k = 1
      <4>1. d[k] = s[1] /\ s[1] \in Seq(M) /\ k - 1 = 0
        BY <1>1, <1>14, <2>1, <3>1
      <4>2. g[k] = <<>> \o s[1]
        BY <1>6, <3>1, <4>1
      <4> QED
        BY <4>1, <4>2
    <3>2. CASE k # 1
      BY <1>6, <1>14, <2>1, <2>2, <3>2
    <3> QED
      BY <3>1, <3>2
  <2> QED
    BY <1>6, <2>1, <2>2 DEF Together
<1>12. d[Len(s)] = g[Len(s)]
  <2>1. Len(s) \in 0 .. Len(s) /\ Len(s) \in Nat
    BY <1>1
  <2> QED
    BY <1>11, <2>1, SameSteps
<1>13. d[Len(s)] = c[Len(s)]
  BY <1>1, <1>10
<1> QED
  BY <1>6, <1>9, <1>12, <1>13

\* What Along computes for each of the operators it is used with.
HeedStep  == [x \in Views \X Sent |-> Heeded(x[1], x[2])]
PlayStep  == [x \in Seq(Sent) \X Sent |-> Playing(x[1], x[2])]
FrameStep == [x \in Nat \X Sent |-> FrameMore(x[1], x[2])]
WaitStep  == [x \in Nat \X Pieces |-> Waited(x[1], x[2])]

LEMMA Numbers ==
    /\ Slots = 0 .. N-1 /\ N \in Nat /\ N > 0
    /\ None \notin Slots /\ Accepting = -1 /\ Sending = N
BY ProtocolAssumption DEF Slots, None, Accepting, Sending

LEMMA HearType ==
    ASSUME NEW v \in Views, NEW m \in Messages
    PROVE  Hear(v, m) \in Views
<1>1. /\ v = [name |-> v.name, ctrl |-> v.ctrl]
      /\ v.name \in [Slots -> SlotNames \cup {NoOne}]
      /\ v.ctrl \in [Slots -> Slots \cup {None}]
  BY DEF Views
<1>2. CASE m.cmd = "NEWCLIENT"
  <2>1. m.id \in Slots /\ m.name \in SlotNames
    BY <1>2 DEF Messages, Relay
  <2>2. Hear(v, m) = [v EXCEPT !.name = [@ EXCEPT ![m.id] = m.name]]
    BY <1>2 DEF Hear
  <2> QED
    BY <1>1, <2>1, <2>2 DEF Views
<1>3. CASE m.cmd = "PICKUPCONTROLLER"
  <2>1. m.id \in Slots /\ m.port \in Slots
    BY <1>3 DEF Messages, Relay
  <2>2. Hear(v, m) = [v EXCEPT !.ctrl = [@ EXCEPT ![m.port] = m.id]]
    BY <1>3 DEF Hear
  <2> QED
    BY <1>1, <2>1, <2>2 DEF Views
<1>4. CASE m.cmd = "DROPCONTROLLER"
  <2>1. m.port \in Slots
    BY <1>4 DEF Messages, Relay
  <2>2. Hear(v, m) = [v EXCEPT !.ctrl = [@ EXCEPT ![m.port] = None]]
    BY <1>4 DEF Hear
  <2> QED
    BY <1>1, <2>1, <2>2 DEF Views
<1>5. CASE m.cmd = "CLIENTDISCONNECT"
  <2>1. m.id \in Slots
    BY <1>5 DEF Messages, Relay
  <2>2. Hear(v, m) =
          [name |-> [v.name EXCEPT ![m.id] = NoOne],
           ctrl |-> [n \in Slots |-> IF v.ctrl[n] = m.id THEN None ELSE v.ctrl[n]]]
    BY <1>5 DEF Hear
  <2> QED
    BY <1>1, <2>1, <2>2 DEF Views
<1>6. CASE m.cmd = "RELAY"
  BY <1>6 DEF Hear
<1>7. m.cmd \in {"NEWCLIENT", "PICKUPCONTROLLER", "DROPCONTROLLER", "CLIENTDISCONNECT", "RELAY"}
  BY DEF Messages, Relay
<1> QED
  BY <1>2, <1>3, <1>4, <1>5, <1>6, <1>7

LEMMA HeedType == HeedStep \in Steps(Views, Sent)
BY HearType DEF HeedStep, Steps, Heeded

LEMMA PlayType == PlayStep \in Steps(Seq(Sent), Sent)
BY DEF PlayStep, Steps, Playing

LEMMA FrameType == FrameStep \in Steps(Nat, Sent)
BY DEF FrameStep, Steps, FrameMore

LEMMA WaitType == WaitStep \in Steps(Nat, Pieces)
BY DEF WaitStep, Steps, Waited, Passes

LEMMA AlongHeeded ==
    ASSUME NEW v \in Views, NEW s \in Seq(Sent)
    PROVE  Along(Heeded, v, s) = Ends(HeedStep, v, s)
<1> DEFINE Is(g) == g = [k \in 0 .. Len(s) |-> IF k = 0 THEN v ELSE Heeded(g[k-1], s[k])]
           c == CHOOSE g : Is(g)
<1>1. PICK f \in [0 .. Len(s) -> Views] : Way(HeedStep, v, s, f)
  BY HeedType, WayExists
<1>2. Len(s) \in Nat /\ \A k \in 1 .. Len(s) : k-1 \in 0 .. Len(s) /\ s[k] \in Sent
  OBVIOUS
<1>3. f[0] = v /\ \A k \in 1 .. Len(s) : f[k] = Heeded(f[k-1], s[k])
  BY <1>1, <1>2 DEF Way, HeedStep
<1>4. Is(f)
  BY <1>2, <1>3
<1>5. Is(c)
  BY <1>4
<1>6. Along(Heeded, v, s) = c[Len(s)]
  BY DEF Along
<1> HIDE DEF c
<1>7. \A k \in 0 .. Len(s) : c[k] = IF k = 0 THEN v ELSE Heeded(c[k-1], s[k])
  BY <1>5
<1> HIDE DEF Is
<1>8. Together(Len(s), c, f)
  BY <1>2, <1>3, <1>7 DEF Together
<1>9. c[Len(s)] = f[Len(s)]
  BY <1>2, <1>8, SameSteps
<1> QED
  BY <1>1, <1>6, <1>9, OneWay

LEMMA AlongPlaying ==
    ASSUME NEW v \in Seq(Sent), NEW s \in Seq(Sent)
    PROVE  Along(Playing, v, s) = Ends(PlayStep, v, s)
<1> DEFINE Is(g) == g = [k \in 0 .. Len(s) |-> IF k = 0 THEN v ELSE Playing(g[k-1], s[k])]
           c == CHOOSE g : Is(g)
<1>1. PICK f \in [0 .. Len(s) -> Seq(Sent)] : Way(PlayStep, v, s, f)
  BY PlayType, WayExists
<1>2. Len(s) \in Nat /\ \A k \in 1 .. Len(s) : k-1 \in 0 .. Len(s) /\ s[k] \in Sent
  OBVIOUS
<1>3. f[0] = v /\ \A k \in 1 .. Len(s) : f[k] = Playing(f[k-1], s[k])
  BY <1>1, <1>2 DEF Way, PlayStep
<1>4. Is(f)
  BY <1>2, <1>3
<1>5. Is(c)
  BY <1>4
<1>6. Along(Playing, v, s) = c[Len(s)]
  BY DEF Along
<1> HIDE DEF c
<1>7. \A k \in 0 .. Len(s) : c[k] = IF k = 0 THEN v ELSE Playing(c[k-1], s[k])
  BY <1>5
<1> HIDE DEF Is
<1>8. Together(Len(s), c, f)
  BY <1>2, <1>3, <1>7 DEF Together
<1>9. c[Len(s)] = f[Len(s)]
  BY <1>2, <1>8, SameSteps
<1> QED
  BY <1>1, <1>6, <1>9, OneWay

LEMMA AlongFrameMore ==
    ASSUME NEW v \in Nat, NEW s \in Seq(Sent)
    PROVE  Along(FrameMore, v, s) = Ends(FrameStep, v, s)
<1> DEFINE Is(g) == g = [k \in 0 .. Len(s) |-> IF k = 0 THEN v ELSE FrameMore(g[k-1], s[k])]
           c == CHOOSE g : Is(g)
<1>1. PICK f \in [0 .. Len(s) -> Nat] : Way(FrameStep, v, s, f)
  BY FrameType, WayExists
<1>2. Len(s) \in Nat /\ \A k \in 1 .. Len(s) : k-1 \in 0 .. Len(s) /\ s[k] \in Sent
  OBVIOUS
<1>3. f[0] = v /\ \A k \in 1 .. Len(s) : f[k] = FrameMore(f[k-1], s[k])
  BY <1>1, <1>2 DEF Way, FrameStep
<1>4. Is(f)
  BY <1>2, <1>3
<1>5. Is(c)
  BY <1>4
<1>6. Along(FrameMore, v, s) = c[Len(s)]
  BY DEF Along
<1> HIDE DEF c
<1>7. \A k \in 0 .. Len(s) : c[k] = IF k = 0 THEN v ELSE FrameMore(c[k-1], s[k])
  BY <1>5
<1> HIDE DEF Is
<1>8. Together(Len(s), c, f)
  BY <1>2, <1>3, <1>7 DEF Together
<1>9. c[Len(s)] = f[Len(s)]
  BY <1>2, <1>8, SameSteps
<1> QED
  BY <1>1, <1>6, <1>9, OneWay

LEMMA AlongWaited ==
    ASSUME NEW v \in Nat, NEW s \in Seq(Pieces)
    PROVE  Along(Waited, v, s) = Ends(WaitStep, v, s)
<1> DEFINE Is(g) == g = [k \in 0 .. Len(s) |-> IF k = 0 THEN v ELSE Waited(g[k-1], s[k])]
           c == CHOOSE g : Is(g)
<1>1. PICK f \in [0 .. Len(s) -> Nat] : Way(WaitStep, v, s, f)
  BY WaitType, WayExists
<1>2. Len(s) \in Nat /\ \A k \in 1 .. Len(s) : k-1 \in 0 .. Len(s) /\ s[k] \in Pieces
  OBVIOUS
<1>3. f[0] = v /\ \A k \in 1 .. Len(s) : f[k] = Waited(f[k-1], s[k])
  BY <1>1, <1>2 DEF Way, WaitStep
<1>4. Is(f)
  BY <1>2, <1>3
<1>5. Is(c)
  BY <1>4
<1>6. Along(Waited, v, s) = c[Len(s)]
  BY DEF Along
<1> HIDE DEF c
<1>7. \A k \in 0 .. Len(s) : c[k] = IF k = 0 THEN v ELSE Waited(c[k-1], s[k])
  BY <1>5
<1> HIDE DEF Is
<1>8. Together(Len(s), c, f)
  BY <1>2, <1>3, <1>7 DEF Together
<1>9. c[Len(s)] = f[Len(s)]
  BY <1>2, <1>8, SameSteps
<1> QED
  BY <1>1, <1>6, <1>9, OneWay

-----------------------------------------------------------------------------
(* What a console makes of what is on its way to it. *)

LEMMA HeededOne ==
    ASSUME NEW v \in Views, NEW m \in Sent
    PROVE  Along(Heeded, v, <<m>>) = Heeded(v, m)
<1>1. <<m>> \in Seq(Sent)
  OBVIOUS
<1>2. Along(Heeded, v, <<m>>) = HeedStep[<<v, m>>]
  BY <1>1, AlongHeeded, HeedType, EndsOne
<1> QED
  BY <1>2 DEF HeedStep

LEMMA HeededMore ==
    ASSUME NEW v \in Views, NEW s \in Seq(Sent), NEW t \in Seq(Sent)
    PROVE  /\ Along(Heeded, v, s) \in Views
           /\ Along(Heeded, v, s \o t) = Along(Heeded, Along(Heeded, v, s), t)
           /\ Along(Heeded, v, <<>>) = v
<1>1. s \o t \in Seq(Sent) /\ <<>> \in Seq(Sent)
  OBVIOUS
<1>2. /\ Ends(HeedStep, v, s) \in Views
      /\ Ends(HeedStep, v, s \o t) = Ends(HeedStep, Ends(HeedStep, v, s), t)
  BY HeedType, EndsAll
<1>3. Ends(HeedStep, v, <<>>) = v
  BY EndsNothing
<1> QED
  BY <1>1, <1>2, <1>3, AlongHeeded

LEMMA HeededFirst ==
    ASSUME NEW v \in Views, NEW s \in Seq(Sent), s # <<>>
    PROVE  /\ Head(s) \in Sent /\ Tail(s) \in Seq(Sent)
           /\ Along(Heeded, v, s) = Along(Heeded, Heeded(v, Head(s)), Tail(s))
<1>0. Head(s) \in Sent /\ Tail(s) \in Seq(Sent)
  OBVIOUS
<1>1. Heeded(v, Head(s)) = HeedStep[<<v, Head(s)>>]
  BY <1>0 DEF HeedStep
<1>2. Heeded(v, Head(s)) \in Views
  BY HearType DEF Heeded
<1>3. Ends(HeedStep, v, s) = Ends(HeedStep, HeedStep[<<v, Head(s)>>], Tail(s))
  BY HeedType, EndsHead
<1> QED
  BY <1>0, <1>1, <1>2, <1>3, AlongHeeded

-----------------------------------------------------------------------------
(* What is played, and how many frames and pieces wait. *)

Glue == [x \in Seq(Sent) \X Seq(Sent) |-> x[1] \o x[2]]
Plus  == [x \in Nat \X Nat |-> x[1] + x[2]]

LEMMA PlayAdds == Adds(Seq(Sent), Sent, <<>>, PlayStep, Glue)
<1>1. <<>> \in Seq(Sent) /\ Glue \in Steps(Seq(Sent), Seq(Sent))
  BY DEF Glue, Steps
<1>2. \A a, b \in Seq(Sent) : Glue[<<a, b>>] = a \o b
  BY DEF Glue
<1>3. \A a \in Seq(Sent) : Glue[<<a, <<>>>>] = a
  <2>1. \A a \in Seq(Sent) : Glue[<<a, <<>>>>] = a \o <<>>
    BY <1>1, <1>2, Zenon
  <2>2. \A a \in Seq(Sent) : a \o <<>> = a
    OBVIOUS
  <2> QED
    BY <2>1, <2>2, Zenon
<1>4. ASSUME NEW a \in Seq(Sent), NEW b \in Seq(Sent), NEW m \in Sent
      PROVE  PlayStep[<<Glue[<<a, b>>], m>>] = Glue[<<a, PlayStep[<<b, m>>]>>]
  <2>1. a \o b \in Seq(Sent) /\ Append(b, m) \in Seq(Sent)
    OBVIOUS
  <2>2. Append(a \o b, m) = a \o Append(b, m)
    OBVIOUS
  <2>3. PlayStep[<<a \o b, m>>] = Playing(a \o b, m) /\ PlayStep[<<b, m>>] = Playing(b, m)
    BY <2>1 DEF PlayStep
  <2>4. Playing(b, m) \in Seq(Sent) /\ Playing(a \o b, m) = a \o Playing(b, m)
    BY <2>1, <2>2 DEF Playing
  <2> QED
    BY <1>2, <2>3, <2>4
<1> QED
  BY <1>1, <1>3, <1>4, PlayType DEF Adds

LEMMA SumAdds ==
    /\ Adds(Nat, Sent, 0, FrameStep, Plus)
    /\ Adds(Nat, Pieces, 0, WaitStep, Plus)
<1>1. Plus \in Steps(Nat, Nat) /\ \A a, b \in Nat : Plus[<<a, b>>] = a + b
  BY DEF Plus, Steps
<1>2. \A b \in Nat, m \in Sent : FrameStep[<<b, m>>] = b + (IF m.cmd = "FRAME" THEN 1 ELSE 0)
  BY DEF FrameStep, FrameMore
<1>3. \A b \in Nat, p \in Pieces : WaitStep[<<b, p>>] = b + Passes(p) /\ Passes(p) \in Nat
  BY DEF WaitStep, Waited, Passes
<1>4. \A a, b \in Nat, m \in Sent : FrameStep[<<Plus[<<a, b>>], m>>] = Plus[<<a, FrameStep[<<b, m>>]>>]
  BY <1>1, <1>2
<1>5. \A a, b \in Nat, p \in Pieces : WaitStep[<<Plus[<<a, b>>], p>>] = Plus[<<a, WaitStep[<<b, p>>]>>]
  BY <1>1, <1>3
<1> QED
  BY <1>1, <1>4, <1>5, FrameType, WaitType DEF Adds

\* The played part of s, the frames in s, and the passes s takes.
Played(s) == Along(Playing, <<>>, s)
Frames(s) == Along(FrameMore, 0, s)
Waits(s)  == Along(Waited, 0, s)

LEMMA PlayedMore ==
    ASSUME NEW s \in Seq(Sent), NEW t \in Seq(Sent)
    PROVE  /\ Played(s) \in Seq(Sent) /\ Played(t) \in Seq(Sent)
           /\ Played(s \o t) = Played(s) \o Played(t)
           /\ Played(<<>>) = <<>>
<1>0. AddsUp(Seq(Sent), Sent, <<>>, PlayStep, Glue)
  BY PlayAdds, EndsAdd
<1>1. s \o t \in Seq(Sent) /\ <<>> \in Seq(Sent) /\ <<>> \in Seq(Sent)
  OBVIOUS
<1>2. /\ Ends(PlayStep, <<>>, s) \in Seq(Sent) /\ Ends(PlayStep, <<>>, t) \in Seq(Sent)
      /\ Ends(PlayStep, <<>>, s \o t) = Glue[<<Ends(PlayStep, <<>>, s), Ends(PlayStep, <<>>, t)>>]
      /\ Ends(PlayStep, <<>>, <<>>) = <<>>
  BY <1>0 DEF AddsUp
<1>3. \A a, b \in Seq(Sent) : Glue[<<a, b>>] = a \o b
  BY DEF Glue
<1>4. \A r \in Seq(Sent) : Played(r) = Ends(PlayStep, <<>>, r)
  BY <1>1, AlongPlaying DEF Played
<1>5. /\ Played(s) = Ends(PlayStep, <<>>, s) /\ Played(t) = Ends(PlayStep, <<>>, t)
      /\ Played(s \o t) = Ends(PlayStep, <<>>, s \o t)
      /\ Played(<<>>) = Ends(PlayStep, <<>>, <<>>)
  BY <1>1, <1>4, Zenon
<1> QED
  BY <1>2, <1>3, <1>5

LEMMA PlayedOne ==
    ASSUME NEW m \in Sent
    PROVE  Played(<<m>>) = IF m.cmd \in {"FRAME", "RELAY"} THEN <<m>> ELSE <<>>
<1>0. AddsUp(Seq(Sent), Sent, <<>>, PlayStep, Glue)
  BY PlayAdds, EndsAdd
<1>1. <<m>> \in Seq(Sent) /\ <<>> \in Seq(Sent)
  OBVIOUS
<1>2. Ends(PlayStep, <<>>, <<m>>) = PlayStep[<<<<>>, m>>]
  BY <1>0 DEF AddsUp
<1>3. Played(<<m>>) = Ends(PlayStep, <<>>, <<m>>)
  BY <1>1, AlongPlaying DEF Played
<1>6. \A q \in Seq(Sent) : PlayStep[<<q, m>>] = Playing(q, m)
  BY DEF PlayStep
<1>7. Append(<<>>, m) = <<m>>
  OBVIOUS
<1>5. PlayStep[<<<<>>, m>>] = Playing(<<>>, m) /\ Append(<<>>, m) = <<m>>
  BY <1>1, <1>6, <1>7, Zenon
<1>4. PlayStep[<<<<>>, m>>] = IF m.cmd \in {"FRAME", "RELAY"} THEN <<m>> ELSE <<>>
  BY <1>5 DEF Playing
<1> QED
  BY <1>2, <1>3, <1>4

LEMMA FramesMore ==
    ASSUME NEW s \in Seq(Sent), NEW t \in Seq(Sent)
    PROVE  /\ Frames(s) \in Nat /\ Frames(t) \in Nat
           /\ Frames(s \o t) = Frames(s) + Frames(t)
           /\ Frames(<<>>) = 0
<1>0. AddsUp(Nat, Sent, 0, FrameStep, Plus)
  BY SumAdds, EndsAdd
<1>1. s \o t \in Seq(Sent) /\ <<>> \in Seq(Sent) /\ 0 \in Nat
  OBVIOUS
<1>2. /\ Ends(FrameStep, 0, s) \in Nat /\ Ends(FrameStep, 0, t) \in Nat
      /\ Ends(FrameStep, 0, s \o t) = Plus[<<Ends(FrameStep, 0, s), Ends(FrameStep, 0, t)>>]
      /\ Ends(FrameStep, 0, <<>>) = 0
  BY <1>0 DEF AddsUp
<1>3. \A a, b \in Nat : Plus[<<a, b>>] = a + b
  BY DEF Plus
<1>4. \A r \in Seq(Sent) : Frames(r) = Ends(FrameStep, 0, r)
  BY <1>1, AlongFrameMore DEF Frames
<1>5. /\ Frames(s) = Ends(FrameStep, 0, s) /\ Frames(t) = Ends(FrameStep, 0, t)
      /\ Frames(s \o t) = Ends(FrameStep, 0, s \o t)
      /\ Frames(<<>>) = Ends(FrameStep, 0, <<>>)
  BY <1>1, <1>4, Zenon
<1> QED
  BY <1>2, <1>3, <1>5

LEMMA FramesOne ==
    ASSUME NEW m \in Sent
    PROVE  Frames(<<m>>) = IF m.cmd = "FRAME" THEN 1 ELSE 0
<1>0. AddsUp(Nat, Sent, 0, FrameStep, Plus)
  BY SumAdds, EndsAdd
<1>1. <<m>> \in Seq(Sent) /\ 0 \in Nat
  OBVIOUS
<1>2. Ends(FrameStep, 0, <<m>>) = FrameStep[<<0, m>>]
  BY <1>0 DEF AddsUp
<1>3. Frames(<<m>>) = Ends(FrameStep, 0, <<m>>)
  BY <1>1, AlongFrameMore DEF Frames
<1>4. FrameStep[<<0, m>>] = IF m.cmd = "FRAME" THEN 1 ELSE 0
  BY <1>1 DEF FrameStep, FrameMore
<1> QED
  BY <1>2, <1>3, <1>4

LEMMA WaitsMore ==
    ASSUME NEW s \in Seq(Pieces), NEW t \in Seq(Pieces)
    PROVE  /\ Waits(s) \in Nat /\ Waits(t) \in Nat
           /\ Waits(s \o t) = Waits(s) + Waits(t)
           /\ Waits(<<>>) = 0
<1>0. AddsUp(Nat, Pieces, 0, WaitStep, Plus)
  BY SumAdds, EndsAdd
<1>1. s \o t \in Seq(Pieces) /\ <<>> \in Seq(Pieces) /\ 0 \in Nat
  OBVIOUS
<1>2. /\ Ends(WaitStep, 0, s) \in Nat /\ Ends(WaitStep, 0, t) \in Nat
      /\ Ends(WaitStep, 0, s \o t) = Plus[<<Ends(WaitStep, 0, s), Ends(WaitStep, 0, t)>>]
      /\ Ends(WaitStep, 0, <<>>) = 0
  BY <1>0 DEF AddsUp
<1>3. \A a, b \in Nat : Plus[<<a, b>>] = a + b
  BY DEF Plus
<1>4. \A r \in Seq(Pieces) : Waits(r) = Ends(WaitStep, 0, r)
  BY <1>1, AlongWaited DEF Waits
<1>5. /\ Waits(s) = Ends(WaitStep, 0, s) /\ Waits(t) = Ends(WaitStep, 0, t)
      /\ Waits(s \o t) = Ends(WaitStep, 0, s \o t)
      /\ Waits(<<>>) = Ends(WaitStep, 0, <<>>)
  BY <1>1, <1>4, Zenon
<1> QED
  BY <1>2, <1>3, <1>5

LEMMA WaitsOne ==
    ASSUME NEW m \in Pieces
    PROVE  Waits(<<m>>) = Passes(m)
<1>0. AddsUp(Nat, Pieces, 0, WaitStep, Plus)
  BY SumAdds, EndsAdd
<1>1. <<m>> \in Seq(Pieces) /\ 0 \in Nat
  OBVIOUS
<1>2. Ends(WaitStep, 0, <<m>>) = WaitStep[<<0, m>>]
  BY <1>0 DEF AddsUp
<1>3. Waits(<<m>>) = Ends(WaitStep, 0, <<m>>)
  BY <1>1, AlongWaited DEF Waits
<1>4. WaitStep[<<0, m>>] = Passes(m)
  BY <1>1 DEF WaitStep, Waited, Passes
<1> QED
  BY <1>2, <1>3, <1>4

\* Taking off the first.
LEMMA Firsts ==
    /\ \A s \in Seq(Sent) : s # <<>> =>
          /\ Head(s) \in Sent /\ Tail(s) \in Seq(Sent)
          /\ Played(s) = Played(<<Head(s)>>) \o Played(Tail(s))
          /\ Frames(s) = Frames(<<Head(s)>>) + Frames(Tail(s))
    /\ \A s \in Seq(Pieces) : s # <<>> =>
          /\ Head(s) \in Pieces /\ Tail(s) \in Seq(Pieces)
          /\ Waits(s) = Passes(Head(s)) + Waits(Tail(s))
<1>1. ASSUME NEW s \in Seq(Sent), s # <<>>
      PROVE  /\ Head(s) \in Sent /\ Tail(s) \in Seq(Sent)
             /\ Played(s) = Played(<<Head(s)>>) \o Played(Tail(s))
             /\ Frames(s) = Frames(<<Head(s)>>) + Frames(Tail(s))
  <2>1. /\ Head(s) \in Sent /\ Tail(s) \in Seq(Sent) /\ <<Head(s)>> \in Seq(Sent)
        /\ s = <<Head(s)>> \o Tail(s)
    BY <1>1
  <2>2. /\ Played(<<Head(s)>> \o Tail(s)) = Played(<<Head(s)>>) \o Played(Tail(s))
        /\ Frames(<<Head(s)>> \o Tail(s)) = Frames(<<Head(s)>>) + Frames(Tail(s))
    BY <2>1, PlayedMore, FramesMore
  <2> QED
    BY <2>1, <2>2
<1>2. ASSUME NEW s \in Seq(Pieces), s # <<>>
      PROVE  /\ Head(s) \in Pieces /\ Tail(s) \in Seq(Pieces)
             /\ Waits(s) = Passes(Head(s)) + Waits(Tail(s))
  <2>1. /\ Head(s) \in Pieces /\ Tail(s) \in Seq(Pieces) /\ <<Head(s)>> \in Seq(Pieces)
        /\ s = <<Head(s)>> \o Tail(s)
    BY <1>2
  <2>2. Waits(<<Head(s)>> \o Tail(s)) = Waits(<<Head(s)>>) + Waits(Tail(s))
    BY <2>1, WaitsMore
  <2> QED
    BY <2>1, <2>2, WaitsOne
<1> QED
  BY <1>1, <1>2

-----------------------------------------------------------------------------
(* The steps of a console. *)

\* A header that waits for its payload belongs to a round of the loop.
Rounds(s) ==
    /\ s.payload => s.loop < N
    /\ s.waiting => s.netdcount = 0

ConsolesOK ==
    /\ con \in [Consoles -> Console]
    /\ up \in [Consoles -> Seq(Pieces)]
    /\ down \in [Consoles -> Seq(Sent)]
    /\ \A c \in Consoles : Rounds(con[c])

ConsoleAction(c) ==
    \/ Connect(c) \/ Connected(c, c \in shut) \/ QuitClicked(c) \/ Quit(c)
    \/ SwitchScreen(c) \/ Update(c) \/ UpdateFails(c, c \in shut)
    \/ ToggleHeader(c) \/ TogglePayload(c) \/ SimpleCommand(c) \/ Click(c)

Asks(p) == p.what = "ANYCONTROLLER"

\* What a console of state s, that becomes t, may add to what is on its way up.
Adding(s, t, u, q) ==
    \/ q = u
    \/ /\ s.link = "open"
       /\ \E x \in Seq(Pieces) :
             q = u \o x /\ \A k \in DOMAIN x : Asks(x[k]) => t.clicks > 0

\* The kinds of steps: s becomes t, u on its way up becomes q, and d on its way
\* down becomes r.
Joins(s, t, u, q, d, r) ==
    /\ s.link = "new" /\ t.link = "connecting"
    /\ t.view = s.view /\ t.waiting = s.waiting /\ t.mode = s.mode /\ t.clicks = s.clicks
    /\ q = <<Piece("LOGINLEN"), Piece("LOGIN")>> /\ r = d

Opens(s, t, u, q, d, r) ==
    /\ s.link = "connecting" /\ t.link = "open"
    /\ t.view = FreshView /\ t.waiting = s.waiting /\ t.clicks = s.clicks
    /\ q = u
    /\ \/ d = <<>> /\ r = d
       \/ d # <<>> /\ r = Tail(d)

Goes(s, t, u, q, d, r) ==
    t.link = "closed" /\ t.mode = "OFFLINE" /\ ~t.waiting /\ q = u /\ r = <<>>

Begins(s, t, u, q, d, r) ==
    /\ s.mode = "NETPLAY_CLIENT" /\ ~s.waiting /\ t.waiting
    /\ t.link = s.link /\ t.view = s.view /\ t.mode = s.mode /\ t.clicks = s.clicks
    /\ t.netdcount = s.netdcount
    /\ \E b \in Bytes : q = IF s.link = "open" THEN u \o <<Joy(b)>> ELSE u
    /\ r = d

Hears(s, t, u, q, d, r) ==
    /\ s.waiting /\ t.waiting /\ t.netdcount = s.netdcount
    /\ t.link = s.link /\ t.mode = s.mode /\ t.clicks = s.clicks
    /\ d # <<>> /\ Head(d) \in Messages /\ t.view = Hear(s.view, Head(d))
    /\ q = u /\ r = Tail(d)

Finishes(s, t, u, q, d, r) ==
    /\ s.waiting /\ ~t.waiting /\ s.netdcount = 0
    /\ t.link = s.link /\ t.mode = s.mode /\ t.clicks = s.clicks /\ t.view = s.view
    /\ d # <<>> /\ Head(d).cmd = "FRAME"
    /\ q = u /\ r = Tail(d)

Stays(s, t, u, q, d, r) ==
    /\ t.link = s.link /\ t.mode \in {s.mode, "OFFLINE"}
    /\ t.view = s.view /\ t.waiting = s.waiting /\ t.netdcount = s.netdcount
    /\ t.clicks >= s.clicks
    /\ Adding(s, t, u, q) /\ r = d

Moves(s, t, u, q, d, r) ==
    \/ Joins(s, t, u, q, d, r) \/ Opens(s, t, u, q, d, r) \/ Goes(s, t, u, q, d, r)
    \/ Begins(s, t, u, q, d, r) \/ Hears(s, t, u, q, d, r) \/ Finishes(s, t, u, q, d, r)
    \/ Stays(s, t, u, q, d, r)

\* Session c takes such a step.
Moved(c) ==
    \E t \in Console, q \in Seq(Pieces), r \in Seq(Sent) :
        /\ con' = [con EXCEPT ![c] = t]
        /\ up' = [up EXCEPT ![c] = q]
        /\ down' = [down EXCEPT ![c] = r]
        /\ Rounds(t)
        /\ Moves(con[c], t, up[c], q, down[c], r)

LEMMA SmallThings ==
    /\ Bytes \subseteq Nat /\ 0 \in Bytes /\ Slots \subseteq Bytes
    /\ FreshView \in Views
    /\ \A b \in Bytes : Joy(b) \in Pieces /\ Port(b) \in Pieces
    /\ \A w \in {"LOGINLEN", "LOGIN", "ESC"} \cup Headers : Piece(w) \in Pieces
    /\ \A b \in Bytes : ~Asks(Joy(b)) /\ ~Asks(Port(b))
<1> USE Numbers, ClientAssumption
<1>1. Bytes \subseteq Nat /\ 0 \in Bytes /\ Slots \subseteq Bytes
  BY DEF Bytes
<1>2. FreshView \in Views
  BY DEF FreshView, Views
<1>3. \A b \in Bytes : Joy(b) \in Pieces /\ Port(b) \in Pieces
  BY DEF Joy, Port, Pieces, Buttons
<1>4. \A w \in {"LOGINLEN", "LOGIN", "ESC"} \cup Headers : Piece(w) \in Pieces
  BY DEF Piece, Pieces
<1>5. \A b \in Bytes : ~Asks(Joy(b)) /\ ~Asks(Port(b))
  BY DEF Asks, Joy, Port
<1> QED
  BY <1>1, <1>2, <1>3, <1>4, <1>5

\* The pieces of a command.
LEMMA Commanded ==
    ASSUME NEW cmd \in Headers
    PROVE  /\ <<Piece("ESC"), Piece(cmd)>> \in Seq(Pieces)
           /\ \A k \in DOMAIN <<Piece("ESC"), Piece(cmd)>> :
                 Asks(<<Piece("ESC"), Piece(cmd)>>[k]) => cmd = "ANYCONTROLLER"
<1>1. Piece("ESC") \in Pieces /\ Piece(cmd) \in Pieces
  BY SmallThings
<1>2. ~Asks(Piece("ESC")) /\ (Asks(Piece(cmd)) => cmd = "ANYCONTROLLER")
  BY DEF Asks, Piece
<1> HIDE DEF Piece, Asks
<1>3. \A k \in DOMAIN <<Piece("ESC"), Piece(cmd)>> : k \in {1, 2}
  OBVIOUS
<1> QED
  BY <1>1, <1>2, <1>3

\* FCEUD_SendData.
LEMMA Sending1 ==
    ASSUME ConsolesOK, NEW c \in Consoles, NEW x \in Seq(Pieces), Send(c, x),
           NEW t \in Console, \A k \in DOMAIN x : Asks(x[k]) => t.clicks > 0
    PROVE  \E q \in Seq(Pieces) : up' = [up EXCEPT ![c] = q] /\ Adding(con[c], t, up[c], q)
<1>1. up[c] \in Seq(Pieces) /\ up[c] \o x \in Seq(Pieces)
  BY DEF ConsolesOK
<1>2. CASE con[c].link = "open"
  <2>1. up' = [up EXCEPT ![c] = up[c] \o x]
    BY <1>2 DEF Send
  <2> QED
    BY <1>1, <1>2, <2>1 DEF Adding
<1>3. CASE con[c].link # "open"
  <2>1. up' = [up EXCEPT ![c] = up[c]]
    BY <1>3 DEF Send
  <2> QED
    BY <1>1, <2>1 DEF Adding
<1> QED
  BY <1>2, <1>3

LEMMA HeardType ==
    ASSUME NEW s \in Console, NEW m \in Messages
    PROVE  /\ Heard(s, m) \in Console
           /\ Heard(s, m).view = Hear(s.view, m)
           /\ \A f \in {"link", "mode", "game", "netdcount", "joy", "waiting", "loop",
                        "payload", "quitting", "clicks", "commands"} :
                 Heard(s, m)[f] = s[f]
<1>1. s.view \in Views /\ Hear(s.view, m) \in Views
  BY HearType DEF Console
<1>2. PICK v \in Views : v = Hear(s.view, m)
  BY <1>1
<1>3. PICK x : x = IF m.cmd = "NEWCLIENT" /\ s.self = None THEN m.id ELSE s.self
  OBVIOUS
<1>4. PICK g : g = CASE m.cmd = "PICKUPCONTROLLER" /\ m.id = s.self -> m.port
                     [] m.cmd = "DROPCONTROLLER" /\ m.port = s.gx -> None
                     [] OTHER -> s.gx
  OBVIOUS
<1>5. x \in Slots \cup {None}
  <2>1. m.cmd = "NEWCLIENT" => m.id \in Slots
    BY DEF Messages, Relay
  <2> QED
    BY <1>3, <2>1 DEF Console
<1>6. g \in Slots \cup {None}
  <2>1. m.cmd = "PICKUPCONTROLLER" => m.port \in Slots
    BY DEF Messages, Relay
  <2>2. s.gx \in Slots \cup {None}
    BY DEF Console
  <2> QED
    BY <1>4, <2>1, <2>2
<1>7. Heard(s, m) = [s EXCEPT !.view = v, !.self = x, !.gx = g]
  BY <1>2, <1>3, <1>4 DEF Heard
<1>8. [s EXCEPT !.view = v, !.self = x, !.gx = g] \in Console
  BY <1>5, <1>6 DEF Console
<1> QED
  BY <1>2, <1>7, <1>8 DEF Console

LEMMA ClosedType ==
    ASSUME NEW s \in Console
    PROVE  /\ Closed(s) \in Console /\ [Closed(s) EXCEPT !.quitting = FALSE] \in Console
           /\ \A t \in {Closed(s), [Closed(s) EXCEPT !.quitting = FALSE]} :
                 t.link = "closed" /\ t.mode = "OFFLINE" /\ ~t.waiting /\ ~t.payload
<1>2. s.quitting \in BOOLEAN /\ s.divisor \in Divisors
  BY DEF Console
<1>1. NewConsole(s.divisor) \in Console
  BY <1>2, SmallThings, Numbers DEF NewConsole, Console
<1> QED
  <2>1. PICK z \in Console : z = NewConsole(s.divisor)
    BY <1>1
  <2>2. /\ [z EXCEPT !.link = "closed", !.quitting = s.quitting] \in Console
        /\ [[z EXCEPT !.link = "closed", !.quitting = s.quitting] EXCEPT !.quitting = FALSE]
              \in Console
    BY <1>2 DEF Console
  <2>3. z.mode = "OFFLINE" /\ ~z.waiting /\ ~z.payload
    BY <2>1 DEF NewConsole
  <2>4. \A q \in BOOLEAN : LET t == [z EXCEPT !.link = "closed", !.quitting = q]
                           IN  t.link = "closed" /\ t.mode = "OFFLINE" /\ ~t.waiting /\ ~t.payload
    BY <2>3 DEF Console
  <2>5. [[z EXCEPT !.link = "closed", !.quitting = s.quitting] EXCEPT !.quitting = FALSE]
          = [z EXCEPT !.link = "closed", !.quitting = FALSE]
    BY DEF Console
  <2> QED
    BY <1>2, <2>1, <2>2, <2>4, <2>5 DEF Closed

LEMMA ConsoleMoves ==
    ASSUME ConsolesOK, NEW c \in Consoles, ConsoleAction(c)
    PROVE  Moved(c)
<1> USE SmallThings, Numbers
<1> DEFINE s == con[c]
           u == up[c]
           d == down[c]
<1>0. /\ con \in [Consoles -> Console] /\ up \in [Consoles -> Seq(Pieces)]
      /\ down \in [Consoles -> Seq(Sent)]
      /\ s \in Console /\ u \in Seq(Pieces) /\ d \in Seq(Sent) /\ <<>> \in Seq(Sent)
      /\ Rounds(s)
      /\ d # <<>> => Head(d) \in Sent /\ Tail(d) \in Seq(Sent)
  BY DEF ConsolesOK
<1>f. /\ s.loop \in 0 .. N /\ s.clicks \in Nat /\ s.commands \in Nat /\ s.netdcount \in Nat
      /\ s.game \in BOOLEAN /\ s.joy \in Bytes /\ s.waiting \in BOOLEAN
      /\ s.payload \in BOOLEAN /\ s.divisor \in Divisors
  BY <1>0 DEF Console
<1>1. ASSUME NEW t \in Console, NEW q \in Seq(Pieces), NEW r \in Seq(Sent),
             con' = [con EXCEPT ![c] = t], up' = [up EXCEPT ![c] = q],
             down' = [down EXCEPT ![c] = r], Rounds(t), Moves(s, t, u, q, d, r)
      PROVE  Moved(c)
  BY <1>1 DEF Moved
<1>2. /\ UNCHANGED up => up' = [up EXCEPT ![c] = u]
      /\ UNCHANGED down => down' = [down EXCEPT ![c] = d]
      /\ Receive(c) => down' = [down EXCEPT ![c] = Tail(d)]
  BY <1>0 DEF Receive
<1> HIDE DEF s, u, d
<1>3. CASE Connect(c)
  <2> DEFINE t == [s EXCEPT !.link = "connecting"]
             q == <<Piece("LOGINLEN"), Piece("LOGIN")>>
  <2>1. con' = [con EXCEPT ![c] = t] /\ up' = [up EXCEPT ![c] = q] /\ UNCHANGED down
        /\ s.link = "new"
    BY <1>0, <1>3 DEF Connect, s
  <2>2. t \in Console /\ Rounds(t)
    BY <1>0 DEF Console, Rounds
  <2>3. q \in Seq(Pieces)
    OBVIOUS
  <2>4. Joins(s, t, u, q, d, d)
    BY <1>0, <2>1 DEF Joins, Console
  <2> HIDE DEF t, q
  <2> QED
    BY <1>0, <1>1, <1>2, <2>1, <2>2, <2>3, <2>4 DEF Moves
<1>4. CASE Connected(c, c \in shut)
  <2> DEFINE t == [s EXCEPT !.link = "open", !.mode = "NETPLAY_CLIENT",
                           !.view = FreshView, !.self = None, !.netdcount = 0]
  <2>1. /\ con' = [con EXCEPT ![c] = t] /\ UNCHANGED up /\ s.link = "connecting"
        /\ IF d = <<>> THEN UNCHANGED down ELSE Receive(c)
    BY <1>0, <1>4 DEF Connected, s, d
  <2>2. t \in Console /\ Rounds(t)
    BY <1>0 DEF Console, Rounds
  <2>3. PICK r \in Seq(Sent) : /\ down' = [down EXCEPT ![c] = r]
                               /\ \/ d = <<>> /\ r = d
                                  \/ d # <<>> /\ r = Tail(d)
    BY <1>0, <1>2, <2>1
  <2>4. Opens(s, t, u, u, d, r)
    BY <1>0, <2>1, <2>3 DEF Opens, Console
  <2> HIDE DEF t
  <2> QED
    BY <1>0, <1>1, <1>2, <2>1, <2>2, <2>3, <2>4 DEF Moves
<1>5. CASE QuitClicked(c)
  <2> DEFINE t == [s EXCEPT !.mode = "OFFLINE", !.quitting = TRUE]
  <2>1. con' = [con EXCEPT ![c] = t] /\ UNCHANGED <<up, down>>
    BY <1>0, <1>5 DEF QuitClicked, s
  <2>2. t \in Console /\ Rounds(t)
    BY <1>0 DEF Console, Rounds
  <2>3. Stays(s, t, u, u, d, d)
    BY <1>0, <1>f DEF Stays, Adding, Console
  <2> HIDE DEF t
  <2> QED
    BY <1>0, <1>1, <1>2, <2>1, <2>2, <2>3 DEF Moves
<1>6. CASE Quit(c)
  <2> DEFINE t == [Closed(s) EXCEPT !.quitting = FALSE]
  <2>1. con' = [con EXCEPT ![c] = t] /\ UNCHANGED up /\ down' = [down EXCEPT ![c] = <<>>]
    BY <1>0, <1>6 DEF Quit, s
  <2>2. t \in Console /\ Rounds(t) /\ t.link = "closed" /\ t.mode = "OFFLINE" /\ ~t.waiting
    BY <1>0, ClosedType DEF Rounds
  <2>3. Goes(s, t, u, u, d, <<>>)
    BY <2>2 DEF Goes
  <2> HIDE DEF t
  <2> QED
    BY <1>0, <1>1, <1>2, <2>1, <2>2, <2>3 DEF Moves
<1>7. CASE SwitchScreen(c)
  <2> DEFINE t == [s EXCEPT !.game = ~@]
  <2>1. con' = [con EXCEPT ![c] = t] /\ UNCHANGED <<up, down>>
    BY <1>0, <1>7 DEF SwitchScreen, s
  <2>2. t \in Console /\ Rounds(t)
    BY <1>0, <1>f DEF Console, Rounds
  <2>3. Stays(s, t, u, u, d, d)
    BY <1>0, <1>f DEF Stays, Adding, Console
  <2> HIDE DEF t
  <2> QED
    BY <1>0, <1>1, <1>2, <2>1, <2>2, <2>3 DEF Moves
<1>8. CASE UpdateSend(c)
  <2> DEFINE t == [s EXCEPT !.waiting = TRUE]
  <2>1. PICK b \in Bytes : Send(c, <<Joy(b)>>)
    <3>1. (IF s.game THEN Pads ELSE {s.joy}) \subseteq Bytes
      BY <1>f DEF Bytes
    <3> QED
      BY <1>8, <3>1 DEF UpdateSend, s
  <2>2. /\ con' = [con EXCEPT ![c] = t] /\ UNCHANGED down
        /\ s.mode = "NETPLAY_CLIENT" /\ ~s.waiting /\ s.netdcount = 0
    BY <1>0, <1>8 DEF UpdateSend, s
  <2>3. t \in Console /\ Rounds(t)
    BY <1>0, <2>2 DEF Console, Rounds
  <2>4. PICK q \in Seq(Pieces) : /\ up' = [up EXCEPT ![c] = q]
                                 /\ q = IF s.link = "open" THEN u \o <<Joy(b)>> ELSE u
    <3>1. <<Joy(b)>> \in Seq(Pieces) /\ u \o <<Joy(b)>> \in Seq(Pieces)
      BY <1>0
    <3> QED
      BY <1>0, <2>1, <3>1 DEF Send, s, u
  <2>5. Begins(s, t, u, q, d, d)
    BY <1>0, <2>2, <2>4 DEF Begins, Console
  <2> HIDE DEF t
  <2> QED
    BY <1>0, <1>1, <1>2, <2>2, <2>3, <2>4, <2>5 DEF Moves
<1>9. CASE UpdateHear(c)
  <2>1. /\ s.waiting /\ d # <<>> /\ Head(d) \in Messages
        /\ con' = [con EXCEPT ![c] = Heard(s, Head(d))] /\ UNCHANGED up /\ Receive(c)
    BY <1>0, <1>9 DEF UpdateHear, s, d
  <2>2. PICK t \in Console : /\ t = Heard(s, Head(d)) /\ t.view = Hear(s.view, Head(d))
                             /\ t.link = s.link /\ t.mode = s.mode /\ t.clicks = s.clicks
                             /\ t.waiting = s.waiting /\ t.payload = s.payload
                             /\ t.loop = s.loop /\ t.netdcount = s.netdcount
    BY <1>0, <2>1, HeardType
  <2>3. Hears(s, t, u, u, d, Tail(d))
    BY <2>1, <2>2 DEF Hears
  <2>4. Rounds(t)
    BY <1>0, <2>2 DEF Rounds
  <2> QED
    BY <1>0, <1>1, <1>2, <2>1, <2>2, <2>3, <2>4 DEF Moves
<1>10. CASE UpdateFrame(c)
  <2>1. /\ s.waiting /\ d # <<>> /\ Head(d).cmd = "FRAME" /\ UNCHANGED up /\ Receive(c)
        /\ con' = [con EXCEPT ![c] =
              [s EXCEPT !.waiting = FALSE, !.netdcount = NextCount(@, s.divisor),
                        !.joy = IF s.game THEN @ ELSE Head(d).joy[0]]]
    BY <1>0, <1>10 DEF UpdateFrame, s, d
  <2>2. PICK n \in Nat : n = NextCount(s.netdcount, s.divisor)
    <3>1. \A a \in Nat, b \in Nat \ {0} : (a + 1) % b \in Nat
      OBVIOUS
    <3> QED
      BY <1>f, <3>1, ClientAssumption DEF NextCount
  <2>3. PICK j \in Bytes : j = IF s.game THEN s.joy ELSE Head(d).joy[0]
    <3>1. Head(d) \in [cmd : {"FRAME"}, joy : [Slots -> Bytes]]
      BY <1>0, <2>1 DEF Sent, Messages, FirstByte, Relay
    <3>2. Head(d).joy[0] \in Bytes
      BY <3>1
    <3> QED
      BY <1>f, <3>2
  <2> DEFINE t == [s EXCEPT !.waiting = FALSE, !.netdcount = n, !.joy = j]
  <2>4. con' = [con EXCEPT ![c] = t]
    BY <2>1, <2>2, <2>3
  <2>5. t \in Console /\ Rounds(t)
    BY <1>0 DEF Console, Rounds
  <2>6. Finishes(s, t, u, u, d, Tail(d))
    BY <1>0, <2>1 DEF Finishes, Console, Rounds
  <2> HIDE DEF t
  <2> QED
    BY <1>0, <1>1, <1>2, <2>1, <2>4, <2>5, <2>6 DEF Moves
<1>11. CASE UpdateFails(c, c \in shut)
  <2> DEFINE t == Closed(s)
  <2>1. con' = [con EXCEPT ![c] = t] /\ UNCHANGED up /\ down' = [down EXCEPT ![c] = <<>>]
    BY <1>0, <1>11 DEF UpdateFails, s
  <2>2. t \in Console /\ Rounds(t) /\ t.link = "closed" /\ t.mode = "OFFLINE" /\ ~t.waiting
    BY <1>0, ClosedType DEF Rounds
  <2>3. Goes(s, t, u, u, d, <<>>)
    BY <2>2 DEF Goes
  <2> HIDE DEF t
  <2> QED
    BY <1>0, <1>1, <1>2, <2>1, <2>2, <2>3 DEF Moves
<1>12. CASE ToggleHeader(c)
  <2>1. CASE con' = [con EXCEPT ![c] = [s EXCEPT !.payload = TRUE]]
             /\ SendCommand(c, "DROPCONTROLLER") /\ s.loop < N
    <3> DEFINE t == [s EXCEPT !.payload = TRUE]
    <3>4. con' = [con EXCEPT ![c] = t]
      BY <2>1
    <3>1. t \in Console /\ Rounds(t)
      BY <1>0, <2>1 DEF Console, Rounds
    <3>2. PICK q \in Seq(Pieces) : up' = [up EXCEPT ![c] = q] /\ Adding(s, t, u, q)
      BY <2>1, <3>1, Commanded, Sending1 DEF SendCommand, Headers, s, u
    <3>3. Stays(s, t, u, q, d, d) /\ UNCHANGED down
      BY <1>0, <1>f, <1>12, <3>2 DEF Stays, Console, ToggleHeader
    <3> HIDE DEF t
    <3> QED
      BY <1>0, <1>1, <1>2, <3>1, <3>2, <3>3, <3>4 DEF Moves
  <2>2. CASE con' = [con EXCEPT ![c] = [s EXCEPT !.loop = @ + 1]]
             /\ UNCHANGED up /\ s.loop < N /\ ~s.payload
    <3>0. PICK k \in 0 .. N : k = s.loop + 1
      BY <1>f, <2>2
    <3> DEFINE t == [s EXCEPT !.loop = k]
    <3>4. con' = [con EXCEPT ![c] = t]
      BY <2>2, <3>0
    <3>1. t \in Console /\ Rounds(t)
      BY <1>0, <2>2 DEF Console, Rounds
    <3>2. Stays(s, t, u, u, d, d) /\ UNCHANGED down
      BY <1>0, <1>f, <1>12 DEF Stays, Adding, Console, ToggleHeader
    <3> HIDE DEF t
    <3> QED
      BY <1>0, <1>1, <1>2, <2>2, <3>1, <3>2, <3>4 DEF Moves
  <2> QED
    BY <1>0, <1>12, <2>1, <2>2 DEF ToggleHeader, s
<1>13. CASE TogglePayload(c)
  <2> DEFINE x == <<Port(s.loop)>>
  <2>2. s.loop < N /\ s.loop \in Slots
    BY <1>0, <1>f, <1>13 DEF Rounds, TogglePayload, s
  <2>7. PICK k \in 0 .. N : k = s.loop + 1
    BY <1>f, <2>2
  <2> DEFINE t == [s EXCEPT !.payload = FALSE, !.loop = k]
  <2>1. con' = [con EXCEPT ![c] = t] /\ UNCHANGED down /\ Send(c, x)
    BY <1>0, <1>13, <2>7 DEF TogglePayload, s
  <2>3. t \in Console /\ Rounds(t)
    BY <1>0 DEF Console, Rounds
  <2>4. x \in Seq(Pieces) /\ \A n \in DOMAIN x : ~Asks(x[n])
    BY <2>2
  <2>5. PICK q \in Seq(Pieces) : up' = [up EXCEPT ![c] = q] /\ Adding(s, t, u, q)
    BY <2>1, <2>3, <2>4, Sending1 DEF s, u
  <2>6. Stays(s, t, u, q, d, d)
    BY <1>0, <1>f, <2>5 DEF Stays, Console
  <2> HIDE DEF t, x
  <2> QED
    BY <1>0, <1>1, <1>2, <2>1, <2>3, <2>5, <2>6 DEF Moves
<1>14. CASE SimpleCommand(c)
  <2>5. PICK k \in Nat : k = s.commands + 1
    BY <1>f
  <2> DEFINE t == [s EXCEPT !.commands = k]
  <2>1. con' = [con EXCEPT ![c] = t] /\ UNCHANGED down /\ SendCommand(c, "RELAY")
    BY <1>0, <1>14, <2>5 DEF SimpleCommand, s
  <2>2. t \in Console /\ Rounds(t)
    BY <1>0, <1>f DEF Console, Rounds
  <2>3. PICK q \in Seq(Pieces) : up' = [up EXCEPT ![c] = q] /\ Adding(s, t, u, q)
    BY <2>1, <2>2, Commanded, Sending1 DEF SendCommand, Headers, s, u
  <2>4. Stays(s, t, u, q, d, d)
    BY <1>0, <1>f, <2>3 DEF Stays, Console
  <2> HIDE DEF t
  <2> QED
    BY <1>0, <1>1, <1>2, <2>1, <2>2, <2>3, <2>4 DEF Moves
<1>15. CASE Click(c)
  <2>1. CASE con' = [con EXCEPT ![c] = [s EXCEPT !.clicks = @ + 1]]
             /\ SendCommand(c, "ANYCONTROLLER")
    <3>0. PICK k \in Nat : k = s.clicks + 1 /\ k > 0 /\ k >= s.clicks
      BY <1>f
    <3> DEFINE t == [s EXCEPT !.clicks = k]
    <3>4. con' = [con EXCEPT ![c] = t]
      BY <2>1, <3>0
    <3>1. t \in Console /\ Rounds(t) /\ t.clicks > 0 /\ t.clicks >= s.clicks
      BY <1>0, <3>0 DEF Console, Rounds
    <3>2. PICK q \in Seq(Pieces) : up' = [up EXCEPT ![c] = q] /\ Adding(s, t, u, q)
      BY <2>1, <3>1, Commanded, Sending1 DEF SendCommand, Headers, s, u
    <3>3. Stays(s, t, u, q, d, d) /\ UNCHANGED down
      BY <1>0, <1>f, <1>15, <3>1, <3>2 DEF Stays, Console, Click
    <3> HIDE DEF t
    <3> QED
      BY <1>0, <1>1, <1>2, <3>1, <3>2, <3>3, <3>4 DEF Moves
  <2>2. CASE con' = [con EXCEPT ![c] = [s EXCEPT !.clicks = @ + 1, !.loop = 0]]
             /\ UNCHANGED up
    <3>0. PICK k \in Nat : k = s.clicks + 1 /\ k >= s.clicks
      BY <1>f
    <3> DEFINE t == [s EXCEPT !.clicks = k, !.loop = 0]
    <3>4. con' = [con EXCEPT ![c] = t]
      BY <2>2, <3>0
    <3>5. ~s.payload /\ 0 \in 0 .. N
      BY <1>0, <1>f, <1>15 DEF Click, Rounds, s
    <3>1. t \in Console /\ Rounds(t) /\ t.clicks >= s.clicks
      <4>1. /\ t \in Console /\ t.clicks = k /\ t.payload = s.payload
            /\ t.waiting = s.waiting /\ t.netdcount = s.netdcount
        BY <1>0, <3>5 DEF Console
      <4> QED
        BY <1>0, <3>0, <3>5, <4>1 DEF Rounds
    <3>2. Stays(s, t, u, u, d, d) /\ UNCHANGED down
      BY <1>0, <1>f, <1>15, <3>1 DEF Stays, Adding, Console, Click
    <3> HIDE DEF t
    <3> QED
      BY <1>0, <1>1, <1>2, <2>2, <3>1, <3>2, <3>4 DEF Moves
  <2> QED
    BY <1>0, <1>15, <2>1, <2>2 DEF Click, s
<1> QED
  BY <1>3, <1>4, <1>5, <1>6, <1>7, <1>8, <1>9, <1>10, <1>11, <1>12, <1>13, <1>14, <1>15
  DEF ConsoleAction, Update

-----------------------------------------------------------------------------
(* What the server sends. *)

\* What a login makes the server say to slot j, and what the end of a pass does.
Greeting(i, j, nm) ==
    <<NewClient(i, nm)>> \o FlattenSeq([k \in 1..N |-> Greet(i, j, k-1)])

Farewell(k) == IF disconnecting[k] THEN <<ClientGone(k)>> ELSE <<>>
EndOfPass == <<Frame(joybuf)>> \o FlattenSeq([k \in 1..N |-> Farewell(k-1)])

LEMMA Announcements ==
    /\ \A i \in Slots, nm \in SlotNames : NewClient(i, nm) \in Messages
    /\ \A i, n \in Slots : Pickup(i, n) \in Messages
    /\ \A n \in Slots : DropPort(n) \in Messages /\ ClientGone(n) \in Messages
    /\ Relay \in Messages
    /\ Messages \subseteq Sent /\ FirstByte \in Sent
    /\ \A jb \in [Slots -> Bytes] : Frame(jb) \in Sent
<1>1. Messages \subseteq Sent /\ FirstByte \in Sent
  BY DEF Sent
<1>2. \A jb \in [Slots -> Bytes] : Frame(jb) \in Sent
  BY DEF Sent, Frame
<1>3. \A i \in Slots, nm \in SlotNames : NewClient(i, nm) \in Messages
  BY DEF Messages, NewClient
<1>4. \A i, n \in Slots : Pickup(i, n) \in Messages
  BY DEF Messages, Pickup
<1>5. \A n \in Slots : DropPort(n) \in Messages /\ ClientGone(n) \in Messages
  BY DEF Messages, DropPort, ClientGone
<1>6. Relay \in Messages
  BY DEF Messages
<1> QED
  BY <1>1, <1>2, <1>3, <1>4, <1>5, <1>6

ServerOK ==
    /\ conn \in [Slots -> Consoles \cup {Nobody}]
    /\ \A i, j \in Occupied : conn[i] = conn[j] => i = j
    /\ command_type \in
          [Slots -> {"LOGINLEN", "LOGIN", "UPDATEDATA", "COMMAND"} \cup Headers]
    /\ name \in [Slots -> SlotNames]
    /\ nes_controllers \in [Slots -> Slots \cup {None}]
    /\ joybuf \in [Slots -> Bytes]
    /\ disconnecting \in [Slots -> BOOLEAN]
    /\ turn \in Accepting .. Sending
    /\ shut \subseteq Consoles

LEMMA GreetType ==
    ASSUME ServerOK, NEW i \in Slots, NEW j \in Slots, NEW k \in Slots
    PROVE  Greet(i, j, k) \in Seq(Messages)
<1>1. name[k] \in SlotNames /\ nes_controllers[k] \in Slots \cup {None}
  BY DEF ServerOK
<1>2. NewClient(k, name[k]) \in Messages
  BY <1>1, Announcements
<1>3. nes_controllers[k] # None => Pickup(nes_controllers[k], k) \in Messages
  BY <1>1, Announcements
<1>4. ASSUME NEW m \in Messages, NEW P \in BOOLEAN
      PROVE  (IF P THEN <<m>> ELSE <<>>) \in Seq(Messages)
  <2>1. <<m>> \in Seq(Messages) /\ <<>> \in Seq(Messages)
    OBVIOUS
  <2> QED
    BY <2>1
<1> HIDE DEF NewClient, Pickup
<1>5. (IF j = i /\ k \in Occupied \ {i} THEN <<NewClient(k, name[k])>> ELSE <<>>) \in Seq(Messages)
  BY <1>2, <1>4
<1>6. (IF nes_controllers[k] # None THEN <<Pickup(nes_controllers[k], k)>> ELSE <<>>) \in Seq(Messages)
  <2>1. CASE nes_controllers[k] # None
    BY <1>3, <1>4, <2>1
  <2>2. CASE nes_controllers[k] = None
    BY <2>2
  <2> QED
    BY <2>1, <2>2
<1> QED
  BY <1>5, <1>6 DEF Greet

\* The rounds of a greeting, and of the farewells.
LEMMA GreetingWay ==
    ASSUME ServerOK, NEW i \in Slots, NEW j \in Slots, NEW nm \in SlotNames
    PROVE  \E g \in [0 .. N -> Seq(Sent)] :
              /\ g[0] = <<>>
              /\ \A k \in 1 .. N : g[k] = g[k-1] \o Greet(i, j, k-1)
              /\ Greeting(i, j, nm) = <<NewClient(i, nm)>> \o g[N]
<1> USE Numbers
<1>1. PICK s : s = [k \in 1..N |-> Greet(i, j, k-1)]
  OBVIOUS
<1>2. ASSUME NEW k \in 1 .. N PROVE Greet(i, j, k-1) \in Seq(Sent)
  <2>1. k-1 \in Slots
    OBVIOUS
  <2> QED
    BY <2>1, GreetType, Announcements, SeqMonotonic
<1>3. s \in Seq(Seq(Sent)) /\ Len(s) = N /\ s # <<>>
  <2>1. s \in [1 .. N -> Seq(Sent)]
    BY <1>1, <1>2
  <2> QED
    BY <2>1
<1>4. PICK g \in [0 .. Len(s) -> Seq(Sent)] :
              /\ g[0] = <<>> /\ g[Len(s)] = FlattenSeq(s)
              /\ \A k \in 1 .. Len(s) : g[k] = g[k-1] \o s[k]
  BY <1>3, FlatWay
<1>5. \A k \in 1 .. N : s[k] = Greet(i, j, k-1)
  BY <1>1
<1>6. Greeting(i, j, nm) = <<NewClient(i, nm)>> \o g[N]
  BY <1>1, <1>3, <1>4 DEF Greeting
<1> QED
  BY <1>3, <1>4, <1>5, <1>6

LEMMA FarewellWay ==
    ASSUME ServerOK
    PROVE  \E g \in [0 .. N -> Seq(Sent)] :
              /\ g[0] = <<>>
              /\ \A k \in 1 .. N : g[k] = g[k-1] \o Farewell(k-1)
              /\ EndOfPass = <<Frame(joybuf)>> \o g[N]
<1> USE Numbers
<1>1. PICK s : s = [k \in 1..N |-> Farewell(k-1)]
  OBVIOUS
<1>2. ASSUME NEW k \in 1 .. N PROVE Farewell(k-1) \in Seq(Sent)
  <2>1. k-1 \in Slots
    OBVIOUS
  <2>2. ClientGone(k-1) \in Sent
    BY <2>1, Announcements
  <2> QED
    BY <2>2 DEF Farewell
<1>3. s \in Seq(Seq(Sent)) /\ Len(s) = N /\ s # <<>>
  <2>1. s \in [1 .. N -> Seq(Sent)]
    BY <1>1, <1>2
  <2> QED
    BY <2>1
<1>4. PICK g \in [0 .. Len(s) -> Seq(Sent)] :
              /\ g[0] = <<>> /\ g[Len(s)] = FlattenSeq(s)
              /\ \A k \in 1 .. Len(s) : g[k] = g[k-1] \o s[k]
  BY <1>3, FlatWay
<1>5. \A k \in 1 .. N : s[k] = Farewell(k-1)
  BY <1>1
<1>6. EndOfPass = <<Frame(joybuf)>> \o g[N]
  BY <1>1, <1>3, <1>4 DEF EndOfPass
<1> QED
  BY <1>3, <1>4, <1>5, <1>6

LEMMA SaidType ==
    ASSUME ServerOK
    PROVE  /\ \A i, j \in Slots, nm \in SlotNames : Greeting(i, j, nm) \in Seq(Sent)
           /\ EndOfPass \in Seq(Sent)
<1>1. ASSUME NEW i \in Slots, NEW j \in Slots, NEW nm \in SlotNames
      PROVE  Greeting(i, j, nm) \in Seq(Sent)
  <2>1. PICK g \in [0 .. N -> Seq(Sent)] : Greeting(i, j, nm) = <<NewClient(i, nm)>> \o g[N]
    BY GreetingWay
  <2>2. <<NewClient(i, nm)>> \in Seq(Sent) /\ g[N] \in Seq(Sent)
    BY Announcements, Numbers
  <2> QED
    BY <2>1, <2>2
<1>2. EndOfPass \in Seq(Sent)
  <2>1. PICK g \in [0 .. N -> Seq(Sent)] : EndOfPass = <<Frame(joybuf)>> \o g[N]
    BY FarewellWay
  <2>2. <<Frame(joybuf)>> \in Seq(Sent) /\ g[N] \in Seq(Sent)
    BY Announcements, Numbers DEF ServerOK
  <2> QED
    BY <2>1, <2>2
<1> QED
  BY <1>1, <1>2

\* Server::send_all and its like: who is in a slot, and listens, is sent what is
\* meant for the slot.
LEMMA Told ==
    ASSUME ConsolesOK, ServerOK, NEW msgs, \A i \in Slots : msgs[i] \in Seq(Sent), Tell(msgs)
    PROVE  /\ down' \in [Consoles -> Seq(Sent)]
           /\ \A i \in Occupied :
                 /\ conn[i] \in Consoles
                 /\ ~Deaf(con[conn[i]]) =>
                       down'[conn[i]] = down[conn[i]] \o msgs[i]
           /\ \A c \in Consoles :
                 SlotOf(c) = {} \/ Deaf(con[c]) => down'[c] = down[c]
<1>1. ASSUME NEW i \in Occupied
      PROVE  conn[i] \in Consoles /\ SlotOf(conn[i]) = {i}
  <2>1. conn[i] \in Consoles /\ i \in Slots
    BY DEF ServerOK, Occupied
  <2>2. \A j \in SlotOf(conn[i]) : j \in Occupied /\ conn[j] = conn[i]
    BY <2>1, SessionAssumption DEF SlotOf, Occupied
  <2> QED
    BY <2>1, <2>2 DEF ServerOK, SlotOf
<1>2. ASSUME NEW c \in Consoles
      PROVE  /\ down'[c] \in Seq(Sent)
             /\ SlotOf(c) = {} \/ Deaf(con[c]) => down'[c] = down[c]
             /\ \A i \in Occupied : conn[i] = c /\ ~Deaf(con[c]) =>
                    down'[c] = down[c] \o msgs[i]
  <2>1. down'[c] = IF SlotOf(c) = {} \/ Deaf(con[c]) THEN down[c]
                   ELSE down[c] \o msgs[CHOOSE i \in SlotOf(c) : TRUE]
    BY DEF Tell
  <2>2. down[c] \in Seq(Sent)
    BY DEF ConsolesOK
  <2>3. CASE SlotOf(c) = {} \/ Deaf(con[c])
    BY <1>1, <2>1, <2>2, <2>3
  <2>4. CASE SlotOf(c) # {} /\ ~Deaf(con[c])
    <3>1. PICK i \in Slots : conn[i] = c
      BY <2>4 DEF SlotOf
    <3>2. i \in Occupied
      BY <3>1, SessionAssumption DEF Occupied
    <3>3. SlotOf(c) = {i}
      BY <1>1, <3>1, <3>2
    <3>4. down'[c] = down[c] \o msgs[i]
      BY <2>1, <2>4, <3>3
    <3>5. \A j \in Occupied : conn[j] = c => j = i
      BY <3>1, <3>2 DEF ServerOK
    <3>6. down[c] \o msgs[i] \in Seq(Sent)
      BY <2>2
    <3> QED
      BY <2>4, <3>4, <3>5, <3>6
  <2> QED
    BY <2>3, <2>4
<1>3. down' \in [Consoles -> Seq(Sent)]
  BY <1>2 DEF Tell
<1> QED
  BY <1>1, <1>2, <1>3

-----------------------------------------------------------------------------
(* The types. *)

TypeInv == ConsolesOK /\ ServerOK

Types == {"LOGINLEN", "LOGIN", "UPDATEDATA", "COMMAND"} \cup Headers

\* A console that reads no more does not begin to read again.
LEMMA Deafens ==
    ASSUME NEW s, NEW t, NEW u, NEW q, NEW d, NEW r, Moves(s, t, u, q, d, r), ~Deaf(t)
    PROVE  ~Deaf(s)
BY DEF Deaf, Moves, Joins, Opens, Goes, Begins, Hears, Finishes, Stays

LEMMA ConsoleTypes ==
    ASSUME TypeInv, NEW c \in Consoles, Moved(c), UNCHANGED server
    PROVE  TypeInv'
<1>1. PICK t \in Console, q \in Seq(Pieces), r \in Seq(Sent) :
        /\ con' = [con EXCEPT ![c] = t]
        /\ up' = [up EXCEPT ![c] = q]
        /\ down' = [down EXCEPT ![c] = r]
        /\ Rounds(t)
  BY DEF Moved
<1>2. ConsolesOK'
  <2>1. /\ con' \in [Consoles -> Console] /\ up' \in [Consoles -> Seq(Pieces)]
        /\ down' \in [Consoles -> Seq(Sent)]
    BY <1>1 DEF TypeInv, ConsolesOK
  <2>2. \A d \in Consoles : con'[d] = t \/ con'[d] = con[d]
    BY <1>1 DEF TypeInv, ConsolesOK
  <2>3. \A d \in Consoles : Rounds(con'[d])
    BY <1>1, <2>2 DEF TypeInv, ConsolesOK
  <2> QED
    BY <2>1, <2>3 DEF ConsolesOK
<1>3. ServerOK'
  BY DEF TypeInv, ServerOK, server, Occupied
<1> QED
  BY <1>2, <1>3 DEF TypeInv

\* What the reading of the client in slot i leaves on its way up.
LEMMA UpLess ==
    ASSUME TypeInv, NEW i \in Occupied,
           \/ up[conn[i]] # <<>> /\ up' = [up EXCEPT ![conn[i]] = Tail(@)]
           \/ up' = [up EXCEPT ![conn[i]] = <<>>]
    PROVE  up' \in [Consoles -> Seq(Pieces)]
<1>1. up \in [Consoles -> Seq(Pieces)] /\ conn[i] \in Consoles /\ up[conn[i]] \in Seq(Pieces)
  BY DEF TypeInv, ConsolesOK, ServerOK, Occupied
<1>2. <<>> \in Seq(Pieces) /\ (up[conn[i]] # <<>> => Tail(up[conn[i]]) \in Seq(Pieces))
  BY <1>1
<1> QED
  BY <1>1, <1>2

\* What Reads, CompletesEmpty and Disconnect do to the types.
LEMMA ReadTypes ==
    ASSUME TypeInv, NEW i \in Slots, turn = i, NextTurn,
           UNCHANGED con, up' \in [Consoles -> Seq(Pieces)], down' \in [Consoles -> Seq(Sent)],
           UNCHANGED conn \/ conn' = [conn EXCEPT ![i] = Nobody],
           command_type' \in [Slots -> Types], name' \in [Slots -> SlotNames],
           nes_controllers' \in [Slots -> Slots \cup {None}],
           joybuf' \in [Slots -> Bytes], disconnecting' \in [Slots -> BOOLEAN],
           shut' \subseteq Consoles
    PROVE  TypeInv'
<1> USE Numbers
<1>1. ConsolesOK'
  BY DEF TypeInv, ConsolesOK
<1>2. turn' \in Accepting .. Sending
  BY DEF NextTurn
<1>3. conn' \in [Slots -> Consoles \cup {Nobody}]
  BY DEF TypeInv, ServerOK
<1>4. \A j, k \in Occupied' : conn'[j] = conn'[k] => j = k
  BY DEF TypeInv, ServerOK, Occupied
<1> QED
  BY <1>1, <1>2, <1>3, <1>4 DEF TypeInv, ServerOK, Types

LEMMA ReadKeepsTypes ==
    ASSUME TypeInv, NEW i \in Slots, Read(i) \/ ReadClosed(i)
    PROVE  TypeInv'
<1> USE Numbers, SmallThings
<1> DEFINE c == conn[i]
<1>0. /\ con \in [Consoles -> Console] /\ up \in [Consoles -> Seq(Pieces)]
      /\ down \in [Consoles -> Seq(Sent)]
      /\ conn \in [Slots -> Consoles \cup {Nobody}] /\ command_type \in [Slots -> Types]
      /\ name \in [Slots -> SlotNames] /\ nes_controllers \in [Slots -> Slots \cup {None}]
      /\ joybuf \in [Slots -> Bytes] /\ disconnecting \in [Slots -> BOOLEAN]
      /\ shut \subseteq Consoles /\ ServerOK /\ ConsolesOK
      /\ i \in Occupied => c \in Consoles
  BY DEF TypeInv, ConsolesOK, ServerOK, Types, Occupied
<1>1. ASSUME NEW type, NEW p, Reads(i, type, p)
      PROVE  /\ turn = i /\ NextTurn /\ UNCHANGED <<con, conn, disconnecting, shut>>
             /\ i \in Occupied /\ up' \in [Consoles -> Seq(Pieces)]
  BY <1>1, UpLess DEF Reads, Arrives
<1>2. ASSUME NEW type \in Types, Expect(i, type)
      PROVE  command_type' \in [Slots -> Types]
  BY <1>0, <1>2 DEF Expect
<1>3. ASSUME NEW msgs, \A j \in Slots : msgs[j] \in Seq(Sent), Tell(msgs)
      PROVE  down' \in [Consoles -> Seq(Sent)]
  BY <1>0, <1>3, Told
<1>4. ASSUME NEW m \in Messages, TellAll(m)
      PROVE  down' \in [Consoles -> Seq(Sent)]
  <2>1. \A j \in Slots : [k \in Slots |-> <<m>>][j] \in Seq(Sent)
    BY Announcements
  <2> QED
    BY <1>3, <1>4, <2>1 DEF TellAll
<1> HIDE DEF c
<1>5. CASE ReadLoginLen(i)
  BY <1>0, <1>1, <1>2, <1>5, ReadTypes DEF ReadLoginLen, Types
<1>6. CASE ReadLogin(i)
  <2>1. PICK nm : /\ nm = IF UniqueName(i, Nick[c]) THEN Nick[c] ELSE DefaultName[i]
                  /\ Reads(i, "LOGIN", Piece("LOGIN"))
                  /\ name' = [name EXCEPT ![i] = nm]
                  /\ Tell([j \in Slots |-> Greeting(i, j, nm)])
                  /\ Expect(i, "UPDATEDATA")
                  /\ UNCHANGED <<nes_controllers, joybuf>>
    BY <1>6 DEF ReadLogin, Greeting, c
  <2>2. nm \in SlotNames
    BY <1>0, <1>1, <2>1, SessionAssumption, ProtocolAssumption DEF SlotNames
  <2>3. \A j \in Slots : [k \in Slots |-> Greeting(i, k, nm)][j] \in Seq(Sent)
    BY <1>0, <2>2, SaidType
  <2>4. down' \in [Consoles -> Seq(Sent)]
    BY <1>3, <2>1, <2>3
  <2>5. name' \in [Slots -> SlotNames]
    BY <1>0, <2>1, <2>2
  <2> QED
    BY <1>0, <1>1, <1>2, <2>1, <2>4, <2>5, ReadTypes DEF Types
<1>7. CASE ReadEscape(i)
  BY <1>0, <1>1, <1>2, <1>7, ReadTypes DEF ReadEscape, Types
<1>8. CASE ReadInput(i)
  <2>1. PICK p \in Buttons : /\ Reads(i, "UPDATEDATA", p)
                             /\ \E stale \in Pads :
                                  joybuf' = [n \in Slots |->
                                    CASE nes_controllers[n] # i -> joybuf[n]
                                      [] \E k \in Slots : k < n /\ nes_controllers[k] = i -> stale
                                      [] OTHER -> p.byte]
                             /\ UNCHANGED <<down, command_type, name, nes_controllers>>
    BY <1>8 DEF ReadInput
  <2>2. p.byte \in Bytes /\ Pads \subseteq Bytes
    BY DEF Buttons, Bytes
  <2>3. joybuf' \in [Slots -> Bytes]
    BY <1>0, <2>1, <2>2
  <2> QED
    BY <1>0, <1>1, <2>1, <2>3, ReadTypes
<1>9. CASE ReadHeader(i)
  BY <1>0, <1>1, <1>2, <1>9, ReadTypes DEF ReadHeader, Types
<1>10. CASE ReadRelay(i)
  <2>1. down' \in [Consoles -> Seq(Sent)]
    BY <1>4, <1>10, Announcements DEF ReadRelay
  <2> QED
    BY <1>0, <1>2, <1>10, <2>1, ReadTypes DEF ReadRelay, CompletesEmpty, Types
<1>11. CASE ReadAnyController(i)
  <2>1. CASE UNCHANGED <<down, nes_controllers>>
    BY <1>0, <1>2, <1>11, <2>1, ReadTypes DEF ReadAnyController, CompletesEmpty, Types
  <2>2. ASSUME NEW n \in Slots, nes_controllers' = [nes_controllers EXCEPT ![n] = i],
               TellAll(Pickup(i, n))
        PROVE  TypeInv'
    <3>1. down' \in [Consoles -> Seq(Sent)]
      BY <1>4, <2>2, Announcements
    <3>2. nes_controllers' \in [Slots -> Slots \cup {None}]
      BY <1>0, <2>2
    <3> QED
      BY <1>0, <1>2, <1>11, <3>1, <3>2, ReadTypes DEF ReadAnyController, CompletesEmpty, Types
  <2> QED
    BY <1>11, <2>1, <2>2 DEF ReadAnyController
<1>12. CASE ReadDrop(i)
  <2>1. PICK p \in Buttons : /\ Reads(i, "DROPCONTROLLER", p) /\ p.byte \in Slots
                             /\ \/ UNCHANGED <<down, nes_controllers>>
                                \/ /\ nes_controllers' = [nes_controllers EXCEPT ![p.byte] = None]
                                   /\ TellAll(DropPort(p.byte))
                             /\ Expect(i, "UPDATEDATA")
                             /\ UNCHANGED <<name, joybuf>>
    BY <1>12 DEF ReadDrop
  <2>2. down' \in [Consoles -> Seq(Sent)] /\ nes_controllers' \in [Slots -> Slots \cup {None}]
    BY <1>0, <1>4, <2>1, Announcements
  <2> QED
    BY <1>0, <1>1, <1>2, <2>1, <2>2, ReadTypes DEF Types
<1>13. CASE ReadBadPort(i) \/ ReadClosed(i)
  <2>1. /\ turn = i /\ NextTurn /\ i \in Occupied /\ Disconnect(i) /\ UNCHANGED con
        /\ UNCHANGED <<down, command_type, name, nes_controllers, joybuf>>
    BY <1>13 DEF ReadBadPort, ReadClosed, Arrives
  <2>2. up' \in [Consoles -> Seq(Pieces)]
    BY <2>1, UpLess DEF Disconnect
  <2>3. conn[i] \in Consoles
    BY <1>0, <2>1 DEF c
  <2>4. /\ conn' = [conn EXCEPT ![i] = Nobody] /\ disconnecting' \in [Slots -> BOOLEAN]
        /\ shut' \subseteq Consoles
    BY <1>0, <2>1, <2>3 DEF Disconnect
  <2> QED
    BY <1>0, <2>1, <2>2, <2>4, ReadTypes
<1> QED
  BY <1>5, <1>6, <1>7, <1>8, <1>9, <1>10, <1>11, <1>12, <1>13 DEF Read

LEMMA PassKeepsTypes ==
    ASSUME TypeInv,
           AcceptNobody \/ ReadNothing \/ SendFrames \/ \E c \in Consoles : Accept(c) \/ Refuse(c)
    PROVE  TypeInv'
<1> USE Numbers, SmallThings
<1>0. /\ con \in [Consoles -> Console] /\ up \in [Consoles -> Seq(Pieces)]
      /\ down \in [Consoles -> Seq(Sent)]
      /\ conn \in [Slots -> Consoles \cup {Nobody}] /\ command_type \in [Slots -> Types]
      /\ nes_controllers \in [Slots -> Slots \cup {None}]
      /\ ServerOK /\ ConsolesOK /\ shut \subseteq Consoles
      /\ \A c \in Consoles : Rounds(con[c])
  BY DEF TypeInv, ConsolesOK, ServerOK, Types
<1>1. CASE AcceptNobody \/ ReadNothing \/ \E c \in Consoles : Refuse(c)
  <2>1. /\ UNCHANGED <<con, up, down, conn, command_type, name, nes_controllers,
                       joybuf, disconnecting>>
        /\ turn' \in Accepting .. Sending /\ shut' \subseteq Consoles
    BY <1>0, <1>1 DEF AcceptNobody, ReadNothing, Refuse, NextTurn
  <2> QED
    BY <2>1 DEF TypeInv, ConsolesOK, ServerOK, Occupied
<1>2. CASE SendFrames
  <2>1. Tell([j \in Slots |-> EndOfPass])
    BY <1>2 DEF SendFrames, EndOfPass, Farewell
  <2>2. \A j \in Slots : [k \in Slots |-> EndOfPass][j] \in Seq(Sent)
    BY <1>0, SaidType
  <2>3. down' \in [Consoles -> Seq(Sent)]
    BY <1>0, <2>1, <2>2, Told
  <2>4. ConsolesOK'
    BY <1>0, <1>2, <2>3 DEF ConsolesOK, SendFrames
  <2>5. /\ nes_controllers' \in [Slots -> Slots \cup {None}]
        /\ disconnecting' \in [Slots -> BOOLEAN] /\ turn' \in Accepting .. Sending
        /\ UNCHANGED <<conn, command_type, name, joybuf, shut>>
    BY <1>0, <1>2 DEF SendFrames, Freed
  <2>6. ServerOK'
    BY <2>5 DEF TypeInv, ServerOK, Occupied
  <2> QED
    BY <2>4, <2>6 DEF TypeInv
<1>3. ASSUME NEW c \in Consoles, Accept(c)
      PROVE  TypeInv'
  <2>1. PICK i \in Slots \ Occupied :
            /\ conn' = [conn EXCEPT ![i] = c]
            /\ command_type' = [command_type EXCEPT ![i] = "LOGINLEN"]
    BY <1>3 DEF Accept
  <2>2. /\ down' = [down EXCEPT ![c] = <<FirstByte>>] /\ turn' = 0 /\ SlotOf(c) = {}
        /\ UNCHANGED <<con, up, name, nes_controllers, joybuf, disconnecting, shut>>
    BY <1>3 DEF Accept, Waiting
  <2>3. <<FirstByte>> \in Seq(Sent)
    BY Announcements
  <2>4. ConsolesOK'
    BY <1>0, <2>2, <2>3 DEF ConsolesOK
  <2>5. conn' \in [Slots -> Consoles \cup {Nobody}] /\ command_type' \in [Slots -> Types]
    BY <1>0, <2>1 DEF Types
  <2>6. \A j \in Slots : conn[j] # c
    BY <2>2 DEF SlotOf
  <2>7. \A j, k \in Occupied' : conn'[j] = conn'[k] => j = k
    BY <1>0, <2>1, <2>6 DEF ServerOK, Occupied
  <2> QED
    BY <2>2, <2>4, <2>5, <2>7 DEF TypeInv, ServerOK, Types
<1> QED
  BY <1>1, <1>2, <1>3

LEMMA TypeBegins == Init => TypeInv
<1> SUFFICES ASSUME Init PROVE TypeInv
  OBVIOUS
<1> USE Numbers, SmallThings
<1>1. PICK d \in Divisors, j \in [Consoles -> Pads] :
          con = [c \in Consoles |-> [NewConsole(d) EXCEPT !.joy = j[c]]]
  BY DEF Init, ClientInit
<1>2. NewConsole(d) \in Console
  BY DEF NewConsole, Console
<1>3. \A b \in Pads : [NewConsole(d) EXCEPT !.joy = b] \in Console
                      /\ Rounds([NewConsole(d) EXCEPT !.joy = b])
  <2>1. PICK z \in Console : z = NewConsole(d)
    BY <1>2
  <2>2. ~z.payload /\ ~z.waiting
    BY <2>1 DEF NewConsole
  <2>3. Pads \subseteq Bytes
    BY DEF Bytes
  <2>4. \A b \in Bytes : [z EXCEPT !.joy = b] \in Console
                         /\ Rounds([z EXCEPT !.joy = b])
    BY <2>2 DEF Console, Rounds
  <2> QED
    BY <2>1, <2>3, <2>4
<1>4. <<>> \in Seq(Pieces) /\ <<>> \in Seq(Sent)
  OBVIOUS
<1>5. ConsolesOK
  BY <1>1, <1>3, <1>4 DEF ConsolesOK, Init, ClientInit
<1>6. ServerOK
  <2>1. Occupied = {}
    BY DEF Init, Occupied
  <2>2. Blank \in SlotNames
    BY DEF SlotNames
  <2> QED
    BY <2>1, <2>2 DEF ServerOK, Init
<1> QED
  BY <1>5, <1>6 DEF TypeInv

\* A step of the session is one of a console or one of the server.
LEMMA Steppings ==
    ASSUME TypeInv, [Next]_vars
    PROVE  \/ \E c \in Consoles : Moved(c) /\ UNCHANGED server
           \/ ServerStep
           \/ UNCHANGED vars
<1>1. ASSUME NEW c \in Consoles, ClientStep(c) \/ ClientClick(c)
      PROVE  Moved(c) /\ UNCHANGED server
  <2>1. ConsoleAction(c) /\ UNCHANGED server
    BY <1>1 DEF ClientStep, ClientClick, ConsoleAction
  <2> QED
    BY <2>1, ConsoleMoves DEF TypeInv
<1> QED
  BY <1>1 DEF Next

LEMMA TypeGoesOn == TypeInv /\ [Next]_vars => TypeInv'
<1> SUFFICES ASSUME TypeInv, [Next]_vars PROVE TypeInv'
  OBVIOUS
<1>1. CASE ServerStep
  BY <1>1, PassKeepsTypes, ReadKeepsTypes DEF ServerStep
<1>2. CASE UNCHANGED vars
  BY <1>2 DEF vars, server, TypeInv, ConsolesOK, ServerOK, Occupied
<1> QED
  BY <1>1, <1>2, Steppings, ConsoleTypes

LEMMA TypeHolds == TypeInv => TypeOK
BY DEF TypeInv, ConsolesOK, ServerOK, TypeOK

THEOREM TypeCorrect == Spec => []TypeOK
BY TypeBegins, TypeGoesOn, TypeHolds, PTL DEF Spec

-----------------------------------------------------------------------------
(* Who has asked for a controller. *)

\* A console is netplaying only with an open socket.
OnlineOpen == \A c \in Consoles : Online(c) => con[c].link = "open"

\* A slot is not taken again before the announcement that its client is gone.
LeftFirst == \A i \in Slots : disconnecting[i] => i \notin Occupied /\ turn > i

\* A session has clicked READY, or it is over.
AskedBy(s) == s.link = "closed" \/ s.clicks > 0

\* What is on its way up asks for a controller only where the player did.
AskedOnTheWay ==
    \A c \in Consoles : \A k \in DOMAIN up[c] : Asks(up[c][k]) => AskedBy(con[c])

\* So does what the server has begun to read,
AskedHere ==
    \A i \in Occupied : command_type[i] = "ANYCONTROLLER" => AskedBy(con[conn[i]])

\* and only such a session holds a controller, unless what it holds awaits the
\* announcement that the session before it is gone.
AskedToHold ==
    \A i, n \in Slots : nes_controllers[n] = i =>
        disconnecting[i] \/ (i \in Occupied /\ AskedBy(con[conn[i]]))

AskInv ==
    /\ TypeInv
    /\ OnlineOpen /\ LeftFirst /\ AskedOnTheWay /\ AskedHere /\ AskedToHold

\* Of a console's step: nobody forgets that it asked, and none goes online but
\* with an open socket.
LEMMA MovesAsked ==
    ASSUME NEW s \in Console, NEW t \in Console, NEW u \in Seq(Pieces), NEW q, NEW d, NEW r,
           Moves(s, t, u, q, d, r), s.mode = "NETPLAY_CLIENT" => s.link = "open",
           \A k \in DOMAIN u : Asks(u[k]) => AskedBy(s)
    PROVE  /\ AskedBy(s) => AskedBy(t)
           /\ t.mode = "NETPLAY_CLIENT" => t.link = "open"
           /\ \A k \in DOMAIN q : Asks(q[k]) => AskedBy(t)
<1>0. s.clicks \in Nat /\ t.clicks \in Nat /\ s.mode \in {"OFFLINE", "NETPLAY_CLIENT"}
  BY DEF Console
<1>1. AskedBy(s) => AskedBy(t)
  BY <1>0 DEF Moves, Joins, Opens, Goes, Begins, Hears, Finishes, Stays, AskedBy
<1>2. t.mode = "NETPLAY_CLIENT" => t.link = "open"
  BY <1>0 DEF Moves, Joins, Opens, Goes, Begins, Hears, Finishes, Stays
<1>3. ASSUME NEW x \in Seq(Pieces), q = u \o x, \A k \in DOMAIN x : Asks(x[k]) => t.clicks > 0
      PROVE  \A k \in DOMAIN q : Asks(q[k]) => AskedBy(t)
  <2> TAKE k \in DOMAIN q
  <2>1. \/ k \in DOMAIN u /\ q[k] = u[k]
        \/ k - Len(u) \in DOMAIN x /\ q[k] = x[k - Len(u)]
    BY <1>3
  <2> QED
    BY <1>1, <1>3, <2>1 DEF AskedBy
<1>4. \A k \in DOMAIN q : Asks(q[k]) => AskedBy(t)
  <2>1. CASE q = u
    BY <1>1, <2>1
  <2>2. CASE Joins(s, t, u, q, d, r)
    <3>1. q = <<Piece("LOGINLEN"), Piece("LOGIN")>>
      BY <2>2 DEF Joins
    <3>2. ~Asks(Piece("LOGINLEN")) /\ ~Asks(Piece("LOGIN"))
      BY DEF Asks, Piece
    <3>3. \A k \in DOMAIN q : q[k] \in {Piece("LOGINLEN"), Piece("LOGIN")}
      BY <3>1
    <3> QED
      BY <3>2, <3>3
  <2>3. CASE Begins(s, t, u, q, d, r)
    <3>1. PICK b \in Bytes : q = IF s.link = "open" THEN u \o <<Joy(b)>> ELSE u
      BY <2>3 DEF Begins
    <3>2. <<Joy(b)>> \in Seq(Pieces) /\ \A k \in DOMAIN <<Joy(b)>> : ~Asks(<<Joy(b)>>[k])
      BY SmallThings
    <3> QED
      BY <1>3, <2>1, <3>1, <3>2
  <2>4. CASE Stays(s, t, u, q, d, r)
    BY <1>3, <2>1, <2>4 DEF Stays, Adding
  <2>5. Opens(s, t, u, q, d, r) \/ Goes(s, t, u, q, d, r) \/ Hears(s, t, u, q, d, r)
          \/ Finishes(s, t, u, q, d, r) => q = u
    BY DEF Opens, Goes, Hears, Finishes
  <2>6. Joins(s, t, u, q, d, r) \/ q = u \/ Begins(s, t, u, q, d, r) \/ Stays(s, t, u, q, d, r)
    BY <2>5 DEF Moves
  <2> QED
    BY <2>1, <2>2, <2>3, <2>4, <2>6
<1> QED
  BY <1>1, <1>2, <1>4

LEMMA ConsoleAsked ==
    ASSUME AskInv, NEW c \in Consoles, Moved(c), UNCHANGED server
    PROVE  AskInv'
<1>1. PICK t \in Console, q \in Seq(Pieces), r \in Seq(Sent) :
        /\ con' = [con EXCEPT ![c] = t]
        /\ up' = [up EXCEPT ![c] = q]
        /\ Moves(con[c], t, up[c], q, down[c], r)
  BY DEF Moved
<1>2. /\ con \in [Consoles -> Console] /\ up \in [Consoles -> Seq(Pieces)]
      /\ con[c] \in Console /\ up[c] \in Seq(Pieces)
      /\ \A i \in Occupied : conn[i] \in Consoles
  BY DEF AskInv, TypeInv, ConsolesOK, ServerOK, Occupied
<1>3. /\ con'[c] = t /\ up'[c] = q
      /\ \A d \in Consoles \ {c} : con'[d] = con[d] /\ up'[d] = up[d]
  BY <1>1, <1>2
<1>4. /\ AskedBy(con[c]) => AskedBy(t)
      /\ t.mode = "NETPLAY_CLIENT" => t.link = "open"
      /\ \A k \in DOMAIN q : Asks(q[k]) => AskedBy(t)
  <2>1. con[c].mode = "NETPLAY_CLIENT" => con[c].link = "open"
    BY DEF AskInv, OnlineOpen, Online
  <2>2. \A k \in DOMAIN up[c] : Asks(up[c][k]) => AskedBy(con[c])
    BY DEF AskInv, AskedOnTheWay
  <2> QED
    BY <1>1, <1>2, <2>1, <2>2, MovesAsked
<1>5. TypeInv'
  BY ConsoleTypes DEF AskInv
<1>6. OnlineOpen'
  BY <1>3, <1>4 DEF AskInv, OnlineOpen, Online
<1>7. AskedOnTheWay'
  BY <1>3, <1>4 DEF AskInv, AskedOnTheWay
<1>8. \A d \in Consoles : AskedBy(con[d]) => AskedBy(con'[d])
  BY <1>3, <1>4
<1>9. LeftFirst' /\ AskedHere' /\ AskedToHold'
  BY <1>2, <1>8 DEF AskInv, LeftFirst, AskedHere, AskedToHold, server, Occupied
<1> QED
  BY <1>5, <1>6, <1>7, <1>9 DEF AskInv

\* Some of what is on its way is taken off, from the front or all of it.
LEMMA LessOnTheWay ==
    ASSUME TypeInv, AskedOnTheWay, UNCHANGED con, NEW c \in Consoles,
           \/ up[c] # <<>> /\ up' = [up EXCEPT ![c] = Tail(@)]
           \/ up' = [up EXCEPT ![c] = <<>>]
           \/ UNCHANGED up
    PROVE  AskedOnTheWay'
<1>1. up \in [Consoles -> Seq(Pieces)] /\ up[c] \in Seq(Pieces)
  BY DEF TypeInv, ConsolesOK
<1>2. \A d \in Consoles \ {c} : up'[d] = up[d]
  BY <1>1
<1>3. \A k \in DOMAIN up'[c] : \E j \in DOMAIN up[c] : up'[c][k] = up[c][j]
  <2>1. CASE up[c] # <<>> /\ up' = [up EXCEPT ![c] = Tail(@)]
    <3>1. up'[c] = Tail(up[c])
      BY <1>1, <2>1
    <3>2. \A k \in DOMAIN Tail(up[c]) : k + 1 \in DOMAIN up[c] /\ Tail(up[c])[k] = up[c][k+1]
      BY <1>1, <2>1
    <3> QED
      BY <3>1, <3>2
  <2>2. CASE up' = [up EXCEPT ![c] = <<>>]
    BY <1>1, <2>2
  <2> QED
    BY <2>1, <2>2
<1> QED
  BY <1>2, <1>3 DEF AskedOnTheWay

\* check_for_connections: who takes a slot finds no controller in it.
LEMMA AcceptAsked ==
    ASSUME AskInv, TypeInv', AcceptNobody \/ \E c \in Consoles : Accept(c) \/ Refuse(c)
    PROVE  AskInv'
<1> USE Numbers DEF AskInv
<1>1. UNCHANGED con /\ UNCHANGED up /\ UNCHANGED <<nes_controllers, disconnecting>>
      /\ turn = Accepting /\ turn' = 0
  BY DEF AcceptNobody, Accept, Refuse
<1>2. OnlineOpen' /\ AskedOnTheWay'
  BY <1>1 DEF OnlineOpen, AskedOnTheWay, Online
<1>3. \A i \in Slots : ~disconnecting[i]
  BY <1>1 DEF LeftFirst
<1>0. /\ conn \in [Slots -> Consoles \cup {Nobody}] /\ \A i \in Occupied : conn[i] \in Consoles
      /\ command_type \in [Slots -> Types]
  BY DEF TypeInv, ServerOK, Occupied, Types
<1>4. CASE UNCHANGED <<conn, command_type>>
  <2>1. LeftFirst' /\ AskedHere' /\ AskedToHold'
    BY <1>0, <1>1, <1>3, <1>4 DEF LeftFirst, AskedHere, AskedToHold, Occupied
  <2> QED
    BY <1>2, <2>1
<1>5. ASSUME NEW c \in Consoles, Accept(c)
      PROVE  AskInv'
  <2>1. PICK i \in Slots \ Occupied :
            /\ conn' = [conn EXCEPT ![i] = c]
            /\ command_type' = [command_type EXCEPT ![i] = "LOGINLEN"]
    BY <1>5 DEF Accept
  <2>2. /\ conn'[i] = c /\ \A j \in Slots \ {i} : conn'[j] = conn[j]
        /\ command_type'[i] = "LOGINLEN"
        /\ \A j \in Slots \ {i} : command_type'[j] = command_type[j]
    BY <1>0, <2>1
  <2>4. LeftFirst'
    BY <1>1, <1>3 DEF LeftFirst
  <2>5. \A j \in Slots \ {i} : /\ j \in Occupied' <=> j \in Occupied
                               /\ j \in Occupied => conn[j] \in Consoles
    BY <1>0, <2>2 DEF Occupied
  <2>6. AskedHere'
    BY <1>1, <2>2, <2>5 DEF AskedHere, Occupied
  <2>7. \A n \in Slots : nes_controllers[n] # i
    BY <1>3, <2>1 DEF AskedToHold
  <2>8. AskedToHold'
    BY <1>1, <1>3, <2>2, <2>5, <2>7 DEF AskedToHold
  <2> QED
    BY <1>2, <2>4, <2>6, <2>8
<1> QED
  BY <1>4, <1>5 DEF AcceptNobody, Refuse

\* A step of receive(client) that keeps the client: the slot's input type
\* becomes ANYCONTROLLER for a session that asked, and only such a session is
\* given a controller.
LEMMA ServesAsked ==
    ASSUME AskInv, TypeInv', NEW i \in Slots, i \in Occupied, turn = i,
           UNCHANGED <<con, conn, disconnecting>>, NextTurn, AskedOnTheWay',
           \A j \in Slots \ {i} : command_type'[j] = command_type[j],
           command_type'[i] = "ANYCONTROLLER" => AskedBy(con[conn[i]]),
           \A n \in Slots :
              \/ nes_controllers'[n] \in {nes_controllers[n], None}
              \/ nes_controllers'[n] = i /\ AskedBy(con[conn[i]])
    PROVE  AskInv'
<1> USE Numbers DEF AskInv, Occupied
<1>1. OnlineOpen'
  BY DEF OnlineOpen, Online
<1>2. \A j \in Occupied : conn[j] \in Consoles
  BY DEF TypeInv, ServerOK
<1>4. LeftFirst'
  BY DEF LeftFirst, NextTurn, TypeInv, ServerOK
<1>5. AskedHere'
  BY <1>2 DEF AskedHere
<1>6. AskedToHold'
  BY <1>2 DEF AskedToHold
<1> QED
  BY <1>1, <1>4, <1>5, <1>6

\* receive(client)
LEMMA ReadAsked ==
    ASSUME AskInv, TypeInv', NEW i \in Slots,
           \/ ReadLoginLen(i) \/ ReadLogin(i) \/ ReadEscape(i) \/ ReadInput(i)
           \/ ReadHeader(i) \/ ReadRelay(i) \/ ReadAnyController(i) \/ ReadDrop(i)
    PROVE  AskInv'
<1> USE Numbers DEF Headers
<1>0. /\ command_type \in [Slots -> Types]
      /\ nes_controllers \in [Slots -> Slots \cup {None}]
      /\ \A j \in Occupied : conn[j] \in Consoles
      /\ up \in [Consoles -> Seq(Pieces)]
      /\ TypeInv /\ AskedHere /\ AskedOnTheWay
  BY DEF AskInv, TypeInv, ServerOK, ConsolesOK, Occupied, Types
<1>1. ASSUME NEW type, NEW p, Reads(i, type, p)
      PROVE  /\ i \in Occupied /\ turn = i /\ NextTurn
             /\ UNCHANGED <<con, conn, disconnecting>> /\ AskedOnTheWay'
             /\ Asks(p) => AskedBy(con[conn[i]])
  <2>1. /\ i \in Occupied /\ turn = i /\ NextTurn
        /\ UNCHANGED <<con, conn, disconnecting>>
        /\ up[conn[i]] # <<>> /\ p = Head(up[conn[i]])
        /\ up' = [up EXCEPT ![conn[i]] = Tail(@)]
    BY <1>1 DEF Reads, Arrives
  <2>2. PICK u \in Seq(Pieces) : u = up[conn[i]]
    BY <1>0, <2>1
  <2>3. 1 \in DOMAIN u /\ p = u[1]
    BY <2>1, <2>2
  <2> QED
    BY <1>0, <2>1, <2>2, <2>3, LessOnTheWay DEF AskedOnTheWay
<1>2. ASSUME NEW type \in Types, Expect(i, type)
      PROVE  /\ command_type'[i] = type
             /\ \A j \in Slots \ {i} : command_type'[j] = command_type[j]
  BY <1>0, <1>2 DEF Expect
<1>3. ASSUME NEW old, NEW p, NEW type \in Types \ {"ANYCONTROLLER"},
             Reads(i, old, p), Expect(i, type), UNCHANGED nes_controllers
      PROVE  AskInv'
  <2>1. command_type'[i] # "ANYCONTROLLER"
    BY <1>2, <1>3
  <2> QED
    BY <1>0, <1>1, <1>2, <1>3, <2>1, ServesAsked
<1>4. CASE ReadLoginLen(i) \/ ReadLogin(i)
  BY <1>3, <1>4 DEF ReadLoginLen, ReadLogin, Types
<1>5. CASE ReadEscape(i)
  BY <1>3, <1>5 DEF ReadEscape, Types
<1>6. CASE ReadInput(i)
  <2>1. PICK p : Reads(i, "UPDATEDATA", p) /\ UNCHANGED <<command_type, nes_controllers>>
    BY <1>6 DEF ReadInput
  <2>2. command_type[i] = "UPDATEDATA"
    BY <2>1 DEF Reads, Arrives
  <2> QED
    BY <1>0, <1>1, <2>1, <2>2, ServesAsked
<1>7. CASE ReadHeader(i)
  <2>1. PICK cmd \in Headers :
            Reads(i, "COMMAND", Piece(cmd)) /\ Expect(i, cmd) /\ UNCHANGED nes_controllers
    BY <1>7 DEF ReadHeader
  <2>2. cmd = "ANYCONTROLLER" => AskedBy(con[conn[i]])
    BY <1>1, <2>1 DEF Asks, Piece
  <2> QED
    BY <1>0, <1>1, <1>2, <2>1, <2>2, ServesAsked DEF Types
<1>8. CASE ReadRelay(i) \/ ReadAnyController(i)
  <2>1. /\ i \in Occupied /\ turn = i /\ NextTurn /\ Expect(i, "UPDATEDATA")
        /\ UNCHANGED <<con, up, conn, disconnecting>>
    BY <1>8 DEF ReadRelay, ReadAnyController, CompletesEmpty
  <2>2. AskedOnTheWay' /\ "UPDATEDATA" \in Types
    BY <1>0, <2>1, LessOnTheWay DEF Types
  <2>3. CASE UNCHANGED nes_controllers
    BY <1>0, <1>2, <2>1, <2>2, <2>3, ServesAsked
  <2>4. CASE ReadAnyController(i) /\ ~UNCHANGED nes_controllers
    <3>1. PICK n \in Slots : nes_controllers' = [nes_controllers EXCEPT ![n] = i]
      BY <2>4 DEF ReadAnyController
    <3>2. AskedBy(con[conn[i]])
      BY <1>0, <2>1, <2>4 DEF ReadAnyController, CompletesEmpty, AskedHere
    <3>3. \A m \in Slots : nes_controllers'[m] \in {nes_controllers[m], i}
      BY <1>0, <3>1
    <3> QED
      BY <1>0, <1>2, <2>1, <2>2, <3>2, <3>3, ServesAsked
  <2> QED
    BY <1>8, <2>3, <2>4 DEF ReadRelay
<1>9. CASE ReadDrop(i)
  <2>1. PICK p : /\ Reads(i, "DROPCONTROLLER", p) /\ Expect(i, "UPDATEDATA")
                 /\ \/ UNCHANGED nes_controllers
                    \/ /\ p.byte \in Slots
                       /\ nes_controllers' = [nes_controllers EXCEPT ![p.byte] = None]
    BY <1>9 DEF ReadDrop
  <2>2. \A n \in Slots : nes_controllers'[n] \in {nes_controllers[n], None}
    BY <1>0, <2>1
  <2> QED
    BY <1>0, <1>1, <1>2, <2>1, <2>2, ServesAsked DEF Types
<1> QED
  BY <1>4, <1>5, <1>6, <1>7, <1>8, <1>9

\* The client goes; what it holds stays with its slot until it is announced.
LEMMA DisconnectAsked ==
    ASSUME AskInv, TypeInv', NEW i \in Slots, ReadClosed(i) \/ ReadBadPort(i)
    PROVE  AskInv'
<1> USE Numbers DEF AskInv
<1>0. /\ conn \in [Slots -> Consoles \cup {Nobody}] /\ disconnecting \in [Slots -> BOOLEAN]
      /\ \A j \in Occupied : conn[j] \in Consoles
  BY DEF TypeInv, ServerOK, Occupied
<1>1. /\ i \in Occupied /\ turn = i /\ NextTurn /\ Disconnect(i)
      /\ UNCHANGED <<con, command_type, nes_controllers>>
  BY DEF ReadClosed, ReadBadPort, Arrives
<1>3. AskedOnTheWay' /\ OnlineOpen'
  BY <1>0, <1>1, LessOnTheWay DEF Disconnect, OnlineOpen, Online
<1>5. /\ conn'[i] = Nobody /\ disconnecting'[i] = TRUE
      /\ \A j \in Slots \ {i} : conn'[j] = conn[j] /\ disconnecting'[j] = disconnecting[j]
  BY <1>0, <1>1 DEF Disconnect
<1>7. i \notin Occupied' /\ \A j \in Slots \ {i} : j \in Occupied' <=> j \in Occupied
  BY <1>5 DEF Occupied
<1>8. LeftFirst'
  BY <1>1, <1>5, <1>7 DEF LeftFirst, NextTurn, TypeInv, ServerOK
<1>9. AskedHere'
  BY <1>0, <1>1, <1>5, <1>7 DEF AskedHere, Occupied
<1>10. AskedToHold'
  BY <1>0, <1>1, <1>5, <1>7 DEF AskedToHold, Occupied
<1> QED
  BY <1>3, <1>8, <1>9, <1>10

\* Server::send and handle_disconnects, and a client who has sent nothing.
LEMMA PassAsked ==
    ASSUME AskInv, TypeInv', SendFrames \/ ReadNothing
    PROVE  AskInv'
<1> USE Numbers DEF AskInv
<1>1. UNCHANGED <<con, up, conn, command_type>>
  BY DEF SendFrames, ReadNothing
<1>3. \A j \in Occupied : conn[j] \in Consoles
  BY DEF TypeInv, ServerOK, Occupied
<1>4. AskedHere' /\ OnlineOpen' /\ AskedOnTheWay'
  BY <1>1, <1>3 DEF AskedHere, Occupied, OnlineOpen, Online, AskedOnTheWay
<1>5. CASE SendFrames
  <2>1. /\ turn' = Accepting
        /\ nes_controllers' = Freed /\ disconnecting' = [j \in Slots |-> FALSE]
    BY <1>5 DEF SendFrames
  <2>2. LeftFirst'
    BY <2>1 DEF LeftFirst
  <2>3. AskedToHold'
    BY <1>1, <1>3, <2>1 DEF AskedToHold, Freed, Occupied
  <2> QED
    BY <1>4, <2>2, <2>3
<1>6. CASE ReadNothing
  <2>1. turn' = turn + 1 /\ turn \in Slots /\ UNCHANGED <<nes_controllers, disconnecting>>
    BY <1>6 DEF ReadNothing, NextTurn
  <2>2. LeftFirst'
    BY <1>1, <2>1 DEF LeftFirst, Occupied
  <2>3. AskedToHold'
    BY <1>1, <1>3, <2>1 DEF AskedToHold, Occupied
  <2> QED
    BY <1>4, <2>2, <2>3
<1> QED
  BY <1>5, <1>6

LEMMA AskBegins == Init => AskInv
<1> SUFFICES ASSUME Init PROVE AskInv
  OBVIOUS
<1> USE Numbers
<1>1. TypeInv
  BY TypeBegins
<1>2. PICK d \in Divisors, j \in [Consoles -> Pads] :
          con = [c \in Consoles |-> [NewConsole(d) EXCEPT !.joy = j[c]]]
  BY DEF Init, ClientInit
<1>3. \A c \in Consoles : con[c].mode = "OFFLINE" /\ up[c] = <<>>
  BY <1>2 DEF NewConsole, Init, ClientInit
<1>4. Occupied = {} /\ \A n \in Slots : nes_controllers[n] = None /\ ~disconnecting[n]
  BY DEF Init, Occupied
<1>5. \A k \in DOMAIN <<>> : FALSE
  OBVIOUS
<1>6. AskedOnTheWay
  BY <1>3, <1>5 DEF AskedOnTheWay
<1> QED
  BY <1>1, <1>3, <1>4, <1>6 DEF AskInv, OnlineOpen, Online, LeftFirst, AskedHere, AskedToHold

LEMMA AskGoesOn == AskInv /\ [Next]_vars => AskInv'
<1> SUFFICES ASSUME AskInv, [Next]_vars PROVE AskInv'
  OBVIOUS
<1>0. TypeInv /\ TypeInv'
  BY TypeGoesOn DEF AskInv
<1>1. CASE ServerStep
  BY <1>0, <1>1, AcceptAsked, PassAsked, ReadAsked, DisconnectAsked DEF ServerStep, Read
<1>2. CASE UNCHANGED vars
  BY <1>0, <1>2 DEF vars, server, AskInv, OnlineOpen, Online, LeftFirst, AskedOnTheWay,
                    AskedHere, AskedToHold, Occupied
<1> QED
  BY <1>0, <1>1, <1>2, Steppings, ConsoleAsked

\* No player has a controller that its session never asked for, whoever came and
\* went before it in its slot (server.cpp:450-467): HoldsByAsking.
THEOREM AskedFirst == Spec => []HoldsByAsking
<1>1. AskInv => HoldsByAsking
  <2> SUFFICES ASSUME AskInv, NEW c \in Consoles, Plays(c), Holds(c)
               PROVE  con[c].clicks > 0
    BY DEF HoldsByAsking
  <2>1. PICK i \in Slots, n \in Slots : conn[i] = c /\ nes_controllers[n] = i
    BY DEF Holds, SlotOf
  <2>2. i \in Occupied
    BY <2>1, SessionAssumption DEF Occupied
  <2>3. AskedBy(con[c])
    BY <2>1, <2>2 DEF AskInv, LeftFirst, AskedToHold
  <2>4. con[c].link = "open"
    BY DEF Plays, AskInv, OnlineOpen
  <2> QED
    BY <2>3, <2>4 DEF AskedBy
<1> QED
  BY <1>1, AskBegins, AskGoesOn, PTL DEF Spec

-----------------------------------------------------------------------------
(* Who plays the same game. *)

\* One of the two ends with the other.
Behind(s, t) == \E x \in Seq(Sent) : t = x \o s
Near(s, t) == Behind(s, t) \/ Behind(t, s)

LEMMA BehindSuffix ==
    ASSUME NEW s \in Seq(Sent), NEW t \in Seq(Sent), Behind(s, t)
    PROVE  IsSuffix(s, t)
<1>1. PICK x \in Seq(Sent) : t = x \o s
  BY DEF Behind
<1>2. Len(t) = Len(x) + Len(s) /\ Len(x) \in Nat /\ Len(s) \in Nat
  BY <1>1
<1>3. \A k \in 1 .. Len(s) : t[Len(t) - k + 1] = s[Len(s) - k + 1]
  BY <1>1, <1>2
<1>4. PICK rs : rs = Reverse(s)
  OBVIOUS
<1>5. PICK rt : rt = Reverse(t)
  OBVIOUS
<1>6. /\ rs \in Seq(Sent) /\ Len(rs) = Len(s)
      /\ \A k \in 1 .. Len(s) : rs[k] = s[Len(s) - k + 1]
  <2>1. rs = [k \in 1 .. Len(s) |-> s[(Len(s) - k) + 1]]
    BY <1>4 DEF Reverse
  <2>2. \A k \in 1 .. Len(s) : (Len(s) - k) + 1 \in 1 .. Len(s)
    BY <1>2
  <2>3. rs \in [1 .. Len(s) -> Sent]
    BY <2>1, <2>2
  <2> QED
    BY <1>2, <2>1, <2>3
<1>7. /\ rt \in Seq(Sent) /\ Len(rt) = Len(t)
      /\ \A k \in 1 .. Len(t) : rt[k] = t[Len(t) - k + 1]
  <2>1. rt = [k \in 1 .. Len(t) |-> t[(Len(t) - k) + 1]]
    BY <1>5 DEF Reverse
  <2>2. \A k \in 1 .. Len(t) : (Len(t) - k) + 1 \in 1 .. Len(t)
    OBVIOUS
  <2>3. rt \in [1 .. Len(t) -> Sent]
    BY <2>1, <2>2
  <2> QED
    BY <2>1, <2>3
<1>8. SubSeq(rs, 1, Len(s)) = SubSeq(rt, 1, Len(s))
  <2>1. ASSUME NEW k \in 1 .. Len(s) PROVE rs[k] = rt[k]
    <3>1. k \in 1 .. Len(t)
      BY <1>2
    <3>2. rt[k] = t[Len(t) - k + 1]
      BY <1>7, <3>1
    <3>3. rs[k] = s[Len(s) - k + 1]
      BY <1>6
    <3> QED
      BY <1>3, <3>2, <3>3
  <2>2. Len(s) <= Len(t)
    BY <1>2
  <2> HIDE DEF Sent
  <2> QED
    BY <1>2, <1>6, <1>7, <2>1, <2>2
<1> QED
  BY <1>2, <1>4, <1>5, <1>6, <1>7, <1>8 DEF IsSuffix, IsPrefix

LEMMA NearNothing ==
    ASSUME NEW s \in Seq(Sent)
    PROVE  Near(<<>>, s) /\ Near(s, <<>>) /\ Near(s, s)
<1>1. s = s \o <<>> /\ s = <<>> \o s /\ <<>> \in Seq(Sent)
  OBVIOUS
<1> QED
  BY <1>1 DEF Near, Behind

LEMMA NearMore ==
    ASSUME NEW s \in Seq(Sent), NEW t \in Seq(Sent), NEW x \in Seq(Sent), Near(s, t)
    PROVE  Near(s \o x, t \o x)
<1>1. ASSUME NEW a \in Seq(Sent), NEW b \in Seq(Sent), Behind(a, b)
      PROVE  Behind(a \o x, b \o x)
  <2>1. PICK y \in Seq(Sent) : b = y \o a
    BY <1>1 DEF Behind
  <2>2. b \o x = y \o (a \o x)
    BY <2>1
  <2> QED
    BY <2>2 DEF Behind
<1> QED
  BY <1>1 DEF Near

LEMMA NearLess ==
    ASSUME NEW s \in Seq(Sent), NEW t \in Seq(Sent), NEW m \in Sent, Near(<<m>> \o s, t)
    PROVE  Near(s, t)
<1>1. CASE Behind(<<m>> \o s, t)
  <2>1. PICK y \in Seq(Sent) : t = y \o (<<m>> \o s)
    BY <1>1 DEF Behind
  <2>2. t = (y \o <<m>>) \o s /\ y \o <<m>> \in Seq(Sent)
    BY <2>1
  <2> QED
    BY <2>2 DEF Near, Behind
<1>2. CASE Behind(t, <<m>> \o s)
  <2>1. PICK y \in Seq(Sent) : <<m>> \o s = y \o t
    BY <1>2 DEF Behind
  <2>2. CASE y = <<>>
    <3>1. t = <<m>> \o s /\ <<m>> \in Seq(Sent)
      BY <2>1, <2>2
    <3> QED
      BY <3>1 DEF Near, Behind
  <2>3. CASE y # <<>>
    <3>1. Tail(y) \in Seq(Sent) /\ Tail(y \o t) = Tail(y) \o t
      BY <2>3
    <3>2. Tail(<<m>> \o s) = s
      OBVIOUS
    <3>3. s = Tail(y) \o t
      BY <2>1, <3>1, <3>2
    <3> QED
      BY <3>1, <3>3 DEF Near, Behind
  <2> QED
    BY <2>2, <2>3
<1> QED
  BY <1>1, <1>2 DEF Near

\* A console that takes off the first of what is on its way stays near.
LEMMA NearTail ==
    ASSUME NEW d \in Seq(Sent), d # <<>>, NEW t \in Seq(Sent), Near(Played(d), t)
    PROVE  Near(Played(Tail(d)), t)
<1>1. /\ Head(d) \in Sent /\ Tail(d) \in Seq(Sent)
      /\ Played(d) = Played(<<Head(d)>>) \o Played(Tail(d))
  BY Firsts
<1>2. Played(Tail(d)) \in Seq(Sent)
  BY <1>1, PlayedMore
<1>3. CASE Played(<<Head(d)>>) = <<Head(d)>>
  BY <1>1, <1>2, <1>3, NearLess
<1>4. CASE Played(<<Head(d)>>) = <<>>
  <2>0. \A s \in Seq(Sent) : <<>> \o s = s
    OBVIOUS
  <2>1. Played(d) = Played(Tail(d))
    BY <1>1, <1>2, <1>4, <2>0, Zenon
  <2> QED
    BY <2>1
<1> QED
  BY <1>1, <1>3, <1>4, PlayedOne

-----------------------------------------------------------------------------
\* Who is connected and goes on reading.
Ears == {i \in Occupied : ~Deaf(con[conn[i]])}

\* Of any two of them one is behind.
AllNear == \A i, j \in Ears : Near(Played(down[conn[i]]), Played(down[conn[j]]))

GameInv == TypeInv /\ AllNear

LEMMA GameTypes ==
    ASSUME GameInv
    PROVE  /\ TypeInv /\ ConsolesOK /\ ServerOK /\ AllNear
           /\ \A c \in Consoles : down[c] \in Seq(Sent) /\ Played(down[c]) \in Seq(Sent)
           /\ \A i \in Occupied : i \in Slots /\ conn[i] \in Consoles
           /\ \A i \in Ears : i \in Occupied /\ ~Deaf(con[conn[i]])
<1>1. \A c \in Consoles : down[c] \in Seq(Sent)
  BY DEF GameInv, TypeInv, ConsolesOK
<1> QED
  BY <1>1, PlayedMore DEF GameInv, TypeInv, ServerOK, Occupied, Ears

\* A console's step takes off the first of what is on its way, or all of it.
LEMMA Takes ==
    ASSUME NEW s, NEW t, NEW u, NEW q, NEW d, NEW r, Moves(s, t, u, q, d, r)
    PROVE  r = d \/ r = <<>> \/ (d # <<>> /\ r = Tail(d))
BY DEF Moves, Joins, Opens, Goes, Begins, Hears, Finishes, Stays

LEMMA ConsoleGame ==
    ASSUME GameInv, NEW c \in Consoles, Moved(c), UNCHANGED server
    PROVE  GameInv'
<1>0. TypeInv'
  BY ConsoleTypes DEF GameInv
<1>1. PICK t \in Console, q \in Seq(Pieces), r \in Seq(Sent) :
        /\ con' = [con EXCEPT ![c] = t]
        /\ down' = [down EXCEPT ![c] = r]
        /\ Moves(con[c], t, up[c], q, down[c], r)
  BY DEF Moved
<1>2. /\ con'[c] = t /\ down'[c] = r
      /\ \A d \in Consoles \ {c} : con'[d] = con[d] /\ down'[d] = down[d]
  BY <1>1, GameTypes DEF ConsolesOK
<1>3. r = down[c] \/ r = <<>> \/ (down[c] # <<>> /\ r = Tail(down[c]))
  BY <1>1, Takes
<1>4. \A d \in Consoles : ~Deaf(con'[d]) => ~Deaf(con[d])
  BY <1>1, <1>2, Deafens
<1>5. ASSUME NEW s \in Seq(Sent), Near(Played(down[c]), s)
      PROVE  Near(Played(r), s)
  <2>1. down[c] \in Seq(Sent)
    BY GameTypes
  <2>2. Played(<<>>) = <<>>
    BY <2>1, PlayedMore
  <2> QED
    BY <1>3, <1>5, <2>1, <2>2, NearTail, NearNothing
<1>6. ASSUME NEW d \in Consoles, Near(Played(down[c]), Played(down[d]))
      PROVE  Near(Played(down'[c]), Played(down'[d]))
  <2>1. CASE d = c
    BY <1>2, <2>1, NearNothing, PlayedMore
  <2>2. CASE d # c
    BY <1>2, <1>5, <1>6, <2>2, GameTypes
  <2> QED
    BY <2>1, <2>2
<1>7. \A s, x : Near(s, x) <=> Near(x, s)
  BY DEF Near
<1>8. ASSUME NEW d \in Consoles, NEW e \in Consoles, Near(Played(down[d]), Played(down[e]))
      PROVE  Near(Played(down'[d]), Played(down'[e]))
  <2>1. CASE d # c /\ e # c
    BY <1>2, <1>8, <2>1
  <2> QED
    BY <1>6, <1>7, <1>8, <2>1
<1>9. AllNear'
  <2>1. Occupied' = Occupied /\ conn' = conn
    BY DEF server, Occupied
  <2>2. \A i \in Ears' : i \in Ears
    BY <1>4, <2>1, GameTypes DEF Ears
  <2>3. \A i, j \in Ears' : Near(Played(down'[conn[i]]), Played(down'[conn[j]]))
    BY <1>8, <2>2, GameTypes DEF AllNear
  <2> QED
    BY <2>1, <2>3 DEF AllNear
<1> QED
  BY <1>0, <1>9 DEF GameInv

\* Everybody is told the same game.
LEMMA TellGame ==
    ASSUME GameInv, TypeInv', UNCHANGED <<con, conn>>,
           NEW msgs, \A i \in Slots : msgs[i] \in Seq(Sent), Tell(msgs),
           NEW x \in Seq(Sent), \A i \in Slots : Played(msgs[i]) = x
    PROVE  GameInv'
<1>1. \A i \in Ears : down'[conn[i]] = down[conn[i]] \o msgs[i]
  BY Told, GameTypes
<1>2. ASSUME NEW i \in Ears
      PROVE  Played(down'[conn[i]]) = Played(down[conn[i]]) \o x
  <2>1. /\ down'[conn[i]] = down[conn[i]] \o msgs[i]
        /\ i \in Slots /\ down[conn[i]] \in Seq(Sent) /\ msgs[i] \in Seq(Sent)
    BY <1>1, GameTypes
  <2>2. Played(down[conn[i]] \o msgs[i]) = Played(down[conn[i]]) \o Played(msgs[i])
    BY <2>1, PlayedMore
  <2> QED
    BY <2>1, <2>2
<1>3. ASSUME NEW i \in Ears, NEW j \in Ears
      PROVE  Near(Played(down'[conn[i]]), Played(down'[conn[j]]))
  BY <1>2, GameTypes, NearMore DEF AllNear
<1>4. AllNear'
  BY <1>3 DEF AllNear, Ears, Occupied
<1> QED
  BY <1>4 DEF GameInv

\* The greeting of a login is no part of the game; of what ends a pass the frame is.
LEMMA SaidPlayed ==
    ASSUME ServerOK
    PROVE  /\ \A i, j \in Slots, nm \in SlotNames : Played(Greeting(i, j, nm)) = <<>>
           /\ Played(EndOfPass) = <<Frame(joybuf)>>
<1> USE Numbers
<1>1. ASSUME NEW m \in Messages, m.cmd # "RELAY"
      PROVE  <<m>> \in Seq(Sent) /\ Played(<<m>>) = <<>>
  <2>1. m.cmd # "FRAME"
    BY <1>1 DEF Messages, Relay
  <2>2. m \in Sent /\ <<m>> \in Seq(Sent)
    BY Announcements
  <2> QED
    BY <1>1, <2>1, <2>2, PlayedOne
<1>2. <<>> \in Seq(Sent) /\ Played(<<>>) = <<>> /\ <<>> \o <<>> = <<>>
  <2>1. <<>> \in Seq(Sent)
    OBVIOUS
  <2>2. <<>> \o <<>> = <<>>
    OBVIOUS
  <2>3. \A s \in Seq(Sent) : Played(<<>>) = <<>>
    BY PlayedMore
  <2> QED
    BY <2>1, <2>2, <2>3, Zenon
<1>3. ASSUME NEW g \in [0 .. N -> Seq(Sent)], g[0] = <<>>,
             \A k \in 1 .. N : \E s \in Seq(Sent) : g[k] = g[k-1] \o s /\ Played(s) = <<>>
      PROVE  Played(g[N]) = <<>>
  <2> DEFINE T == {k \in Nat : k <= N => Played(g[k]) = <<>>}
  <2>1. 0 \in T
    BY <1>2, <1>3
  <2>2. ASSUME NEW k \in T \cap Nat PROVE k + 1 \in T
    <3>1. CASE k + 1 <= N
      <4>1. k + 1 \in 1 .. N /\ (k + 1) - 1 = k /\ k \in 0 .. N /\ Played(g[k]) = <<>>
        BY <3>1
      <4>2. PICK s \in Seq(Sent) : g[k+1] = g[k] \o s /\ Played(s) = <<>>
        BY <1>3, <4>1
      <4>3. Played(g[k+1]) = Played(g[k]) \o Played(s)
        BY <4>1, <4>2, PlayedMore
      <4>4. Played(g[k+1]) = <<>>
        BY <1>2, <4>1, <4>2, <4>3, Zenon
      <4> QED
        BY <4>1, <4>4
    <3> QED
      BY <3>1
  <2> HIDE DEF T
  <2>3. Nat \subseteq T
    BY <2>1, <2>2, Induction
  <2>4. N \in T
    BY <2>3
  <2> QED
    BY <2>4 DEF T
<1>4. ASSUME NEW i \in Slots, NEW j \in Slots, NEW nm \in SlotNames
      PROVE  Played(Greeting(i, j, nm)) = <<>>
  <2>1. PICK g \in [0 .. N -> Seq(Sent)] :
              /\ g[0] = <<>>
              /\ \A k \in 1 .. N : g[k] = g[k-1] \o Greet(i, j, k-1)
              /\ Greeting(i, j, nm) = <<NewClient(i, nm)>> \o g[N]
    BY GreetingWay
  <2>2. ASSUME NEW k \in Slots
        PROVE  Greet(i, j, k) \in Seq(Sent) /\ Played(Greet(i, j, k)) = <<>>
    <3>1. /\ NewClient(k, name[k]) \in Messages
          /\ nes_controllers[k] # None => Pickup(nes_controllers[k], k) \in Messages
      BY Announcements DEF ServerOK
    <3>2. NewClient(k, name[k]).cmd # "RELAY" /\ Pickup(nes_controllers[k], k).cmd # "RELAY"
      BY DEF NewClient, Pickup
    <3> HIDE DEF NewClient, Pickup
    <3>3. PICK a : a = IF j = i /\ k \in Occupied \ {i} THEN <<NewClient(k, name[k])>> ELSE <<>>
      OBVIOUS
    <3>4. PICK b : b = IF nes_controllers[k] # None
                         THEN <<Pickup(nes_controllers[k], k)>> ELSE <<>>
      OBVIOUS
    <3>5. a \in Seq(Sent) /\ Played(a) = <<>>
      BY <1>1, <1>2, <3>1, <3>2, <3>3
    <3>6. b \in Seq(Sent) /\ Played(b) = <<>>
      BY <1>1, <1>2, <3>1, <3>2, <3>4
    <3>7. Greet(i, j, k) = a \o b
      BY <3>3, <3>4 DEF Greet
    <3>8. Played(a \o b) = Played(a) \o Played(b) /\ a \o b \in Seq(Sent)
      BY <3>5, <3>6, PlayedMore
    <3> QED
      BY <1>2, <3>5, <3>6, <3>7, <3>8
  <2>3. Played(g[N]) = <<>> /\ g[N] \in Seq(Sent)
    <3>1. \A k \in 1 .. N : k - 1 \in Slots
      OBVIOUS
    <3>2. \A k \in 1 .. N : \E x \in Seq(Sent) : g[k] = g[k-1] \o x /\ Played(x) = <<>>
      BY <2>1, <2>2, <3>1
    <3>3. g[0] = <<>> /\ g[N] \in Seq(Sent)
      BY <2>1
    <3> QED
      BY <1>3, <3>2, <3>3
  <2>4. NewClient(i, nm) \in Messages /\ NewClient(i, nm).cmd # "RELAY"
    BY Announcements DEF NewClient
  <2>5. <<NewClient(i, nm)>> \in Seq(Sent) /\ Played(<<NewClient(i, nm)>>) = <<>>
    BY <1>1, <2>4
  <2>6. Played(<<NewClient(i, nm)>> \o g[N]) = Played(<<NewClient(i, nm)>>) \o Played(g[N])
    BY <2>3, <2>5, PlayedMore
  <2> QED
    BY <1>2, <2>1, <2>3, <2>5, <2>6
<1>5. Played(EndOfPass) = <<Frame(joybuf)>>
  <2>1. PICK g \in [0 .. N -> Seq(Sent)] :
              /\ g[0] = <<>>
              /\ \A k \in 1 .. N : g[k] = g[k-1] \o Farewell(k-1)
              /\ EndOfPass = <<Frame(joybuf)>> \o g[N]
    BY FarewellWay
  <2>2. ASSUME NEW k \in Slots
        PROVE  Farewell(k) \in Seq(Sent) /\ Played(Farewell(k)) = <<>>
    <3>1. ClientGone(k) \in Messages /\ ClientGone(k).cmd # "RELAY"
      BY Announcements DEF ClientGone
    <3>2. <<ClientGone(k)>> \in Seq(Sent) /\ Played(<<ClientGone(k)>>) = <<>>
      BY <1>1, <3>1
    <3> QED
      BY <1>2, <3>2 DEF Farewell
  <2>3. Played(g[N]) = <<>> /\ g[N] \in Seq(Sent)
    <3>1. \A k \in 1 .. N : k - 1 \in Slots
      OBVIOUS
    <3>2. \A k \in 1 .. N : \E x \in Seq(Sent) : g[k] = g[k-1] \o x /\ Played(x) = <<>>
      BY <2>1, <2>2, <3>1
    <3>3. g[0] = <<>> /\ g[N] \in Seq(Sent)
      BY <2>1
    <3> QED
      BY <1>3, <3>2, <3>3
  <2>4. Frame(joybuf) \in Sent /\ Frame(joybuf).cmd = "FRAME"
    BY Announcements DEF Frame, ServerOK
  <2>5. <<Frame(joybuf)>> \in Seq(Sent) /\ Played(<<Frame(joybuf)>>) = <<Frame(joybuf)>>
    BY <2>4, PlayedOne
  <2>6. Played(<<Frame(joybuf)>> \o g[N]) = Played(<<Frame(joybuf)>>) \o Played(g[N])
    BY <2>3, <2>5, PlayedMore
  <2>7. <<Frame(joybuf)>> \o <<>> = <<Frame(joybuf)>>
    BY <2>5
  <2> QED
    BY <2>1, <2>3, <2>5, <2>6, <2>7
<1> QED
  BY <1>4, <1>5

\* Nobody comes, and nothing is told.
LEMMA QuietGame ==
    ASSUME GameInv, TypeInv', UNCHANGED <<con, down>>,
           \A i \in Slots : conn'[i] \in {conn[i], Nobody}
    PROVE  GameInv'
<1>1. \A i \in Ears' : i \in Ears /\ conn'[i] = conn[i]
  BY DEF Ears, Occupied
<1>2. AllNear'
  BY <1>1 DEF GameInv, AllNear
<1> QED
  BY <1>2 DEF GameInv

LEMMA AcceptGame ==
    ASSUME GameInv, TypeInv', NEW c \in Consoles, Accept(c)
    PROVE  GameInv'
<1>1. PICK i \in Slots \ Occupied : conn' = [conn EXCEPT ![i] = c]
  BY DEF Accept
<1>2. /\ down' = [down EXCEPT ![c] = <<FirstByte>>] /\ UNCHANGED con
      /\ con[c].link = "connecting" /\ SlotOf(c) = {}
  BY DEF Accept, Waiting
<1>3. /\ down \in [Consoles -> Seq(Sent)] /\ conn \in [Slots -> Consoles \cup {Nobody}]
      /\ down' \in [Consoles -> Seq(Sent)]
  BY DEF GameInv, TypeInv, ConsolesOK, ServerOK
<1>4. /\ down'[c] = <<FirstByte>> /\ \A d \in Consoles \ {c} : down'[d] = down[d]
      /\ conn'[i] = c /\ \A j \in Slots \ {i} : conn'[j] = conn[j]
  BY <1>1, <1>2, <1>3
<1>6. Played(down'[c]) = <<>>
  <2>1. FirstByte \in Sent /\ FirstByte.cmd \notin {"FRAME", "RELAY"}
    BY Announcements DEF FirstByte
  <2> QED
    BY <1>4, <2>1, PlayedOne
<1>7. \A d \in Consoles : Played(down'[d]) \in Seq(Sent)
  BY <1>3, PlayedMore
<1>8. \A j \in Ears' : j = i \/ (j \in Ears /\ conn'[j] = conn[j])
  BY <1>2, <1>4 DEF Ears, Occupied
<1>9. ASSUME NEW j \in Ears', NEW k \in Ears'
      PROVE  Near(Played(down'[conn'[j]]), Played(down'[conn'[k]]))
  <2>0. conn'[j] \in Consoles /\ conn'[k] \in Consoles
    BY DEF TypeInv, ServerOK, Ears, Occupied
  <2>1. CASE j = i \/ k = i
    BY <1>4, <1>6, <1>7, <2>0, <2>1, NearNothing
  <2>2. CASE j # i /\ k # i
    <3>1. /\ j \in Ears /\ k \in Ears /\ conn'[j] = conn[j] /\ conn'[k] = conn[k]
      BY <1>8, <2>2
    <3>2. conn[j] # c /\ conn[k] # c
      BY <1>2, <3>1 DEF SlotOf, Ears, Occupied
    <3>3. down'[conn'[j]] = down[conn[j]] /\ down'[conn'[k]] = down[conn[k]]
      BY <1>4, <2>0, <3>1, <3>2
    <3> QED
      BY <3>1, <3>3 DEF GameInv, AllNear
  <2> QED
    BY <2>1, <2>2
<1> QED
  BY <1>9 DEF GameInv, AllNear

LEMMA ServerGame ==
    ASSUME GameInv, TypeInv', ServerStep
    PROVE  GameInv'
<1>0. TypeInv /\ ServerOK /\ \A i \in Occupied : i \in Slots /\ conn[i] \in Consoles
  BY GameTypes
<1>1. ASSUME NEW m \in Messages, TellAll(m), UNCHANGED <<con, conn>>
      PROVE  GameInv'
  <2>1. PICK x \in Seq(Sent) : x = Played(<<m>>)
    <3>1. <<m>> \in Seq(Sent)
      BY Announcements
    <3> QED
      BY <3>1, PlayedMore
  <2> DEFINE msgs == [j \in Slots |-> <<m>>]
  <2>2. \A j \in Slots : msgs[j] \in Seq(Sent) /\ Played(msgs[j]) = x
    BY <2>1, Announcements
  <2>3. Tell(msgs)
    BY <1>1 DEF TellAll
  <2> HIDE DEF msgs
  <2> QED
    BY <1>1, <2>2, <2>3, TellGame
<1>2. CASE AcceptNobody \/ ReadNothing \/ \E c \in Consoles : Refuse(c)
  BY <1>2, QuietGame DEF AcceptNobody, ReadNothing, Refuse
<1>3. CASE SendFrames
  <2> DEFINE msgs == [j \in Slots |-> EndOfPass]
  <2>1. Tell(msgs) /\ UNCHANGED <<con, conn>>
    BY <1>3 DEF SendFrames, EndOfPass, Farewell
  <2>2. PICK x \in Seq(Sent) : x = Played(EndOfPass)
    BY <1>0, SaidType, PlayedMore
  <2>3. \A j \in Slots : msgs[j] \in Seq(Sent) /\ Played(msgs[j]) = x
    BY <1>0, <2>2, SaidType
  <2> HIDE DEF msgs
  <2> QED
    BY <2>1, <2>3, TellGame
<1>4. ASSUME NEW i \in Slots, Read(i) \/ ReadClosed(i)
      PROVE  GameInv'
  <2>1. CASE ReadLoginLen(i) \/ ReadEscape(i) \/ ReadInput(i) \/ ReadHeader(i)
    BY <2>1, QuietGame DEF ReadLoginLen, ReadEscape, ReadInput, ReadHeader, Reads, Arrives
  <2>2. CASE ReadBadPort(i) \/ ReadClosed(i)
    <3>1. UNCHANGED <<con, down>> /\ conn' = [conn EXCEPT ![i] = Nobody]
      BY <2>2 DEF ReadBadPort, ReadClosed, Arrives, Disconnect
    <3>2. \A j \in Slots : conn'[j] \in {conn[j], Nobody}
      BY <1>0, <3>1 DEF ServerOK
    <3> QED
      BY <3>1, <3>2, QuietGame
  <2>3. CASE ReadRelay(i)
    BY <1>1, <2>3, Announcements DEF ReadRelay, CompletesEmpty
  <2>4. CASE ReadAnyController(i)
    BY <1>1, <2>4, QuietGame, Announcements DEF ReadAnyController, CompletesEmpty
  <2>5. CASE ReadDrop(i)
    BY <1>1, <2>5, QuietGame, Announcements DEF ReadDrop, Reads, Arrives
  <2>6. CASE ReadLogin(i)
    <3>0. i \in Occupied
      BY <2>6 DEF ReadLogin, Reads, Arrives
    <3>1. PICK nm : /\ nm = IF UniqueName(i, Nick[conn[i]]) THEN Nick[conn[i]] ELSE DefaultName[i]
                    /\ Tell([j \in Slots |-> Greeting(i, j, nm)])
                    /\ UNCHANGED <<con, conn>>
      BY <2>6 DEF ReadLogin, Greeting, Reads, Arrives
    <3>2. nm \in SlotNames
      BY <1>0, <3>0, <3>1, SessionAssumption, ProtocolAssumption DEF SlotNames
    <3> DEFINE msgs == [j \in Slots |-> Greeting(i, j, nm)]
    <3>3. <<>> \in Seq(Sent)
      OBVIOUS
    <3>4. \A j \in Slots : msgs[j] \in Seq(Sent) /\ Played(msgs[j]) = <<>>
      BY <1>0, <3>2, SaidType, SaidPlayed
    <3>5. Tell(msgs)
      BY <3>1
    <3> HIDE DEF msgs
    <3> QED
      BY <3>1, <3>3, <3>4, <3>5, TellGame
  <2> QED
    BY <1>4, <2>1, <2>2, <2>3, <2>4, <2>5, <2>6 DEF Read
<1> QED
  BY <1>2, <1>3, <1>4, AcceptGame DEF ServerStep

LEMMA GameBegins == Init => GameInv
<1> SUFFICES ASSUME Init PROVE GameInv
  OBVIOUS
<1>1. TypeInv
  BY TypeBegins
<1>2. Occupied = {}
  BY DEF Init, Occupied
<1> QED
  BY <1>1, <1>2 DEF GameInv, AllNear, Ears

LEMMA GameGoesOn == GameInv /\ [Next]_vars => GameInv'
<1> SUFFICES ASSUME GameInv, [Next]_vars PROVE GameInv'
  OBVIOUS
<1>0. TypeInv /\ TypeInv'
  BY TypeGoesOn DEF GameInv
<1>1. CASE UNCHANGED vars
  BY <1>0, <1>1 DEF vars, server, GameInv, AllNear, Ears, Occupied
<1> QED
  BY <1>0, <1>1, Steppings, ConsoleGame, ServerGame

\* Of any two connected consoles that go on reading, one has yet to play what the
\* other has, and then some: the frames, the resets and the coins, in the same order (send_all
\* and Server::send of server.cpp): SameGame.
THEOREM OneGame == Spec => []SameGame
<1>1. GameInv => SameGame
  <2> SUFFICES ASSUME GameInv, NEW i \in Ears, NEW j \in Ears
               PROVE  \/ IsSuffix(ToPlay(conn[i]), ToPlay(conn[j]))
                      \/ IsSuffix(ToPlay(conn[j]), ToPlay(conn[i]))
    BY DEF SameGame, Ears
  <2>1. ToPlay(conn[i]) = Played(down[conn[i]]) /\ ToPlay(conn[j]) = Played(down[conn[j]])
    BY DEF ToPlay, Played
  <2>2. /\ Played(down[conn[i]]) \in Seq(Sent) /\ Played(down[conn[j]]) \in Seq(Sent)
        /\ Near(Played(down[conn[i]]), Played(down[conn[j]]))
    BY GameTypes DEF AllNear
  <2> QED
    BY <2>1, <2>2, BehindSuffix DEF Near
<1> QED
  BY <1>1, GameBegins, GameGoesOn, PTL DEF Spec

-----------------------------------------------------------------------------
(* Delays. *)

Half(type) == IF type \in {"ANYCONTROLLER", "RELAY"} THEN 1 ELSE 0
Read1(t, i) == IF t > i THEN 1 ELSE 0
Idle(s) == IF s.waiting THEN 0 ELSE 1

\* What is added up in Delay for session c in slot i.
Late(u, d, type, t, i, s) == Waits(u) + Frames(d) + Half(type) + Read1(t, i) + Idle(s)

LEMMA DelayParts ==
    \A i : /\ Delay(i) = Late(up[conn[i]], down[conn[i]], command_type[i], turn, i, con[conn[i]])
           /\ Delay(i)' = Late(up'[conn'[i]], down'[conn'[i]], command_type'[i], turn', i,
                               con'[conn'[i]])
BY DEF Delay, Late, Waits, Frames, Half, Read1, Idle

LEMMA PartsAreNumbers ==
    ASSUME TypeInv, NEW i \in Occupied
    PROVE  /\ conn[i] \in Consoles /\ i \in Slots /\ i \in Nat
           /\ up[conn[i]] \in Seq(Pieces) /\ down[conn[i]] \in Seq(Sent)
           /\ Waits(up[conn[i]]) \in Nat /\ Frames(down[conn[i]]) \in Nat
<1>1. /\ conn[i] \in Consoles /\ i \in Slots
      /\ up[conn[i]] \in Seq(Pieces) /\ down[conn[i]] \in Seq(Sent)
  BY DEF TypeInv, ConsolesOK, ServerOK, Occupied
<1> QED
  BY <1>1, WaitsMore, FramesMore, Numbers

\* The player in slot i stays, goes on reading, and its delay does not fall.
Later(i) ==
    (/\ LoggedIn(i) /\ ~Deaf(con[conn[i]]) /\ conn'[i] = conn[i]
     /\ Online(conn[i]) /\ Online(conn[i])')
        => Delay(i)' >= Delay(i)

LEMMA ConsoleLate ==
    ASSUME NEW s \in Console, NEW t \in Console, NEW u \in Seq(Pieces), NEW q \in Seq(Pieces),
           NEW d \in Seq(Sent), NEW r \in Seq(Sent), Moves(s, t, u, q, d, r),
           s.mode = "NETPLAY_CLIENT", s.link = "open", t.mode = "NETPLAY_CLIENT",
           NEW type, NEW k, NEW i
    PROVE  Late(q, r, type, k, i, t) >= Late(u, d, type, k, i, s)
<1>0. /\ Waits(u) \in Nat /\ Waits(q) \in Nat /\ Frames(d) \in Nat /\ Frames(r) \in Nat
      /\ Half(type) \in Nat /\ Read1(k, i) \in Nat /\ Idle(s) \in Nat /\ Idle(t) \in Nat
  BY WaitsMore, FramesMore DEF Half, Read1, Idle
<1>1. ASSUME Waits(q) + Frames(r) + Idle(t) >= Waits(u) + Frames(d) + Idle(s)
      PROVE  Late(q, r, type, k, i, t) >= Late(u, d, type, k, i, s)
  <2>1. \A a, b, e, f, g, h, m, n \in Nat :
            a + b + e >= f + g + h => a + b + m + n + e >= f + g + m + n + h
    OBVIOUS
  <2>2. /\ Late(q, r, type, k, i, t) = Waits(q) + Frames(r) + Half(type) + Read1(k, i) + Idle(t)
        /\ Late(u, d, type, k, i, s) = Waits(u) + Frames(d) + Half(type) + Read1(k, i) + Idle(s)
    BY DEF Late
  <2>3. Waits(q) + Frames(r) + Half(type) + Read1(k, i) + Idle(t)
          >= Waits(u) + Frames(d) + Half(type) + Read1(k, i) + Idle(s)
    BY <1>0, <1>1, <2>1, Zenon
  <2> QED
    BY <2>2, <2>3, Zenon
<1>2. CASE Begins(s, t, u, q, d, r)
  <2>1. PICK b \in Bytes : q = u \o <<Joy(b)>>
    BY <1>2 DEF Begins
  <2>2. <<Joy(b)>> \in Seq(Pieces) /\ Waits(<<Joy(b)>>) = 1
    <3>1. Joy(b) \in Pieces /\ Passes(Joy(b)) = 1
      BY SmallThings DEF Passes, Joy
    <3> QED
      BY <3>1, WaitsOne
  <2>3. Waits(q) = Waits(u) + 1
    BY <2>1, <2>2, WaitsMore
  <2>4. r = d /\ Idle(s) = 1 /\ Idle(t) = 0
    BY <1>2 DEF Begins, Idle
  <2> QED
    BY <1>0, <1>1, <2>3, <2>4
<1>3. CASE Hears(s, t, u, q, d, r)
  <2>1. d # <<>> /\ Head(d) \in Messages /\ r = Tail(d) /\ q = u /\ Idle(s) = Idle(t)
    BY <1>3 DEF Hears, Idle
  <2>2. Head(d).cmd # "FRAME"
    BY <2>1 DEF Messages, Relay
  <2>3. Head(d) \in Sent /\ Frames(d) = Frames(<<Head(d)>>) + Frames(r)
    BY <2>1, Firsts
  <2>4. Frames(d) = Frames(r)
    BY <1>0, <2>2, <2>3, FramesOne
  <2> QED
    BY <1>0, <1>1, <2>1, <2>4 DEF Idle
<1>4. CASE Finishes(s, t, u, q, d, r)
  <2>1. d # <<>> /\ Head(d).cmd = "FRAME" /\ r = Tail(d) /\ q = u /\ Idle(s) = 0 /\ Idle(t) = 1
    BY <1>4 DEF Finishes, Idle
  <2>3. Head(d) \in Sent /\ Frames(d) = Frames(<<Head(d)>>) + Frames(r)
    BY <2>1, Firsts
  <2>4. Frames(d) = 1 + Frames(r)
    BY <1>0, <2>1, <2>3, FramesOne
  <2> QED
    BY <1>0, <1>1, <2>1, <2>4
<1>5. CASE Stays(s, t, u, q, d, r)
  <2>1. r = d /\ Idle(s) = Idle(t) /\ (q = u \/ \E x \in Seq(Pieces) : q = u \o x)
    BY <1>5 DEF Stays, Adding, Idle
  <2>2. Waits(q) >= Waits(u)
    <3>1. CASE q = u
      BY <1>0, <3>1
    <3>2. CASE \E x \in Seq(Pieces) : q = u \o x
      <4>1. PICK x \in Seq(Pieces) : q = u \o x
        BY <3>2
      <4>2. Waits(q) = Waits(u) + Waits(x) /\ Waits(x) \in Nat
        BY <4>1, WaitsMore
      <4> QED
        BY <1>0, <4>2
    <3> QED
      BY <2>1, <3>1, <3>2
  <2> QED
    BY <1>0, <1>1, <2>1, <2>2 DEF Idle
<1>6. ~Joins(s, t, u, q, d, r) /\ ~Opens(s, t, u, q, d, r) /\ ~Goes(s, t, u, q, d, r)
  BY DEF Joins, Opens, Goes
<1> QED
  BY <1>2, <1>3, <1>4, <1>5, <1>6 DEF Moves

LEMMA ConsoleLater ==
    ASSUME AskInv, NEW c \in Consoles, Moved(c), UNCHANGED server, NEW i \in Occupied
    PROVE  Later(i)
<1> SUFFICES ASSUME Online(conn[i]), Online(conn[i])'
             PROVE  Delay(i)' >= Delay(i)
  BY DEF Later
<1>0. TypeInv /\ OnlineOpen /\ con[conn[i]].link = "open"
  BY PartsAreNumbers DEF AskInv, OnlineOpen
<1>1. PICK t \in Console, q \in Seq(Pieces), r \in Seq(Sent) :
        /\ con' = [con EXCEPT ![c] = t]
        /\ up' = [up EXCEPT ![c] = q]
        /\ down' = [down EXCEPT ![c] = r]
        /\ Moves(con[c], t, up[c], q, down[c], r)
  BY DEF Moved
<1>2. /\ con[c] \in Console /\ up[c] \in Seq(Pieces) /\ down[c] \in Seq(Sent)
      /\ con'[c] = t /\ up'[c] = q /\ down'[c] = r
      /\ \A d \in Consoles \ {c} : con'[d] = con[d] /\ up'[d] = up[d] /\ down'[d] = down[d]
  BY <1>0, <1>1 DEF TypeInv, ConsolesOK
<1>3. conn'[i] = conn[i] /\ command_type'[i] = command_type[i] /\ turn' = turn
  BY DEF server
<1>4. CASE conn[i] = c
  <2>1. con[c].mode = "NETPLAY_CLIENT" /\ t.mode = "NETPLAY_CLIENT" /\ con[c].link = "open"
    BY <1>0, <1>2, <1>3, <1>4 DEF Online
  <2>2. Late(q, r, command_type[i], turn, i, t)
          >= Late(up[c], down[c], command_type[i], turn, i, con[c])
    BY <1>1, <1>2, <2>1, ConsoleLate
  <2> QED
    BY <1>2, <1>3, <1>4, <2>2, DelayParts
<1>5. CASE conn[i] # c
  <2>1. conn[i] \in Consoles \ {c}
    BY <1>0, <1>5, PartsAreNumbers
  <2>2. Delay(i)' = Delay(i)
    BY <1>2, <1>3, <2>1, DelayParts
  <2>3. Delay(i) \in Int
    BY <1>0, PartsAreNumbers, DelayParts DEF Late, Half, Read1, Idle
  <2> QED
    BY <2>2, <2>3
<1> QED
  BY <1>4, <1>5

\* A step of the server: what it takes from the way up, and out of what it has
\* half read, it adds to the pass and to the way down.
LEMMA ServerLate ==
    ASSUME TypeInv, TypeInv', UNCHANGED con, NEW i \in Occupied, conn'[i] = conn[i],
           Waits(up'[conn[i]]) + Frames(down'[conn[i]]) + Half(command_type'[i]) + Read1(turn', i)
             >= Waits(up[conn[i]]) + Frames(down[conn[i]]) + Half(command_type[i]) + Read1(turn, i)
    PROVE  Delay(i)' >= Delay(i)
<1>1. /\ conn[i] \in Consoles
      /\ Waits(up[conn[i]]) \in Nat /\ Frames(down[conn[i]]) \in Nat
  BY PartsAreNumbers
<1>2. Waits(up'[conn[i]]) \in Nat /\ Frames(down'[conn[i]]) \in Nat
  <2>1. up'[conn[i]] \in Seq(Pieces) /\ down'[conn[i]] \in Seq(Sent)
    BY <1>1 DEF TypeInv, ConsolesOK
  <2> QED
    BY <2>1, WaitsMore, FramesMore
<1>3. /\ \A type : Half(type) \in Nat
      /\ \A t, j : Read1(t, j) \in Nat
      /\ \A s : Idle(s) \in Nat
  BY DEF Half, Read1, Idle
<1>4. /\ Delay(i) = Late(up[conn[i]], down[conn[i]], command_type[i], turn, i, con[conn[i]])
      /\ Delay(i)' = Late(up'[conn[i]], down'[conn[i]], command_type'[i], turn', i, con[conn[i]])
  BY DelayParts
<1> QED
  BY <1>1, <1>2, <1>3, <1>4 DEF Late

\* Nothing is taken off what was sent before.
LEMMA ToldFrames ==
    ASSUME TypeInv, NEW msgs, \A i \in Slots : msgs[i] \in Seq(Sent), Tell(msgs),
           NEW i \in Occupied, ~Deaf(con[conn[i]])
    PROVE  /\ Frames(msgs[i]) \in Nat
           /\ Frames(down'[conn[i]]) = Frames(down[conn[i]]) + Frames(msgs[i])
<1>1. /\ down'[conn[i]] = down[conn[i]] \o msgs[i]
      /\ down[conn[i]] \in Seq(Sent) /\ msgs[i] \in Seq(Sent)
  BY Told, PartsAreNumbers DEF TypeInv
<1> QED
  BY <1>1, FramesMore

\* What the delay of slot j is made of, while the client in another slot is served.
LEMMA OthersLate ==
    ASSUME TypeInv, TypeInv', UNCHANGED con, NEW j \in Occupied, conn'[j] = conn[j],
           up'[conn[j]] = up[conn[j]], command_type'[j] = command_type[j],
           Read1(turn', j) >= Read1(turn, j),
           Frames(down'[conn[j]]) >= Frames(down[conn[j]])
    PROVE  Delay(j)' >= Delay(j)
<1>1. /\ Waits(up[conn[j]]) \in Nat /\ Frames(down[conn[j]]) \in Nat
      /\ Half(command_type[j]) \in Nat /\ Read1(turn, j) \in Nat /\ Read1(turn', j) \in Nat
      /\ conn[j] \in Consoles
  BY PartsAreNumbers DEF Half, Read1
<1>2. Frames(down'[conn[j]]) \in Nat
  <2>1. down'[conn[j]] \in Seq(Sent)
    BY <1>1 DEF TypeInv, ConsolesOK
  <2> QED
    BY <2>1, FramesMore
<1>3. Waits(up'[conn[j]]) + Frames(down'[conn[j]]) + Half(command_type'[j]) + Read1(turn', j)
        >= Waits(up[conn[j]]) + Frames(down[conn[j]]) + Half(command_type[j]) + Read1(turn, j)
  BY <1>1, <1>2
<1> QED
  BY <1>3, ServerLate

\* The next turn is later for everybody, and for the client just read by one.
LEMMA TurnGoesOn ==
    ASSUME TypeInv, NEW i \in Slots, turn = i, NextTurn
    PROVE  /\ Read1(turn, i) = 0 /\ Read1(turn', i) = 1
           /\ \A j \in Slots : Read1(turn', j) >= Read1(turn, j)
<1> USE Numbers
<1>1. turn \in Int /\ turn' = turn + 1 /\ \A j \in Slots : j \in Int
  BY DEF NextTurn
<1> QED
  BY <1>1 DEF Read1

\* receive(client), for the client in slot i and for the others.
LEMMA ServedLate ==
    ASSUME TypeInv, TypeInv', UNCHANGED <<con, conn>>, NEW i \in Occupied, turn = i, NextTurn,
           \A d \in Consoles \ {conn[i]} : up'[d] = up[d],
           \A j \in Slots \ {i} : command_type'[j] = command_type[j],
           \A j \in Occupied : ~Deaf(con[conn[j]]) =>
                Frames(down'[conn[j]]) >= Frames(down[conn[j]]),
           LoggedIn(i) => Waits(up'[conn[i]]) + Half(command_type'[i]) + 1
                            >= Waits(up[conn[i]]) + Half(command_type[i]),
           OnlineOpen, NEW j \in Occupied
    PROVE  Later(j)
<1> SUFFICES ASSUME LoggedIn(j), Online(conn[j]), ~Deaf(con[conn[j]])
             PROVE  Delay(j)' >= Delay(j)
  BY DEF Later
<1>1. /\ conn[j] \in Consoles /\ con[conn[j]].link = "open" /\ i \in Slots /\ j \in Slots
      /\ conn[i] \in Consoles
  BY PartsAreNumbers DEF OnlineOpen
<1>2. CASE j = i
  <2>1. /\ Waits(up[conn[i]]) \in Nat /\ Frames(down[conn[i]]) \in Nat
        /\ Half(command_type[i]) \in Nat /\ Half(command_type'[i]) \in Nat
    BY PartsAreNumbers DEF Half
  <2>2. Waits(up'[conn[i]]) \in Nat /\ Frames(down'[conn[i]]) \in Nat
    <3>1. up'[conn[i]] \in Seq(Pieces) /\ down'[conn[i]] \in Seq(Sent)
      BY <1>1 DEF TypeInv, ConsolesOK
    <3> QED
      BY <3>1, WaitsMore, FramesMore
  <2>3. Frames(down'[conn[i]]) >= Frames(down[conn[i]])
    BY <1>1, <1>2
  <2>4. Read1(turn, i) = 0 /\ Read1(turn', i) = 1
    BY <1>1, TurnGoesOn
  <2>5. Waits(up'[conn[i]]) + Half(command_type'[i]) + 1
          >= Waits(up[conn[i]]) + Half(command_type[i])
    BY <1>2
  <2>6. Waits(up'[conn[i]]) + Frames(down'[conn[i]]) + Half(command_type'[i]) + Read1(turn', i)
          >= Waits(up[conn[i]]) + Frames(down[conn[i]]) + Half(command_type[i]) + Read1(turn, i)
    BY <2>1, <2>2, <2>3, <2>4, <2>5
  <2> QED
    BY <1>2, <2>6, ServerLate
<1>3. CASE j # i
  <2>1. conn[j] # conn[i]
    BY <1>3 DEF TypeInv, ServerOK
  <2>2. /\ up'[conn[j]] = up[conn[j]] /\ command_type'[j] = command_type[j]
        /\ Frames(down'[conn[j]]) >= Frames(down[conn[j]])
    BY <1>1, <1>3, <2>1
  <2>3. Read1(turn', j) >= Read1(turn, j)
    BY <1>1, TurnGoesOn
  <2> QED
    BY <2>2, <2>3, OthersLate
<1> QED
  BY <1>2, <1>3

\* Whatever is told, no frame is lost.
LEMMA FramesStay ==
    ASSUME TypeInv, \/ UNCHANGED down
                    \/ \E m \in Messages : TellAll(m)
                    \/ \E i \in Slots, nm \in SlotNames :
                          Tell([j \in Slots |-> Greeting(i, j, nm)])
    PROVE  \A j \in Occupied : ~Deaf(con[conn[j]]) =>
                Frames(down'[conn[j]]) >= Frames(down[conn[j]])
<1> SUFFICES ASSUME NEW j \in Occupied, ~Deaf(con[conn[j]])
             PROVE  Frames(down'[conn[j]]) >= Frames(down[conn[j]])
  OBVIOUS
<1>1. Frames(down[conn[j]]) \in Nat /\ j \in Slots
  BY PartsAreNumbers
<1>2. ASSUME NEW msgs, \A k \in Slots : msgs[k] \in Seq(Sent), Tell(msgs)
      PROVE  Frames(down'[conn[j]]) >= Frames(down[conn[j]])
  <2>1. /\ Frames(msgs[j]) \in Nat
        /\ Frames(down'[conn[j]]) = Frames(down[conn[j]]) + Frames(msgs[j])
    BY <1>2, ToldFrames
  <2> QED
    BY <1>1, <2>1
<1>3. CASE UNCHANGED down
  BY <1>1, <1>3
<1>4. ASSUME NEW m \in Messages, TellAll(m)
      PROVE  Frames(down'[conn[j]]) >= Frames(down[conn[j]])
  <2> DEFINE msgs == [k \in Slots |-> <<m>>]
  <2>1. Tell(msgs) /\ \A k \in Slots : msgs[k] \in Seq(Sent)
    BY <1>4, Announcements DEF TellAll
  <2> HIDE DEF msgs
  <2> QED
    BY <1>2, <2>1
<1>5. ASSUME NEW i \in Slots, NEW nm \in SlotNames, Tell([k \in Slots |-> Greeting(i, k, nm)])
      PROVE  Frames(down'[conn[j]]) >= Frames(down[conn[j]])
  <2> DEFINE msgs == [k \in Slots |-> Greeting(i, k, nm)]
  <2>1. Tell(msgs) /\ \A k \in Slots : msgs[k] \in Seq(Sent)
    BY <1>5, SaidType DEF TypeInv
  <2> HIDE DEF msgs
  <2> QED
    BY <1>2, <2>1
<1> QED
  BY <1>3, <1>4, <1>5

LEMMA ReadLater ==
    ASSUME AskInv, TypeInv', NEW i \in Slots, Read(i) \/ ReadClosed(i), NEW j \in Occupied
    PROVE  Later(j)
<1> USE Numbers
<1>0. /\ TypeInv /\ OnlineOpen
      /\ up \in [Consoles -> Seq(Pieces)] /\ command_type \in [Slots -> Types]
      /\ conn \in [Slots -> Consoles \cup {Nobody}]
  BY DEF AskInv, TypeInv, ConsolesOK, ServerOK, Types
<1>1. ASSUME NEW type, NEW p, Reads(i, type, p)
      PROVE  /\ i \in Occupied /\ turn = i /\ NextTurn /\ UNCHANGED <<con, conn>>
             /\ command_type[i] = type
             /\ \A d \in Consoles \ {conn[i]} : up'[d] = up[d]
             /\ Waits(up[conn[i]]) = Waits(up'[conn[i]]) + Passes(p)
             /\ Waits(up[conn[i]]) \in Nat /\ Waits(up'[conn[i]]) \in Nat
  <2>1. /\ i \in Occupied /\ turn = i /\ NextTurn /\ UNCHANGED <<con, conn>>
        /\ command_type[i] = type
        /\ up[conn[i]] # <<>> /\ p = Head(up[conn[i]])
        /\ up' = [up EXCEPT ![conn[i]] = Tail(@)]
    BY <1>1 DEF Reads, Arrives
  <2>2. conn[i] \in Consoles /\ up[conn[i]] \in Seq(Pieces)
    BY <1>0, <2>1, PartsAreNumbers
  <2>3. /\ up'[conn[i]] = Tail(up[conn[i]])
        /\ \A d \in Consoles \ {conn[i]} : up'[d] = up[d]
    BY <1>0, <2>1, <2>2
  <2>4. /\ Tail(up[conn[i]]) \in Seq(Pieces)
        /\ Waits(up[conn[i]]) = Passes(Head(up[conn[i]])) + Waits(Tail(up[conn[i]]))
    BY <2>1, <2>2, Firsts
  <2>5. /\ Waits(up[conn[i]]) \in Nat /\ Waits(Tail(up[conn[i]])) \in Nat
        /\ Passes(p) \in Nat
    BY <2>2, <2>4, WaitsMore DEF Passes
  <2> QED
    BY <2>1, <2>3, <2>4, <2>5
<1>2. ASSUME NEW type, Expect(i, type)
      PROVE  /\ command_type'[i] = type
             /\ \A k \in Slots \ {i} : command_type'[k] = command_type[k]
  BY <1>0, <1>2 DEF Expect
<1>3. CASE ReadLoginLen(i)
  <2>1. Reads(i, "LOGINLEN", Piece("LOGINLEN")) /\ Expect(i, "LOGIN") /\ UNCHANGED down
    BY <1>3 DEF ReadLoginLen
  <2>2. ~LoggedIn(i)
    BY <1>1, <2>1 DEF LoggedIn
  <2> QED
    BY <1>0, <1>1, <1>2, <2>1, <2>2, ServedLate, FramesStay
<1>4. CASE ReadLogin(i)
  <2>1. PICK nm : /\ nm = IF UniqueName(i, Nick[conn[i]]) THEN Nick[conn[i]] ELSE DefaultName[i]
                  /\ Reads(i, "LOGIN", Piece("LOGIN")) /\ Expect(i, "UPDATEDATA")
                  /\ Tell([k \in Slots |-> Greeting(i, k, nm)])
    BY <1>4 DEF ReadLogin, Greeting
  <2>2. ~LoggedIn(i) /\ conn[i] \in Consoles
    BY <1>0, <1>1, <2>1, PartsAreNumbers DEF LoggedIn
  <2>3. nm \in SlotNames
    BY <2>1, <2>2, SessionAssumption, ProtocolAssumption DEF SlotNames
  <2>4. \A k \in Occupied : ~Deaf(con[conn[k]]) =>
            Frames(down'[conn[k]]) >= Frames(down[conn[k]])
    BY <1>0, <2>1, <2>3, FramesStay
  <2> QED
    BY <1>0, <1>1, <1>2, <2>1, <2>2, <2>4, ServedLate
<1>5. CASE ReadEscape(i)
  <2>1. Reads(i, "UPDATEDATA", Piece("ESC")) /\ Expect(i, "COMMAND") /\ UNCHANGED down
    BY <1>5 DEF ReadEscape
  <2>2. Passes(Piece("ESC")) = 1 /\ Half("UPDATEDATA") = 0 /\ Half("COMMAND") = 0
    BY DEF Passes, Piece, Half
  <2>3. Waits(up'[conn[i]]) + Half(command_type'[i]) + 1
          >= Waits(up[conn[i]]) + Half(command_type[i])
    BY <1>1, <1>2, <2>1, <2>2
  <2> QED
    BY <1>0, <1>1, <1>2, <2>1, <2>3, ServedLate, FramesStay
<1>6. CASE ReadInput(i)
  <2>1. PICK p \in Buttons : Reads(i, "UPDATEDATA", p) /\ UNCHANGED <<down, command_type>>
    BY <1>6 DEF ReadInput
  <2>2. Passes(p) = 1 /\ Half("UPDATEDATA") = 0
    BY DEF Passes, Buttons, Half
  <2>3. Waits(up'[conn[i]]) + Half(command_type'[i]) + 1
          >= Waits(up[conn[i]]) + Half(command_type[i])
    BY <1>1, <2>1, <2>2
  <2> QED
    BY <1>0, <1>1, <2>1, <2>3, ServedLate, FramesStay
<1>7. CASE ReadHeader(i)
  <2>1. PICK cmd \in Headers :
          Reads(i, "COMMAND", Piece(cmd)) /\ Expect(i, cmd) /\ UNCHANGED down
    BY <1>7 DEF ReadHeader
  <2>2. Passes(Piece(cmd)) = 1 + Half(cmd) /\ Half("COMMAND") = 0 /\ Half(cmd) \in Nat
    BY DEF Passes, Piece, Half
  <2>3. Waits(up'[conn[i]]) + Half(command_type'[i]) + 1
          >= Waits(up[conn[i]]) + Half(command_type[i])
    BY <1>1, <1>2, <2>1, <2>2
  <2> QED
    BY <1>0, <1>1, <1>2, <2>1, <2>3, ServedLate, FramesStay
<1>8. CASE ReadRelay(i) \/ ReadAnyController(i)
  <2>1. /\ i \in Occupied /\ turn = i /\ NextTurn /\ Expect(i, "UPDATEDATA")
        /\ UNCHANGED <<con, conn, up>>
        /\ UNCHANGED down \/ \E m \in Messages : TellAll(m)
    BY <1>8, Announcements DEF ReadRelay, ReadAnyController, CompletesEmpty
  <2>2. Half("UPDATEDATA") = 0 /\ Half(command_type[i]) \in {0, 1}
    BY DEF Half
  <2>3. Waits(up[conn[i]]) \in Nat
    BY <1>0, <2>1, PartsAreNumbers
  <2>4. Waits(up'[conn[i]]) + Half(command_type'[i]) + 1
          >= Waits(up[conn[i]]) + Half(command_type[i])
    BY <1>2, <2>1, <2>2, <2>3
  <2>5. \A k \in Occupied : ~Deaf(con[conn[k]]) =>
            Frames(down'[conn[k]]) >= Frames(down[conn[k]])
    BY <1>0, <2>1, FramesStay
  <2> QED
    BY <1>0, <1>2, <2>1, <2>4, <2>5, ServedLate
<1>9. CASE ReadDrop(i)
  <2>1. PICK p \in Buttons : /\ Reads(i, "DROPCONTROLLER", p) /\ Expect(i, "UPDATEDATA")
                             /\ UNCHANGED down \/ \E m \in Messages : TellAll(m)
    BY <1>9, Announcements DEF ReadDrop
  <2>2. Passes(p) = 1 /\ Half("UPDATEDATA") = 0 /\ Half("DROPCONTROLLER") = 0
    BY DEF Passes, Buttons, Half
  <2>3. Waits(up'[conn[i]]) + Half(command_type'[i]) + 1
          >= Waits(up[conn[i]]) + Half(command_type[i])
    BY <1>1, <1>2, <2>1, <2>2
  <2>4. \A k \in Occupied : ~Deaf(con[conn[k]]) =>
            Frames(down'[conn[k]]) >= Frames(down[conn[k]])
    BY <1>0, <2>1, FramesStay
  <2> QED
    BY <1>0, <1>1, <1>2, <2>1, <2>3, <2>4, ServedLate
<1>10. CASE ReadBadPort(i) \/ ReadClosed(i)
  <2>1. /\ i \in Occupied /\ turn = i /\ NextTurn /\ Disconnect(i)
        /\ UNCHANGED <<con, down, command_type>>
    BY <1>10 DEF ReadBadPort, ReadClosed, Arrives
  <2>2. conn[i] \in Consoles /\ conn[i] # Nobody
    BY <1>0, <2>1, PartsAreNumbers, SessionAssumption
  <2>3. conn'[i] = Nobody /\ \A d \in Consoles \ {conn[i]} : up'[d] = up[d]
    BY <1>0, <2>1, <2>2 DEF Disconnect
  <2>4. CASE j = i
    BY <2>2, <2>3, <2>4 DEF Later
  <2>5. CASE j # i
    <3>1. /\ conn[j] # conn[i] /\ conn[j] \in Consoles /\ j \in Slots
          /\ Frames(down[conn[j]]) \in Nat
      BY <1>0, <2>1, <2>5, PartsAreNumbers DEF TypeInv, ServerOK
    <3>2. /\ up'[conn[j]] = up[conn[j]] /\ Read1(turn', j) >= Read1(turn, j)
          /\ Frames(down'[conn[j]]) >= Frames(down[conn[j]])
      BY <1>0, <2>1, <2>3, <3>1, TurnGoesOn
    <3>3. conn'[j] = conn[j] => Delay(j)' >= Delay(j)
      BY <1>0, <2>1, <3>2, OthersLate
    <3> QED
      BY <3>3 DEF Later
  <2> QED
    BY <2>4, <2>5
<1> QED
  BY <1>3, <1>4, <1>5, <1>6, <1>7, <1>8, <1>9, <1>10 DEF Read

\* check_for_connections, a client who has sent nothing, and the end of a pass.
LEMMA PassLater ==
    ASSUME AskInv, TypeInv', NEW j \in Occupied,
           AcceptNobody \/ ReadNothing \/ SendFrames \/ \E c \in Consoles : Accept(c) \/ Refuse(c)
    PROVE  Later(j)
<1> SUFFICES ASSUME Online(conn[j]), conn'[j] = conn[j], ~Deaf(con[conn[j]])
             PROVE  Delay(j)' >= Delay(j)
  BY DEF Later
<1> USE Numbers
<1>0. TypeInv /\ con[conn[j]].link = "open" /\ turn \in Accepting .. Sending
  BY PartsAreNumbers DEF AskInv, OnlineOpen, TypeInv, ServerOK
<1>1. /\ conn[j] \in Consoles /\ j \in Slots /\ Waits(up[conn[j]]) \in Nat
      /\ Frames(down[conn[j]]) \in Nat /\ Half(command_type[j]) \in Nat
  BY <1>0, PartsAreNumbers DEF Half
<1>2. CASE AcceptNobody \/ \E c \in Consoles : Refuse(c)
  <2>1. turn = -1 /\ turn' = 0 /\ UNCHANGED <<con, up, down, command_type>>
    BY <1>2 DEF AcceptNobody, Refuse
  <2>2. Read1(turn', j) >= Read1(turn, j)
    BY <1>1, <2>1 DEF Read1
  <2> QED
    BY <1>0, <1>1, <2>1, <2>2, OthersLate
<1>3. CASE ReadNothing
  <2>1. turn' = turn + 1 /\ UNCHANGED <<con, up, down, command_type>>
    BY <1>3 DEF ReadNothing, NextTurn
  <2>2. Read1(turn', j) >= Read1(turn, j)
    BY <1>0, <1>1, <2>1 DEF Read1
  <2> QED
    BY <1>0, <1>1, <2>1, <2>2, OthersLate
<1>4. ASSUME NEW c \in Consoles, Accept(c)
      PROVE  Delay(j)' >= Delay(j)
  <2>1. PICK i \in Slots \ Occupied :
            /\ conn' = [conn EXCEPT ![i] = c]
            /\ command_type' = [command_type EXCEPT ![i] = "LOGINLEN"]
    BY <1>4 DEF Accept
  <2>2. /\ turn = -1 /\ turn' = 0 /\ SlotOf(c) = {} /\ UNCHANGED <<con, up>>
        /\ down' = [down EXCEPT ![c] = <<FirstByte>>]
    BY <1>4 DEF Accept, Waiting
  <2>3. conn[j] # c /\ j # i
    BY <1>1, <2>1, <2>2 DEF SlotOf
  <2>4. command_type'[j] = command_type[j] /\ down'[conn[j]] = down[conn[j]]
    BY <1>0, <1>1, <2>1, <2>2, <2>3 DEF TypeInv, ServerOK, ConsolesOK
  <2>5. Read1(turn', j) >= Read1(turn, j)
    BY <1>1, <2>2 DEF Read1
  <2> QED
    BY <1>0, <1>1, <2>2, <2>4, <2>5, OthersLate
<1>5. CASE SendFrames
  <2> DEFINE msgs == [i \in Slots |-> EndOfPass]
  <2>1. /\ Tell(msgs) /\ turn = N /\ turn' = -1 /\ UNCHANGED <<con, up, command_type>>
    BY <1>5 DEF SendFrames, EndOfPass, Farewell
  <2>2. \A i \in Slots : msgs[i] \in Seq(Sent)
    BY <1>0, SaidType DEF TypeInv
  <2>3. Frames(EndOfPass) >= 1
    <3>1. PICK g \in [0 .. N -> Seq(Sent)] : EndOfPass = <<Frame(joybuf)>> \o g[N]
      BY <1>0, FarewellWay DEF TypeInv
    <3>2. Frame(joybuf) \in Sent /\ Frame(joybuf).cmd = "FRAME"
      BY <1>0, Announcements DEF Frame, TypeInv, ServerOK
    <3>3. <<Frame(joybuf)>> \in Seq(Sent) /\ Frames(<<Frame(joybuf)>>) = 1
      BY <3>2, FramesOne
    <3>4. g[N] \in Seq(Sent)
      OBVIOUS
    <3>5. /\ Frames(EndOfPass) = Frames(<<Frame(joybuf)>>) + Frames(g[N])
          /\ Frames(g[N]) \in Nat
      BY <3>1, <3>3, <3>4, FramesMore
    <3> QED
      BY <3>3, <3>5
  <2>4. msgs[j] = EndOfPass
    BY <1>1
  <2> HIDE DEF msgs
  <2>5. Frames(down'[conn[j]]) = Frames(down[conn[j]]) + Frames(EndOfPass)
        /\ Frames(EndOfPass) \in Nat
    BY <1>0, <2>1, <2>2, <2>4, ToldFrames
  <2>6. Read1(turn, j) = 1 /\ Read1(turn', j) = 0
    BY <1>1, <2>1 DEF Read1
  <2>7. Waits(up'[conn[j]]) + Frames(down'[conn[j]]) + Half(command_type'[j]) + Read1(turn', j)
          >= Waits(up[conn[j]]) + Frames(down[conn[j]]) + Half(command_type[j]) + Read1(turn, j)
    BY <1>1, <2>1, <2>3, <2>5, <2>6
  <2> QED
    BY <1>0, <2>1, <2>7, ServerLate
<1> QED
  BY <1>2, <1>3, <1>4, <1>5

LEMMA AllLater ==
    ASSUME AskInv, AskInv', [Next]_vars
    PROVE  \A i \in Occupied : Later(i)
<1>0. TypeInv /\ TypeInv'
  BY DEF AskInv
<1> SUFFICES ASSUME NEW i \in Occupied PROVE Later(i)
  OBVIOUS
<1>1. CASE ServerStep
  BY <1>0, <1>1, PassLater, ReadLater DEF ServerStep
<1>2. CASE UNCHANGED vars
  <2>1. Delay(i)' = Delay(i)
    BY <1>2, DelayParts DEF vars, server
  <2>2. Delay(i) \in Int
    BY <1>0, PartsAreNumbers, DelayParts DEF Late, Half, Read1, Idle
  <2> QED
    BY <2>1, <2>2 DEF Later
<1> QED
  BY <1>0, <1>1, <1>2, Steppings, ConsoleLater

\* The delay between a pad and its game never falls while the player stays and
\* goes on reading, for any number of players, pieces and frames
\* (server.cpp:183-207, 418-425 against NetplayUpdate): DelayNeverFalls.
THEOREM DelayStays == Spec => DelayNeverFalls
<1>1. AskInv /\ AskInv' /\ [Next]_vars =>
        [\A i \in {k \in Occupied : ~Deaf(con[conn[k]])} :
            LoggedIn(i) /\ conn'[i] = conn[i] /\ Online(conn[i]) /\ Online(conn[i])'
                => Delay(i)' >= Delay(i)]_vars
  BY AllLater DEF Later
<1> QED
  BY <1>1, AskBegins, AskGoesOn, PTL DEF Spec, DelayNeverFalls

-----------------------------------------------------------------------------
(* The pictures that announcements make. *)

LEMMA ViewParts ==
    ASSUME NEW v \in Views
    PROVE  /\ v = [name |-> v.name, ctrl |-> v.ctrl]
           /\ v.name \in [Slots -> SlotNames \cup {NoOne}]
           /\ v.ctrl \in [Slots -> Slots \cup {None}]
BY DEF Views

LEMMA HearNew ==
    ASSUME NEW v \in Views, NEW i \in Slots, NEW nm \in SlotNames
    PROVE  LET w == Along(Heeded, v, <<NewClient(i, nm)>>)
           IN  /\ w \in Views /\ w.ctrl = v.ctrl /\ w.name[i] = nm
               /\ \A k \in Slots \ {i} : w.name[k] = v.name[k]
<1> DEFINE m == NewClient(i, nm)
           w == Along(Heeded, v, <<m>>)
<1>1. m \in Messages /\ m \in Sent
  BY Announcements
<1>2. m.cmd = "NEWCLIENT" /\ m.id = i /\ m.name = nm
  BY DEF NewClient
<1> HIDE DEF m
<1>3. Hear(v, m) = [v EXCEPT !.name = [@ EXCEPT ![i] = nm]] /\ Hear(v, m) \in Views
  BY <1>1, <1>2, HearType DEF Hear
<1>4. w = Hear(v, m)
  BY <1>1, HeededOne DEF Heeded
<1> HIDE DEF w
<1>5. w.ctrl = v.ctrl /\ w.name = [v.name EXCEPT ![i] = nm]
  BY <1>3, <1>4, ViewParts
<1> QED
  BY <1>3, <1>4, <1>5, ViewParts DEF w, m

LEMMA HearPickup ==
    ASSUME NEW v \in Views, NEW i \in Slots, NEW n \in Slots
    PROVE  LET w == Along(Heeded, v, <<Pickup(i, n)>>)
           IN  /\ w \in Views /\ w.name = v.name /\ w.ctrl[n] = i
               /\ \A k \in Slots \ {n} : w.ctrl[k] = v.ctrl[k]
<1> DEFINE m == Pickup(i, n)
           w == Along(Heeded, v, <<m>>)
<1>1. m \in Messages /\ m \in Sent
  BY Announcements
<1>2. m.cmd = "PICKUPCONTROLLER" /\ m.id = i /\ m.port = n
  BY DEF Pickup
<1> HIDE DEF m
<1>3. Hear(v, m) = [v EXCEPT !.ctrl = [@ EXCEPT ![n] = i]] /\ Hear(v, m) \in Views
  BY <1>1, <1>2, HearType DEF Hear
<1>4. w = Hear(v, m)
  BY <1>1, HeededOne DEF Heeded
<1> HIDE DEF w
<1>5. w.name = v.name /\ w.ctrl = [v.ctrl EXCEPT ![n] = i]
  BY <1>3, <1>4, ViewParts
<1> QED
  BY <1>3, <1>4, <1>5, ViewParts DEF w, m

LEMMA HearDrop ==
    ASSUME NEW v \in Views, NEW n \in Slots
    PROVE  LET w == Along(Heeded, v, <<DropPort(n)>>)
           IN  /\ w \in Views /\ w.name = v.name /\ w.ctrl[n] = None
               /\ \A k \in Slots \ {n} : w.ctrl[k] = v.ctrl[k]
<1> DEFINE m == DropPort(n)
           w == Along(Heeded, v, <<m>>)
<1>1. m \in Messages /\ m \in Sent
  BY Announcements
<1>2. m.cmd = "DROPCONTROLLER" /\ m.port = n
  BY DEF DropPort
<1> HIDE DEF m
<1>3. Hear(v, m) = [v EXCEPT !.ctrl = [@ EXCEPT ![n] = None]] /\ Hear(v, m) \in Views
  BY <1>1, <1>2, HearType DEF Hear
<1>4. w = Hear(v, m)
  BY <1>1, HeededOne DEF Heeded
<1> HIDE DEF w
<1>5. w.name = v.name /\ w.ctrl = [v.ctrl EXCEPT ![n] = None]
  BY <1>3, <1>4, ViewParts
<1> QED
  BY <1>3, <1>4, <1>5, ViewParts DEF w, m

LEMMA HearGone ==
    ASSUME NEW v \in Views, NEW i \in Slots
    PROVE  LET w == Along(Heeded, v, <<ClientGone(i)>>)
           IN  /\ w \in Views
               /\ \A k \in Slots \ {i} : w.name[k] = v.name[k]
               /\ \A n \in Slots : w.ctrl[n] = IF v.ctrl[n] = i THEN None ELSE v.ctrl[n]
<1> DEFINE m == ClientGone(i)
           w == Along(Heeded, v, <<m>>)
<1>1. m \in Messages /\ m \in Sent
  BY Announcements
<1>2. m.cmd = "CLIENTDISCONNECT" /\ m.id = i
  BY DEF ClientGone
<1> HIDE DEF m
<1>3. /\ Hear(v, m) = [name |-> [v.name EXCEPT ![i] = NoOne],
                       ctrl |-> [n \in Slots |-> IF v.ctrl[n] = i THEN None ELSE v.ctrl[n]]]
      /\ Hear(v, m) \in Views
  BY <1>1, <1>2, HearType DEF Hear
<1>4. w = Hear(v, m)
  BY <1>1, HeededOne DEF Heeded
<1> HIDE DEF w
<1>5. /\ w.name = [v.name EXCEPT ![i] = NoOne]
      /\ w.ctrl = [n \in Slots |-> IF v.ctrl[n] = i THEN None ELSE v.ctrl[n]]
  BY <1>3, <1>4
<1> QED
  BY <1>3, <1>4, <1>5, ViewParts DEF w, m

\* A frame and a relayed command are no announcements.
LEMMA HearNothing ==
    ASSUME NEW v \in Views
    PROVE  /\ \A jb \in [Slots -> Bytes] : Along(Heeded, v, <<Frame(jb)>>) = v
           /\ Along(Heeded, v, <<FirstByte>>) = v
           /\ Along(Heeded, v, <<Relay>>) = v
<1>1. ASSUME NEW m \in Sent, m.cmd \in {"FRAME", "DIVISOR"}
      PROVE  Along(Heeded, v, <<m>>) = v
  <2>1. m \notin Messages
    BY <1>1 DEF Messages, Relay
  <2> QED
    BY <2>1, HeededOne DEF Heeded
<1>2. Along(Heeded, v, <<Relay>>) = v
  <2>1. Relay \in Sent /\ Relay \in Messages /\ Hear(v, Relay) = v
    BY Announcements DEF Hear, Relay
  <2> QED
    BY <2>1, HeededOne DEF Heeded
<1>3. \A jb \in [Slots -> Bytes] : Along(Heeded, v, <<Frame(jb)>>) = v
  BY <1>1, Announcements DEF Frame
<1>4. Along(Heeded, v, <<FirstByte>>) = v
  BY <1>1, Announcements DEF FirstByte
<1> QED
  BY <1>2, <1>3, <1>4

\* A picture that may not know yet who holds what, but is not wrong about it.
Guesses(v, nc) == \A n \in Slots : v.ctrl[n] \in {None, nc[n]}

\* One round of a greeting.
LEMMA GreetRound ==
    ASSUME ServerOK, NEW i \in Slots, NEW j \in Slots, NEW k \in Slots, NEW v \in Views,
           v.ctrl[k] \in {None, nes_controllers[k]}
    PROVE  LET w == Along(Heeded, v, Greet(i, j, k))
           IN  /\ w \in Views /\ w.ctrl[k] = nes_controllers[k]
               /\ \A n \in Slots \ {k} : w.ctrl[n] = v.ctrl[n] /\ w.name[n] = v.name[n]
               /\ w.name[k] = IF j = i /\ k \in Occupied \ {i} THEN name[k] ELSE v.name[k]
<1>0. name[k] \in SlotNames /\ nes_controllers[k] \in Slots \cup {None}
  BY DEF ServerOK
<1>1. PICK a : a = IF j = i /\ k \in Occupied \ {i} THEN <<NewClient(k, name[k])>> ELSE <<>>
  OBVIOUS
<1>2. PICK b : b = IF nes_controllers[k] # None
                     THEN <<Pickup(nes_controllers[k], k)>> ELSE <<>>
  OBVIOUS
<1>3. Greet(i, j, k) = a \o b
  BY <1>1, <1>2 DEF Greet
<1>4. <<>> \in Seq(Sent) /\ \A x \in Views : Along(Heeded, x, <<>>) = x
  <2>1. <<>> \in Seq(Sent)
    OBVIOUS
  <2> QED
    BY <2>1, HeededMore, Zenon
<1>5. PICK x \in Views :
          /\ x = Along(Heeded, v, a) /\ a \in Seq(Sent)
          /\ x.ctrl = v.ctrl
          /\ \A n \in Slots \ {k} : x.name[n] = v.name[n]
          /\ x.name[k] = IF j = i /\ k \in Occupied \ {i} THEN name[k] ELSE v.name[k]
  <2>1. CASE j = i /\ k \in Occupied \ {i}
    <3>1. a = <<NewClient(k, name[k])>> /\ a \in Seq(Sent)
      <4>1. NewClient(k, name[k]) \in Sent
        BY <1>0, Announcements
      <4> QED
        BY <1>1, <2>1, <4>1
    <3> QED
      BY <1>0, <2>1, <3>1, HearNew
  <2>2. CASE ~(j = i /\ k \in Occupied \ {i})
    <3>1. a = <<>>
      BY <1>1, <2>2
    <3>2. a \in Seq(Sent) /\ Along(Heeded, v, a) = v
      BY <1>4, <3>1, Zenon
    <3> QED
      BY <2>2, <3>2
  <2> QED
    BY <2>1, <2>2
<1>6. PICK w \in Views :
          /\ w = Along(Heeded, x, b) /\ b \in Seq(Sent)
          /\ w.name = x.name /\ w.ctrl[k] = nes_controllers[k]
          /\ \A n \in Slots \ {k} : w.ctrl[n] = x.ctrl[n]
  <2>1. CASE nes_controllers[k] # None
    <3>1. b = <<Pickup(nes_controllers[k], k)>> /\ b \in Seq(Sent)
          /\ nes_controllers[k] \in Slots
      <4>1. nes_controllers[k] \in Slots /\ Pickup(nes_controllers[k], k) \in Sent
        BY <1>0, <2>1, Announcements
      <4> QED
        BY <1>2, <2>1, <4>1
    <3> QED
      BY <2>1, <3>1, HearPickup
  <2>2. CASE nes_controllers[k] = None
    <3>1. b = <<>>
      BY <1>2, <2>2
    <3>2. b \in Seq(Sent) /\ Along(Heeded, x, b) = x
      BY <1>4, <3>1, Zenon
    <3>3. x.ctrl[k] = nes_controllers[k]
      BY <1>5, <2>2
    <3> QED
      BY <3>2, <3>3
  <2> QED
    BY <2>1, <2>2
<1>7. w = Along(Heeded, v, Greet(i, j, k))
  <2>1. Along(Heeded, v, a \o b) = Along(Heeded, Along(Heeded, v, a), b)
    BY <1>5, <1>6, HeededMore
  <2> QED
    BY <1>3, <1>5, <1>6, <2>1
<1> QED
  BY <1>5, <1>6, <1>7

\* The picture after k rounds of the greeting that follows picture v.
Greeted(w, v, i, j, k) ==
    /\ w \in Views
    /\ \A n \in Slots : w.ctrl[n] = IF n < k THEN nes_controllers[n] ELSE v.ctrl[n]
    /\ \A n \in Slots : w.name[n] = IF j = i /\ n \in Occupied \ {i} /\ n < k
                                      THEN name[n] ELSE v.name[n]

LEMMA GreetedMore ==
    ASSUME ServerOK, NEW i \in Slots, NEW j \in Slots, NEW k \in Slots,
           NEW v \in Views, Guesses(v, nes_controllers), NEW w, Greeted(w, v, i, j, k)
    PROVE  Greeted(Along(Heeded, w, Greet(i, j, k)), v, i, j, k+1)
<1> USE Numbers
<1>1. w \in Views /\ w.ctrl[k] = v.ctrl[k] /\ v.ctrl[k] \in {None, nes_controllers[k]}
  BY DEF Greeted, Guesses
<1>2. PICK x : x = Along(Heeded, w, Greet(i, j, k))
  OBVIOUS
<1>3. /\ x \in Views /\ x.ctrl[k] = nes_controllers[k]
      /\ \A n \in Slots \ {k} : x.ctrl[n] = w.ctrl[n] /\ x.name[n] = w.name[n]
      /\ x.name[k] = IF j = i /\ k \in Occupied \ {i} THEN name[k] ELSE w.name[k]
  BY <1>1, <1>2, GreetRound
<1>4. \A n \in Slots : n \in Int /\ (n # k => (n < k <=> n < k+1)) /\ k < k+1 /\ ~(k < k)
  OBVIOUS
<1>5. \A n \in Slots : x.ctrl[n] = IF n < k+1 THEN nes_controllers[n] ELSE v.ctrl[n]
  BY <1>3, <1>4 DEF Greeted
<1>6. ASSUME NEW n \in Slots
      PROVE  x.name[n] = IF j = i /\ n \in Occupied \ {i} /\ n < k+1
                           THEN name[n] ELSE v.name[n]
  <2>1. CASE n = k
    BY <1>3, <1>4, <2>1 DEF Greeted
  <2>2. CASE n # k
    BY <1>3, <1>4, <2>2 DEF Greeted
  <2> QED
    BY <2>1, <2>2
<1> QED
  BY <1>2, <1>3, <1>5, <1>6 DEF Greeted

\* After the greeting of a login everybody knows the controllers and the new
\* player, who knows the others.
LEMMA GreetingSeen ==
    ASSUME ServerOK, NEW i \in Slots, NEW j \in Slots, NEW nm \in SlotNames,
           NEW v \in Views, Guesses(v, nes_controllers)
    PROVE  LET w == Along(Heeded, v, Greeting(i, j, nm))
           IN  /\ w \in Views /\ w.ctrl = nes_controllers /\ w.name[i] = nm
               /\ \A k \in Slots \ {i} : w.name[k] = IF j = i /\ k \in Occupied
                                                       THEN name[k] ELSE v.name[k]
<1> USE Numbers
<1>1. PICK g \in [0 .. N -> Seq(Sent)] :
            /\ g[0] = <<>>
            /\ \A k \in 1 .. N : g[k] = g[k-1] \o Greet(i, j, k-1)
            /\ Greeting(i, j, nm) = <<NewClient(i, nm)>> \o g[N]
  BY GreetingWay
<1>2. PICK x \in Views : /\ x = Along(Heeded, v, <<NewClient(i, nm)>>)
                         /\ x.ctrl = v.ctrl /\ x.name[i] = nm
                         /\ \A k \in Slots \ {i} : x.name[k] = v.name[k]
  BY HearNew
<1>3. Guesses(x, nes_controllers)
  BY <1>2 DEF Guesses
<1> DEFINE T == {k \in Nat : k <= N => Greeted(Along(Heeded, x, g[k]), x, i, j, k)}
<1>4. 0 \in T
  <2>1. <<>> \in Seq(Sent)
    OBVIOUS
  <2>2. \A y \in Views : Along(Heeded, y, <<>>) = y
    BY <2>1, HeededMore, Zenon
  <2>3. Along(Heeded, x, g[0]) = x
    BY <1>1, <2>2, Zenon
  <2>4. \A n \in Slots : ~(n < 0)
    OBVIOUS
  <2>5. Greeted(x, x, i, j, 0)
    BY <2>4 DEF Greeted
  <2> QED
    BY <2>3, <2>5
<1>5. ASSUME NEW k \in T \cap Nat PROVE k + 1 \in T
  <2>1. CASE k + 1 <= N
    <3>1. /\ k + 1 \in 1 .. N /\ (k + 1) - 1 = k /\ k \in 0 .. N /\ k \in Slots
          /\ Greeted(Along(Heeded, x, g[k]), x, i, j, k)
      BY <2>1
    <3>2. g[k+1] = g[k] \o Greet(i, j, k) /\ g[k] \in Seq(Sent)
      BY <1>1, <3>1
    <3>3. Greet(i, j, k) \in Seq(Sent)
      BY <3>1, GreetType, Announcements, SeqMonotonic
    <3>4. Along(Heeded, x, g[k+1]) = Along(Heeded, Along(Heeded, x, g[k]), Greet(i, j, k))
      BY <3>2, <3>3, HeededMore
    <3>5. Greeted(Along(Heeded, x, g[k+1]), x, i, j, k+1)
      BY <1>3, <3>1, <3>4, GreetedMore
    <3> QED
      BY <3>5
  <2> QED
    BY <2>1
<1> HIDE DEF T
<1>6. N \in T
  BY <1>4, <1>5, Induction
<1>7. PICK w : w = Along(Heeded, v, Greeting(i, j, nm))
  OBVIOUS
<1>8. Greeted(w, x, i, j, N)
  <2>1. NewClient(i, nm) \in Sent
    BY Announcements
  <2>2. <<NewClient(i, nm)>> \in Seq(Sent) /\ g[N] \in Seq(Sent)
    BY <2>1
  <2>3. Along(Heeded, v, <<NewClient(i, nm)>> \o g[N]) = Along(Heeded, x, g[N])
    BY <1>2, <2>2, HeededMore
  <2>4. Greeted(Along(Heeded, x, g[N]), x, i, j, N)
    BY <1>6 DEF T
  <2> QED
    BY <1>1, <1>7, <2>3, <2>4
<1>9. \A n \in Slots : n < N
  OBVIOUS
<1>10. w \in Views /\ \A n \in Slots : w.ctrl[n] = nes_controllers[n]
  BY <1>8, <1>9 DEF Greeted
<1>11. w.ctrl = nes_controllers
  <2>1. w.ctrl \in [Slots -> Slots \cup {None}]
    BY <1>10, ViewParts
  <2>2. PICK f \in [Slots -> Slots \cup {None}] : f = w.ctrl
    BY <2>1
  <2>3. PICK h \in [Slots -> Slots \cup {None}] : h = nes_controllers
    BY DEF ServerOK
  <2>4. \A n \in Slots : f[n] = h[n]
    BY <1>10, <2>2, <2>3
  <2>5. f = h
    BY <2>4
  <2> QED
    BY <2>2, <2>3, <2>5
<1>12. w.name[i] = nm /\ \A k \in Slots \ {i} : w.name[k] = IF j = i /\ k \in Occupied
                                                       THEN name[k] ELSE v.name[k]
  BY <1>2, <1>8, <1>9 DEF Greeted
<1> QED
  BY <1>7, <1>10, <1>11, <1>12

-----------------------------------------------------------------------------
\* The picture after the farewells of the slots below k.
Parted(w, v, k) ==
    /\ w \in Views
    /\ \A n \in Slots : w.ctrl[n] = IF \E d \in Slots : d < k /\ disconnecting[d] /\ v.ctrl[n] = d
                                      THEN None ELSE v.ctrl[n]
    /\ \A n \in Slots : ~disconnecting[n] => w.name[n] = v.name[n]

LEMMA PartedMore ==
    ASSUME ServerOK, NEW k \in Slots, NEW v \in Views, NEW w, Parted(w, v, k)
    PROVE  /\ Farewell(k) \in Seq(Sent)
           /\ Parted(Along(Heeded, w, Farewell(k)), v, k+1)
<1> USE Numbers
<1>0. w \in Views /\ disconnecting[k] \in BOOLEAN
  BY DEF Parted, ServerOK
<1>1. \A d \in Slots : d \in Int /\ (d # k => (d < k <=> d < k+1)) /\ k < k+1 /\ ~(k < k)
  OBVIOUS
<1>2. CASE disconnecting[k]
  <2>1. Farewell(k) = <<ClientGone(k)>>
    BY <1>2 DEF Farewell
  <2>2. Farewell(k) \in Seq(Sent)
    <3>1. ClientGone(k) \in Sent
      BY Announcements
    <3> QED
      BY <2>1, <3>1
  <2>3. PICK x \in Views :
          /\ x = Along(Heeded, w, Farewell(k))
          /\ \A n \in Slots \ {k} : x.name[n] = w.name[n]
          /\ \A n \in Slots : x.ctrl[n] = IF w.ctrl[n] = k THEN None ELSE w.ctrl[n]
    BY <1>0, <2>1, HearGone
  <2>4. \A n \in Slots : ~disconnecting[n] => x.name[n] = v.name[n]
    BY <1>2, <2>3 DEF Parted
  <2>5. ASSUME NEW n \in Slots
        PROVE  x.ctrl[n] = IF \E d \in Slots : d < k+1 /\ disconnecting[d] /\ v.ctrl[n] = d
                             THEN None ELSE v.ctrl[n]
    <3>1. CASE \E d \in Slots : d < k /\ disconnecting[d] /\ v.ctrl[n] = d
      <4>1. PICK d \in Slots : d < k /\ disconnecting[d] /\ v.ctrl[n] = d
        BY <3>1
      <4>2. d < k+1
        BY <1>1, <4>1
      <4>3. w.ctrl[n] = None
        BY <3>1 DEF Parted
      <4>4. x.ctrl[n] = None
        BY <2>3, <4>3
      <4> QED
        BY <4>1, <4>2, <4>4
    <3>2. CASE ~\E d \in Slots : d < k /\ disconnecting[d] /\ v.ctrl[n] = d
      <4>1. w.ctrl[n] = v.ctrl[n]
        BY <3>2 DEF Parted
      <4>2. CASE v.ctrl[n] = k
        BY <1>1, <1>2, <2>3, <4>1, <4>2
      <4>3. CASE v.ctrl[n] # k
        <5>1. ~\E d \in Slots : d < k+1 /\ disconnecting[d] /\ v.ctrl[n] = d
          BY <1>1, <3>2, <4>3
        <5> QED
          BY <2>3, <4>1, <4>3, <5>1
      <4> QED
        BY <4>2, <4>3
    <3> QED
      BY <3>1, <3>2
  <2> QED
    BY <2>2, <2>3, <2>4, <2>5 DEF Parted
<1>3. CASE ~disconnecting[k]
  <2>0. <<>> \in Seq(Sent)
    OBVIOUS
  <2>1. Farewell(k) = <<>>
    BY <1>3 DEF Farewell
  <2>2. Along(Heeded, w, Farewell(k)) = w /\ Farewell(k) \in Seq(Sent)
    BY <1>0, <2>0, <2>1, HeededMore, Zenon
  <2>3. \A n \in Slots : (\E d \in Slots : d < k+1 /\ disconnecting[d] /\ v.ctrl[n] = d)
                           <=> (\E d \in Slots : d < k /\ disconnecting[d] /\ v.ctrl[n] = d)
    BY <1>1, <1>3
  <2> QED
    BY <2>2, <2>3 DEF Parted
<1> QED
  BY <1>0, <1>2, <1>3

\* After the end of a pass nobody that is gone holds a controller, in the
\* picture as at the server.
LEMMA FarewellSeen ==
    ASSUME ServerOK, NEW v \in Views
    PROVE  LET w == Along(Heeded, v, EndOfPass)
           IN  /\ w \in Views
               /\ \A n \in Slots : w.ctrl[n] = IF \E d \in Slots : disconnecting[d] /\ v.ctrl[n] = d
                                                 THEN None ELSE v.ctrl[n]
               /\ \A n \in Slots : ~disconnecting[n] => w.name[n] = v.name[n]
<1> USE Numbers
<1>1. PICK g \in [0 .. N -> Seq(Sent)] :
            /\ g[0] = <<>>
            /\ \A k \in 1 .. N : g[k] = g[k-1] \o Farewell(k-1)
            /\ EndOfPass = <<Frame(joybuf)>> \o g[N]
  BY FarewellWay
<1> DEFINE T == {k \in Nat : k <= N => Parted(Along(Heeded, v, g[k]), v, k)}
<1>4. 0 \in T
  <2>1. <<>> \in Seq(Sent)
    OBVIOUS
  <2>2. \A y \in Views : Along(Heeded, y, <<>>) = y
    BY <2>1, HeededMore, Zenon
  <2>3. Along(Heeded, v, g[0]) = v
    BY <1>1, <2>2, Zenon
  <2>4. \A n \in Slots : ~(n < 0)
    OBVIOUS
  <2>5. Parted(v, v, 0)
    BY <2>4 DEF Parted
  <2> QED
    BY <2>3, <2>5
<1>5. ASSUME NEW k \in T \cap Nat PROVE k + 1 \in T
  <2>1. CASE k + 1 <= N
    <3>1. /\ k + 1 \in 1 .. N /\ (k + 1) - 1 = k /\ k \in 0 .. N /\ k \in Slots
          /\ Parted(Along(Heeded, v, g[k]), v, k)
      BY <2>1
    <3>2. g[k+1] = g[k] \o Farewell(k) /\ g[k] \in Seq(Sent)
      BY <1>1, <3>1
    <3>3. /\ Farewell(k) \in Seq(Sent)
          /\ Parted(Along(Heeded, Along(Heeded, v, g[k]), Farewell(k)), v, k+1)
      BY <3>1, PartedMore
    <3>4. Along(Heeded, v, g[k+1]) = Along(Heeded, Along(Heeded, v, g[k]), Farewell(k))
      BY <3>2, <3>3, HeededMore
    <3> QED
      BY <3>3, <3>4
  <2> QED
    BY <2>1
<1> HIDE DEF T
<1>6. N \in T
  BY <1>4, <1>5, Induction
<1>7. PICK w : w = Along(Heeded, v, EndOfPass)
  OBVIOUS
<1>8. Parted(w, v, N)
  <2>1. Frame(joybuf) \in Sent /\ joybuf \in [Slots -> Bytes]
    BY Announcements DEF ServerOK
  <2>2. <<Frame(joybuf)>> \in Seq(Sent) /\ g[N] \in Seq(Sent)
    BY <2>1
  <2>3. Along(Heeded, v, <<Frame(joybuf)>> \o g[N]) = Along(Heeded, v, g[N])
    <3>1. Along(Heeded, v, <<Frame(joybuf)>>) = v
      BY <2>1, HearNothing
    <3>2. Along(Heeded, v, <<Frame(joybuf)>> \o g[N])
            = Along(Heeded, Along(Heeded, v, <<Frame(joybuf)>>), g[N])
      BY <2>2, HeededMore
    <3> QED
      BY <3>1, <3>2, Zenon
  <2>4. Parted(Along(Heeded, v, g[N]), v, N)
    BY <1>6 DEF T
  <2> QED
    BY <1>1, <1>7, <2>3, <2>4
<1>9. \A n \in Slots : n < N
  OBVIOUS
<1> QED
  BY <1>7, <1>8, <1>9 DEF Parted

-----------------------------------------------------------------------------
(* Who knows what. *)

\* A session that is not open yet knows nothing and is not playing.
Untouched ==
    \A c \in Consoles : con[c].link \in {"new", "connecting"} =>
        con[c].view = FreshView /\ ~con[c].waiting

\* What a session in a slot finds first is the frame divisor.
Joined ==
    \A i \in Occupied :
        /\ con[conn[i]].link # "new"
        /\ con[conn[i]].link = "connecting" =>
              down[conn[i]] # <<>> /\ Head(down[conn[i]]) = FirstByte

\* The picture v is what the session in slot i may have of the server: right
\* once it is logged in, before that not wrong.
Sees(v, i) ==
    IF LoggedIn(i)
      THEN /\ v.ctrl = nes_controllers
           /\ \A j \in Slots : LoggedIn(j) => v.name[j] = name[j]
      ELSE Guesses(v, nes_controllers)

Pictures ==
    \A i \in Occupied : ~Deaf(con[conn[i]]) => Sees(Drained(conn[i]), i)

PictureInv == AskInv /\ Untouched /\ Joined /\ Pictures

LEMMA PictureTypes ==
    ASSUME PictureInv
    PROVE  /\ AskInv /\ TypeInv /\ ServerOK /\ ConsolesOK /\ OnlineOpen /\ LeftFirst
           /\ Untouched /\ Joined /\ Pictures
           /\ \A c \in Consoles : con[c] \in Console /\ con[c].view \in Views
                                  /\ down[c] \in Seq(Sent) /\ Drained(c) \in Views
           /\ \A i \in Occupied : i \in Slots /\ conn[i] \in Consoles
<1>1. \A c \in Consoles : con[c] \in Console /\ con[c].view \in Views /\ down[c] \in Seq(Sent)
  BY DEF PictureInv, AskInv, TypeInv, ConsolesOK, Console
<1>2. \A c \in Consoles : Drained(c) \in Views
  BY <1>1, HeededMore DEF Drained
<1> QED
  BY <1>1, <1>2 DEF PictureInv, AskInv, TypeInv, ServerOK, Occupied

\* Whatever a console takes off what is on its way, it had better know already.
LEMMA MovesPicture ==
    ASSUME NEW s \in Console, NEW t \in Console, NEW u, NEW q,
           NEW d \in Seq(Sent), NEW r \in Seq(Sent), Moves(s, t, u, q, d, r),
           s.mode = "NETPLAY_CLIENT" => s.link = "open",
           s.link \in {"new", "connecting"} => s.view = FreshView /\ ~s.waiting
    PROVE  /\ t.link \in {"new", "connecting"} => t.view = FreshView /\ ~t.waiting
           /\ s.link # "new" =>
                /\ t.link # "new"
                /\ t.link = "connecting" => s.link = "connecting" /\ r = d
                /\ ~Deaf(t) =>
                     /\ ~Deaf(s)
                     /\ (s.link = "connecting" /\ t.link = "open" =>
                            d # <<>> /\ Head(d) = FirstByte)
                          => Along(Heeded, t.view, r) = Along(Heeded, s.view, d)
<1>0. s.view \in Views /\ t.view \in Views /\ s.waiting \in BOOLEAN /\ t.waiting \in BOOLEAN
      /\ s.link \in {"new", "connecting", "open", "closed"}
  BY DEF Console
<1>00. ~Deaf(t) => ~Deaf(s)
  BY Deafens
<1>1. CASE Joins(s, t, u, q, d, r)
  BY <1>1 DEF Joins
<1>2. CASE Opens(s, t, u, q, d, r)
  <2>1. /\ s.link = "connecting" /\ t.link = "open" /\ t.view = FreshView /\ s.view = FreshView
        /\ d # <<>> => r = Tail(d)
    BY <1>2 DEF Opens
  <2>2. ASSUME d # <<>>, Head(d) = FirstByte
        PROVE  Along(Heeded, t.view, r) = Along(Heeded, s.view, d)
    <3>1. Along(Heeded, s.view, d) = Along(Heeded, Heeded(s.view, FirstByte), Tail(d))
      BY <1>0, <2>2, HeededFirst
    <3>2. FirstByte \notin Messages
      BY DEF Messages, FirstByte, Relay
    <3>3. Heeded(s.view, FirstByte) = s.view
      BY <3>2 DEF Heeded
    <3> QED
      BY <2>1, <2>2, <3>1, <3>3
  <2> QED
    BY <1>00, <2>1, <2>2
<1>3. CASE Goes(s, t, u, q, d, r)
  BY <1>3 DEF Goes, Deaf
<1>4. CASE Begins(s, t, u, q, d, r)
  BY <1>00, <1>4 DEF Begins
<1>5. CASE Hears(s, t, u, q, d, r)
  <2>1. /\ s.waiting /\ t.link = s.link /\ d # <<>> /\ Head(d) \in Messages
        /\ t.view = Hear(s.view, Head(d)) /\ r = Tail(d)
    BY <1>5 DEF Hears
  <2>2. Along(Heeded, s.view, d) = Along(Heeded, Heeded(s.view, Head(d)), Tail(d))
    BY <1>0, <2>1, HeededFirst
  <2>3. Heeded(s.view, Head(d)) = t.view
    BY <2>1 DEF Heeded
  <2>4. Along(Heeded, t.view, r) = Along(Heeded, s.view, d)
    BY <2>1, <2>2, <2>3
  <2>5. s.link \notin {"new", "connecting"}
    BY <2>1
  <2> QED
    BY <1>00, <2>1, <2>4, <2>5
<1>6. CASE Finishes(s, t, u, q, d, r)
  <2>1. /\ s.waiting /\ t.link = s.link /\ d # <<>> /\ Head(d).cmd = "FRAME"
        /\ t.view = s.view /\ r = Tail(d)
    BY <1>6 DEF Finishes
  <2>2. Along(Heeded, s.view, d) = Along(Heeded, Heeded(s.view, Head(d)), Tail(d))
    BY <1>0, <2>1, HeededFirst
  <2>3. Heeded(s.view, Head(d)) = t.view
    <3>1. Head(d) \notin Messages
      BY <2>1 DEF Messages, Relay
    <3> QED
      BY <2>1, <3>1 DEF Heeded
  <2>4. Along(Heeded, t.view, r) = Along(Heeded, s.view, d)
    BY <2>1, <2>2, <2>3
  <2>5. s.link \notin {"new", "connecting"}
    BY <2>1
  <2> QED
    BY <1>00, <2>1, <2>4, <2>5
<1>7. CASE Stays(s, t, u, q, d, r)
  BY <1>00, <1>7 DEF Stays
<1> QED
  BY <1>1, <1>2, <1>3, <1>4, <1>5, <1>6, <1>7 DEF Moves

LEMMA ConsolePicture ==
    ASSUME PictureInv, NEW c \in Consoles, Moved(c), UNCHANGED server
    PROVE  PictureInv'
<1>0. AskInv'
  BY ConsoleAsked, PictureTypes
<1>1. PICK t \in Console, q \in Seq(Pieces), r \in Seq(Sent) :
        /\ con' = [con EXCEPT ![c] = t]
        /\ down' = [down EXCEPT ![c] = r]
        /\ Moves(con[c], t, up[c], q, down[c], r)
  BY DEF Moved
<1>2. /\ con'[c] = t /\ down'[c] = r
      /\ \A d \in Consoles \ {c} : con'[d] = con[d] /\ down'[d] = down[d]
  BY <1>1, PictureTypes DEF ConsolesOK
<1> DEFINE s == con[c]
           d == down[c]
<1>3. /\ t.link \in {"new", "connecting"} => t.view = FreshView /\ ~t.waiting
      /\ s.link # "new" =>
           /\ t.link # "new"
           /\ t.link = "connecting" => s.link = "connecting" /\ r = d
           /\ ~Deaf(t) =>
                /\ ~Deaf(s)
                /\ (s.link = "connecting" /\ t.link = "open" =>
                       d # <<>> /\ Head(d) = FirstByte)
                     => Along(Heeded, t.view, r) = Along(Heeded, s.view, d)
  <2>1. s.mode = "NETPLAY_CLIENT" => s.link = "open"
    BY PictureTypes DEF OnlineOpen, Online
  <2>2. s.link \in {"new", "connecting"} => s.view = FreshView /\ ~s.waiting
    BY PictureTypes DEF Untouched
  <2>3. s \in Console /\ d \in Seq(Sent)
    BY PictureTypes
  <2> HIDE DEF s, d
  <2>4. Moves(s, t, up[c], q, d, r)
    BY <1>1 DEF s, d
  <2> QED
    BY <2>1, <2>2, <2>3, <2>4, MovesPicture
<1>4. Untouched'
  BY <1>2, <1>3, PictureTypes DEF Untouched
<1>5. Occupied' = Occupied /\ UNCHANGED <<conn, command_type, name, nes_controllers>>
  BY DEF server, Occupied
<1>6. Joined'
  BY <1>2, <1>3, <1>5, PictureTypes DEF Joined
<1>7. ASSUME NEW i \in Occupied, ~Deaf(con'[conn[i]])
      PROVE  ~Deaf(con[conn[i]]) /\ Drained(conn[i])' = Drained(conn[i])
  <2>1. CASE conn[i] = c
    <3>1. /\ s.link # "new"
          /\ s.link = "connecting" => d # <<>> /\ Head(d) = FirstByte
      BY <2>1, PictureTypes DEF Joined
    <3>2. ~Deaf(s) /\ Along(Heeded, t.view, r) = Along(Heeded, s.view, d)
      BY <1>2, <1>3, <1>7, <2>1, <3>1
    <3>3. /\ Drained(c) = Along(Heeded, s.view, d)
          /\ Drained(c)' = Along(Heeded, t.view, r)
      BY <1>2 DEF Drained
    <3>4. Drained(conn[i])' = Drained(c)'
      BY <1>5, <2>1 DEF Drained
    <3> QED
      BY <2>1, <3>2, <3>3, <3>4
  <2>2. CASE conn[i] # c
    <3>1. con'[conn[i]] = con[conn[i]] /\ down'[conn[i]] = down[conn[i]] /\ conn'[i] = conn[i]
      BY <1>2, <1>5, <2>2, PictureTypes
    <3> QED
      BY <1>7, <3>1 DEF Drained
  <2> QED
    BY <2>1, <2>2
<1>8. Pictures'
  BY <1>5, <1>7, PictureTypes DEF Pictures, Sees, LoggedIn, Guesses
<1> QED
  BY <1>0, <1>4, <1>6, <1>8 DEF PictureInv

\* Nobody comes, logs in or is told anything.
LEMMA QuietPicture ==
    ASSUME PictureInv, AskInv', UNCHANGED <<con, down, name, nes_controllers>>,
           \A i \in Slots : conn'[i] \in {conn[i], Nobody},
           \A i \in Slots : conn'[i] = conn[i] => (LoggedIn(i)' <=> LoggedIn(i))
    PROVE  PictureInv'
<1>1. \A i \in Occupied' : i \in Occupied /\ conn'[i] = conn[i] /\ (LoggedIn(i)' <=> LoggedIn(i))
  BY DEF Occupied
<1>2. \A j \in Slots : LoggedIn(j)' => LoggedIn(j)
  BY <1>1 DEF LoggedIn
<1>3. Untouched' /\ Joined'
  BY <1>1, PictureTypes DEF Untouched, Joined
<1>4. ASSUME NEW i \in Occupied', ~Deaf(con'[conn'[i]])
      PROVE  Sees(Drained(conn[i]), i)'
  <2>1. Sees(Drained(conn[i]), i)
    BY <1>1, <1>4, PictureTypes DEF Pictures
  <2>2. Drained(conn[i])' = Drained(conn[i])
    BY <1>1 DEF Drained
  <2> QED
    BY <1>1, <1>2, <2>1, <2>2 DEF Sees, Guesses
<1> QED
  BY <1>3, <1>4 DEF PictureInv, Pictures

\* What is told is no worse than what was known.
LEMMA TellPicture ==
    ASSUME PictureInv, AskInv', UNCHANGED <<con, conn>>,
           NEW msgs, \A i \in Slots : msgs[i] \in Seq(Sent), Tell(msgs),
           \A i \in Occupied : \A v, w \in Views :
                Sees(v, i) /\ w = Along(Heeded, v, msgs[i]) => Sees(w, i)'
    PROVE  PictureInv'
<1>1. /\ \A i \in Occupied :
            ~Deaf(con[conn[i]]) => down'[conn[i]] = down[conn[i]] \o msgs[i]
      /\ Occupied' = Occupied
  BY Told, PictureTypes DEF Occupied
<1>2. Untouched'
  BY PictureTypes DEF Untouched
<1>3. Joined'
  <2>1. ASSUME NEW i \in Occupied, con[conn[i]].link = "connecting"
        PROVE  down'[conn[i]] # <<>> /\ Head(down'[conn[i]]) = FirstByte
    <3>1. /\ down'[conn[i]] = down[conn[i]] \o msgs[i] /\ down[conn[i]] # <<>>
          /\ Head(down[conn[i]]) = FirstByte /\ i \in Slots
          /\ down[conn[i]] \in Seq(Sent)
      BY <1>1, <2>1, PictureTypes DEF Joined, Deaf
    <3>2. msgs[i] \in Seq(Sent)
      BY <3>1
    <3>3. \A a, b \in Seq(Sent) : a # <<>> => a \o b # <<>> /\ Head(a \o b) = Head(a)
      OBVIOUS
    <3> QED
      BY <3>1, <3>2, <3>3, Zenon
  <2> QED
    BY <1>1, <2>1, PictureTypes DEF Joined
<1>4. ASSUME NEW i \in Occupied, ~Deaf(con[conn[i]])
      PROVE  Sees(Drained(conn[i]), i)'
  <2>1. /\ Sees(Drained(conn[i]), i) /\ i \in Slots
        /\ con[conn[i]].view \in Views /\ down[conn[i]] \in Seq(Sent)
        /\ Drained(conn[i]) \in Views
    BY <1>4, PictureTypes DEF Pictures
  <2>2. PICK w \in Views : w = Along(Heeded, Drained(conn[i]), msgs[i])
    BY <2>1, HeededMore
  <2>3. Sees(w, i)'
    BY <2>1, <2>2
  <2>4. Drained(conn[i])' = w
    <3>1. Along(Heeded, con[conn[i]].view, down[conn[i]] \o msgs[i]) = w
      BY <2>1, <2>2, HeededMore DEF Drained
    <3>2. down'[conn[i]] = down[conn[i]] \o msgs[i]
      BY <1>1, <1>4
    <3> QED
      BY <3>1, <3>2 DEF Drained
  <2> QED
    BY <2>3, <2>4 DEF Sees, Guesses
<1>5. Pictures'
  BY <1>1, <1>4 DEF Pictures
<1> QED
  BY <1>2, <1>3, <1>5 DEF PictureInv

\* Server::send_all, with one message.
LEMMA TellAllPicture ==
    ASSUME PictureInv, AskInv', UNCHANGED <<con, conn>>,
           NEW m \in Messages, TellAll(m),
           \A i \in Occupied : \A v, w \in Views :
                Sees(v, i) /\ w = Along(Heeded, v, <<m>>) => Sees(w, i)'
    PROVE  PictureInv'
<1> DEFINE msgs == [j \in Slots |-> <<m>>]
<1>1. \A j \in Slots : msgs[j] \in Seq(Sent) /\ msgs[j] = <<m>>
  <2>1. <<m>> \in Seq(Sent)
    BY Announcements
  <2> QED
    BY <2>1
<1>2. Tell(msgs)
  BY DEF TellAll
<1> HIDE DEF msgs
<1>3. \A i \in Occupied : \A v, w \in Views :
          Sees(v, i) /\ w = Along(Heeded, v, msgs[i]) => Sees(w, i)'
  BY <1>1, PictureTypes
<1> QED
  BY <1>1, <1>2, <1>3, TellPicture

\* A controller changes hands, and those who hear it know.
LEMMA HandOver ==
    ASSUME PictureInv, NEW n \in Slots, NEW x \in Slots \cup {None},
           nes_controllers' = [nes_controllers EXCEPT ![n] = x],
           UNCHANGED <<conn, name>>, \A j \in Slots : LoggedIn(j)' <=> LoggedIn(j),
           NEW i \in Slots, NEW v \in Views, NEW w \in Views, Sees(v, i),
           w.name = v.name, w.ctrl[n] = x, \A k \in Slots \ {n} : w.ctrl[k] = v.ctrl[k]
    PROVE  Sees(w, i)'
<1>1. nes_controllers \in [Slots -> Slots \cup {None}]
  BY PictureTypes DEF ServerOK
<1>2. /\ nes_controllers' \in [Slots -> Slots \cup {None}] /\ nes_controllers'[n] = x
      /\ \A k \in Slots \ {n} : nes_controllers'[k] = nes_controllers[k]
  BY <1>1
<1>3. w.ctrl \in [Slots -> Slots \cup {None}]
  BY ViewParts
<1>4. CASE LoggedIn(i)
  <2>1. v.ctrl = nes_controllers /\ \A j \in Slots : LoggedIn(j) => v.name[j] = name[j]
    BY <1>4 DEF Sees
  <2>2. PICK f \in [Slots -> Slots \cup {None}] : f = w.ctrl
    BY <1>3
  <2>3. PICK g \in [Slots -> Slots \cup {None}] : g = nes_controllers'
    BY <1>2
  <2>4. \A k \in Slots : f[k] = g[k]
    BY <1>2, <2>1, <2>2, <2>3
  <2>5. f = g
    BY <2>4
  <2>6. w.ctrl = nes_controllers'
    BY <2>2, <2>3, <2>5
  <2>7. \A j \in Slots : LoggedIn(j)' => w.name[j] = name'[j]
    BY <2>1
  <2> QED
    BY <1>4, <2>6, <2>7 DEF Sees
<1>5. CASE ~LoggedIn(i)
  <2>1. \A k \in Slots : w.ctrl[k] \in {None, nes_controllers'[k]}
    BY <1>2, <1>5 DEF Sees, Guesses
  <2> QED
    BY <1>5, <2>1 DEF Sees, Guesses
<1> QED
  BY <1>4, <1>5

\* check_for_connections: who comes knows nothing.
LEMMA AcceptPicture ==
    ASSUME PictureInv, AskInv', NEW c \in Consoles, Accept(c)
    PROVE  PictureInv'
<1>1. PICK i \in Slots \ Occupied :
          /\ conn' = [conn EXCEPT ![i] = c]
          /\ command_type' = [command_type EXCEPT ![i] = "LOGINLEN"]
  BY DEF Accept
<1>2. /\ UNCHANGED <<con, name, nes_controllers>>
      /\ down' = [down EXCEPT ![c] = <<FirstByte>>]
      /\ con[c].link = "connecting" /\ SlotOf(c) = {}
  BY DEF Accept, Waiting
<1>3. /\ conn'[i] = c /\ \A j \in Slots \ {i} : conn'[j] = conn[j]
      /\ command_type'[i] = "LOGINLEN"
      /\ \A j \in Slots \ {i} : command_type'[j] = command_type[j]
      /\ down'[c] = <<FirstByte>> /\ \A d \in Consoles \ {c} : down'[d] = down[d]
  BY <1>1, <1>2, PictureTypes DEF ServerOK, ConsolesOK
<1>4. \A j \in Occupied' : j # i => j \in Occupied /\ conn[j] # c /\ conn[j] \in Consoles
  BY <1>2, <1>3, PictureTypes DEF Occupied, SlotOf
<1>5. \A j \in Slots : LoggedIn(j)' <=> LoggedIn(j)
  BY <1>1, <1>3 DEF LoggedIn, Occupied
<1>6. Untouched'
  BY <1>2, PictureTypes DEF Untouched
<1>7. Joined'
  <2>1. <<FirstByte>> # <<>> /\ Head(<<FirstByte>>) = FirstByte
    OBVIOUS
  <2> QED
    BY <1>2, <1>3, <1>4, <2>1, PictureTypes DEF Joined
<1>8. ASSUME NEW j \in Occupied', ~Deaf(con'[conn'[j]])
      PROVE  Sees(Drained(conn[j]), j)'
  <2>1. CASE j = i
    <3>1. con[c].view = FreshView /\ FreshView \in Views
      BY <1>2, PictureTypes, SmallThings DEF Untouched
    <3>2. Drained(conn[j])' = FreshView
      BY <1>2, <1>3, <2>1, <3>1, HearNothing DEF Drained
    <3>3. ~LoggedIn(j)'
      BY <1>3, <2>1 DEF LoggedIn
    <3>4. \A n \in Slots : FreshView.ctrl[n] = None
      BY DEF FreshView
    <3> QED
      BY <3>2, <3>3, <3>4 DEF Sees, Guesses
  <2>2. CASE j # i
    <3>1. /\ j \in Occupied /\ conn'[j] = conn[j] /\ conn[j] \in Consoles \ {c}
          /\ down'[conn[j]] = down[conn[j]] /\ j \in Slots
      BY <1>3, <1>4, <2>2, PictureTypes
    <3>2. Drained(conn[j])' = Drained(conn[j]) /\ Sees(Drained(conn[j]), j)
      BY <1>2, <1>8, <3>1, PictureTypes DEF Drained, Pictures
    <3> QED
      BY <1>2, <1>5, <3>1, <3>2 DEF Sees, Guesses
  <2> QED
    BY <2>1, <2>2
<1> QED
  BY <1>6, <1>7, <1>8 DEF PictureInv, Pictures

\* N_LOGIN
LEMMA LoginPicture ==
    ASSUME PictureInv, AskInv', NEW i \in Slots, ReadLogin(i)
    PROVE  PictureInv'
<1>1. PICK nm : /\ nm = IF UniqueName(i, Nick[conn[i]]) THEN Nick[conn[i]] ELSE DefaultName[i]
                /\ name' = [name EXCEPT ![i] = nm]
                /\ Tell([j \in Slots |-> Greeting(i, j, nm)])
                /\ Expect(i, "UPDATEDATA") /\ command_type[i] = "LOGIN" /\ i \in Occupied
                /\ UNCHANGED <<con, conn, nes_controllers>>
  BY DEF ReadLogin, Greeting, Reads, Arrives
<1>2. nm \in SlotNames
  BY <1>1, PictureTypes, SessionAssumption, ProtocolAssumption DEF SlotNames
<1>3. /\ name'[i] = nm /\ \A j \in Slots \ {i} : name'[j] = name[j]
      /\ command_type'[i] = "UPDATEDATA"
      /\ \A j \in Slots \ {i} : command_type'[j] = command_type[j]
  BY <1>1, PictureTypes DEF Expect, ServerOK
<1>4. /\ ~LoggedIn(i) /\ LoggedIn(i)'
      /\ \A j \in Slots \ {i} : LoggedIn(j)' <=> LoggedIn(j)
      /\ \A j \in Slots : LoggedIn(j) => j \in Occupied
  BY <1>1, <1>3 DEF LoggedIn, Occupied
<1> DEFINE msgs == [j \in Slots |-> Greeting(i, j, nm)]
<1>5. \A j \in Slots : msgs[j] = Greeting(i, j, nm) /\ msgs[j] \in Seq(Sent)
  BY <1>2, PictureTypes, SaidType
<1>6. Tell(msgs)
  BY <1>1
<1> HIDE DEF msgs
<1>7. ASSUME NEW j \in Occupied, NEW v \in Views, NEW w \in Views, Sees(v, j),
             w = Along(Heeded, v, msgs[j])
      PROVE  Sees(w, j)'
  <2>1. j \in Slots /\ Guesses(v, nes_controllers)
    BY <1>7, PictureTypes DEF Sees, Guesses
  <2>2. /\ w.ctrl = nes_controllers /\ w.name[i] = nm
        /\ \A k \in Slots \ {i} : w.name[k] = IF j = i /\ k \in Occupied
                                                THEN name[k] ELSE v.name[k]
    BY <1>2, <1>5, <1>7, <2>1, PictureTypes, GreetingSeen
  <2>3. w.ctrl = nes_controllers'
    BY <1>1, <2>2
  <2>4. CASE LoggedIn(j)'
    <3>1. ASSUME NEW k \in Slots, LoggedIn(k)'
          PROVE  w.name[k] = name'[k]
      <4>1. CASE k = i
        BY <1>3, <2>2, <4>1
      <4>2. CASE k # i /\ j = i
        BY <1>3, <1>4, <2>2, <3>1, <4>2
      <4>3. CASE k # i /\ j # i
        <5>1. LoggedIn(j) /\ LoggedIn(k)
          BY <1>4, <2>1, <2>4, <3>1, <4>3
        <5>2. v.name[k] = name[k]
          BY <1>7, <5>1 DEF Sees
        <5> QED
          BY <1>3, <2>2, <4>3, <5>2
      <4> QED
        BY <4>1, <4>2, <4>3
    <3> QED
      BY <2>3, <2>4, <3>1 DEF Sees
  <2>5. CASE ~LoggedIn(j)'
    BY <2>3, <2>5 DEF Sees, Guesses
  <2> QED
    BY <2>4, <2>5
<1> QED
  BY <1>1, <1>5, <1>6, <1>7, TellPicture

\* Server::send and handle_disconnects
LEMMA SendPicture ==
    ASSUME PictureInv, AskInv', SendFrames
    PROVE  PictureInv'
<1>1. /\ Tell([j \in Slots |-> EndOfPass]) /\ nes_controllers' = Freed
      /\ UNCHANGED <<con, conn, command_type, name>>
  BY DEF SendFrames, EndOfPass, Farewell
<1>2. /\ nes_controllers \in [Slots -> Slots \cup {None}] /\ disconnecting \in [Slots -> BOOLEAN]
  BY PictureTypes DEF ServerOK
<1>3. /\ nes_controllers' \in [Slots -> Slots \cup {None}]
      /\ \A n \in Slots :
            nes_controllers'[n] = IF \E d \in Slots : disconnecting[d] /\ nes_controllers[n] = d
                                    THEN None ELSE nes_controllers[n]
  BY <1>1, <1>2 DEF Freed
<1>4. \A j \in Slots : /\ LoggedIn(j)' <=> LoggedIn(j)
                       /\ LoggedIn(j) => ~disconnecting[j]
  BY <1>1, PictureTypes DEF LoggedIn, LeftFirst, Occupied
<1> DEFINE msgs == [j \in Slots |-> EndOfPass]
<1>5. \A j \in Slots : msgs[j] = EndOfPass /\ msgs[j] \in Seq(Sent)
  BY PictureTypes, SaidType
<1>6. Tell(msgs)
  BY <1>1
<1> HIDE DEF msgs
<1>7. ASSUME NEW j \in Occupied, NEW v \in Views, NEW w \in Views, Sees(v, j),
             w = Along(Heeded, v, msgs[j])
      PROVE  Sees(w, j)'
  <2>1. j \in Slots /\ w = Along(Heeded, v, EndOfPass)
    BY <1>5, <1>7, PictureTypes
  <2>2. /\ \A n \in Slots : w.ctrl[n] = IF \E d \in Slots : disconnecting[d] /\ v.ctrl[n] = d
                                          THEN None ELSE v.ctrl[n]
        /\ \A n \in Slots : ~disconnecting[n] => w.name[n] = v.name[n]
    BY <2>1, PictureTypes, FarewellSeen
  <2>3. CASE LoggedIn(j)
    <3>1. v.ctrl = nes_controllers /\ \A k \in Slots : LoggedIn(k) => v.name[k] = name[k]
      BY <1>7, <2>3 DEF Sees
    <3>2. PICK f \in [Slots -> Slots \cup {None}] : f = w.ctrl
      BY ViewParts
    <3>3. PICK g \in [Slots -> Slots \cup {None}] : g = nes_controllers'
      BY <1>3
    <3>4. \A n \in Slots : f[n] = g[n]
      BY <1>3, <2>2, <3>1, <3>2, <3>3
    <3>5. f = g
      BY <3>4
    <3>6. w.ctrl = nes_controllers'
      BY <3>2, <3>3, <3>5
    <3>7. \A k \in Slots : LoggedIn(k)' => w.name[k] = name'[k]
      BY <1>1, <1>4, <2>2, <3>1
    <3> QED
      BY <1>4, <2>1, <2>3, <3>6, <3>7 DEF Sees
  <2>4. CASE ~LoggedIn(j)
    <3>1. \A n \in Slots : v.ctrl[n] \in {None, nes_controllers[n]}
      BY <1>7, <2>4 DEF Sees, Guesses
    <3>2. \A n \in Slots : w.ctrl[n] \in {None, nes_controllers'[n]}
      BY <1>3, <2>2, <3>1
    <3> QED
      BY <1>4, <2>1, <2>4, <3>2 DEF Sees, Guesses
  <2> QED
    BY <2>3, <2>4
<1> QED
  BY <1>1, <1>5, <1>6, <1>7, TellPicture

\* receive(client)
LEMMA ReadPicture ==
    ASSUME PictureInv, AskInv', NEW i \in Slots, Read(i) \/ ReadClosed(i)
    PROVE  PictureInv'
<1>0. command_type \in [Slots -> Types] /\ conn \in [Slots -> Consoles \cup {Nobody}]
  BY PictureTypes DEF ServerOK, Types
<1> DEFINE Kept == \A j \in Slots : /\ LoggedIn(j)' <=> LoggedIn(j)
                                    /\ conn'[j] \in {conn[j], Nobody}
           Becomes(x, y) == /\ command_type[i] = x /\ conn' = conn
                          /\ command_type' = [command_type EXCEPT ![i] = y]
<1>1. ASSUME NEW x, NEW y, Becomes(x, y),
             x \notin {"LOGINLEN", "LOGIN"}, y \notin {"LOGINLEN", "LOGIN"}
      PROVE  Kept
  <2>1. command_type'[i] = y /\ \A j \in Slots \ {i} : command_type'[j] = command_type[j]
    BY <1>0, <1>1
  <2>2. ASSUME NEW j \in Slots
        PROVE  LoggedIn(j)' <=> LoggedIn(j)
    <3>1. CASE j = i
      BY <1>1, <2>1, <3>1 DEF LoggedIn
    <3>2. CASE j # i
      BY <1>1, <2>1, <3>2 DEF LoggedIn
    <3> QED
      BY <3>1, <3>2
  <2> QED
    BY <1>1, <2>2
<1>1b. Becomes("LOGINLEN", "LOGIN") => Kept
  <2> SUFFICES ASSUME Becomes("LOGINLEN", "LOGIN"), NEW j \in Slots
               PROVE  (LoggedIn(j)' <=> LoggedIn(j)) /\ conn'[j] = conn[j]
    OBVIOUS
  <2>1. command_type'[i] = "LOGIN" /\ \A k \in Slots \ {i} : command_type'[k] = command_type[k]
    BY <1>0
  <2>2. CASE j = i
    BY <2>1, <2>2 DEF LoggedIn
  <2>3. CASE j # i
    BY <2>1, <2>3 DEF LoggedIn
  <2> QED
    BY <2>2, <2>3
<1>1c. Kept => /\ \A j \in Slots : LoggedIn(j)' <=> LoggedIn(j)
               /\ \A j \in Slots : conn'[j] \in {conn[j], Nobody}
  OBVIOUS
<1> HIDE DEF Kept, Becomes
<1>2. CASE ReadLoginLen(i)
  <2>1. /\ command_type[i] = "LOGINLEN" /\ command_type' = [command_type EXCEPT ![i] = "LOGIN"]
        /\ UNCHANGED <<con, conn, down, name, nes_controllers>>
    BY <1>2 DEF ReadLoginLen, Reads, Arrives, Expect
  <2>2. Kept
    BY <1>1b, <2>1 DEF Becomes
  <2> QED
    BY <1>1c, <2>1, <2>2, QuietPicture
<1>3. CASE ReadEscape(i)
  <2>1. /\ command_type[i] = "UPDATEDATA"
        /\ command_type' = [command_type EXCEPT ![i] = "COMMAND"]
        /\ UNCHANGED <<con, conn, down, name, nes_controllers>>
    BY <1>3 DEF ReadEscape, Reads, Arrives, Expect
  <2>2. Becomes("UPDATEDATA", "COMMAND")
    BY <2>1 DEF Becomes
  <2>3. Kept
    BY <1>1, <2>2
  <2> QED
    BY <1>1c, <2>1, <2>3, QuietPicture
<1>4. CASE ReadInput(i)
  <2>1. UNCHANGED <<con, conn, command_type, down, name, nes_controllers>>
    BY <1>4 DEF ReadInput, Reads, Arrives
  <2> QED
    BY <2>1, QuietPicture DEF LoggedIn
<1>5. CASE ReadHeader(i)
  <2>1. PICK cmd \in Headers : /\ command_type[i] = "COMMAND"
                               /\ command_type' = [command_type EXCEPT ![i] = cmd]
                               /\ UNCHANGED <<con, conn, down, name, nes_controllers>>
    BY <1>5 DEF ReadHeader, Reads, Arrives, Expect
  <2>2. cmd \notin {"LOGINLEN", "LOGIN"}
    BY DEF Headers
  <2>3. Becomes("COMMAND", cmd)
    BY <2>1 DEF Becomes
  <2>4. Kept
    BY <1>1, <2>2, <2>3
  <2> QED
    BY <1>1c, <2>1, <2>4, QuietPicture
<1>6. CASE ReadRelay(i)
  <2>1. /\ command_type[i] = "RELAY" /\ command_type' = [command_type EXCEPT ![i] = "UPDATEDATA"]
        /\ TellAll(Relay) /\ UNCHANGED <<con, conn, name, nes_controllers>>
    BY <1>6 DEF ReadRelay, CompletesEmpty, Expect
  <2>2. \A j \in Slots : LoggedIn(j)' <=> LoggedIn(j)
    <3>1. Becomes("RELAY", "UPDATEDATA")
      BY <2>1 DEF Becomes
    <3>2. Kept
      BY <1>1, <3>1
    <3> QED
      BY <1>1c, <3>2
  <2>3. ASSUME NEW j \in Occupied, NEW v \in Views, NEW w \in Views, Sees(v, j),
               w = Along(Heeded, v, <<Relay>>)
        PROVE  Sees(w, j)'
    <3>1. w = v /\ j \in Slots
      BY <2>3, HearNothing, PictureTypes
    <3> QED
      BY <2>1, <2>2, <2>3, <3>1 DEF Sees, Guesses
  <2> QED
    BY <2>1, <2>3, TellAllPicture, Announcements
<1>7. CASE ReadAnyController(i)
  <2>1. /\ command_type[i] = "ANYCONTROLLER"
        /\ command_type' = [command_type EXCEPT ![i] = "UPDATEDATA"]
        /\ UNCHANGED <<con, conn, name>>
    BY <1>7 DEF ReadAnyController, CompletesEmpty, Expect
  <2>2. /\ \A j \in Slots : LoggedIn(j)' <=> LoggedIn(j)
        /\ \A j \in Slots : conn'[j] \in {conn[j], Nobody}
    <3>1. Becomes("ANYCONTROLLER", "UPDATEDATA")
      BY <2>1 DEF Becomes
    <3>2. Kept
      BY <1>1, <3>1
    <3> QED
      BY <1>1c, <3>2
  <2>3. CASE UNCHANGED <<down, nes_controllers>>
    BY <2>1, <2>2, <2>3, QuietPicture
  <2>4. ASSUME NEW n \in Slots, nes_controllers' = [nes_controllers EXCEPT ![n] = i],
               TellAll(Pickup(i, n))
        PROVE  PictureInv'
    <3>1. ASSUME NEW j \in Occupied, NEW v \in Views, NEW w \in Views, Sees(v, j),
                 w = Along(Heeded, v, <<Pickup(i, n)>>)
          PROVE  Sees(w, j)'
      <4>1. /\ w.name = v.name /\ w.ctrl[n] = i
            /\ \A k \in Slots \ {n} : w.ctrl[k] = v.ctrl[k]
        BY <3>1, HearPickup
      <4> QED
        BY <2>1, <2>2, <2>4, <3>1, <4>1, HandOver, PictureTypes
    <3>2. Pickup(i, n) \in Messages
      BY Announcements
    <3> QED
      BY <2>1, <2>4, <3>1, <3>2, TellAllPicture
  <2> QED
    BY <1>7, <2>3, <2>4 DEF ReadAnyController
<1>8. CASE ReadDrop(i)
  <2>1. PICK p \in Buttons :
          /\ command_type[i] = "DROPCONTROLLER" /\ p.byte \in Slots
          /\ command_type' = [command_type EXCEPT ![i] = "UPDATEDATA"]
          /\ UNCHANGED <<con, conn, name>>
          /\ \/ UNCHANGED <<down, nes_controllers>>
             \/ /\ nes_controllers' = [nes_controllers EXCEPT ![p.byte] = None]
                /\ TellAll(DropPort(p.byte))
    BY <1>8 DEF ReadDrop, Reads, Arrives, Expect
  <2>2. /\ \A j \in Slots : LoggedIn(j)' <=> LoggedIn(j)
        /\ \A j \in Slots : conn'[j] \in {conn[j], Nobody}
    <3>1. Becomes("DROPCONTROLLER", "UPDATEDATA")
      BY <2>1 DEF Becomes
    <3>2. Kept
      BY <1>1, <3>1
    <3> QED
      BY <1>1c, <3>2
  <2>3. CASE UNCHANGED <<down, nes_controllers>>
    BY <2>1, <2>2, <2>3, QuietPicture
  <2>4. ASSUME NEW n \in Slots, nes_controllers' = [nes_controllers EXCEPT ![n] = None],
               TellAll(DropPort(n))
        PROVE  PictureInv'
    <3>1. ASSUME NEW j \in Occupied, NEW v \in Views, NEW w \in Views, Sees(v, j),
                 w = Along(Heeded, v, <<DropPort(n)>>)
          PROVE  Sees(w, j)'
      <4>1. /\ w.name = v.name /\ w.ctrl[n] = None
            /\ \A k \in Slots \ {n} : w.ctrl[k] = v.ctrl[k]
        BY <3>1, HearDrop
      <4> QED
        BY <2>1, <2>2, <2>4, <3>1, <4>1, HandOver, PictureTypes
    <3>2. DropPort(n) \in Messages
      BY Announcements
    <3> QED
      BY <2>1, <2>4, <3>1, <3>2, TellAllPicture
  <2> QED
    BY <2>1, <2>3, <2>4
<1>9. CASE ReadBadPort(i) \/ ReadClosed(i)
  <2>1. /\ conn' = [conn EXCEPT ![i] = Nobody]
        /\ UNCHANGED <<con, down, command_type, name, nes_controllers>>
    BY <1>9 DEF ReadBadPort, ReadClosed, Arrives, Disconnect
  <2>2. \A j \in Slots : conn'[j] \in {conn[j], Nobody}
    BY <1>0, <2>1
  <2>3. \A j \in Slots : conn'[j] = conn[j] => (LoggedIn(j)' <=> LoggedIn(j))
    BY <2>1 DEF LoggedIn
  <2> QED
    BY <2>1, <2>2, <2>3, QuietPicture
<1> QED
  BY <1>2, <1>3, <1>4, <1>5, <1>6, <1>7, <1>8, <1>9, LoginPicture DEF Read

LEMMA PictureBegins == Init => PictureInv
<1> SUFFICES ASSUME Init PROVE PictureInv
  OBVIOUS
<1>1. AskInv
  BY AskBegins
<1>2. PICK d \in Divisors, j \in [Consoles -> Pads] :
          con = [c \in Consoles |-> [NewConsole(d) EXCEPT !.joy = j[c]]]
  BY DEF Init, ClientInit
<1>3. \A c \in Consoles : con[c].view = FreshView /\ ~con[c].waiting
  BY <1>2 DEF NewConsole
<1>4. Occupied = {}
  BY DEF Init, Occupied
<1> QED
  BY <1>1, <1>3, <1>4 DEF PictureInv, Untouched, Joined, Pictures

LEMMA PictureGoesOn == PictureInv /\ [Next]_vars => PictureInv'
<1> SUFFICES ASSUME PictureInv, [Next]_vars PROVE PictureInv'
  OBVIOUS
<1>0. AskInv /\ AskInv' /\ TypeInv
  BY AskGoesOn, PictureTypes
<1>1. CASE AcceptNobody \/ ReadNothing \/ \E c \in Consoles : Refuse(c)
  <2>1. UNCHANGED <<con, down, name, nes_controllers, conn, command_type>>
    BY <1>1 DEF AcceptNobody, ReadNothing, Refuse
  <2> QED
    BY <1>0, <2>1, QuietPicture DEF LoggedIn
<1>2. CASE ServerStep
  BY <1>0, <1>1, <1>2, AcceptPicture, SendPicture, ReadPicture DEF ServerStep
<1>3. CASE UNCHANGED vars
  <2>1. UNCHANGED <<con, down, name, nes_controllers, conn, command_type>>
    BY <1>3 DEF vars, server
  <2> QED
    BY <1>0, <2>1, QuietPicture DEF LoggedIn
<1> QED
  BY <1>0, <1>2, <1>3, Steppings, ConsolePicture

\* A player that goes on reading and has read what is on its way to it knows who holds which
\* controller and the name of every player, whatever its console heard of the
\* ones before (netplay.cpp:283-346 against the announcements of server.cpp):
\* PicturesAgree.
THEOREM PicturesRight == Spec => []PicturesAgree
<1>1. PictureInv => PicturesAgree
  <2> SUFFICES ASSUME PictureInv, NEW i \in Slots, LoggedIn(i), ~Deaf(con[conn[i]])
               PROVE  /\ Drained(conn[i]).ctrl = nes_controllers
                      /\ \A j \in Slots : LoggedIn(j) => Drained(conn[i]).name[j] = name[j]
    BY DEF PicturesAgree
  <2>1. i \in Occupied
    BY DEF LoggedIn, Occupied
  <2>2. Sees(Drained(conn[i]), i)
    BY <2>1, PictureTypes DEF Pictures
  <2> QED
    BY <2>2 DEF Sees
<1> QED
  BY <1>1, PictureBegins, PictureGoesOn, PTL DEF Spec
=============================================================================
