--------------------------- MODULE DeltaScanProofs ---------------------------
(***************************************************************************)
(* Theorems about the delta of one file, for every size of block and of    *)
(* byte, every width of the checksum and files of any length.              *)
(*                                                                         *)
(* What the loops of weak_checksum compute takes induction over the        *)
(* length of the window.  It is done on the set of the lengths for which a *)
(* fact holds, which is all of Nat if it has 0 and the successor of each   *)
(* of its members (EveryNumber).                                           *)
(***************************************************************************)
EXTENDS DeltaScan, WellFoundedInduction, SequenceTheorems, TLAPS

-----------------------------------------------------------------------------
(* Sums.                                                                   *)

\* A set of numbers that has 0, and with each number the next, has them all: the
\* least that was missing would have a predecessor.
LEMMA EveryNumber ==
    ASSUME NEW S, 0 \in S, \A n \in Nat : n \in S => n + 1 \in S
    PROVE  Nat \subseteq S
<1> DEFINE T == Nat \ S
<1>1. SUFFICES ASSUME T # {} PROVE FALSE
  OBVIOUS
<1>2. IsWellFoundedOn(OpToRel(<, Nat), Nat)
  BY NatLessThanWellFounded
<1>3. PICK x \in T : \A y \in T : ~ (<<y, x>> \in OpToRel(<, Nat))
  <2>1. T \subseteq Nat
    OBVIOUS
  <2> HIDE DEF T
  <2> QED
    BY <1>1, <1>2, <2>1, WFMin
<1>4. x \in Nat /\ x # 0
  OBVIOUS
<1>5. x - 1 \in Nat /\ x - 1 < x
  BY <1>4
<1>6. <<x - 1, x>> \in OpToRel(<, Nat)
  BY <1>4, <1>5 DEF OpToRel
<1>7. x - 1 \notin T
  BY <1>3, <1>6
<1>8. (x - 1) + 1 \in S
  BY <1>5, <1>7
<1>9. QED
  BY <1>4, <1>8

\* The values the loop over f goes through.
PartialSums(t, f) == /\ t \in [0..Len(f) -> Int] /\ t[0] = 0
                     /\ \A n \in 1..Len(f) : t[n] = t[n - 1] + f[n]

\* Whatever the length, there are such values ...
LEMMA SumsExist ==
    ASSUME NEW f \in Seq(Int)
    PROVE  \E t : PartialSums(t, f)
<1> DEFINE Upto(t, m) == /\ t \in [0..m -> Int] /\ t[0] = 0
                         /\ \A n \in 1..m : t[n] = t[n - 1] + f[n]
           S == {m \in Nat : m <= Len(f) => \E t : Upto(t, m)}
<1>1. 0 \in S
  <2>1. Upto([n \in 0..0 |-> 0], 0)
    OBVIOUS
  <2> QED
    BY <2>1
<1>2. ASSUME NEW m \in Nat, m \in S PROVE m + 1 \in S
  <2>1. CASE m + 1 <= Len(f)
    <3>0. m <= Len(f)
      BY <2>1
    <3>1. PICK t : Upto(t, m)
      <4>1. m <= Len(f) => \E t : Upto(t, m)
        BY <1>2
      <4> HIDE DEF Upto
      <4> QED
        BY <4>1, <3>0
    <3> DEFINE u == [n \in 0..(m + 1) |-> IF n = m + 1 THEN t[m] + f[m + 1] ELSE t[n]]
    <3>2. f[m + 1] \in Int /\ t[m] \in Int
      BY <2>1, <3>1
    <3>3. u \in [0..(m + 1) -> Int]
      BY <3>1, <3>2
    <3>4. u[0] = 0
      BY <3>1
    <3>5. ASSUME NEW n \in 1..(m + 1) PROVE u[n] = u[n - 1] + f[n]
      <4>1. CASE n = m + 1
        BY <4>1
      <4>2. CASE n # m + 1
        BY <3>1, <4>2
      <4> QED
        BY <4>1, <4>2
    <3>6. Upto(u, m + 1)
      BY <3>3, <3>4, <3>5
    <3>7. \E v : Upto(v, m + 1)
      BY <3>6
    <3> HIDE DEF Upto
    <3> QED
      BY <3>7
  <2>2. CASE ~(m + 1 <= Len(f))
    BY <2>2
  <2> QED
    BY <2>1, <2>2
<1>3. Nat \subseteq S
  <2> HIDE DEF S
  <2> QED
    BY <1>1, <1>2, EveryNumber
<1>4. Len(f) \in S
  <2>1. Len(f) \in Nat
    OBVIOUS
  <2> HIDE DEF S
  <2> QED
    BY ONLY <1>3, <2>1
<1>5. PICK t : Upto(t, Len(f))
  BY <1>4
<1>6. PartialSums(t, f)
  BY <1>5 DEF PartialSums
<1>7. QED
  BY <1>6

\* ... and Total is the last of them.
LEMMA TotalIsLast ==
    ASSUME NEW f \in Seq(Int)
    PROVE  \E t : PartialSums(t, f) /\ Total(f) = t[Len(f)]
<1> DEFINE Rec(t) == t = [n \in 0..Len(f) |-> IF n = 0 THEN 0 ELSE t[n - 1] + f[n]]
           s == CHOOSE t : Rec(t)
<1>1. PICK t0 : PartialSums(t0, f)
  BY SumsExist
<1>2. Rec(t0)
  BY <1>1 DEF PartialSums
<1>3. Rec(s)
  BY <1>2
<1>4. Total(f) = s[Len(f)]
  BY DEF Total
<1> DEFINE S == {m \in Nat : m <= Len(f) => s[m] = t0[m]}
<1> HIDE DEF s
<1>5. 0 \in S
  BY <1>3, <1>1 DEF PartialSums
<1>6. ASSUME NEW m \in Nat, m \in S PROVE m + 1 \in S
  <2>1. CASE m + 1 <= Len(f)
    <3>1. s[m + 1] = s[m] + f[m + 1]
      BY <1>3, <2>1
    <3>2. t0[m + 1] = t0[m] + f[m + 1]
      BY <1>1, <2>1 DEF PartialSums
    <3> QED
      BY <1>6, <2>1, <3>1, <3>2
  <2>2. CASE ~(m + 1 <= Len(f))
    BY <2>2
  <2> QED
    BY <2>1, <2>2
<1>7. Nat \subseteq S
  <2> HIDE DEF S
  <2> QED
    BY <1>5, <1>6, EveryNumber
<1>8. s[Len(f)] = t0[Len(f)]
  <2>1. Len(f) \in Nat
    OBVIOUS
  <2> QED
    BY <1>7, <2>1
<1>9. QED
  BY <1>1, <1>4, <1>8


-----------------------------------------------------------------------------
(* The window moves by one byte.                                           *)

\* One row of the weighted sum: a byte that has moved one place to the front weighs
\* itself more.
LEMMA OneMore ==
    ASSUME NEW k \in Int, NEW x \in Int
    PROVE  (k + 1) * x = k * x + x
BY SMT

LEMMA Regroup ==
    ASSUME NEW v \in Int, NEW w \in Int, NEW x \in Int, NEW y \in Int, NEW z \in Int
    PROVE  (v - w + x) + (y + z) = (v + y) - w + (x + z)
OBVIOUS

LEMMA WeightedIsSeq ==
    ASSUME NEW f \in Seq(Int)
    PROVE  [i \in 1..Len(f) |-> (Len(f) - i + 1) * f[i]] \in Seq(Int)
<1>1. \A i \in 1..Len(f) : f[i] \in Int /\ Len(f) - i + 1 \in Int
  OBVIOUS
<1>2. \A x, y \in Int : x * y \in Int
  OBVIOUS
<1>3. \A i \in 1..Len(f) : (Len(f) - i + 1) * f[i] \in Int
  BY <1>1, <1>2
<1>4. [i \in 1..Len(f) |-> (Len(f) - i + 1) * f[i]] \in [1..Len(f) -> Int]
  BY <1>3
<1>5. Len(f) \in Nat
  OBVIOUS
<1>6. QED
  BY <1>4, <1>5

LEMMA SumsAreInt ==
    ASSUME NEW f \in Seq(Int)
    PROVE  Low(f) \in Int /\ High(f) \in Int
<1>1. ASSUME NEW g \in Seq(Int) PROVE Total(g) \in Int
  <2>1. PICK t : PartialSums(t, g) /\ Total(g) = t[Len(g)]
    BY TotalIsLast
  <2>2. Len(g) \in 0..Len(g)
    OBVIOUS
  <2>3. t \in [0..Len(g) -> Int]
    BY <2>1 DEF PartialSums
  <2> QED
    BY ONLY <2>1, <2>2, <2>3
<1>2. QED
  BY <1>1, WeightedIsSeq DEF Low, High

\* What Roll relies on: for any two windows of L bytes of which the second is the
\* first, moved by one.
LEMMA RolledSums ==
    ASSUME NEW f \in Seq(Int), NEW g \in Seq(Int), Len(f) = L, Len(g) = L,
           \A i \in 1..(L - 1) : g[i] = f[i + 1]
    PROVE  /\ Low(g) = Low(f) - f[1] + g[L]
           /\ High(g) = High(f) - L * f[1] + Low(g)
<1> USE DeltaAssumption
<1> DEFINE hf == [i \in 1..Len(f) |-> (Len(f) - i + 1) * f[i]]
           hg == [i \in 1..Len(g) |-> (Len(g) - i + 1) * g[i]]
<1>1. hf \in Seq(Int) /\ hg \in Seq(Int) /\ Len(hf) = L /\ Len(hg) = L
  <2>1. hf \in Seq(Int) /\ hg \in Seq(Int)
    BY WeightedIsSeq
  <2>2. DOMAIN hf = 1..L /\ DOMAIN hg = 1..L
    OBVIOUS
  <2> HIDE DEF hf, hg
  <2> QED
    BY <2>1, <2>2
<1>2. PICK t : PartialSums(t, f) /\ Low(f) = t[L]
  BY TotalIsLast DEF Low
<1>3. PICK u : PartialSums(u, g) /\ Low(g) = u[L]
  BY TotalIsLast DEF Low
<1>4. PICK x : PartialSums(x, hf) /\ High(f) = x[L]
  <2>1. High(f) = Total(hf)
    BY DEF High
  <2> HIDE DEF hf
  <2> QED
    BY <1>1, <2>1, TotalIsLast
<1>5. PICK y : PartialSums(y, hg) /\ High(g) = y[L]
  <2>1. High(g) = Total(hg)
    BY DEF High
  <2> HIDE DEF hg
  <2> QED
    BY <1>1, <2>1, TotalIsLast
<1>6. \A n \in 0..L : t[n] \in Int /\ u[n] \in Int /\ x[n] \in Int /\ y[n] \in Int
  <2> HIDE DEF hf, hg
  <2> QED
    BY <1>1, <1>2, <1>3, <1>4, <1>5 DEF PartialSums
<1>7. \A n \in 1..L : f[n] \in Int /\ g[n] \in Int
  OBVIOUS
<1> DEFINE S == {m \in Nat : m <= L - 1 => /\ u[m] = t[m + 1] - f[1]
                                           /\ y[m] = x[m + 1] - L * f[1] + u[m]}
<1>8. 0 \in S
  <2>1. u[0] = 0 /\ t[1] = f[1]
    <3>1. t[0] = 0 /\ t[1] = t[1 - 1] + f[1] /\ u[0] = 0
      BY <1>2, <1>3 DEF PartialSums
    <3> QED
      BY <3>1, <1>7
  <2>2. x[1] = L * f[1] /\ y[0] = 0
    <3>1. x[0] = 0 /\ x[1] = x[1 - 1] + hf[1] /\ y[0] = 0
      <4> HIDE DEF hf, hg
      <4> QED
        BY <1>1, <1>4, <1>5 DEF PartialSums
    <3>2. hf[1] = L * f[1]
      <4>1. hf[1] = (Len(f) - 1 + 1) * f[1]
        OBVIOUS
      <4>2. Len(f) - 1 + 1 = L
        OBVIOUS
      <4> QED
        BY <4>1, <4>2
    <3>3. L * f[1] \in Int
      BY <1>7
    <3> HIDE DEF hf
    <3> QED
      BY <3>1, <3>2, <3>3
  <2>3. L * f[1] \in Int /\ f[1] \in Int
    BY <1>7
  <2>4. u[0] = t[0 + 1] - f[1] /\ y[0] = x[0 + 1] - L * f[1] + u[0]
    BY <2>1, <2>2, <2>3
  <2> QED
    BY <2>4
<1>9. ASSUME NEW m \in Nat, m \in S PROVE m + 1 \in S
  <2>1. CASE m + 1 <= L - 1
    <3>1. u[m] = t[m + 1] - f[1] /\ y[m] = x[m + 1] - L * f[1] + u[m]
      BY <1>9, <2>1
    <3>2. g[m + 1] = f[m + 2]
      BY <2>1
    <3>3. u[m + 1] = u[m] + g[m + 1] /\ t[m + 2] = t[m + 1] + f[m + 2]
      <4>1. m + 1 \in 1..L /\ m + 2 \in 1..L /\ (m + 1) - 1 = m /\ (m + 2) - 1 = m + 1
        BY <2>1
      <4> QED
        BY <4>1, <1>2, <1>3 DEF PartialSums
    <3>4. y[m + 1] = y[m] + hg[m + 1] /\ x[m + 2] = x[m + 1] + hf[m + 2]
      <4>1. m + 1 \in 1..L /\ m + 2 \in 1..L /\ (m + 1) - 1 = m /\ (m + 2) - 1 = m + 1
        BY <2>1
      <4> HIDE DEF hf, hg
      <4> QED
        BY <4>1, <1>1, <1>4, <1>5 DEF PartialSums
    <3>5. hg[m + 1] = hf[m + 2] + g[m + 1]
      <4>1. hg[m + 1] = (Len(g) - (m + 1) + 1) * g[m + 1]
        BY <2>1
      <4>2. hf[m + 2] = (Len(f) - (m + 2) + 1) * f[m + 2]
        BY <2>1
      <4>3. Len(g) - (m + 1) + 1 = (Len(f) - (m + 2) + 1) + 1
        BY <2>1
      <4>4. Len(f) - (m + 2) + 1 \in Int /\ g[m + 1] \in Int
        BY <2>1, <1>7
      <4>5. ((Len(f) - (m + 2) + 1) + 1) * g[m + 1] = (Len(f) - (m + 2) + 1) * g[m + 1] + g[m + 1]
        BY <4>4, OneMore
      <4> HIDE DEF hf, hg
      <4> QED
        BY <4>1, <4>2, <4>3, <4>5, <3>2
    <3>6. u[m + 1] = t[m + 2] - f[1]
      <4>1. t[m + 1] \in Int /\ f[m + 2] \in Int /\ f[1] \in Int
        BY <1>6, <1>7, <2>1
      <4> QED
        BY <3>1, <3>2, <3>3, <4>1
    <3>7. y[m + 1] = x[m + 2] - L * f[1] + u[m + 1]
      <4>1. /\ y[m] \in Int /\ x[m + 1] \in Int /\ x[m + 2] \in Int /\ u[m] \in Int
            /\ y[m + 1] \in Int /\ u[m + 1] \in Int /\ g[m + 1] \in Int
        BY <1>6, <1>7, <2>1
      <4>2. L * f[1] \in Int /\ hf[m + 2] \in Int
        BY <1>1, <1>7, <2>1
      <4> DEFINE k == L * f[1]
                 h == hf[m + 2]
      <4>3. y[m] = x[m + 1] - k + u[m] /\ y[m + 1] = y[m] + (h + g[m + 1])
        BY <3>1, <3>4, <3>5
      <4>4. x[m + 2] = x[m + 1] + h /\ u[m + 1] = u[m] + g[m + 1]
        BY <3>3, <3>4
      <4>5. k \in Int /\ h \in Int
        BY <4>2
      <4>6. y[m + 1] = x[m + 2] - k + u[m + 1]
        <5>1. y[m + 1] = (x[m + 1] - k + u[m]) + (h + g[m + 1])
          BY <4>3
        <5>2. (x[m + 1] - k + u[m]) + (h + g[m + 1]) = (x[m + 1] + h) - k + (u[m] + g[m + 1])
          <6> DEFINE v == x[m + 1]
                     w == u[m]
                     e == g[m + 1]
          <6>1. v \in Int /\ w \in Int /\ e \in Int
            BY <4>1
          <6>2. k \in Int
            BY <4>5
          <6>3. h \in Int
            BY <4>5
          <6> HIDE DEF k, h, v, w, e
          <6>4. (v - k + w) + (h + e) = (v + h) - k + (w + e)
            BY ONLY <6>1, <6>2, <6>3
          <6> QED
            BY ONLY <6>4 DEF v, w, e
        <5>3. (x[m + 1] + h) - k + (u[m] + g[m + 1]) = x[m + 2] - k + u[m + 1]
          BY <4>4
        <5> HIDE DEF k, h
        <5> QED
          BY <5>1, <5>2, <5>3
      <4> QED
        BY <4>6
    <3> HIDE DEF hf, hg
    <3> QED
      BY <3>6, <3>7, <2>1
  <2>2. CASE ~(m + 1 <= L - 1)
    BY <2>2
  <2> QED
    BY <2>1, <2>2
<1>10. Nat \subseteq S
  <2> HIDE DEF S
  <2> QED
    BY <1>8, <1>9, EveryNumber
<1>11. /\ u[L - 1] = t[L] - f[1]
       /\ y[L - 1] = x[L] - L * f[1] + u[L - 1]
  <2>1. L - 1 \in S /\ (L - 1) + 1 = L
    BY <1>10
  <2> HIDE DEF hf, hg
  <2> QED
    BY <2>1
<1>12. u[L] = u[L - 1] + g[L]
  BY <1>3 DEF PartialSums
<1>13. y[L] = y[L - 1] + g[L]
  <2>1. y[L] = y[L - 1] + hg[L]
    <3> HIDE DEF hg
    <3> QED
      BY <1>1, <1>5 DEF PartialSums
  <2>2. hg[L] = (Len(g) - L + 1) * g[L] /\ Len(g) - L + 1 = 1
    OBVIOUS
  <2>3. 1 * g[L] = g[L]
    BY <1>7
  <2> HIDE DEF hg
  <2> QED
    BY <2>1, <2>2, <2>3
<1>14. /\ t[L] \in Int /\ u[L] \in Int /\ x[L] \in Int /\ y[L] \in Int /\ f[1] \in Int
       /\ u[L - 1] \in Int /\ y[L - 1] \in Int /\ g[L] \in Int /\ L * f[1] \in Int
  BY <1>6, <1>7
<1> HIDE DEF hf, hg
<1>15. u[L] = t[L] - f[1] + g[L]
  BY ONLY <1>11, <1>12, <1>14
<1>16. y[L] = x[L] - L * f[1] + u[L]
  <2> DEFINE k == L * f[1]
         xl == x[L]
         ul == u[L - 1]
         gl == g[L]
  <2>1. xl \in Int /\ k \in Int /\ ul \in Int /\ gl \in Int
    BY <1>14
  <2>2. y[L] = (xl - k + ul) + gl /\ u[L] = ul + gl
    BY <1>11, <1>12, <1>13
  <2> HIDE DEF k, xl, ul, gl
  <2>3. (xl - k + ul) + gl = xl - k + (ul + gl)
    BY ONLY <2>1
  <2>4. y[L] = xl - k + u[L]
    BY ONLY <2>2, <2>3
  <2> QED
    BY ONLY <2>4 DEF k, xl
<1>17. QED
  BY ONLY <1>2, <1>3, <1>4, <1>5, <1>15, <1>16


-----------------------------------------------------------------------------
(* Arithmetic that wraps.                                                  *)

LEMMA Division ==
    ASSUME NEW n \in Nat \ {0}, NEW x \in Int
    PROVE  x % n \in 0..(n - 1) /\ x \div n \in Int /\ x = n * (x \div n) + (x % n)
BY SMT

LEMMA Distribute ==
    ASSUME NEW n \in Int, NEW p \in Int, NEW q \in Int
    PROVE  n * (p + q) = n * p + n * q /\ n * (p - q) = n * p - n * q
BY SMT

LEMMA AtLeastOnce ==
    ASSUME NEW n \in Nat \ {0}, NEW q \in Int, q >= 1
    PROVE  n * q >= n
<1>1. q - 1 \in Nat
  OBVIOUS
<1>2. \A i, j \in Nat : i * j >= 0 /\ i * j \in Int
  BY SMT
<1>3. n * (q - 1) >= 0 /\ n * (q - 1) \in Int
  BY <1>1, <1>2
<1>4. n * q = n * (q - 1) + n
  <2>1. q = (q - 1) + 1 /\ n * 1 = n
    OBVIOUS
  <2>2. n * ((q - 1) + 1) = n * (q - 1) + n * 1
    BY <1>1, Distribute
  <2> QED
    BY <2>1, <2>2
<1>5. QED
  BY <1>3, <1>4

LEMMA RemainderIsUnique ==
    ASSUME NEW n \in Nat \ {0}, NEW p \in Int, NEW q \in Int,
           NEW r \in 0..(n - 1), NEW s \in 0..(n - 1), n * p + r = n * q + s
    PROVE  r = s
<1>1. n * p \in Int /\ n * q \in Int
  OBVIOUS
<1>2. n * (p - q) = n * p - n * q /\ n * (q - p) = n * q - n * p
  BY Distribute
<1>3. ~(p - q >= 1)
  <2>1. p - q >= 1 => n * (p - q) >= n
    BY AtLeastOnce
  <2> QED
    BY <2>1, <1>1, <1>2
<1>4. ~(q - p >= 1)
  <2>1. q - p >= 1 => n * (q - p) >= n
    BY AtLeastOnce
  <2> QED
    BY <2>1, <1>1, <1>2
<1>5. p = q
  BY <1>3, <1>4
<1>6. QED
  BY <1>5, <1>1

\* Numbers that differ by a multiple of n have the same remainder.
LEMMA SameRemainder ==
    ASSUME NEW n \in Nat \ {0}, NEW x \in Int, NEW y \in Int, NEW q \in Int, x = y + n * q
    PROVE  x % n = y % n
<1>1. /\ x % n \in 0..(n - 1) /\ x \div n \in Int /\ x = n * (x \div n) + (x % n)
      /\ y % n \in 0..(n - 1) /\ y \div n \in Int /\ y = n * (y \div n) + (y % n)
  BY Division
<1> DEFINE i == x \div n
           j == y \div n
           r == x % n
           s == y % n
<1>2. n * (j + q) = n * j + n * q
  BY <1>1, Distribute
<1>3. n * i + r = n * (j + q) + s
  <2>1. n * i + r = (n * j + s) + n * q
    BY <1>1
  <2>2. n * j \in Int /\ n * q \in Int /\ s \in Int
    BY <1>1
  <2> HIDE DEF i, j, r, s
  <2> QED
    BY <2>1, <2>2, <1>2
<1>4. i \in Int /\ j + q \in Int /\ r \in 0..(n - 1) /\ s \in 0..(n - 1)
  BY <1>1
<1>5. r = s
  <2> HIDE DEF i, j, r, s
  <2> QED
    BY <1>3, <1>4, RemainderIsUnique
<1>6. QED
  BY <1>5

\* The other way round.
LEMMA Multiple ==
    ASSUME NEW n \in Nat \ {0}, NEW x \in Int, NEW y \in Int, x % n = y % n
    PROVE  \E q \in Int : x = y + n * q
<1>1. /\ x % n \in 0..(n - 1) /\ x \div n \in Int /\ x = n * (x \div n) + (x % n)
      /\ y % n \in 0..(n - 1) /\ y \div n \in Int /\ y = n * (y \div n) + (y % n)
  BY Division
<1>2. n * (x \div n - y \div n) = n * (x \div n) - n * (y \div n)
  BY <1>1, Distribute
<1>3. n * (x \div n) \in Int /\ n * (y \div n) \in Int /\ x \div n - y \div n \in Int
  BY <1>1
<1>4. x = y + n * (x \div n - y \div n)
  <2> DEFINE u == n * (x \div n)
             v == n * (y \div n)
             w == n * (x \div n - y \div n)
             r == x % n
  <2>1. x = u + r /\ y = v + r /\ w = u - v /\ u \in Int /\ v \in Int /\ r \in Int
    BY <1>1, <1>2, <1>3
  <2>2. x = y + w
    <3> HIDE DEF u, v, w, r
    <3> QED
      BY <2>1
  <2> QED
    BY <2>2
<1>5. QED
  BY <1>3, <1>4

\* 32 bits that keep 16: the low half of a number taken modulo n * n is that of the number.
LEMMA HalfOfWord ==
    ASSUME NEW n \in Nat \ {0}, NEW x \in Int
    PROVE  /\ x % (n * n) \in 0..(n * n - 1)
           /\ (x % (n * n)) % n = x % n
<1>1. n * n \in Nat \ {0}
  BY SMT
<1>2. /\ x % (n * n) \in 0..(n * n - 1) /\ x \div (n * n) \in Int
      /\ x = (n * n) * (x \div (n * n)) + (x % (n * n))
  BY <1>1, Division
<1> DEFINE q == x \div (n * n)
           r == x % (n * n)
<1>3. (n * n) * q = n * (n * q)
  <2>1. q \in Int
    BY <1>2
  <2> HIDE DEF q
  <2> QED
    BY <2>1, SMT
<1>4. n * q \in Int /\ r \in Int
  BY <1>2
<1>5. x = r + n * (n * q)
  <2>1. x = n * (n * q) + r /\ n * (n * q) \in Int
    BY <1>2, <1>3, <1>4
  <2> HIDE DEF q, r
  <2> QED
    BY <2>1, <1>4
<1>6. x % n = r % n
  <2> HIDE DEF q, r
  <2> QED
    BY <1>4, <1>5, SameRemainder
<1>7. QED
  BY <1>2, <1>6


-----------------------------------------------------------------------------
(* The checksum of the window.                                             *)

LEMMA BytesOf ==
    ASSUME NEW S, NEW f \in Seq(S), NEW i \in Nat, NEW j \in Nat, i <= j, j <= Len(f)
    PROVE  /\ Bytes(f, i, j) \in Seq(S)
           /\ Len(Bytes(f, i, j)) = j - i
           /\ \A k \in 1..(j - i) : Bytes(f, i, j)[k] = f[i + k]
BY DEF Bytes

\* The window of a file: L bytes, which are numbers.
LEMMA WindowOf ==
    ASSUME NEW f \in Seq(Byte), NEW p \in Nat, p + L <= Len(f)
    PROVE  /\ Bytes(f, p, p + L) \in Seq(Byte) /\ Bytes(f, p, p + L) \in Seq(Int)
           /\ Len(Bytes(f, p, p + L)) = L
           /\ \A k \in 1..L : Bytes(f, p, p + L)[k] = f[p + k]
<1>1. L \in Nat \ {0} /\ Byte \subseteq Int
  BY DeltaAssumption
<1>2. f \in Seq(Int)
  <2>1. f \in [1..Len(f) -> Byte] /\ Len(f) \in Nat
    OBVIOUS
  <2>2. f \in [1..Len(f) -> Int]
    BY <1>1, <2>1
  <2> QED
    BY <2>1, <2>2
<1>3. p + L \in Nat /\ p <= p + L /\ (p + L) - p = L
  BY <1>1
<1>4. /\ Bytes(f, p, p + L) \in Seq(Byte)
      /\ Len(Bytes(f, p, p + L)) = (p + L) - p
      /\ \A k \in 1..((p + L) - p) : Bytes(f, p, p + L)[k] = f[p + k]
  BY <1>3, BytesOf
<1>5. Bytes(f, p, p + L) \in Seq(Int)
  BY <1>2, <1>3, BytesOf
<1>6. QED
  BY <1>3, <1>4, <1>5

\* x and y are one number as far as arithmetic modulo n can tell.
Congruent(n, x, y) == x % n = y % n

LEMMA SameShift ==
    ASSUME NEW n \in Nat \ {0}, NEW x \in Int, NEW y \in Int, NEW c \in Int, Congruent(n, x, y)
    PROVE  Congruent(n, x + c, y + c)
<1>1. PICK q \in Int : x = y + n * q
  BY Multiple DEF Congruent
<1>2. n * q \in Int
  OBVIOUS
<1>3. x + c = (y + c) + n * q /\ x + c \in Int /\ y + c \in Int
  BY ONLY <1>1, <1>2, x \in Int, y \in Int, c \in Int
<1> DEFINE v == x + c
           w == y + c
<1>4. v % n = w % n
  <2>1. v = w + n * q /\ v \in Int /\ w \in Int
    BY ONLY <1>3
  <2> HIDE DEF v, w
  <2> QED
    BY ONLY <2>1, n \in Nat \ {0}, q \in Int, SameRemainder
<1>5. QED
  BY <1>4 DEF Congruent

LEMMA SameSum ==
    ASSUME NEW n \in Nat \ {0}, NEW x \in Int, NEW y \in Int, NEW u \in Int, NEW v \in Int,
           Congruent(n, x, y), Congruent(n, u, v)
    PROVE  Congruent(n, x + u, y + v)
<1>1. Congruent(n, x + u, y + u)
  BY SameShift
<1>2. Congruent(n, u + y, v + y)
  BY SameShift
<1>3. u + y = y + u /\ v + y = y + v
  OBVIOUS
<1>4. Congruent(n, y + u, y + v)
  BY <1>2, <1>3
<1>5. QED
  BY <1>1, <1>4 DEF Congruent

LEMMA RemainderTwice ==
    ASSUME NEW n \in Nat \ {0}, NEW x \in Int
    PROVE  x % n \in 0..(n - 1) /\ x % n \in Int /\ Congruent(n, x % n, x)
<1>1. x % n \in 0..(n - 1) /\ x \div n \in Int /\ x = n * (x \div n) + (x % n)
  BY Division
<1> DEFINE r == x % n
           q == x \div n
<1>2. r \in Int /\ q \in Int /\ n * q \in Int /\ x = n * q + r
  BY <1>1
<1>3. x = r + n * q
  <2> HIDE DEF r, q
  <2> QED
    BY <1>2
<1>4. x % n = r % n
  <2> HIDE DEF r, q
  <2> QED
    BY <1>2, <1>3, SameRemainder
<1>5. QED
  BY <1>1, <1>2, <1>4 DEF Congruent

\* What Roll does to the two sums, in the numbers it works on.
Rolled(n, k, a0, b0, leaving, entering, a1, b1) ==
    /\ a1 = (a0 - leaving + entering) % n
    /\ b1 = (b0 - k * leaving + a1) % n

\* From congruent sums, Roll makes congruent sums.
LEMMA RolledRemainders ==
    ASSUME NEW n \in Nat \ {0}, NEW k \in Int, NEW a0 \in Int, NEW b0 \in Int,
           NEW lo \in Int, NEW hi \in Int, NEW leaving \in Int, NEW entering \in Int,
           Congruent(n, a0, lo), Congruent(n, b0, hi),
           NEW a1, NEW b1, Rolled(n, k, a0, b0, leaving, entering, a1, b1)
    PROVE  /\ a1 \in 0..(n - 1) /\ b1 \in 0..(n - 1)
           /\ Congruent(n, a1, lo - leaving + entering)
           /\ Congruent(n, b1, hi - k * leaving + (lo - leaving + entering))
<1> DEFINE a2 == a0 - leaving + entering
           lo1 == lo - leaving + entering
           c == entering - leaving
           kl == k * leaving
           d == - kl
<1>1. /\ a2 = a0 + c /\ lo1 = lo + c /\ c \in Int /\ a2 \in Int /\ lo1 \in Int
  OBVIOUS
<1>2. d \in Int /\ kl \in Int
  OBVIOUS
<1>3. Congruent(n, a2, lo1)
  <2>1. Congruent(n, a0 + c, lo + c)
    <3> HIDE DEF c
    <3> QED
      BY <1>1, SameShift
  <2> QED
    BY <2>1, <1>1
<1>4. a1 \in 0..(n - 1) /\ a1 \in Int /\ Congruent(n, a1, a2)
  <2>1. a1 = a2 % n
    BY DEF Rolled
  <2> HIDE DEF a2
  <2> QED
    BY <1>1, <2>1, RemainderTwice
<1>5. Congruent(n, a1, lo1)
  BY <1>3, <1>4 DEF Congruent
<1> DEFINE b2 == b0 + d + a1
<1>6. Congruent(n, b0 + d, hi + d) /\ b0 + d \in Int /\ hi + d \in Int
  <2>1. d \in Int
    BY <1>2
  <2> HIDE DEF d
  <2>2. Congruent(n, b0 + d, hi + d)
    BY <2>1, SameShift
  <2>3. b0 + d \in Int /\ hi + d \in Int
    BY ONLY <2>1, b0 \in Int, hi \in Int
  <2> QED
    BY <2>2, <2>3
<1>7. Congruent(n, b2, hi + d + lo1)
  <2>1. Congruent(n, (b0 + d) + a1, (hi + d) + lo1)
    <3> HIDE DEF d, lo1
    <3> QED
      BY <1>1, <1>4, <1>5, <1>6, SameSum
  <2> QED
    BY <2>1
<1>8. b0 + d = b0 - kl /\ hi + d = hi - kl
  <2> HIDE DEF kl
  <2> QED
    BY <1>2
<1>9. b1 = b2 % n
  <2>1. b1 = (b0 - kl + a1) % n
    BY DEF Rolled
  <2> HIDE DEF d, kl
  <2> QED
    BY <1>8, <2>1
<1>10. b2 \in Int
  <2> HIDE DEF d
  <2> QED
    BY <1>4, <1>6
<1>11. b1 \in 0..(n - 1) /\ Congruent(n, b1, b2)
  <2> HIDE DEF b2
  <2> QED
    BY <1>9, <1>10, RemainderTwice
<1>12. Congruent(n, b1, hi - kl + lo1)
  <2>1. Congruent(n, b1, hi + d + lo1)
    BY <1>7, <1>11 DEF Congruent
  <2> HIDE DEF d, lo1
  <2> QED
    BY <2>1, <1>8
<1>13. QED
  BY <1>4, <1>5, <1>11, <1>12


-----------------------------------------------------------------------------
(* Signatures.                                                             *)

\* What the signature of a file holds, of a whole block in particular.
LEMMA SignatureFacts ==
    ASSUME NEW f \in Seq(Byte), NEW s, s = signature_of(f)
    PROVE  /\ s.file_size = Len(f)
           /\ DOMAIN s.blocks = 0..(BlockCount(f) - 1)
           /\ \A i \in DOMAIN s.blocks : s.blocks[i].weak = weak_checksum(s.blocks[i].strong)
           /\ \A i \in DOMAIN s.blocks : i * L + L <= Len(f) =>
                 s.blocks[i].strong = Bytes(f, i * L, i * L + L)
<1> DEFINE blocks == [i \in 0..(BlockCount(f) - 1) |->
                         [weak |-> weak_checksum(BlockAt(f, i)), strong |-> BlockAt(f, i)]]
<1>1. s.file_size = Len(f) /\ s.blocks = blocks
  BY DEF signature_of
<1>2. \A i \in 0..(BlockCount(f) - 1) : /\ blocks[i].weak = weak_checksum(BlockAt(f, i))
                                        /\ blocks[i].strong = BlockAt(f, i)
  OBVIOUS
<1>3. DOMAIN blocks = 0..(BlockCount(f) - 1)
  OBVIOUS
<1>4. \A i \in 0..(BlockCount(f) - 1) : i * L + L <= Len(f) => BlockAt(f, i) = Bytes(f, i * L, i * L + L)
  BY DEF BlockAt
<1> HIDE DEF blocks
<1>5. QED
  BY <1>1, <1>2, <1>3, <1>4

\* The blocks counted by KnownBlocksAreCopied are the whole ones.
LEMMA WholeBlocks ==
    ASSUME NEW f \in Seq(Byte), NEW i \in 0..(Len(f) \div L - 1)
    PROVE  i \in 0..(BlockCount(f) - 1) /\ i * L + L <= Len(f)
<1>1. L \in Nat \ {0} /\ Len(f) \in Nat
  BY DeltaAssumption
<1> DEFINE n == Len(f)
           q == n \div L
           m == (n + L - 1) \div L
<1>2. n \in Int /\ n + L - 1 \in Int
  BY <1>1
<1>3. /\ n % L \in 0..(L - 1) /\ q \in Int /\ n = L * q + (n % L)
      /\ (n + L - 1) % L \in 0..(L - 1) /\ m \in Int /\ n + L - 1 = L * m + ((n + L - 1) % L)
  <2> HIDE DEF n
  <2> QED
    BY <1>1, <1>2, Division
<1>4. L * (m - q) = L * m - L * q /\ L * m \in Int /\ L * q \in Int
  BY <1>1, <1>3, Distribute
<1>5. L * m >= L * q
  <2> DEFINE r == n % L
             s == (n + L - 1) % L
             lm == L * m
             lq == L * q
  <2>1. /\ r \in 0..(L - 1) /\ s \in 0..(L - 1) /\ n = lq + r /\ n + L - 1 = lm + s
        /\ lm \in Int /\ lq \in Int
    BY <1>3, <1>4
  <2>2. lm >= lq
    <3> HIDE DEF r, s, lm, lq, n
    <3> QED
      BY <1>1, <1>2, <2>1
  <2> QED
    BY <2>2
<1>6. m >= q
  <2>1. ASSUME ~(m >= q) PROVE FALSE
    <3>1. q - m \in Int /\ q - m >= 1
      BY <1>3, <2>1
    <3>2. L * (q - m) = L * q - L * m /\ L * (q - m) >= L
      <4> HIDE DEF q, m
      <4>1. L * (q - m) >= L
        BY <1>1, <3>1, AtLeastOnce
      <4>2. L * (q - m) = L * q - L * m
        BY <1>1, <1>3, Distribute
      <4> QED
        BY <4>1, <4>2
    <3> HIDE DEF q, m
    <3> QED
      BY <1>1, <1>4, <1>5, <3>2
  <2> QED
    BY <2>1
<1>7. i \in Nat /\ i + 1 <= q
  BY <1>3
<1>8. L * (q - (i + 1)) = L * q - L * (i + 1) /\ L * (q - (i + 1)) >= 0 /\ L * (i + 1) = i * L + L
  <2> HIDE DEF q
  <2>1. L * (q - (i + 1)) = L * q - L * (i + 1)
    BY <1>1, <1>3, <1>7, Distribute
  <2>2. q - (i + 1) \in Nat
    BY <1>3, <1>7
  <2>3. \A u, v \in Nat : u * v >= 0
    BY SMT
  <2>4. L * (i + 1) = i * L + L
    BY <1>1, <1>7, SMT
  <2> QED
    BY <1>1, <2>1, <2>2, <2>3, <2>4
<1>9. i * L + L <= n
  <2> DEFINE r == n % L
             lq == L * q
             li == L * (i + 1)
             d == L * (q - (i + 1))
  <2>1. /\ n = lq + r /\ r \in 0..(L - 1) /\ lq \in Int /\ d = lq - li /\ d >= 0 /\ i * L + L = li
        /\ li \in Int
    BY <1>1, <1>3, <1>4, <1>7, <1>8
  <2>2. li <= n
    <3> HIDE DEF r, lq, li, d, n
    <3> QED
      BY <1>1, <2>1
  <2> QED
    BY <2>1, <2>2
<1>10. i \in 0..(m - 1)
  <2> HIDE DEF q, m
  <2> QED
    BY <1>3, <1>6, <1>7
<1>11. QED
  BY <1>9, <1>10 DEF BlockCount

\* Two neighbouring pieces of a file.
LEMMA Adjacent ==
    ASSUME NEW f \in Seq(Byte), NEW i \in Nat, NEW j \in Nat, NEW k \in Nat,
           i <= j, j <= k, k <= Len(f)
    PROVE  Bytes(f, i, j) \o Bytes(f, j, k) = Bytes(f, i, k)
<1>1. i + 1 \in 1..(Len(f) + 1) /\ j \in (i + 1 - 1)..Len(f) /\ k \in j..Len(f)
  OBVIOUS
<1>2. SubSeq(f, i + 1, j) \o SubSeq(f, j + 1, k) = SubSeq(f, i + 1, k)
  BY <1>1, ConcatAdjacentSubSeq
<1>3. QED
  BY <1>2 DEF Bytes

LEMMA WholeFile ==
    ASSUME NEW f \in Seq(Byte)
    PROVE  Bytes(f, 0, Len(f)) = f /\ Bytes(f, 0, 0) = <<>>
<1>1. SubSeq(f, 1, Len(f)) = f
  BY SubSeqFull
<1>2. SubSeq(f, 1, 0) = <<>>
  BY SubSeqEmpty
<1>3. QED
  BY <1>1, <1>2 DEF Bytes


-----------------------------------------------------------------------------
(* Types.                                                                  *)

Copies   == [copy : {TRUE}, offset : Nat, len : Nat]
Literals == [copy : {FALSE}, literal : Seq(Byte)]
Op       == Copies \cup Literals

\* What the window, the instructions and the progress of both sides look like.
Typed == /\ TypeOK
         /\ ops \in Seq(Op)
         /\ phase = "scan" => literal_start <= pos /\ pos <= size /\ next = 1 /\ out = <<>>
         /\ phase # "scan" => literal_start = size
         /\ \E f \in Seq(Byte) : sig = signature_of(f)

LEMMA OpFields ==
    ASSUME NEW op \in Op
    PROVE  /\ op.copy \in BOOLEAN
           /\ op.copy => op \in Copies /\ op.offset \in Nat /\ op.len \in Nat
           /\ ~op.copy => op \in Literals /\ op.literal \in Seq(Byte)
<1>1. CASE op \in Copies
  BY <1>1 DEF Copies
<1>2. CASE op \in Literals
  BY <1>2 DEF Literals
<1>3. QED
  BY <1>1, <1>2 DEF Op

LEMMA MadeOps ==
    /\ \A offset, len \in Nat : /\ Copy(offset, len) \in Op /\ Copy(offset, len).copy
                                /\ Copy(offset, len).offset = offset
                                /\ Copy(offset, len).len = len
    /\ \A bytes \in Seq(Byte) : /\ Literal(bytes) \in Op /\ ~Literal(bytes).copy
                                /\ Literal(bytes).literal = bytes
BY DEF Copy, Literal, Op, Copies, Literals

\* The rest of the file so far as a literal: nothing, or one more instruction.
LEMMA EmitLiteralCases ==
    ASSUME NEW o \in Seq(Op), NEW from \in Nat, NEW to \in Nat, from <= to, to <= size,
           target \in Seq(Byte)
    PROVE  /\ EmitLiteral(o, from, to) \in Seq(Op)
           /\ from = to => EmitLiteral(o, from, to) = o
           /\ from # to => EmitLiteral(o, from, to) = Append(o, Literal(Bytes(target, from, to)))
<1>1. Bytes(target, from, to) \in Seq(Byte)
  BY BytesOf DEF size
<1>2. Literal(Bytes(target, from, to)) \in Op
  BY <1>1, MadeOps
<1>3. Append(o, Literal(Bytes(target, from, to))) \in Seq(Op)
  BY <1>2
<1>4. from = to => EmitLiteral(o, from, to) = o
  BY DEF EmitLiteral
<1>5. from # to => EmitLiteral(o, from, to) = Append(o, Literal(Bytes(target, from, to)))
  BY DEF EmitLiteral
<1>6. QED
  BY <1>3, <1>4, <1>5

\* A copy extends the one before it, where that ends, or comes on its own.
Extended(o, r, offset, len) ==
    /\ o # <<>> /\ o[Len(o)].copy /\ o[Len(o)].offset + o[Len(o)].len = offset
    /\ Len(r) = Len(o) /\ \A k \in 1..(Len(o) - 1) : r[k] = o[k]
    /\ r[Len(o)] = Copy(o[Len(o)].offset, o[Len(o)].len + len)

LEMMA Lengthened ==
    ASSUME NEW c \in Copies, NEW len \in Nat
    PROVE  [c EXCEPT !.len = c.len + len] = Copy(c.offset, c.len + len)
<1>1. \A B, z : \A x \in [copy : B, offset : Nat, len : Nat] :
        [x EXCEPT !.len = z] = [copy |-> x.copy, offset |-> x.offset, len |-> z]
  BY SMT
<1>2. \A z : [c EXCEPT !.len = z] = [copy |-> c.copy, offset |-> c.offset, len |-> z]
  BY <1>1 DEF Copies
<1>3. c.copy = TRUE
  BY Zenon DEF Copies
<1>4. \A z : [c EXCEPT !.len = z] = [copy |-> TRUE, offset |-> c.offset, len |-> z]
  BY <1>2, <1>3, Zenon
<1>5. QED
  BY <1>4, Zenon DEF Copy

LEMMA EmitCopyCases ==
    ASSUME NEW o \in Seq(Op), NEW offset \in Nat, NEW len \in Nat
    PROVE  /\ EmitCopy(o, offset, len) \in Seq(Op)
           /\ \/ EmitCopy(o, offset, len) = Append(o, Copy(offset, len))
              \/ Extended(o, EmitCopy(o, offset, len), offset, len)
<1> DEFINE r == EmitCopy(o, offset, len)
           n == Len(o)
           continues == o # <<>> /\ o[n].copy /\ o[n].offset + o[n].len = offset
<1>1. CASE continues
  <2>1. n \in 1..Len(o) /\ o[n] \in Op
    BY <1>1
  <2>2. o[n] \in Copies /\ o[n].offset \in Nat /\ o[n].len \in Nat
    BY <1>1, <2>1, OpFields
  <2>3. r = [o EXCEPT ![n] = [o[n] EXCEPT !.len = o[n].len + len]]
    BY <1>1 DEF EmitCopy
  <2>4. [o[n] EXCEPT !.len = o[n].len + len] = Copy(o[n].offset, o[n].len + len)
    BY <2>2, Lengthened
  <2> DEFINE op == Copy(o[n].offset, o[n].len + len)
  <2>5. op \in Op
    BY <2>2, MadeOps
  <2>6. r = [o EXCEPT ![n] = op]
    BY <2>3, <2>4
  <2>7. r \in Seq(Op) /\ Len(r) = n /\ r[n] = op /\ \A k \in 1..(n - 1) : r[k] = o[k]
    <3> HIDE DEF op, r
    <3> QED
      BY <2>1, <2>5, <2>6
  <2>8. Extended(o, r, offset, len)
    <3> HIDE DEF r
    <3> QED
      BY <1>1, <2>7 DEF Extended
  <2> QED
    BY <2>7, <2>8
<1>2. CASE ~continues
  <2>1. r = Append(o, Copy(offset, len))
    BY <1>2 DEF EmitCopy
  <2>2. Copy(offset, len) \in Op
    BY MadeOps
  <2>3. Append(o, Copy(offset, len)) \in Seq(Op)
    BY <2>2
  <2> QED
    BY <2>1, <2>3
<1>3. QED
  BY <1>1, <1>2


LEMMA WindowSums ==
    ASSUME target \in Seq(Byte), NEW p \in Nat, p + L <= size
    PROVE  Low(Window(p)) \in Int /\ High(Window(p)) \in Int
<1>1. Window(p) \in Seq(Int)
  BY WindowOf DEF Window, size
<1>2. QED
  BY <1>1, SumsAreInt

LEMMA Words ==
    /\ L \in Nat \ {0} /\ Half \in Nat \ {0} /\ Half * Half \in Nat \ {0}
    /\ \A x \in Int : x % (Half * Half) \in 0..(Half * Half - 1)
    /\ \A x \in Int : x % Half \in Int /\ x % Half \in 0..(Half * Half - 1)
    /\ 0 \in 0..(Half * Half - 1)
<1>1. L \in Nat \ {0} /\ Half \in Nat \ {0}
  BY DeltaAssumption
<1>2. Half * Half \in Nat \ {0} /\ Half * Half >= Half
  <2>1. Half \in Int /\ Half >= 1
    BY <1>1
  <2>2. Half * Half >= Half
    BY <1>1, <2>1, AtLeastOnce
  <2>3. \A x \in Nat : x * x \in Nat
    BY SMT
  <2>4. Half * Half \in Nat
    BY <1>1, <2>3
  <2> QED
    BY <1>1, <2>2, <2>4
<1>3. \A x \in Int : x % (Half * Half) \in 0..(Half * Half - 1)
  BY <1>1, HalfOfWord
<1>4. \A x \in Int : x % Half \in Int /\ x % Half \in 0..(Half - 1)
  BY <1>1, RemainderTwice
<1>5. 0..(Half - 1) \subseteq 0..(Half * Half - 1)
  <2> DEFINE w == Half * Half
  <2>1. w \in Nat /\ w >= Half
    BY <1>2
  <2>2. 0..(Half - 1) \subseteq 0..(w - 1)
    <3> HIDE DEF w
    <3> QED
      BY <1>1, <2>1
  <2> QED
    BY <2>2
<1>6. 0 \in 0..(Half * Half - 1)
  <2> DEFINE w == Half * Half
  <2>1. w \in Nat \ {0}
    BY <1>2
  <2>2. 0 \in 0..(w - 1)
    <3> HIDE DEF w
    <3> QED
      BY <2>1
  <2> QED
    BY <2>2
<1>7. QED
  BY <1>1, <1>2, <1>3, <1>4, <1>5, <1>6

LEMMA TypedInit == Init => Typed
<1> SUFFICES ASSUME Init PROVE Typed
  OBVIOUS
<1>1. base \in Seq(Byte) /\ target \in Seq(Byte) /\ target \in Targets /\ size \in Nat
  BY DeltaAssumption DEF Init, size
<1>2. a \in 0..(Half * Half - 1) /\ b \in 0..(Half * Half - 1)
  <2>1. CASE Hopeless
    BY <2>1, Words DEF Init
  <2>2. CASE ~Hopeless
    <3>1. 0 + L <= size
      BY <2>2, <1>1, Words DEF Hopeless
    <3>2. Low(Window(0)) \in Int /\ High(Window(0)) \in Int
      BY <1>1, <3>1, WindowSums
    <3>3. a = Low(Window(0)) % (Half * Half) /\ b = High(Window(0)) % (Half * Half)
      BY <2>2 DEF Init
    <3> QED
      BY <3>2, <3>3, Words
  <2> QED
    BY <2>1, <2>2
<1>3. sig.file_size \in Nat /\ \E f \in Seq(Byte) : sig = signature_of(f)
  <2>1. sig.file_size = Len(base)
    BY <1>1, SignatureFacts DEF Init
  <2>2. sig = signature_of(base)
    BY DEF Init
  <2> QED
    BY <1>1, <2>1, <2>2
<1>4. TypeOK
  <2>1. pos \in 0..(size + 1) /\ literal_start \in 0..size
    BY <1>1 DEF Init
  <2>2. out \in Seq(Byte) /\ next \in 1..(Len(ops) + 1) /\ phase \in {"scan", "stream", "accepted", "refused"}
    BY DEF Init
  <2> QED
    BY <1>1, <1>2, <1>3, <2>1, <2>2 DEF TypeOK
<1>5. ops \in Seq(Op)
  BY DEF Init
<1>6. phase = "scan" => literal_start <= pos /\ pos <= size /\ next = 1 /\ out = <<>>
  BY <1>1 DEF Init
<1>7. phase # "scan" => literal_start = size
  BY DEF Init
<1>8. QED
  BY <1>3, <1>4, <1>5, <1>6, <1>7 DEF Typed

\* The instructions a block found at pos adds.
LEMMA MatchOps ==
    ASSUME Typed, Match
    PROVE  \E i \in Hits : LET o == EmitLiteral(ops, literal_start, pos)
                           IN  /\ i \in Nat /\ i * L \in Nat
                               /\ o \in Seq(Op)
                               /\ ops' = EmitCopy(o, i * L, L)
                               /\ ops' \in Seq(Op) /\ Len(ops') >= Len(ops)
<1>1. PICK i \in Hits : ops' = EmitCopy(EmitLiteral(ops, literal_start, pos), i * L, L)
  BY DEF Match
<1>2. PICK f \in Seq(Byte) : sig = signature_of(f)
  BY DEF Typed
<1>3. i \in DOMAIN sig.blocks
  BY DEF Hits
<1>4. i \in Nat
  <2>1. DOMAIN sig.blocks = 0..(BlockCount(f) - 1)
    BY <1>2, SignatureFacts
  <2> QED
    BY <1>3, <2>1
<1>5. i * L \in Nat /\ L \in Nat
  <2>1. \A x, y \in Nat : x * y \in Nat
    BY SMT
  <2> QED
    BY <1>4, <2>1, Words
<1> DEFINE o == EmitLiteral(ops, literal_start, pos)
<1>6. /\ ops \in Seq(Op) /\ target \in Seq(Byte) /\ literal_start \in Nat /\ pos \in Nat
      /\ literal_start <= pos /\ pos <= size
  <2>1. phase = "scan"
    BY DEF Match, Scanning
  <2>2. target \in Seq(Byte)
    BY DeltaAssumption DEF Typed, TypeOK
  <2>3. literal_start \in Nat /\ pos \in Nat
    BY <2>2 DEF Typed, TypeOK, size
  <2> QED
    BY <2>1, <2>2, <2>3 DEF Typed
<1>7. /\ o \in Seq(Op)
      /\ o = ops \/ o = Append(ops, Literal(Bytes(target, literal_start, pos)))
  BY <1>6, EmitLiteralCases
<1>8. Len(o) >= Len(ops)
  BY <1>6, <1>7
<1>9. /\ ops' \in Seq(Op)
      /\ ops' = Append(o, Copy(i * L, L)) \/ Extended(o, ops', i * L, L)
  <2> HIDE DEF o
  <2>1. ops' = EmitCopy(o, i * L, L)
    BY <1>1 DEF o
  <2> QED
    BY <1>5, <1>7, <2>1, EmitCopyCases
<1>10. Len(ops') >= Len(o)
  <2>1. CASE ops' = Append(o, Copy(i * L, L))
    <3> HIDE DEF o
    <3> QED
      BY <1>7, <2>1
  <2>2. CASE Extended(o, ops', i * L, L)
    <3> HIDE DEF o
    <3> QED
      BY <1>7, <2>2 DEF Extended
  <2> QED
    BY <1>9, <2>1, <2>2
<1>11. Len(ops') >= Len(ops)
  <2> HIDE DEF o
  <2>1. Len(ops') \in Nat /\ Len(o) \in Nat /\ Len(ops) \in Nat
    BY <1>6, <1>7, <1>9
  <2> QED
    BY <2>1, <1>8, <1>10
<1>12. QED
  BY <1>1, <1>4, <1>5, <1>7, <1>9, <1>11


LEMMA Here ==
    ASSUME Typed
    PROVE  /\ target \in Seq(Byte) /\ target \in Targets /\ size \in Nat /\ size = Len(target)
           /\ pos \in Nat /\ literal_start \in Nat /\ literal_start <= size
           /\ a \in Int /\ b \in Int
           /\ ops \in Seq(Op) /\ Len(ops) \in Nat /\ next \in 1..(Len(ops) + 1)
           /\ base \in Seq(Byte) /\ out \in Seq(Byte)
           /\ L \in Nat /\ L >= 1 /\ Half \in Nat \ {0}
<1>1. target \in Seq(Byte) /\ target \in Targets /\ size = Len(target) /\ size \in Nat
  BY DeltaAssumption DEF Typed, TypeOK, size
<1>2. pos \in Nat /\ literal_start \in Nat /\ literal_start <= size
  BY <1>1 DEF Typed, TypeOK
<1>3. a \in Int /\ b \in Int
  BY Words DEF Typed, TypeOK
<1>4. ops \in Seq(Op) /\ Len(ops) \in Nat /\ next \in 1..(Len(ops) + 1)
  BY DEF Typed, TypeOK
<1>5. base \in Seq(Byte) /\ out \in Seq(Byte)
  BY DEF Typed, TypeOK
<1>6. L \in Nat /\ L >= 1 /\ Half \in Nat \ {0}
  BY Words
<1>7. QED
  BY <1>1, <1>2, <1>3, <1>4, <1>5, <1>6

\* The numbers alone.
LEMMA Numbers ==
    ASSUME Typed
    PROVE  /\ size \in Nat /\ pos \in Nat /\ literal_start \in Nat /\ literal_start <= size
           /\ a \in Int /\ b \in Int
           /\ Len(ops) \in Nat /\ next \in 1..(Len(ops) + 1)
           /\ L \in Nat /\ L >= 1 /\ Half \in Nat \ {0}
BY Here, Zenon

\* Roll keeps the sums in range and, if they were those of the window, makes them
\* those of the next.
LEMMA RollFacts ==
    ASSUME Typed, pos + L < size, Roll
    PROVE  /\ a' \in 0..(Half * Half - 1) /\ b' \in 0..(Half * Half - 1)
           /\ Congruent(Half, a, Low(Window(pos))) /\ Congruent(Half, b, High(Window(pos)))
                => /\ Congruent(Half, a', Low(Window(pos + 1)))
                   /\ Congruent(Half, b', High(Window(pos + 1)))
<1> DEFINE leaving == target[pos + 1]
           entering == target[pos + L + 1]
           f == Window(pos)
           g == Window(pos + 1)
<1>1. leaving \in Int /\ entering \in Int
  <2>1. target \in Seq(Byte) /\ size = Len(target)
    BY Here
  <2>2. pos + 1 \in 1..size /\ pos + L + 1 \in 1..size
    BY Numbers
  <2>3. leaving \in Byte /\ entering \in Byte
    BY ONLY <2>1, <2>2
  <2> HIDE DEF leaving, entering
  <2> QED
    BY ONLY <2>3, DeltaAssumption
<1>2. a' = (a - leaving + entering) % Half /\ b' = (b - L * leaving + a') % Half
  BY DEF Roll
<1>3. a - leaving + entering \in Int /\ L * leaving \in Int
  <2> HIDE DEF leaving, entering
  <2>1. a \in Int /\ L \in Int
    BY Here
  <2>2. \A x, y \in Int : x * y \in Int
    OBVIOUS
  <2> QED
    BY <1>1, <2>1, <2>2
<1>4. a' \in Int /\ a' \in 0..(Half * Half - 1)
  <2> DEFINE x == a - leaving + entering
  <2>1. a' = x % Half /\ x \in Int
    BY <1>2, <1>3
  <2> HIDE DEF x
  <2> QED
    BY <2>1, Words
<1>5. b' \in 0..(Half * Half - 1)
  <2> DEFINE kl == L * leaving
             x == b - kl + a'
  <2>1. b' = x % Half
    BY <1>2
  <2>2. x \in Int
    <3>1. kl \in Int /\ b \in Int
      BY <1>3, Here
    <3> HIDE DEF kl
    <3> QED
      BY <1>4, <3>1
  <2> HIDE DEF x
  <2> QED
    BY <2>1, <2>2, Words
<1>6. ASSUME Congruent(Half, a, Low(f)), Congruent(Half, b, High(f))
      PROVE  Congruent(Half, a', Low(g)) /\ Congruent(Half, b', High(g))
  <2>1. /\ f \in Seq(Int) /\ Len(f) = L /\ \A k \in 1..L : f[k] = target[pos + k]
    <3>1. pos \in Nat /\ pos + L <= Len(target) /\ target \in Seq(Byte)
      <4>1. pos \in Nat /\ pos + L <= size
        BY Numbers
      <4>2. target \in Seq(Byte) /\ size = Len(target)
        BY Here
      <4> QED
        BY ONLY <4>1, <4>2
    <3>2. /\ Bytes(target, pos, pos + L) \in Seq(Int)
          /\ Len(Bytes(target, pos, pos + L)) = L
          /\ \A k \in 1..L : Bytes(target, pos, pos + L)[k] = target[pos + k]
      BY ONLY <3>1, WindowOf
    <3> QED
      BY ONLY <3>2 DEF Window
  <2>2. /\ g \in Seq(Int) /\ Len(g) = L /\ \A k \in 1..L : g[k] = target[(pos + 1) + k]
    <3>1. pos + 1 \in Nat /\ (pos + 1) + L <= Len(target)
      <4>1. pos + 1 \in Nat /\ (pos + 1) + L <= size
        BY Numbers
      <4> QED
        BY ONLY <4>1 DEF size
    <3>2. target \in Seq(Byte)
      BY Here
    <3>3. /\ Bytes(target, pos + 1, (pos + 1) + L) \in Seq(Int)
          /\ Len(Bytes(target, pos + 1, (pos + 1) + L)) = L
          /\ \A k \in 1..L : Bytes(target, pos + 1, (pos + 1) + L)[k] = target[(pos + 1) + k]
      BY ONLY <3>1, <3>2, WindowOf
    <3> QED
      BY ONLY <3>3 DEF Window
  <2>3. \A i \in 1..(L - 1) : g[i] = f[i + 1]
    <3> HIDE DEF f, g
    <3> TAKE i \in 1..(L - 1)
    <3>1. i \in 1..L /\ i + 1 \in 1..L /\ (pos + 1) + i = pos + (i + 1)
      <4>1. pos \in Nat /\ L \in Nat
        BY Numbers
      <4> QED
        BY ONLY <4>1, i \in 1..(L - 1)
    <3>2. f[i + 1] = target[pos + (i + 1)]
      BY <2>1, <3>1
    <3>3. g[i] = target[(pos + 1) + i]
      BY <2>2, <3>1
    <3> QED
      BY <3>1, <3>2, <3>3
  <2>4. f[1] = leaving /\ g[L] = entering
    <3>1. 1 \in 1..L /\ L \in 1..L /\ (pos + 1) + L = pos + L + 1
      BY ONLY Typed, Numbers
    <3> HIDE DEF f, g
    <3> QED
      BY <2>1, <2>2, <3>1
  <2>5. Low(g) = Low(f) - f[1] + g[L] /\ High(g) = High(f) - L * f[1] + Low(g)
    <3> HIDE DEF f, g
    <3> QED
      BY <2>1, <2>2, <2>3, RolledSums
  <2>6. Low(f) \in Int /\ High(f) \in Int
    <3> HIDE DEF f, g
    <3> QED
      BY <2>1, SumsAreInt
  <2> DEFINE lo == Low(f)
             hi == High(f)
  <2>7. /\ Congruent(Half, a', lo - leaving + entering)
        /\ Congruent(Half, b', hi - L * leaving + (lo - leaving + entering))
    <3>1. a \in Int /\ b \in Int /\ L \in Int /\ Half \in Nat \ {0}
      BY Here
    <3>2. Congruent(Half, a, lo) /\ Congruent(Half, b, hi) /\ lo \in Int /\ hi \in Int
      BY <1>6, <2>6
    <3>3. Rolled(Half, L, a, b, leaving, entering, a', b')
      BY <1>2 DEF Rolled
    <3> HIDE DEF lo, hi, leaving, entering
    <3> QED
      BY ONLY <1>1, <3>1, <3>2, <3>3, RolledRemainders
  <2>8. Low(g) = lo - leaving + entering
    BY <2>4, <2>5
  <2>9. High(g) = hi - L * leaving + (lo - leaving + entering)
    BY <2>4, <2>5, <2>8
  <2> QED
    BY <2>7, <2>8, <2>9
<1>7. QED
  BY <1>4, <1>5, <1>6


\* A checksum taken from scratch is that of the window, and in range.
LEMMA InitWindowFacts ==
    ASSUME Typed, NEW p \in Nat, p + L <= size, NEW x, NEW y,
           x = Low(Window(p)) % (Half * Half), y = High(Window(p)) % (Half * Half)
    PROVE  /\ x \in 0..(Half * Half - 1) /\ y \in 0..(Half * Half - 1)
           /\ Congruent(Half, x, Low(Window(p))) /\ Congruent(Half, y, High(Window(p)))
<1>1. Low(Window(p)) \in Int /\ High(Window(p)) \in Int
  BY Here, WindowSums
<1>2. Half \in Nat \ {0}
  BY Words
<1> DEFINE lo == Low(Window(p))
           hi == High(Window(p))
<1>3. lo \in Int /\ hi \in Int /\ x = lo % (Half * Half) /\ y = hi % (Half * Half)
  BY <1>1
<1> HIDE DEF lo, hi
<1>4. x \in 0..(Half * Half - 1) /\ x % Half = lo % Half
  BY ONLY <1>2, <1>3, HalfOfWord
<1>5. y \in 0..(Half * Half - 1) /\ y % Half = hi % Half
  BY ONLY <1>2, <1>3, HalfOfWord
<1>6. QED
  BY <1>4, <1>5 DEF Congruent, lo, hi

LEMMA TypedMatch == ASSUME Typed, Match PROVE Typed'
<1>1. /\ phase = "scan" /\ pos + L <= size /\ pos' = pos + L /\ literal_start' = pos'
      /\ UNCHANGED <<sig, target, phase, base, out, next>>
  BY DEF Match, Scanning, asker
<1>2. ops' \in Seq(Op) /\ Len(ops') >= Len(ops)
  BY MatchOps
<1>3. size' = size
  BY <1>1 DEF size
<1>4. pos' \in Nat /\ pos' <= size
  BY ONLY <1>1, Typed, Numbers
<1>5. a' \in 0..(Half * Half - 1) /\ b' \in 0..(Half * Half - 1)
  <2>1. CASE pos' + L <= size
    <3>1. a' = Low(Window(pos')) % (Half * Half) /\ b' = High(Window(pos')) % (Half * Half)
      BY <2>1 DEF Match, InitWindow
    <3> QED
      BY <1>4, <2>1, <3>1, InitWindowFacts
  <2>2. CASE ~(pos' + L <= size)
    BY <2>2 DEF Match, Typed, TypeOK
  <2> QED
    BY <2>1, <2>2
<1>6. TypeOK'
  <2>1. pos' \in 0..(size' + 1) /\ literal_start' \in 0..size'
    BY ONLY <1>1, <1>3, <1>4, Typed, Numbers
  <2>2. next' \in 1..(Len(ops') + 1)
    <3>1. Len(ops') \in Nat
      BY <1>2
    <3> QED
      BY ONLY <1>1, <1>2, <3>1, Typed, Numbers
  <2>3. sig'.file_size \in Nat /\ target' \in Targets /\ phase' \in {"scan", "stream", "accepted", "refused"}
        /\ base' \in Seq(Byte) /\ out' \in Seq(Byte)
    BY <1>1 DEF Typed, TypeOK
  <2> QED
    BY <1>5, <2>1, <2>2, <2>3 DEF TypeOK
<1>7. phase' = "scan" => literal_start' <= pos' /\ pos' <= size' /\ next' = 1 /\ out' = <<>>
  BY <1>1, <1>3, <1>4 DEF Typed
<1>8. \E f \in Seq(Byte) : sig' = signature_of(f)
  BY <1>1 DEF Typed
<1>9. QED
  BY <1>1, <1>2, <1>6, <1>7, <1>8 DEF Typed

LEMMA TypedSlide == ASSUME Typed, Slide PROVE Typed'
<1>1. /\ phase = "scan" /\ pos + L <= size /\ pos' = pos + 1
      /\ UNCHANGED <<sig, target, literal_start, ops, phase, base, out, next>>
  BY DEF Slide, Scanning, asker
<1>2. size' = size
  BY <1>1 DEF size
<1>3. pos' \in Nat /\ pos' <= size /\ literal_start' <= pos'
  <2>1. literal_start <= pos
    BY <1>1 DEF Typed
  <2> QED
    BY ONLY <1>1, <2>1, Typed, Numbers
<1>4. a' \in 0..(Half * Half - 1) /\ b' \in 0..(Half * Half - 1)
  <2>1. CASE pos + L < size
    BY <2>1, RollFacts DEF Slide
  <2>2. CASE ~(pos + L < size)
    BY <2>2 DEF Slide, Typed, TypeOK
  <2> QED
    BY <2>1, <2>2
<1>5. TypeOK'
  <2>1. pos' \in 0..(size' + 1) /\ literal_start' \in 0..size'
    BY ONLY <1>1, <1>2, <1>3, Typed, Numbers
  <2>2. /\ sig'.file_size \in Nat /\ target' \in Targets /\ phase' \in {"scan", "stream", "accepted", "refused"}
        /\ base' \in Seq(Byte) /\ out' \in Seq(Byte) /\ next' \in 1..(Len(ops') + 1)
    BY <1>1 DEF Typed, TypeOK
  <2> QED
    BY <1>4, <2>1, <2>2 DEF TypeOK
<1>6. phase' = "scan" => literal_start' <= pos' /\ pos' <= size' /\ next' = 1 /\ out' = <<>>
  BY <1>1, <1>2, <1>3 DEF Typed
<1>7. ops' \in Seq(Op) /\ \E f \in Seq(Byte) : sig' = signature_of(f)
  BY <1>1 DEF Typed
<1>8. QED
  BY <1>1, <1>5, <1>6, <1>7 DEF Typed

LEMMA TypedFinish == ASSUME Typed, Finish PROVE Typed'
<1>1. /\ phase' = "stream" /\ literal_start' = size /\ ops' = EmitLiteral(ops, literal_start, size)
      /\ UNCHANGED <<sig, target, pos, a, b, base, out, next>>
  BY DEF Finish, asker
<1>2. size' = size
  BY <1>1 DEF size
<1>3. ops' \in Seq(Op) /\ (ops' = ops \/ ops' = Append(ops, Literal(Bytes(target, literal_start, size))))
  <2>1. /\ ops \in Seq(Op) /\ literal_start \in Nat /\ size \in Nat
        /\ literal_start <= size /\ size <= size /\ target \in Seq(Byte)
    BY Here
  <2> DEFINE o == EmitLiteral(ops, literal_start, size)
  <2>2. o \in Seq(Op) /\ (o = ops \/ o = Append(ops, Literal(Bytes(target, literal_start, size))))
    BY ONLY <2>1, EmitLiteralCases
  <2> QED
    BY ONLY <1>1, <2>2
<1>4. Len(ops') >= Len(ops) /\ Len(ops') \in Nat
  <2>1. ops \in Seq(Op)
    BY Here
  <2> QED
    BY <1>3, <2>1
<1>5. TypeOK'
  <2>1. next' \in 1..(Len(ops') + 1)
    BY <1>1, <1>4, Here
  <2>2. literal_start' \in 0..size' /\ pos' \in 0..(size' + 1)
    BY <1>1, <1>2, Here DEF Typed, TypeOK
  <2>3. /\ sig'.file_size \in Nat /\ target' \in Targets /\ phase' \in {"scan", "stream", "accepted", "refused"}
        /\ base' \in Seq(Byte) /\ out' \in Seq(Byte)
        /\ a' \in 0..(Half * Half - 1) /\ b' \in 0..(Half * Half - 1)
    BY <1>1 DEF Typed, TypeOK
  <2> QED
    BY <2>1, <2>2, <2>3 DEF TypeOK
<1>6. \E f \in Seq(Byte) : sig' = signature_of(f)
  BY <1>1 DEF Typed
<1>7. QED
  BY <1>1, <1>2, <1>3, <1>5, <1>6 DEF Typed

\* The asker's steps leave the sender's half alone.
LEMMA TypedAsker ==
    ASSUME Typed, UNCHANGED <<sig, target, scan>>, phase # "scan", phase' # "scan",
           phase' \in {"scan", "stream", "accepted", "refused"},
           base' \in Seq(Byte), out' \in Seq(Byte), next' \in 1..(Len(ops) + 1)
    PROVE  Typed'
<1>1. UNCHANGED <<sig, target, pos, literal_start, a, b, ops>> /\ size' = size
  BY DEF scan, size
<1>2. TypeOK'
  BY <1>1 DEF Typed, TypeOK
<1>3. QED
  BY <1>1, <1>2 DEF Typed

LEMMA TypedDrift == ASSUME Typed, Drift PROVE Typed'
<1>1. /\ phase = "stream" /\ base # <<>>
      /\ UNCHANGED <<sig, target, scan, phase, out, next>>
  BY DEF Drift
<1>2. base' \in Seq(Byte)
  <2>1. base \in Seq(Byte) /\ Len(base) \in Nat /\ Len(base) >= 1
    BY <1>1, Here
  <2>2. CASE base' = Bytes(base, 0, Len(base) - 1)
    BY <2>1, <2>2, BytesOf
  <2>3. ASSUME NEW v \in Byte, base' = <<v>> \o Tail(base) PROVE base' \in Seq(Byte)
    <3>1. Tail(base) \in Seq(Byte) /\ <<v>> \in Seq(Byte)
      BY <1>1, <2>1
    <3> QED
      BY <2>3, <3>1
  <2> QED
    BY <2>2, <2>3 DEF Drift
<1>3. QED
  BY <1>1, <1>2, Here, TypedAsker

LEMMA TypedReceive == ASSUME Typed, Receive PROVE Typed'
<1> DEFINE op == ops[next]
<1>1. /\ phase = "stream" /\ next <= Len(ops) /\ next' = next + 1
      /\ UNCHANGED <<sig, target, scan, base>>
  BY DEF Receive
<1>2. op \in Op
  <2>1. next \in 1..Len(ops) /\ ops \in Seq(Op)
    BY <1>1, Here
  <2> QED
    BY <2>1
<1>3. next' \in 1..(Len(ops) + 1)
  BY ONLY <1>1, Typed, Numbers
<1>4. CASE op.copy /\ op.offset + op.len > Len(base)
  <2>1. phase' = "refused" /\ out' = out
    BY <1>4 DEF Receive
  <2> QED
    BY <1>1, <1>3, <2>1, Here, TypedAsker
<1>5. CASE ~(op.copy /\ op.offset + op.len > Len(base))
  <2>1. phase' = phase /\ out' = out \o IF op.copy THEN Bytes(base, op.offset, op.offset + op.len) ELSE op.literal
    BY <1>5 DEF Receive
  <2>2. ASSUME op.copy PROVE Bytes(base, op.offset, op.offset + op.len) \in Seq(Byte)
    <3>1. op.offset \in Nat /\ op.len \in Nat /\ Len(base) \in Nat /\ base \in Seq(Byte)
      BY <1>2, <2>2, OpFields, Here
    <3>2. op.offset + op.len \in Nat /\ op.offset <= op.offset + op.len /\ op.offset + op.len <= Len(base)
      BY <1>5, <2>2, <3>1
    <3> QED
      BY <3>1, <3>2, BytesOf
  <2>3. ~op.copy => op.literal \in Seq(Byte)
    BY <1>2, OpFields
  <2>4. (IF op.copy THEN Bytes(base, op.offset, op.offset + op.len) ELSE op.literal) \in Seq(Byte)
    BY <2>2, <2>3
  <2>5. out' \in Seq(Byte)
    BY <2>1, <2>4, Here
  <2>6. base' \in Seq(Byte)
    BY <1>1, Here
  <2>7. phase # "scan" /\ phase' # "scan" /\ phase' \in {"scan", "stream", "accepted", "refused"}
    BY <1>1, <2>1
  <2> QED
    BY <1>1, <1>3, <2>5, <2>6, <2>7, TypedAsker
<1>6. QED
  BY <1>4, <1>5

LEMMA TypedVerify == ASSUME Typed, Verify PROVE Typed'
<1>1. /\ phase = "stream" /\ phase' \in {"accepted", "refused"}
      /\ UNCHANGED <<sig, target, scan, base, out, next>>
  BY DEF Verify, asker
<1>2. base' \in Seq(Byte) /\ out' \in Seq(Byte) /\ next' \in 1..(Len(ops) + 1)
  BY <1>1, Here
<1>3. QED
  BY <1>1, <1>2, TypedAsker

LEMMA TypedNext == ASSUME Typed, [Next]_vars PROVE Typed'
<1>1. CASE UNCHANGED vars
  <2>1. UNCHANGED <<sig, target, pos, literal_start, a, b, ops, phase, base, out, next>>
    BY <1>1 DEF vars, scan, asker
  <2>2. size' = size
    BY <2>1 DEF size
  <2>3. TypeOK'
    BY <2>1, <2>2 DEF Typed, TypeOK
  <2> QED
    BY <2>1, <2>2, <2>3 DEF Typed
<1>2. QED
  BY <1>1, TypedMatch, TypedSlide, TypedFinish, TypedDrift, TypedReceive, TypedVerify DEF Next

LEMMA TypedAlways == Spec => []Typed
<1>1. Init => Typed
  BY TypedInit
<1>2. Typed /\ [Next]_vars => Typed'
  BY TypedNext
<1>3. QED
  BY <1>1, <1>2, PTL DEF Spec

\* Every variable keeps to its type: the sums are 32-bit words, the scan stays inside the
\* file (compute_delta), and what travels next is one of the instructions.
THEOREM TypeCorrect == Spec => []TypeOK
<1>1. Typed => TypeOK
  BY DEF Typed
<1>2. QED
  BY <1>1, TypedAlways, PTL


-----------------------------------------------------------------------------
(* The rolling checksum.                                                   *)

\* The sums kept are those of the window, as far as their low halves can tell.
Exact == Scanning => /\ Congruent(Half, a, Low(Window(pos)))
                     /\ Congruent(Half, b, High(Window(pos)))

LEMMA ExactInit == Init => Exact
<1> SUFFICES ASSUME Init, Scanning PROVE Exact
  BY DEF Exact
<1>1. Typed
  BY TypedInit
<1>2. a = Low(Window(0)) % (Half * Half) /\ b = High(Window(0)) % (Half * Half) /\ pos = 0
  BY DEF Init, Scanning
<1>3. 0 + L <= size /\ 0 \in Nat
  BY <1>2 DEF Scanning
<1>4. Congruent(Half, a, Low(Window(0))) /\ Congruent(Half, b, High(Window(0)))
  BY <1>1, <1>2, <1>3, InitWindowFacts
<1>5. QED
  BY <1>2, <1>4 DEF Exact

LEMMA ExactNext == ASSUME Typed, Exact, [Next]_vars PROVE Exact'
<1>1. CASE Match
  <2>1. target' = target /\ sig' = sig /\ size' = size /\ pos' = pos + L
    BY <1>1 DEF Match, size
  <2> SUFFICES ASSUME Scanning' PROVE Exact'
    BY DEF Exact
  <2>2. pos' + L <= size /\ pos' \in Nat
    <3>1. pos' + L <= size
      BY <2>1 DEF Scanning
    <3> QED
      BY ONLY <2>1, <3>1, Typed, Numbers
  <2>3. a' = Low(Window(pos')) % (Half * Half) /\ b' = High(Window(pos')) % (Half * Half)
    BY <1>1, <2>2 DEF Match, InitWindow
  <2>4. Congruent(Half, a', Low(Window(pos'))) /\ Congruent(Half, b', High(Window(pos')))
    BY <2>2, <2>3, InitWindowFacts
  <2>5. Window(pos)' = Window(pos')
    BY <2>1 DEF Window
  <2> QED
    BY <2>4, <2>5 DEF Exact
<1>2. CASE Slide
  <2>1. target' = target /\ sig' = sig /\ size' = size /\ pos' = pos + 1 /\ Scanning
    BY <1>2 DEF Slide, size
  <2> SUFFICES ASSUME Scanning' PROVE Exact'
    BY DEF Exact
  <2>2. pos + L < size
    <3>1. (pos + 1) + L <= size
      BY <2>1 DEF Scanning
    <3> QED
      BY ONLY <3>1, Typed, Numbers
  <2>3. Congruent(Half, a, Low(Window(pos))) /\ Congruent(Half, b, High(Window(pos)))
    BY <2>1 DEF Exact
  <2>4. Congruent(Half, a', Low(Window(pos + 1))) /\ Congruent(Half, b', High(Window(pos + 1)))
    BY <1>2, <2>2, <2>3, RollFacts DEF Slide
  <2>5. Window(pos)' = Window(pos + 1)
    BY <2>1 DEF Window
  <2> QED
    BY <2>4, <2>5 DEF Exact
<1>3. ASSUME ~Scanning' PROVE Exact'
  BY <1>3 DEF Exact
<1>4. CASE Finish
  BY <1>3, <1>4 DEF Finish, Scanning
<1>5. CASE Drift \/ Receive \/ Verify
  <2>1. phase' # "scan"
    BY <1>5 DEF Drift, Receive, Verify
  <2> QED
    BY <1>3, <2>1 DEF Scanning
<1>6. CASE UNCHANGED vars
  <2>1. UNCHANGED <<sig, target, pos, a, b, phase>>
    BY <1>6 DEF vars, scan
  <2> QED
    BY <2>1 DEF Exact, Scanning, Hopeless, size, Window
<1>7. QED
  BY <1>1, <1>2, <1>4, <1>5, <1>6 DEF Next

LEMMA ExactAlways == Spec => []Exact
<1>1. Init => Exact
  BY ExactInit
<1>2. Typed /\ Exact /\ [Next]_vars => Exact'
  BY ExactNext
<1>3. QED
  BY <1>1, <1>2, TypedAlways, PTL DEF Spec

LEMMA ExactChecksum == ASSUME Exact PROVE RollingIsExact
<1>1. ASSUME Scanning
      PROVE  a % Half = Low(Window(pos)) % Half /\ b % Half = High(Window(pos)) % Half
  BY <1>1 DEF Exact, Congruent
<1>2. QED
  BY <1>1 DEF RollingIsExact, weak_checksum

\* RollingIsExact: whatever the block size, the file and the way the window took over
\* it, the checksum that is looked up (compute_delta) is the one weak_checksum gives the
\* window's bytes, so that a block of the old copy is not missed.
THEOREM ChecksumIsExact == Spec => []RollingIsExact
<1>1. Exact => RollingIsExact
  BY ExactChecksum
<1>2. QED
  BY <1>1, ExactAlways, PTL


-----------------------------------------------------------------------------
(* No known block in a literal.                                            *)

\* No whole block of the old copy has the content w.
Unknown(s, w) == \A i \in DOMAIN s.blocks :
                    i * L + L <= s.file_size => s.blocks[i].strong # w

\* A literal holds no window that is a block.
Clean(s, op) == ~op.copy => \A p \in 0..(Len(op.literal) - L) : Unknown(s, Bytes(op.literal, p, p + L))

\* No window that starts in what will be the next literal is a block, and the
\* literals there are hold none.
Searched == /\ phase = "scan" =>
                  \A p \in literal_start..(pos - 1) : p + L <= size => Unknown(sig, Window(p))
            /\ \A n \in 1..Len(ops) : Clean(sig, ops[n])

\* A window nothing is found for is not a block: the block's checksum is the one that
\* was looked up.
LEMMA NoHitIsUnknown ==
    ASSUME Typed, Exact, Scanning, Hits = {}
    PROVE  Unknown(sig, Window(pos))
<1>1. PICK f \in Seq(Byte) : sig = signature_of(f)
  BY DEF Typed
<1>2. weak_checksum(Window(pos)) = <<a % Half, b % Half>>
  BY ExactChecksum DEF RollingIsExact
<1> SUFFICES ASSUME NEW i \in DOMAIN sig.blocks, i * L + L <= sig.file_size,
                    sig.blocks[i].strong = Window(pos)
             PROVE  FALSE
  BY DEF Unknown
<1>3. sig.blocks[i].weak = weak_checksum(sig.blocks[i].strong)
  BY <1>1, SignatureFacts
<1>4. sig.blocks[i].weak = <<a % Half, b % Half>>
  BY <1>2, <1>3
<1>5. i \in Hits
  BY <1>4 DEF Hits
<1>6. QED
  BY <1>5

\* A literal of searched windows is clean.
LEMMA LiteralIsClean ==
    ASSUME Typed, NEW from \in Nat, NEW to \in Nat, from <= to, to <= size,
           \A p \in from..(to - L) : Unknown(sig, Window(p))
    PROVE  Clean(sig, Literal(Bytes(target, from, to)))
<1> DEFINE lit == Bytes(target, from, to)
<1>1. target \in Seq(Byte) /\ size = Len(target) /\ L \in Nat /\ L >= 1
  BY Here
<1>2. lit \in Seq(Byte) /\ Len(lit) = to - from
  BY <1>1, BytesOf
<1>3. Literal(lit).literal = lit /\ ~Literal(lit).copy
  BY <1>2, MadeOps
<1>4. ASSUME NEW q \in 0..(Len(lit) - L) PROVE Unknown(sig, Bytes(lit, q, q + L))
  <2>1. from + q \in from..(to - L)
    <3> HIDE DEF lit
    <3> QED
      BY <1>1, <1>2, <1>4
  <2>2. /\ from + 1 \in 1..Len(target) /\ to \in 1..Len(target)
        /\ q + 1 \in 1..(to - (from + 1) + 1) /\ q + L \in 1..(to - (from + 1) + 1)
    BY <1>1, <2>1
  <2>3. SubSeq(SubSeq(target, from + 1, to), q + 1, q + L)
          = SubSeq(target, (from + 1) + (q + 1) - 1, (from + 1) + (q + L) - 1)
    BY <1>1, <2>2, SubSeqOfSubSeq
  <2>4. (from + 1) + (q + 1) - 1 = (from + q) + 1 /\ (from + 1) + (q + L) - 1 = (from + q) + L
    BY <1>1, <2>1
  <2>5. Bytes(lit, q, q + L) = Window(from + q)
    BY <2>3, <2>4 DEF Bytes, Window
  <2>6. Unknown(sig, Window(from + q))
    BY <2>1
  <2> QED
    BY <2>5, <2>6
<1>5. QED
  <2> HIDE DEF lit
  <2>1. Clean(sig, Literal(lit))
    BY <1>3, <1>4 DEF Clean
  <2> QED
    BY <2>1 DEF lit

LEMMA CopyIsClean ==
    ASSUME NEW offset \in Nat, NEW len \in Nat
    PROVE  Clean(sig, Copy(offset, len))
BY MadeOps DEF Clean

LEMMA AppendKeepsClean ==
    ASSUME NEW o \in Seq(Op), NEW op \in Op, Clean(sig, op), \A n \in 1..Len(o) : Clean(sig, o[n])
    PROVE  \A n \in 1..Len(Append(o, op)) : Clean(sig, Append(o, op)[n])
<1>1. Len(Append(o, op)) = Len(o) + 1 /\ Len(o) \in Nat
  OBVIOUS
<1>2. \A n \in 1..Len(o) : Append(o, op)[n] = o[n]
  OBVIOUS
<1>3. Append(o, op)[Len(o) + 1] = op
  OBVIOUS
<1> TAKE n \in 1..Len(Append(o, op))
<1>4. n \in 1..Len(o) \/ n = Len(o) + 1
  BY <1>1
<1>5. QED
  BY <1>2, <1>3, <1>4

LEMMA EmitLiteralKeepsClean ==
    ASSUME Typed, NEW o \in Seq(Op), NEW from \in Nat, NEW to \in Nat, from <= to, to <= size,
           \A p \in from..(to - L) : Unknown(sig, Window(p)),
           \A n \in 1..Len(o) : Clean(sig, o[n])
    PROVE  \A n \in 1..Len(EmitLiteral(o, from, to)) : Clean(sig, EmitLiteral(o, from, to)[n])
<1>1. target \in Seq(Byte)
  BY Here
<1>2. CASE from = to
  BY <1>1, <1>2, EmitLiteralCases
<1>3. CASE from # to
  <2> DEFINE op == Literal(Bytes(target, from, to))
  <2>1. EmitLiteral(o, from, to) = Append(o, op)
    BY <1>1, <1>3, EmitLiteralCases
  <2>2. op \in Op
    <3>1. Bytes(target, from, to) \in Seq(Byte)
      BY <1>1, BytesOf DEF size
    <3> QED
      BY <3>1, MadeOps
  <2>3. Clean(sig, op)
    BY LiteralIsClean
  <2> HIDE DEF op
  <2> QED
    BY <2>1, <2>2, <2>3, AppendKeepsClean
<1>4. QED
  BY <1>2, <1>3

LEMMA EmitCopyKeepsClean ==
    ASSUME NEW o \in Seq(Op), NEW offset \in Nat, NEW len \in Nat, \A n \in 1..Len(o) : Clean(sig, o[n])
    PROVE  \A n \in 1..Len(EmitCopy(o, offset, len)) : Clean(sig, EmitCopy(o, offset, len)[n])
<1> DEFINE r == EmitCopy(o, offset, len)
<1>1. CASE r = Append(o, Copy(offset, len))
  <2>1. Copy(offset, len) \in Op /\ Clean(sig, Copy(offset, len))
    BY MadeOps, CopyIsClean
  <2>2. \A n \in 1..Len(Append(o, Copy(offset, len))) : Clean(sig, Append(o, Copy(offset, len))[n])
    BY <2>1, AppendKeepsClean
  <2> QED
    BY <1>1, <2>2
<1>2. CASE Extended(o, r, offset, len)
  <2>1. /\ o # <<>> /\ o[Len(o)].copy /\ Len(r) = Len(o) /\ Len(o) \in Nat
        /\ \A k \in 1..(Len(o) - 1) : r[k] = o[k]
        /\ r[Len(o)] = Copy(o[Len(o)].offset, o[Len(o)].len + len)
    BY <1>2 DEF Extended
  <2>2. o[Len(o)] \in Op
    BY <2>1
  <2>3. o[Len(o)].offset \in Nat /\ o[Len(o)].len + len \in Nat
    BY <2>1, <2>2, OpFields
  <2>4. Clean(sig, r[Len(o)])
    BY <2>1, <2>3, CopyIsClean
  <2> HIDE DEF r
  <2>5. ASSUME NEW n \in 1..Len(r) PROVE Clean(sig, r[n])
    <3>1. CASE n = Len(o)
      BY <2>4, <3>1
    <3>2. CASE n # Len(o)
      <4>1. n \in 1..(Len(o) - 1) /\ n \in 1..Len(o)
        BY <2>1, <3>2
      <4> QED
        BY <2>1, <4>1
    <3> QED
      BY <3>1, <3>2
  <2> QED
    BY <2>5 DEF r
<1>3. QED
  BY <1>1, <1>2, EmitCopyCases

LEMMA SearchedNext == ASSUME Typed, Exact, Searched, [Next]_vars PROVE Searched'
<1>1. CASE Match
  <2>1. /\ sig' = sig /\ target' = target /\ pos' = literal_start' /\ phase = "scan" /\ pos' \in Nat
        /\ pos + L <= size
    <3>1. /\ sig' = sig /\ target' = target /\ pos' = literal_start' /\ phase = "scan"
          /\ pos' = pos + L /\ pos + L <= size
      BY <1>1 DEF Match, Scanning
    <3> QED
      BY ONLY <3>1, Typed, Numbers
  <2>2. PICK i \in Hits : LET o == EmitLiteral(ops, literal_start, pos)
                          IN  /\ i * L \in Nat /\ o \in Seq(Op)
                              /\ ops' = EmitCopy(o, i * L, L)
    BY <1>1, MatchOps
  <2> DEFINE o == EmitLiteral(ops, literal_start, pos)
  <2>3. \A n \in 1..Len(o) : Clean(sig, o[n])
    <3>1. /\ literal_start \in Nat /\ pos \in Nat /\ literal_start <= pos /\ pos <= size
          /\ L \in Nat /\ L >= 1 /\ size \in Nat
      BY <2>1, Here DEF Typed
    <3>2. \A p \in literal_start..(pos - L) : Unknown(sig, Window(p))
      <4> TAKE p \in literal_start..(pos - L)
      <4>1. p \in literal_start..(pos - 1) /\ p + L <= size
        BY <3>1
      <4> QED
        BY <2>1, <4>1 DEF Searched
    <3>3. ops \in Seq(Op) /\ \A n \in 1..Len(ops) : Clean(sig, ops[n])
      BY Here DEF Searched
    <3> QED
      BY <3>1, <3>2, <3>3, EmitLiteralKeepsClean
  <2>4. \A n \in 1..Len(ops') : Clean(sig, ops'[n])
    <3>1. i * L \in Nat /\ L \in Nat /\ o \in Seq(Op) /\ ops' = EmitCopy(o, i * L, L)
      BY <2>2, Here
    <3> HIDE DEF o
    <3> QED
      BY <2>3, <3>1, EmitCopyKeepsClean
  <2>5. \A n \in 1..Len(ops') : Clean(sig', ops'[n])
    BY <2>1, <2>4
  <2>6. \A p \in literal_start'..(pos' - 1) : FALSE
    <3>1. \A x \in Nat : \A p \in x..(x - 1) : FALSE
      OBVIOUS
    <3> QED
      BY ONLY <3>1, <2>1
  <2> QED
    BY <2>5, <2>6 DEF Searched
<1>2. CASE Slide
  <2>1. /\ UNCHANGED <<sig, target, literal_start, ops, phase>> /\ pos' = pos + 1 /\ size' = size
        /\ Scanning /\ Hits = {}
    BY <1>2 DEF Slide, size
  <2>2. Unknown(sig, Window(pos))
    BY <2>1, NoHitIsUnknown
  <2>3. \A n \in 1..Len(ops') : Clean(sig', ops'[n])
    BY <2>1 DEF Searched
  <2>4. ASSUME NEW p \in literal_start'..(pos' - 1), p + L <= size' PROVE Unknown(sig, Window(p))'
    <3>1. pos \in Nat /\ literal_start \in Nat /\ phase = "scan"
      BY <2>1, Here DEF Scanning
    <3>2. p \in literal_start..(pos - 1) \/ p = pos
      BY <2>1, <2>4, <3>1
    <3>3. Unknown(sig, Window(p))
      BY <2>1, <2>2, <2>4, <3>1, <3>2 DEF Searched
    <3>4. Window(p)' = Window(p)
      BY <2>1 DEF Window
    <3> QED
      BY <2>1, <3>3, <3>4
  <2> QED
    BY <2>3, <2>4 DEF Searched
<1>3. CASE Finish
  <2>1. /\ phase = "scan" /\ ~Scanning /\ phase' # "scan" /\ sig' = sig
        /\ ops' = EmitLiteral(ops, literal_start, size)
    BY <1>3 DEF Finish
  <2>2. /\ literal_start \in Nat /\ size \in Nat /\ literal_start <= size /\ size <= size
        /\ ops \in Seq(Op) /\ pos \in Nat /\ L \in Nat /\ L >= 1
    BY Here
  <2>3. ASSUME NEW p \in literal_start..(size - L) PROVE Unknown(sig, Window(p))
    <3>1. p \in Nat /\ p + L <= size
      BY <2>2, <2>3
    <3>2. CASE sig.file_size = 0
      <4>1. PICK f \in Seq(Byte) : sig = signature_of(f)
        BY DEF Typed
      <4>2. DOMAIN sig.blocks = 0..(BlockCount(f) - 1)
        BY <4>1, SignatureFacts
      <4>3. ASSUME NEW i \in DOMAIN sig.blocks PROVE ~(i * L + L <= sig.file_size)
        <5>1. i \in Nat
          BY <4>2
        <5>2. i * L \in Nat
          <6>1. \A x, y \in Nat : x * y \in Nat
            BY SMT
          <6> QED
            BY <2>2, <5>1, <6>1
        <5> QED
          BY <2>2, <3>2, <5>2
      <4> QED
        BY <4>3 DEF Unknown
    <3>3. CASE ~(pos + L <= size)
      <4>1. p \in literal_start..(pos - 1)
        BY <2>2, <3>1, <3>3
      <4> QED
        BY <2>1, <3>1, <4>1 DEF Searched
    <3>4. ~(size < L)
      BY <2>2, <3>1
    <3> QED
      BY <2>1, <3>2, <3>3, <3>4 DEF Scanning, Hopeless
  <2>4. \A n \in 1..Len(ops) : Clean(sig, ops[n])
    BY DEF Searched
  <2>5. \A n \in 1..Len(ops') : Clean(sig, ops'[n])
    BY <2>1, <2>2, <2>3, <2>4, EmitLiteralKeepsClean
  <2>6. \A n \in 1..Len(ops') : Clean(sig', ops'[n])
    BY <2>1, <2>5
  <2> QED
    BY <2>1, <2>6 DEF Searched
<1>4. CASE Drift \/ Receive \/ Verify
  <2>1. sig' = sig /\ ops' = ops /\ phase' # "scan"
    BY <1>4 DEF Drift, Receive, Verify, scan
  <2>2. \A n \in 1..Len(ops') : Clean(sig', ops'[n])
    BY <2>1 DEF Searched
  <2> QED
    BY <2>1, <2>2 DEF Searched
<1>5. CASE UNCHANGED vars
  <2>1. UNCHANGED <<sig, target, pos, literal_start, ops, phase>>
    BY <1>5 DEF vars, scan
  <2>2. \A n \in 1..Len(ops') : Clean(sig', ops'[n])
    BY <2>1 DEF Searched
  <2>3. phase' = "scan" => \A p \in literal_start'..(pos' - 1) : p + L <= size' => Unknown(sig, Window(p))'
    BY <2>1 DEF Searched, size, Window, Unknown
  <2> QED
    BY <2>2, <2>3 DEF Searched
<1>6. QED
  BY <1>1, <1>2, <1>3, <1>4, <1>5 DEF Next

LEMMA SearchedInit == Init => Searched
<1> SUFFICES ASSUME Init PROVE Searched
  OBVIOUS
<1>1. literal_start..(pos - 1) = {} /\ 1..Len(ops) = {}
  BY DEF Init
<1>2. QED
  BY <1>1 DEF Searched

LEMMA SearchedCopies == ASSUME Typed, Searched PROVE KnownBlocksAreCopied
<1>1. PICK f \in Seq(Byte) : sig = signature_of(f)
  BY DEF Typed
<1>2. sig.file_size = Len(f) /\ DOMAIN sig.blocks = 0..(BlockCount(f) - 1)
  BY <1>1, SignatureFacts
<1> SUFFICES ASSUME NEW n \in 1..Len(ops), ~ops[n].copy,
                    NEW i \in 0..(sig.file_size \div L - 1), NEW p \in 0..(Len(ops[n].literal) - L)
             PROVE  Bytes(ops[n].literal, p, p + L) # sig.blocks[i].strong
  BY DEF KnownBlocksAreCopied
<1>3. i \in DOMAIN sig.blocks /\ i * L + L <= sig.file_size
  BY <1>2, WholeBlocks
<1>4. Unknown(sig, Bytes(ops[n].literal, p, p + L))
  BY DEF Searched, Clean
<1>5. QED
  BY <1>3, <1>4 DEF Unknown

\* KnownBlocksAreCopied (delta.h: "send only the bytes that changed"): compute_delta
\* leaves no whole block of the old copy in a literal, wherever in the file it is.
THEOREM NoBlockTravels == Spec => []KnownBlocksAreCopied
<1>1. Init => Searched
  BY SearchedInit
<1>2. Typed /\ Exact /\ Searched /\ [Next]_vars => Searched'
  BY SearchedNext
<1>3. Typed /\ Searched => KnownBlocksAreCopied
  BY SearchedCopies
<1>4. QED
  BY <1>1, <1>2, <1>3, TypedAlways, ExactAlways, PTL DEF Spec


-----------------------------------------------------------------------------
(* What is rebuilt.                                                        *)

\* The instruction stands for the bytes of the target from i to j: a copy, in every
\* file the signature s may be that of.
Piece(s, op, i, j) ==
    /\ i <= j
    /\ ~op.copy => op.literal = Bytes(target, i, j)
    /\ op.copy => /\ op.len = j - i /\ op.offset + op.len <= s.file_size
                  /\ \A f \in Seq(Byte) : signature_of(f) = s =>
                        Bytes(f, op.offset, op.offset + op.len) = Bytes(target, i, j)

\* The instructions o stand for the first e bytes of the target, cut at c.
Divided(o, c, e) ==
    /\ c \in [0..Len(o) -> 0..size] /\ c[0] = 0 /\ c[Len(o)] = e
    /\ \A n \in 1..Len(o) : Piece(sig, o[n], c[n - 1], c[n])

\* As long as the asker's copy is the one it signed, what it has rebuilt is the file
\* up to where the instruction comes from that travels next.
Rebuilt == \E c : /\ Divided(ops, c, literal_start)
                  /\ sig = signature_of(base) => /\ phase # "refused"
                                                 /\ out = Bytes(target, 0, c[next - 1])

LEMMA DivisionAppend ==
    ASSUME Typed, NEW o \in Seq(Op), NEW c, NEW i \in Nat, NEW j \in Nat, j <= size,
           NEW op \in Op, Divided(o, c, i), Piece(sig, op, i, j)
    PROVE  \E d : Divided(Append(o, op), d, j)
<1> DEFINE n == Len(o)
           r == Append(o, op)
           d == [k \in 0..(n + 1) |-> IF k = n + 1 THEN j ELSE c[k]]
<1>1. n \in Nat /\ Len(r) = n + 1 /\ r[n + 1] = op /\ \A k \in 1..n : r[k] = o[k]
  OBVIOUS
<1>2. c \in [0..n -> 0..size] /\ c[0] = 0 /\ c[n] = i /\ \A k \in 1..n : Piece(sig, o[k], c[k - 1], c[k])
  BY DEF Divided
<1>3. size \in Nat
  BY Here
<1> HIDE DEF n, r
<1>4. d \in [0..(n + 1) -> 0..size]
  BY <1>1, <1>2, <1>3
<1>5. d[0] = 0 /\ d[n + 1] = j /\ d[n] = i
  BY <1>1, <1>2
<1>6. ASSUME NEW k \in 1..(n + 1) PROVE Piece(sig, r[k], d[k - 1], d[k])
  <2>1. CASE k = n + 1
    <3>1. k - 1 = n /\ d[k - 1] = i /\ d[k] = j /\ r[k] = op
      BY <1>1, <1>5, <2>1
    <3> HIDE DEF d
    <3> QED
      BY <3>1
  <2>2. CASE k # n + 1
    <3>1. k \in 1..n /\ k - 1 \in 0..(n + 1) /\ k - 1 # n + 1
      BY <1>1, <2>2
    <3>2. d[k] = c[k] /\ d[k - 1] = c[k - 1] /\ r[k] = o[k]
      BY <1>1, <3>1, <2>2
    <3> HIDE DEF d
    <3> QED
      BY <1>2, <3>1, <3>2
  <2> QED
    BY <2>1, <2>2
<1>7. Divided(r, d, j)
  <2> HIDE DEF d
  <2> QED
    BY <1>1, <1>4, <1>5, <1>6 DEF Divided
<1>8. QED
  BY <1>7 DEF r

LEMMA DivisionEmitLiteral ==
    ASSUME Typed, NEW o \in Seq(Op), NEW c, NEW from \in Nat, NEW to \in Nat, from <= to, to <= size,
           Divided(o, c, from)
    PROVE  \E d : Divided(EmitLiteral(o, from, to), d, to)
<1>1. target \in Seq(Byte)
  BY Here
<1>2. CASE from = to
  BY <1>1, <1>2, EmitLiteralCases
<1>3. CASE from # to
  <2> DEFINE bytes == Bytes(target, from, to)
             op == Literal(bytes)
  <2>1. EmitLiteral(o, from, to) = Append(o, op)
    BY <1>1, <1>3, EmitLiteralCases
  <2>2. bytes \in Seq(Byte)
    BY <1>1, BytesOf DEF size
  <2>3. op \in Op /\ ~op.copy /\ op.literal = bytes
    <3> HIDE DEF bytes
    <3> QED
      BY <2>2, MadeOps
  <2>4. Piece(sig, op, from, to)
    BY <2>3 DEF Piece
  <2> HIDE DEF op
  <2> QED
    BY <2>1, <2>3, <2>4, DivisionAppend
<1>4. QED
  BY <1>2, <1>3

\* A block that hits stands for the window.
LEMMA HitIsPiece ==
    ASSUME Typed, Scanning, NEW i \in Hits, NEW f \in Seq(Byte), signature_of(f) = sig, i * L \in Nat
    PROVE  /\ i * L + L <= sig.file_size /\ sig.file_size = Len(f)
           /\ Bytes(f, i * L, i * L + L) = Bytes(target, pos, pos + L)
<1>1. i \in DOMAIN sig.blocks /\ sig.blocks[i].strong = Window(pos) /\ i * L + L <= sig.file_size
  BY DEF Hits
<1>2. /\ sig.file_size = Len(f)
      /\ i * L + L <= Len(f) => sig.blocks[i].strong = Bytes(f, i * L, i * L + L)
  BY <1>1, SignatureFacts
<1>3. QED
  BY <1>1, <1>2 DEF Window

LEMMA DivisionEmitCopy ==
    ASSUME Typed, Scanning, NEW i \in Hits, i * L \in Nat, NEW o \in Seq(Op), NEW c,
           Divided(o, c, pos)
    PROVE  \E d : Divided(EmitCopy(o, i * L, L), d, pos + L)
<1> DEFINE k == i * L
           r == EmitCopy(o, k, L)
           n == Len(o)
<1>1. /\ k \in Nat /\ L \in Nat /\ L >= 1 /\ pos \in Nat /\ pos + L \in Nat /\ pos + L <= size
      /\ target \in Seq(Byte) /\ size = Len(target) /\ size \in Nat
  <2>1. pos + L <= size /\ k \in Nat
    BY DEF Scanning
  <2>2. target \in Seq(Byte) /\ size = Len(target)
    BY Here
  <2> HIDE DEF k
  <2> QED
    BY ONLY <2>1, <2>2, Typed, Numbers
<1>2. PICK f0 \in Seq(Byte) : sig = signature_of(f0)
  BY DEF Typed
<1>3. k + L <= sig.file_size /\ sig.file_size \in Nat
  <2>1. i * L + L <= sig.file_size /\ sig.file_size = Len(f0)
    BY <1>2, HitIsPiece
  <2> QED
    BY <2>1
<1>4. \A f \in Seq(Byte) : signature_of(f) = sig =>
         Len(f) = sig.file_size /\ Bytes(f, k, k + L) = Bytes(target, pos, pos + L)
  BY HitIsPiece
<1> HIDE DEF k
<1>5. CASE r = Append(o, Copy(k, L))
  <2> DEFINE op == Copy(k, L)
  <2>1. op \in Op /\ op.copy /\ op.offset = k /\ op.len = L
    BY <1>1, MadeOps
  <2> HIDE DEF op
  <2>2. op.len = (pos + L) - pos /\ pos <= pos + L
    BY <1>1, <2>1
  <2>3. Piece(sig, op, pos, pos + L)
    BY <1>3, <1>4, <2>1, <2>2 DEF Piece
  <2>4. \E d : Divided(Append(o, op), d, pos + L)
    BY <1>1, <2>1, <2>3, DivisionAppend
  <2> QED
    BY <1>5, <2>4 DEF op, k
<1>6. CASE Extended(o, r, k, L)
  <2> DEFINE last == o[n]
             op == Copy(last.offset, last.len + L)
  <2>1. /\ o # <<>> /\ last.copy /\ last.offset + last.len = k /\ Len(r) = n
        /\ \A m \in 1..(n - 1) : r[m] = o[m]
        /\ r[n] = op
    BY <1>6 DEF Extended
  <2>2. n \in 1..Len(o) /\ n \in Nat /\ n - 1 \in 0..n /\ last \in Op
    BY <2>1
  <2>3. last.offset \in Nat /\ last.len \in Nat
    BY <2>1, <2>2, OpFields
  <2>4. op.copy /\ op.offset = last.offset /\ op.len = last.len + L
    <3>1. last.offset \in Nat /\ last.len + L \in Nat
      <4>1. L \in Nat
        BY <1>1
      <4> QED
        BY ONLY <2>3, <4>1
    <3> DEFINE x == last.offset
               y == last.len + L
    <3>2. Copy(x, y).copy /\ Copy(x, y).offset = x /\ Copy(x, y).len = y
      <4> HIDE DEF x, y
      <4> QED
        BY <3>1, MadeOps DEF x, y
    <3> QED
      BY <3>2
  <2>5. /\ c \in [0..n -> 0..size] /\ c[0] = 0 /\ c[n] = pos
        /\ \A m \in 1..n : Piece(sig, o[m], c[m - 1], c[m])
    BY DEF Divided
  <2> DEFINE s == c[n - 1]
             d == [c EXCEPT ![n] = pos + L]
  <2>6. s \in Nat /\ s <= size
    <3>1. c[n - 1] \in 0..size
      BY <2>2, <2>5
    <3> QED
      BY <1>1, <3>1
  <2>7. Piece(sig, last, s, pos)
    BY <2>2, <2>5
  <2>8. /\ s <= pos /\ last.len = pos - s
        /\ \A f \in Seq(Byte) : signature_of(f) = sig =>
              Bytes(f, last.offset, last.offset + last.len) = Bytes(target, s, pos)
    BY <2>1, <2>7 DEF Piece
  <2> DEFINE u == last.offset
             v == last.len
  <2>9. u \in Nat /\ v \in Nat /\ u + v = k /\ v = pos - s /\ s <= pos
    BY <2>1, <2>3, <2>8
  <2>10. op.copy /\ op.offset = u /\ op.len = v + L
    BY <2>4
  <2>11. u + (v + L) = k + L /\ u <= k /\ k <= k + L /\ k + L \in Nat /\ s <= pos + L
         /\ v + L = (pos + L) - s
    <3>1. k \in Nat /\ L \in Nat /\ pos \in Nat /\ s \in Nat
      BY <1>1, <2>6
    <3> HIDE DEF u, v, s
    <3> QED
      BY ONLY <2>9, <3>1
  <2>12. ASSUME NEW f \in Seq(Byte), signature_of(f) = sig
         PROVE  Bytes(f, u, u + (v + L)) = Bytes(target, s, pos + L)
    <3>1. Bytes(f, u, k) = Bytes(target, s, pos)
      BY <2>8, <2>9, <2>12
    <3>2. Bytes(f, k, k + L) = Bytes(target, pos, pos + L) /\ k + L <= Len(f)
      BY <1>3, <1>4, <2>12
    <3> HIDE DEF u, v, s
    <3>3. Bytes(f, u, k) \o Bytes(f, k, k + L) = Bytes(f, u, k + L)
      <4>1. /\ u \in Nat /\ k \in Nat /\ k + L \in Nat /\ u <= k /\ k <= k + L
            /\ k + L <= Len(f) /\ f \in Seq(Byte)
        BY <1>1, <2>9, <2>11, <3>2
      <4> QED
        BY ONLY <4>1, Adjacent
    <3>4. Bytes(target, s, pos) \o Bytes(target, pos, pos + L) = Bytes(target, s, pos + L)
      <4>1. /\ s \in Nat /\ pos \in Nat /\ pos + L \in Nat /\ s <= pos /\ pos <= pos + L
            /\ pos + L <= Len(target) /\ target \in Seq(Byte)
        BY <1>1, <2>6, <2>8
      <4> QED
        BY ONLY <4>1, Adjacent
    <3> QED
      BY <3>1, <3>2, <3>3, <3>4, <2>11
  <2>13. Piece(sig, op, s, pos + L)
    <3>1. s <= pos + L /\ v + L = (pos + L) - s /\ u + (v + L) <= sig.file_size
      <4> HIDE DEF u, v, s
      <4> QED
        BY <1>3, <2>11
    <3> HIDE DEF u, v, s, op
    <3> QED
      BY <2>10, <2>12, <3>1 DEF Piece
  <2>14. d \in [0..n -> 0..size] /\ d[n] = pos + L /\ \A m \in 0..(n - 1) : d[m] = c[m]
    BY <1>1, <2>2, <2>5
  <2>15. ASSUME NEW m \in 1..n PROVE Piece(sig, r[m], d[m - 1], d[m])
    <3>1. CASE m = n
      <4>1. r[m] = op /\ d[m - 1] = s /\ d[m] = pos + L
        <5>1. m - 1 \in 0..(n - 1)
          BY <2>2, <3>1
        <5> HIDE DEF d, op
        <5> QED
          BY <2>1, <2>14, <3>1, <5>1
      <4> HIDE DEF r, d, op, s
      <4> QED
        BY <2>13, <4>1
    <3>2. CASE m # n
      <4>1. m \in 1..(n - 1) /\ m \in 0..(n - 1) /\ m - 1 \in 0..(n - 1)
        BY <2>2, <3>2
      <4>2. r[m] = o[m] /\ d[m] = c[m] /\ d[m - 1] = c[m - 1]
        <5> HIDE DEF r, d
        <5> QED
          BY <2>1, <2>14, <4>1
      <4> HIDE DEF r, d
      <4> QED
        BY <2>5, <4>1, <4>2
    <3> QED
      BY <3>1, <3>2
  <2>16. d[0] = 0
    <3>1. 0 \in 0..(n - 1)
      BY <2>2
    <3> HIDE DEF d
    <3> QED
      BY <2>5, <2>14, <3>1
  <2>17. Divided(r, d, pos + L)
    <3>1. Len(r) = n
      BY <2>1
    <3> HIDE DEF r, d, n
    <3> QED
      BY <2>14, <2>15, <2>16, <3>1 DEF Divided
  <2> QED
    BY <2>17 DEF k
<1>7. r = Append(o, Copy(k, L)) \/ Extended(o, r, k, L)
  BY <1>1, EmitCopyCases
<1>8. QED
  BY <1>5, <1>6, <1>7


LEMMA RebuiltInit == Init => Rebuilt
<1> SUFFICES ASSUME Init PROVE Rebuilt
  OBVIOUS
<1>1. Typed
  BY TypedInit
<1>2. ops = <<>> /\ literal_start = 0 /\ next = 1 /\ out = <<>> /\ phase = "scan"
  BY DEF Init
<1> DEFINE c == [n \in 0..0 |-> 0]
<1>3. Len(ops) = 0 /\ size \in Nat
  BY <1>1, <1>2, Here
<1>4. c \in [0..Len(ops) -> 0..size] /\ c[0] = 0 /\ c[Len(ops)] = literal_start
  BY <1>2, <1>3
<1>5. Divided(ops, c, literal_start)
  <2> HIDE DEF c
  <2> QED
    BY <1>3, <1>4 DEF Divided
<1>6. out = Bytes(target, 0, c[next - 1])
  <2>1. Bytes(target, 0, 0) = <<>> /\ next - 1 = 0
    BY <1>1, <1>2, Here, WholeFile
  <2> HIDE DEF c
  <2> QED
    BY <1>2, <1>4, <2>1
<1>7. QED
  <2> HIDE DEF c
  <2> QED
    BY <1>2, <1>5, <1>6 DEF Rebuilt

\* While the scan goes on nothing has been rebuilt: any division will do.
LEMMA RebuiltScanning ==
    ASSUME Typed', NEW c, Divided(ops, c, literal_start)', phase' # "refused",
           next' = 1, out' = <<>>
    PROVE  Rebuilt'
<1>1. c[0] = 0
  BY DEF Divided
<1>2. Bytes(target', 0, 0) = <<>>
  <2>1. target' \in Seq(Byte)
    BY DeltaAssumption DEF Typed, TypeOK
  <2> QED
    BY <2>1, WholeFile
<1>3. out' = Bytes(target', 0, c[next' - 1])
  <2>1. next' - 1 = 0
    OBVIOUS
  <2> QED
    BY <1>1, <1>2, <2>1
<1>4. QED
  BY <1>3 DEF Rebuilt

LEMMA RebuiltMatch == ASSUME Typed, Typed', Rebuilt, Match PROVE Rebuilt'
<1>1. /\ phase = "scan" /\ Scanning /\ UNCHANGED <<sig, target, phase, base, out, next>>
      /\ pos' = pos + L /\ literal_start' = pos + L
  BY DEF Match, Scanning, asker
<1>2. PICK c : Divided(ops, c, literal_start)
  BY DEF Rebuilt
<1>3. PICK i \in Hits : LET o == EmitLiteral(ops, literal_start, pos)
                        IN  i * L \in Nat /\ o \in Seq(Op) /\ ops' = EmitCopy(o, i * L, L)
  BY MatchOps
<1> DEFINE o == EmitLiteral(ops, literal_start, pos)
<1>4. PICK d : Divided(o, d, pos)
  <2>1. /\ literal_start \in Nat /\ pos \in Nat /\ literal_start <= pos /\ pos <= size
        /\ ops \in Seq(Op)
    BY <1>1, Here DEF Typed
  <2> QED
    BY <1>2, <2>1, DivisionEmitLiteral
<1>5. PICK e : Divided(EmitCopy(o, i * L, L), e, pos + L)
  <2>1. i * L \in Nat /\ o \in Seq(Op)
    BY <1>3
  <2> HIDE DEF o
  <2> QED
    BY <1>1, <1>4, <2>1, DivisionEmitCopy
<1>6. Divided(ops, e, literal_start)'
  <2>1. Divided(ops', e, literal_start')
    BY <1>1, <1>3, <1>5
  <2> QED
    BY <1>1, <2>1 DEF Divided, Piece, size
<1>7. phase' # "refused" /\ next' = 1 /\ out' = <<>>
  BY <1>1 DEF Typed
<1>8. QED
  BY <1>6, <1>7, RebuiltScanning

LEMMA RebuiltSlide == ASSUME Typed, Typed', Rebuilt, Slide PROVE Rebuilt'
<1>1. UNCHANGED <<sig, target, literal_start, ops, phase, base, out, next>>
  BY DEF Slide, asker
<1>2. QED
  BY <1>1 DEF Rebuilt, Divided, Piece, size

LEMMA RebuiltFinish == ASSUME Typed, Typed', Rebuilt, Finish PROVE Rebuilt'
<1>1. /\ phase = "scan" /\ phase' = "stream" /\ UNCHANGED <<sig, target, base, out, next>>
      /\ ops' = EmitLiteral(ops, literal_start, size) /\ literal_start' = size
  BY DEF Finish, asker
<1>2. PICK c : Divided(ops, c, literal_start)
  BY DEF Rebuilt
<1>3. PICK d : Divided(EmitLiteral(ops, literal_start, size), d, size)
  <2>1. /\ literal_start \in Nat /\ size \in Nat /\ literal_start <= size /\ size <= size
        /\ ops \in Seq(Op)
    BY Here
  <2> QED
    BY <1>2, <2>1, DivisionEmitLiteral
<1>4. Divided(ops, d, literal_start)'
  <2>1. Divided(ops', d, literal_start')
    BY <1>1, <1>3
  <2> QED
    BY <1>1, <2>1 DEF Divided, Piece, size
<1>5. phase' # "refused" /\ next' = 1 /\ out' = <<>>
  BY <1>1 DEF Typed
<1>6. QED
  BY <1>4, <1>5, RebuiltScanning

LEMMA RebuiltDrift == ASSUME Typed, Rebuilt, Drift PROVE Rebuilt'
<1>1. /\ sig = signature_of(base) /\ phase = "stream"
      /\ UNCHANGED <<sig, target, literal_start, ops, phase, out, next>>
  BY DEF Drift, scan
<1>2. PICK c : Divided(ops, c, literal_start) /\ out = Bytes(target, 0, c[next - 1])
  BY <1>1 DEF Rebuilt
<1>3. Divided(ops, c, literal_start)'
  BY <1>1, <1>2 DEF Divided, Piece, size
<1>4. phase' # "refused" /\ out' = Bytes(target', 0, c[next' - 1])
  BY <1>1, <1>2
<1>5. QED
  BY <1>3, <1>4 DEF Rebuilt

LEMMA RebuiltReceive == ASSUME Typed, Rebuilt, Receive PROVE Rebuilt'
<1> DEFINE op == ops[next]
<1>1. /\ phase = "stream" /\ next <= Len(ops) /\ next' = next + 1
      /\ UNCHANGED <<sig, target, literal_start, ops, base>>
  BY DEF Receive, scan
<1>2. PICK c : /\ Divided(ops, c, literal_start)
               /\ sig = signature_of(base) => out = Bytes(target, 0, c[next - 1])
  BY DEF Rebuilt
<1>3. Divided(ops, c, literal_start)'
  BY <1>1, <1>2 DEF Divided, Piece, size
<1>4. CASE sig # signature_of(base)
  <2>1. sig' # signature_of(base)'
    BY <1>1, <1>4 DEF signature_of, BlockCount, BlockAt
  <2> QED
    BY <1>3, <2>1 DEF Rebuilt
<1>5. CASE sig = signature_of(base)
  <2>1. /\ next \in 1..Len(ops) /\ next - 1 \in 0..Len(ops) /\ next \in 0..Len(ops)
        /\ ops \in Seq(Op) /\ base \in Seq(Byte) /\ target \in Seq(Byte)
        /\ size = Len(target) /\ size \in Nat
    <3>1. /\ ops \in Seq(Op) /\ base \in Seq(Byte) /\ target \in Seq(Byte)
          /\ size = Len(target)
      BY Here
    <3>2. next \in 1..Len(ops) /\ next - 1 \in 0..Len(ops) /\ next \in 0..Len(ops) /\ size \in Nat
      BY ONLY <1>1, Typed, Numbers
    <3> QED
      BY ONLY <3>1, <3>2
  <2> DEFINE i == c[next - 1]
             j == c[next]
  <2>2. i \in 0..size /\ j \in 0..size /\ Piece(sig, op, i, j)
    BY <1>2, <2>1 DEF Divided
  <2>3. op \in Op
    BY <2>1
  <2>4. sig.file_size = Len(base)
    BY <1>5, <2>1, SignatureFacts
  <2>5. ASSUME op.copy
        PROVE  /\ ~(op.offset + op.len > Len(base))
               /\ Bytes(base, op.offset, op.offset + op.len) = Bytes(target, i, j)
    <3>1. op.offset \in Nat /\ op.len \in Nat
      BY <2>3, <2>5, OpFields
    <3>2. op.offset + op.len <= sig.file_size
      BY <2>2, <2>5 DEF Piece
    <3>3. Bytes(base, op.offset, op.offset + op.len) = Bytes(target, i, j)
      BY <1>5, <2>1, <2>2, <2>5 DEF Piece
    <3>4. ~(op.offset + op.len > Len(base))
      <4>1. Len(base) \in Nat
        BY <2>1
      <4> QED
        BY ONLY <2>4, <3>1, <3>2, <4>1
    <3> QED
      BY <3>3, <3>4
  <2>6. ~op.copy => op.literal = Bytes(target, i, j)
    BY <2>2 DEF Piece
  <2>7. (IF op.copy THEN Bytes(base, op.offset, op.offset + op.len) ELSE op.literal)
           = Bytes(target, i, j)
    BY <2>5, <2>6
  <2>8. /\ phase' = phase
        /\ out' = out \o (IF op.copy THEN Bytes(base, op.offset, op.offset + op.len) ELSE op.literal)
    BY <2>5 DEF Receive
  <2>9. out = Bytes(target, 0, i)
    BY <1>2, <1>5
  <2>10. Bytes(target, 0, i) \o Bytes(target, i, j) = Bytes(target, 0, j)
    <3>1. /\ i \in Nat /\ j \in Nat /\ 0 \in Nat /\ 0 <= i /\ i <= j /\ j <= Len(target)
          /\ target \in Seq(Byte)
      <4>1. i <= j
        BY <2>2 DEF Piece
      <4> HIDE DEF i, j
      <4> QED
        BY <2>1, <2>2, <4>1
    <3> HIDE DEF i, j
    <3> QED
      BY ONLY <3>1, Adjacent
  <2>11. out' = Bytes(target, 0, j)
    <3> HIDE DEF i, j, op
    <3> QED
      BY <2>7, <2>8, <2>9, <2>10
  <2>12. out' = Bytes(target', 0, c[next' - 1])
    <3>1. next' - 1 = next
      BY <1>1, <2>1
    <3> QED
      BY <1>1, <2>11, <3>1
  <2>13. phase' # "refused"
    BY <1>1, <2>8
  <2> QED
    BY <1>3, <2>12, <2>13 DEF Rebuilt
<1>6. QED
  BY <1>4, <1>5

LEMMA RebuiltVerify == ASSUME Typed, Rebuilt, Verify PROVE Rebuilt'
<1>1. /\ phase = "stream" /\ next > Len(ops) /\ phase' = (IF out = target THEN "accepted" ELSE "refused")
      /\ UNCHANGED <<sig, target, literal_start, ops, base, out, next>>
  BY DEF Verify, scan, asker
<1>2. PICK c : /\ Divided(ops, c, literal_start)
               /\ sig = signature_of(base) => out = Bytes(target, 0, c[next - 1])
  BY DEF Rebuilt
<1>3. Divided(ops, c, literal_start)'
  BY <1>1, <1>2 DEF Divided, Piece, size
<1>4. CASE sig # signature_of(base)
  <2>1. sig' # signature_of(base)'
    BY <1>1, <1>4 DEF signature_of, BlockCount, BlockAt
  <2> QED
    BY <1>3, <2>1 DEF Rebuilt
<1>5. CASE sig = signature_of(base)
  <2>1. next - 1 = Len(ops) /\ literal_start = Len(target) /\ target \in Seq(Byte)
    <3>1. next - 1 = Len(ops)
      BY ONLY <1>1, Typed, Numbers
    <3>2. literal_start = size
      BY <1>1 DEF Typed
    <3>3. target \in Seq(Byte) /\ size = Len(target)
      BY Here
    <3> QED
      BY ONLY <3>1, <3>2, <3>3
  <2>2. c[next - 1] = Len(target)
    BY <1>2, <2>1 DEF Divided
  <2>3. out = target
    BY <1>2, <1>5, <2>1, <2>2, WholeFile
  <2>4. phase' # "refused" /\ out' = Bytes(target', 0, c[next' - 1])
    BY <1>1, <1>2, <1>5, <2>3
  <2> QED
    BY <1>3, <2>4 DEF Rebuilt
<1>6. QED
  BY <1>4, <1>5

LEMMA RebuiltNext == ASSUME Typed, Typed', Rebuilt, [Next]_vars PROVE Rebuilt'
<1>1. CASE UNCHANGED vars
  <2>1. UNCHANGED <<sig, target, literal_start, ops, phase, base, out, next>>
    BY <1>1 DEF vars, scan, asker
  <2> QED
    BY <2>1 DEF Rebuilt, Divided, Piece, size
<1>2. QED
  BY <1>1, RebuiltMatch, RebuiltSlide, RebuiltFinish, RebuiltDrift, RebuiltReceive, RebuiltVerify
     DEF Next

\* NoNeedlessRetry (delta.h: "apply(base, compute_delta(signature(base), target)) ==
\* target"): the digest handle_file_end compares, and the bounds handle_file_copy checks,
\* hold whenever the old copy is still the one that was signed.
THEOREM DeltaRebuilds == Spec => []NoNeedlessRetry
<1>1. Init => Rebuilt
  BY RebuiltInit
<1>2. Typed /\ Typed' /\ Rebuilt /\ [Next]_vars => Rebuilt'
  BY RebuiltNext
<1>3. Rebuilt => NoNeedlessRetry
  BY DEF Rebuilt, NoNeedlessRetry
<1>4. QED
  BY <1>1, <1>2, <1>3, TypedAlways, PTL DEF Spec
=============================================================================
