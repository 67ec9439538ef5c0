---------------------------- MODULE LoopsProofs ----------------------------
(***************************************************************************)
(* The facts every proof about a loop rests on: induction over a SET of    *)
(* naturals (a loop invariant is the set of iteration counts at which it   *)
(* holds), the unfolding of Iterate, powers of two and division by them.   *)
(***************************************************************************)
EXTENDS Loops, Integers, FiniteSets, FiniteSetTheorems, WellFoundedInduction, TLAPS

\* Induction: a set that holds 0 and is closed under successor holds Nat.
LEMMA NatSetInduction ==
  ASSUME NEW S, 0 \in S, \A n \in Nat : n \in S => n + 1 \in S
  PROVE  Nat \subseteq S
<1> DEFINE R == {ss \in Nat \X Nat : ss[1] < ss[2]}
<1> DEFINE B == Nat \ S
<1>1. IsWellFoundedOn(R, Nat)
  BY NatLessThanWellFounded DEF OpToRel
<1> HIDE DEF R
<1>2. SUFFICES ASSUME B # {} PROVE FALSE
  OBVIOUS
<1>3. PICK x \in B : \A y \in B : ~(<<y, x>> \in R)
  <2>1. B \subseteq Nat
    OBVIOUS
  <2> HIDE DEF B
  <2> QED
    BY <1>1, <1>2, <2>1, WFMin
<1>4. x # 0 /\ x \in Nat
  OBVIOUS
<1>5. x - 1 \in Nat /\ x - 1 < x /\ (x - 1) + 1 = x
  BY <1>4
<1>6. x - 1 \in S
  BY <1>3, <1>5 DEF R
<1> QED
  BY <1>5, <1>6

-----------------------------------------------------------------------------
(* Loops.                                                                  *)

\* h is the iteration of F from s, as far as its k-th step.
Unfolded(F, s, h, k) ==
  /\ DOMAIN h = 0..k /\ h[0] = s
  /\ \A i \in 0..(k - 1) : h[i + 1] = F[h[i]]

\* A prefix of the iteration exists for every length.
LEMMA IteratePrefix ==
  ASSUME NEW F, NEW s, NEW n \in Nat
  PROVE  \E h : Unfolded(F, s, h, n)
<1> DEFINE S == {k \in Nat : \E h : Unfolded(F, s, h, k)}
<1>1. 0 \in S
  <2>1. Unfolded(F, s, [i \in 0..0 |-> s], 0)
    BY DEF Unfolded
  <2> QED
    BY <2>1
<1>2. ASSUME NEW k \in Nat, k \in S PROVE k + 1 \in S
  <2>1. PICK h : Unfolded(F, s, h, k)
    BY <1>2
  <2> DEFINE g == [i \in 0..(k + 1) |-> IF i = k + 1 THEN F[h[k]] ELSE h[i]]
  <2>2. DOMAIN g = 0..(k + 1) /\ g[0] = s
    BY <2>1 DEF Unfolded
  <2>3. ASSUME NEW i \in 0..((k + 1) - 1) PROVE g[i + 1] = F[g[i]]
    <3>1. CASE i = k
      BY <3>1
    <3>2. CASE i # k
      <4>1. i \in 0..(k - 1) /\ i + 1 \in 0..k /\ i + 1 # k + 1
        BY <3>2
      <4> QED
        BY <4>1, <2>1 DEF Unfolded
    <3> QED
      BY <3>1, <3>2
  <2> HIDE DEF g
  <2>4. Unfolded(F, s, g, k + 1)
    BY <2>2, <2>3 DEF Unfolded
  <2> QED
    BY <2>4
<1> HIDE DEF S
<1>3. Nat \subseteq S
  BY <1>1, <1>2, NatSetInduction
<1> QED
  BY <1>3 DEF S

\* Two prefixes agree on the steps both have.
LEMMA PrefixUnique ==
  ASSUME NEW F, NEW s, NEW m \in Nat, NEW n \in Nat, NEW g, NEW h,
         Unfolded(F, s, g, m), Unfolded(F, s, h, n)
  PROVE  \A i \in Nat : i <= m /\ i <= n => g[i] = h[i]
<1> DEFINE S == {i \in Nat : i <= m /\ i <= n => g[i] = h[i]}
<1>1. 0 \in S
  BY DEF Unfolded
<1>2. ASSUME NEW i \in Nat, i \in S PROVE i + 1 \in S
  <2> SUFFICES ASSUME i + 1 <= m, i + 1 <= n PROVE g[i + 1] = h[i + 1]
    OBVIOUS
  <2>1. i \in 0..(m - 1) /\ i \in 0..(n - 1)
    OBVIOUS
  <2>2. g[i] = h[i]
    BY <1>2
  <2> QED
    BY <2>1, <2>2 DEF Unfolded
<1> HIDE DEF S
<1>3. Nat \subseteq S
  BY <1>1, <1>2, NatSetInduction
<1> QED
  BY <1>3 DEF S

\* The iteration starts at s and each step applies the body.
LEMMA IterateStep ==
  ASSUME NEW F, NEW s
  PROVE  /\ Iterate(F, s)[0] = s
         /\ \A n \in Nat : Iterate(F, s)[n + 1] = F[Iterate(F, s)[n]]
<1> DEFINE pre == [k \in Nat |-> CHOOSE h : Unfolded(F, s, h, k)]
           f == [k \in Nat |-> pre[k][k]]
           Unfolds(g) == g = [n \in Nat |-> IF n = 0 THEN s ELSE F[g[n - 1]]]
<1>1. \A k \in Nat : Unfolded(F, s, pre[k], k)
  <2> TAKE k \in Nat
  <2>1. \E h : Unfolded(F, s, h, k)
    BY IteratePrefix
  <2> QED
    BY <2>1
<1> HIDE DEF pre
<1>2. ASSUME NEW n \in Nat PROVE f[n] = IF n = 0 THEN s ELSE F[f[n - 1]]
  <2>1. CASE n = 0
    BY <2>1, <1>1 DEF Unfolded
  <2>2. CASE n # 0
    <3>1. n - 1 \in Nat /\ n - 1 \in 0..(n - 1) /\ (n - 1) + 1 = n
      BY <2>2
    <3>2. pre[n][n] = F[pre[n][n - 1]]
      BY <1>1, <3>1 DEF Unfolded
    <3>3. pre[n][n - 1] = pre[n - 1][n - 1]
      <4>1. Unfolded(F, s, pre[n], n) /\ Unfolded(F, s, pre[n - 1], n - 1)
        BY <1>1, <3>1
      <4> DEFINE m == n - 1
                 g == pre[n]
                 h == pre[m]
      <4>2. m \in Nat /\ m <= n /\ Unfolded(F, s, g, n) /\ Unfolded(F, s, h, m)
        BY <4>1, <3>1
      <4> HIDE DEF m, g, h
      <4>3. \A i \in Nat : i <= n /\ i <= m => g[i] = h[i]
        BY <4>2, PrefixUnique
      <4> QED
        BY <4>2, <4>3 DEF m, g, h
    <3> QED
      BY <2>2, <3>1, <3>2, <3>3
  <2> QED
    BY <2>1, <2>2
<1>3. Unfolds(f)
  <2> HIDE DEF f
  <2>1. f = [n \in Nat |-> f[n]]
    BY DEF f
  <2>2. [n \in Nat |-> f[n]] = [n \in Nat |-> IF n = 0 THEN s ELSE F[f[n - 1]]]
    BY <1>2
  <2> QED
    BY <2>1, <2>2
<1> HIDE DEF f
<1>4. Iterate(F, s) = CHOOSE g : Unfolds(g)
  BY DEF Iterate
<1> DEFINE it == CHOOSE g : Unfolds(g)
<1>5. Unfolds(it)
  BY <1>3
<1> HIDE DEF it
<1>6. it[0] = s /\ \A n \in Nat : it[n + 1] = F[it[n]]
  BY <1>5
<1> QED
  BY <1>4, <1>6 DEF it

-----------------------------------------------------------------------------
(* Powers of two.                                                          *)

LEMMA PowerZero == 2^0 = 1
OBVIOUS

\* The subsets of A \cup {x}: those without x, and those with it.
LEMMA PowersetGrows ==
  ASSUME NEW A, IsFiniteSet(A), NEW x, x \notin A
  PROVE  Cardinality(SUBSET (A \cup {x})) = 2 * Cardinality(SUBSET A)
<1> DEFINE P == SUBSET A
           With == {a \cup {x} : a \in SUBSET A}
           b == [a \in SUBSET A |-> a \cup {x}]
<1>1. IsFiniteSet(P)
  BY FS_SUBSET
<1>2. b \in Bijection(P, With)
  <2>1. b \in [P -> With]
    OBVIOUS
  <2>2. \A u, v \in P : b[u] = b[v] => u = v
    <3> SUFFICES ASSUME NEW u \in P, NEW v \in P, u \cup {x} = v \cup {x} PROVE u = v
      OBVIOUS
    <3> QED
      OBVIOUS
  <2>3. \A w \in With : \E u \in P : b[u] = w
    OBVIOUS
  <2> HIDE DEF P, With, b
  <2> QED
    BY <2>1, <2>2, <2>3 DEF Bijection, Injection, Surjection, IsInjective
<1>3. SUBSET (A \cup {x}) = P \cup With
  <2>1. ASSUME NEW u \in SUBSET (A \cup {x}) PROVE u \in P \cup With
    <3>1. CASE x \in u
      <4>1. u \ {x} \in SUBSET A /\ u = (u \ {x}) \cup {x}
        BY <3>1
      <4> QED
        BY <4>1
    <3>2. CASE x \notin u
      BY <3>2
    <3> QED
      BY <3>1, <3>2
  <2>2. ASSUME NEW u \in P \cup With PROVE u \in SUBSET (A \cup {x})
    OBVIOUS
  <2> HIDE DEF P, With
  <2> QED
    BY <2>1, <2>2
<1>4. P \cap With = {}
  OBVIOUS
<1> HIDE DEF P, With, b
<1>5. IsFiniteSet(With) /\ Cardinality(With) = Cardinality(P)
  BY <1>1, <1>2, FS_Bijection DEF ExistsBijection
<1>6. Cardinality(P \cup With) = Cardinality(P) + Cardinality(With) - Cardinality(P \cap With)
  BY <1>1, <1>5, FS_Union
<1>7. Cardinality(P \cap With) = 0
  BY <1>4, FS_EmptySet
<1>8. Cardinality(P) \in Nat
  BY <1>1, FS_CardinalityType
<1>9. Cardinality(P \cup With) = 2 * Cardinality(P)
  BY <1>5, <1>6, <1>7, <1>8
<1> QED
  BY <1>3, <1>9 DEF P

LEMMA PowerStep ==
  ASSUME NEW n \in Nat
  PROVE  2^n \in Nat /\ 2^(n + 1) = 2 * 2^n
<1>1. ASSUME NEW k \in Nat PROVE /\ IsFiniteSet(1..k) /\ Cardinality(1..k) = k
                                /\ Cardinality(SUBSET (1..k)) = 2^k
                                /\ Cardinality(SUBSET (1..k)) \in Nat
  <2>1. IsFiniteSet(1..k) /\ Cardinality(1..k) = k
    BY FS_Interval
  <2> QED
    BY <2>1, FS_SUBSET, FS_CardinalityType
<1>2. 1..(n + 1) = (1..n) \cup {n + 1} /\ n + 1 \notin 1..n
  OBVIOUS
<1>3. Cardinality(SUBSET (1..(n + 1))) = 2 * Cardinality(SUBSET (1..n))
  BY <1>1, <1>2, PowersetGrows
<1>4. Cardinality(SUBSET (1..n)) = 2^n /\ Cardinality(SUBSET (1..n)) \in Nat
  BY <1>1
<1>5. Cardinality(SUBSET (1..(n + 1))) = 2^(n + 1)
  <2>1. n + 1 \in Nat
    OBVIOUS
  <2> QED
    BY <1>1, <2>1
<1>6. 2^n \in Nat
  BY <1>4, Zenon
<1> QED
  BY <1>3, <1>4, <1>5, <1>6, Zenon

LEMMA PowerPositive ==
  ASSUME NEW n \in Nat
  PROVE  2^n \in Nat /\ n < 2^n
<1> DEFINE S == {k \in Nat : k < 2^k}
<1>1. 0 \in S
  BY PowerZero
<1>2. ASSUME NEW k \in Nat, k \in S PROVE k + 1 \in S
  BY <1>2, PowerStep
<1> HIDE DEF S
<1>3. Nat \subseteq S
  BY <1>1, <1>2, NatSetInduction
<1> QED
  BY <1>3, PowerStep DEF S

LEMMA PowerSum ==
  ASSUME NEW m \in Nat, NEW n \in Nat
  PROVE  2^(m + n) = 2^m * 2^n
<1> DEFINE S == {k \in Nat : 2^(m + k) = 2^m * 2^k}
<1>1. 0 \in S
  BY PowerZero, PowerPositive
<1>2. ASSUME NEW k \in Nat, k \in S PROVE k + 1 \in S
  <2>1. 2^(m + (k + 1)) = 2 * 2^(m + k)
    <3>1. m + (k + 1) = (m + k) + 1 /\ m + k \in Nat
      OBVIOUS
    <3> QED
      BY <3>1, PowerStep
  <2>2. 2^(k + 1) = 2 * 2^k /\ 2^k \in Nat /\ 2^m \in Nat
    BY PowerStep
  <2>3. 2^(m + k) = 2^m * 2^k
    BY <1>2
  <2>4. \A a, b \in Nat : 2 * (a * b) = a * (2 * b)
    OBVIOUS
  <2> QED
    BY <2>1, <2>2, <2>3, <2>4
<1> HIDE DEF S
<1>3. Nat \subseteq S
  BY <1>1, <1>2, NatSetInduction
<1> QED
  BY <1>3 DEF S

LEMMA PowerMonotone ==
  ASSUME NEW m \in Nat, NEW n \in Nat, m <= n
  PROVE  2^m <= 2^n
<1>1. n - m \in Nat /\ n = m + (n - m)
  OBVIOUS
<1>2. 2^n = 2^m * 2^(n - m)
  BY <1>1, PowerSum
<1>3. 2^m \in Nat /\ 2^(n - m) \in Nat /\ 2^(n - m) >= 1
  BY <1>1, PowerPositive
<1>4. \A a, b \in Nat : b >= 1 => a <= a * b
  OBVIOUS
<1> QED
  BY <1>2, <1>3, <1>4

-----------------------------------------------------------------------------
(* Division.                                                               *)

LEMMA DivProps ==
  ASSUME NEW x \in Nat, NEW q \in Nat, q > 0
  PROVE  /\ x \div q \in Nat /\ x % q \in 0..(q - 1)
         /\ x = q * (x \div q) + (x % q)
         /\ q * (x \div q) <= x /\ x < q * (x \div q) + q
OBVIOUS

LEMMA DivUnique ==
  ASSUME NEW x \in Nat, NEW q \in Nat, q > 0, NEW y \in Nat, q * y <= x, x < q * y + q
  PROVE  x \div q = y
<1>1. /\ x \div q \in Nat /\ q * (x \div q) <= x /\ x < q * (x \div q) + q
  BY DivProps
<1>2. \A a, b \in Nat : q * a < q * b + q => a <= b
  <2> SUFFICES ASSUME NEW a \in Nat, NEW b \in Nat, a >= b + 1 PROVE q * a >= q * b + q
    OBVIOUS
  <2>1. q * a >= q * (b + 1)
    <3>1. PICK c \in Nat : a = (b + 1) + c
      <4>1. a - (b + 1) \in Nat /\ a = (b + 1) + (a - (b + 1))
        OBVIOUS
      <4> QED
        BY <4>1
    <3>2. q * a = q * (b + 1) + q * c /\ q * c \in Nat /\ q * (b + 1) \in Nat
      BY <3>1
    <3> QED
      BY <3>2
  <2>2. q * (b + 1) = q * b + q
    OBVIOUS
  <2> QED
    BY <2>1, <2>2
<1> DEFINE z == x \div q
<1>3. q * z < q * y + q /\ q * y < q * z + q
  <2>1. q * z \in Nat /\ q * y \in Nat
    BY <1>1
  <2> QED
    BY <1>1, <2>1
<1>4. z \in Nat
  BY <1>1
<1> HIDE DEF z
<1>5. z <= y /\ y <= z
  BY <1>2, <1>3, <1>4
<1> QED
  BY <1>4, <1>5 DEF z

\* Shifting right by k + 1 drops one bit more than shifting by k.
LEMMA ShiftStep ==
  ASSUME NEW x \in Nat, NEW k \in Nat
  PROVE  /\ x \div 2^k = 2 * (x \div 2^(k + 1)) + BitAt(x, k)
         /\ BitAt(x, k) \in {0, 1}
         /\ x \div 2^k \in Nat
<1> DEFINE q == 2^k
           y == x \div q
<1>1. q \in Nat /\ q > 0 /\ 2^(k + 1) = 2 * q
  BY PowerPositive, PowerStep
<1>2. y \in Nat /\ q * y <= x /\ x < q * y + q
  BY <1>1, DivProps
<1>3. BitAt(x, k) = y % 2
  BY DEF BitAt
<1> HIDE DEF q, y
<1>4. PICK z \in Nat, b \in {0, 1} : y = 2 * z + b /\ b = y % 2
  <2>1. y \div 2 \in Nat /\ y % 2 \in {0, 1} /\ y = 2 * (y \div 2) + (y % 2)
    BY <1>2
  <2> QED
    BY <2>1
<1>5. x \div (2 * q) = z
  <2>1. q * y = (2 * q) * z + q * b /\ q * b \in {0, q}
    BY <1>1, <1>4
  <2>2. (2 * q) * z \in Nat /\ q * b \in Nat /\ 2 * q \in Nat /\ 2 * q > 0
    BY <1>1, <1>4
  <2>3. (2 * q) * z <= x /\ x < (2 * q) * z + (2 * q)
    BY <1>1, <1>2, <2>1, <2>2
  <2> QED
    BY <2>2, <2>3, DivUnique
<1> QED
  BY <1>1, <1>2, <1>3, <1>4, <1>5 DEF q, y
=============================================================================
