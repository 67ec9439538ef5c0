----------------------------- MODULE BavcProofs -----------------------------
(***************************************************************************)
(* The vector commitment and the VOLE conversion, for all parameters the   *)
(* library accepts: where the leaves lie, what the walks up and down the   *)
(* tree mark and reveal, what an opening lets the verifier rebuild, and    *)
(* what the butterfly makes of the seeds of the two sides.                 *)
(***************************************************************************)
EXTENDS Bavc, LoopsProofs, SequenceTheorems, FunctionTheorems

-----------------------------------------------------------------------------
(* Parameters and leaves.                                                  *)

\* With h = 2^(k-1), the tau1 long vectors have 2h leaves, the others h.
LEMMA ParamFacts ==
  ASSUME NEW p, Legal(p)
  PROVE  /\ p.lambda \in Nat /\ p.w \in 0..(p.lambda - 1) /\ p.T \in Nat /\ p.T > 0
         /\ p.tau \in Nat /\ p.tau > 0 /\ p.k \in Nat /\ p.k > 0
         /\ p.tau1 \in 0..(p.tau - 1)
         /\ 2^(p.k - 1) \in Nat /\ 2^(p.k - 1) > 0 /\ 2^p.k = 2 * 2^(p.k - 1)
         /\ p.L \in Nat /\ p.L > 0
         /\ p.L = p.tau * 2^(p.k - 1) + p.tau1 * 2^(p.k - 1)
         /\ p.lambda - p.w = p.tau * (p.k - 1) + p.tau1
<1> DEFINE e == p.lambda - p.w
           q == e \div p.tau
           h == 2^q
<1>1. /\ p.lambda \in Lambdas /\ p.tau \in 1..32 /\ p.w \in 0..(p.lambda - 1)
      /\ p.T \in Nat \ {0}
  BY DEF Legal, Acceptable
<1>2. /\ p.k = q + 1 /\ p.tau1 = e % p.tau
      /\ p.L = p.tau1 * 2^p.k + (p.tau - p.tau1) * 2^(p.k - 1)
  BY DEF Legal, ParamsInit
<1>3. p.lambda \in Nat
  BY <1>1, LambdaAssumption
<1>4. e \in Nat /\ p.tau \in Nat /\ p.tau > 0
  BY <1>1, <1>3
<1>5. q \in Nat /\ p.tau1 \in 0..(p.tau - 1) /\ e = p.tau * q + p.tau1
  BY <1>2, <1>4, DivProps
<1> HIDE DEF e, q
<1>6. p.k - 1 = q /\ p.k \in Nat /\ p.k > 0
  BY <1>2, <1>5
<1>7. h \in Nat /\ h > 0 /\ 2^p.k = 2 * h
  BY <1>2, <1>5, PowerPositive, PowerStep
<1> HIDE DEF h
<1>8. 2^(p.k - 1) = h
  BY <1>6 DEF h
<1>9. p.L = p.tau1 * (2 * h) + (p.tau - p.tau1) * h
  BY <1>2, <1>7, <1>8
<1>10. p.L = p.tau * h + p.tau1 * h
  <2>1. PICK d \in Nat : p.tau = p.tau1 + d
    <3>1. p.tau - p.tau1 \in Nat /\ p.tau = p.tau1 + (p.tau - p.tau1)
      BY <1>4, <1>5
    <3> QED
      BY <3>1
  <2>2. p.tau - p.tau1 = d
    BY <1>4, <1>5, <2>1
  <2>3. p.tau1 * (2 * h) = p.tau1 * h + p.tau1 * h /\ (p.tau1 + d) * h = p.tau1 * h + d * h
    BY <1>5, <1>7, <2>1
  <2>4. p.L = p.tau1 * h + p.tau1 * h + d * h /\ p.tau * h = p.tau1 * h + d * h
    BY <1>9, <2>1, <2>2, <2>3
  <2>5. p.tau1 * h \in Nat /\ d * h \in Nat
    BY <1>5, <1>7, <2>1
  <2> QED
    BY <2>4, <2>5
<1>11. p.tau * h \in Nat /\ p.tau1 * h \in Nat /\ p.tau * h >= 1
  <2>1. p.tau * h = h + (p.tau - 1) * h
    BY <1>4, <1>7
  <2>2. (p.tau - 1) * h \in Nat
    BY <1>4, <1>7
  <2>3. p.tau1 * h \in Nat
    BY <1>5, <1>7
  <2> QED
    BY <1>7, <2>1, <2>2, <2>3
<1>12. p.L \in Nat /\ p.L > 0
  BY <1>10, <1>11
<1>13. p.lambda - p.w = p.tau * (p.k - 1) + p.tau1
  BY <1>5, <1>6 DEF e
<1> QED
  BY <1>1, <1>3, <1>4, <1>5, <1>6, <1>7, <1>8, <1>10, <1>12, <1>13

\* i + n * j tells i < n and j.
LEMMA DigitsUnique ==
  ASSUME NEW n \in Nat, n > 0, NEW i \in 0..(n - 1), NEW j \in Nat,
         NEW a \in 0..(n - 1), NEW b \in Nat, n * j + i = n * b + a
  PROVE  i = a /\ j = b
<1>1. n * j \in Nat /\ n * b \in Nat
  OBVIOUS
<1>2. (n * j + i) \div n = j
  <2>1. n * j + i \in Nat /\ n * j <= n * j + i /\ n * j + i < n * j + n
    BY <1>1
  <2> QED
    BY <2>1, DivUnique
<1>3. (n * b + a) \div n = b
  <2>1. n * b + a \in Nat /\ n * b <= n * b + a /\ n * b + a < n * b + n
    BY <1>1
  <2> QED
    BY <2>1, DivUnique
<1>4. j = b
  BY <1>2, <1>3
<1> QED
  BY <1>1, <1>4

\* A position of the lower half, or one of the upper half of a long vector.
LEMMA PositionCases ==
  ASSUME NEW p, Legal(p), NEW i \in Vectors(p), NEW j \in Positions(p, i)
  PROVE  LET h == 2^(p.k - 1) IN
         /\ i \in Nat /\ j \in Nat /\ i < p.tau
         /\ \/ j < h /\ PosInTree(p, i, j) = (p.L - 1) + (p.tau * j + i)
            \/ /\ i < p.tau1 /\ j >= h /\ j - h < h
               /\ PosInTree(p, i, j) = (p.L - 1) + (p.tau * h + (p.tau1 * (j - h) + i))
<1> DEFINE h == 2^(p.k - 1)
<1>1. /\ p.tau \in Nat /\ p.tau > 0 /\ p.tau1 \in 0..(p.tau - 1) /\ h \in Nat /\ h > 0
      /\ 2^p.k = 2 * h /\ p.L \in Nat /\ p.L > 0
  BY ParamFacts
<1>2. i \in Nat /\ i < p.tau
  BY <1>1 DEF Vectors
<1>3. j \in Nat /\ j < (IF i < p.tau1 THEN 2 * h ELSE h)
  BY <1>1, <1>2 DEF Positions, VcN
<1>4. PosInTree(p, i, j) =
        IF j < h THEN p.L - 1 + p.tau * j + i
        ELSE p.L - 1 + p.tau * h + p.tau1 * (j % h) + i
  BY DEF PosInTree
<1> HIDE DEF h
<1>5. CASE j < h
  <2>1. p.tau * j \in Nat
    BY <1>1, <1>3
  <2>2. PosInTree(p, i, j) = (p.L - 1) + (p.tau * j + i)
    BY <1>1, <1>2, <1>4, <1>5, <2>1
  <2> QED
    BY <1>2, <1>3, <1>5, <2>2 DEF h
<1>6. CASE ~ (j < h)
  <2>1. i < p.tau1 /\ j >= h /\ j - h < h /\ j - h \in Nat
    BY <1>1, <1>2, <1>3, <1>6
  <2>2. j % h = j - h
    <3> DEFINE r == j - h
    <3>1. r \in Nat /\ r < h /\ j = r + h
      BY <1>1, <1>3, <2>1
    <3>2. h * 1 = h
      BY <1>1
    <3>3. j \div h = 1
      BY <1>1, <1>3, <3>1, <3>2, DivUnique
    <3>4. j = h * (j \div h) + (j % h) /\ j % h \in 0..(h - 1)
      BY <1>1, <1>3, DivProps
    <3> QED
      BY <1>1, <3>1, <3>2, <3>3, <3>4
  <2>3. p.tau * h \in Nat /\ p.tau1 * (j - h) \in Nat
    BY <1>1, <2>1
  <2>4. PosInTree(p, i, j) = p.L - 1 + p.tau * h + p.tau1 * (j - h) + i
    BY <1>4, <1>6, <2>2
  <2>5. PosInTree(p, i, j) = (p.L - 1) + (p.tau * h + (p.tau1 * (j - h) + i))
    BY <1>1, <1>2, <2>3, <2>4
  <2> QED
    BY <1>2, <1>3, <2>1, <2>5 DEF h
<1> QED
  BY <1>5, <1>6

\* The last place of n rows of m.
LEMMA DigitsBound ==
  ASSUME NEW n \in Nat, NEW m \in Nat, NEW i \in Nat, NEW j \in Nat, i < n, j < m
  PROVE  n * j + i \in Nat /\ n * j + i < n * m
<1>1. PICK d \in Nat : m = (j + 1) + d
  <2>1. m - (j + 1) \in Nat /\ m = (j + 1) + (m - (j + 1))
    OBVIOUS
  <2> QED
    BY <2>1
<1>2. n * m = n * j + n + n * d
  <2>1. n * ((j + 1) + d) = n * j + n + n * d
    OBVIOUS
  <2> QED
    BY <1>1, <2>1
<1>3. n * j \in Nat /\ n * d \in Nat
  BY <1>1
<1> QED
  BY <1>2, <1>3

\* Every position of every vector is a leaf of the tree.
LEMMA PosIsLeaf ==
  ASSUME NEW p, Legal(p), NEW i \in Vectors(p), NEW j \in Positions(p, i)
  PROVE  PosInTree(p, i, j) \in (p.L - 1)..(2 * p.L - 2)
<1> DEFINE h == 2^(p.k - 1)
<1>1. /\ p.tau \in Nat /\ p.tau > 0 /\ p.tau1 \in 0..(p.tau - 1) /\ h \in Nat /\ h > 0
      /\ p.L \in Nat /\ p.L > 0 /\ p.L = p.tau * h + p.tau1 * h
  BY ParamFacts
<1>2. /\ i \in Nat /\ j \in Nat /\ i < p.tau
      /\ \/ j < h /\ PosInTree(p, i, j) = (p.L - 1) + (p.tau * j + i)
         \/ /\ i < p.tau1 /\ j >= h /\ j - h < h
            /\ PosInTree(p, i, j) = (p.L - 1) + (p.tau * h + (p.tau1 * (j - h) + i))
  BY PositionCases
<1> HIDE DEF h
<1>3. p.tau * h \in Nat /\ p.tau1 * h \in Nat
  BY <1>1
<1>4. CASE j < h
  <2>1. p.tau * j + i \in Nat /\ p.tau * j + i < p.tau * h
    BY <1>1, <1>2, <1>4, DigitsBound
  <2>2. PosInTree(p, i, j) = (p.L - 1) + (p.tau * j + i)
    BY <1>1, <1>2, <1>4
  <2> DEFINE x == p.tau * j + i
  <2> HIDE DEF x
  <2>3. x \in Nat /\ x < p.L
    BY <1>1, <1>3, <2>1 DEF x
  <2>4. PosInTree(p, i, j) = (p.L - 1) + x
    BY <2>2 DEF x
  <2> QED
    BY <1>1, <2>3, <2>4
<1>5. CASE ~ (j < h)
  <2>1. /\ i < p.tau1 /\ j >= h /\ j - h < h
        /\ PosInTree(p, i, j) = (p.L - 1) + (p.tau * h + (p.tau1 * (j - h) + i))
    BY <1>2, <1>5
  <2>2. p.tau1 * (j - h) + i \in Nat /\ p.tau1 * (j - h) + i < p.tau1 * h
    <3>1. j - h \in Nat /\ p.tau1 \in Nat
      BY <1>1, <1>2, <2>1
    <3> QED
      BY <1>1, <1>2, <2>1, <3>1, DigitsBound
  <2> DEFINE x == p.tau * h + (p.tau1 * (j - h) + i)
  <2>3. x \in Nat /\ x < p.L
    BY <1>1, <1>3, <2>2
  <2>4. PosInTree(p, i, j) = (p.L - 1) + x
    BY <2>1
  <2> HIDE DEF x
  <2> QED
    BY <1>1, <2>3, <2>4
<1> QED
  BY <1>4, <1>5

\* No two positions share a leaf.
LEMMA PosInjective ==
  ASSUME NEW p, Legal(p), NEW i \in Vectors(p), NEW j \in Positions(p, i),
         NEW a \in Vectors(p), NEW b \in Positions(p, a),
         PosInTree(p, i, j) = PosInTree(p, a, b)
  PROVE  i = a /\ j = b
<1> DEFINE h == 2^(p.k - 1)
<1>1. /\ p.tau \in Nat /\ p.tau > 0 /\ p.tau1 \in 0..(p.tau - 1) /\ h \in Nat /\ h > 0
      /\ p.L \in Nat /\ p.L > 0
  BY ParamFacts
<1>2. /\ i \in Nat /\ j \in Nat /\ i < p.tau
      /\ \/ j < h /\ PosInTree(p, i, j) = (p.L - 1) + (p.tau * j + i)
         \/ /\ i < p.tau1 /\ j >= h /\ j - h < h
            /\ PosInTree(p, i, j) = (p.L - 1) + (p.tau * h + (p.tau1 * (j - h) + i))
  BY PositionCases
<1>3. /\ a \in Nat /\ b \in Nat /\ a < p.tau
      /\ \/ b < h /\ PosInTree(p, a, b) = (p.L - 1) + (p.tau * b + a)
         \/ /\ a < p.tau1 /\ b >= h /\ b - h < h
            /\ PosInTree(p, a, b) = (p.L - 1) + (p.tau * h + (p.tau1 * (b - h) + a))
  BY PositionCases
<1> HIDE DEF h
<1>4. p.tau * h \in Nat /\ p.tau1 \in Nat
  BY <1>1
<1> DEFINE x == IF j < h THEN p.tau * j + i ELSE p.tau * h + (p.tau1 * (j - h) + i)
           y == IF b < h THEN p.tau * b + a ELSE p.tau * h + (p.tau1 * (b - h) + a)
<1>5. j < h => p.tau * j + i \in Nat /\ p.tau * j + i < p.tau * h
  BY <1>1, <1>2, DigitsBound
<1>6. b < h => p.tau * b + a \in Nat /\ p.tau * b + a < p.tau * h
  BY <1>1, <1>3, DigitsBound
<1>7. ~ (j < h) => i < p.tau1 /\ j - h \in Nat /\ p.tau1 * (j - h) + i \in Nat
  <2> SUFFICES ASSUME ~ (j < h) PROVE i < p.tau1 /\ j - h \in Nat /\ p.tau1 * (j - h) + i \in Nat
    OBVIOUS
  <2>1. i < p.tau1 /\ j - h \in Nat /\ j - h < h
    BY <1>1, <1>2
  <2> QED
    BY <1>1, <1>2, <1>4, <2>1, DigitsBound
<1>8. ~ (b < h) => a < p.tau1 /\ b - h \in Nat /\ p.tau1 * (b - h) + a \in Nat
  <2> SUFFICES ASSUME ~ (b < h) PROVE a < p.tau1 /\ b - h \in Nat /\ p.tau1 * (b - h) + a \in Nat
    OBVIOUS
  <2>1. a < p.tau1 /\ b - h \in Nat /\ b - h < h
    BY <1>1, <1>3
  <2> QED
    BY <1>1, <1>3, <1>4, <2>1, DigitsBound
<1>9. x \in Nat /\ y \in Nat
  BY <1>4, <1>5, <1>6, <1>7, <1>8
<1>10. PosInTree(p, i, j) = (p.L - 1) + x /\ PosInTree(p, a, b) = (p.L - 1) + y
  BY <1>1, <1>2, <1>3
<1>11. x = y
  <2> HIDE DEF x, y
  <2> DEFINE l == p.L - 1
  <2>1. l \in Int
    BY <1>1
  <2>2. l + x = l + y
    BY <1>10, Zenon
  <2> HIDE DEF l
  <2> QED
    BY <1>9, <2>1, <2>2
<1>12. CASE j < h /\ b < h
  <2>1. p.tau * j + i = p.tau * b + a
    BY <1>11, <1>12
  <2>2. i \in 0..(p.tau - 1) /\ a \in 0..(p.tau - 1)
    BY <1>1, <1>2, <1>3
  <2> QED
    BY <1>1, <1>2, <1>3, <2>1, <2>2, DigitsUnique
<1>13. CASE ~ (j < h) /\ ~ (b < h)
  <2> DEFINE s == p.tau1 * (j - h) + i
             t == p.tau1 * (b - h) + a
  <2>1. s \in Nat /\ t \in Nat /\ p.tau * h + s = p.tau * h + t
    BY <1>7, <1>8, <1>11, <1>13
  <2> HIDE DEF s, t
  <2>2. s = t
    BY <1>4, <2>1
  <2>3. /\ p.tau1 > 0 /\ i \in 0..(p.tau1 - 1) /\ a \in 0..(p.tau1 - 1)
        /\ j - h \in Nat /\ b - h \in Nat
    BY <1>2, <1>3, <1>4, <1>7, <1>8, <1>13
  <2>4. p.tau1 * (j - h) + i = p.tau1 * (b - h) + a
    BY <2>2 DEF s, t
  <2> DEFINE u == j - h
             v == b - h
  <2>5. u \in Nat /\ v \in Nat /\ p.tau1 * u + i = p.tau1 * v + a
    BY <2>3, <2>4
  <2> HIDE DEF u, v
  <2> DEFINE n == p.tau1
  <2>7. n \in Nat /\ n > 0 /\ i \in 0..(n - 1) /\ a \in 0..(n - 1) /\ n * u + i = n * v + a
    BY <1>4, <2>3, <2>5
  <2> HIDE DEF n
  <2>6. i = a /\ u = v
    <3> HIDE DEF x, y
    <3>1. \A m, z, w \in Nat : m > 0 => \A c, d \in 0..(m - 1) :
             m * z + c = m * w + d => c = d /\ z = w
      BY DigitsUnique
    <3>2. u \in Nat /\ v \in Nat
      BY <2>5
    <3> QED
      BY <2>7, <3>1, <3>2
  <2> QED
    BY <1>1, <1>2, <1>3, <2>6 DEF u, v
<1>14. CASE j < h /\ ~ (b < h)
  <2> DEFINE s == p.tau * j + i
             t == p.tau1 * (b - h) + a
  <2>1. s \in Nat /\ s < p.tau * h /\ t \in Nat /\ s = p.tau * h + t
    BY <1>5, <1>8, <1>11, <1>14
  <2> HIDE DEF s, t
  <2> QED
    BY <1>4, <2>1
<1>15. CASE ~ (j < h) /\ b < h
  <2> DEFINE s == p.tau * b + a
             t == p.tau1 * (j - h) + i
  <2>1. s \in Nat /\ s < p.tau * h /\ t \in Nat /\ s = p.tau * h + t
    BY <1>6, <1>7, <1>11, <1>15
  <2> HIDE DEF s, t
  <2> QED
    BY <1>4, <2>1
<1> QED
  BY <1>12, <1>13, <1>14, <1>15

\* Every leaf is a position of some vector.
LEMMA PosOnto ==
  ASSUME NEW p, Legal(p), NEW a \in (p.L - 1)..(2 * p.L - 2)
  PROVE  \E i \in Vectors(p) : \E j \in Positions(p, i) : PosInTree(p, i, j) = a
<1> DEFINE h == 2^(p.k - 1)
           th == p.tau * h
<1>1. /\ p.tau \in Nat /\ p.tau > 0 /\ p.tau1 \in 0..(p.tau - 1) /\ h \in Nat /\ h > 0
      /\ p.L \in Nat /\ p.L > 0 /\ p.L = th + p.tau1 * h /\ 2^p.k = 2 * h
  BY ParamFacts
<1>2. \A i \in Vectors(p) : \A j :
        /\ j \in Positions(p, i) <=> j \in Nat /\ j < (IF i < p.tau1 THEN 2 * h ELSE h)
        /\ PosInTree(p, i, j) = IF j < h THEN p.L - 1 + p.tau * j + i
                                ELSE p.L - 1 + th + p.tau1 * (j % h) + i
  BY <1>1 DEF Vectors, Positions, VcN, PosInTree
<1>3. th \in Nat /\ p.tau1 * h \in Nat
  BY <1>1
<1> HIDE DEF h, th
<1> DEFINE x == a - (p.L - 1)
<1>4. x \in Nat /\ x < p.L /\ a = (p.L - 1) + x
  BY <1>1
<1> HIDE DEF x
<1>5. CASE x < th
  <2> DEFINE i == x % p.tau
             j == x \div p.tau
  <2>1. j \in Nat /\ i \in 0..(p.tau - 1) /\ x = p.tau * j + i
    BY <1>1, <1>4, DivProps
  <2> HIDE DEF i, j
  <2>2. j < h
    <3>1. SUFFICES ASSUME j >= h PROVE FALSE
      BY <1>1, <2>1
    <3>2. PICK d \in Nat : j = h + d
      <4>1. j - h \in Nat /\ j = h + (j - h)
        BY <1>1, <2>1, <3>1
      <4> QED
        BY <4>1
    <3>3. p.tau * (h + d) = p.tau * h + p.tau * d /\ p.tau * d \in Nat /\ p.tau * h \in Nat
      BY <1>1, <3>2
    <3> QED
      BY <1>3, <1>5, <2>1, <3>2, <3>3 DEF th
  <2>3. i \in Vectors(p)
    BY <2>1 DEF Vectors
  <2>4. j \in Positions(p, i)
    <3>1. j < (IF i < p.tau1 THEN 2 * h ELSE h)
      BY <1>1, <2>1, <2>2
    <3> QED
      BY <1>2, <2>1, <2>3, <3>1
  <2>5. PosInTree(p, i, j) = p.L - 1 + p.tau * j + i
    BY <1>2, <2>2, <2>3
  <2>6. p.tau * j \in Nat
    BY <1>1, <2>1
  <2>7. PosInTree(p, i, j) = a
    BY <1>1, <1>4, <2>1, <2>5, <2>6
  <2> QED
    BY <2>3, <2>4, <2>7
<1>6. CASE ~ (x < th)
  <2> DEFINE z == x - th
  <2>1. z \in Nat /\ z < p.tau1 * h /\ x = th + z
    BY <1>1, <1>3, <1>4, <1>6
  <2> HIDE DEF z
  <2>2. p.tau1 \in Nat /\ p.tau1 > 0
    <3>1. p.tau1 \in Nat
      BY <1>1
    <3>2. p.tau1 = 0 => p.tau1 * h = 0
      BY <1>1
    <3> QED
      BY <2>1, <3>1, <3>2
  <2> DEFINE i == z % p.tau1
             e == z \div p.tau1
             j == h + e
  <2>3. e \in Nat /\ i \in 0..(p.tau1 - 1) /\ z = p.tau1 * e + i
    BY <2>1, <2>2, DivProps
  <2> HIDE DEF i, e
  <2>4. e < h
    <3>1. SUFFICES ASSUME e >= h PROVE FALSE
      BY <1>1, <2>3
    <3>2. PICK d \in Nat : e = h + d
      <4>1. e - h \in Nat /\ e = h + (e - h)
        BY <1>1, <2>3, <3>1
      <4> QED
        BY <4>1
    <3>3. /\ p.tau1 * (h + d) = p.tau1 * h + p.tau1 * d
          /\ p.tau1 * d \in Nat /\ p.tau1 * h \in Nat
      BY <1>1, <2>2, <3>2
    <3> QED
      BY <1>3, <2>1, <2>3, <3>2, <3>3
  <2>5. i \in Vectors(p) /\ i < p.tau1
    BY <1>1, <2>3 DEF Vectors
  <2>6. j % h = e
    <3>1. j \in Nat /\ h * 1 = h /\ h <= j /\ j < h + h
      BY <1>1, <2>3, <2>4
    <3>2. j \div h = 1
      BY <1>1, <3>1, DivUnique
    <3>3. j = h * (j \div h) + (j % h) /\ j % h \in 0..(h - 1)
      BY <1>1, <3>1, DivProps
    <3> QED
      BY <1>1, <2>3, <3>1, <3>2, <3>3
  <2>7. j \in Positions(p, i) /\ ~ (j < h)
    <3>1. j \in Nat /\ j < 2 * h /\ ~ (j < h)
      BY <1>1, <2>3, <2>4
    <3> HIDE DEF j
    <3> QED
      BY <1>2, <2>5, <3>1
  <2>8. PosInTree(p, i, j) = p.L - 1 + th + p.tau1 * e + i
    BY <1>2, <2>5, <2>6, <2>7
  <2>9. p.tau1 * e \in Nat
    BY <2>2, <2>3
  <2>10. PosInTree(p, i, j) = a
    BY <1>1, <1>3, <1>4, <2>1, <2>3, <2>8, <2>9
  <2> QED
    BY <2>5, <2>7, <2>10
<1> QED
  BY <1>5, <1>6

-----------------------------------------------------------------------------
(* Ancestors.                                                              *)

\* The nodes on the way from a to the root, a included.
Ancestors(a) == {b \in Nat : \E n \in Nat : b + 1 = (a + 1) \div 2^n}

LEMMA ParentFacts ==
  ASSUME NEW a \in Nat, a > 0
  PROVE  /\ Parent(a) \in Nat /\ Parent(a) < a
         /\ \/ a = 2 * Parent(a) + 1 /\ (a + 1) % 2 = 0
            \/ a = 2 * Parent(a) + 2 /\ (a + 1) % 2 = 1
         /\ (a + 1) \div 2 = Parent(a) + 1
  BY DEF Parent

LEMMA ChildFacts ==
  ASSUME NEW a \in Nat
  PROVE  Parent(2 * a + 1) = a /\ Parent(2 * a + 2) = a
  BY DEF Parent

LEMMA HalveThenShift ==
  ASSUME NEW x \in Nat, NEW n \in Nat
  PROVE  (x \div 2) \div 2^n = x \div 2^(n + 1)
<1> DEFINE q == 2^n
           y == x \div 2
           z == y \div q
<1>1. q \in Nat /\ q > 0 /\ 2^(n + 1) = 2 * q
  BY PowerPositive, PowerStep
<1>2. y \in Nat /\ 2 * y <= x /\ x < 2 * y + 2
  OBVIOUS
<1> HIDE DEF y, q
<1>3. z \in Nat /\ q * z <= y /\ y < q * z + q
  BY <1>1, <1>2, DivProps
<1> HIDE DEF z
<1>4. (2 * q) * z = 2 * (q * z) /\ q * z \in Nat /\ 2 * q \in Nat /\ 2 * q > 0
  BY <1>1, <1>3
<1>5. (2 * q) * z <= x /\ x < (2 * q) * z + 2 * q
  BY <1>1, <1>2, <1>3, <1>4
<1>6. x \div (2 * q) = z
  BY <1>3, <1>4, <1>5, DivUnique
<1> QED
  BY <1>1, <1>6 DEF z, y, q

\* The root has no other ancestor; any other node adds itself to its parent's.
LEMMA AncestorsRec ==
  ASSUME NEW a \in Nat
  PROVE  /\ a \in Ancestors(a)
         /\ a = 0 => Ancestors(a) = {0}
         /\ a > 0 => Ancestors(a) = {a} \cup Ancestors(Parent(a))
<1>1. (a + 1) \div 2^0 = a + 1
  BY PowerZero
<1>2. a \in Ancestors(a)
  BY <1>1 DEF Ancestors
<1>3. ASSUME a = 0 PROVE Ancestors(a) = {0}
  <2>1. ASSUME NEW b \in Ancestors(a) PROVE b = 0
    <3>1. PICK n \in Nat : b \in Nat /\ b + 1 = 1 \div 2^n
      BY <1>3 DEF Ancestors
    <3>2. 2^n \in Nat /\ 2^n > 0
      BY PowerPositive
    <3>3. 2^n * (1 \div 2^n) <= 1 /\ 1 \div 2^n \in Nat
      BY <3>2, DivProps
    <3>4. \A q, y \in Nat : q > 0 /\ q * y <= 1 => y <= 1
      <4> TAKE q, y \in Nat
      <4> HAVE q > 0 /\ q * y <= 1
      <4>1. q * y = y + (q - 1) * y /\ (q - 1) * y \in Nat
        OBVIOUS
      <4> QED
        BY <4>1
    <3>5. 1 \div 2^n <= 1
      BY <3>2, <3>3, <3>4
    <3> QED
      BY <3>1, <3>3, <3>5
  <2> QED
    BY <1>2, <1>3, <2>1
<1>4. ASSUME a > 0 PROVE Ancestors(a) = {a} \cup Ancestors(Parent(a))
  <2>1. (a + 1) \div 2 = Parent(a) + 1 /\ Parent(a) \in Nat
    BY <1>4, ParentFacts
  <2>2. \A n \in Nat : (Parent(a) + 1) \div 2^n = (a + 1) \div 2^(n + 1)
    <3> TAKE n \in Nat
    <3>1. a + 1 \in Nat
      OBVIOUS
    <3>2. ((a + 1) \div 2) \div 2^n = (a + 1) \div 2^(n + 1)
      BY <3>1, HalveThenShift
    <3> QED
      BY <2>1, <3>2
  <2>3. ASSUME NEW b \in Ancestors(a) PROVE b \in {a} \cup Ancestors(Parent(a))
    <3>1. PICK n \in Nat : b \in Nat /\ b + 1 = (a + 1) \div 2^n
      BY DEF Ancestors
    <3>2. CASE n = 0
      BY <1>1, <3>1, <3>2
    <3>3. CASE n > 0
      <4>1. n - 1 \in Nat /\ (n - 1) + 1 = n
        BY <3>3
      <4>2. b + 1 = (Parent(a) + 1) \div 2^(n - 1)
        BY <2>2, <3>1, <4>1
      <4> QED
        BY <3>1, <4>1, <4>2 DEF Ancestors
    <3> QED
      BY <3>2, <3>3
  <2>4. ASSUME NEW b \in Ancestors(Parent(a)) PROVE b \in Ancestors(a)
    <3>1. PICK n \in Nat : b \in Nat /\ b + 1 = (Parent(a) + 1) \div 2^n
      BY DEF Ancestors
    <3>2. n + 1 \in Nat /\ b + 1 = (a + 1) \div 2^(n + 1)
      BY <2>2, <3>1
    <3> QED
      BY <3>1, <3>2 DEF Ancestors
  <2> QED
    BY <1>2, <2>3, <2>4
<1> QED
  BY <1>2, <1>3, <1>4

LEMMA StrongInduction ==
  ASSUME NEW S, \A n \in Nat : (\A m \in 0..(n - 1) : m \in S) => n \in S
  PROVE  Nat \subseteq S
<1> DEFINE T == {n \in Nat : \A m \in 0..n : m \in S}
<1>1. 0 \in T
  OBVIOUS
<1>2. ASSUME NEW n \in Nat, n \in T PROVE n + 1 \in T
  <2>1. n + 1 \in S
    BY <1>2
  <2>2. \A m \in 0..(n + 1) : m = n + 1 \/ m \in 0..n
    OBVIOUS
  <2> QED
    BY <1>2, <2>1, <2>2
<1> HIDE DEF T
<1>3. Nat \subseteq T
  BY <1>1, <1>2, NatSetInduction
<1> QED
  BY <1>3 DEF T

\* Up from an ancestor are ancestors, down from it another, as far as a.
LEMMA AncestorFacts ==
  ASSUME NEW a \in Nat
  PROVE  /\ 0 \in Ancestors(a)
         /\ \A b \in Ancestors(a) :
              /\ b \in Nat /\ b <= a
              /\ b > 0 => Parent(b) \in Ancestors(a)
              /\ b # a => 2 * b + 1 \in Ancestors(a) \/ 2 * b + 2 \in Ancestors(a)
<1> DEFINE P(x) == /\ 0 \in Ancestors(x)
                   /\ \A b \in Ancestors(x) :
                        /\ b \in Nat /\ b <= x
                        /\ b > 0 => Parent(b) \in Ancestors(x)
                        /\ b # x => 2 * b + 1 \in Ancestors(x) \/ 2 * b + 2 \in Ancestors(x)
           S == {x \in Nat : P(x)}
<1>1. ASSUME NEW n \in Nat, \A m \in 0..(n - 1) : m \in S PROVE n \in S
  <2>1. CASE n = 0
    <3>1. Ancestors(n) = {0}
      BY <2>1, AncestorsRec
    <3> QED
      BY <2>1, <3>1
  <2>2. CASE n > 0
    <3> DEFINE q == Parent(n)
    <3>1. q \in Nat /\ q < n /\ (n = 2 * q + 1 \/ n = 2 * q + 2)
      BY <2>2, ParentFacts
    <3>2. Ancestors(n) = {n} \cup Ancestors(q) /\ q \in Ancestors(q)
      BY <2>2, <3>1, AncestorsRec
    <3>2a. q = Parent(n)
      OBVIOUS
    <3> HIDE DEF q
    <3>3. P(q)
      BY <1>1, <3>1
    <3> QED
      BY <3>1, <3>2, <3>2a, <3>3
  <2> QED
    BY <2>1, <2>2
<1> HIDE DEF S
<1>2. Nat \subseteq S
  BY <1>1, StrongInduction
<1> QED
  BY <1>2 DEF S

\* Every node of the tree is above some leaf.
LEMMA LeafBelow ==
  ASSUME NEW L \in Nat, L > 0, NEW a \in 0..(2 * L - 2)
  PROVE  \E l \in (L - 1)..(2 * L - 2) : a \in Ancestors(l)
<1> DEFINE S == {n \in Nat : n <= 2 * L - 2 =>
                   \E l \in (L - 1)..(2 * L - 2) : (2 * L - 2) - n \in Ancestors(l)}
<1>1. ASSUME NEW n \in Nat, \A m \in 0..(n - 1) : m \in S PROVE n \in S
  <2> SUFFICES ASSUME n <= 2 * L - 2
               PROVE  \E l \in (L - 1)..(2 * L - 2) : (2 * L - 2) - n \in Ancestors(l)
    OBVIOUS
  <2> DEFINE b == (2 * L - 2) - n
  <2>1. b \in Nat /\ b <= 2 * L - 2
    OBVIOUS
  <2>2. CASE b >= L - 1
    <3>1. b \in Ancestors(b) /\ b \in (L - 1)..(2 * L - 2)
      BY <2>1, <2>2, AncestorsRec
    <3> QED
      BY <3>1
  <2>3. CASE b < L - 1
    <3> DEFINE m == (2 * L - 2) - (2 * b + 1)
    <3>1. m \in 0..(n - 1) /\ (2 * L - 2) - m = 2 * b + 1 /\ m <= 2 * L - 2
      BY <2>1, <2>3
    <3>2. PICK l \in (L - 1)..(2 * L - 2) : 2 * b + 1 \in Ancestors(l)
      BY <1>1, <3>1
    <3>3. Parent(2 * b + 1) = b /\ l \in Nat /\ 2 * b + 1 > 0
      BY <2>1, ChildFacts
    <3>4. b \in Ancestors(l)
      BY <3>2, <3>3, AncestorFacts
    <3> QED
      BY <3>4
  <2> QED
    BY <2>1, <2>2, <2>3
<1> HIDE DEF S
<1>2. Nat \subseteq S
  BY <1>1, StrongInduction
<1>3. (2 * L - 2) - a \in Nat /\ (2 * L - 2) - ((2 * L - 2) - a) = a /\ (2 * L - 2) - a <= 2 * L - 2
  OBVIOUS
<1>4. (2 * L - 2) - a \in S
  BY <1>2, <1>3
<1> QED
  BY <1>3, <1>4 DEF S

-----------------------------------------------------------------------------
(* The marked nodes: everything above the hidden leaves.                   *)

Above(H) == UNION {Ancestors(l) : l \in H}

\* H are leaves of a tree with L leaves, at least one.
LeavesOf(L, H) == L \in Nat /\ L > 0 /\ H \subseteq (L - 1)..(2 * L - 2) /\ H # {}

LEMMA AboveFacts ==
  ASSUME NEW L, NEW H, LeavesOf(L, H)
  PROVE  /\ Above(H) \subseteq 0..(2 * L - 2) /\ H \subseteq Above(H) /\ 0 \in Above(H)
         /\ \A a \in Above(H) :
              /\ a > 0 => Parent(a) \in Above(H)
              /\ a < L - 1 => 2 * a + 1 \in Above(H) \/ 2 * a + 2 \in Above(H)
              /\ a >= L - 1 => a \in H
<1>1. L \in Nat /\ L > 0 /\ \A l \in H : l \in Nat /\ l >= L - 1 /\ l <= 2 * L - 2
  BY DEF LeavesOf
<1>2. PICK h \in H : TRUE
  BY DEF LeavesOf
<1>3. 0 \in Above(H)
  BY <1>1, <1>2, AncestorFacts DEF Above
<1>4. H \subseteq Above(H)
  BY <1>1, AncestorsRec DEF Above
<1>5. ASSUME NEW a \in Above(H)
      PROVE  /\ a \in 0..(2 * L - 2)
             /\ a > 0 => Parent(a) \in Above(H)
             /\ a < L - 1 => 2 * a + 1 \in Above(H) \/ 2 * a + 2 \in Above(H)
             /\ a >= L - 1 => a \in H
  <2>1. PICK l \in H : a \in Ancestors(l)
    BY DEF Above
  <2>2. l \in Nat /\ l >= L - 1 /\ l <= 2 * L - 2
    BY <1>1
  <2>3. /\ a \in Nat /\ a <= l
        /\ a > 0 => Parent(a) \in Ancestors(l)
        /\ a # l => 2 * a + 1 \in Ancestors(l) \/ 2 * a + 2 \in Ancestors(l)
    BY <2>1, <2>2, AncestorFacts
  <2>4. \A b \in Ancestors(l) : b \in Above(H) /\ b <= l
    BY <2>2, AncestorFacts DEF Above
  <2>5. a >= L - 1 => a \in H
    <3> SUFFICES ASSUME a >= L - 1, a # l PROVE FALSE
      OBVIOUS
    <3>1. 2 * a + 1 <= l \/ 2 * a + 2 <= l
      BY <2>3, <2>4
    <3> QED
      BY <1>1, <2>2, <2>3, <3>1
  <2>6. a < L - 1 => a # l
    BY <1>1, <2>2
  <2>7. a \in 0..(2 * L - 2)
    BY <1>1, <2>2, <2>3
  <2> QED
    BY <2>3, <2>4, <2>5, <2>6, <2>7
<1> QED
  BY <1>3, <1>4, <1>5

\* An inner node is marked exactly when one of its children is.
LEMMA MarkedInside ==
  ASSUME NEW L, NEW H, LeavesOf(L, H), NEW a \in 0..(L - 2)
  PROVE  a \in Above(H) <=> 2 * a + 1 \in Above(H) \/ 2 * a + 2 \in Above(H)
<1>1. L \in Nat /\ a \in Nat /\ a < L - 1
  BY DEF LeavesOf
<1>2. Parent(2 * a + 1) = a /\ Parent(2 * a + 2) = a /\ 2 * a + 1 > 0 /\ 2 * a + 2 > 0
  BY <1>1, ChildFacts
<1> QED
  BY <1>1, <1>2, AboveFacts

-----------------------------------------------------------------------------
(* The walk over the inner nodes.                                          *)

\* walk[n] is what the first n turns made of S.
Walked(L, S, walk) ==
  /\ walk[0] = [S |-> S, out |-> <<>>]
  /\ \A n \in 1..(L - 1) : walk[n] = WalkNode(walk[n - 1], L - 1 - n)

LEMMA WalkUnfold ==
  ASSUME NEW p, p.L \in Nat, p.L > 0, NEW S
  PROVE  \E walk : Walked(p.L, S, walk) /\ Walk(p, S) = walk[p.L - 1]
<1> DEFINE L == p.L
           Good(f, n) == f = [m \in 0..n |-> WalkTurn(p, S, f, m)]
           T == {n \in Nat : \E f : Good(f, n)}
<1>1. 0 \in T
  <2> DEFINE f == [m \in 0..0 |-> [S |-> S, out |-> <<>>]]
  <2>1. Good(f, 0)
    BY DEF WalkTurn
  <2> QED
    BY <2>1
<1>2. ASSUME NEW n \in Nat, n \in T PROVE n + 1 \in T
  <2>1. PICK f : Good(f, n)
    BY <1>2
  <2> DEFINE g == [m \in 0..(n + 1) |-> IF m <= n THEN f[m] ELSE WalkTurn(p, S, f, m)]
  <2>2. \A m \in 0..n : g[m] = f[m]
    OBVIOUS
  <2>3. g[n + 1] = WalkTurn(p, S, f, n + 1)
    OBVIOUS
  <2>4. g = [m \in 0..(n + 1) |-> g[m]]
    OBVIOUS
  <2> HIDE DEF g
  <2>5. ASSUME NEW m \in 0..n PROVE g[m] = WalkTurn(p, S, g, m)
    <3>1. f[m] = WalkTurn(p, S, f, m)
      BY <2>1
    <3>2. m > 0 => g[m - 1] = f[m - 1]
      BY <2>2
    <3> QED
      BY <2>2, <3>1, <3>2 DEF WalkTurn
  <2>6. g[n + 1] = WalkTurn(p, S, g, n + 1)
    <3>1. (n + 1) - 1 = n /\ n + 1 # 0 /\ g[n] = f[n]
      BY <2>2
    <3> QED
      BY <2>3, <3>1 DEF WalkTurn
  <2>7. \A m \in 0..(n + 1) : g[m] = WalkTurn(p, S, g, m)
    <3>1. \A m \in 0..(n + 1) : m \in 0..n \/ m = n + 1
      OBVIOUS
    <3> QED
      BY <2>5, <2>6, <3>1
  <2>8. Good(g, n + 1)
    BY <2>4, <2>7
  <2> QED
    BY <2>8
<1> HIDE DEF T
<1>3. L - 1 \in T
  BY <1>1, <1>2, NatSetInduction
<1> DEFINE walk == CHOOSE f : Good(f, L - 1)
<1>4. Good(walk, L - 1)
  BY <1>3 DEF T
<1>5. Walk(p, S) = walk[L - 1]
  BY DEF Walk
<1> HIDE DEF walk
<1>6. walk[0] = [S |-> S, out |-> <<>>]
  BY <1>4 DEF WalkTurn
<1>7. \A n \in 1..(L - 1) : walk[n] = WalkNode(walk[n - 1], L - 1 - n)
  BY <1>4 DEF WalkTurn
<1> QED
  BY <1>5, <1>6, <1>7 DEF Walked

\* The node a turn reveals below a, if any, when M are the marked nodes.
Revealing(M, out, a) ==
  IF 2 * a + 1 \in M /\ 2 * a + 2 \notin M THEN Append(out, 2 * a + 2)
  ELSE IF 2 * a + 2 \in M /\ 2 * a + 1 \notin M THEN Append(out, 2 * a + 1) ELSE out

\* What holds after every turn of a walk that started from S.
Marking(L, H, S, walk) ==
  \A n \in 0..(L - 1) :
    /\ walk[n].S = S \cup {a \in Above(H) : a >= L - 1 - n}
    /\ n = 0 => walk[n].out = <<>>
    /\ n > 0 => walk[n].out = Revealing(Above(H), walk[n - 1].out, L - 1 - n)

\* Whether the walk starts from the hidden leaves only (reconstruction) or
\* from all that is above them (opening), every turn finds the children's
\* marks as they end up.
LEMMA WalkMarks ==
  ASSUME NEW L, NEW H, LeavesOf(L, H), NEW S, H \subseteq S, S \subseteq Above(H),
         NEW walk, Walked(L, S, walk)
  PROVE  Marking(L, H, S, walk)
<1> DEFINE M == Above(H)
           P(n) == /\ walk[n].S = S \cup {a \in M : a >= L - 1 - n}
                   /\ n = 0 => walk[n].out = <<>>
                   /\ n > 0 => walk[n].out = Revealing(M, walk[n - 1].out, L - 1 - n)
           T == {n \in Nat : n <= L - 1 => P(n)}
<1>0. /\ L \in Nat /\ L > 0 /\ M \subseteq 0..(2 * L - 2) /\ H \subseteq S /\ S \subseteq M
      /\ \A a \in M : a >= L - 1 => a \in H
      /\ \A a \in 0..(L - 2) : a \in M <=> 2 * a + 1 \in M \/ 2 * a + 2 \in M
  <2>1. L \in Nat /\ L > 0
    BY DEF LeavesOf
  <2> QED
    BY <2>1, AboveFacts, MarkedInside
<1> HIDE DEF M
<1>1. 0 \in T
  <2>1. walk[0] = [S |-> S, out |-> <<>>]
    BY DEF Walked
  <2>2. {a \in M : a >= L - 1 - 0} \subseteq S
    <3> SUFFICES ASSUME NEW a \in M, a >= L - 1 - 0 PROVE a \in S
      OBVIOUS
    <3>1. L - 1 - 0 = L - 1
      BY <1>0
    <3> QED
      BY <1>0, <3>1
  <2> QED
    BY <2>1, <2>2
<1>2. ASSUME NEW n \in Nat, n \in T PROVE n + 1 \in T
  <2> SUFFICES ASSUME n + 1 <= L - 1 PROVE P(n + 1)
    OBVIOUS
  <2> DEFINE a == L - 1 - (n + 1)
             w == walk[n]
  <2>1. w.S = S \cup {x \in M : x >= L - 1 - n}
    BY <1>0, <1>2
  <2>2. walk[n + 1] = WalkNode(w, a)
    <3>1. n + 1 \in 1..(L - 1) /\ (n + 1) - 1 = n
      BY <1>0
    <3> QED
      BY <3>1 DEF Walked
  <2>3. a \in 0..(L - 2) /\ a + 1 = L - 1 - n
    BY <1>0
  <2>3a. a = L - 1 - (n + 1) /\ w = walk[n]
    OBVIOUS
  <2> HIDE DEF a, w
  <2>4. 2 * a + 1 >= L - 1 - n /\ 2 * a + 2 >= L - 1 - n
    BY <1>0, <2>3
  <2>5. (2 * a + 1 \in w.S <=> 2 * a + 1 \in M) /\ (2 * a + 2 \in w.S <=> 2 * a + 2 \in M)
    BY <1>0, <2>1, <2>4
  <2>6. walk[n + 1].out = Revealing(M, w.out, a)
    BY <2>2, <2>5 DEF WalkNode, Revealing
  <2>7. walk[n + 1].S = IF a \in M THEN w.S \cup {a} ELSE w.S
    <3>1. a \in M <=> 2 * a + 1 \in w.S \/ 2 * a + 2 \in w.S
      BY <1>0, <2>3, <2>5
    <3> QED
      BY <2>2, <3>1 DEF WalkNode
  <2>8. {x \in M : x >= a} = {x \in M : x >= a + 1} \cup (IF a \in M THEN {a} ELSE {})
    <3>1. \A x \in M : x >= a <=> x >= a + 1 \/ x = a
      BY <1>0, <2>3
    <3>2. ~ (a >= a + 1) /\ a >= a
      BY <2>3
    <3> QED
      BY <3>1, <3>2
  <2>9. walk[n + 1].S = S \cup {x \in M : x >= a}
    BY <2>1, <2>3, <2>7, <2>8
  <2>10. (n + 1) - 1 = n /\ ~ (n + 1 = 0)
    OBVIOUS
  <2> QED
    BY <2>3a, <2>6, <2>9, <2>10
<1> HIDE DEF T
<1>3. Nat \subseteq T
  BY <1>1, <1>2, NatSetInduction
<1> QED
  BY <1>0, <1>3 DEF T, M, Marking

\* Exactly one child of a is in M.
OneMarked(M, a) == \/ 2 * a + 1 \in M /\ 2 * a + 2 \notin M
                   \/ 2 * a + 2 \in M /\ 2 * a + 1 \notin M

\* out lists, each once, the unmarked nodes with a marked parent from m on.
Lists(L, M, out, m) ==
  /\ out \in Seq(Nat)
  /\ \A i \in 1..Len(out) : /\ out[i] \in 1..(2 * L - 2) /\ out[i] \notin M
                            /\ Parent(out[i]) \in M /\ Parent(out[i]) >= m
  /\ \A i, j \in 1..Len(out) : out[i] = out[j] => i = j
  /\ \A b \in 1..(2 * L - 2) :
       b \notin M /\ Parent(b) \in M /\ Parent(b) >= m => \E i \in 1..Len(out) : out[i] = b
  /\ IsFiniteSet({a \in m..(L - 2) : OneMarked(M, a)})
  /\ Len(out) = Cardinality({a \in m..(L - 2) : OneMarked(M, a)})

LEMMA ListsStep ==
  ASSUME NEW L, NEW H, LeavesOf(L, H), NEW a \in 0..(L - 2),
         NEW out, Lists(L, Above(H), out, a + 1)
  PROVE  Lists(L, Above(H), Revealing(Above(H), out, a), a)
<1> DEFINE M == Above(H)
           r == Revealing(M, out, a)
           x == IF 2 * a + 1 \in M THEN 2 * a + 2 ELSE 2 * a + 1
           B == {z \in (a + 1)..(L - 2) : OneMarked(M, z)}
           C == {z \in a..(L - 2) : OneMarked(M, z)}
<1>1. L \in Nat /\ L > 0 /\ a \in Nat /\ a < L - 1
  BY DEF LeavesOf
<1>2. M \subseteq 0..(2 * L - 2)
  BY AboveFacts
<1>3. a \in M <=> 2 * a + 1 \in M \/ 2 * a + 2 \in M
  BY MarkedInside
<1>4. /\ out \in Seq(Nat)
      /\ \A i \in 1..Len(out) : /\ out[i] \in 1..(2 * L - 2) /\ out[i] \notin M
                                /\ Parent(out[i]) \in M /\ Parent(out[i]) >= a + 1
      /\ \A i, j \in 1..Len(out) : out[i] = out[j] => i = j
      /\ \A b \in 1..(2 * L - 2) :
           b \notin M /\ Parent(b) \in M /\ Parent(b) >= a + 1 => \E i \in 1..Len(out) : out[i] = b
      /\ IsFiniteSet(B) /\ Len(out) = Cardinality(B)
  BY DEF Lists
<1>5. Parent(2 * a + 1) = a /\ Parent(2 * a + 2) = a
  BY <1>1, ChildFacts
<1>6. \A b \in 1..(2 * L - 2) : Parent(b) \in Nat /\ (Parent(b) = a => b = 2 * a + 1 \/ b = 2 * a + 2)
  <2> TAKE b \in 1..(2 * L - 2)
  <2>1. b \in Nat /\ b > 0
    BY <1>1
  <2> QED
    BY <2>1, ParentFacts
<1> HIDE DEF M
<1>7. ASSUME ~ OneMarked(M, a) PROVE Lists(L, M, r, a)
  <2>1. r = out
    BY <1>7 DEF OneMarked, Revealing
  <2>2. C = B
    <3>1. \A z \in a..(L - 2) : z = a \/ z \in (a + 1)..(L - 2)
      BY <1>1
    <3>2. \A z \in (a + 1)..(L - 2) : z \in a..(L - 2)
      BY <1>1
    <3> QED
      BY <1>7, <3>1, <3>2
  <2>3. ASSUME NEW b \in 1..(2 * L - 2), b \notin M, Parent(b) \in M, Parent(b) >= a
        PROVE  \E i \in 1..Len(out) : out[i] = b
    <3>1. Parent(b) # a
      BY <1>3, <1>6, <1>7, <2>3 DEF OneMarked
    <3>2. Parent(b) >= a + 1
      BY <1>1, <1>6, <2>3, <3>1
    <3> QED
      BY <1>4, <2>3, <3>2
  <2>4. \A i \in 1..Len(out) : Parent(out[i]) >= a
    <3> TAKE i \in 1..Len(out)
    <3>1. Parent(out[i]) \in Nat /\ Parent(out[i]) >= a + 1
      BY <1>4, <1>6
    <3> QED
      BY <1>1, <3>1
  <2>5. IsFiniteSet(C) /\ Len(out) = Cardinality(C)
    BY <1>4, <2>2
  <2> HIDE DEF B, C
  <2>6. Lists(L, M, out, a)
    BY <1>4, <2>3, <2>4, <2>5 DEF Lists, C
  <2> QED
    BY <2>1, <2>6
<1>8. ASSUME OneMarked(M, a) PROVE Lists(L, M, r, a)
  <2> DEFINE n == Len(out)
  <2>1. r = Append(out, x) /\ x \notin M /\ a \in M /\ x \in 1..(2 * L - 2) /\ Parent(x) = a
    BY <1>1, <1>3, <1>5, <1>8 DEF OneMarked, Revealing
  <2>2. C = B \cup {a} /\ a \notin B
    <3>1. \A z \in a..(L - 2) : z = a \/ z \in (a + 1)..(L - 2)
      BY <1>1
    <3>2. (\A z \in (a + 1)..(L - 2) : z \in a..(L - 2)) /\ a \in a..(L - 2) /\ a \notin (a + 1)..(L - 2)
      BY <1>1
    <3> QED
      BY <1>8, <3>1, <3>2
  <2>3. \A b \in 1..(2 * L - 2) :
          b \notin M /\ Parent(b) = a => b = x
    BY <1>6, <1>8 DEF OneMarked
  <2> HIDE DEF x, r
  <2>4. /\ r \in Seq(Nat) /\ n \in Nat /\ Len(r) = n + 1 /\ r[n + 1] = x
        /\ \A i \in 1..n : r[i] = out[i]
    <3>1. x \in Nat /\ out \in Seq(Nat)
      BY <1>1, <1>4, <2>1
    <3> QED
      BY <2>1, <3>1, AppendProperties
  <2> HIDE DEF n
  <2>5. \A i \in 1..n : /\ r[i] \in 1..(2 * L - 2) /\ r[i] \notin M
                        /\ Parent(r[i]) \in M /\ Parent(r[i]) >= a + 1
    BY <1>4, <2>4 DEF n
  <2>6. \A i \in 1..Len(r) : i \in 1..n \/ i = n + 1
    BY <2>4
  <2>7. ASSUME NEW i \in 1..Len(r)
        PROVE  /\ r[i] \in 1..(2 * L - 2) /\ r[i] \notin M
               /\ Parent(r[i]) \in M /\ Parent(r[i]) >= a
    <3>1. CASE i \in 1..n
      <4>1. /\ r[i] \in 1..(2 * L - 2) /\ r[i] \notin M
            /\ Parent(r[i]) \in M /\ Parent(r[i]) >= a + 1
        BY <2>5, <3>1
      <4>2. Parent(r[i]) \in Nat
        BY <1>6, <4>1
      <4>3. Parent(r[i]) >= a
        BY <1>1, <4>1, <4>2
      <4> QED
        BY <4>1, <4>3
    <3>2. CASE i = n + 1
      BY <1>1, <2>1, <2>4, <3>2
    <3> QED
      BY <2>6, <3>1, <3>2
  <2>8. ASSUME NEW i \in 1..n PROVE r[i] # x
    <3>1. Parent(r[i]) >= a + 1
      BY <2>5, <2>8
    <3>2. ~ (a >= a + 1)
      BY <1>1
    <3> QED
      BY <2>1, <3>1, <3>2
  <2>9. ASSUME NEW i \in 1..Len(r), NEW j \in 1..Len(r), r[i] = r[j] PROVE i = j
    <3>1. i \in 1..n /\ j \in 1..n => i = j
      BY <1>4, <2>4, <2>9 DEF n
    <3> QED
      BY <2>4, <2>6, <2>8, <2>9, <3>1
  <2>10. ASSUME NEW b \in 1..(2 * L - 2), b \notin M, Parent(b) \in M, Parent(b) >= a
         PROVE  \E i \in 1..Len(r) : r[i] = b
    <3>1. CASE Parent(b) = a
      <4>1. b = x /\ n + 1 \in 1..Len(r)
        BY <2>3, <2>4, <2>10, <3>1
      <4> QED
        BY <2>4, <4>1
    <3>2. CASE Parent(b) # a
      <4>1. Parent(b) >= a + 1
        BY <1>1, <1>6, <2>10, <3>2
      <4>2. PICK i \in 1..n : out[i] = b
        BY <1>4, <2>10, <4>1 DEF n
      <4>3. i \in 1..Len(r) /\ r[i] = b
        BY <2>4, <4>2
      <4> QED
        BY <4>3
    <3> QED
      BY <3>1, <3>2
  <2>11. IsFiniteSet(C) /\ Len(r) = Cardinality(C)
    <3>1. IsFiniteSet(B) /\ n = Cardinality(B)
      BY <1>4 DEF n
    <3> HIDE DEF B, C
    <3>2. IsFiniteSet(B \cup {a}) /\ Cardinality(B \cup {a}) = Cardinality(B) + 1
      BY <2>2, <3>1, FS_AddElement
    <3> QED
      BY <2>2, <2>4, <3>1, <3>2
  <2> HIDE DEF B, C
  <2> QED
    BY <2>4, <2>7, <2>9, <2>10, <2>11 DEF Lists, C
<1> QED
  BY <1>7, <1>8 DEF M

LEMMA ListsNone ==
  ASSUME NEW L, NEW H, LeavesOf(L, H)
  PROVE  Lists(L, Above(H), <<>>, L - 1)
<1>1. L \in Nat /\ L > 0
  BY DEF LeavesOf
<1>2. ASSUME NEW b \in 1..(2 * L - 2), Parent(b) >= L - 1 PROVE FALSE
  <2>1. b \in Nat /\ b > 0 /\ b <= 2 * L - 2
    BY <1>1
  <2>2. Parent(b) \in Nat /\ (b = 2 * Parent(b) + 1 \/ b = 2 * Parent(b) + 2)
    BY <2>1, ParentFacts
  <2> QED
    BY <1>1, <1>2, <2>1, <2>2
<1> DEFINE B == {a \in (L - 1)..(L - 2) : OneMarked(Above(H), a)}
<1>3. B = {}
  BY <1>1
<1>4. IsFiniteSet(B) /\ Cardinality(B) = 0
  BY <1>3, FS_EmptySet
<1> DEFINE e == <<>>
<1>5. e \in Seq(Nat) /\ Len(e) = 0
  OBVIOUS
<1> HIDE DEF B, e
<1>6. \A i \in 1..Len(e) : FALSE
  BY <1>5
<1>7. Lists(L, Above(H), e, L - 1)
  BY <1>2, <1>4, <1>5, <1>6 DEF Lists, B
<1> QED
  BY <1>7 DEF e

\* Where the walk starts makes no difference: it marks what is above the
\* hidden leaves and reveals the unmarked nodes with a marked parent.
LEMMA WalkResult ==
  ASSUME NEW p, NEW H, LeavesOf(p.L, H), NEW S, H \subseteq S, S \subseteq Above(H)
  PROVE  /\ Walk(p, S) = Walk(p, H) /\ Walk(p, H).S = Above(H)
         /\ Lists(p.L, Above(H), Walk(p, H).out, 0)
<1> DEFINE L == p.L
           M == Above(H)
<1>1. L \in Nat /\ L > 0
  BY DEF LeavesOf
<1>2. PICK f : Walked(L, S, f) /\ Walk(p, S) = f[L - 1]
  BY <1>1, WalkUnfold
<1>3. PICK g : Walked(L, H, g) /\ Walk(p, H) = g[L - 1]
  BY <1>1, WalkUnfold
<1>4. H \subseteq H /\ H \subseteq M /\ M \subseteq 0..(2 * L - 2)
  BY AboveFacts
<1>5. Marking(L, H, S, f) /\ Marking(L, H, H, g)
  BY <1>2, <1>3, <1>4, WalkMarks
<1>6. \A n \in 0..(L - 1) :
        /\ f[n].S = S \cup {a \in M : a >= L - 1 - n}
        /\ g[n].S = H \cup {a \in M : a >= L - 1 - n}
        /\ n = 0 => f[n].out = <<>> /\ g[n].out = <<>>
        /\ n > 0 => /\ f[n].out = Revealing(M, f[n - 1].out, L - 1 - n)
                    /\ g[n].out = Revealing(M, g[n - 1].out, L - 1 - n)
  BY <1>5 DEF Marking
<1> DEFINE T == {n \in Nat : n <= L - 1 =>
                   f[n].out = g[n].out /\ Lists(L, M, g[n].out, L - 1 - n)}
<1>7. 0 \in T
  <2>1. f[0].out = <<>> /\ g[0].out = <<>>
    BY <1>1, <1>6
  <2>2. L - 1 - 0 = L - 1
    BY <1>1
  <2> QED
    BY <2>1, <2>2, ListsNone
<1>8. ASSUME NEW n \in Nat, n \in T PROVE n + 1 \in T
  <2> SUFFICES ASSUME n + 1 <= L - 1
               PROVE  /\ f[n + 1].out = g[n + 1].out
                      /\ Lists(L, M, g[n + 1].out, L - 1 - (n + 1))
    OBVIOUS
  <2>1. f[n].out = g[n].out /\ Lists(L, M, g[n].out, L - 1 - n)
    BY <1>1, <1>8
  <2> DEFINE a == L - 1 - (n + 1)
  <2>2. n + 1 \in 0..(L - 1) /\ n + 1 > 0 /\ (n + 1) - 1 = n
    BY <1>1
  <2>3. a \in 0..(L - 2) /\ a + 1 = L - 1 - n
    BY <1>1
  <2>4. /\ f[n + 1].out = Revealing(M, f[n].out, a)
        /\ g[n + 1].out = Revealing(M, g[n].out, a)
    BY <1>6, <2>2
  <2> HIDE DEF a
  <2>5. Lists(L, M, Revealing(M, g[n].out, a), a)
    BY <2>1, <2>3, ListsStep
  <2> QED
    BY <2>1, <2>4, <2>5 DEF a
<1> HIDE DEF T
<1>9. L - 1 \in Nat /\ L - 1 \in T /\ L - 1 \in 0..(L - 1) /\ L - 1 - (L - 1) = 0
  BY <1>1, <1>7, <1>8, NatSetInduction
<1>10. /\ f[L - 1].out = g[L - 1].out
       /\ Lists(L, M, g[L - 1].out, 0)
  BY <1>9 DEF T
<1>11. {a \in M : a >= 0} = M
  BY <1>4
<1>12. f[L - 1].S = M /\ g[L - 1].S = M
  BY <1>4, <1>6, <1>9, <1>11
<1>13. /\ f[L - 1] = [S |-> f[L - 1].S, out |-> f[L - 1].out]
       /\ g[L - 1] = [S |-> g[L - 1].S, out |-> g[L - 1].out]
  <2>1. CASE L - 1 = 0
    BY <1>2, <1>3, <2>1 DEF Walked
  <2>2. CASE L - 1 # 0
    <3>1. L - 1 \in 1..(L - 1)
      BY <1>1, <2>2
    <3>2. \A w, a : WalkNode(w, a) = [S |-> WalkNode(w, a).S, out |-> WalkNode(w, a).out]
      BY DEF WalkNode
    <3> QED
      BY <1>2, <1>3, <3>1, <3>2 DEF Walked
  <2> QED
    BY <2>1, <2>2
<1> QED
  BY <1>2, <1>3, <1>10, <1>12, <1>13

-----------------------------------------------------------------------------
(* The marks made on the way up.                                           *)

UpClosed(S) == S \subseteq Nat /\ \A a \in S : a > 0 => Parent(a) \in S

LEMMA AncestorsWithin ==
  ASSUME NEW S, UpClosed(S), NEW a \in S
  PROVE  Ancestors(a) \subseteq S
<1> DEFINE T == {x \in Nat : x \in S => Ancestors(x) \subseteq S}
<1>1. ASSUME NEW n \in Nat, \A m \in 0..(n - 1) : m \in T PROVE n \in T
  <2> SUFFICES ASSUME n \in S PROVE Ancestors(n) \subseteq S
    OBVIOUS
  <2>1. CASE n = 0
    BY <2>1, AncestorsRec
  <2>2. CASE n > 0
    <3>1. Parent(n) \in S /\ Parent(n) \in 0..(n - 1)
      BY <2>2, ParentFacts DEF UpClosed
    <3>2. Ancestors(Parent(n)) \subseteq S
      BY <1>1, <3>1
    <3>3. Ancestors(n) = {n} \cup Ancestors(Parent(n))
      BY <2>2, AncestorsRec
    <3> QED
      BY <3>2, <3>3
  <2> QED
    BY <2>1, <2>2
<1> HIDE DEF T
<1>2. Nat \subseteq T
  BY <1>1, StrongInduction
<1>3. a \in Nat
  BY DEF UpClosed
<1> QED
  BY <1>2, <1>3 DEF T

\* From an unmarked node the walk up marks what is above it and was not.
LEMMA MarkUpMarks ==
  ASSUME NEW m, UpClosed(m.S), NEW leaf \in Nat, leaf \notin m.S
  PROVE  MarkUp(m, leaf) = [S |-> m.S \cup Ancestors(leaf),
                            n |-> m.n + Cardinality(Ancestors(leaf) \ m.S)]
<1> DEFINE S == m.S
           Good(f) == f = [a \in Nat |-> Climb(S, f, a)]
           up == CHOOSE f : Good(f)
           h == [a \in Nat |-> IF a \in S THEN {a} ELSE Ancestors(a) \ S]
<1>1. MarkUp(m, leaf) = [S |-> S \cup up[leaf], n |-> m.n + Cardinality(up[leaf])]
  BY DEF MarkUp
<1>2. UpClosed(S) /\ leaf \notin S
  OBVIOUS
<1> HIDE DEF S
<1>4. h = [a \in Nat |-> h[a]]
  OBVIOUS
<1>4a. \A a \in Nat : h[a] = IF a \in S THEN {a} ELSE Ancestors(a) \ S
  OBVIOUS
<1>5. \A a \in Nat \ S : h[a] = Ancestors(a) \ S
  OBVIOUS
<1> HIDE DEF h
<1>3. ASSUME NEW a \in Nat PROVE h[a] = Climb(S, h, a)
  <2>1. CASE a = 0
    <3>1. Ancestors(a) = {a}
      BY <2>1, AncestorsRec
    <3>2. Climb(S, h, a) = {a}
      BY <2>1 DEF Climb
    <3> QED
      BY <1>4a, <3>1, <3>2
  <2>2. CASE a > 0
    <3>0. a # 0
      BY <2>2
    <3>1. Parent(a) \in Nat /\ Ancestors(a) = {a} \cup Ancestors(Parent(a))
      BY <2>2, ParentFacts, AncestorsRec
    <3>2. a \in S => Parent(a) \in S
      BY <1>2, <2>2 DEF UpClosed
    <3>3. Parent(a) \in S => Ancestors(Parent(a)) \subseteq S
      BY <1>2, AncestorsWithin
    <3>4. CASE Parent(a) \in S
      <4>1. Climb(S, h, a) = {a}
        BY <3>4 DEF Climb
      <4>2. a \notin S => Ancestors(a) \ S = {a}
        BY <3>1, <3>3, <3>4
      <4> QED
        BY <1>4a, <4>1, <4>2
    <3>5. CASE Parent(a) \notin S
      <4>1. Climb(S, h, a) = {a} \cup h[Parent(a)]
        BY <3>0, <3>5 DEF Climb
      <4>2. h[Parent(a)] = Ancestors(Parent(a)) \ S
        BY <1>4a, <3>1, <3>5
      <4>3. h[a] = Ancestors(a) \ S /\ a \notin S
        BY <1>4a, <3>2, <3>5
      <4> QED
        BY <3>1, <4>1, <4>2, <4>3
    <3> QED
      BY <3>4, <3>5
  <2> QED
    BY <2>1, <2>2
<1>6. Good(h)
  BY <1>3, <1>4
<1>7. Good(up)
  BY <1>6
<1> HIDE DEF up
<1>8. \A a \in Nat : up[a] = Climb(S, up, a)
  BY <1>7
<1> DEFINE T == {a \in Nat : up[a] = h[a]}
<1>9. ASSUME NEW n \in Nat, \A k \in 0..(n - 1) : k \in T PROVE n \in T
  <2>1. up[n] = Climb(S, up, n) /\ h[n] = Climb(S, h, n)
    BY <1>3, <1>8
  <2>2. n > 0 => up[Parent(n)] = h[Parent(n)]
    <3> SUFFICES ASSUME n > 0 PROVE up[Parent(n)] = h[Parent(n)]
      OBVIOUS
    <3>1. Parent(n) \in 0..(n - 1)
      BY ParentFacts
    <3> QED
      BY <1>9, <3>1
  <2> QED
    BY <2>1, <2>2 DEF Climb
<1> HIDE DEF T
<1>10. Nat \subseteq T
  BY <1>9, StrongInduction
<1>11. up[leaf] = Ancestors(leaf) \ S
  BY <1>2, <1>5, <1>10 DEF T
<1>12. S \cup up[leaf] = S \cup Ancestors(leaf)
  BY <1>11
<1> QED
  BY <1>1, <1>11, <1>12 DEF S

\* An index of every vector.
InRange(p, delta) == \A i \in Vectors(p) : delta[i] \in Positions(p, i)

LEMMA HiddenAreLeaves ==
  ASSUME NEW p, Legal(p), NEW delta, InRange(p, delta)
  PROVE  LeavesOf(p.L, HiddenLeaves(p, delta))
<1>1. p.L \in Nat /\ p.L > 0 /\ p.tau \in Nat /\ p.tau > 0
  BY ParamFacts
<1>2. 0 \in Vectors(p)
  BY <1>1 DEF Vectors
<1>3. \A i \in Vectors(p) : PosInTree(p, i, delta[i]) \in (p.L - 1)..(2 * p.L - 2)
  BY PosIsLeaf DEF InRange
<1> QED
  BY <1>1, <1>2, <1>3 DEF LeavesOf, HiddenLeaves

\* mark[i] is what the walks from the first i hidden leaves marked.
LEMMA MarkUnfold ==
  ASSUME NEW p, NEW delta, p.tau \in Nat
  PROVE  \E mark : /\ mark[0] = [S |-> {}, n |-> 0] /\ MarkHidden(p, delta) = mark[p.tau]
                   /\ \A i \in 0..(p.tau - 1) :
                        mark[i + 1] = MarkUp(mark[i], PosInTree(p, i, delta[i]))
<1> DEFINE Good(f, n) == f = [i \in 0..n |-> MarkTurn(p, delta, f, i)]
           T == {n \in Nat : \E f : Good(f, n)}
<1>1. 0 \in T
  <2> DEFINE f == [i \in 0..0 |-> [S |-> {}, n |-> 0]]
  <2>1. Good(f, 0)
    BY DEF MarkTurn
  <2> QED
    BY <2>1
<1>2. ASSUME NEW n \in Nat, n \in T PROVE n + 1 \in T
  <2>1. PICK f : Good(f, n)
    BY <1>2
  <2> DEFINE g == [i \in 0..(n + 1) |-> IF i <= n THEN f[i] ELSE MarkTurn(p, delta, f, i)]
  <2>2. \A i \in 0..n : g[i] = f[i]
    OBVIOUS
  <2>3. g[n + 1] = MarkTurn(p, delta, f, n + 1)
    OBVIOUS
  <2>4. g = [i \in 0..(n + 1) |-> g[i]]
    OBVIOUS
  <2> HIDE DEF g
  <2>5. ASSUME NEW i \in 0..n PROVE g[i] = MarkTurn(p, delta, g, i)
    <3>1. f[i] = MarkTurn(p, delta, f, i)
      BY <2>1
    <3>2. i > 0 => g[i - 1] = f[i - 1]
      BY <2>2
    <3> QED
      BY <2>2, <3>1, <3>2 DEF MarkTurn
  <2>6. g[n + 1] = MarkTurn(p, delta, g, n + 1)
    <3>1. (n + 1) - 1 = n /\ n + 1 # 0 /\ g[n] = f[n]
      BY <2>2
    <3> QED
      BY <2>3, <3>1 DEF MarkTurn
  <2>7. \A i \in 0..(n + 1) : g[i] = MarkTurn(p, delta, g, i)
    <3>1. \A i \in 0..(n + 1) : i \in 0..n \/ i = n + 1
      OBVIOUS
    <3> QED
      BY <2>5, <2>6, <3>1
  <2>8. Good(g, n + 1)
    BY <2>4, <2>7
  <2> QED
    BY <2>8
<1> HIDE DEF T
<1>3. p.tau \in T
  BY <1>1, <1>2, NatSetInduction
<1> DEFINE mark == CHOOSE f : Good(f, p.tau)
<1>4. Good(mark, p.tau)
  BY <1>3 DEF T
<1>5. MarkHidden(p, delta) = mark[p.tau]
  BY DEF MarkHidden
<1> HIDE DEF mark
<1>6. mark[0] = [S |-> {}, n |-> 0]
  BY <1>4 DEF MarkTurn
<1>7. ASSUME NEW i \in 0..(p.tau - 1)
      PROVE  mark[i + 1] = MarkUp(mark[i], PosInTree(p, i, delta[i]))
  <2>1. i + 1 \in 0..p.tau /\ (i + 1) - 1 = i /\ i + 1 # 0
    OBVIOUS
  <2>2. mark[i + 1] = MarkTurn(p, delta, mark, i + 1)
    BY <1>4, <2>1
  <2> QED
    BY <2>1, <2>2 DEF MarkTurn
<1> QED
  BY <1>5, <1>6, <1>7

\* What the first n walks start from.
HiddenUpTo(p, delta, n) == {PosInTree(p, i, delta[i]) : i \in 0..(n - 1)}

LEMMA AboveUpClosed ==
  ASSUME NEW H, H \subseteq Nat
  PROVE  UpClosed(Above(H))
<1>1. \A l \in H : \A b \in Ancestors(l) : b \in Nat /\ (b > 0 => Parent(b) \in Ancestors(l))
  BY AncestorFacts
<1> QED
  BY <1>1 DEF UpClosed, Above

LEMMA MarkHiddenIs ==
  ASSUME NEW p, Legal(p), NEW delta, InRange(p, delta)
  PROVE  /\ IsFiniteSet(Above(HiddenLeaves(p, delta)))
         /\ MarkHidden(p, delta) = [S |-> Above(HiddenLeaves(p, delta)),
                                    n |-> Cardinality(Above(HiddenLeaves(p, delta)))]
<1> DEFINE U(i) == HiddenUpTo(p, delta, i)
           leaf(i) == PosInTree(p, i, delta[i])
<1>1. p.tau \in Nat /\ p.tau > 0 /\ p.L \in Nat /\ p.L > 0
  BY ParamFacts
<1>2. PICK mark : /\ mark[0] = [S |-> {}, n |-> 0] /\ MarkHidden(p, delta) = mark[p.tau]
                  /\ \A i \in 0..(p.tau - 1) : mark[i + 1] = MarkUp(mark[i], leaf(i))
  BY <1>1, MarkUnfold
<1>3. \A i \in 0..(p.tau - 1) : leaf(i) \in (p.L - 1)..(2 * p.L - 2)
  BY PosIsLeaf DEF InRange, Vectors
<1> HIDE DEF leaf
<1> DEFINE T == {i \in Nat : i <= p.tau =>
                   /\ IsFiniteSet(Above(U(i)))
                   /\ mark[i] = [S |-> Above(U(i)), n |-> Cardinality(Above(U(i)))]}
<1>4. 0 \in T
  <2>1. U(0) = {}
    BY DEF HiddenUpTo
  <2>2. Above({}) = {}
    BY DEF Above
  <2> QED
    BY <1>2, <2>1, <2>2, FS_EmptySet
<1>5. ASSUME NEW i \in Nat, i \in T PROVE i + 1 \in T
  <2> SUFFICES ASSUME i + 1 <= p.tau
               PROVE  /\ IsFiniteSet(Above(U(i + 1)))
                      /\ mark[i + 1] = [S |-> Above(U(i + 1)), n |-> Cardinality(Above(U(i + 1)))]
    OBVIOUS
  <2>0. i \in 0..(p.tau - 1) /\ i <= p.tau
    BY <1>1
  <2> DEFINE A == Above(U(i))
             l == leaf(i)
             N == Ancestors(l)
  <2>1. IsFiniteSet(A) /\ mark[i] = [S |-> A, n |-> Cardinality(A)]
    BY <1>5, <2>0
  <2>2. l \in Nat /\ l >= p.L - 1
    BY <1>1, <1>3, <2>0
  <2>3. U(i + 1) = U(i) \cup {l}
    <3>1. 0..((i + 1) - 1) = (0..(i - 1)) \cup {i}
      OBVIOUS
    <3> QED
      BY <3>1 DEF HiddenUpTo, leaf
  <2>4. Above(U(i + 1)) = A \cup N
    BY <2>3 DEF Above
  <2>5. U(i) \subseteq Nat
    <3>0. \A x \in 0..(i - 1) : x \in 0..(p.tau - 1)
      BY <1>1, <2>0
    <3>1. \A x \in 0..(i - 1) : leaf(x) \in (p.L - 1)..(2 * p.L - 2)
      BY <1>3, <3>0
    <3>2. (p.L - 1)..(2 * p.L - 2) \subseteq Nat
      BY <1>1
    <3> QED
      BY <3>1, <3>2 DEF HiddenUpTo, leaf
  <2>6. l \notin A
    <3> SUFFICES ASSUME l \in A PROVE FALSE
      OBVIOUS
    <3>1. PICK x \in 0..(i - 1) : l \in Ancestors(leaf(x))
      <4>1. PICK h \in U(i) : l \in Ancestors(h)
        BY DEF Above
      <4>2. PICK x \in 0..(i - 1) : h = PosInTree(p, x, delta[x])
        BY <4>1 DEF HiddenUpTo
      <4> QED
        BY <4>1, <4>2 DEF leaf
    <3>2. x \in 0..(p.tau - 1) /\ x # i
      BY <1>1, <2>0, <1>5
    <3>3. leaf(x) \in Nat /\ leaf(x) >= p.L - 1 /\ leaf(x) <= 2 * p.L - 2
      BY <1>1, <1>3, <3>2
    <3>4. l = leaf(x)
      <4>1. LeavesOf(p.L, {leaf(x)})
        BY <1>1, <3>3 DEF LeavesOf
      <4>2. l \in Above({leaf(x)})
        BY <3>1 DEF Above
      <4> QED
        BY <2>2, <4>1, <4>2, AboveFacts
    <3>5. /\ i \in Vectors(p) /\ x \in Vectors(p)
          /\ delta[i] \in Positions(p, i) /\ delta[x] \in Positions(p, x)
      BY <2>0, <3>2 DEF InRange, Vectors
    <3>6. PosInTree(p, i, delta[i]) = PosInTree(p, x, delta[x])
      BY <3>4 DEF leaf
    <3> QED
      BY <3>2, <3>5, <3>6, PosInjective
  <2>7. IsFiniteSet(N)
    <3>1. N \in SUBSET Nat /\ \A b \in N : b <= l
      BY <2>2, AncestorFacts
    <3> HIDE DEF N, l
    <3> QED
      BY <2>2, <3>1, FS_BoundedSetOfNaturals
  <2> HIDE DEF A, N, l, U
  <2>8. mark[i].S = A /\ mark[i].n = Cardinality(A)
    BY <2>1
  <2>9. UpClosed(mark[i].S) /\ l \notin mark[i].S
    BY <2>5, <2>6, <2>8, AboveUpClosed DEF A
  <2>10. mark[i + 1] = MarkUp(mark[i], l)
    BY <1>2, <2>0 DEF l
  <2>11. mark[i + 1] = [S |-> A \cup N, n |-> Cardinality(A) + Cardinality(N \ A)]
    <3>1. MarkUp(mark[i], l) = [S |-> mark[i].S \cup Ancestors(l),
                                n |-> mark[i].n + Cardinality(Ancestors(l) \ mark[i].S)]
      BY <2>2, <2>9, MarkUpMarks
    <3> QED
      BY <2>8, <2>10, <3>1 DEF N
  <2>12. IsFiniteSet(A \cup N) /\ Cardinality(A \cup N) = Cardinality(A) + Cardinality(N \ A)
    <3>1. IsFiniteSet(N \ A)
      BY <2>7, FS_Difference
    <3>2. /\ IsFiniteSet(A \cup (N \ A))
          /\ Cardinality(A \cup (N \ A)) = Cardinality(A) + Cardinality(N \ A) - Cardinality(A \cap (N \ A))
      BY <2>1, <3>1, FS_Union
    <3>3. A \cup (N \ A) = A \cup N /\ A \cap (N \ A) = {}
      OBVIOUS
    <3>4. Cardinality(A \cap (N \ A)) = 0
      BY <3>3, FS_EmptySet
    <3>5. Cardinality(A) \in Nat /\ Cardinality(N \ A) \in Nat
      BY <2>1, <3>1, FS_CardinalityType
    <3>6. Cardinality(A) + Cardinality(N \ A) - 0 = Cardinality(A) + Cardinality(N \ A)
      BY <3>5
    <3>7. Cardinality(A \cup N) = Cardinality(A \cup (N \ A))
      BY <3>3
    <3> QED
      BY <3>2, <3>3, <3>4, <3>6, <3>7
  <2> QED
    BY <2>4, <2>11, <2>12
<1> HIDE DEF T
<1>6. p.tau \in T
  BY <1>1, <1>4, <1>5, NatSetInduction
<1>7. U(p.tau) = HiddenLeaves(p, delta)
  BY DEF HiddenUpTo, HiddenLeaves, Vectors
<1> QED
  BY <1>1, <1>2, <1>6, <1>7 DEF T

-----------------------------------------------------------------------------
(* How many seeds are revealed.                                            *)

\* M below H: the inner nodes with a left, with a right kid in M.
LeftUp(L, M) == {a \in 0..(L - 2) : 2 * a + 1 \in M}
RightUp(L, M) == {a \in 0..(L - 2) : 2 * a + 2 \in M}

\* Every marked node but the root is the left or the right kid of one.
LEMMA KidsCounted ==
  ASSUME NEW L, NEW H, LeavesOf(L, H), IsFiniteSet(Above(H))
  PROVE  /\ IsFiniteSet(LeftUp(L, Above(H))) /\ IsFiniteSet(RightUp(L, Above(H)))
         /\ Cardinality(LeftUp(L, Above(H))) + Cardinality(RightUp(L, Above(H))) + 1
              = Cardinality(Above(H))
<1> DEFINE M == Above(H)
           A == LeftUp(L, M)
           B == RightUp(L, M)
           odd == {b \in M : \E a \in A : b = 2 * a + 1}
           even == {b \in M : \E a \in B : b = 2 * a + 2}
           f == [a \in A |-> 2 * a + 1]
           g == [a \in B |-> 2 * a + 2]
<1>1. L \in Nat /\ L > 0
  BY DEF LeavesOf
<1>2. M \subseteq 0..(2 * L - 2) /\ 0 \in M
  BY AboveFacts
<1>3. A \subseteq 0..(L - 2) /\ \A a \in A : 2 * a + 1 \in M
  BY DEF LeftUp
<1>4. B \subseteq 0..(L - 2) /\ \A a \in B : 2 * a + 2 \in M
  BY DEF RightUp
<1>5. \A b \in M \ {0} : b \in odd \/ b \in even
  <2> SUFFICES ASSUME NEW b \in M \ {0} PROVE b \in odd \/ b \in even
    OBVIOUS
  <2>1. b \in Nat /\ b > 0 /\ b <= 2 * L - 2
    BY <1>1, <1>2
  <2>2. /\ Parent(b) \in Nat
        /\ b = 2 * Parent(b) + 1 \/ b = 2 * Parent(b) + 2
    BY <2>1, ParentFacts
  <2>3. Parent(b) \in 0..(L - 2)
    BY <1>1, <2>1, <2>2
  <2> QED
    BY <2>2, <2>3 DEF LeftUp, RightUp
<1> HIDE DEF M, A, B
<1>6. f \in [A -> odd] /\ g \in [B -> even]
  BY <1>3, <1>4
<1>7. /\ \A x, y \in A : f[x] = f[y] => x = y
      /\ \A x, y \in B : g[x] = g[y] => x = y
  <2>1. A \subseteq Nat /\ B \subseteq Nat
    BY <1>1, <1>3, <1>4
  <2> QED
    BY <2>1
<1>8. /\ \A t \in odd : \E s \in A : f[s] = t
      /\ \A t \in even : \E s \in B : g[s] = t
  OBVIOUS
<1>9. IsFiniteSet(A) /\ IsFiniteSet(B)
  <2>1. IsFiniteSet(0..(L - 2))
    BY <1>1, FS_Interval
  <2> QED
    BY <1>3, <1>4, <2>1, FS_Subset
<1>10. odd \cap even = {} /\ odd \cup even = M \ {0}
  <2>1. \A b \in odd : b \notin even /\ b # 0
    <3>1. A \subseteq Nat /\ B \subseteq Nat
      BY <1>1, <1>3, <1>4
    <3> QED
      BY <3>1
  <2>2. \A b \in even : b # 0
    BY <1>1, <1>4
  <2> QED
    BY <1>5, <2>1, <2>2
<1> HIDE DEF odd, even, f, g
<1>11. f \in Bijection(A, odd) /\ g \in Bijection(B, even)
  BY <1>6, <1>7, <1>8, Fun_IsBij
<1>12. /\ IsFiniteSet(odd) /\ Cardinality(odd) = Cardinality(A)
       /\ IsFiniteSet(even) /\ Cardinality(even) = Cardinality(B)
  BY <1>9, <1>11, FS_Bijection DEF ExistsBijection
<1>13. Cardinality(odd \cup even) = Cardinality(A) + Cardinality(B)
  <2>1. Cardinality(odd \cup even) = Cardinality(odd) + Cardinality(even) - Cardinality(odd \cap even)
    BY <1>12, FS_Union
  <2>2. Cardinality(odd \cap even) = 0
    BY <1>10, FS_EmptySet
  <2>3. Cardinality(A) \in Nat /\ Cardinality(B) \in Nat
    BY <1>9, FS_CardinalityType
  <2> QED
    BY <1>12, <2>1, <2>2, <2>3
<1>14. Cardinality(M \ {0}) = Cardinality(M) - 1 /\ Cardinality(M) \in Nat
  BY <1>2, FS_RemoveElement, FS_CardinalityType DEF M
<1>15. Cardinality(A) \in Nat /\ Cardinality(B) \in Nat
  BY <1>9, FS_CardinalityType
<1>16. Cardinality(A) + Cardinality(B) = Cardinality(M) - 1
  BY <1>10, <1>13, <1>14
<1>17. Cardinality(A) + Cardinality(B) + 1 = Cardinality(M)
  BY <1>14, <1>15, <1>16
<1> QED
  BY <1>9, <1>17 DEF M, A, B

LEMMA OneMarkedCounted ==
  ASSUME NEW L, NEW H, LeavesOf(L, H), IsFiniteSet(Above(H))
  PROVE  /\ IsFiniteSet(H)
         /\ Cardinality({a \in 0..(L - 2) : OneMarked(Above(H), a)})
              = Cardinality(Above(H)) - 2 * Cardinality(H) + 1
<1> DEFINE M == Above(H)
           A == LeftUp(L, M)
           B == RightUp(L, M)
           one == {a \in 0..(L - 2) : OneMarked(M, a)}
<1>1. L \in Nat /\ L > 0 /\ H \subseteq (L - 1)..(2 * L - 2)
  BY DEF LeavesOf
<1>2. M \subseteq 0..(2 * L - 2) /\ H \subseteq M /\ \A a \in M : a >= L - 1 => a \in H
  BY AboveFacts
<1>3. \A a \in 0..(L - 2) : a \in M <=> 2 * a + 1 \in M \/ 2 * a + 2 \in M
  BY MarkedInside
<1>4. A \cup B = M \ H
  <2>1. \A a \in M \ H : a \in 0..(L - 2)
    BY <1>1, <1>2
  <2>2. \A a \in H : a \notin 0..(L - 2)
    BY <1>1
  <2> HIDE DEF M
  <2>3. \A a \in M \ H : a \in A \/ a \in B
    BY <1>3, <2>1 DEF LeftUp, RightUp
  <2>4. \A a : a \in A \/ a \in B => a \in M /\ a \notin H
    BY <1>3, <2>2 DEF LeftUp, RightUp
  <2> HIDE DEF A, B
  <2> QED
    BY <2>3, <2>4
<1>5. one = (A \cup B) \ (A \cap B)
  BY DEF OneMarked, LeftUp, RightUp
<1>6. IsFiniteSet(M) /\ IsFiniteSet(A) /\ IsFiniteSet(B)
  BY KidsCounted
<1>7. Cardinality(A) + Cardinality(B) + 1 = Cardinality(M)
  BY KidsCounted
<1> HIDE DEF M, A, B, one
<1>8. IsFiniteSet(H)
  BY <1>2, <1>6, FS_Subset
<1>9. Cardinality(A \cup B) = Cardinality(M) - Cardinality(H)
  <2>1. Cardinality(M \ H) = Cardinality(M) - Cardinality(M \cap H)
    BY <1>6, FS_Difference
  <2>2. M \cap H = H
    BY <1>2
  <2> QED
    BY <1>4, <2>1, <2>2
<1>10. Cardinality(A \cup B) = Cardinality(A) + Cardinality(B) - Cardinality(A \cap B)
  BY <1>6, FS_Union
<1>11. IsFiniteSet(A \cup B) /\ IsFiniteSet(A \cap B)
  <2>1. IsFiniteSet(A \cup B)
    BY <1>6, FS_Union
  <2>2. A \cap B \in SUBSET A
    OBVIOUS
  <2> QED
    BY <1>6, <2>1, <2>2, FS_Subset
<1>12. Cardinality(one) = Cardinality(A \cup B) - Cardinality(A \cap B)
  <2>1. Cardinality(one) = Cardinality(A \cup B) - Cardinality((A \cup B) \cap (A \cap B))
    BY <1>5, <1>11, FS_Difference
  <2>2. (A \cup B) \cap (A \cap B) = A \cap B
    OBVIOUS
  <2> QED
    BY <2>1, <2>2
<1>13. /\ Cardinality(A) \in Nat /\ Cardinality(B) \in Nat /\ Cardinality(M) \in Nat
       /\ Cardinality(H) \in Nat /\ Cardinality(A \cup B) \in Nat /\ Cardinality(A \cap B) \in Nat
  BY <1>6, <1>8, <1>11, FS_CardinalityType
<1>14. Cardinality(one) = Cardinality(M) - 2 * Cardinality(H) + 1
  BY <1>7, <1>9, <1>10, <1>12, <1>13
<1> QED
  BY <1>8, <1>14 DEF M, one

LEMMA HiddenCounted ==
  ASSUME NEW p, Legal(p), NEW delta, InRange(p, delta)
  PROVE  Cardinality(HiddenLeaves(p, delta)) = p.tau
<1> DEFINE H == HiddenLeaves(p, delta)
           f == [i \in Vectors(p) |-> PosInTree(p, i, delta[i])]
<1>1. f \in [Vectors(p) -> H] /\ \A t \in H : \E i \in Vectors(p) : f[i] = t
  BY DEF HiddenLeaves
<1>2. \A i, x \in Vectors(p) : f[i] = f[x] => i = x
  BY PosInjective DEF InRange
<1> HIDE DEF f, H
<1>3. f \in Bijection(Vectors(p), H)
  BY <1>1, <1>2, Fun_IsBij
<1>4. IsFiniteSet(Vectors(p)) /\ Cardinality(Vectors(p)) = p.tau
  <2>1. p.tau \in Nat /\ p.tau > 0
    BY ParamFacts
  <2>2. 0 \in Int /\ p.tau - 1 \in Int /\ ~ (0 > p.tau - 1) /\ (p.tau - 1) - 0 + 1 = p.tau
    BY <2>1
  <2> QED
    BY <2>2, FS_Interval DEF Vectors
<1> QED
  BY <1>3, <1>4, FS_Bijection DEF ExistsBijection, H

\* The walk down writes as many seeds as the marks of the walk up promise,
\* and both walks mark and order the tree alike.
LEMMA WalksAgree ==
  ASSUME NEW p, Legal(p), NEW delta, InRange(p, delta)
  PROVE  /\ Walk(p, MarkHidden(p, delta).S) = WalkHidden(p, delta)
         /\ WalkHidden(p, delta).S = Above(HiddenLeaves(p, delta))
         /\ Lists(p.L, Above(HiddenLeaves(p, delta)), WalkHidden(p, delta).out, 0)
         /\ Len(WalkHidden(p, delta).out) = Revealed(p, delta)
<1> DEFINE H == HiddenLeaves(p, delta)
           M == Above(H)
           out == Walk(p, H).out
<1>1. LeavesOf(p.L, H)
  BY HiddenAreLeaves
<1>2. IsFiniteSet(M) /\ MarkHidden(p, delta).S = M /\ MarkHidden(p, delta).n = Cardinality(M)
  BY MarkHiddenIs
<1>3. H \subseteq M
  BY <1>1, AboveFacts
<1>4. /\ Walk(p, M) = Walk(p, H) /\ Walk(p, H).S = M
      /\ Lists(p.L, M, out, 0)
  BY <1>1, <1>3, WalkResult
<1>5. Len(out) = Cardinality({a \in 0..(p.L - 2) : OneMarked(M, a)})
  BY <1>4 DEF Lists
<1>6. Len(out) = Cardinality(M) - 2 * Cardinality(H) + 1
  BY <1>1, <1>2, <1>5, OneMarkedCounted
<1>7. Len(out) = Revealed(p, delta)
  BY <1>2, <1>6, HiddenCounted DEF Revealed
<1> QED
  BY <1>2, <1>4, <1>7 DEF WalkHidden

-----------------------------------------------------------------------------
(* The trees of the two sides.                                             *)

LEMMA ExpandUnfold ==
  ASSUME NEW p, p.L \in Nat, p.L > 0, NEW root, NEW iv
  PROVE  \A a \in TreeNodes(p) :
           Expand(p, root, iv)[a] = ExpandNode(root, iv, Expand(p, root, iv), a)
<1> DEFINE Good(f, n) == f = [a \in 0..n |-> ExpandNode(root, iv, f, a)]
           T == {n \in Nat : \E f : Good(f, n)}
<1>1. 0 \in T
  <2> DEFINE e == [a \in 0..0 |-> 0]
             f == [a \in 0..0 |-> ExpandNode(root, iv, e, 0)]
  <2>1. Good(f, 0)
    BY DEF ExpandNode
  <2> QED
    BY <2>1
<1>2. ASSUME NEW n \in Nat, n \in T PROVE n + 1 \in T
  <2>1. PICK f : Good(f, n)
    BY <1>2
  <2> DEFINE g == [a \in 0..(n + 1) |-> IF a <= n THEN f[a] ELSE ExpandNode(root, iv, f, a)]
  <2>2. \A a \in 0..n : g[a] = f[a]
    OBVIOUS
  <2>3. g[n + 1] = ExpandNode(root, iv, f, n + 1)
    OBVIOUS
  <2>4. g = [a \in 0..(n + 1) |-> g[a]]
    OBVIOUS
  <2> HIDE DEF g
  <2>5. ASSUME NEW a \in 0..(n + 1), a > 0 PROVE g[Parent(a)] = f[Parent(a)]
    <3>0. a \in Nat /\ a <= n + 1
      OBVIOUS
    <3>0a. Parent(a) \in Nat /\ Parent(a) < a
      BY <2>5, <3>0, ParentFacts
    <3>1. Parent(a) \in 0..n
      BY <3>0, <3>0a
    <3> QED
      BY <2>2, <3>1
  <2>6. ASSUME NEW a \in 0..(n + 1) PROVE ExpandNode(root, iv, f, a) = ExpandNode(root, iv, g, a)
    <3>1. CASE a = 0
      BY <3>1 DEF ExpandNode
    <3>2. CASE a # 0
      <4>1. g[Parent(a)] = f[Parent(a)]
        BY <2>5, <3>2
      <4> QED
        BY <4>1 DEF ExpandNode
    <3> QED
      BY <3>1, <3>2
  <2>7. ASSUME NEW a \in 0..(n + 1) PROVE g[a] = ExpandNode(root, iv, g, a)
    <3>1. CASE a \in 0..n
      <4>1. f[a] = ExpandNode(root, iv, f, a)
        BY <2>1, <3>1
      <4> QED
        BY <2>2, <2>6, <3>1, <4>1
    <3>2. CASE a = n + 1
      BY <2>3, <2>6, <3>2
    <3> QED
      BY <3>1, <3>2
  <2>8. Good(g, n + 1)
    BY <2>4, <2>7
  <2> QED
    BY <2>8
<1> HIDE DEF T
<1>3. 2 * p.L - 2 \in T
  BY <1>1, <1>2, NatSetInduction
<1> DEFINE tree == CHOOSE f : Good(f, 2 * p.L - 2)
<1>4. Good(tree, 2 * p.L - 2)
  BY <1>3 DEF T
<1>5. Expand(p, root, iv) = tree
  BY DEF Expand, TreeNodes
<1> HIDE DEF tree
<1> QED
  BY <1>4, <1>5 DEF TreeNodes

LEMMA RebuildUnfold ==
  ASSUME NEW p, p.L \in Nat, p.L > 0, NEW seeds, NEW delta, NEW iv
  PROVE  \A a \in TreeNodes(p) :
           RebuildTree(p, seeds, delta, iv)[a]
             = RebuildNode(WalkHidden(p, delta), seeds, iv, RebuildTree(p, seeds, delta, iv), a)
<1> DEFINE w == WalkHidden(p, delta)
           Good(f, n) == f = [a \in 0..n |-> RebuildNode(w, seeds, iv, f, a)]
           T == {n \in Nat : \E f : Good(f, n)}
<1>1. 0 \in T
  <2> DEFINE e == [a \in 0..0 |-> 0]
             f == [a \in 0..0 |-> RebuildNode(w, seeds, iv, e, 0)]
  <2>1. Good(f, 0)
    BY DEF RebuildNode
  <2> QED
    BY <2>1
<1>2. ASSUME NEW n \in Nat, n \in T PROVE n + 1 \in T
  <2>1. PICK f : Good(f, n)
    BY <1>2
  <2> DEFINE g == [a \in 0..(n + 1) |-> IF a <= n THEN f[a] ELSE RebuildNode(w, seeds, iv, f, a)]
  <2>2. \A a \in 0..n : g[a] = f[a]
    OBVIOUS
  <2>3. g[n + 1] = RebuildNode(w, seeds, iv, f, n + 1)
    OBVIOUS
  <2>4. g = [a \in 0..(n + 1) |-> g[a]]
    OBVIOUS
  <2> HIDE DEF g
  <2>5. ASSUME NEW a \in 0..(n + 1), a > 0 PROVE g[Parent(a)] = f[Parent(a)]
    <3>0. a \in Nat /\ a <= n + 1
      OBVIOUS
    <3>0a. Parent(a) \in Nat /\ Parent(a) < a
      BY <2>5, <3>0, ParentFacts
    <3>1. Parent(a) \in 0..n
      BY <3>0, <3>0a
    <3> QED
      BY <2>2, <3>1
  <2>6. ASSUME NEW a \in 0..(n + 1) PROVE RebuildNode(w, seeds, iv, f, a) = RebuildNode(w, seeds, iv, g, a)
    <3>1. CASE a = 0
      BY <3>1 DEF RebuildNode
    <3>2. CASE a # 0
      <4>1. g[Parent(a)] = f[Parent(a)]
        BY <2>5, <3>2
      <4> QED
        BY <4>1 DEF RebuildNode
    <3> QED
      BY <3>1, <3>2
  <2>7. ASSUME NEW a \in 0..(n + 1) PROVE g[a] = RebuildNode(w, seeds, iv, g, a)
    <3>1. CASE a \in 0..n
      <4>1. f[a] = RebuildNode(w, seeds, iv, f, a)
        BY <2>1, <3>1
      <4> QED
        BY <2>2, <2>6, <3>1, <4>1
    <3>2. CASE a = n + 1
      BY <2>3, <2>6, <3>2
    <3> QED
      BY <3>1, <3>2
  <2>8. Good(g, n + 1)
    BY <2>4, <2>7
  <2> QED
    BY <2>8
<1> HIDE DEF T
<1>3. 2 * p.L - 2 \in T
  BY <1>1, <1>2, NatSetInduction
<1> DEFINE tree == CHOOSE f : Good(f, 2 * p.L - 2)
<1>4. Good(tree, 2 * p.L - 2)
  BY <1>3 DEF T
<1>5. RebuildTree(p, seeds, delta, iv) = tree
  BY DEF RebuildTree, TreeNodes
<1> HIDE DEF tree
<1> QED
  BY <1>4, <1>5 DEF TreeNodes

\* A seed is the path of nodes it was drawn through, from the root's own x.
Steps(x, iv) == {x} \cup {<<iv, b>> : b \in Nat}

PathTree(p, x, iv, tree) ==
  /\ tree[0] = <<x>>
  /\ \A a \in 1..(2 * p.L - 2) : tree[a] = Append(tree[Parent(a)], <<iv, a>>)

LEMMA PrgStep ==
  ASSUME NEW a \in Nat, a > 0, NEW seed, NEW iv
  PROVE  Prg(seed, iv, Parent(a), (a + 1) % 2) = Append(seed, <<iv, a>>)
<1>1. 2 * Parent(a) + 1 + ((a + 1) % 2) = a
  <2> DEFINE q == Parent(a)
             r == (a + 1) % 2
  <2>0. /\ Parent(a) \in Nat
        /\ \/ a = 2 * Parent(a) + 1 /\ (a + 1) % 2 = 0
           \/ a = 2 * Parent(a) + 2 /\ (a + 1) % 2 = 1
    BY ParentFacts
  <2>1. q \in Nat /\ ((a = 2 * q + 1 /\ r = 0) \/ (a = 2 * q + 2 /\ r = 1))
    BY <2>0
  <2> HIDE DEF q, r
  <2>2. 2 * q + 1 + r = a
    BY <2>1
  <2> QED
    BY <2>2 DEF q, r
<1> QED
  BY <1>1 DEF Prg

LEMMA ExpandIsPath ==
  ASSUME NEW p, p.L \in Nat, p.L > 0, NEW x, NEW iv
  PROVE  PathTree(p, x, iv, Expand(p, <<x>>, iv))
<1> DEFINE root == <<x>>
           tree == Expand(p, root, iv)
<1> HIDE DEF root
<1>1. \A a \in TreeNodes(p) : tree[a] = ExpandNode(root, iv, tree, a)
  BY ExpandUnfold
<1> HIDE DEF tree
<1>2. tree[0] = root
  <2>1. 0 \in TreeNodes(p)
    BY DEF TreeNodes
  <2> QED
    BY <1>1, <2>1 DEF ExpandNode
<1>3. ASSUME NEW a \in 1..(2 * p.L - 2) PROVE tree[a] = Append(tree[Parent(a)], <<iv, a>>)
  <2>1. a \in TreeNodes(p) /\ a \in Nat /\ a > 0 /\ a # 0
    BY DEF TreeNodes
  <2>2. tree[a] = Prg(tree[Parent(a)], iv, Parent(a), (a + 1) % 2)
    BY <1>1, <2>1 DEF ExpandNode
  <2> QED
    BY <2>1, <2>2, PrgStep
<1> QED
  BY <1>2, <1>3 DEF PathTree, tree, root

\* The seed of node a: x, then the nodes on the way from the root to a.
PathOf(x, iv, s, a) ==
  /\ s \in Seq(Steps(x, iv)) /\ Len(s) > 0 /\ s[1] = x
  /\ \A i \in 2..Len(s) : \E b \in Ancestors(a) : s[i] = <<iv, b>>
  /\ a > 0 => Len(s) > 1 /\ s[Len(s)] = <<iv, a>>

LEMMA PathsAre ==
  ASSUME NEW p, p.L \in Nat, p.L > 0, NEW x, NEW iv, NEW tree, PathTree(p, x, iv, tree),
         NEW a \in 0..(2 * p.L - 2)
  PROVE  PathOf(x, iv, tree[a], a)
<1> DEFINE T == {n \in Nat : n <= 2 * p.L - 2 => PathOf(x, iv, tree[n], n)}
           S == Steps(x, iv)
<1>1. x \in S /\ \A b \in Nat : <<iv, b>> \in S
  BY DEF Steps
<1>2. ASSUME NEW n \in Nat, \A m \in 0..(n - 1) : m \in T PROVE n \in T
  <2> SUFFICES ASSUME n <= 2 * p.L - 2 PROVE PathOf(x, iv, tree[n], n)
    OBVIOUS
  <2>1. CASE n = 0
    <3> DEFINE s == tree[0]
    <3>1. s = <<x>>
      BY DEF PathTree
    <3>2. s \in Seq(S) /\ Len(s) = 1 /\ s[1] = x
      BY <1>1, <3>1
    <3> HIDE DEF s
    <3>3. \A i \in 2..Len(s) : FALSE
      BY <3>2
    <3>4. ~ (0 > 0) /\ Len(s) > 0
      BY <3>2
    <3>5. PathOf(x, iv, s, 0)
      BY <3>2, <3>3, <3>4 DEF PathOf
    <3> QED
      BY <2>1, <3>5 DEF s
  <2>2. CASE n > 0
    <3> DEFINE q == Parent(n)
               s == tree[q]
               e == <<iv, n>>
               r == tree[n]
    <3>1. q \in Nat /\ q < n /\ Ancestors(n) = {n} \cup Ancestors(q)
      BY <2>2, ParentFacts, AncestorsRec
    <3>2. n \in 1..(2 * p.L - 2)
      BY <2>2
    <3>3. r = Append(s, e)
      BY <3>2 DEF PathTree
    <3>4. q \in T /\ q <= 2 * p.L - 2
      BY <1>2, <3>1
    <3>5. PathOf(x, iv, s, q)
      BY <3>4
    <3>6. e \in S
      BY <1>1
    <3> HIDE DEF q, s, r, S, T
    <3>7. /\ s \in Seq(S) /\ Len(s) > 0 /\ s[1] = x
          /\ \A i \in 2..Len(s) : \E b \in Ancestors(q) : s[i] = <<iv, b>>
      BY <3>5 DEF PathOf, S
    <3> HIDE DEF e
    <3>8. /\ r \in Seq(S) /\ Len(r) = Len(s) + 1 /\ r[Len(s) + 1] = e
          /\ \A i \in 1..Len(s) : r[i] = s[i]
      BY <3>3, <3>6, <3>7, AppendProperties
    <3>9. Len(s) \in Nat
      BY <3>7, LenProperties
    <3>10. r[1] = x /\ Len(r) > 1
      <4>1. 1 \in 1..Len(s)
        BY <3>7, <3>9
      <4> QED
        BY <3>7, <3>8, <3>9, <4>1
    <3>11. ASSUME NEW i \in 2..Len(r) PROVE \E b \in Ancestors(n) : r[i] = <<iv, b>>
      <4>1. CASE i = Len(s) + 1
        BY <3>1, <3>8, <4>1 DEF e
      <4>2. CASE i # Len(s) + 1
        <5>1. i \in 2..Len(s) /\ i \in 1..Len(s)
          BY <3>8, <3>9, <4>2
        <5>2. r[i] = s[i]
          BY <3>8, <5>1
        <5>3. PICK b \in Ancestors(q) : s[i] = <<iv, b>>
          BY <3>7, <5>1
        <5> QED
          BY <3>1, <5>2, <5>3
      <4> QED
        BY <4>1, <4>2
    <3>12. r[Len(r)] = <<iv, n>> /\ Len(r) > 0
      BY <3>8, <3>10 DEF e
    <3>13. PathOf(x, iv, r, n)
      BY <3>8, <3>10, <3>11, <3>12 DEF PathOf, S
    <3> QED
      BY <3>13 DEF r
  <2> QED
    BY <2>1, <2>2
<1> HIDE DEF T
<1>3. Nat \subseteq T
  BY <1>2, StrongInduction
<1>4. a \in T /\ a <= 2 * p.L - 2
  BY <1>3
<1> QED
  BY <1>4 DEF T

\* s is the beginning of t.
Begins(s, t) == 0 < Len(s) /\ Len(s) <= Len(t) /\ SubSeq(t, 1, Len(s)) = s

\* The seed of one node is the beginning of another's exactly when the node
\* lies above the other.
LEMMA BeginsWhenAbove ==
  ASSUME NEW p, p.L \in Nat, p.L > 0, NEW x, NEW iv, NEW tree, PathTree(p, x, iv, tree),
         NEW a \in 0..(2 * p.L - 2), NEW l \in 0..(2 * p.L - 2)
  PROVE  Begins(tree[a], tree[l]) <=> a \in Ancestors(l)
<1> DEFINE S == Steps(x, iv)
           Front(s, t) == Len(s) <= Len(t) /\ \A i \in 1..Len(s) : t[i] = s[i]
<1>1. ASSUME NEW n \in 0..(2 * p.L - 2)
      PROVE  /\ tree[n] \in Seq(S) /\ Len(tree[n]) \in Nat /\ Len(tree[n]) > 0
             /\ \A i \in 2..Len(tree[n]) : \E b \in Ancestors(n) : tree[n][i] = <<iv, b>>
             /\ n > 0 => Len(tree[n]) > 1 /\ tree[n][Len(tree[n])] = <<iv, n>>
  <2>1. PathOf(x, iv, tree[n], n)
    BY <1>1, PathsAre
  <2>2. tree[n] \in Seq(S)
    BY <2>1 DEF PathOf
  <2>3. Len(tree[n]) \in Nat
    BY <2>2, LenProperties
  <2> QED
    BY <2>1, <2>3 DEF PathOf
<1> HIDE DEF S
<1>2. ASSUME a \in Ancestors(l) PROVE Front(tree[a], tree[l])
  <2> DEFINE T == {n \in Nat : n <= 2 * p.L - 2 /\ a \in Ancestors(n) => Front(tree[a], tree[n])}
  <2>1. ASSUME NEW n \in Nat, \A m \in 0..(n - 1) : m \in T PROVE n \in T
    <3> SUFFICES ASSUME n <= 2 * p.L - 2, a \in Ancestors(n) PROVE Front(tree[a], tree[n])
      OBVIOUS
    <3>0. n \in 0..(2 * p.L - 2)
      OBVIOUS
    <3>1. CASE a = n
      <4>1. Len(tree[n]) \in Nat
        BY <1>1, <3>0
      <4> QED
        BY <3>1, <4>1
    <3>2. CASE a # n
      <4> DEFINE q == Parent(n)
                 s == tree[q]
                 r == tree[n]
                 e == <<iv, n>>
      <4>1. n > 0
        BY <3>2, AncestorsRec
      <4>2. q \in Nat /\ q < n /\ a \in Ancestors(q)
        BY <3>2, <4>1, ParentFacts, AncestorsRec
      <4>3. q \in T /\ q \in 0..(2 * p.L - 2)
        BY <2>1, <4>2
      <4>4. Front(tree[a], s)
        BY <4>2, <4>3
      <4>5. r = Append(s, e)
        BY <4>1 DEF PathTree
      <4>6. s \in Seq(S) /\ e \in S /\ Len(s) \in Nat /\ Len(tree[a]) \in Nat
        BY <1>1, <4>3 DEF S, Steps
      <4> HIDE DEF s, r, e, q
      <4>7. Len(r) = Len(s) + 1 /\ \A i \in 1..Len(s) : r[i] = s[i]
        BY <4>5, <4>6, AppendProperties
      <4>8. \A i \in 1..Len(tree[a]) : i \in 1..Len(s)
        BY <4>4, <4>6
      <4>9. Front(tree[a], r)
        BY <4>4, <4>6, <4>7, <4>8
      <4> QED
        BY <4>9 DEF r
    <3> QED
      BY <3>1, <3>2
  <2> HIDE DEF T
  <2>2. l \in Nat /\ l <= 2 * p.L - 2 /\ l \in T
    BY <2>1, StrongInduction
  <2> QED
    BY <1>2, <2>2 DEF T
<1>3. ASSUME a \in Ancestors(l) PROVE Begins(tree[a], tree[l])
  <2> DEFINE s == tree[a]
             t == tree[l]
             n == Len(s)
             u == SubSeq(t, 1, n)
  <2>1. Front(s, t) /\ s \in Seq(S) /\ t \in Seq(S) /\ n \in Nat /\ n > 0 /\ Len(t) \in Nat
    BY <1>1, <1>2, <1>3
  <2> HIDE DEF s, t
  <2>2. \A i \in 1..n : t[i] \in S
    <3>1. \A i \in 1..n : i \in 1..Len(t)
      BY <2>1
    <3> QED
      BY <2>1, <3>1, ElementOfSeq
  <2> HIDE DEF n
  <2>3. u \in Seq(S) /\ Len(u) = (IF 1 <= n THEN n - 1 + 1 ELSE 0)
        /\ \A i \in 1..(n - 1 + 1) : u[i] = t[1 + i - 1]
    BY <2>1, <2>2, SubSeqProperties
  <2> HIDE DEF u
  <2>4. Len(u) = n /\ \A i \in 1..n : u[i] = s[i]
    <3>1. n - 1 + 1 = n /\ 1 <= n /\ \A i \in 1..n : 1 + i - 1 = i
      BY <2>1
    <3>2. \A i \in 1..n : u[i] = t[i]
      BY <2>3, <3>1
    <3> QED
      BY <2>1, <2>3, <3>1, <3>2 DEF n
  <2>5. u = s
    BY <2>1, <2>3, <2>4, SeqEqual DEF n
  <2> QED
    BY <2>1, <2>5 DEF Begins, s, t, u, n
<1>4. ASSUME Begins(tree[a], tree[l]) PROVE a \in Ancestors(l)
  <2>1. CASE a = 0
    BY <2>1, AncestorFacts
  <2>2. CASE a > 0
    <3> DEFINE s == tree[a]
               t == tree[l]
               n == Len(s)
               u == SubSeq(t, 1, n)
    <3>1. /\ s[n] = <<iv, a>> /\ t \in Seq(S) /\ n \in Nat /\ n > 1 /\ Len(t) \in Nat
          /\ \A i \in 2..Len(t) : \E b \in Ancestors(l) : t[i] = <<iv, b>>
      BY <1>1, <2>2
    <3>2. n <= Len(t) /\ u = s
      BY <1>4 DEF Begins
    <3> HIDE DEF s, t
    <3>3. \A i \in 1..n : t[i] \in S
      <4>1. \A i \in 1..n : i \in 1..Len(t)
        BY <3>1, <3>2
      <4> QED
        BY <3>1, <4>1, ElementOfSeq
    <3> HIDE DEF n
    <3>4. \A i \in 1..(n - 1 + 1) : u[i] = t[1 + i - 1]
      BY <3>1, <3>3, SubSeqProperties
    <3> HIDE DEF u
    <3>5. n \in 1..(n - 1 + 1) /\ 1 + n - 1 = n /\ n \in 2..Len(t)
      BY <3>1, <3>2
    <3>6. t[n] = <<iv, a>>
      BY <3>1, <3>2, <3>4, <3>5
    <3>7. PICK b \in Ancestors(l) : t[n] = <<iv, b>>
      BY <3>1, <3>5
    <3>8. a = b
      BY <3>6, <3>7
    <3> QED
      BY <3>8
  <2> QED
    BY <2>1, <2>2
<1> QED
  BY <1>3, <1>4

\* A node that is not marked lies below a revealed one, and only such a node.
LEMMA BelowRevealed ==
  ASSUME NEW L, NEW H, LeavesOf(L, H), NEW out, Lists(L, Above(H), out, 0),
         NEW l \in 0..(2 * L - 2)
  PROVE  (\E n \in 1..Len(out) : out[n] \in Ancestors(l)) <=> l \notin Above(H)
<1> DEFINE M == Above(H)
           T == {a \in Nat : a <= 2 * L - 2 /\ a \notin M =>
                               \E n \in 1..Len(out) : out[n] \in Ancestors(a)}
<1>1. L \in Nat /\ L > 0 /\ 0 \in M /\ \A a \in M : a > 0 => Parent(a) \in M
  BY AboveFacts DEF LeavesOf
<1>2. /\ \A n \in 1..Len(out) : out[n] \notin M
      /\ \A b \in 1..(2 * L - 2) :
           b \notin M /\ Parent(b) \in M /\ Parent(b) >= 0 => \E n \in 1..Len(out) : out[n] = b
  BY DEF Lists
<1> HIDE DEF M
<1>3. ASSUME NEW a \in Nat, \A m \in 0..(a - 1) : m \in T PROVE a \in T
  <2> SUFFICES ASSUME a <= 2 * L - 2, a \notin M
               PROVE  \E n \in 1..Len(out) : out[n] \in Ancestors(a)
    OBVIOUS
  <2>1. a > 0 /\ a \in 1..(2 * L - 2)
    BY <1>1
  <2>2. /\ Parent(a) \in Nat /\ Parent(a) < a /\ Parent(a) \in 0..(a - 1)
        /\ Ancestors(a) = {a} \cup Ancestors(Parent(a))
    <3>1. Parent(a) \in Nat /\ Parent(a) < a
      BY <2>1, ParentFacts
    <3>2. Ancestors(a) = {a} \cup Ancestors(Parent(a))
      BY <2>1, AncestorsRec
    <3> HIDE DEF T
    <3> QED
      BY <3>1, <3>2
  <2>3. CASE Parent(a) \in M
    <3>1. \E n \in 1..Len(out) : out[n] = a
      BY <1>2, <2>1, <2>2, <2>3
    <3> QED
      BY <2>2, <3>1
  <2>4. CASE Parent(a) \notin M
    <3>1. Parent(a) \in T /\ Parent(a) <= 2 * L - 2
      BY <1>1, <1>3, <2>2
    <3> QED
      BY <2>2, <2>4, <3>1
  <2> QED
    BY <2>3, <2>4
<1> HIDE DEF T
<1>4. l \in Nat /\ l <= 2 * L - 2 /\ l \in T
  BY <1>1, <1>3, StrongInduction
<1>5. ASSUME l \in M PROVE Ancestors(l) \subseteq M
  <2>1. UpClosed(M)
    <3>1. H \subseteq Nat
      BY <1>1 DEF LeavesOf
    <3> QED
      BY <3>1, AboveUpClosed DEF M
  <2> QED
    BY <1>5, <2>1, AncestorsWithin
<1> QED
  BY <1>2, <1>4, <1>5 DEF T, M

\* The seeds of the revealed nodes, as the opening carries them.
HasSeeds(L, w, seeds, tree) == \A n \in 1..Len(w.out) : seeds[n] = tree[w.out[n]]

\* From the seeds the opening reveals the verifier rebuilds the prover's tree,
\* but for the marked nodes.
LEMMA RebuildsTree ==
  ASSUME NEW p, Legal(p), NEW delta, InRange(p, delta), NEW seeds, NEW x, NEW iv,
         NEW tree, PathTree(p, x, iv, tree),
         \A n \in 1..Len(WalkHidden(p, delta).out) : seeds[n] = tree[WalkHidden(p, delta).out[n]],
         NEW a \in TreeNodes(p), a \notin Above(HiddenLeaves(p, delta))
  PROVE  RebuildTree(p, seeds, delta, iv)[a] = tree[a]
<1> DEFINE w == WalkHidden(p, delta)
           M == Above(HiddenLeaves(p, delta))
           key == RebuildTree(p, seeds, delta, iv)
           L == p.L
           T == {n \in Nat : n <= 2 * L - 2 /\ n \notin M => key[n] = tree[n]}
<1>1. L \in Nat /\ L > 0
  BY ParamFacts
<1>2. LeavesOf(L, HiddenLeaves(p, delta))
  BY HiddenAreLeaves
<1>3. 0 \in M
  BY <1>2, AboveFacts
<1>4. w.S = M /\ Lists(L, M, w.out, 0)
  BY WalksAgree
<1>5. \A n \in TreeNodes(p) : key[n] = RebuildNode(w, seeds, iv, key, n)
  BY <1>1, RebuildUnfold
<1>6. /\ \A i, j \in 1..Len(w.out) : w.out[i] = w.out[j] => i = j
      /\ \A b \in 1..(2 * L - 2) :
           b \notin M /\ Parent(b) \in M /\ Parent(b) >= 0 => \E n \in 1..Len(w.out) : w.out[n] = b
  BY <1>4 DEF Lists
<1>7. \A n \in 1..Len(w.out) : seeds[n] = tree[w.out[n]]
  OBVIOUS
<1> HIDE DEF w, M, key
<1>8. ASSUME NEW n \in Nat, \A m \in 0..(n - 1) : m \in T PROVE n \in T
  <2> SUFFICES ASSUME n <= 2 * L - 2, n \notin M PROVE key[n] = tree[n]
    OBVIOUS
  <2>1. n > 0 /\ n \in 1..(2 * L - 2) /\ n \in TreeNodes(p)
    BY <1>1, <1>3 DEF TreeNodes
  <2>2. Parent(n) \in Nat /\ Parent(n) < n /\ Parent(n) \in 0..(n - 1)
    BY <2>1, ParentFacts
  <2>3. CASE Parent(n) \in M
    <3>1. key[n] = seeds[CHOOSE i \in 1..Len(w.out) : w.out[i] = n]
      BY <1>4, <1>5, <2>1, <2>3 DEF RebuildNode
    <3>2. \E i \in 1..Len(w.out) : w.out[i] = n
      BY <1>6, <2>1, <2>2, <2>3
    <3>3. PICK i \in 1..Len(w.out) : w.out[i] = n /\ key[n] = seeds[i]
      BY <3>1, <3>2
    <3> QED
      BY <1>7, <3>3
  <2>4. CASE Parent(n) \notin M
    <3>1. key[n] = Prg(key[Parent(n)], iv, Parent(n), (n + 1) % 2)
      BY <1>4, <1>5, <2>1, <2>4 DEF RebuildNode
    <3>2. tree[n] = Append(tree[Parent(n)], <<iv, n>>)
      BY <2>1 DEF PathTree
    <3>3. key[Parent(n)] = tree[Parent(n)]
      <4>1. Parent(n) \in T /\ Parent(n) <= 2 * L - 2
        BY <1>1, <1>8, <2>2
      <4> QED
        BY <2>4, <4>1
    <3> QED
      BY <2>1, <3>1, <3>2, <3>3, PrgStep
  <2> QED
    BY <2>3, <2>4
<1> HIDE DEF T
<1>9. a \in Nat /\ a <= 2 * L - 2 /\ a \in T
  BY <1>1, <1>8, StrongInduction DEF TreeNodes
<1> QED
  BY <1>9 DEF T, M, key

StartsWith(s, x, iv) == s \in Seq(Steps(x, iv)) /\ Len(s) > 0 /\ s[1] = x

\* Whatever else the opening carries, a seed that replaces a revealed one is
\* the beginning of everything rebuilt below it.
LEMMA RebuildsFrom ==
  ASSUME NEW p, Legal(p), NEW delta, InRange(p, delta), NEW seeds, NEW x, NEW iv,
         NEW i \in 1..Len(WalkHidden(p, delta).out), seeds[i] = <<x>>,
         NEW a \in TreeNodes(p), WalkHidden(p, delta).out[i] \in Ancestors(a)
  PROVE  StartsWith(RebuildTree(p, seeds, delta, iv)[a], x, iv)
<1> DEFINE w == WalkHidden(p, delta)
           M == Above(HiddenLeaves(p, delta))
           key == RebuildTree(p, seeds, delta, iv)
           L == p.L
           b == w.out[i]
           S == Steps(x, iv)
           Good(s) == StartsWith(s, x, iv)
           T == {n \in Nat : n <= 2 * L - 2 /\ b \in Ancestors(n) => Good(key[n])}
<1>1. L \in Nat /\ L > 0
  BY ParamFacts
<1>2. LeavesOf(L, HiddenLeaves(p, delta))
  BY HiddenAreLeaves
<1>3. UpClosed(M)
  <2>1. HiddenLeaves(p, delta) \subseteq Nat
    BY <1>1, <1>2 DEF LeavesOf
  <2> QED
    BY <2>1, AboveUpClosed
<1>4. w.S = M /\ Lists(L, M, w.out, 0)
  BY WalksAgree
<1>5. \A n \in TreeNodes(p) : key[n] = RebuildNode(w, seeds, iv, key, n)
  BY <1>1, RebuildUnfold
<1>6. /\ \A k, j \in 1..Len(w.out) : w.out[k] = w.out[j] => k = j
      /\ b \in 1..(2 * L - 2) /\ b \notin M /\ Parent(b) \in M
  BY <1>4 DEF Lists
<1>7. x \in S /\ \A n \in Nat : <<iv, n>> \in S
  BY DEF Steps
<1> HIDE DEF M, key, S
<1>8. ASSUME NEW n \in Nat, \A m \in 0..(n - 1) : m \in T PROVE n \in T
  <2> SUFFICES ASSUME n <= 2 * L - 2, b \in Ancestors(n) PROVE Good(key[n])
    OBVIOUS
  <2>1. n \in TreeNodes(p)
    BY <1>1 DEF TreeNodes
  <2>2. n \notin M
    BY <1>3, <1>6, AncestorsWithin
  <2>3. CASE n = b
    <3>1. key[n] = seeds[CHOOSE k \in 1..Len(w.out) : w.out[k] = n]
      BY <1>4, <1>5, <1>6, <2>1, <2>2, <2>3 DEF RebuildNode
    <3>2. (CHOOSE k \in 1..Len(w.out) : w.out[k] = n) = i
      BY <1>6, <2>3
    <3>3. key[n] = <<x>>
      BY <3>1, <3>2
    <3> DEFINE s == <<x>>
    <3>4. Good(s)
      BY <1>7 DEF StartsWith, S
    <3> QED
      BY <3>3, <3>4
  <2>4. CASE n # b
    <3> DEFINE q == Parent(n)
               e == <<iv, n>>
    <3>1. n > 0
      BY <1>6, <2>4, AncestorsRec
    <3>2. q \in Nat /\ q < n /\ q \in 0..(n - 1) /\ b \in Ancestors(q)
      <4>1. q \in Nat /\ q < n
        BY <3>1, ParentFacts
      <4>2. Ancestors(n) = {n} \cup Ancestors(q)
        BY <3>1, AncestorsRec
      <4> HIDE DEF T, b, q
      <4> QED
        BY <2>4, <4>1, <4>2
    <3>3. q \notin M
      BY <1>3, <1>6, <3>2, AncestorsWithin
    <3>4. key[n] = Prg(key[q], iv, q, (n + 1) % 2)
      BY <1>4, <1>5, <2>1, <2>2, <3>1, <3>3 DEF RebuildNode
    <3>5. key[n] = Append(key[q], e)
      BY <3>1, <3>4, PrgStep
    <3>6. Good(key[q])
      <4>1. q \in T /\ q <= 2 * L - 2
        BY <1>1, <1>8, <3>2
      <4> QED
        BY <3>2, <4>1
    <3>7. e \in S
      BY <1>7
    <3> DEFINE s == key[q]
               r == key[n]
    <3> HIDE DEF q, e, s, r
    <3>8. s \in Seq(S) /\ Len(s) > 0 /\ s[1] = x /\ r = Append(s, e)
      BY <3>5, <3>6 DEF s, r, StartsWith, S
    <3>9. Len(s) \in Nat
      BY <3>8, LenProperties
    <3>10. r \in Seq(S) /\ Len(r) = Len(s) + 1 /\ \A k \in 1..Len(s) : r[k] = s[k]
      BY <3>7, <3>8, AppendProperties
    <3>11. 1 \in 1..Len(s) /\ Len(r) > 0
      BY <3>8, <3>9, <3>10
    <3>12. Good(r)
      BY <3>8, <3>10, <3>11 DEF StartsWith, S
    <3> QED
      BY <3>12 DEF r
  <2> QED
    BY <2>3, <2>4
<1> HIDE DEF T
<1>9. a \in Nat /\ a <= 2 * L - 2 /\ a \in T
  BY <1>1, <1>8, StrongInduction DEF TreeNodes
<1> QED
  BY <1>9 DEF T, key

-----------------------------------------------------------------------------
(* What an opening reveals, and what is rebuilt from it.                   *)

LEMMA TableIsSeq ==
  ASSUME NEW S, NEW n \in Nat, NEW f, f = [i \in 1..n |-> f[i]], \A i \in 1..n : f[i] \in S
  PROVE  f \in Seq(S) /\ Len(f) = n
OBVIOUS

LEMMA SizesPositive ==
  ASSUME NEW p, Legal(p), NEW i \in Vectors(p)
  PROVE  VcN(p, i) \in Nat /\ VcN(p, i) > 0
<1>1. /\ p.k \in Nat /\ 2^(p.k - 1) \in Nat /\ 2^(p.k - 1) > 0 /\ 2^p.k = 2 * 2^(p.k - 1)
  BY ParamFacts
<1> QED
  BY <1>1 DEF VcN

LEMMA InRangeIndex ==
  ASSUME NEW p, Legal(p), NEW delta, InRange(p, delta)
  PROVE  IndexInRange(p, delta)
<1>1. ASSUME NEW i \in Vectors(p) PROVE delta[i] < VcN(p, i)
  <2>1. delta[i] \in 0..(VcN(p, i) - 1) /\ VcN(p, i) \in Nat
    BY SizesPositive DEF InRange, Positions
  <2> QED
    BY <2>1
<1> QED
  BY <1>1 DEF IndexInRange

\* The seeds of an opening: those of the revealed nodes, and zeros.
LEMMA OpenedSeeds ==
  ASSUME NEW p, Legal(p), NEW delta, InRange(p, delta), Openable(p, delta), NEW tree, NEW iv
  PROVE  LET seeds == BavcOpen(p, tree, iv, delta).seeds
             out == WalkHidden(p, delta).out
         IN  /\ Len(out) \in 0..p.T /\ Len(seeds) = p.T /\ DOMAIN seeds = 1..p.T
             /\ \A n \in 1..Len(out) : seeds[n] = tree[out[n]]
             /\ \A n \in (Len(out) + 1)..p.T : seeds[n] = ZeroSeed
<1> DEFINE seeds == BavcOpen(p, tree, iv, delta).seeds
           out == WalkHidden(p, delta).out
<1>1. p.T \in Nat /\ p.T > 0
  BY ParamFacts
<1>2. /\ Walk(p, MarkHidden(p, delta).S).out = out /\ Len(out) = Revealed(p, delta)
      /\ Lists(p.L, Above(HiddenLeaves(p, delta)), out, 0)
  BY WalksAgree
<1>3. out \in Seq(Nat)
  BY <1>2 DEF Lists
<1> HIDE DEF out
<1>4. Len(out) \in Nat /\ Len(out) <= p.T
  BY <1>2, <1>3, LenProperties DEF Openable
<1>5. seeds = [n \in 1..p.T |-> IF n <= Len(out) THEN tree[out[n]] ELSE ZeroSeed]
  BY <1>2 DEF BavcOpen
<1>6. seeds = [n \in 1..p.T |-> seeds[n]]
  BY <1>5
<1>7. \A n \in 1..p.T : seeds[n] = IF n <= Len(out) THEN tree[out[n]] ELSE ZeroSeed
  BY <1>5
<1> HIDE DEF seeds
<1>8. Len(seeds) = p.T
  <2> DEFINE S == {seeds[n] : n \in 1..p.T}
  <2>1. \A n \in 1..p.T : seeds[n] \in S
    OBVIOUS
  <2> HIDE DEF S
  <2> QED
    BY <1>1, <1>6, <2>1, TableIsSeq
<1>9. \A n \in 1..Len(out) : seeds[n] = tree[out[n]]
  BY <1>1, <1>4, <1>7
<1>10. \A n \in (Len(out) + 1)..p.T : seeds[n] = ZeroSeed
  BY <1>1, <1>4, <1>7
<1>11. DOMAIN seeds = 1..p.T
  BY <1>6
<1>12. Len(out) \in 0..p.T
  BY <1>1, <1>4
<1> QED
  BY <1>8, <1>9, <1>10, <1>11, <1>12 DEF seeds, out

\* An honest opening passes the verifier's checks.
LEMMA OpeningIsRebuildable ==
  ASSUME NEW p, Legal(p), NEW delta, InRange(p, delta), Openable(p, delta), NEW tree, NEW iv
  PROVE  Rebuildable(p, BavcOpen(p, tree, iv, delta), delta)
<1> DEFINE opening == BavcOpen(p, tree, iv, delta)
           out == WalkHidden(p, delta).out
<1>1. /\ Len(out) \in 0..p.T /\ Len(opening.seeds) = p.T
      /\ \A n \in (Len(out) + 1)..p.T : opening.seeds[n] = ZeroSeed
  BY OpenedSeeds
<1>2. IndexInRange(p, delta)
  BY InRangeIndex
<1>3. p.T \in Nat
  BY ParamFacts
<1> HIDE DEF opening
<1>4. Len(out) <= p.T
  BY <1>1, <1>3
<1> QED
  BY <1>1, <1>2, <1>4 DEF Rebuildable, opening

\* A position is marked when it is the hidden one.
LEMMA MarkedPosition ==
  ASSUME NEW p, Legal(p), NEW delta, InRange(p, delta),
         NEW i \in Vectors(p), NEW j \in Positions(p, i)
  PROVE  /\ PosInTree(p, i, j) \in 0..(2 * p.L - 2)
         /\ PosInTree(p, i, j) \in Above(HiddenLeaves(p, delta)) <=> j = delta[i]
<1> DEFINE H == HiddenLeaves(p, delta)
           l == PosInTree(p, i, j)
<1>1. p.L \in Nat /\ p.L > 0
  BY ParamFacts
<1>2. l \in (p.L - 1)..(2 * p.L - 2)
  BY PosIsLeaf
<1>3. LeavesOf(p.L, H)
  BY HiddenAreLeaves
<1>4. H \subseteq Above(H) /\ \A a \in Above(H) : a >= p.L - 1 => a \in H
  BY <1>3, AboveFacts
<1>5. l \in H <=> j = delta[i]
  BY PosInjective DEF HiddenLeaves, InRange
<1> HIDE DEF l, H
<1>6. l \in 0..(2 * p.L - 2) /\ l >= p.L - 1
  BY <1>1, <1>2
<1>7. l \in Above(H) <=> j = delta[i]
  BY <1>4, <1>5, <1>6
<1> QED
  BY <1>6, <1>7 DEF l, H

\* From the opening every leaf can be computed but the hidden ones.
LEMMA LearnsAllButHidden ==
  ASSUME NEW p, Legal(p), NEW delta, InRange(p, delta), Openable(p, delta),
         NEW x, NEW iv, NEW tree, PathTree(p, x, iv, tree), NEW ivs,
         NEW i \in Vectors(p), NEW j \in Positions(p, i)
  PROVE  (\E n \in 1..p.T : Begins(BavcOpen(p, tree, ivs, delta).seeds[n],
                                   tree[PosInTree(p, i, j)]))
           <=> j # delta[i]
<1> DEFINE seeds == BavcOpen(p, tree, ivs, delta).seeds
           out == WalkHidden(p, delta).out
           l == PosInTree(p, i, j)
           H == HiddenLeaves(p, delta)
<1>1. p.L \in Nat /\ p.L > 0 /\ p.T \in Nat
  BY ParamFacts
<1>2. /\ Len(out) \in 0..p.T
      /\ \A n \in 1..Len(out) : seeds[n] = tree[out[n]]
      /\ \A n \in (Len(out) + 1)..p.T : seeds[n] = ZeroSeed
  BY OpenedSeeds
<1>3. l \in 0..(2 * p.L - 2) /\ (l \in Above(H) <=> j = delta[i])
  BY MarkedPosition
<1>4. LeavesOf(p.L, H) /\ Lists(p.L, Above(H), out, 0)
  BY HiddenAreLeaves, WalksAgree
<1>5. (\E n \in 1..Len(out) : out[n] \in Ancestors(l)) <=> l \notin Above(H)
  BY <1>3, <1>4, BelowRevealed
<1>6. \A n \in 1..Len(out) : out[n] \in 0..(2 * p.L - 2)
  BY <1>1, <1>4 DEF Lists
<1> HIDE DEF seeds, out, l, H
<1>7. ASSUME NEW n \in 1..Len(out) PROVE Begins(seeds[n], tree[l]) <=> out[n] \in Ancestors(l)
  BY <1>1, <1>2, <1>3, <1>6, BeginsWhenAbove
<1>8. \A n \in (Len(out) + 1)..p.T : ~ Begins(seeds[n], tree[l])
  <2>1. Len(ZeroSeed) = 0
    BY DEF ZeroSeed
  <2>2. ~ (0 < Len(ZeroSeed))
    BY <2>1
  <2> QED
    BY <1>2, <2>2 DEF Begins
<1>9. \A n \in 1..p.T : n \in 1..Len(out) \/ n \in (Len(out) + 1)..p.T
  BY <1>1, <1>2
<1>10. \A n \in 1..Len(out) : n \in 1..p.T
  BY <1>1, <1>2
<1>11. (\E n \in 1..p.T : Begins(seeds[n], tree[l])) <=> j # delta[i]
  BY <1>3, <1>5, <1>7, <1>8, <1>9, <1>10
<1> QED
  BY <1>11 DEF seeds, l

\* The verifier's leaf seeds are the prover's but for the hidden ones.
LEMMA RebuiltSeeds ==
  ASSUME NEW p, Legal(p), NEW delta, InRange(p, delta), Openable(p, delta),
         NEW x, NEW iv, NEW tree, tree = BavcCommit(p, <<x>>, iv).tree,
         NEW i \in Vectors(p), NEW j \in Positions(p, i), j # delta[i]
  PROVE  LeafSeed(p, Rebuild(p, BavcOpen(p, tree, iv, delta), delta, iv).tree, i, j)
           = LeafSeed(p, tree, i, j)
<1> DEFINE root == <<x>>
           opening == BavcOpen(p, tree, iv, delta)
           seeds == opening.seeds
           out == WalkHidden(p, delta).out
           l == PosInTree(p, i, j)
           key == RebuildTree(p, seeds, delta, iv)
<1>1. p.L \in Nat /\ p.L > 0
  BY ParamFacts
<1>2. PathTree(p, x, iv, tree)
  <2>1. tree = Expand(p, <<x>>, iv)
    BY DEF BavcCommit
  <2> QED
    BY <1>1, <2>1, ExpandIsPath
<1>3. \A n \in 1..Len(out) : seeds[n] = tree[out[n]]
  BY OpenedSeeds
<1>4. l \in 0..(2 * p.L - 2) /\ l \notin Above(HiddenLeaves(p, delta))
  BY MarkedPosition
<1>5. Rebuild(p, opening, delta, iv).tree = key
  BY DEF Rebuild
<1> HIDE DEF opening, key, l
<1>6. l \in TreeNodes(p)
  BY <1>4 DEF TreeNodes
<1>7. key[l] = tree[l]
  BY <1>2, <1>3, <1>4, <1>6, RebuildsTree DEF key
<1> QED
  BY <1>5, <1>7 DEF LeafSeed, opening, l

\* The verifier computes the prover's commitment.
LEMMA RebuiltCommitment ==
  ASSUME NEW p, Legal(p), NEW delta, InRange(p, delta), Openable(p, delta),
         NEW x, NEW iv, NEW bavc, bavc = BavcCommit(p, <<x>>, iv)
  PROVE  Rebuild(p, BavcOpen(p, bavc.tree, iv, delta), delta, iv).com = bavc.com
<1> DEFINE tree == bavc.tree
           opening == BavcOpen(p, tree, iv, delta)
           key == Rebuild(p, opening, delta, iv).tree
           Mine(i, j) == IF j = delta[i] THEN opening.coms[i]
                         ELSE LeafCommit(p, LeafSeed(p, key, i, j), iv, i)
           Com(i, j) == LeafCommit(p, LeafSeed(p, tree, i, j), iv, i)
<1>1. bavc.com = [i \in Vectors(p) |-> [j \in Positions(p, i) |-> Com(i, j)]]
  BY DEF BavcCommit
<1>2. Rebuild(p, opening, delta, iv).com
        = [i \in Vectors(p) |-> [j \in Positions(p, i) |-> Mine(i, j)]]
  BY DEF Rebuild
<1>3. ASSUME NEW i \in Vectors(p), NEW j \in Positions(p, i) PROVE Mine(i, j) = Com(i, j)
  <2>1. CASE j = delta[i]
    BY <2>1 DEF BavcOpen
  <2>2. CASE j # delta[i]
    <3>1. tree = BavcCommit(p, <<x>>, iv).tree
      OBVIOUS
    <3>2. LeafSeed(p, key, i, j) = LeafSeed(p, tree, i, j)
      <4> HIDE DEF tree
      <4> QED
        BY <2>2, <3>1, RebuiltSeeds
    <3> QED
      BY <2>2, <3>2
  <2> QED
    BY <2>1, <2>2
<1> HIDE DEF tree, opening, key, Mine, Com
<1>4. [i \in Vectors(p) |-> [j \in Positions(p, i) |-> Mine(i, j)]]
        = [i \in Vectors(p) |-> [j \in Positions(p, i) |-> Com(i, j)]]
  BY <1>3
<1> QED
  BY <1>1, <1>2, <1>4 DEF opening, tree

\* The commitment to a position: its seed starts with the root's own x.
LEMMA CommittedSeed ==
  ASSUME NEW p, Legal(p), NEW x, NEW iv, NEW i \in Vectors(p), NEW j \in Positions(p, i)
  PROVE  BavcCommit(p, <<x>>, iv).com[i][j].seed[1] = x
<1> DEFINE tree == Expand(p, <<x>>, iv)
           l == PosInTree(p, i, j)
<1>1. p.L \in Nat /\ p.L > 0
  BY ParamFacts
<1>2. PathTree(p, x, iv, tree)
  BY <1>1, ExpandIsPath
<1>3. l \in (p.L - 1)..(2 * p.L - 2)
  BY PosIsLeaf
<1>4. BavcCommit(p, <<x>>, iv).com[i][j].seed = tree[l]
  BY DEF BavcCommit, LeafCommit, LeafSeed
<1> HIDE DEF tree, l
<1>5. l \in 0..(2 * p.L - 2)
  BY <1>1, <1>3
<1>6. PathOf(x, iv, tree[l], l)
  BY <1>1, <1>2, <1>5, PathsAre
<1> QED
  BY <1>4, <1>6 DEF PathOf

\* A changed commitment of a hidden leaf shows in the rebuilt hash.
LEMMA ChangedComShows ==
  ASSUME NEW p, Legal(p), NEW delta, InRange(p, delta), NEW x, NEW y, x # y, NEW iv,
         NEW opening, NEW ivs, NEW i \in Vectors(p), opening.coms[i].seed = <<y>>
  PROVE  Rebuild(p, opening, delta, ivs).com # BavcCommit(p, <<x>>, iv).com
<1> DEFINE j == delta[i]
           s == <<y>>
<1>1. j \in Positions(p, i)
  BY DEF InRange
<1>2. Rebuild(p, opening, delta, ivs).com[i][j] = opening.coms[i]
  BY <1>1 DEF Rebuild
<1>3. BavcCommit(p, <<x>>, iv).com[i][j].seed[1] = x
  BY <1>1, CommittedSeed
<1>4. s[1] = y
  OBVIOUS
<1> HIDE DEF s, j
<1> QED
  BY <1>2, <1>3, <1>4 DEF s

\* So does a changed seed, whichever it is: padding is refused, and the
\* leaves below a node of another seed have other commitments.
LEMMA ChangedSeedShows ==
  ASSUME NEW p, Legal(p), NEW delta, InRange(p, delta), NEW x, NEW y, x # y, NEW iv,
         NEW opening, NEW ivs, Rebuildable(p, opening, delta),
         NEW n \in 1..p.T, opening.seeds[n] = <<y>>
  PROVE  Rebuild(p, opening, delta, ivs).com # BavcCommit(p, <<x>>, iv).com
<1> DEFINE out == WalkHidden(p, delta).out
           H == HiddenLeaves(p, delta)
           key == RebuildTree(p, opening.seeds, delta, ivs)
           L == p.L
           seeds == opening.seeds
           z == <<y>>
<1>1. L \in Nat /\ L > 0 /\ p.T \in Nat
  BY ParamFacts
<1>2. Len(out) <= p.T /\ \A m \in (Len(out) + 1)..p.T : seeds[m] = ZeroSeed
  BY DEF Rebuildable
<1>3. LeavesOf(L, H) /\ Lists(L, Above(H), out, 0)
  BY HiddenAreLeaves, WalksAgree
<1>3a. Len(out) \in Nat
  <2>1. out \in Seq(Nat)
    BY <1>3 DEF Lists
  <2> HIDE DEF out
  <2> QED
    BY <2>1, LenProperties
<1>4. n \in 1..Len(out)
  <2>1. seeds[n] # ZeroSeed
    <3>1. Len(z) = 1 /\ Len(ZeroSeed) = 0
      BY DEF ZeroSeed
    <3> HIDE DEF z
    <3> QED
      BY <3>1 DEF z
  <2> HIDE DEF out, seeds
  <2> QED
    BY <1>1, <1>2, <1>3a, <2>1
<1> DEFINE b == out[n]
<1>5. b \in 1..(2 * L - 2) /\ b \notin Above(H)
  BY <1>3, <1>4 DEF Lists
<1>6. PICK l \in (L - 1)..(2 * L - 2) : b \in Ancestors(l)
  BY <1>1, <1>5, LeafBelow
<1>7. l \in TreeNodes(p) /\ l \in 0..(2 * L - 2)
  BY <1>1 DEF TreeNodes
<1>8a. PICK i \in Vectors(p) : \E j \in Positions(p, i) : PosInTree(p, i, j) = l
  BY PosOnto
<1>8. PICK j \in Positions(p, i) : PosInTree(p, i, j) = l
  BY <1>8a
<1>9. j # delta[i]
  <2>1. l \notin Above(H)
    BY <1>3, <1>4, <1>6, <1>7, BelowRevealed
  <2> QED
    BY <1>8, <2>1, MarkedPosition
<1>10. Rebuild(p, opening, delta, ivs).com[i][j].seed = key[l]
  BY <1>8, <1>9 DEF Rebuild, LeafCommit, LeafSeed
<1>11. key[l][1] = y
  <2>1. ASSUME NEW m \in 1..Len(out), seeds[m] = <<y>>,
               NEW a \in TreeNodes(p), out[m] \in Ancestors(a)
        PROVE  key[a][1] = y
    <3>1. StartsWith(key[a], y, ivs)
      BY <2>1, RebuildsFrom
    <3> QED
      BY <3>1 DEF StartsWith
  <2>2. seeds[n] = <<y>>
    OBVIOUS
  <2> HIDE DEF key, out, seeds
  <2> QED
    BY <1>4, <1>6, <1>7, <2>1, <2>2
<1>12. BavcCommit(p, <<x>>, iv).com[i][j].seed[1] = x
  BY CommittedSeed
<1> HIDE DEF key
<1> QED
  BY <1>10, <1>11, <1>12

-----------------------------------------------------------------------------
(* The bits of numbers.                                                    *)

LEMMA BitZero == ASSUME NEW x \in Nat PROVE BitAt(x, 0) = x % 2
<1>1. x \div 1 = x
  OBVIOUS
<1> QED
  BY <1>1, PowerZero DEF BitAt

LEMMA BitHalf ==
  ASSUME NEW x \in Nat, NEW k \in Nat
  PROVE  BitAt(x, k + 1) = BitAt(x \div 2, k)
BY HalveThenShift DEF BitAt

LEMMA BitRange == ASSUME NEW x \in Nat, NEW k \in Nat PROVE BitAt(x, k) \in {0, 1}
BY ShiftStep

LEMMA BitsExist ==
  ASSUME NEW n \in Nat, NEW bit \in [0..(n - 1) -> {0, 1}]
  PROVE  \E x \in 0..(2^n - 1) : \A d \in 0..(n - 1) : BitAt(x, d) = bit[d]
<1> DEFINE T == {m \in Nat : \A b \in [0..(m - 1) -> {0, 1}] :
                   \E x \in 0..(2^m - 1) : \A d \in 0..(m - 1) : BitAt(x, d) = b[d]}
<1>1. 0 \in T
  <2>1. 0 \in 0..(2^0 - 1) /\ \A d \in 0..(0 - 1) : FALSE
    BY PowerZero
  <2> QED
    BY <2>1
<1>2. ASSUME NEW m \in Nat, m \in T PROVE m + 1 \in T
  <2> SUFFICES ASSUME NEW b \in [0..((m + 1) - 1) -> {0, 1}]
               PROVE  \E x \in 0..(2^(m + 1) - 1) : \A d \in 0..((m + 1) - 1) : BitAt(x, d) = b[d]
    OBVIOUS
  <2> DEFINE e == [d \in 0..(m - 1) |-> b[d + 1]]
  <2>1. e \in [0..(m - 1) -> {0, 1}]
    OBVIOUS
  <2>2. PICK y \in 0..(2^m - 1) : \A d \in 0..(m - 1) : BitAt(y, d) = e[d]
    BY <1>2, <2>1
  <2> DEFINE x == 2 * y + b[0]
  <2>3. b[0] \in {0, 1} /\ y \in Nat /\ 2^m \in Nat /\ 2^(m + 1) = 2 * 2^m /\ y <= 2^m - 1
    BY <2>2, PowerStep
  <2>4. x \in Nat /\ x \in 0..(2^(m + 1) - 1) /\ x \div 2 = y /\ x % 2 = b[0]
    BY <2>3
  <2> HIDE DEF x
  <2>5. BitAt(x, 0) = b[0]
    BY <2>4, BitZero
  <2>6. ASSUME NEW d \in 1..m PROVE BitAt(x, d) = b[d]
    <3>1. d - 1 \in Nat /\ d - 1 \in 0..(m - 1) /\ (d - 1) + 1 = d
      OBVIOUS
    <3>2. BitAt(x, (d - 1) + 1) = BitAt(x \div 2, d - 1)
      BY <2>4, <3>1, BitHalf
    <3>3. BitAt(y, d - 1) = b[(d - 1) + 1]
      BY <2>2, <3>1
    <3> QED
      BY <2>4, <3>1, <3>2, <3>3
  <2>7. \A d \in 0..((m + 1) - 1) : d = 0 \/ d \in 1..m
    OBVIOUS
  <2> QED
    BY <2>4, <2>5, <2>6, <2>7
<1> HIDE DEF T
<1>3. n \in T
  BY <1>1, <1>2, NatSetInduction
<1> QED
  BY <1>3 DEF T

LEMMA BitsUnique ==
  ASSUME NEW n \in Nat, NEW x \in 0..(2^n - 1), NEW y \in 0..(2^n - 1),
         \A d \in 0..(n - 1) : BitAt(x, d) = BitAt(y, d)
  PROVE  x = y
<1> DEFINE T == {m \in Nat : \A a, b \in 0..(2^m - 1) :
                   (\A d \in 0..(m - 1) : BitAt(a, d) = BitAt(b, d)) => a = b}
<1>1. 0 \in T
  <2>1. 2^0 - 1 = 0
    BY PowerZero
  <2> QED
    BY <2>1
<1>2. ASSUME NEW m \in Nat, m \in T PROVE m + 1 \in T
  <2> SUFFICES ASSUME NEW a \in 0..(2^(m + 1) - 1), NEW b \in 0..(2^(m + 1) - 1),
                      \A d \in 0..((m + 1) - 1) : BitAt(a, d) = BitAt(b, d)
               PROVE  a = b
    OBVIOUS
  <2>1. 2^m \in Nat /\ 2^(m + 1) = 2 * 2^m
    BY PowerStep
  <2>2. a \in Nat /\ b \in Nat /\ a \div 2 \in 0..(2^m - 1) /\ b \div 2 \in 0..(2^m - 1)
    BY <2>1
  <2>3. a % 2 = b % 2
    <3>1. 0 \in 0..((m + 1) - 1)
      OBVIOUS
    <3>2. BitAt(a, 0) = BitAt(b, 0)
      BY <3>1
    <3> QED
      BY <2>2, <3>2, BitZero
  <2>4. ASSUME NEW d \in 0..(m - 1) PROVE BitAt(a \div 2, d) = BitAt(b \div 2, d)
    <3>1. d \in Nat /\ d + 1 \in 0..((m + 1) - 1)
      OBVIOUS
    <3>2. BitAt(a, d + 1) = BitAt(b, d + 1)
      BY <3>1
    <3> QED
      BY <2>2, <3>1, <3>2, BitHalf
  <2>5. a \div 2 = b \div 2
    BY <1>2, <2>2, <2>4
  <2> QED
    BY <2>2, <2>3, <2>5
<1> HIDE DEF T
<1>3. n \in T
  BY <1>1, <1>2, NatSetInduction
<1> QED
  BY <1>3 DEF T

LEMMA XorNumberIs ==
  ASSUME NEW n \in Nat, NEW a \in Nat, NEW b \in Nat
  PROVE  /\ XorNumber(n, a, b) \in 0..(2^n - 1)
         /\ \A d \in 0..(n - 1) : BitAt(XorNumber(n, a, b), d) = (BitAt(a, d) + BitAt(b, d)) % 2
<1> DEFINE bit == [d \in 0..(n - 1) |-> (BitAt(a, d) + BitAt(b, d)) % 2]
<1>1. bit \in [0..(n - 1) -> {0, 1}]
  <2>1. ASSUME NEW d \in 0..(n - 1) PROVE (BitAt(a, d) + BitAt(b, d)) % 2 \in {0, 1}
    <3>1. BitAt(a, d) \in {0, 1} /\ BitAt(b, d) \in {0, 1}
      BY BitRange
    <3> QED
      BY <3>1
  <2> QED
    BY <2>1
<1>2. \A d \in 0..(n - 1) : bit[d] = (BitAt(a, d) + BitAt(b, d)) % 2
  OBVIOUS
<1> HIDE DEF bit
<1>3. \E x \in 0..(2^n - 1) : \A d \in 0..(n - 1) : BitAt(x, d) = bit[d]
  BY <1>1, BitsExist
<1>4. \E x \in 0..(2^n - 1) : \A d \in 0..(n - 1) : BitAt(x, d) = (BitAt(a, d) + BitAt(b, d)) % 2
  BY <1>2, <1>3
<1> QED
  BY <1>4 DEF XorNumber

\* Twice the same offset leads back.
LEMMA XorNumberTwice ==
  ASSUME NEW n \in Nat, NEW a \in 0..(2^n - 1), NEW b \in Nat
  PROVE  XorNumber(n, XorNumber(n, a, b), b) = a
<1> DEFINE x == XorNumber(n, a, b)
           y == XorNumber(n, x, b)
<1>0. 2^n \in Nat /\ a \in Nat
  BY PowerPositive
<1>1. x \in 0..(2^n - 1) /\ \A d \in 0..(n - 1) : BitAt(x, d) = (BitAt(a, d) + BitAt(b, d)) % 2
  BY <1>0, XorNumberIs
<1>2. x \in Nat
  BY <1>0, <1>1
<1> HIDE DEF x
<1>3. y \in 0..(2^n - 1) /\ \A d \in 0..(n - 1) : BitAt(y, d) = (BitAt(x, d) + BitAt(b, d)) % 2
  BY <1>2, XorNumberIs
<1> HIDE DEF y
<1>4. ASSUME NEW d \in 0..(n - 1) PROVE BitAt(y, d) = BitAt(a, d)
  <2>1. BitAt(a, d) \in {0, 1} /\ BitAt(b, d) \in {0, 1}
    BY <1>0, BitRange
  <2>2. BitAt(y, d) = (((BitAt(a, d) + BitAt(b, d)) % 2) + BitAt(b, d)) % 2
    BY <1>1, <1>3
  <2> QED
    BY <2>1, <2>2
<1>5. y = a
  BY <1>3, <1>4, BitsUnique
<1> QED
  BY <1>5 DEF y, x

-----------------------------------------------------------------------------
(* The butterfly.                                                          *)

RowsAre(n, row0, row) ==
  /\ row[0] = row0
  /\ \A j \in 0..(n - 1) : \A c \in 0..(2^(n - (j + 1)) - 1) :
       row[j + 1][c] = Xor(row[j][2 * c], row[j][2 * c + 1])

LEMMA ButterflyUnfold ==
  ASSUME NEW n \in Nat, NEW row0
  PROVE  \E row : /\ RowsAre(n, row0, row)
                  /\ Butterfly(n, row0)
                       = [u |-> row[n][0],
                          v |-> [j \in 0..(n - 1) |->
                                   XorSum([c \in 0..(2^(n - j - 1) - 1) |-> row[j][2 * c + 1]])]]
<1> DEFINE Good(f, m) == f = [j \in 0..m |-> AddNeighbours(n, row0, f, j)]
           T == {m \in Nat : \E f : Good(f, m)}
<1>1. 0 \in T
  <2> DEFINE f == [j \in 0..0 |-> row0]
  <2>1. Good(f, 0)
    BY DEF AddNeighbours
  <2> QED
    BY <2>1
<1>2. ASSUME NEW m \in Nat, m \in T PROVE m + 1 \in T
  <2>1. PICK f : Good(f, m)
    BY <1>2
  <2> DEFINE g == [j \in 0..(m + 1) |-> IF j <= m THEN f[j] ELSE AddNeighbours(n, row0, f, j)]
  <2>2. \A j \in 0..m : g[j] = f[j]
    OBVIOUS
  <2>3. g[m + 1] = AddNeighbours(n, row0, f, m + 1)
    OBVIOUS
  <2>4. g = [j \in 0..(m + 1) |-> g[j]]
    OBVIOUS
  <2> HIDE DEF g
  <2>5. ASSUME NEW j \in 0..m PROVE g[j] = AddNeighbours(n, row0, g, j)
    <3>1. f[j] = AddNeighbours(n, row0, f, j)
      BY <2>1
    <3>2. j # 0 => g[j - 1] = f[j - 1]
      BY <2>2
    <3>3. AddNeighbours(n, row0, f, j) = AddNeighbours(n, row0, g, j)
      BY <3>2 DEF AddNeighbours
    <3> QED
      BY <2>2, <3>1, <3>3
  <2>6. g[m + 1] = AddNeighbours(n, row0, g, m + 1)
    <3>1. (m + 1) - 1 = m /\ m + 1 # 0 /\ g[m] = f[m]
      BY <2>2
    <3>2. AddNeighbours(n, row0, f, m + 1) = AddNeighbours(n, row0, g, m + 1)
      BY <3>1 DEF AddNeighbours
    <3> QED
      BY <2>3, <3>2
  <2>7. \A j \in 0..(m + 1) : g[j] = AddNeighbours(n, row0, g, j)
    <3>1. \A j \in 0..(m + 1) : j \in 0..m \/ j = m + 1
      OBVIOUS
    <3> QED
      BY <2>5, <2>6, <3>1
  <2>8. Good(g, m + 1)
    BY <2>4, <2>7
  <2> QED
    BY <2>8
<1> HIDE DEF T
<1>3. n \in T
  BY <1>1, <1>2, NatSetInduction
<1> DEFINE row == CHOOSE f : Good(f, n)
<1>4. Good(row, n)
  BY <1>3 DEF T
<1>5. Butterfly(n, row0)
        = [u |-> row[n][0],
           v |-> [j \in 0..(n - 1) |->
                    XorSum([c \in 0..(2^(n - j - 1) - 1) |-> row[j][2 * c + 1]])]]
  BY DEF Butterfly
<1> HIDE DEF row
<1>6. row[0] = row0
  BY <1>4 DEF AddNeighbours
<1>7. ASSUME NEW j \in 0..(n - 1), NEW c \in 0..(2^(n - (j + 1)) - 1)
      PROVE  row[j + 1][c] = Xor(row[j][2 * c], row[j][2 * c + 1])
  <2>1. j + 1 \in 0..n /\ (j + 1) - 1 = j /\ j + 1 # 0
    OBVIOUS
  <2>2. row[j + 1] = AddNeighbours(n, row0, row, j + 1)
    BY <1>4, <2>1
  <2>3. AddNeighbours(n, row0, row, j + 1)
          = [x \in 0..(2^(n - (j + 1)) - 1) |-> Xor(row[j][2 * x], row[j][2 * x + 1])]
    BY <2>1 DEF AddNeighbours
  <2> QED
    BY <2>2, <2>3
<1> QED
  BY <1>5, <1>6, <1>7 DEF RowsAre

\* The columns of row 0 that column c of row j adds up.
Block(n, row0, j, c) == UNION {row0[k] : k \in {m \in 0..(2^n - 1) : m \div 2^j = c}}

Apart(n, row0) ==
  \A k, m \in 0..(2^n - 1) : k # m => row0[k] \cap row0[m] = {}

LEMMA BlockColumns ==
  ASSUME NEW n \in Nat, NEW row0, NEW row, RowsAre(n, row0, row), Apart(n, row0)
  PROVE  \A j \in 0..n : \A c \in 0..(2^(n - j) - 1) : row[j][c] = Block(n, row0, j, c)
<1> DEFINE T == {j \in Nat : j <= n => \A c \in 0..(2^(n - j) - 1) : row[j][c] = Block(n, row0, j, c)}
<1>1. 0 \in T
  <2> SUFFICES ASSUME NEW c \in 0..(2^(n - 0) - 1) PROVE row[0][c] = Block(n, row0, 0, c)
    OBVIOUS
  <2>1. n - 0 = n /\ 2^n \in Nat
    BY PowerPositive
  <2>2. c \in 0..(2^n - 1)
    BY <2>1
  <2>3. {m \in 0..(2^n - 1) : m \div 2^0 = c} = {c}
    <3>1. \A m \in 0..(2^n - 1) : m \div 2^0 = m
      <4> TAKE m \in 0..(2^n - 1)
      <4>1. m \in Nat /\ m \div 1 = m
        BY <2>1
      <4> QED
        BY <4>1, PowerZero
    <3> QED
      BY <2>2, <3>1
  <2> QED
    BY <2>3 DEF Block, RowsAre
<1>2. ASSUME NEW j \in Nat, j \in T PROVE j + 1 \in T
  <2> SUFFICES ASSUME j + 1 <= n, NEW c \in 0..(2^(n - (j + 1)) - 1)
               PROVE  row[j + 1][c] = Block(n, row0, j + 1, c)
    OBVIOUS
  <2> DEFINE A == Block(n, row0, j, 2 * c)
             B == Block(n, row0, j, 2 * c + 1)
             C == Block(n, row0, j + 1, c)
  <2>1. /\ j \in 0..(n - 1) /\ j <= n /\ n - (j + 1) \in Nat /\ n - j = (n - (j + 1)) + 1
    OBVIOUS
  <2>2. 2^(n - j) = 2 * 2^(n - (j + 1)) /\ 2^(n - (j + 1)) \in Nat
    BY <2>1, PowerStep
  <2>3. 2 * c \in 0..(2^(n - j) - 1) /\ 2 * c + 1 \in 0..(2^(n - j) - 1) /\ c \in Nat
    BY <2>2
  <2>4. row[j][2 * c] = A /\ row[j][2 * c + 1] = B
    BY <1>2, <2>1, <2>3
  <2>5. row[j + 1][c] = Xor(A, B)
    BY <2>1, <2>4 DEF RowsAre
  <2>6. ASSUME NEW m \in 0..(2^n - 1)
        PROVE  m \div 2^(j + 1) = c <=> m \div 2^j = 2 * c \/ m \div 2^j = 2 * c + 1
    <3> DEFINE q == m \div 2^j
               h == m \div 2^(j + 1)
               b == BitAt(m, j)
    <3>1. 2^n \in Nat /\ m \in Nat
      BY PowerPositive
    <3>2. q = 2 * h + b /\ b \in {0, 1} /\ q \in Nat
      BY <3>1, ShiftStep
    <3>3. h \in Nat
      BY <3>1, ShiftStep
    <3> HIDE DEF q, h, b
    <3>4. h = c <=> q = 2 * c \/ q = 2 * c + 1
      BY <2>3, <3>2, <3>3
    <3> QED
      BY <3>4 DEF q, h
  <2>7. C = A \cup B
    <3>1. \A x : x \in C <=> \E m \in 0..(2^n - 1) : m \div 2^(j + 1) = c /\ x \in row0[m]
      BY DEF Block
    <3>2. \A x : x \in A <=> \E m \in 0..(2^n - 1) : m \div 2^j = 2 * c /\ x \in row0[m]
      BY DEF Block
    <3>3. \A x : x \in B <=> \E m \in 0..(2^n - 1) : m \div 2^j = 2 * c + 1 /\ x \in row0[m]
      BY DEF Block
    <3> HIDE DEF A, B, C
    <3>4. \A x : x \in C <=> x \in A \/ x \in B
      BY <2>6, <3>1, <3>2, <3>3
    <3> QED
      BY <3>4
  <2>8. A \cap B = {}
    <3> SUFFICES ASSUME NEW x \in A, x \in B PROVE FALSE
      OBVIOUS
    <3>1. PICK k \in 0..(2^n - 1) : k \div 2^j = 2 * c /\ x \in row0[k]
      BY DEF Block
    <3>2. PICK m \in 0..(2^n - 1) : m \div 2^j = 2 * c + 1 /\ x \in row0[m]
      BY DEF Block
    <3>3. 2 * c # 2 * c + 1
      BY <2>3
    <3>4. k # m
      BY <3>1, <3>2, <3>3
    <3>5. row0[k] \cap row0[m] = {}
      BY <3>4 DEF Apart
    <3> QED
      BY <3>1, <3>2, <3>5
  <2> HIDE DEF A, B, C
  <2>9. Xor(A, B) = A \cup B
    BY <2>8 DEF Xor
  <2> QED
    BY <2>5, <2>7, <2>9 DEF C
<1> HIDE DEF T
<1>3. \A j \in Nat : j \in T
  BY <1>1, <1>2, NatSetInduction
<1>4. \A j \in 0..n : j \in Nat /\ j <= n
  OBVIOUS
<1> QED
  BY <1>3, <1>4 DEF T

\* The sum of a family of vectors that have nothing in common.
LEMMA XorSumApart ==
  ASSUME NEW f, \A c, e \in DOMAIN f : c # e => f[c] \cap f[e] = {}
  PROVE  XorSum(f) = UNION {f[c] : c \in DOMAIN f}
<1>1. ASSUME NEW x \in UNION {f[c] : c \in DOMAIN f}
      PROVE  Cardinality({c \in DOMAIN f : x \in f[c]}) % 2 = 1
  <2>1. PICK c \in DOMAIN f : x \in f[c]
    OBVIOUS
  <2>2. {e \in DOMAIN f : x \in f[e]} = {c}
    BY <2>1
  <2>3. Cardinality({e \in DOMAIN f : x \in f[e]}) = 1
    BY <2>2, FS_Singleton
  <2> QED
    BY <2>3
<1> QED
  BY <1>1 DEF XorSum

\* Of columns with nothing in common, u is the sum of all and v[j] of those
\* whose number has bit j.
LEMMA ButterflyIs ==
  ASSUME NEW n \in Nat, NEW row0, Apart(n, row0)
  PROVE  /\ Butterfly(n, row0).u = UNION {row0[m] : m \in 0..(2^n - 1)}
         /\ \A j \in 0..(n - 1) :
              Butterfly(n, row0).v[j]
                = UNION {row0[m] : m \in {k \in 0..(2^n - 1) : BitAt(k, j) = 1}}
<1>1. PICK row : /\ RowsAre(n, row0, row)
                 /\ Butterfly(n, row0)
                       = [u |-> row[n][0],
                          v |-> [j \in 0..(n - 1) |->
                                   XorSum([c \in 0..(2^(n - j - 1) - 1) |-> row[j][2 * c + 1]])]]
  BY ButterflyUnfold
<1>2. \A j \in 0..n : \A c \in 0..(2^(n - j) - 1) : row[j][c] = Block(n, row0, j, c)
  BY <1>1, BlockColumns
<1>3. 2^n \in Nat /\ 2^n > 0
  BY PowerPositive
<1>4. Butterfly(n, row0).u = UNION {row0[m] : m \in 0..(2^n - 1)}
  <2>1. n \in 0..n /\ 0 \in 0..(2^(n - n) - 1)
    <3>1. n - n = 0 /\ n \in 0..n
      OBVIOUS
    <3> QED
      BY <3>1, PowerZero
  <2>2. row[n][0] = Block(n, row0, n, 0)
    BY <1>2, <2>1
  <2>3. \A m \in 0..(2^n - 1) : m \div 2^n = 0
    <3> DEFINE q == 2^n
    <3>1. q \in Nat /\ q > 0
      BY <1>3
    <3> HIDE DEF q
    <3>2. ASSUME NEW m \in 0..(q - 1) PROVE m \div q = 0
      <4>1. m \in Nat /\ q * 0 = 0 /\ q * 0 <= m /\ m < q * 0 + q
        BY <3>1
      <4> QED
        BY <3>1, <4>1, DivUnique
    <3> QED
      BY <3>2 DEF q
  <2>4. {m \in 0..(2^n - 1) : m \div 2^n = 0} = 0..(2^n - 1)
    BY <2>3
  <2>5. Block(n, row0, n, 0) = UNION {row0[m] : m \in 0..(2^n - 1)}
    BY <2>4 DEF Block
  <2> QED
    BY <1>1, <2>2, <2>5
<1>5. ASSUME NEW j \in 0..(n - 1)
      PROVE  Butterfly(n, row0).v[j]
               = UNION {row0[m] : m \in {k \in 0..(2^n - 1) : BitAt(k, j) = 1}}
  <2> DEFINE D == 0..(2^(n - j - 1) - 1)
             f == [c \in D |-> row[j][2 * c + 1]]
             Odd == {k \in 0..(2^n - 1) : BitAt(k, j) = 1}
  <2>1. Butterfly(n, row0).v[j] = XorSum(f)
    BY <1>1
  <2>2. /\ j \in Nat /\ j \in 0..n /\ n - j - 1 \in Nat /\ n - j = (n - j - 1) + 1
        /\ n = (j + 1) + (n - j - 1)
    OBVIOUS
  <2>3. /\ 2^(n - j - 1) \in Nat /\ 2^(n - j) = 2 * 2^(n - j - 1)
        /\ 2^(j + 1) \in Nat /\ 2^(j + 1) > 0
        /\ 2^n = 2^(j + 1) * 2^(n - j - 1)
    <3>1. 2^(n - j - 1) \in Nat /\ 2^((n - j - 1) + 1) = 2 * 2^(n - j - 1)
      BY <2>2, PowerStep
    <3>2. 2^(j + 1) \in Nat /\ 2^(j + 1) > 0
      BY <2>2, PowerPositive
    <3>3. 2^((j + 1) + (n - j - 1)) = 2^(j + 1) * 2^(n - j - 1)
      BY <2>2, PowerSum
    <3> QED
      BY <2>2, <3>1, <3>2, <3>3
  <2>4. ASSUME NEW c \in D PROVE c \in Nat /\ f[c] = Block(n, row0, j, 2 * c + 1)
    <3>1. 2 * c + 1 \in 0..(2^(n - j) - 1) /\ c \in Nat
      BY <2>3
    <3> QED
      BY <1>2, <2>2, <3>1
  <2>5. \A c, x : x \in Block(n, row0, j, 2 * c + 1)
                    <=> \E m \in 0..(2^n - 1) : m \div 2^j = 2 * c + 1 /\ x \in row0[m]
    BY DEF Block
  <2>6. ASSUME NEW m \in 0..(2^n - 1)
        PROVE  BitAt(m, j) = 1 <=> \E c \in D : m \div 2^j = 2 * c + 1
    <3> DEFINE q == m \div 2^j
               h == m \div 2^(j + 1)
               b == BitAt(m, j)
               s == 2^(j + 1)
               t == 2^(n - j - 1)
    <3>1. m \in Nat /\ m < s * t /\ s \in Nat /\ s > 0 /\ t \in Nat
      BY <1>3, <2>3
    <3>2. q = 2 * h + b /\ b \in {0, 1} /\ q \in Nat
      BY <2>2, <3>1, ShiftStep
    <3>3. h \in Nat /\ s * h <= m
      BY <3>1, DivProps
    <3> HIDE DEF q, h, b, s, t
    <3>4. h < t
      <4> SUFFICES ASSUME h >= t PROVE FALSE
        BY <3>1, <3>3
      <4>1. PICK g \in Nat : h = t + g
        <5>1. h - t \in Nat /\ h = t + (h - t)
          BY <3>1, <3>3
        <5> QED
          BY <5>1
      <4>2. s * h = s * t + s * g /\ s * g \in Nat /\ s * t \in Nat
        BY <3>1, <4>1
      <4> QED
        BY <3>1, <3>3, <4>2
    <3>5. h \in 0..(t - 1)
      BY <3>1, <3>3, <3>4
    <3>6. \A c \in 0..(t - 1) : q = 2 * c + 1 => b = 1
      BY <3>1, <3>2, <3>3
    <3>7. b = 1 => q = 2 * h + 1
      BY <3>2
    <3> QED
      BY <3>5, <3>6, <3>7 DEF q, b, t
  <2>7. DOMAIN f = D
    OBVIOUS
  <2>8. ASSUME NEW c \in DOMAIN f, NEW e \in DOMAIN f, c # e PROVE f[c] \cap f[e] = {}
    <3> SUFFICES ASSUME NEW x \in f[c], x \in f[e] PROVE FALSE
      OBVIOUS
    <3>1. c \in Nat /\ e \in Nat /\ 2 * c + 1 # 2 * e + 1
      BY <2>4, <2>7, <2>8
    <3>2. x \in Block(n, row0, j, 2 * c + 1) /\ x \in Block(n, row0, j, 2 * e + 1)
      BY <2>4, <2>7
    <3>3. PICK k \in 0..(2^n - 1) : k \div 2^j = 2 * c + 1 /\ x \in row0[k]
      BY <2>5, <3>2
    <3>4. PICK m \in 0..(2^n - 1) : m \div 2^j = 2 * e + 1 /\ x \in row0[m]
      BY <2>5, <3>2
    <3>5. k # m
      BY <3>1, <3>3, <3>4
    <3>6. row0[k] \cap row0[m] = {}
      BY <3>5 DEF Apart
    <3> QED
      BY <3>3, <3>4, <3>6
  <2> HIDE DEF f, D
  <2>9. XorSum(f) = UNION {f[c] : c \in DOMAIN f}
    BY <2>8, XorSumApart
  <2>10. \A x : x \in UNION {f[c] : c \in DOMAIN f}
                  <=> \E c \in D : \E m \in 0..(2^n - 1) : m \div 2^j = 2 * c + 1 /\ x \in row0[m]
    BY <2>4, <2>5, <2>7
  <2>11. \A x : x \in UNION {row0[m] : m \in Odd}
                  <=> \E m \in 0..(2^n - 1) : BitAt(m, j) = 1 /\ x \in row0[m]
    OBVIOUS
  <2> HIDE DEF Odd
  <2>12. UNION {f[c] : c \in DOMAIN f} = UNION {row0[m] : m \in Odd}
    <3> DEFINE A == UNION {f[c] : c \in DOMAIN f}
               B == UNION {row0[m] : m \in Odd}
    <3> HIDE DEF A, B
    <3>1. \A x : x \in A <=> x \in B
      BY <2>6, <2>10, <2>11 DEF A, B
    <3>2. A = B
      BY <3>1
    <3> QED
      BY <3>2 DEF A, B
  <2> QED
    BY <2>1, <2>9, <2>12 DEF Odd
<1> QED
  BY <1>4, <1>5

-----------------------------------------------------------------------------
(* The correlation of one vector.                                          *)

LEMMA PathInjective ==
  ASSUME NEW p, p.L \in Nat, p.L > 0, NEW x, NEW iv, NEW tree, PathTree(p, x, iv, tree),
         NEW a \in 0..(2 * p.L - 2), NEW b \in 0..(2 * p.L - 2), tree[a] = tree[b]
  PROVE  a = b
<1> DEFINE s == tree[a]
           S == Steps(x, iv)
<1>1. s \in Seq(S) /\ Len(s) > 0
  BY PathsAre DEF PathOf
<1>2. Begins(s, s)
  <2> HIDE DEF s, S
  <2>1. Len(s) \in Nat /\ SubSeq(s, 1, Len(s)) = s
    BY <1>1, LenProperties, SubSeqFull
  <2> QED
    BY <1>1, <2>1 DEF Begins
<1>3. a \in Ancestors(b) /\ b \in Ancestors(a)
  BY <1>2, BeginsWhenAbove
<1>4. a \in Nat /\ b \in Nat
  OBVIOUS
<1>5. a <= b /\ b <= a
  BY <1>3, <1>4, AncestorFacts
<1> QED
  BY <1>4, <1>5

LEMMA DepthSizes ==
  ASSUME NEW p, Legal(p), NEW i \in Vectors(p)
  PROVE  Depth(p, i) \in Nat /\ VcN(p, i) = 2^Depth(p, i) /\ Positions(p, i) = 0..(2^Depth(p, i) - 1)
<1>1. p.k \in Nat /\ p.k > 0
  BY ParamFacts
<1> QED
  BY <1>1 DEF Depth, VcN, Positions

\* The vector of one seed, once more for a family of seeds.
SeedVectors(p, tree, iv, i) ==
  [m \in Positions(p, i) |-> [sd |-> LeafSeed(p, tree, i, m), iv |-> iv, vec |-> i]]

\* u is the sum of all vectors, v[d] of those at positions with bit d.
SumsUp(n, x, vole) ==
  /\ \A z : z \in vole.u <=> \E m \in 0..(2^n - 1) : z = x[m]
  /\ \A d \in 0..(n - 1) : \A z :
       z \in vole.v[d] <=> \E m \in 0..(2^n - 1) : BitAt(m, d) = 1 /\ z = x[m]

LEMMA VectorsDiffer ==
  ASSUME NEW p, Legal(p), NEW i \in Vectors(p), NEW x, NEW iv,
         NEW tree, PathTree(p, x, iv, tree),
         NEW j \in Positions(p, i), NEW m \in Positions(p, i),
         SeedVectors(p, tree, iv, i)[j] = SeedVectors(p, tree, iv, i)[m]
  PROVE  j = m
<1>1. p.L \in Nat /\ p.L > 0
  BY ParamFacts
<1>2. tree[PosInTree(p, i, j)] = tree[PosInTree(p, i, m)]
  BY DEF SeedVectors, LeafSeed
<1>3. /\ PosInTree(p, i, j) \in (p.L - 1)..(2 * p.L - 2)
      /\ PosInTree(p, i, m) \in (p.L - 1)..(2 * p.L - 2)
  BY PosIsLeaf
<1>4. PosInTree(p, i, j) \in 0..(2 * p.L - 2) /\ PosInTree(p, i, m) \in 0..(2 * p.L - 2)
  BY <1>1, <1>3
<1>5. PosInTree(p, i, j) = PosInTree(p, i, m)
  BY <1>1, <1>2, <1>4, PathInjective
<1> QED
  BY <1>5, PosInjective

LEMMA ProverVector ==
  ASSUME NEW p, Legal(p), NEW i \in Vectors(p), NEW x, NEW iv,
         NEW tree, PathTree(p, x, iv, tree)
  PROVE  SumsUp(Depth(p, i), SeedVectors(p, tree, iv, i),
                ConvertToVole(p, LeafSeeds(p, tree, i), iv, FALSE, i))
<1> DEFINE n == Depth(p, i)
           N == 0..(2^n - 1)
           y == SeedVectors(p, tree, iv, i)
           row0 == [j \in Positions(p, i) |-> PrgOut(LeafSeeds(p, tree, i)[j], iv, i)]
           vole == Butterfly(n, row0)
<1>1. n \in Nat /\ Positions(p, i) = N
  BY DepthSizes
<1>2. ConvertToVole(p, LeafSeeds(p, tree, i), iv, FALSE, i) = vole
  BY DEF ConvertToVole
<1>3. \A m \in N : row0[m] = {y[m]}
  BY <1>1 DEF SeedVectors, LeafSeeds, PrgOut
<1>4. \A j, m \in N : y[j] = y[m] => j = m
  <2> HIDE DEF n, row0, vole
  <2>1. \A j, m \in Positions(p, i) : y[j] = y[m] => j = m
    BY VectorsDiffer
  <2> QED
    BY <1>1, <2>1
<1> HIDE DEF n, y, row0, vole
<1>5. Apart(n, row0)
  BY <1>3, <1>4 DEF Apart
<1>6. /\ vole.u = UNION {row0[m] : m \in N}
      /\ \A d \in 0..(n - 1) :
           vole.v[d] = UNION {row0[m] : m \in {k \in N : BitAt(k, d) = 1}}
  BY <1>1, <1>5, ButterflyIs DEF vole
<1>7. \A z : z \in vole.u <=> \E m \in N : z = y[m]
  BY <1>3, <1>6
<1>8. ASSUME NEW d \in 0..(n - 1), NEW z
      PROVE  z \in vole.v[d] <=> \E m \in N : BitAt(m, d) = 1 /\ z = y[m]
  <2>1. vole.v[d] = UNION {row0[m] : m \in {k \in N : BitAt(k, d) = 1}}
    BY <1>6
  <2>2. z \in vole.v[d] <=> \E m \in N : BitAt(m, d) = 1 /\ z \in row0[m]
    BY <2>1
  <2> QED
    BY <1>3, <2>2
<1>9. SumsUp(n, y, vole)
  BY <1>7, <1>8 DEF SumsUp
<1> QED
  BY <1>2, <1>9 DEF n, y

LEMMA XorNumberSelf ==
  ASSUME NEW n \in Nat, NEW b \in Nat
  PROVE  XorNumber(n, b, b) = 0
<1> DEFINE x == XorNumber(n, b, b)
<1>1. x \in 0..(2^n - 1) /\ \A d \in 0..(n - 1) : BitAt(x, d) = (BitAt(b, d) + BitAt(b, d)) % 2
  BY XorNumberIs
<1> HIDE DEF x
<1>2. 2^n \in Nat /\ 2^n > 0
  BY PowerPositive
<1>3. 0 \in 0..(2^n - 1)
  BY <1>2
<1>4. ASSUME NEW d \in 0..(n - 1) PROVE BitAt(x, d) = BitAt(0, d)
  <2>1. BitAt(b, d) \in {0, 1}
    BY BitRange
  <2>2. BitAt(x, d) = 0
    BY <1>1, <2>1
  <2>3. BitAt(0, d) = 0
    <3> DEFINE q == 2^d
    <3>1. q \in Nat /\ q > 0
      BY PowerPositive
    <3> HIDE DEF q
    <3>2. q * 0 = 0 /\ q * 0 <= 0 /\ 0 < q * 0 + q
      BY <3>1
    <3>3. 0 \div q = 0
      BY <3>1, <3>2, DivUnique
    <3>4. (0 \div q) % 2 = 0
      BY <3>3
    <3> QED
      BY <3>4 DEF BitAt, q
  <2> QED
    BY <2>2, <2>3
<1>5. x = 0
  BY <1>1, <1>3, <1>4, BitsUnique
<1> QED
  BY <1>5 DEF x

\* Row d adds up the vectors at the positions whose offset has bit d.
OffsetRow(p, i, offset, x, d, row) ==
  \A z : z \in row <=> \E m \in Positions(p, i) :
                         BitAt(XorNumber(Depth(p, i), m, offset), d) = 1 /\ z = x[m]

\* The verifier's vectors: those of the prover, at their offset from delta,
\* but for the hidden one, which is missing.
LEMMA VerifierVector ==
  ASSUME NEW p, Legal(p), NEW i \in Vectors(p), NEW x, NEW iv,
         NEW tree, PathTree(p, x, iv, tree), NEW key,
         NEW delta, delta[i] \in Positions(p, i),
         \A j \in Positions(p, i) : j # delta[i] => LeafSeed(p, key, i, j) = LeafSeed(p, tree, i, j),
         NEW d \in 0..(Depth(p, i) - 1)
  PROVE  OffsetRow(p, i, delta[i], SeedVectors(p, tree, iv, i), d,
                   ConvertToVole(p, MovedSeeds(p, key, delta, i), iv, TRUE, i).v[d])
<1> SUFFICES ASSUME NEW z
             PROVE  z \in ConvertToVole(p, MovedSeeds(p, key, delta, i), iv, TRUE, i).v[d]
                      <=> \E m \in Positions(p, i) :
                            /\ BitAt(XorNumber(Depth(p, i), m, delta[i]), d) = 1
                            /\ z = SeedVectors(p, tree, iv, i)[m]
  BY DEF OffsetRow
<1> DEFINE n == Depth(p, i)
           N == 0..(2^n - 1)
           e == delta[i]
           X(m) == XorNumber(n, m, e)
           y == SeedVectors(p, tree, iv, i)
           sd == MovedSeeds(p, key, delta, i)
           row0 == [j \in Positions(p, i) |-> IF j = 0 THEN {} ELSE PrgOut(sd[j], iv, i)]
           vole == Butterfly(n, row0)
<1>1. n \in Nat /\ Positions(p, i) = N /\ 2^n \in Nat /\ 2^n > 0
  BY DepthSizes, PowerPositive
<1>2. ConvertToVole(p, sd, iv, TRUE, i) = vole
  <2>1. [j \in Positions(p, i) |-> IF j = 0 /\ TRUE THEN {} ELSE PrgOut(sd[j], iv, i)] = row0
    OBVIOUS
  <2> QED
    BY <2>1 DEF ConvertToVole
<1>3. e \in N /\ e \in Nat
  BY <1>1
<1>4. \A m \in N : m \in Nat /\ X(m) \in N
  <2> TAKE m \in N
  <2>1. m \in Nat
    BY <1>1
  <2> HIDE DEF n
  <2> QED
    BY <1>1, <1>3, <2>1, XorNumberIs
<1>5. \A m \in N : X(X(m)) = m
  BY <1>1, <1>3, XorNumberTwice
<1>6. X(e) = 0
  BY <1>1, <1>3, XorNumberSelf
<1> HIDE DEF X
<1>7. ASSUME NEW m \in N, m # 0 PROVE row0[m] = {y[X(m)]}
  <2>1. X(m) \in N /\ X(m) # e
    BY <1>4, <1>5, <1>6, <1>7
  <2>2. sd[m] = LeafSeed(p, key, i, X(m))
    BY <1>1 DEF MovedSeeds, X
  <2>3. LeafSeed(p, key, i, X(m)) = LeafSeed(p, tree, i, X(m))
    BY <1>1, <2>1
  <2>4. y[X(m)] = [sd |-> LeafSeed(p, tree, i, X(m)), iv |-> iv, vec |-> i]
    BY <1>1, <2>1 DEF SeedVectors
  <2>5. row0[m] = PrgOut(sd[m], iv, i)
    BY <1>1, <1>7
  <2> QED
    BY <2>2, <2>3, <2>4, <2>5 DEF PrgOut
<1>8. row0[0] = {} /\ 0 \in N
  BY <1>1
<1>9. \A j, m \in N : y[j] = y[m] => j = m
  BY <1>1, VectorsDiffer
<1> HIDE DEF n, y, row0, vole, sd, e
<1>10. Apart(n, row0)
  <2> SUFFICES ASSUME NEW k \in N, NEW m \in N, k # m PROVE row0[k] \cap row0[m] = {}
    BY DEF Apart
  <2>1. CASE k = 0 \/ m = 0
    BY <1>8, <2>1
  <2>2. CASE k # 0 /\ m # 0
    <3>1. X(k) # X(m) /\ X(k) \in N /\ X(m) \in N
      BY <1>4, <1>5
    <3>2. y[X(k)] # y[X(m)]
      BY <1>9, <3>1
    <3> QED
      BY <1>7, <2>2, <3>2
  <2> QED
    BY <2>1, <2>2
<1>11. vole.v[d] = UNION {row0[m] : m \in {k \in N : BitAt(k, d) = 1}}
  <2>1. d \in 0..(n - 1)
    BY DEF n
  <2> QED
    BY <1>1, <1>10, <2>1, ButterflyIs DEF vole
<1>12. z \in vole.v[d] <=> \E m \in N : BitAt(m, d) = 1 /\ z \in row0[m]
  BY <1>11
<1>13. z \in vole.v[d] <=> \E m \in N : BitAt(m, d) = 1 /\ z = y[X(m)]
  <2>1. BitAt(0, d) # 1
    <3>1. d \in Nat
      BY <1>1 DEF n
    <3>2. BitAt(0, d) = 0
      <4> DEFINE q == 2^d
      <4>1. q \in Nat /\ q > 0
        BY <3>1, PowerPositive
      <4> HIDE DEF q
      <4>2. q * 0 = 0 /\ q * 0 <= 0 /\ 0 < q * 0 + q
        BY <4>1
      <4>3. 0 \div q = 0
        BY <4>1, <4>2, DivUnique
      <4>4. (0 \div q) % 2 = 0
        BY <4>3
      <4> QED
        BY <4>4 DEF BitAt, q
    <3> QED
      BY <3>2
  <2>2. \A m \in N : BitAt(m, d) = 1 => row0[m] = {y[X(m)]}
    BY <1>7, <2>1
  <2> QED
    BY <1>12, <2>2
<1>14. (\E m \in N : BitAt(m, d) = 1 /\ z = y[X(m)])
         <=> (\E m \in N : BitAt(X(m), d) = 1 /\ z = y[m])
  <2>1. ASSUME NEW m \in N, BitAt(m, d) = 1, z = y[X(m)]
        PROVE  \E k \in N : BitAt(X(k), d) = 1 /\ z = y[k]
    BY <1>4, <1>5, <2>1
  <2>2. ASSUME NEW m \in N, BitAt(X(m), d) = 1, z = y[m]
        PROVE  \E k \in N : BitAt(k, d) = 1 /\ z = y[X(k)]
    BY <1>4, <1>5, <2>2
  <2> QED
    BY <2>1, <2>2
<1> QED
  BY <1>1, <1>2, <1>13, <1>14 DEF n, y, sd, e, X

RowCorrelates(p, tree, key, delta, iv, i, d) ==
  ConvertToVole(p, MovedSeeds(p, key, delta, i), iv, TRUE, i).v[d]
    = MaskedXor(ConvertToVole(p, LeafSeeds(p, tree, i), iv, FALSE, i).v[d],
                ConvertToVole(p, LeafSeeds(p, tree, i), iv, FALSE, i).u,
                BitAt(delta[i], d))

\* Row d of a vector on the two sides: the verifier's is the prover's, plus u
\* when bit d of delta is set.
LEMMA VectorCorrelates ==
  ASSUME NEW p, Legal(p), NEW i \in Vectors(p), NEW x, NEW iv,
         NEW tree, PathTree(p, x, iv, tree), NEW key,
         NEW delta, delta[i] \in Positions(p, i),
         \A j \in Positions(p, i) : j # delta[i] => LeafSeed(p, key, i, j) = LeafSeed(p, tree, i, j),
         NEW d \in 0..(Depth(p, i) - 1)
  PROVE  RowCorrelates(p, tree, key, delta, iv, i, d)
<1> USE DEF RowCorrelates
<1> DEFINE n == Depth(p, i)
           N == 0..(2^n - 1)
           y == SeedVectors(p, tree, iv, i)
           mine == ConvertToVole(p, LeafSeeds(p, tree, i), iv, FALSE, i)
           v == mine.v[d]
           u == mine.u
           q == ConvertToVole(p, MovedSeeds(p, key, delta, i), iv, TRUE, i).v[d]
           e == delta[i]
           b == BitAt(e, d)
<1>1. n \in Nat /\ Positions(p, i) = N /\ 2^n \in Nat
  BY DepthSizes, PowerPositive
<1>2. e \in Nat /\ d \in Nat /\ \A m \in N : m \in Nat
  BY <1>1
<1>3. b \in {0, 1} /\ \A m \in N : BitAt(m, d) \in {0, 1}
  BY <1>2, BitRange
<1>4a. SumsUp(n, y, mine) /\ d \in 0..(n - 1)
  <2>1. SumsUp(n, y, mine)
    BY ProverVector
  <2> QED
    BY <2>1
<1>5a. /\ \A z : z \in u <=> \E m \in N : z = y[m]
       /\ \A z : z \in v <=> \E m \in N : BitAt(m, d) = 1 /\ z = y[m]
  <2> HIDE DEF n, y, mine
  <2> QED
    BY <1>4a DEF SumsUp
<1>4. \A z : z \in u <=> \E m \in N : z = y[m]
  BY <1>5a
<1>5. \A z : z \in v <=> \E m \in N : BitAt(m, d) = 1 /\ z = y[m]
  BY <1>5a
<1>6. ASSUME NEW z
      PROVE  z \in q <=> \E m \in N : BitAt(XorNumber(n, m, e), d) = 1 /\ z = y[m]
  <2>0. OffsetRow(p, i, e, y, d, q)
    BY VerifierVector
  <2>1. z \in q <=> \E m \in Positions(p, i) : BitAt(XorNumber(n, m, e), d) = 1 /\ z = y[m]
    <3> HIDE DEF y, q, e
    <3> QED
      BY <2>0 DEF OffsetRow
  <2> QED
    BY <1>1, <2>1
<1>7. ASSUME NEW m \in N PROVE BitAt(XorNumber(n, m, e), d) = (BitAt(m, d) + b) % 2
  <2>1. m \in Nat /\ d \in 0..(n - 1)
    BY <1>2, <1>4a
  <2> HIDE DEF n, e
  <2> QED
    BY <1>1, <1>2, <2>1, XorNumberIs
<1>8. \A j, m \in N : y[j] = y[m] => j = m
  <2> HIDE DEF n, mine
  <2>1. \A j, m \in Positions(p, i) : y[j] = y[m] => j = m
    BY VectorsDiffer
  <2> QED
    BY <1>1, <2>1
<1> HIDE DEF n, y, v, u, q, e, b
<1>9. CASE b = 0
  <2>1. \A m \in N : BitAt(XorNumber(n, m, e), d) = BitAt(m, d)
    BY <1>3, <1>7, <1>9
  <2>2. \A z : z \in q <=> z \in v
    BY <1>5, <1>6, <2>1
  <2>3. q = v
    BY <2>2
  <2>4. MaskedXor(v, u, b) = v
    BY <1>9 DEF MaskedXor
  <2> QED
    BY <2>3, <2>4 DEF q, v, u, b, e
<1>10. CASE b = 1
  <2>1. \A m \in N : BitAt(XorNumber(n, m, e), d) = 1 <=> BitAt(m, d) # 1
    BY <1>3, <1>7, <1>10
  <2>2. \A z : z \in q <=> z \in u /\ z \notin v
    <3> TAKE z
    <3>1. ASSUME z \in q PROVE z \in u /\ z \notin v
      <4>1. PICK m \in N : BitAt(m, d) # 1 /\ z = y[m]
        BY <1>6, <2>1, <3>1
      <4>2. \A k \in N : z = y[k] => k = m
        BY <1>8, <4>1
      <4> QED
        BY <1>4, <1>5, <4>1, <4>2
    <3>2. ASSUME z \in u, z \notin v PROVE z \in q
      <4>1. PICK m \in N : z = y[m]
        BY <1>4, <3>2
      <4>2. BitAt(m, d) # 1
        BY <1>5, <3>2, <4>1
      <4> QED
        BY <1>6, <2>1, <4>1, <4>2
    <3> QED
      BY <3>1, <3>2
  <2>3. v \subseteq u
    BY <1>4, <1>5
  <2>4. q = Xor(v, u)
    BY <2>2, <2>3 DEF Xor
  <2>5. MaskedXor(v, u, b) = Xor(v, u)
    BY <1>10 DEF MaskedXor
  <2> QED
    BY <2>4, <2>5 DEF q, v, u, b, e
<1> QED
  BY <1>3, <1>9, <1>10

-----------------------------------------------------------------------------
(* Rows and the bits of the challenge.                                     *)

LEMMA BitOfShifted ==
  ASSUME NEW x \in Nat, NEW r \in Nat, NEW d \in Nat
  PROVE  BitAt(x \div 2^r, d) = BitAt(x, r + d)
<1> DEFINE T == {n \in Nat : \A y \in Nat : BitAt(y \div 2^n, d) = BitAt(y, n + d)}
<1>1. 0 \in T
  <2> SUFFICES ASSUME NEW y \in Nat PROVE BitAt(y \div 2^0, d) = BitAt(y, 0 + d)
    OBVIOUS
  <2>1. y \div 1 = y /\ 0 + d = d
    OBVIOUS
  <2> QED
    BY <2>1, PowerZero
<1>2. ASSUME NEW n \in Nat, n \in T PROVE n + 1 \in T
  <2> SUFFICES ASSUME NEW y \in Nat PROVE BitAt(y \div 2^(n + 1), d) = BitAt(y, (n + 1) + d)
    OBVIOUS
  <2>1. y \div 2 \in Nat /\ (n + 1) + d = (n + d) + 1 /\ n + d \in Nat
    OBVIOUS
  <2>2. (y \div 2) \div 2^n = y \div 2^(n + 1)
    BY HalveThenShift
  <2>3. BitAt((y \div 2) \div 2^n, d) = BitAt(y \div 2, n + d)
    BY <1>2, <2>1
  <2>4. BitAt(y, (n + d) + 1) = BitAt(y \div 2, n + d)
    BY <2>1, BitHalf
  <2> QED
    BY <2>1, <2>2, <2>3, <2>4
<1> HIDE DEF T
<1>3. r \in T
  BY <1>1, <1>2, NatSetInduction
<1> QED
  BY <1>3 DEF T

LEMMA HalveRemainder ==
  ASSUME NEW x \in Nat, NEW q \in Nat, q > 0
  PROVE  /\ x % (2 * q) \in Nat /\ (x % (2 * q)) % 2 = x % 2
         /\ (x % (2 * q)) \div 2 = (x \div 2) % q
<1> DEFINE m == 2 * q
           r == x % m
           y == x \div m
           h == x \div 2
           g == q * y
<1>1. m \in Nat /\ m > 0 /\ m = 2 * q
  OBVIOUS
<1> HIDE DEF m
<1>2. y \in Nat /\ r \in 0..(m - 1) /\ x = m * y + r
  BY <1>1, DivProps
<1> HIDE DEF y, r
<1>3. m * y = 2 * g /\ g \in Nat
  BY <1>1, <1>2
<1> HIDE DEF g
<1>4. r \in Nat /\ r < 2 * q /\ x = 2 * g + r
  BY <1>1, <1>2, <1>3
<1>5. x % 2 = r % 2 /\ h = g + (r \div 2)
  BY <1>3, <1>4
<1>6. r \div 2 \in Nat /\ r \div 2 < q
  BY <1>4
<1> HIDE DEF h
<1>7. h \in Nat /\ g <= h /\ h < g + q
  BY <1>3, <1>5, <1>6
<1>8. h \div q = y
  BY <1>2, <1>7, DivUnique DEF g
<1>9. h = q * (h \div q) + (h % q) /\ h % q \in 0..(q - 1)
  BY <1>7, DivProps
<1>10. h % q = r \div 2
  <2>1. h = g + (h % q)
    BY <1>8, <1>9 DEF g
  <2> DEFINE a == h % q
             b == r \div 2
  <2>2. a \in Nat /\ b \in Nat /\ h = g + a /\ h = g + b
    BY <1>5, <1>6, <1>9, <2>1
  <2> HIDE DEF a, b
  <2>3. a = b
    BY <1>3, <2>2
  <2> QED
    BY <2>3 DEF a, b
<1> QED
  BY <1>4, <1>5, <1>10 DEF r, h, m

LEMMA BitOfRemainder ==
  ASSUME NEW x \in Nat, NEW n \in Nat, NEW d \in Nat, d < n
  PROVE  BitAt(x % 2^n, d) = BitAt(x, d)
<1> DEFINE T == {e \in Nat : \A y, m \in Nat : e < m => BitAt(y % 2^m, e) = BitAt(y, e)}
<1>1. ASSUME NEW y \in Nat, NEW m \in Nat, m > 0
      PROVE  /\ m - 1 \in Nat /\ y % 2^m \in Nat /\ (y % 2^m) % 2 = y % 2
             /\ (y % 2^m) \div 2 = (y \div 2) % 2^(m - 1)
  <2>1. m - 1 \in Nat /\ (m - 1) + 1 = m
    BY <1>1
  <2>2. 2^(m - 1) \in Nat /\ 2^(m - 1) > 0 /\ 2^m = 2 * 2^(m - 1)
    <3>1. 2^((m - 1) + 1) = 2 * 2^(m - 1)
      BY <2>1, PowerStep
    <3> QED
      BY <2>1, <3>1, PowerPositive
  <2> DEFINE q == 2^(m - 1)
             s == 2^m
  <2>3. q \in Nat /\ q > 0 /\ s = 2 * q
    BY <2>2
  <2> HIDE DEF q, s
  <2>4. y % s \in Nat /\ (y % s) % 2 = y % 2 /\ (y % s) \div 2 = (y \div 2) % q
    BY <2>3, HalveRemainder
  <2> QED
    BY <2>1, <2>4 DEF q, s
<1>2. 0 \in T
  <2> SUFFICES ASSUME NEW y \in Nat, NEW m \in Nat, 0 < m PROVE BitAt(y % 2^m, 0) = BitAt(y, 0)
    OBVIOUS
  <2> QED
    BY <1>1, BitZero
<1>3. ASSUME NEW e \in Nat, e \in T PROVE e + 1 \in T
  <2> SUFFICES ASSUME NEW y \in Nat, NEW m \in Nat, e + 1 < m
               PROVE  BitAt(y % 2^m, e + 1) = BitAt(y, e + 1)
    OBVIOUS
  <2>1. m > 0 /\ m - 1 \in Nat /\ e < m - 1 /\ y \div 2 \in Nat
    OBVIOUS
  <2>2. y % 2^m \in Nat /\ (y % 2^m) \div 2 = (y \div 2) % 2^(m - 1)
    BY <1>1, <2>1
  <2>3. BitAt(y % 2^m, e + 1) = BitAt((y % 2^m) \div 2, e)
    BY <2>2, BitHalf
  <2>4. BitAt((y \div 2) % 2^(m - 1), e) = BitAt(y \div 2, e)
    BY <1>3, <2>1
  <2> QED
    BY <2>2, <2>3, <2>4, BitHalf
<1> HIDE DEF T
<1>4. d \in T
  BY <1>2, <1>3, NatSetInduction
<1> QED
  BY <1>4 DEF T

LEMMA RowStart ==
  ASSUME NEW p, Legal(p), NEW i \in Vectors(p), NEW d \in Nat
  PROVE  RowOf(p, i, 0) \in Nat /\ RowOf(p, i, d) = RowOf(p, i, 0) + d
<1>1. /\ p.tau \in Nat /\ p.k \in Nat /\ p.k > 0 /\ p.tau1 \in 0..(p.tau - 1)
  BY ParamFacts
<1>2. i \in Nat
  BY <1>1 DEF Vectors
<1>3. CASE i < p.tau1
  <2>1. i * p.k \in Nat
    BY <1>1, <1>2
  <2> QED
    BY <1>3, <2>1 DEF RowOf
<1>4. CASE ~ (i < p.tau1)
  <2> DEFINE a == p.tau1 * p.k
             b == (i - p.tau1) * (p.k - 1)
  <2>1. p.tau1 \in Nat /\ i - p.tau1 \in Nat /\ p.k - 1 \in Nat
    BY <1>1, <1>2, <1>4
  <2>2. a \in Nat /\ b \in Nat
    BY <1>1, <2>1
  <2>3. RowOf(p, i, 0) = a + b + 0 /\ RowOf(p, i, d) = a + b + d
    BY <1>4 DEF RowOf
  <2> HIDE DEF a, b
  <2> QED
    BY <2>2, <2>3
<1> QED
  BY <1>3, <1>4

\* A group of bits of the challenge is an index of its vector, and its bits
\* are those of the rows of the vector.
LEMMA DecodedIndex ==
  ASSUME NEW p, Legal(p), NEW chall \in Nat
  PROVE  /\ InRange(p, DecodeChallenge(p, chall))
         /\ \A i \in Vectors(p) : \A d \in 0..(Depth(p, i) - 1) :
              BitAt(DecodeChallenge(p, chall)[i], d) = BitAt(chall, RowOf(p, i, d))
<1>1. ASSUME NEW i \in Vectors(p)
      PROVE  /\ DecodeChallenge(p, chall)[i] \in Positions(p, i)
             /\ \A d \in 0..(Depth(p, i) - 1) :
                  BitAt(DecodeChallenge(p, chall)[i], d) = BitAt(chall, RowOf(p, i, d))
  <2> DEFINE n == Depth(p, i)
             r == RowOf(p, i, 0)
             x == chall \div 2^r
             q == 2^n
  <2>1. n \in Nat /\ Positions(p, i) = 0..(2^n - 1)
    BY DepthSizes
  <2>2. r \in Nat
    BY RowStart
  <2>3. x \in Nat
    BY <2>2, ShiftStep
  <2>4. DecodeChallenge(p, chall)[i] = x % q
    BY DEF DecodeChallenge
  <2>5. q \in Nat /\ q > 0
    BY <2>1, PowerPositive
  <2> HIDE DEF x
  <2>6. x % q \in 0..(q - 1)
    <3> HIDE DEF q
    <3> QED
      BY <2>3, <2>5, DivProps
  <2>7. ASSUME NEW d \in 0..(n - 1) PROVE BitAt(x % q, d) = BitAt(chall, RowOf(p, i, d))
    <3>1. d \in Nat /\ d < n
      BY <2>1
    <3> HIDE DEF n
    <3>2. BitAt(x % q, d) = BitAt(x, d)
      BY <2>1, <2>3, <3>1, BitOfRemainder
    <3> HIDE DEF r
    <3>3. BitAt(x, d) = BitAt(chall, r + d)
      BY <2>2, <3>1, BitOfShifted DEF x
    <3>4. RowOf(p, i, d) = r + d
      BY <3>1, RowStart DEF r
    <3> QED
      BY <3>2, <3>3, <3>4
  <2> QED
    BY <2>1, <2>4, <2>6, <2>7
<1> QED
  BY <1>1 DEF InRange

\* Every index bit is a row of one vector.
LEMMA RowPlace ==
  ASSUME NEW p, Legal(p), NEW r \in 0..(IndexBits(p) - 1)
  PROVE  /\ VectorOf(p, r) \in Vectors(p)
         /\ BitOf(p, r) \in 0..(Depth(p, VectorOf(p, r)) - 1)
         /\ RowOf(p, VectorOf(p, r), BitOf(p, r)) = r
<1> DEFINE k == p.k
           t == p.tau1
           long == t * k
<1>1. /\ p.tau \in Nat /\ k \in Nat /\ k > 0 /\ t \in 0..(p.tau - 1)
      /\ IndexBits(p) = p.tau * (k - 1) + t
  BY ParamFacts DEF IndexBits
<1>2. long \in Nat /\ t \in Nat /\ r \in Nat
  BY <1>1
<1>3. CASE r < long
  <2> DEFINE i == r \div k
             d == r % k
  <2>1. i \in Nat /\ d \in 0..(k - 1) /\ r = k * i + d /\ k * i <= r
    BY <1>1, <1>2, DivProps
  <2>2. VectorOf(p, r) = i /\ BitOf(p, r) = d
    BY <1>3 DEF VectorOf, BitOf
  <2> HIDE DEF i, d, k, t
  <2>3. i < t
    <3> SUFFICES ASSUME i >= t PROVE FALSE
      BY <1>2, <2>1
    <3>1. PICK g \in Nat : i = t + g
      <4>1. i - t \in Nat /\ i = t + (i - t)
        BY <1>2, <2>1
      <4> QED
        BY <4>1
    <3>2. k * i = t * k + k * g /\ k * g \in Nat
      BY <1>1, <1>2, <3>1
    <3> QED
      BY <1>2, <1>3, <2>1, <3>2
  <2>4. i \in Vectors(p) /\ Depth(p, i) = k
    BY <1>1, <2>1, <2>3 DEF Vectors, Depth, k, t
  <2>5. RowOf(p, i, d) = i * k + d
    BY <2>3 DEF RowOf, k, t
  <2>6. i * k = k * i
    BY <1>1, <2>1
  <2>7. RowOf(p, i, d) = r
    BY <2>1, <2>5, <2>6
  <2> QED
    BY <2>1, <2>2, <2>4, <2>7
<1>4. CASE ~ (r < long)
  <2> DEFINE m == k - 1
             s == r - long
             g == s \div m
             d == s % m
             z == p.tau - t
  <2>1. m \in Nat /\ s \in Nat /\ z \in Nat /\ z > 0 /\ k = m + 1 /\ r = long + s /\ p.tau = t + z
    BY <1>1, <1>2, <1>4
  <2>2. s < z * m
    <3>1. r < p.tau * m + t
      BY <1>1, <1>2
    <3> HIDE DEF m, s, z, k
    <3>2. p.tau * m = t * m + z * m /\ long = t * m + t /\ t * m \in Nat /\ z * m \in Nat
      BY <1>2, <2>1
    <3> QED
      BY <1>2, <2>1, <3>1, <3>2
  <2>3. m > 0
    <3> HIDE DEF s, z, m
    <3>1. m = 0 => z * m = 0
      BY <2>1
    <3> QED
      BY <2>1, <2>2, <3>1
  <2>4. VectorOf(p, r) = t + g /\ BitOf(p, r) = d
    BY <1>4 DEF VectorOf, BitOf
  <2> HIDE DEF m, s, z
  <2>5. g \in Nat /\ d \in 0..(m - 1) /\ s = m * g + d /\ m * g <= s
    BY <2>1, <2>3, DivProps
  <2> HIDE DEF g, d
  <2>6. g < z
    <3> SUFFICES ASSUME g >= z PROVE FALSE
      BY <2>1, <2>5
    <3>1. PICK h \in Nat : g = z + h
      <4>1. g - z \in Nat /\ g = z + (g - z)
        BY <2>1, <2>5
      <4> QED
        BY <4>1
    <3>2. m * g = z * m + m * h /\ m * h \in Nat /\ z * m \in Nat
      BY <2>1, <3>1
    <3> QED
      BY <2>1, <2>2, <2>5, <3>2
  <2> DEFINE i == t + g
  <2>7. i \in Nat /\ i < p.tau /\ ~ (i < t) /\ i - t = g
    BY <1>1, <1>2, <2>1, <2>5, <2>6
  <2>8. i \in Vectors(p) /\ Depth(p, i) = m
    BY <1>1, <2>7 DEF Vectors, Depth, m
  <2>9. RowOf(p, i, d) = long + g * m + d
    BY <2>7 DEF RowOf, m
  <2>10. g * m = m * g
    BY <2>1, <2>5
  <2> HIDE DEF long, i
  <2>11. RowOf(p, i, d) = r
    <3>1. d \in Nat /\ m * g \in Nat
      BY <2>1, <2>5
    <3> QED
      BY <1>2, <2>1, <2>5, <2>9, <2>10, <3>1
  <2> QED
    BY <2>4, <2>5, <2>8, <2>11 DEF i
<1> QED
  BY <1>3, <1>4

LEMMA XorCancels ==
  ASSUME NEW v, NEW a, NEW b
  PROVE  Xor(Xor(v, b), Xor(a, b)) = Xor(v, a) /\ Xor(Xor(v, a), a) = v
BY DEF Xor

\* What the verifier computes from an honest opening: the commitment, and
\* Q = V + Delta * u.
LEMMA VoleReconstructs ==
  ASSUME NEW p, Legal(p), NEW chall \in Nat,
         NEW delta, delta = DecodeChallenge(p, chall), Openable(p, delta),
         \A b \in IndexBits(p)..(p.lambda - 1) : BitAt(chall, b) = 0,
         NEW x, NEW iv, NEW com, com = VoleCommit(p, <<x>>, iv),
         NEW rec, rec = VoleReconstruct(p, BavcOpen(p, com.bavc.tree, iv, delta), delta, iv, com.c)
  PROVE  /\ rec.com = com.bavc.com
         /\ \A r \in Rows(p) : rec.q[r] = MaskedXor(com.v[r], com.u, BitAt(chall, r))
<1> DEFINE bavc == BavcCommit(p, <<x>>, iv)
           tree == bavc.tree
           opening == BavcOpen(p, tree, iv, delta)
           key == Rebuild(p, opening, delta, iv).tree
           mine == [i \in Vectors(p) |-> ConvertToVole(p, LeafSeeds(p, tree, i), iv, FALSE, i)]
           his == [i \in Vectors(p) |-> ConvertToVole(p, MovedSeeds(p, key, delta, i), iv, TRUE, i)]
<1>1. /\ p.L \in Nat /\ p.L > 0 /\ p.tau \in Nat /\ p.tau > 0
      /\ p.lambda \in Nat /\ p.w \in 0..(p.lambda - 1)
  BY ParamFacts
<1>2. /\ InRange(p, delta)
      /\ \A i \in Vectors(p) : \A d \in 0..(Depth(p, i) - 1) :
           BitAt(delta[i], d) = BitAt(chall, RowOf(p, i, d))
  BY DecodedIndex
<1>3. /\ com.bavc = bavc /\ com.u = mine[0].u
      /\ \A r \in Rows(p) : com.v[r] = IF r < IndexBits(p)
                                       THEN mine[VectorOf(p, r)].v[BitOf(p, r)] ELSE {}
      /\ \A i \in 1..(p.tau - 1) : com.c[i] = Xor(mine[0].u, mine[i].u)
  BY DEF VoleCommit
<1>4. /\ rec.com = Rebuild(p, opening, delta, iv).com
      /\ \A r \in Rows(p) : rec.q[r] = IF r < IndexBits(p)
                                       THEN CorrectedRow(his, delta, com.c, VectorOf(p, r), BitOf(p, r))
                                       ELSE {}
  BY <1>3 DEF VoleReconstruct, CorrectedRows
<1>5. PathTree(p, x, iv, tree)
  <2>1. tree = Expand(p, <<x>>, iv)
    BY DEF BavcCommit
  <2> QED
    BY <1>1, <2>1, ExpandIsPath
<1>6. ASSUME NEW i \in Vectors(p), NEW j \in Positions(p, i), j # delta[i]
      PROVE  LeafSeed(p, key, i, j) = LeafSeed(p, tree, i, j)
  <2>1. tree = BavcCommit(p, <<x>>, iv).tree
    OBVIOUS
  <2> HIDE DEF tree
  <2> QED
    BY <1>2, <1>6, <2>1, RebuiltSeeds
<1>7. rec.com = com.bavc.com
  <2>1. bavc = BavcCommit(p, <<x>>, iv)
    OBVIOUS
  <2> HIDE DEF bavc
  <2>2. Rebuild(p, BavcOpen(p, bavc.tree, iv, delta), delta, iv).com = bavc.com
    BY <1>2, <2>1, RebuiltCommitment
  <2> QED
    BY <1>3, <1>4, <2>2
<1>8. ASSUME NEW i \in Vectors(p), NEW d \in 0..(Depth(p, i) - 1)
      PROVE  his[i].v[d] = MaskedXor(mine[i].v[d], mine[i].u, BitAt(delta[i], d))
  <2>1. /\ delta[i] \in Positions(p, i)
        /\ \A j \in Positions(p, i) : j # delta[i] => LeafSeed(p, key, i, j) = LeafSeed(p, tree, i, j)
    BY <1>2, <1>6 DEF InRange
  <2>2. /\ his[i] = ConvertToVole(p, MovedSeeds(p, key, delta, i), iv, TRUE, i)
        /\ mine[i] = ConvertToVole(p, LeafSeeds(p, tree, i), iv, FALSE, i)
    OBVIOUS
  <2> HIDE DEF his, mine, key, tree
  <2>3. RowCorrelates(p, tree, key, delta, iv, i, d)
    BY <1>5, <2>1, VectorCorrelates
  <2> QED
    BY <2>2, <2>3 DEF RowCorrelates
<1> HIDE DEF bavc, tree, opening, key, mine, his
<1>9. ASSUME NEW r \in Rows(p) PROVE rec.q[r] = MaskedXor(com.v[r], com.u, BitAt(chall, r))
  <2>0. r \in Nat /\ IndexBits(p) \in Nat /\ r <= p.lambda - 1
    BY <1>1 DEF Rows, IndexBits
  <2>1. CASE ~ (r < IndexBits(p))
    <3>1. BitAt(chall, r) = 0
      <4>1. r \in IndexBits(p)..(p.lambda - 1)
        BY <1>1, <2>0, <2>1
      <4> QED
        BY <4>1
    <3>2. rec.q[r] = {} /\ com.v[r] = {}
      BY <1>3, <1>4, <2>1
    <3>3. ~ (BitAt(chall, r) = 1)
      BY <3>1
    <3>4. MaskedXor(com.v[r], com.u, BitAt(chall, r)) = com.v[r]
      BY <3>3 DEF MaskedXor
    <3> QED
      BY <3>2, <3>4
  <2>2. CASE r < IndexBits(p)
    <3> DEFINE i == VectorOf(p, r)
               d == BitOf(p, r)
               b == BitAt(chall, r)
    <3>0. r \in 0..(IndexBits(p) - 1)
      BY <2>0, <2>2
    <3>1. i \in Vectors(p) /\ d \in 0..(Depth(p, i) - 1) /\ RowOf(p, i, d) = r
      BY <3>0, RowPlace
    <3>2. rec.q[r] = CorrectedRow(his, delta, com.c, i, d) /\ com.v[r] = mine[i].v[d]
      BY <1>3, <1>4, <2>2
    <3> HIDE DEF i, d, b
    <3>3. BitAt(delta[i], d) = b
      BY <1>2, <3>1 DEF b
    <3>4. his[i].v[d] = MaskedXor(mine[i].v[d], mine[i].u, b)
      BY <1>8, <3>1, <3>3
    <3>5. CASE i = 0
      <4>1. rec.q[r] = his[0].v[d]
        BY <3>2, <3>5 DEF CorrectedRow
      <4>2. rec.q[r] = MaskedXor(com.v[r], com.u, b)
        BY <1>3, <3>2, <3>4, <3>5, <4>1
      <4> QED
        BY <4>2 DEF b
    <3>6. CASE i # 0
      <4>1. i \in 1..(p.tau - 1)
        BY <1>1, <3>1, <3>6 DEF Vectors
      <4>2. com.c[i] = Xor(mine[0].u, mine[i].u)
        BY <1>3, <4>1
      <4>3. rec.q[r] = MaskedXor(his[i].v[d], com.c[i], b)
        BY <3>2, <3>3, <3>6 DEF CorrectedRow
      <4>4. CASE b = 1
        <5>1. rec.q[r] = Xor(Xor(mine[i].v[d], mine[i].u), Xor(mine[0].u, mine[i].u))
          BY <3>4, <4>2, <4>3, <4>4 DEF MaskedXor
        <5>2. rec.q[r] = Xor(mine[i].v[d], mine[0].u)
          BY <5>1, XorCancels
        <5>3. rec.q[r] = MaskedXor(com.v[r], com.u, b)
          BY <1>3, <3>2, <4>4, <5>2 DEF MaskedXor
        <5> QED
          BY <5>3 DEF b
      <4>5. CASE b # 1
        <5>1. rec.q[r] = mine[i].v[d]
          BY <3>4, <4>3, <4>5 DEF MaskedXor
        <5>2. rec.q[r] = MaskedXor(com.v[r], com.u, b)
          BY <3>2, <4>5, <5>1 DEF MaskedXor
        <5> QED
          BY <5>2 DEF b
      <4> QED
        BY <4>4, <4>5
    <3> QED
      BY <3>5, <3>6
  <2> QED
    BY <2>1, <2>2
<1> QED
  BY <1>7, <1>9
=============================================================================
