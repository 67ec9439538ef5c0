----------------------------- MODULE EpochProofs -----------------------------
(***************************************************************************)
(* The epoch key, proved for every depth, number of configurations, of     *)
(* identities and of files: forward security, that advance never gets      *)
(* stuck, what load accepts, who can sign what, that the history of        *)
(* advances leaves no trace, and the refinement of EpochKey.               *)
(*                                                                         *)
(* The invariant IInv says that the cover in memory is compute_cover's for *)
(* the current epoch, that each slot holds the seed of its own node or     *)
(* none, and that a file is what was written or one damage away from it.   *)
(* What makes it inductive is that whatever load accepts, damaged or not,  *)
(* carries the cover that was written (AcceptedIsSaved).  SoundInv adds    *)
(* which identity the seeds of an undamaged copy belong to.                *)
(***************************************************************************)
EXTENDS Epoch, LoopsProofs, SequenceTheorems

-----------------------------------------------------------------------------
(***************************************************************************)
(* The epoch tree for every depth: compute_cover tiles [t, T) with at most *)
(* depth blocks, and derive_node finds the seed of the node it is sent to. *)
(***************************************************************************)

\* Nodes of the tree of depth d.
Nodes(d) == 1..(2^(d + 1) - 1)

-----------------------------------------------------------------------------
(* Heap indices.                                                           *)

LEMMA HeapDepthIs ==
  ASSUME NEW k \in Nat, NEW h \in Nat, 2^k <= h, h < 2^(k + 1)
  PROVE  HeapDepth(h) = k
<1>1. k \in 0..h
  BY PowerPositive
<1>2. ASSUME NEW j \in 0..h, 2^j <= h, h < 2^(j + 1) PROVE j = k
  <2>1. CASE j < k
    <3>1. 2^(j + 1) <= 2^k
      BY <2>1, PowerMonotone
    <3>2. 2^(j + 1) \in Nat /\ 2^k \in Nat
      BY PowerPositive
    <3> QED
      BY <3>1, <3>2, <1>2
  <2>2. CASE k < j
    <3>1. 2^(k + 1) <= 2^j
      BY <2>2, PowerMonotone
    <3>2. 2^(k + 1) \in Nat /\ 2^j \in Nat
      BY PowerPositive
    <3> QED
      BY <3>1, <3>2, <1>2
  <2> QED
    BY <2>1, <2>2
<1> QED
  BY <1>1, <1>2 DEF HeapDepth

\* heap_range inverts the index compute_cover gives a block.
LEMMA BlockHeapIs ==
  ASSUME NEW d \in Nat, NEW i \in 0..d, NEW j \in Nat, j < 2^(d - i)
  PROVE  LET h == 2^(d - i) + j
         IN  /\ h \in Nodes(d)
             /\ HeapDepth(h) = d - i
             /\ HeapSize(d, h) = 2^i
             /\ HeapLo(d, h) = 2^i * j
             /\ HeapLo(d, h) + HeapSize(d, h) <= 2^d
<1> DEFINE P == 2^(d - i)
           q == 2^i
           h == P + j
<1>1. d - i \in Nat /\ (d - i) + 1 \in Nat /\ (d - i) + 1 <= d + 1 /\ d - (d - i) = i
      /\ d + 1 \in Nat /\ i \in Nat
  OBVIOUS
<1>2. P \in Nat /\ P > 0 /\ 2^((d - i) + 1) = 2 * P /\ q \in Nat /\ q > 0
  BY <1>1, PowerPositive, PowerStep
<1>3. 2^((d - i) + 1) <= 2^(d + 1) /\ 2^(d + 1) \in Nat
  BY <1>1, PowerMonotone, PowerPositive
<1>4. 2^d = q * P
  <2>1. d = i + (d - i)
    OBVIOUS
  <2> QED
    BY <2>1, <1>1, PowerSum
<1>5. HeapDepth(h) = d - i
  BY <1>1, <1>2, HeapDepthIs
<1>6. HeapSize(d, h) = q
  BY <1>1, <1>5 DEF HeapSize
<1>7. HeapLo(d, h) = q * j
  <2>1. HeapLo(d, h) = (h - P) * q
    BY <1>5, <1>6 DEF HeapLo
  <2>2. h - P = j /\ j * q = q * j
    BY <1>2
  <2> QED
    BY <2>1, <2>2
<1>8. q * j + q <= q * P
  <2>1. P - j \in Nat /\ P - j >= 1 /\ P = j + (P - j)
    BY <1>2
  <2>2. q * (j + (P - j)) = q * j + q * (P - j)
    BY <2>1, <1>2
  <2>3. q * (P - j) >= q
    BY <2>1, <1>2
  <2>4. q * j \in Nat /\ q * (P - j) \in Nat
    BY <2>1, <1>2
  <2> QED
    BY <2>1, <2>2, <2>3, <2>4
<1>9. h \in Nodes(d)
  BY <1>2, <1>3 DEF Nodes
<1> QED
  BY <1>4, <1>5, <1>6, <1>7, <1>8, <1>9

\* Every node is at some level of the tree, at some place in its level.
LEMMA NodePlace ==
  ASSUME NEW d \in Nat, NEW h \in Nodes(d)
  PROVE  \E i \in 0..d, j \in Nat : j < 2^(d - i) /\ h = 2^(d - i) + j
<1> DEFINE S == {n \in Nat : h < 2^(n + 1) =>
                    \E k \in 0..n : 2^k <= h /\ h < 2^(k + 1)}
<1>0. h \in Nat /\ h >= 1 /\ h < 2^(d + 1)
  BY PowerPositive DEF Nodes
<1>1. 0 \in S
  <2>1. 2^0 <= h /\ 0 \in 0..0
    BY <1>0, PowerZero
  <2>2. h < 2^(0 + 1) => \E k \in 0..0 : 2^k <= h /\ h < 2^(k + 1)
    BY <2>1
  <2> QED
    BY <2>2
<1>2. ASSUME NEW n \in Nat, n \in S PROVE n + 1 \in S
  <2> SUFFICES ASSUME h < 2^((n + 1) + 1)
               PROVE  \E k \in 0..(n + 1) : 2^k <= h /\ h < 2^(k + 1)
    OBVIOUS
  <2>0. 2^(n + 1) \in Nat
    BY PowerPositive
  <2>1. CASE h < 2^(n + 1)
    BY <1>2, <2>1
  <2>2. CASE ~(h < 2^(n + 1))
    BY <2>0, <2>2, <1>0
  <2> QED
    BY <2>1, <2>2
<1> HIDE DEF S
<1>3. Nat \subseteq S
  BY <1>1, <1>2, NatSetInduction
<1>4. PICK k \in 0..d : 2^k <= h /\ h < 2^(k + 1)
  BY <1>0, <1>3 DEF S
<1>5. 2^k \in Nat /\ 2^(k + 1) = 2 * 2^k
  BY PowerStep
<1>6. d - k \in 0..d /\ d - (d - k) = k /\ h - 2^k \in Nat /\ h - 2^k < 2^k /\ h = 2^k + (h - 2^k)
  BY <1>0, <1>4, <1>5
<1> QED
  BY <1>6

\* A node's depth, and the block of leaves it stands for.
LEMMA NodeBlock ==
  ASSUME NEW d \in Nat, NEW h \in Nodes(d)
  PROVE  /\ HeapDepth(h) \in 0..d
         /\ HeapLo(d, h) \in Nat /\ HeapSize(d, h) \in Nat /\ HeapSize(d, h) > 0
         /\ HeapSize(d, h) = 2^(d - HeapDepth(h))
         /\ HeapLo(d, h) + HeapSize(d, h) <= 2^d
         /\ h = 2^HeapDepth(h) + HeapLo(d, h) \div HeapSize(d, h)
         /\ HeapLo(d, h) = HeapSize(d, h) * (HeapLo(d, h) \div HeapSize(d, h))
<1>1. PICK i \in 0..d, j \in Nat : j < 2^(d - i) /\ h = 2^(d - i) + j
  BY NodePlace
<1>2. /\ HeapDepth(h) = d - i /\ HeapSize(d, h) = 2^i /\ HeapLo(d, h) = 2^i * j
      /\ HeapLo(d, h) + HeapSize(d, h) <= 2^d
  BY <1>1, BlockHeapIs
<1>3. 2^i \in Nat /\ 2^i > 0
  BY PowerPositive
<1>4. 2^i * j \in Nat /\ (2^i * j) \div 2^i = j
  <2> DEFINE q == 2^i
  <2>1. q \in Nat /\ q > 0
    BY <1>3
  <2> HIDE DEF q
  <2>2. q * j \in Nat /\ q * j <= q * j /\ q * j < q * j + q
    BY <2>1
  <2>3. (q * j) \div q = j
    BY <2>1, <2>2, DivUnique
  <2> QED
    BY <2>2, <2>3 DEF q
<1>5. d - i \in 0..d /\ d - (d - i) = i
  OBVIOUS
<1> QED
  BY <1>1, <1>2, <1>3, <1>4, <1>5

\* The leaves below a node lie in its block.
LEMMA LeafInBlock ==
  ASSUME NEW d \in Nat, NEW e \in Nat, e < 2^d, NEW j \in 0..d
  PROVE  LET h == (2^d + e) \div 2^j
         IN  h \in Nodes(d) /\ HeapLo(d, h) <= e /\ e < HeapLo(d, h) + HeapSize(d, h)
<1> DEFINE P == 2^(d - j)
           q == 2^j
           y == e \div q
<1>1. d - j \in Nat /\ j \in Nat /\ d = j + (d - j)
  OBVIOUS
<1>2. q \in Nat /\ q > 0 /\ P \in Nat /\ 2^d = q * P
  BY <1>1, PowerPositive, PowerSum
<1>3. y \in Nat /\ q * y <= e /\ e < q * y + q
  BY <1>2, DivProps
<1> HIDE DEF P, q, y
<1>4. y < P
  <2> SUFFICES ASSUME y >= P PROVE FALSE
    BY <1>2, <1>3
  <2>1. q * y >= q * P
    <3>1. y - P \in Nat /\ y = P + (y - P)
      BY <1>2, <1>3
    <3>2. q * (P + (y - P)) = q * P + q * (y - P) /\ q * (y - P) \in Nat /\ q * P \in Nat
      BY <3>1, <1>2
    <3> QED
      BY <3>1, <3>2
  <2>2. q * P \in Nat /\ q * y \in Nat
    BY <1>2, <1>3
  <2> QED
    BY <1>2, <1>3, <2>1, <2>2
<1>5. (2^d + e) \div q = P + y
  <2>1. q * (P + y) = q * P + q * y /\ q * P \in Nat /\ q * y \in Nat
    BY <1>2, <1>3
  <2>2. q * (P + y) <= 2^d + e /\ 2^d + e < q * (P + y) + q /\ 2^d + e \in Nat /\ P + y \in Nat
    BY <2>1, <1>2, <1>3
  <2> QED
    BY <2>2, <1>2, DivUnique
<1>6. P + y \in Nodes(d) /\ HeapSize(d, P + y) = q /\ HeapLo(d, P + y) = q * y
  BY <1>3, <1>4, BlockHeapIs DEF P, q
<1> QED
  BY <1>3, <1>5, <1>6 DEF q

-----------------------------------------------------------------------------
(* compute_cover.                                                          *)

\* The growing loop stops, at a size every smaller one of which fits.
LEMMA BlockLogStops ==
  ASSUME NEW d \in Nat, NEW lo \in Nat
  PROVE  LET i == BlockLog(d, lo)
         IN  i \in 0..d /\ ~Grows(d, lo, i + 1) /\ \A j \in 1..i : Grows(d, lo, j)
<1> DEFINE Stop(i) == ~Grows(d, lo, i + 1) /\ \A j \in 1..i : Grows(d, lo, j)
           S == {n \in Nat : \/ \E i \in 0..(n - 1) : Stop(i)
                            \/ \A j \in 1..n : Grows(d, lo, j)}
<1>1. 0 \in S
  OBVIOUS
<1>2. ASSUME NEW n \in Nat, n \in S PROVE n + 1 \in S
  <2>1. CASE \E i \in 0..(n - 1) : Stop(i)
    BY <2>1
  <2>2. CASE \A j \in 1..n : Grows(d, lo, j)
    <3>1. CASE Grows(d, lo, n + 1)
      <4>1. \A j \in 1..(n + 1) : j \in 1..n \/ j = n + 1
        OBVIOUS
      <4>2. \A j \in 1..(n + 1) : Grows(d, lo, j)
        BY <4>1, <2>2, <3>1
      <4> QED
        BY <4>2
    <3>2. CASE ~Grows(d, lo, n + 1)
      <4>1. Stop(n) /\ n \in 0..((n + 1) - 1)
        BY <2>2, <3>2
      <4> QED
        BY <4>1
    <3> QED
      BY <3>1, <3>2
  <2> QED
    BY <1>2, <2>1, <2>2
<1> HIDE DEF S
<1>3. d + 1 \in S
  BY <1>1, <1>2, NatSetInduction
<1>4. ~Grows(d, lo, d + 1)
  BY PowerStep, PowerPositive DEF Grows
<1>5. \E i \in 0..d : Stop(i)
  <2>1. d + 1 \in 1..(d + 1) /\ (d + 1) - 1 = d
    OBVIOUS
  <2> QED
    BY <1>3, <1>4, <2>1 DEF S
<1> QED
  BY <1>5 DEF BlockLog

\* The block emitted at lo is aligned, ends by T, and is the block of its
\* own heap index.
LEMMA NextBlock ==
  ASSUME NEW d \in Nat, NEW lo \in Nat, lo < 2^d
  PROVE  LET i == BlockLog(d, lo)
             h == BlockHeap(d, lo, i)
         IN  /\ i \in 0..d /\ 2^i \in Nat /\ 2^i > 0
             /\ lo % 2^i = 0 /\ lo = 2^i * (lo \div 2^i) /\ lo + 2^i <= 2^d
             /\ h \in Nodes(d) /\ HeapDepth(h) = d - i
             /\ HeapLo(d, h) = lo /\ HeapSize(d, h) = 2^i
<1> DEFINE i == BlockLog(d, lo)
           q == 2^i
           P == 2^(d - i)
           j == lo \div q
<1>1. i \in 0..d /\ \A k \in 1..i : Grows(d, lo, k)
  BY BlockLogStops
<1>2. q \in Nat /\ q > 0 /\ P \in Nat /\ 2^d = q * P
  <2> HIDE DEF i
  <2>1. d - i \in Nat /\ i \in Nat /\ d = i + (d - i)
    BY <1>1
  <2> QED
    BY <2>1, PowerPositive, PowerSum
<1>3. lo % q = 0 /\ lo + q <= 2^d
  <2>1. CASE i = 0
    <3>1. q = 1
      BY <2>1, PowerZero
    <3> QED
      BY <3>1, <1>2
  <2>2. CASE i # 0
    <3>1. Grows(d, lo, i)
      BY <1>1, <2>2
    <3> QED
      BY <3>1 DEF Grows
  <2> QED
    BY <2>1, <2>2
<1>4. j \in Nat /\ lo = q * j
  <2> HIDE DEF q
  <2>1. lo = q * (lo \div q) + (lo % q) /\ lo \div q \in Nat
    BY <1>2, DivProps
  <2>2. q * (lo \div q) \in Nat
    BY <2>1, <1>2
  <2> QED
    BY <1>3, <2>1, <2>2
<1>5. j < P
  <2> HIDE DEF q, P, j, i
  <2> SUFFICES ASSUME j >= P PROVE FALSE
    BY <1>2, <1>4
  <2>1. j - P \in Nat /\ j = P + (j - P)
    BY <1>2, <1>4
  <2>2. q * j = q * P + q * (j - P) /\ q * (j - P) \in Nat /\ q * P \in Nat
    BY <2>1, <1>2
  <2> QED
    BY <1>2, <1>3, <1>4, <2>2
<1>6. /\ P + j \in Nodes(d) /\ HeapDepth(P + j) = d - i
      /\ HeapSize(d, P + j) = q /\ HeapLo(d, P + j) = q * j
  <2> HIDE DEF i, j
  <2> QED
    BY <1>1, <1>4, <1>5, BlockHeapIs
<1> QED
  BY <1>1, <1>2, <1>3, <1>4, <1>6 DEF BlockHeap

Divides(q, x) == \E c \in Nat : x = q * c

\* A multiple of 2^j below T leaves room for 2^j more.
LEMMA AlignedFits ==
  ASSUME NEW d \in Nat, NEW j \in 0..d, NEW lo \in Nat, lo < 2^d, Divides(2^j, lo)
  PROVE  lo % 2^j = 0 /\ lo + 2^j <= 2^d
<1> DEFINE q == 2^j
           P == 2^(d - j)
<1>1. q \in Nat /\ q > 0 /\ P \in Nat /\ 2^d = q * P
  <2>1. d - j \in Nat /\ j \in Nat /\ d = j + (d - j)
    OBVIOUS
  <2>2. 2^(j + (d - j)) = 2^j * 2^(d - j)
    BY <2>1, PowerSum
  <2> QED
    BY <2>1, <2>2, PowerPositive
<1>2. PICK c \in Nat : lo = q * c
  BY DEF Divides
<1> HIDE DEF q, P
<1>3. c < P
  <2> SUFFICES ASSUME c >= P PROVE FALSE
    BY <1>1, <1>2
  <2>1. c - P \in Nat /\ c = P + (c - P)
    BY <1>1, <1>2
  <2>2. q * c = q * P + q * (c - P) /\ q * (c - P) \in Nat /\ q * P \in Nat
    BY <2>1, <1>1
  <2> QED
    BY <1>1, <1>2, <2>2
<1>4. lo + q <= q * P
  <2>1. P - c \in Nat /\ P - c >= 1 /\ P = c + (P - c)
    BY <1>1, <1>3
  <2>2. q * P = q * c + q * (P - c) /\ q * c \in Nat /\ q * (P - c) \in Nat
    BY <2>1, <1>1
  <2>3. q * (P - c) >= q
    BY <2>1, <1>1
  <2> QED
    BY <1>1, <1>2, <2>2, <2>3
<1>5. lo % q = 0
  <2>1. q * c <= lo /\ lo < q * c + q
    BY <1>1, <1>2
  <2>2. lo \div q = c
    BY <2>1, <1>1, DivUnique
  <2>3. lo = q * (lo \div q) + (lo % q) /\ lo % q \in 0..(q - 1)
    BY <1>1, DivProps
  <2>4. q * c \in Nat
    BY <1>1
  <2> QED
    BY <1>2, <2>2, <2>3, <2>4
<1> QED
  BY <1>1, <1>4, <1>5 DEF q

LEMMA DividesLess ==
  ASSUME NEW m \in Nat, NEW n \in Nat, m <= n, NEW x \in Nat, Divides(2^n, x)
  PROVE  Divides(2^m, x)
<1>1. n - m \in Nat /\ n = m + (n - m)
  OBVIOUS
<1>2. 2^n = 2^m * 2^(n - m) /\ 2^m \in Nat /\ 2^(n - m) \in Nat
  BY <1>1, PowerSum, PowerPositive
<1>3. PICK c \in Nat : x = 2^n * c
  BY DEF Divides
<1> DEFINE a == 2^m
           b == 2^(n - m)
<1>4. a \in Nat /\ b \in Nat /\ x = (a * b) * c
  BY <1>2, <1>3
<1> HIDE DEF a, b
<1>5. x = a * (b * c) /\ b * c \in Nat
  BY <1>4
<1> QED
  BY <1>5 DEF Divides, a

\* The next block starts further from a power of two than this one: the
\* sizes of the blocks strictly increase, so there are at most d of them.
LEMMA NextAligned ==
  ASSUME NEW d \in Nat, NEW lo \in Nat, NEW n \in Nat, lo < 2^d, Divides(2^n, lo),
         n <= d, lo + 2^BlockLog(d, lo) < 2^d
  PROVE  Divides(2^(n + 1), lo + 2^BlockLog(d, lo))
<1> DEFINE i == BlockLog(d, lo)
           q == 2^i
<1>1. i \in 0..d /\ ~Grows(d, lo, i + 1)
  BY BlockLogStops
<1>2. q \in Nat /\ q > 0 /\ lo = q * (lo \div q)
  BY NextBlock
<1> HIDE DEF i
<1>3. i < d
  <2> SUFFICES ASSUME i = d PROVE FALSE
    BY <1>1
  <2> QED
    BY <1>2 DEF i
<1>4. n <= i
  <2> SUFFICES ASSUME i + 1 <= n PROVE FALSE
    BY <1>1
  <2>1. Divides(2^(i + 1), lo)
    BY <1>1, DividesLess
  <2>2. lo % 2^(i + 1) = 0 /\ lo + 2^(i + 1) <= 2^d
    BY <2>1, <1>1, <1>3, AlignedFits
  <2> QED
    BY <1>1, <2>2 DEF Grows
<1>5. Divides(2^(i + 1), lo + q)
  <2>1. 2^(i + 1) = 2 * q
    BY <1>1, PowerStep
  <2> DEFINE a == lo \div q
  <2>2. a \in Nat
    BY <1>2, DivProps
  <2>3. a % 2 # 0
    <3> SUFFICES ASSUME a % 2 = 0 PROVE FALSE
      OBVIOUS
    <3> HIDE DEF a
    <3>1. a \div 2 \in Nat /\ a = 2 * (a \div 2)
      BY <2>2
    <3>2. q * a = (2 * q) * (a \div 2)
      <4> DEFINE b == a \div 2
      <4>1. b \in Nat /\ a = 2 * b
        BY <3>1
      <4> HIDE DEF b
      <4>2. q * (2 * b) = (2 * q) * b
        BY <4>1, <1>2
      <4> QED
        BY <4>1, <4>2 DEF b
    <3>3. Divides(2^(i + 1), lo)
      BY <1>2, <2>1, <3>1, <3>2 DEF Divides, a
    <3>4. lo % 2^(i + 1) = 0 /\ lo + 2^(i + 1) <= 2^d
      BY <3>3, <1>1, <1>3, AlignedFits
    <3> QED
      BY <1>1, <3>4 DEF Grows
  <2> HIDE DEF a
  <2>4. PICK b \in Nat : a = 2 * b + 1
    <3>1. a \div 2 \in Nat /\ a = 2 * (a \div 2) + 1
      BY <2>2, <2>3
    <3> QED
      BY <3>1
  <2>5. q * a + q = (2 * q) * (b + 1)
    <3>1. q * (2 * b + 1) + q = (2 * q) * (b + 1)
      BY <1>2, <2>4
    <3> QED
      BY <2>4, <3>1
  <2> QED
    BY <1>2, <2>1, <2>4, <2>5 DEF a, Divides
<1>6. lo + q \in Nat /\ i + 1 \in Nat /\ n + 1 <= i + 1
  BY <1>1, <1>2, <1>4
<1> QED
  BY <1>5, <1>6, DividesLess DEF i

InRange(d, h, e) == HeapLo(d, h) <= e /\ e < HeapLo(d, h) + HeapSize(d, h)

\* The block compute_cover emits at lo.
CoverBlock(d, lo) == BlockHeap(d, lo, BlockLog(d, lo))

\* The blocks emitted so far are disjoint, in order, and leave out no leaf of
\* [t, lo); each is the one its first leaf determines.
Tiling(d, t, s) ==
  /\ \A e \in Nat : t <= e /\ e < s.lo => \E k \in 1..Len(s.heaps) : InRange(d, s.heaps[k], e)
  /\ \A k \in 1..Len(s.heaps) :
       /\ HeapLo(d, s.heaps[k]) < 2^d
       /\ s.heaps[k] = CoverBlock(d, HeapLo(d, s.heaps[k]))
       /\ HeapLo(d, s.heaps[k]) + HeapSize(d, s.heaps[k]) <= s.lo
  /\ \A k, l \in 1..Len(s.heaps) :
       k < l => HeapLo(d, s.heaps[k]) + HeapSize(d, s.heaps[k]) <= HeapLo(d, s.heaps[l])

LEMMA TilingGrows ==
  ASSUME NEW d \in Nat, NEW t \in Nat, NEW s, NEW r, Tiling(d, t, s),
         s.lo \in Nat, s.lo < 2^d, Len(s.heaps) \in Nat,
         \A k \in 1..Len(s.heaps) : s.heaps[k] \in Nodes(d),
         r.lo = s.lo + 2^BlockLog(d, s.lo), Len(r.heaps) = Len(s.heaps) + 1,
         \A k \in 1..Len(s.heaps) : r.heaps[k] = s.heaps[k],
         r.heaps[Len(s.heaps) + 1] = CoverBlock(d, s.lo)
  PROVE  Tiling(d, t, r)
<1> DEFINE n == Len(s.heaps)
           h == CoverBlock(d, s.lo)
           q == 2^BlockLog(d, s.lo)
           Lo(x) == HeapLo(d, x)
           End(x) == HeapLo(d, x) + HeapSize(d, x)
<1>1. /\ q \in Nat /\ q > 0 /\ s.lo + q <= 2^d /\ h \in Nodes(d)
      /\ HeapLo(d, h) = s.lo /\ HeapSize(d, h) = q
  BY NextBlock DEF CoverBlock
<1>2. \A k \in 1..(n + 1) : k \in 1..n \/ k = n + 1
  OBVIOUS
<1>3. /\ n \in Nat /\ Len(r.heaps) = n + 1 /\ r.heaps[n + 1] = h /\ r.lo = s.lo + q
      /\ \A k \in 1..n : r.heaps[k] = s.heaps[k] /\ s.heaps[k] \in Nodes(d)
  OBVIOUS
<1>4. /\ Lo(h) = s.lo /\ End(h) = s.lo + q
  BY <1>1
<1>5. ASSUME NEW k \in 1..n PROVE Lo(s.heaps[k]) \in Nat /\ End(s.heaps[k]) \in Nat
  <2>1. s.heaps[k] \in Nodes(d)
    BY <1>3
  <2>2. HeapLo(d, s.heaps[k]) \in Nat /\ HeapSize(d, s.heaps[k]) \in Nat
    BY <2>1, NodeBlock
  <2> QED
    BY <2>2
<1>6. /\ \A e \in Nat : t <= e /\ e < s.lo => \E k \in 1..n : InRange(d, s.heaps[k], e)
      /\ \A k \in 1..n : /\ Lo(s.heaps[k]) < 2^d /\ s.heaps[k] = CoverBlock(d, Lo(s.heaps[k]))
                         /\ End(s.heaps[k]) <= s.lo
      /\ \A k, l \in 1..n : k < l => End(s.heaps[k]) <= Lo(s.heaps[l])
  BY DEF Tiling
<1> HIDE DEF n, q, h
<1>7. ASSUME NEW e \in Nat, t <= e, e < s.lo + q
      PROVE  \E k \in 1..(n + 1) : InRange(d, r.heaps[k], e)
  <2>1. CASE e < s.lo
    <3>1. PICK k \in 1..n : InRange(d, s.heaps[k], e)
      BY <1>6, <1>7, <2>1, Zenon
    <3>2. k \in 1..(n + 1) /\ r.heaps[k] = s.heaps[k]
      BY <1>3
    <3> QED
      BY <3>1, <3>2
  <2>2. CASE ~(e < s.lo)
    <3>1. InRange(d, h, e)
      BY <1>1, <1>7, <2>2 DEF InRange
    <3>2. n + 1 \in 1..(n + 1)
      BY DEF n
    <3> QED
      BY <1>3, <3>1, <3>2
  <2> QED
    BY <2>1, <2>2
<1>8. ASSUME NEW k \in 1..(n + 1)
      PROVE  /\ Lo(r.heaps[k]) < 2^d /\ r.heaps[k] = CoverBlock(d, Lo(r.heaps[k]))
             /\ End(r.heaps[k]) <= s.lo + q
  <2>1. CASE k \in 1..n
    <3>1. Lo(s.heaps[k]) < 2^d /\ s.heaps[k] = CoverBlock(d, Lo(s.heaps[k]))
      BY <1>6, <2>1
    <3>2. End(s.heaps[k]) <= s.lo + q
      BY <1>1, <1>5, <1>6, <2>1
    <3>3. r.heaps[k] = s.heaps[k]
      BY <1>3, <2>1
    <3> QED
      BY <3>1, <3>2, <3>3, Zenon
  <2>2. CASE k = n + 1
    <3>1. h = CoverBlock(d, Lo(h))
      BY <1>4 DEF h
    <3>2. Lo(h) < 2^d /\ End(h) <= s.lo + q
      BY <1>1, <1>4
    <3> QED
      BY <1>3, <2>2, <3>1, <3>2, Zenon
  <2> QED
    BY <1>2, <2>1, <2>2
<1>9. ASSUME NEW k \in 1..(n + 1), NEW l \in 1..(n + 1), k < l
      PROVE  End(r.heaps[k]) <= Lo(r.heaps[l])
  <2>1. k \in 1..n
    BY <1>9 DEF n
  <2>2. CASE l \in 1..n
    BY <1>3, <1>6, <1>9, <2>1, <2>2
  <2>3. CASE l = n + 1
    <3>1. r.heaps[l] = h /\ r.heaps[k] = s.heaps[k]
      BY <1>3, <2>1, <2>3
    <3> QED
      BY <1>4, <1>6, <2>1, <3>1
  <2> QED
    BY <1>2, <2>2, <2>3
<1> QED
  BY <1>3, <1>7, <1>8, <1>9 DEF Tiling

\* What is true of compute_cover's variables after every iteration.
CoverLoop(d, t, s) ==
  /\ s \in [lo : Nat, heaps : Seq(Nat)]
  /\ s.lo <= 2^d
  /\ IF s.heaps = <<>> THEN s.lo = t ELSE s.lo > t /\ HeapLo(d, s.heaps[1]) = t
  /\ Len(s.heaps) <= d
  /\ s.lo < 2^d => Divides(2^Len(s.heaps), s.lo)
  /\ \A k \in 1..Len(s.heaps) : s.heaps[k] \in Nodes(d) /\ t <= HeapLo(d, s.heaps[k])
  /\ Tiling(d, t, s)

LEMMA CoverLoopStep ==
  ASSUME NEW d \in Nat \ {0}, NEW t \in Nat, NEW s, CoverLoop(d, t, s)
  PROVE  /\ CoverLoop(d, t, CoverStep(d)[s])
         /\ s.lo < 2^d => CoverStep(d)[s].lo > s.lo
         /\ ~(s.lo < 2^d) => CoverStep(d)[s] = s
<1> DEFINE r == CoverStep(d)[s]
           i == BlockLog(d, s.lo)
           h == BlockHeap(d, s.lo, i)
           n == Len(s.heaps)
<1>1. /\ s \in [lo : Nat, heaps : Seq(Nat)] /\ s.lo \in Nat /\ s.heaps \in Seq(Nat)
      /\ n \in Nat /\ (s.heaps = <<>> <=> n = 0)
  BY DEF CoverLoop
<1>2. CASE ~(s.lo < 2^d)
  BY <1>1, <1>2 DEF CoverStep
<1>3. CASE s.lo < 2^d
  <2>1. r = [lo |-> s.lo + 2^i, heaps |-> Append(s.heaps, h)]
    BY <1>1, <1>3 DEF CoverStep
  <2>2. /\ i \in 0..d /\ 2^i \in Nat /\ 2^i > 0 /\ s.lo + 2^i <= 2^d
        /\ h \in Nodes(d) /\ HeapLo(d, h) = s.lo
    BY <1>1, <1>3, NextBlock
  <2>3. s.lo + 2^i < 2^d /\ n <= d => Divides(2^(n + 1), s.lo + 2^i)
    BY <1>1, <1>3, NextAligned DEF CoverLoop
  <2> HIDE DEF i, h, r
  <2>4. h \in Nat
    BY <2>2 DEF Nodes
  <2>5. r.lo = s.lo + 2^i /\ r.heaps = Append(s.heaps, h)
    BY <2>1
  <2>6. r \in [lo : Nat, heaps : Seq(Nat)]
    BY <1>1, <2>1, <2>2, <2>4
  <2>7. /\ Len(r.heaps) = n + 1 /\ r.heaps # <<>>
        /\ \A k \in 1..n : r.heaps[k] = s.heaps[k]
        /\ r.heaps[n + 1] = h
    <3> DEFINE a == s.heaps
    <3>1. a \in Seq(Nat) /\ Len(a) = n /\ n \in Nat
      BY <1>1
    <3> HIDE DEF a, n
    <3>2. Len(Append(a, h)) = n + 1 /\ Append(a, h)[n + 1] = h
      BY <2>4, <3>1
    <3>3. \A k \in 1..n : Append(a, h)[k] = a[k]
      BY <2>4, <3>1
    <3>4. r.heaps = Append(a, h)
      BY <2>5 DEF a
    <3>5. \A k \in 1..n : r.heaps[k] = a[k]
      BY <3>3, <3>4, Zenon
    <3>6. Len(r.heaps) = n + 1 /\ r.heaps[n + 1] = h
      BY <3>2, <3>4, Zenon
    <3>7. r.heaps # <<>>
      BY <3>1, <3>6
    <3> QED
      BY <3>5, <3>6, <3>7, Zenon DEF a
  <2>8. 2^d \in Nat /\ 2^d > 0
    BY PowerPositive
  <2>9. t <= s.lo /\ n <= d
    BY <1>1 DEF CoverLoop
  <2>10. r.lo <= 2^d /\ r.lo > s.lo /\ r.lo > t
    BY <1>1, <2>2, <2>5, <2>8, <2>9
  <2>11. n < d
    <3> SUFFICES ASSUME n = d PROVE FALSE
      BY <1>1, <2>9
    <3>1. s.lo >= 1 /\ Divides(2^d, s.lo)
      BY <1>1, <1>3 DEF CoverLoop
    <3>2. PICK c \in Nat : s.lo = 2^d * c
      BY <3>1 DEF Divides
    <3>3. c >= 1 => 2^d * c >= 2^d
      BY <2>8, <3>2
    <3>4. 2^d * 0 = 0
      BY <2>8
    <3> QED
      BY <1>1, <1>3, <2>8, <3>1, <3>2, <3>3, <3>4
  <2>12. HeapLo(d, r.heaps[1]) = t
    <3>1. CASE n = 0
      <4>1. r.heaps[1] = h /\ s.lo = t
        BY <1>1, <2>7, <3>1 DEF CoverLoop
      <4> QED
        BY <2>2, <4>1
    <3>2. CASE n # 0
      <4>1. r.heaps[1] = s.heaps[1] /\ HeapLo(d, s.heaps[1]) = t
        BY <1>1, <2>7, <3>2 DEF CoverLoop
      <4> QED
        BY <4>1
    <3> QED
      BY <3>1, <3>2
  <2>13. ASSUME NEW k \in 1..Len(r.heaps)
         PROVE  r.heaps[k] \in Nodes(d) /\ t <= HeapLo(d, r.heaps[k])
    <3>1. CASE k = n + 1
      BY <2>2, <2>7, <2>9, <3>1
    <3>2. CASE k # n + 1
      <4>1. k \in 1..n /\ r.heaps[k] = s.heaps[k]
        BY <1>1, <2>7, <3>2
      <4> QED
        BY <4>1 DEF CoverLoop
    <3> QED
      BY <3>1, <3>2
  <2>14. r.lo < 2^d => Divides(2^Len(r.heaps), r.lo)
    BY <2>3, <2>5, <2>7, <2>9
  <2>15. Len(r.heaps) <= d
    BY <1>1, <2>7, <2>11
  <2>16. Tiling(d, t, r)
    <3>1. Tiling(d, t, s) /\ \A k \in 1..n : s.heaps[k] \in Nodes(d)
      BY DEF CoverLoop
    <3>2. h = CoverBlock(d, s.lo) /\ r.lo = s.lo + 2^BlockLog(d, s.lo)
      BY <2>5 DEF CoverBlock, h, i
    <3>3. d \in Nat /\ s.lo \in Nat /\ n \in Nat
      BY <1>1
    <3> QED
      BY <1>3, <2>7, <3>1, <3>2, <3>3, TilingGrows
  <2>17. CoverLoop(d, t, r)
    <3> HIDE DEF n
    <3> QED
      BY <2>6, <2>7, <2>10, <2>12, <2>13, <2>14, <2>15, <2>16 DEF CoverLoop
  <2> QED
    BY <1>3, <2>10, <2>17 DEF r
<1> QED
  BY <1>2, <1>3

\* The loop of compute_cover ends where the leaves end.
LEMMA CoverRuns ==
  ASSUME NEW d \in Nat \ {0}, NEW t \in Nat, t < 2^d
  PROVE  \E s : CoverLoop(d, t, s) /\ s.lo = 2^d /\ ComputeCover(d, t) = s.heaps
<1> DEFINE F == CoverStep(d)
           first == [lo |-> t, heaps |-> <<>>]
           it == Iterate(F, first)
           S == {n \in Nat : CoverLoop(d, t, it[n]) /\ (it[n].lo < 2^d => it[n].lo >= t + n)}
           last == it[2^d - t]
<1>1. it[0] = first /\ \A n \in Nat : it[n + 1] = F[it[n]]
  <2> HIDE DEF F, first
  <2> QED
    BY IterateStep
<1>2. 2^d \in Nat
  BY PowerPositive
<1> HIDE DEF it, F
<1>3. 0 \in S
  <2>1. CoverLoop(d, t, first)
    <3>1. Divides(2^0, t)
      <4>1. t = 2^0 * t
        BY PowerZero
      <4> QED
        BY <4>1 DEF Divides
    <3>2. first \in [lo : Nat, heaps : Seq(Nat)] /\ Len(first.heaps) = 0 /\ first.heaps = <<>>
      OBVIOUS
    <3>3. Tiling(d, t, first)
      <4>1. first.lo = t /\ ~ \E k : k \in 1..Len(first.heaps)
        BY <3>2
      <4> HIDE DEF first
      <4> QED
        BY <4>1 DEF Tiling
    <3> QED
      BY <1>2, <3>1, <3>2, <3>3 DEF CoverLoop
  <2>2. first.lo = t /\ t + 0 = t
    OBVIOUS
  <2> HIDE DEF first
  <2>3. CoverLoop(d, t, it[0]) /\ (it[0].lo < 2^d => it[0].lo >= t + 0)
    BY <1>1, <2>1, <2>2
  <2> QED
    BY <2>3
<1>4. ASSUME NEW n \in Nat, n \in S PROVE n + 1 \in S
  <2>1. CoverLoop(d, t, it[n]) /\ (it[n].lo < 2^d => it[n].lo >= t + n) /\ it[n].lo \in Nat
    BY <1>4 DEF CoverLoop
  <2>2. it[n + 1] = F[it[n]]
    BY <1>1
  <2>3. /\ CoverLoop(d, t, F[it[n]])
        /\ it[n].lo < 2^d => F[it[n]].lo > it[n].lo
        /\ ~(it[n].lo < 2^d) => F[it[n]] = it[n]
    BY <2>1, CoverLoopStep DEF F
  <2>4. F[it[n]].lo \in Nat
    BY <2>3 DEF CoverLoop
  <2>5. F[it[n]].lo < 2^d => F[it[n]].lo >= t + (n + 1)
    BY <1>2, <2>1, <2>3, <2>4
  <2> QED
    BY <2>2, <2>3, <2>5
<1> HIDE DEF S
<1>5. Nat \subseteq S
  BY <1>3, <1>4, NatSetInduction
<1>6. 2^d - t \in Nat /\ t + (2^d - t) = 2^d
  BY <1>2
<1>7. CoverLoop(d, t, last) /\ ~(last.lo < 2^d) /\ last.lo \in Nat
  <2>1. last.lo < 2^d => last.lo >= 2^d
    BY <1>5, <1>6 DEF S
  <2>2. CoverLoop(d, t, last) /\ last.lo \in Nat
    BY <1>5, <1>6 DEF S, CoverLoop
  <2> QED
    BY <1>2, <2>1, <2>2
<1>8. ComputeCover(d, t) = last.heaps
  BY DEF ComputeCover, it, F
<1> HIDE DEF last
<1>9. last.lo = 2^d
  BY <1>2, <1>7 DEF CoverLoop
<1> QED
  BY <1>7, <1>8, <1>9

\* compute_cover: at most d blocks, the first at t and none before it.
LEMMA CoverIs ==
  ASSUME NEW d \in Nat \ {0}, NEW t \in Nat, t < 2^d
  PROVE  LET c == ComputeCover(d, t)
         IN  /\ c \in Seq(Nat) /\ Len(c) \in 1..d
             /\ \A k \in 1..Len(c) : c[k] \in Nodes(d) /\ t <= HeapLo(d, c[k])
             /\ HeapLo(d, c[1]) = t
<1>1. PICK s : CoverLoop(d, t, s) /\ s.lo = 2^d /\ ComputeCover(d, t) = s.heaps
  BY CoverRuns
<1>2. s.heaps # <<>> /\ s.heaps \in Seq(Nat)
  BY <1>1 DEF CoverLoop
<1>3. Len(s.heaps) \in 1..d
  BY <1>1, <1>2 DEF CoverLoop
<1> QED
  BY <1>1, <1>2, <1>3 DEF CoverLoop

\* What a sequence of blocks must be to tile the leaves from t on.
Tiles(d, t, c) ==
  /\ \A e \in Nat : t <= e /\ e < 2^d => \E k \in 1..Len(c) : InRange(d, c[k], e)
  /\ \A k \in 1..Len(c) : HeapLo(d, c[k]) < 2^d /\ c[k] = CoverBlock(d, HeapLo(d, c[k]))
  /\ \A k, l \in 1..Len(c) :
       k < l => HeapLo(d, c[k]) + HeapSize(d, c[k]) <= HeapLo(d, c[l])

\* compute_cover leaves no live epoch out, and names none twice.
LEMMA CoverTiles ==
  ASSUME NEW d \in Nat \ {0}, NEW t \in Nat, t < 2^d
  PROVE  Tiles(d, t, ComputeCover(d, t))
<1>1. PICK s : CoverLoop(d, t, s) /\ s.lo = 2^d /\ ComputeCover(d, t) = s.heaps
  BY CoverRuns
<1>2. Tiling(d, t, s)
  BY <1>1 DEF CoverLoop
<1> QED
  BY <1>1, <1>2, Zenon DEF Tiling, Tiles

\* Aligned blocks overlap only when one holds the other; and the cover's block
\* at a leaf is the same in every cover that has one there.  So the cover of a
\* later epoch lies inside the cover of an earlier one, block by block.
LEMMA CoverNests ==
  ASSUME NEW d \in Nat \ {0}, NEW lo \in Nat, NEW g \in Nodes(d),
         g = CoverBlock(d, HeapLo(d, g)), InRange(d, g, lo), lo < 2^d
  PROVE  LET h == CoverBlock(d, lo)
         IN  HeapLo(d, h) + HeapSize(d, h) <= HeapLo(d, g) + HeapSize(d, g)
<1> DEFINE h == CoverBlock(d, lo)
           i == BlockLog(d, lo)
           q == 2^i
           a == lo \div q
           L == HeapLo(d, g)
           j == d - HeapDepth(g)
           Q == 2^j
           b == L \div Q
<1>1. /\ i \in Nat /\ q \in Nat /\ q > 0 /\ lo = q * a /\ a \in Nat
      /\ HeapLo(d, h) = lo /\ HeapSize(d, h) = q
  <2>1. /\ i \in 0..d /\ q \in Nat /\ q > 0 /\ lo = q * a
        /\ HeapLo(d, h) = lo /\ HeapSize(d, h) = q
    BY NextBlock DEF CoverBlock
  <2> HIDE DEF i, q, h
  <2>2. a \in Nat
    BY <2>1, DivProps
  <2> QED
    BY <2>1, <2>2
<1>2. /\ j \in Nat /\ Q \in Nat /\ Q > 0 /\ L \in Nat /\ L = Q * b /\ b \in Nat
      /\ HeapSize(d, g) = Q
  BY NodeBlock, DivProps
<1>3. L <= lo /\ lo < L + Q
  BY <1>2 DEF InRange
<1>4. CASE i <= j
  <2>1. j - i \in Nat /\ j = i + (j - i)
    BY <1>1, <1>2, <1>4
  <2>2. Q = q * 2^(j - i) /\ 2^(j - i) \in Nat
    BY <1>1, <2>1, PowerSum, PowerPositive, ZenonT(60)
  <2> DEFINE p == 2^(j - i)
             c == p * b + p
  <2>3. L + Q = q * c /\ c \in Nat
    <3>1. Q = q * p /\ p \in Nat
      BY <2>2
    <3> HIDE DEF p, q, Q, b, L
    <3>2. (q * p) * b + q * p = q * (p * b + p)
      BY <1>1, <1>2, <3>1
    <3>3. p * b \in Nat
      BY <1>2, <3>1
    <3> QED
      BY <1>2, <3>1, <3>2, <3>3
  <2> HIDE DEF c, q, Q, L, a
  <2>4. a < c
    <3> SUFFICES ASSUME a >= c PROVE FALSE
      BY <1>1, <2>3
    <3>1. a - c \in Nat /\ a = c + (a - c)
      BY <1>1, <2>3
    <3>2. q * (c + (a - c)) = q * c + q * (a - c) /\ q * (a - c) \in Nat
      BY <1>1, <2>3, <3>1
    <3> QED
      BY <1>1, <1>2, <1>3, <2>3, <3>1, <3>2
  <2>5. q * a + q <= q * c
    <3>1. PICK r \in Nat : c = a + r /\ r >= 1
      <4>1. c - a \in Nat /\ c = a + (c - a) /\ c - a >= 1
        BY <1>1, <2>3, <2>4
      <4> QED
        BY <4>1
    <3>2. q * (a + r) = q * a + q * r /\ q * a \in Nat /\ q * r \in Nat
      BY <1>1
    <3>3. q * r >= q
      BY <1>1, <3>1
    <3>4. q * c = q * a + q * r
      BY <3>1, <3>2
    <3> QED
      BY <1>1, <3>2, <3>3, <3>4
  <2> QED
    BY <1>1, <1>2, <2>3, <2>5 DEF q, L, Q
<1>5. CASE ~(i <= j)
  <2>1. i - j \in Nat /\ i = j + (i - j)
    BY <1>1, <1>2, <1>5
  <2>2. q = Q * 2^(i - j) /\ 2^(i - j) \in Nat
    BY <1>2, <2>1, PowerSum, PowerPositive, ZenonT(60)
  <2> DEFINE p == 2^(i - j)
             c == p * a
  <2>3. lo = Q * c /\ c \in Nat
    <3>1. q = Q * p /\ p \in Nat
      BY <2>2
    <3> HIDE DEF p, q, Q, a
    <3>2. (Q * p) * a = Q * (p * a) /\ p * a \in Nat
      BY <1>1, <1>2, <3>1
    <3> QED
      BY <1>1, <3>1, <3>2
  <2> HIDE DEF c, q, Q, L, b
  <2>4. c = b
    <3>1. lo \div Q = c
      <4>1. Q * c <= lo /\ lo < Q * c + Q
        BY <1>2, <2>3
      <4> QED
        BY <1>2, <2>3, <4>1, DivUnique
    <3>2. lo \div Q = b
      BY <1>2, <1>3, DivUnique
    <3> QED
      BY <3>1, <3>2
  <2>5. h = g
    BY <1>2, <2>3, <2>4 DEF L
  <2> QED
    BY <1>2, <2>5 DEF L, Q
<1> QED
  BY <1>4, <1>5

\* A fresh schedule's cover is the root alone.
LEMMA CoverOfZero ==
  ASSUME NEW d \in Nat \ {0}
  PROVE  ComputeCover(d, 0) = <<1>>
<1> DEFINE F == CoverStep(d)
           first == [lo |-> 0, heaps |-> <<>>]
           last == [lo |-> 2^d, heaps |-> <<1>>]
           it == Iterate(F, first)
           S == {n \in Nat : it[n + 1] = last}
<1>1. it[0] = first /\ \A n \in Nat : it[n + 1] = F[it[n]]
  <2> HIDE DEF F, first
  <2> QED
    BY IterateStep
<1>2. 2^d \in Nat /\ 2^d > 0 /\ 2^0 = 1
  BY PowerPositive, PowerZero
<1>3. BlockLog(d, 0) = d
  <2> DEFINE i == BlockLog(d, 0)
  <2>1. i \in 0..d /\ ~Grows(d, 0, i + 1)
    BY BlockLogStops
  <2> HIDE DEF i
  <2>2. ASSUME i < d PROVE FALSE
    <3>1. i + 1 \in Nat /\ i + 1 <= d
      BY <2>1, <2>2
    <3>2. 2^(i + 1) \in Nat /\ 2^(i + 1) > 0 /\ 2^(i + 1) <= 2^d
      BY <3>1, PowerPositive, PowerMonotone
    <3>3. 0 % 2^(i + 1) = 0
      BY <3>2
    <3> QED
      BY <2>1, <3>2, <3>3 DEF Grows
  <2> QED
    BY <2>1, <2>2 DEF i
<1>4. BlockHeap(d, 0, d) = 1
  <2>1. d - d = 0 /\ 0 \div 2^d = 0
    BY <1>2
  <2> QED
    BY <1>2, <2>1 DEF BlockHeap
<1>5. F[first] = last
  <2>1. first \in [lo : Nat, heaps : Seq(Nat)] /\ first.lo = 0 /\ Append(first.heaps, 1) = <<1>>
    OBVIOUS
  <2> QED
    BY <1>2, <1>3, <1>4, <2>1 DEF CoverStep
<1>6. F[last] = last
  <2>1. last \in [lo : Nat, heaps : Seq(Nat)] /\ ~(last.lo < 2^d)
    BY <1>2
  <2> QED
    BY <2>1 DEF CoverStep
<1> HIDE DEF F, first, last, it
<1>7. 0 \in S
  BY <1>1, <1>5
<1>8. ASSUME NEW n \in Nat, n \in S PROVE n + 1 \in S
  BY <1>1, <1>6, <1>8
<1> HIDE DEF S
<1>9. Nat \subseteq S
  BY <1>7, <1>8, NatSetInduction
<1>10. it[2^d] = last
  <2>1. 2^d - 1 \in Nat /\ (2^d - 1) + 1 = 2^d
    BY <1>2
  <2> QED
    BY <1>9, <2>1 DEF S
<1>11. ComputeCover(d, 0) = it[2^d].heaps
  <2>1. 2^d - 0 = 2^d
    BY <1>2
  <2> QED
    BY <2>1 DEF ComputeCover, it, first, F
<1> QED
  BY <1>10, <1>11 DEF last

-----------------------------------------------------------------------------
(* derive_node.                                                            *)

\* The ancestor at depth k of the leaf `edge`.
Ancestor(d, edge, k) == 2^k + edge \div 2^(d - k)

LEMMA AncestorStep ==
  ASSUME NEW d \in Nat, NEW edge \in Nat, NEW k \in Nat, k < d
  PROVE  LET bit == BitAt(edge, d - k - 1)
         IN  /\ Ancestor(d, edge, k) \in Nat \ {0} /\ bit \in {0, 1}
             /\ Ancestor(d, edge, k + 1) = 2 * Ancestor(d, edge, k) + bit
<1> DEFINE j == d - k - 1
<1>1. j \in Nat /\ j + 1 = d - k /\ d - (k + 1) = j /\ d - k - 1 = j
  OBVIOUS
<1> HIDE DEF j
<1>2. /\ edge \div 2^j = 2 * (edge \div 2^(j + 1)) + BitAt(edge, j)
      /\ BitAt(edge, j) \in {0, 1} /\ edge \div 2^(j + 1) \in Nat
  BY <1>1, ShiftStep
<1>3. 2^(k + 1) = 2 * 2^k /\ 2^k \in Nat /\ 2^k > 0
  BY PowerStep, PowerPositive
<1>4. /\ Ancestor(d, edge, k) = 2^k + edge \div 2^(j + 1)
      /\ Ancestor(d, edge, k + 1) = 2^(k + 1) + edge \div 2^j
  BY <1>1 DEF Ancestor
<1>5. Ancestor(d, edge, k) \in Nat \ {0}
  BY <1>2, <1>3, <1>4
<1>6. Ancestor(d, edge, k + 1) = 2 * Ancestor(d, edge, k) + BitAt(edge, j)
  BY <1>2, <1>3, <1>4, SMTT(40)
<1> QED
  BY <1>1, <1>2, <1>5, <1>6

\* A node is the ancestor, at its own depth, of the leaves of its block.
LEMMA NodeIsAncestor ==
  ASSUME NEW d \in Nat, NEW h \in Nodes(d), NEW edge \in Nat,
         HeapLo(d, h) <= edge, edge < HeapLo(d, h) + HeapSize(d, h)
  PROVE  h = Ancestor(d, edge, HeapDepth(h))
<1> DEFINE lo == HeapLo(d, h)
           q == HeapSize(d, h)
<1>1. /\ lo \in Nat /\ q \in Nat /\ q > 0 /\ q = 2^(d - HeapDepth(h))
      /\ h = 2^HeapDepth(h) + lo \div q /\ lo = q * (lo \div q) /\ lo \div q \in Nat
  BY NodeBlock, DivProps
<1> HIDE DEF lo, q
<1>2. q * (lo \div q) <= edge /\ edge < q * (lo \div q) + q
  BY <1>1 DEF lo, q
<1>3. edge \div q = lo \div q
  BY <1>1, <1>2, DivUnique
<1> QED
  BY <1>1, <1>3 DEF Ancestor

\* derive_node: from the seed of a node, the walk towards a leaf below it
\* reaches the seed of that leaf's ancestor; from no seed it reaches none.
LEMMA DeriveIs ==
  ASSUME NEW d \in Nat, NEW seed \in Seeds, NEW h \in Nodes(d), NEW edge \in Nat,
         HeapLo(d, h) <= edge, edge < HeapLo(d, h) + HeapSize(d, h),
         NEW target \in HeapDepth(h)..d, seed.node \in {0, h}
  PROVE  LET r == DeriveNode(d, seed, h, edge, target)
         IN  /\ r \in Seeds /\ r.key = seed.key
             /\ r.node = IF seed.node = 0 THEN 0 ELSE Ancestor(d, edge, target)
<1> DEFINE k == HeapDepth(h)
           F == WalkStep(d, edge)
           first == [seed |-> seed, heap |-> h, k |-> k]
           it == Iterate(F, first)
           Walked(n) ==
             /\ it[n] = [seed |-> it[n].seed, heap |-> Ancestor(d, edge, k + n), k |-> k + n]
             /\ it[n].seed \in Seeds /\ it[n].seed.key = seed.key
             /\ it[n].seed.node = IF seed.node = 0 THEN 0 ELSE Ancestor(d, edge, k + n)
           S == {n \in Nat : k + n <= d => Walked(n)}
<1>1. it[0] = first /\ \A n \in Nat : it[n + 1] = F[it[n]]
  <2> HIDE DEF F, first
  <2> QED
    BY IterateStep
<1>2. k \in 0..d /\ h = Ancestor(d, edge, k)
  BY NodeBlock, NodeIsAncestor
<1> HIDE DEF F, it, k
<1>3. 0 \in S
  <2>1. k + 0 = k
    BY <1>2
  <2>2. it[0].seed = seed
    BY <1>1
  <2> QED
    BY <1>1, <1>2, <2>1, <2>2
<1>4. ASSUME NEW n \in Nat, n \in S PROVE n + 1 \in S
  <2> SUFFICES ASSUME k + (n + 1) <= d PROVE Walked(n + 1)
    OBVIOUS
  <2> DEFINE a == Ancestor(d, edge, k + n)
             bit == BitAt(edge, d - (k + n) - 1)
             old == it[n].seed
             new == ExpandNode(old, a, bit)
  <2>1. k + n \in Nat /\ k + n < d /\ (k + n) + 1 = k + (n + 1) /\ k + n <= d
    BY <1>2
  <2>2. /\ a \in Nat \ {0} /\ bit \in {0, 1}
        /\ Ancestor(d, edge, k + (n + 1)) = 2 * a + bit
    <3> DEFINE m == k + n
    <3>1. m \in Nat /\ m < d /\ m + 1 = k + (n + 1)
      BY <2>1
    <3> HIDE DEF m
    <3>2. /\ Ancestor(d, edge, m) \in Nat \ {0} /\ BitAt(edge, d - m - 1) \in {0, 1}
          /\ Ancestor(d, edge, m + 1) = 2 * Ancestor(d, edge, m) + BitAt(edge, d - m - 1)
      BY <3>1, AncestorStep
    <3> QED
      BY <3>1, <3>2 DEF m
  <2>3. /\ it[n] = [seed |-> old, heap |-> a, k |-> k + n]
        /\ old \in Seeds /\ old.key = seed.key /\ old.node = IF seed.node = 0 THEN 0 ELSE a
    BY <1>4, <2>1
  <2>4. it[n + 1] = F[it[n]]
    BY <1>1
  <2> HIDE DEF a, old, bit, S
  <2>5. F[it[n]] = [seed |-> new, heap |-> 2 * a + bit, k |-> (k + n) + 1]
    <3>1. [seed |-> old, heap |-> a, k |-> k + n] \in [seed : Seeds, heap : Nat, k : Nat]
      BY <2>1, <2>2, <2>3
    <3> HIDE DEF new
    <3> QED
      BY <2>3, <3>1 DEF F, WalkStep, bit, new
  <2>6. /\ new \in Seeds /\ new.key = seed.key
        /\ new.node = IF seed.node = 0 THEN 0 ELSE 2 * a + bit
    BY <2>2, <2>3 DEF ExpandNode, Seeds
  <2> HIDE DEF new
  <2> QED
    BY <2>1, <2>2, <2>4, <2>5, <2>6
<1> HIDE DEF S
<1>5. Nat \subseteq S
  BY <1>3, <1>4, NatSetInduction
<1>6. target - k \in Nat /\ k + (target - k) = target /\ target <= d
  BY <1>2 DEF k
<1>7. Walked(target - k)
  BY <1>5, <1>6 DEF S
<1>8. DeriveNode(d, seed, h, edge, target) = it[target - k].seed
  BY DEF DeriveNode, it, F, k
<1> QED
  BY <1>6, <1>7, <1>8

\* The ancestor of a leaf, as a shift of its heap index.
LEMMA ShiftLeaf ==
  ASSUME NEW d \in Nat, NEW e \in Nat, NEW j \in 0..d
  PROVE  (2^d + e) \div 2^j = Ancestor(d, e, d - j)
<1> DEFINE P == 2^(d - j)
           q == 2^j
           y == e \div q
<1>1. d - j \in Nat /\ j \in Nat /\ d = j + (d - j) /\ d - (d - j) = j
  OBVIOUS
<1>2. q \in Nat /\ q > 0 /\ P \in Nat /\ 2^d = q * P
  BY <1>1, PowerPositive, PowerSum
<1>3. y \in Nat /\ q * y <= e /\ e < q * y + q
  BY <1>2, DivProps
<1>4. Ancestor(d, e, d - j) = P + y
  BY <1>1 DEF Ancestor
<1> HIDE DEF P, q, y
<1>5. q * (P + y) = q * P + q * y /\ q * P \in Nat /\ q * y \in Nat
  BY <1>2, <1>3
<1>6. q * (P + y) <= 2^d + e /\ 2^d + e < q * (P + y) + q /\ 2^d + e \in Nat /\ P + y \in Nat
  BY <1>2, <1>3, <1>5
<1> QED
  BY <1>2, <1>4, <1>6, DivUnique DEF q

\* A leaf of a node's block has the node among its ancestors.
LEMMA BlockLeaf ==
  ASSUME NEW d \in Nat, NEW h \in Nodes(d), NEW e \in Nat, InRange(d, h, e)
  PROVE  \E j \in 0..d : (2^d + e) \div 2^j = h
<1>1. HeapDepth(h) \in 0..d /\ h = Ancestor(d, e, HeapDepth(h))
  BY NodeBlock, NodeIsAncestor DEF InRange
<1> DEFINE k == HeapDepth(h)
           j == d - k
<1> HIDE DEF k
<1>2. j \in 0..d /\ d - j = k
  BY <1>1 DEF k
<1>3. (2^d + e) \div 2^j = Ancestor(d, e, d - j)
  BY <1>2, ShiftLeaf
<1> QED
  BY <1>1, <1>2, <1>3 DEF k

LEMMA LeafAncestor ==
  ASSUME NEW d \in Nat, NEW e \in Nat
  PROVE  Ancestor(d, e, d) = 2^d + e
<1>1. d - d = 0 /\ e \div 1 = e
  OBVIOUS
<1> QED
  BY <1>1, PowerZero DEF Ancestor

-----------------------------------------------------------------------------
(* The public tree.                                                        *)

NodeSeed(m, h) == [key |-> m, node |-> h]
TreeHash(m, h) == [key |-> m, of |-> h]

\* full_expand_leaf_nodes derives every node's own seed.
LEMMA SeedTableIs ==
  ASSUME NEW d \in Nat, NEW m \in Masters
  PROVE  SeedTable(d, m) = [i \in 1..(2^(d + 1) - 1) |-> NodeSeed(m, i)]
<1> DEFINE T == 2^d
           N == 2^(d + 1) - 1
           Arrays == [1..(2^(d + 1) - 1) -> Seeds]
           Step == [s \in [h : Nat, seeds : Arrays] |->
                      [h |-> s.h + 1,
                       seeds |-> [s.seeds EXCEPT
                                    ![2 * s.h]     = ExpandNode(s.seeds[s.h], s.h, 0),
                                    ![2 * s.h + 1] = ExpandNode(s.seeds[s.h], s.h, 1)]]]
           zero == [i \in 1..(2^(d + 1) - 1) |-> IF i = 1 THEN MasterSeed(m) ELSE ZeroSeed]
           first == [h |-> 1, seeds |-> zero]
           Filled(n) == [i \in 1..N |-> IF i < 2 * (n + 1) THEN NodeSeed(m, i) ELSE ZeroSeed]
           At(n) == [h |-> n + 1, seeds |-> Filled(n)]
           it == Iterate(Step, first)
           S == {n \in Nat : n < T => it[n] = At(n)}
<1>1. it[0] = first /\ \A n \in Nat : it[n + 1] = Step[it[n]]
  <2> HIDE DEF Step, first
  <2> QED
    BY IterateStep
<1>2. T \in Nat /\ T > 0 /\ N = 2 * T - 1 /\ N \in Nat
  BY PowerStep, PowerPositive
<1>3. \A i : NodeSeed(m, i).key = m /\ NodeSeed(m, i).node = i
  BY DEF NodeSeed
<1>4. ZeroSeed \in Seeds /\ \A i \in Nat : NodeSeed(m, i) \in Seeds
  BY DEF ZeroSeed, Seeds, NodeSeed
<1>5. SeedTable(d, m) = it[T - 1].seeds
  BY DEF SeedTable
<1> HIDE DEF it
<1>6. ASSUME NEW n \in Nat PROVE Filled(n) \in Arrays
  BY <1>4
<1>7. 0 \in S
  <2>1. zero = Filled(0)
    BY DEF NodeSeed, MasterSeed
  <2> HIDE DEF zero, Filled
  <2> QED
    BY <1>1, <2>1
<1>8. ASSUME NEW n \in Nat, n \in S PROVE n + 1 \in S
  <2> SUFFICES ASSUME n + 1 < T PROVE it[n + 1] = At(n + 1)
    OBVIOUS
  <2> DEFINE h == n + 1
             old == Filled(n)
             new == [old EXCEPT ![2 * h] = ExpandNode(old[h], h, 0),
                                ![2 * h + 1] = ExpandNode(old[h], h, 1)]
  <2>1. it[n] = At(n)
    BY <1>2, <1>8
  <2>2. h \in Nat /\ h \in 1..N /\ 2 * h \in 1..N /\ 2 * h + 1 \in 1..N /\ h < 2 * (n + 1)
    BY <1>2
  <2>3. old[h] = NodeSeed(m, h)
    BY <2>2
  <2>4. /\ ExpandNode(old[h], h, 0) = NodeSeed(m, 2 * h)
        /\ ExpandNode(old[h], h, 1) = NodeSeed(m, 2 * h + 1)
    BY <2>2, <2>3 DEF ExpandNode, NodeSeed
  <2>5. old \in Arrays
    BY <1>6
  <2>6. new \in Arrays /\ \A i \in 1..N : new[i] = IF i = 2 * h + 1 THEN NodeSeed(m, 2 * h + 1)
                                  ELSE IF i = 2 * h THEN NodeSeed(m, 2 * h) ELSE old[i]
    <3> HIDE DEF old, h
    <3>1. NodeSeed(m, 2 * h) \in Seeds /\ NodeSeed(m, 2 * h + 1) \in Seeds
      BY <1>4, <2>2
    <3> QED
      BY <2>2, <2>4, <2>5, <3>1
  <2>7. new = Filled(n + 1)
    <3> HIDE DEF new, Arrays
    <3>1. ASSUME NEW i \in 1..N PROVE new[i] = Filled(n + 1)[i]
      <4>1. /\ Filled(n + 1)[i] = IF i < 2 * ((n + 1) + 1) THEN NodeSeed(m, i) ELSE ZeroSeed
            /\ old[i] = IF i < 2 * (n + 1) THEN NodeSeed(m, i) ELSE ZeroSeed
        OBVIOUS
      <4>2. i \in Nat /\ (i < 2 * ((n + 1) + 1) <=> i < 2 * (n + 1) \/ i = 2 * h \/ i = 2 * h + 1)
        BY <1>2
      <4>3. new[i] = IF i = 2 * h + 1 THEN NodeSeed(m, 2 * h + 1)
                     ELSE IF i = 2 * h THEN NodeSeed(m, 2 * h) ELSE old[i]
        BY <2>6
      <4> HIDE DEF old, h, Filled
      <4>4. CASE i = 2 * h \/ i = 2 * h + 1
        BY <2>2, <4>1, <4>2, <4>3, <4>4
      <4>5. CASE ~(i = 2 * h \/ i = 2 * h + 1)
        BY <4>1, <4>2, <4>3, <4>5, Zenon
      <4> QED
        BY <4>4, <4>5, Zenon
    <3>2. new \in Arrays /\ Filled(n + 1) \in Arrays
      <4>1. n + 1 \in Nat
        OBVIOUS
      <4> HIDE DEF Filled
      <4> QED
        BY <1>6, <2>6, <4>1, Zenon
    <3> HIDE DEF Filled
    <3> QED
      BY <3>1, <3>2 DEF Arrays
  <2>8. Step[At(n)] = [h |-> h + 1, seeds |-> new]
    <3>1. At(n) \in [h : Nat, seeds : Arrays] /\ At(n).h = h /\ At(n).seeds = old
      BY <2>5
    <3> HIDE DEF At, old, h, Arrays, new
    <3> QED
      BY <3>1 DEF new
  <2> HIDE DEF Step, new, Filled
  <2> QED
    BY <1>1, <2>1, <2>7, <2>8
<1> HIDE DEF S
<1>9. Nat \subseteq S
  BY <1>7, <1>8, NatSetInduction
<1>10. T - 1 \in Nat /\ T - 1 < T
  BY <1>2
<1>11. it[T - 1] = At(T - 1)
  BY <1>9, <1>10 DEF S
<1>12. Filled(T - 1) = [i \in 1..N |-> NodeSeed(m, i)]
  BY <1>2
<1> QED
  BY <1>5, <1>11, <1>12

LEMMA LeafNodesAre ==
  ASSUME NEW d \in Nat, NEW m \in Masters
  PROVE  LeafNodes(d, m) = [i \in 1..2^d |-> TreeHash(m, 2^d + i - 1)]
<1> DEFINE T == 2^d
<1>1. T \in Nat /\ T > 0 /\ 2^(d + 1) = 2 * T
  BY PowerStep, PowerPositive
<1>2. ASSUME NEW i \in 1..T
      PROVE  LeafHash(d, SeedTable(d, m)[T + i - 1]) = TreeHash(m, T + i - 1)
  <2>1. T + i - 1 \in 1..(2^(d + 1) - 1) /\ T + i - 1 >= T
    BY <1>1
  <2>2. SeedTable(d, m)[T + i - 1] = NodeSeed(m, T + i - 1)
    BY <2>1, SeedTableIs
  <2> QED
    BY <2>1, <2>2 DEF LeafHash, NodeSeed, TreeHash
<1> QED
  BY <1>2 DEF LeafNodes

\* The numbers of the public tree's layout: level k has 2^(d-k) nodes and
\* starts where level k-1 ends.
LEMMA Levels ==
  ASSUME NEW d \in Nat, NEW k \in 0..d
  PROVE  /\ 2^(d - k) \in Nat /\ 2^(d - k) > 0 /\ 2^(d - k) <= 2^d /\ 2^d \in Nat
         /\ LevelOffset(d, k) \in Nat /\ LevelOffset(d, k) = 2 * 2^d - 2 * 2^(d - k)
         /\ k < d => /\ 2^(d - k) = 2 * 2^(d - (k + 1))
                     /\ LevelOffset(d, k + 1) = LevelOffset(d, k) + 2^(d - k)
<1>1. d - k \in Nat /\ d - k <= d
  OBVIOUS
<1>2. 2^(d - k) \in Nat /\ 2^(d - k) > 0 /\ 2^(d - k) <= 2^d /\ 2^d \in Nat
  BY <1>1, PowerPositive, PowerMonotone
<1>3. LevelOffset(d, k) = 2 * 2^d - 2 * 2^(d - k) /\ LevelOffset(d, k) \in Nat
  BY <1>2 DEF LevelOffset
<1>4. ASSUME k < d
      PROVE  /\ 2^(d - k) = 2 * 2^(d - (k + 1))
             /\ LevelOffset(d, k + 1) = LevelOffset(d, k) + 2^(d - k)
  <2>1. d - (k + 1) \in Nat /\ (d - (k + 1)) + 1 = d - k
    BY <1>4
  <2>2. 2^(d - k) = 2 * 2^(d - (k + 1)) /\ 2^(d - (k + 1)) \in Nat
    BY <2>1, PowerStep
  <2>3. LevelOffset(d, k + 1) = 2 * (2^d - 2^(d - (k + 1)))
    BY DEF LevelOffset
  <2> QED
    BY <1>2, <1>3, <2>2, <2>3
<1> QED
  BY <1>2, <1>3, <1>4

\* Node j of level k in the array of public nodes.
LevelsHold(d, m, k, nodes) ==
  \A l \in 0..k : \A j \in Nat :
    j < 2^(d - l) => nodes[LevelOffset(d, l) + j + 1] = TreeHash(m, 2^(d - l) + j)

\* What is true of the tree after k levels have been hashed.
TreeLoop(d, m, k, s) ==
  /\ s \in [nodes : Seq(Hashes), off : Nat, count : Nat]
  /\ s.off = LevelOffset(d, k) /\ s.count = 2^(d - k) /\ Len(s.nodes) = s.off + s.count
  /\ \A i \in 1..Len(s.nodes) : s.nodes[i].key = m
  /\ LevelsHold(d, m, k, s.nodes)

\* Hashing two siblings gives their parent.
LEMMA InodeOfSiblings ==
  ASSUME NEW m, NEW h \in Nat
  PROVE  InodeHash(TreeHash(m, 2 * h), TreeHash(m, 2 * h + 1)) = TreeHash(m, h)
<1>1. (2 * h) % 2 = 0 /\ (2 * h) \div 2 = h
  OBVIOUS
<1> QED
  BY <1>1 DEF InodeHash, TreeHash

LEMMA TreeLoopStep ==
  ASSUME NEW d \in Nat, NEW m \in Masters, NEW k \in 0..d, k < d,
         NEW s, TreeLoop(d, m, k, s)
  PROVE  TreeLoop(d, m, k + 1, TreeStep[s])
<1> DEFINE P == 2^(d - (k + 1))
           old == s.nodes
           off == s.off
           more == [j \in 1..(s.count \div 2) |->
                      InodeHash(s.nodes[s.off + 2 * j - 1], s.nodes[s.off + 2 * j])]
           r == TreeStep[s]
           n == Len(s.nodes)
<1>1. /\ P \in Nat /\ P > 0 /\ 2^(d - k) = 2 * P /\ off \in Nat /\ s.count = 2 * P
      /\ off = LevelOffset(d, k) /\ n = off + 2 * P /\ LevelOffset(d, k + 1) = n
  <2>1. k + 1 \in 0..d
    OBVIOUS
  <2> QED
    BY <2>1, Levels, ZenonT(60) DEF TreeLoop
<1>2. old \in Seq(Hashes) /\ Len(old) = n /\ s \in [nodes : Seq(Hashes), off : Nat, count : Nat]
  BY DEF TreeLoop
<1>3. ASSUME NEW j \in 1..P
      PROVE  InodeHash(old[off + 2 * j - 1], old[off + 2 * j]) = TreeHash(m, P + (j - 1))
  <2> DEFINE a == 2 * (j - 1)
  <2>1. a \in Nat /\ a + 1 \in Nat /\ a < 2 * P /\ a + 1 < 2 * P
    BY <1>1
  <2>2. LevelsHold(d, m, k, old) /\ k \in 0..k
    BY DEF TreeLoop
  <2>3. /\ old[LevelOffset(d, k) + a + 1] = TreeHash(m, 2^(d - k) + a)
        /\ old[LevelOffset(d, k) + (a + 1) + 1] = TreeHash(m, 2^(d - k) + (a + 1))
    BY <1>1, <2>1, <2>2 DEF LevelsHold
  <2>4. /\ LevelOffset(d, k) + a + 1 = off + 2 * j - 1
        /\ LevelOffset(d, k) + (a + 1) + 1 = off + 2 * j
    BY <1>1
  <2>5. /\ 2^(d - k) + a = 2 * (P + (j - 1)) /\ 2^(d - k) + (a + 1) = 2 * (P + (j - 1)) + 1
        /\ P + (j - 1) \in Nat
    BY <1>1
  <2> HIDE DEF a, old, off, P
  <2> QED
    BY <2>3, <2>4, <2>5, InodeOfSiblings
<1>4. more = [j \in 1..P |-> TreeHash(m, P + (j - 1))]
  <2>1. s.count \div 2 = P
    BY <1>1
  <2> HIDE DEF P
  <2> QED
    BY <1>3, <2>1
<1>5. /\ more \in Seq(Hashes) /\ Len(more) = P
      /\ \A j \in 1..P : more[j] = TreeHash(m, P + (j - 1))
  <2> HIDE DEF P, more
  <2>1. \A j \in 1..P : TreeHash(m, P + (j - 1)) \in Hashes
    BY <1>1 DEF TreeHash, Hashes
  <2> QED
    BY <1>1, <1>4, <2>1
<1>6. r = [nodes |-> old \o more, off |-> off + s.count, count |-> s.count \div 2]
  BY <1>2 DEF TreeStep
<1> DEFINE cat == old \o more
<1>7. /\ cat \in Seq(Hashes) /\ Len(cat) = n + P
      /\ \A i \in 1..n : cat[i] = old[i]
      /\ \A j \in 1..P : cat[n + j] = TreeHash(m, P + (j - 1))
  <2> HIDE DEF P, more, old, n
  <2>1. n \in Nat /\ P \in Nat /\ P > 0
    BY <1>1, <1>2
  <2> DEFINE Entry(i) == IF i <= Len(old) THEN old[i] ELSE more[i - Len(old)]
  <2>2. /\ cat \in Seq(Hashes) /\ Len(cat) = n + P
        /\ \A i \in 1..(n + P) : cat[i] = Entry(i)
    <3>1. old \in Seq(Hashes) /\ more \in Seq(Hashes) /\ Len(old) = n /\ Len(more) = P
      BY <1>2, <1>5
    <3>2. /\ cat \in Seq(Hashes) /\ Len(cat) = Len(old) + Len(more)
          /\ \A i \in 1..(Len(old) + Len(more)) : cat[i] = Entry(i)
      BY <3>1, ConcatProperties
    <3> HIDE DEF cat, Entry
    <3> QED
      BY <3>1, <3>2
  <2> HIDE DEF cat
  <2>3. ASSUME NEW i \in 1..n PROVE cat[i] = old[i]
    <3>1. i \in 1..(n + P) /\ i <= Len(old)
      BY <1>2, <2>1
    <3> QED
      BY <2>2, <3>1
  <2>4. ASSUME NEW j \in 1..P PROVE cat[n + j] = TreeHash(m, P + (j - 1))
    <3>1. n + j \in 1..(n + P) /\ ~(n + j <= n) /\ (n + j) - n = j
      BY <2>1
    <3>2. cat[n + j] = more[j]
      BY <1>2, <2>2, <3>1
    <3> QED
      BY <1>5, <3>2
  <2> QED
    BY <2>2, <2>3, <2>4
<1> HIDE DEF cat, more
<1>8. /\ r \in [nodes : Seq(Hashes), off : Nat, count : Nat]
      /\ r.off = LevelOffset(d, k + 1) /\ r.count = P /\ Len(r.nodes) = r.off + r.count
      /\ r.nodes = cat
  <2>1. s.count \div 2 = P /\ off + s.count = n /\ n \in Nat
    BY <1>1
  <2>2. r = [nodes |-> cat, off |-> n, count |-> P]
    BY <1>6, <2>1 DEF cat
  <2> HIDE DEF r, n, P
  <2> QED
    BY <1>1, <1>7, <2>1, <2>2
<1>9. ASSUME NEW i \in 1..Len(cat) PROVE cat[i].key = m
  <2>1. CASE i \in 1..n
    BY <1>7, <2>1 DEF TreeLoop
  <2>2. CASE ~(i \in 1..n)
    <3>1. PICK j \in 1..P : i = n + j
      <4>1. n \in Nat /\ P \in Nat
        BY <1>1
      <4> HIDE DEF n, P
      <4>2. i - n \in 1..P /\ i = n + (i - n)
        BY <1>7, <2>2, <4>1
      <4> QED
        BY <4>2
    <3>2. cat[i] = TreeHash(m, P + (j - 1))
      BY <1>7, <3>1, Zenon
    <3> QED
      BY <3>2 DEF TreeHash
  <2> QED
    BY <2>1, <2>2
<1>10. ASSUME NEW l \in 0..(k + 1), NEW j \in Nat, j < 2^(d - l)
       PROVE  cat[LevelOffset(d, l) + j + 1] = TreeHash(m, 2^(d - l) + j)
  <2>1. CASE l = k + 1
    <3>1. j + 1 \in 1..P /\ LevelOffset(d, l) + j + 1 = n + (j + 1) /\ 2^(d - l) + j = P + ((j + 1) - 1)
      BY <1>1, <1>10, <2>1
    <3> HIDE DEF P, n
    <3> QED
      BY <1>7, <3>1
  <2>2. CASE l # k + 1
    <3>1. l \in 0..k /\ l \in 0..d /\ d - k \in Nat /\ d - l \in Nat /\ d - k <= d - l
      BY <2>2
    <3>2. 2^(d - k) <= 2^(d - l)
      BY <3>1, PowerMonotone
    <3>3. LevelOffset(d, l) + j + 1 \in 1..n
      <4>1. /\ LevelOffset(d, l) = 2 * 2^d - 2 * 2^(d - l) /\ LevelOffset(d, l) \in Nat
            /\ 2^(d - l) \in Nat
        BY <3>1, Levels
      <4>2. /\ LevelOffset(d, k) = 2 * 2^d - 2 * 2^(d - k) /\ 2^(d - k) \in Nat /\ 2^d \in Nat
            /\ n = LevelOffset(d, k) + 2^(d - k)
        BY <1>1, Levels
      <4> HIDE DEF n
      <4> QED
        BY <1>10, <3>2, <4>1, <4>2
    <3>4. old[LevelOffset(d, l) + j + 1] = TreeHash(m, 2^(d - l) + j)
      BY <1>10, <3>1 DEF TreeLoop, LevelsHold
    <3> HIDE DEF old, n
    <3> QED
      BY <1>7, <3>3, <3>4
  <2> QED
    BY <2>1, <2>2
<1>11. LevelsHold(d, m, k + 1, cat)
  BY <1>10 DEF LevelsHold
<1>12. r.count = 2^(d - (k + 1))
  BY <1>8
<1> HIDE DEF r
<1>13. TreeLoop(d, m, k + 1, r)
  BY <1>8, <1>9, <1>11, <1>12 DEF TreeLoop
<1> QED
  BY <1>13 DEF r

\* The array keygen builds: every node's hash at its place, the root last.
LEMMA PublicNodesAre ==
  ASSUME NEW d \in Nat, NEW m \in Masters
  PROVE  LET nodes == PublicNodes(d, m)
         IN  /\ nodes \in Seq(Hashes) /\ Len(nodes) = 2 * 2^d - 1
             /\ \A i \in 1..Len(nodes) : nodes[i].key = m
             /\ LevelsHold(d, m, d, nodes)
             /\ Root(nodes) = TreeHash(m, 1)
<1> DEFINE T == 2^d
           leaves == LeafNodes(d, m)
           first == [nodes |-> leaves, off |-> 0, count |-> T]
           it == Iterate(TreeStep, first)
           S == {k \in Nat : k <= d => TreeLoop(d, m, k, it[k])}
<1>1. it[0] = first /\ \A k \in Nat : it[k + 1] = TreeStep[it[k]]
  <2> HIDE DEF first
  <2> QED
    BY IterateStep
<1>2. PublicNodes(d, m) = it[d].nodes
  BY DEF PublicNodes
<1> HIDE DEF it
<1>3. T \in Nat /\ T > 0 /\ LevelOffset(d, 0) = 0 /\ 2^(d - 0) = T
  <2>1. d - 0 = d /\ T \in Nat /\ T > 0
    BY PowerPositive
  <2> QED
    BY <2>1 DEF LevelOffset
<1>4. /\ leaves \in Seq(Hashes) /\ Len(leaves) = T
      /\ \A i \in 1..T : leaves[i] = TreeHash(m, T + i - 1)
  <2>1. leaves = [i \in 1..T |-> TreeHash(m, T + i - 1)]
    BY LeafNodesAre
  <2>2. \A i \in 1..T : TreeHash(m, T + i - 1) \in Hashes
    BY <1>3 DEF TreeHash, Hashes
  <2> HIDE DEF leaves, T
  <2> QED
    BY <1>3, <2>1, <2>2
<1>5. 0 \in S
  <2>1. /\ first \in [nodes : Seq(Hashes), off : Nat, count : Nat] /\ first.nodes = leaves
        /\ first.off = 0 /\ first.count = T
    BY <1>3, <1>4
  <2> HIDE DEF first, leaves
  <2>2. \A i \in 1..Len(leaves) : leaves[i].key = m
    BY <1>4 DEF TreeHash
  <2>3. ASSUME NEW l \in 0..0, NEW j \in Nat, j < 2^(d - l)
        PROVE  leaves[LevelOffset(d, l) + j + 1] = TreeHash(m, 2^(d - l) + j)
    <3>1. l = 0 /\ j + 1 \in 1..T /\ T + (j + 1) - 1 = T + j /\ 0 + j + 1 = j + 1
      BY <1>3, <2>3
    <3> HIDE DEF T
    <3> QED
      BY <1>3, <1>4, <3>1
  <2>4. TreeLoop(d, m, 0, first)
    <3>1. Len(first.nodes) = first.off + first.count
      BY <1>3, <1>4, <2>1
    <3> QED
      BY <1>3, <2>1, <2>2, <2>3, <3>1 DEF TreeLoop, LevelsHold
  <2> QED
    BY <1>1, <2>4
<1>6. ASSUME NEW k \in Nat, k \in S PROVE k + 1 \in S
  <2> SUFFICES ASSUME k + 1 <= d PROVE TreeLoop(d, m, k + 1, it[k + 1])
    OBVIOUS
  <2>1. k \in 0..d /\ k < d /\ TreeLoop(d, m, k, it[k])
    BY <1>6
  <2> QED
    BY <1>1, <2>1, TreeLoopStep
<1> HIDE DEF S
<1>7. Nat \subseteq S
  BY <1>5, <1>6, NatSetInduction
<1>8. TreeLoop(d, m, d, it[d])
  BY <1>7 DEF S
<1> DEFINE nodes == it[d].nodes
<1> HIDE DEF nodes
<1>9. /\ nodes \in Seq(Hashes) /\ Len(nodes) = LevelOffset(d, d) + 2^(d - d)
      /\ \A i \in 1..Len(nodes) : nodes[i].key = m
      /\ LevelsHold(d, m, d, nodes)
  BY <1>8 DEF TreeLoop, nodes
<1>10. 2^(d - d) = 1 /\ LevelOffset(d, d) = 2 * T - 2 /\ LevelOffset(d, d) \in Nat /\ d \in 0..d
  <2>1. d - d = 0 /\ d \in 0..d
    OBVIOUS
  <2>2. 2^(d - d) = 1
    BY <2>1, PowerZero
  <2>3. LevelOffset(d, d) = 2 * 2^d - 2 * 2^(d - d) /\ LevelOffset(d, d) \in Nat
    BY <2>1, Levels
  <2> QED
    BY <1>3, <2>1, <2>2, <2>3
<1>11. nodes[LevelOffset(d, d) + 0 + 1] = TreeHash(m, 2^(d - d) + 0)
  <2>1. 0 \in Nat /\ 0 < 2^(d - d)
    BY <1>10
  <2> QED
    BY <1>9, <1>10, <2>1, Zenon DEF LevelsHold
<1>12. Len(nodes) = 2 * T - 1 /\ Root(nodes) = TreeHash(m, 1)
  <2>1. Len(nodes) = 2 * T - 1 /\ LevelOffset(d, d) + 0 + 1 = Len(nodes) /\ 2^(d - d) + 0 = 1
    BY <1>3, <1>9, <1>10
  <2> HIDE DEF T
  <2> QED
    BY <1>11, <2>1 DEF Root
<1> QED
  BY <1>2, <1>9, <1>12 DEF nodes

-----------------------------------------------------------------------------
(* The climb of a witness to the root.                                     *)

ProperHash(h) == h \in Hashes /\ (h.key = NoKey => h.of = 0)

LEMMA ShiftBound ==
  ASSUME NEW d \in Nat, NEW e \in Nat, e < 2^d, NEW j \in 0..d
  PROVE  e \div 2^j \in Nat /\ e \div 2^j < 2^(d - j)
<1> DEFINE P == 2^(d - j)
           q == 2^j
           y == e \div q
<1>1. d - j \in Nat /\ j \in Nat /\ d = j + (d - j)
  OBVIOUS
<1>2. q \in Nat /\ q > 0 /\ P \in Nat /\ 2^d = q * P
  BY <1>1, PowerPositive, PowerSum
<1>3. y \in Nat /\ q * y <= e
  BY <1>2, DivProps
<1> HIDE DEF P, q, y
<1>4. y < P
  <2> SUFFICES ASSUME y >= P PROVE FALSE
    BY <1>2, <1>3
  <2>1. PICK z \in Nat : y = P + z
    <3>1. y - P \in Nat /\ y = P + (y - P)
      BY <1>2, <1>3
    <3> QED
      BY <3>1
  <2>2. q * (P + z) = q * P + q * z /\ q * z \in Nat /\ q * P \in Nat
    BY <1>2
  <2> QED
    BY <1>2, <1>3, <2>1, <2>2
<1> QED
  BY <1>3, <1>4 DEF P, q, y

\* Where the sibling of epoch e's ancestor on level k - 1 is in the array.
LEMMA SiblingPlace ==
  ASSUME NEW d \in Nat, NEW e \in Nat, e < 2^d, NEW k \in 1..d
  PROVE  LET y == FlipLast(e \div 2^(k - 1))
         IN  /\ y \in Nat /\ y < 2^(d - (k - 1))
             /\ LevelOffset(d, k - 1) + y + 1 \in 1..(2 * 2^d - 1)
             /\ 2^(d - (k - 1)) + y = FlipLast(Ancestor(d, e, d - (k - 1)))
<1> DEFINE j == k - 1
           x == e \div 2^j
           P == 2^(d - (j + 1))
<1>1. j \in 0..d /\ j < d /\ j \in Nat /\ d - j \in Nat /\ d - (d - j) = j
  OBVIOUS
<1> HIDE DEF j
<1>2. x \in Nat /\ x < 2^(d - j)
  BY <1>1, ShiftBound
<1>3. 2^(d - j) = 2 * P /\ P \in Nat
  <2>1. d - (j + 1) \in Nat
    BY <1>1
  <2> QED
    BY <1>1, <2>1, Levels, PowerPositive
<1>4. Ancestor(d, e, d - j) = 2 * P + x
  BY <1>1, <1>3 DEF Ancestor
<1> HIDE DEF x, P
<1>5. FlipLast(x) \in Nat /\ FlipLast(x) < 2 * P
  <2>1. CASE x % 2 = 0
    BY <1>2, <1>3, <2>1 DEF FlipLast
  <2>2. CASE x % 2 # 0
    BY <1>2, <1>3, <2>2 DEF FlipLast
  <2> QED
    BY <2>1, <2>2
<1>6. 2 * P + FlipLast(x) = FlipLast(2 * P + x)
  <2>1. (2 * P + x) % 2 = x % 2
    BY <1>2, <1>3
  <2> QED
    BY <1>2, <1>3, <2>1 DEF FlipLast
<1>7. LevelOffset(d, j) + FlipLast(x) + 1 \in 1..(2 * 2^d - 1)
  <2>1. LevelOffset(d, j) \in Nat /\ LevelOffset(d, j) = 2 * 2^d - 2 * 2^(d - j) /\ 2^d \in Nat
    BY <1>1, Levels
  <2> QED
    BY <1>3, <1>5, <2>1
<1> QED
  BY <1>3, <1>4, <1>5, <1>6, <1>7 DEF j, x

\* One step up: from no hash to none, from a node's to its parent's or none.
LEMMA InodeUp ==
  ASSUME NEW key, NEW a \in Nat, NEW bit \in {0, 1}, NEW sib, ProperHash(sib),
         NEW cur, cur \in {NoHash, TreeHash(key, 2 * a + bit)}
  PROVE  LET up == IF bit = 0 THEN InodeHash(cur, sib) ELSE InodeHash(sib, cur)
         IN  up \in {NoHash, TreeHash(key, a)} /\ (cur = NoHash => up = NoHash)
<1>1. sib.of \in Nat /\ (sib.key = NoKey => sib.of = 0) /\ NoHash.key = NoKey /\ NoHash.of = 0
  BY DEF ProperHash, Hashes, NoHash
<1>2. ASSUME cur = NoHash
      PROVE  InodeHash(cur, sib) = NoHash /\ InodeHash(sib, cur) = NoHash
  BY <1>1, <1>2 DEF InodeHash
<1>3. ASSUME cur = TreeHash(key, 2 * a + bit)
      PROVE  LET up == IF bit = 0 THEN InodeHash(cur, sib) ELSE InodeHash(sib, cur)
             IN  up \in {NoHash, TreeHash(key, a)}
  <2>1. cur.key = key /\ cur.of = 2 * a + bit
    BY <1>3 DEF TreeHash
  <2>2. CASE bit = 0
    <3>1. cur.of \div 2 = a
      BY <2>1, <2>2
    <3> QED
      BY <2>1, <2>2, <3>1 DEF InodeHash, TreeHash
  <2>3. CASE bit = 1
    <3>1. ASSUME sib.key = cur.key, cur.of = sib.of + 1
          PROVE  sib.of \div 2 = a
      BY <1>1, <2>1, <2>3, <3>1
    <3> QED
      BY <2>1, <2>3, <3>1 DEF InodeHash, TreeHash
  <2> QED
    BY <2>2, <2>3
<1> QED
  BY <1>2, <1>3

\* Whatever the siblings are, a climb from the leaf of epoch e keeps the key
\* of the seed it starts from, and from no leaf it leads nowhere.
LEMMA ClimbKeepsKey ==
  ASSUME NEW d \in Nat, NEW sk \in Seeds, NEW e \in Nat, e < 2^d, NEW path,
         \A k \in 1..d : ProperHash(path[k]), sk.node \in {0, 2^d + e}
  PROVE  /\ Climb(d, sk, e, path) \in {NoHash, TreeHash(sk.key, 1)}
         /\ sk.node = 0 => Climb(d, sk, e, path) = NoHash
<1> DEFINE Step == [s \in [node : Hashes, k : Nat] |->
                      [node |-> IF BitAt(e, s.k) = 0 THEN InodeHash(s.node, path[s.k + 1])
                                                     ELSE InodeHash(path[s.k + 1], s.node),
                       k |-> s.k + 1]]
           first == [node |-> LeafHash(d, sk), k |-> 0]
           it == Iterate(Step, first)
           Up(n) == TreeHash(sk.key, Ancestor(d, e, d - n))
           Climbed(n) == /\ it[n] = [node |-> it[n].node, k |-> n]
                         /\ it[n].node \in {NoHash, Up(n)}
                         /\ sk.node = 0 => it[n].node = NoHash
           S == {n \in Nat : n <= d => Climbed(n)}
<1>1. it[0] = first /\ \A n \in Nat : it[n + 1] = Step[it[n]]
  <2> HIDE DEF Step, first
  <2> QED
    BY IterateStep
<1>2. Climb(d, sk, e, path) = it[d].node
  BY DEF Climb
<1> HIDE DEF it
<1>3. NoHash \in Hashes /\ \A a \in Nat : TreeHash(sk.key, a) \in Hashes
  BY DEF NoHash, Hashes, TreeHash, Seeds
<1>4. 0 \in S
  <2>1. it[0] = [node |-> LeafHash(d, sk), k |-> 0]
    BY <1>1
  <2>2. d - 0 = d /\ Ancestor(d, e, d) = 2^d + e /\ 2^d \in Nat /\ 2^d > 0
    BY LeafAncestor, PowerPositive
  <2>3. LeafHash(d, sk) \in {NoHash, TreeHash(sk.key, 2^d + e)}
    BY DEF LeafHash, TreeHash
  <2>4. sk.node = 0 => LeafHash(d, sk) = NoHash
    BY <2>2 DEF LeafHash
  <2>5. it[0].node = LeafHash(d, sk)
    BY <2>1
  <2> QED
    BY <2>1, <2>2, <2>3, <2>4, <2>5
<1>5. ASSUME NEW n \in Nat, n \in S PROVE n + 1 \in S
  <2> SUFFICES ASSUME n + 1 <= d PROVE Climbed(n + 1)
    OBVIOUS
  <2> DEFINE cur == it[n].node
             a == Ancestor(d, e, d - (n + 1))
             bit == BitAt(e, n)
             sib == path[n + 1]
             up == IF bit = 0 THEN InodeHash(cur, sib) ELSE InodeHash(sib, cur)
  <2>1. Climbed(n) /\ n + 1 \in 1..d /\ d - (n + 1) \in Nat /\ d - (n + 1) < d
    BY <1>5
  <2>2. (d - (n + 1)) + 1 = d - n /\ d - (d - (n + 1)) - 1 = n
    OBVIOUS
  <2>3. a \in Nat /\ bit \in {0, 1} /\ Ancestor(d, e, d - n) = 2 * a + bit
    <3> DEFINE k == d - (n + 1)
    <3>1. k \in Nat /\ k < d /\ k + 1 = d - n /\ d - k - 1 = n
      BY <2>1, <2>2
    <3> HIDE DEF k
    <3>2. /\ Ancestor(d, e, k) \in Nat \ {0} /\ BitAt(e, d - k - 1) \in {0, 1}
          /\ Ancestor(d, e, k + 1) = 2 * Ancestor(d, e, k) + BitAt(e, d - k - 1)
      BY <3>1, AncestorStep
    <3> QED
      BY <3>1, <3>2 DEF k
  <2>4. /\ it[n] = [node |-> cur, k |-> n] /\ cur \in {NoHash, TreeHash(sk.key, 2 * a + bit)}
        /\ sk.node = 0 => cur = NoHash
    BY <2>1, <2>3
  <2>5. ProperHash(sib)
    BY <2>1
  <2>6. 2 * a + bit \in Nat
    BY <2>3
  <2> HIDE DEF cur, a, bit, sib, Step
  <2>7. up \in {NoHash, TreeHash(sk.key, a)} /\ (cur = NoHash => up = NoHash)
    BY <2>3, <2>4, <2>5, InodeUp
  <2>8. it[n + 1] = [node |-> up, k |-> n + 1]
    <3>1. [node |-> cur, k |-> n] \in [node : Hashes, k : Nat]
      BY <1>3, <2>4, <2>6
    <3>2. it[n + 1] = Step[[node |-> cur, k |-> n]]
      BY <1>1, <2>4
    <3> QED
      BY <3>1, <3>2 DEF Step, bit, sib
  <2> HIDE DEF up
  <2>9. it[n + 1].node = up
    BY <2>8
  <2>10. Up(n + 1) = TreeHash(sk.key, a)
    BY DEF a
  <2> HIDE DEF Up
  <2> QED
    BY <2>4, <2>7, <2>8, <2>9, <2>10
<1> HIDE DEF S
<1>6. Nat \subseteq S
  BY <1>4, <1>5, NatSetInduction
<1>7. Climbed(d)
  BY <1>6 DEF S
<1>8. Ancestor(d, e, d - d) = 1
  <2>1. d - d = 0 /\ d - 0 = d /\ e \div 2^d = 0
    BY DivUnique, PowerPositive
  <2> QED
    BY <2>1, PowerZero DEF Ancestor
<1> HIDE DEF Step, first
<1> QED
  BY <1>2, <1>7, <1>8

\* Through its own siblings the leaf of epoch e reaches the root.
LEMMA ClimbReachesRoot ==
  ASSUME NEW d \in Nat, NEW m \in Masters, NEW e \in Nat, e < 2^d, NEW path,
         \A k \in 1..d : path[k] = TreeHash(m, FlipLast(Ancestor(d, e, d - (k - 1))))
  PROVE  Climb(d, NodeSeed(m, 2^d + e), e, path) = TreeHash(m, 1)
<1> DEFINE sk == NodeSeed(m, 2^d + e)
           Step == [s \in [node : Hashes, k : Nat] |->
                      [node |-> IF BitAt(e, s.k) = 0 THEN InodeHash(s.node, path[s.k + 1])
                                                     ELSE InodeHash(path[s.k + 1], s.node),
                       k |-> s.k + 1]]
           first == [node |-> LeafHash(d, sk), k |-> 0]
           it == Iterate(Step, first)
           At(n) == [node |-> TreeHash(m, Ancestor(d, e, d - n)), k |-> n]
           S == {n \in Nat : n <= d => it[n] = At(n)}
<1>1. it[0] = first /\ \A n \in Nat : it[n + 1] = Step[it[n]]
  <2> HIDE DEF Step, first
  <2> QED
    BY IterateStep
<1>2. Climb(d, sk, e, path) = it[d].node
  BY DEF Climb
<1> HIDE DEF it
<1>3. 0 \in S
  <2>1. d - 0 = d /\ Ancestor(d, e, d) = 2^d + e /\ 2^d \in Nat /\ 2^d > 0
    BY LeafAncestor, PowerPositive
  <2>2. LeafHash(d, sk) = TreeHash(m, 2^d + e)
    BY <2>1 DEF LeafHash, TreeHash, NodeSeed
  <2> HIDE DEF sk
  <2> QED
    BY <1>1, <2>1, <2>2
<1>4. ASSUME NEW n \in Nat, n \in S PROVE n + 1 \in S
  <2> SUFFICES ASSUME n + 1 <= d PROVE it[n + 1] = At(n + 1)
    OBVIOUS
  <2> DEFINE a == Ancestor(d, e, d - (n + 1))
             bit == BitAt(e, n)
             h == Ancestor(d, e, d - n)
             sib == path[n + 1]
             up == IF bit = 0 THEN InodeHash(TreeHash(m, h), sib)
                              ELSE InodeHash(sib, TreeHash(m, h))
  <2>1. it[n] = At(n) /\ n + 1 \in 1..d /\ (n + 1) - 1 = n
    BY <1>4
  <2>2. a \in Nat /\ bit \in {0, 1} /\ h = 2 * a + bit
    <3> DEFINE k == d - (n + 1)
    <3>1. k \in Nat /\ k < d /\ k + 1 = d - n /\ d - k - 1 = n
      BY <2>1
    <3> HIDE DEF k
    <3>2. /\ Ancestor(d, e, k) \in Nat \ {0} /\ BitAt(e, d - k - 1) \in {0, 1}
          /\ Ancestor(d, e, k + 1) = 2 * Ancestor(d, e, k) + BitAt(e, d - k - 1)
      BY <3>1, AncestorStep
    <3> QED
      BY <3>1, <3>2 DEF k
  <2>3. sib = TreeHash(m, FlipLast(h))
    <3>1. sib = TreeHash(m, FlipLast(Ancestor(d, e, d - ((n + 1) - 1))))
      BY <2>1
    <3> QED
      BY <2>1, <3>1
  <2>4. it[n + 1] = [node |-> up, k |-> n + 1]
    <3>1. TreeHash(m, h) \in Hashes
      BY <2>2 DEF TreeHash, Hashes
    <3> HIDE DEF h
    <3>2. [node |-> TreeHash(m, h), k |-> n] \in [node : Hashes, k : Nat]
      BY <3>1
    <3>3. it[n + 1] = Step[[node |-> TreeHash(m, h), k |-> n]]
      BY <1>1, <2>1 DEF h
    <3> QED
      BY <3>2, <3>3
  <2> HIDE DEF a, h, bit, sib, Step
  <2>5. up = TreeHash(m, a)
    <3>1. CASE bit = 0
      <4>1. FlipLast(h) = 2 * a + 1 /\ h = 2 * a
        BY <2>2, <3>1 DEF FlipLast
      <4>2. InodeHash(TreeHash(m, 2 * a), TreeHash(m, 2 * a + 1)) = TreeHash(m, a)
        BY <2>2, InodeOfSiblings
      <4> QED
        BY <2>3, <3>1, <4>1, <4>2
    <3>2. CASE bit = 1
      <4>1. FlipLast(h) = 2 * a /\ h = 2 * a + 1
        BY <2>2, <3>2 DEF FlipLast
      <4>2. InodeHash(TreeHash(m, 2 * a), TreeHash(m, 2 * a + 1)) = TreeHash(m, a)
        BY <2>2, InodeOfSiblings
      <4> QED
        BY <2>3, <3>2, <4>1, <4>2
    <3> QED
      BY <2>2, <3>1, <3>2
  <2> QED
    BY <2>4, <2>5 DEF a
<1> HIDE DEF S
<1>5. Nat \subseteq S
  BY <1>3, <1>4, NatSetInduction
<1>6. it[d] = At(d)
  BY <1>5 DEF S
<1>7. Ancestor(d, e, d - d) = 1
  <2>1. d - d = 0 /\ d - 0 = d /\ e \div 2^d = 0
    BY DivUnique, PowerPositive
  <2> QED
    BY <2>1, PowerZero DEF Ancestor
<1>8. it[d].node = TreeHash(m, 1)
  BY <1>6, <1>7
<1> HIDE DEF Step, first
<1> QED
  BY <1>2, <1>8

-----------------------------------------------------------------------------
(* The epoch key.                                                          *)

Slots == [heap : Nat, seed : Seeds]

\* A slot holds the seed of its own node, or a wiped one.
SeedMatches(slot) ==
  /\ slot.seed.node \in {0, slot.heap}
  /\ slot.seed.key = NoKey => slot.seed.node = 0

Covers(cover, d, t) ==
  /\ cover \in Seq(Slots)
  /\ Len(cover) = Len(ComputeCover(d, t))
  /\ \A k \in 1..Len(cover) : cover[k].heap = ComputeCover(d, t)[k] /\ SeedMatches(cover[k])

PublicArray(nodes, d) ==
  /\ nodes \in Seq(Hashes) /\ Len(nodes) = 2 * 2^d - 1
  /\ \A i \in 1..Len(nodes) : ProperHash(nodes[i])

\* A schedule at epoch t of a tree of depth d.
Scheduled(s) ==
  /\ s.depth \in 1..MaxDepth
  /\ s.t \in Epochs(s.depth)
  /\ \E cover : Covers(cover, s.depth, s.t) /\ s.n = Len(cover) /\ s.slot = Install(cover)
  /\ s.fp \in Cfgs => s.depth = CfgDepth[s.fp] /\ PublicArray(s.nodes, s.depth)
  /\ s.nodes # <<>> => s.fp \in Cfgs

States == [depth : Nat, t : Nat, n : Nat, slot : [SlotIds -> Slots],
           nodes : {st.nodes}, root : {st.root}, fp : Cfgs \cup {NoCfg}]

StateOK == st \in States /\ (st = Cleared \/ Scheduled(st))

\* What serialize writes.
Saved(b) ==
  /\ b = [magic |-> TRUE, fp |-> b.fp, t |-> b.t, count |-> Len(b.cover), cover |-> b.cover,
          nodes |-> b.nodes, slack |-> 0]
  /\ b.fp \in Cfgs /\ b.t \in Epochs(CfgDepth[b.fp])
  /\ Covers(b.cover, CfgDepth[b.fp], b.t) /\ PublicArray(b.nodes, CfgDepth[b.fp])

\* A file is what was written to it, or one damage away.
FileOK(b, w) == b = NoFile \/ (Saved(w) /\ (b = w \/ b \in Damaged(w)))

FilesOK ==
  /\ file = [f \in Files |-> file[f]] /\ written = [f \in Files |-> written[f]]
  /\ \A f \in Files : FileOK(file[f], written[f])

\* The ring has the root of an identity's tree, or none.
EnrolledOK ==
  /\ DOMAIN enrolled \subseteq Masters
  /\ \A m \in DOMAIN enrolled : enrolled[m] \in {NotEnrolled, TreeHash(m, 1)}

IInv == StateOK /\ FilesOK /\ EnrolledOK

-----------------------------------------------------------------------------
(* The tables are the operators they tabulate.                             *)

LEMMA DepthOf ==
  ASSUME NEW c \in Cfgs
  PROVE  CfgDepth[c] \in 1..MaxDepth
BY CfgAssumption

LEMMA CoverTable ==
  ASSUME NEW d \in 1..MaxDepth, NEW t \in Epochs(d)
  PROVE  Cover[d][t] = ComputeCover(d, t)
BY DEF Cover

LEMMA BlockTable ==
  ASSUME NEW d \in 1..MaxDepth, NEW h \in Nodes(d)
  PROVE  Block[d][h] = [lo |-> HeapLo(d, h), end |-> HeapLo(d, h) + HeapSize(d, h)]
BY DEF Block, Nodes

LEMMA EpochIs ==
  ASSUME NEW d \in Nat
  PROVE  \A t : t \in Epochs(d) <=> t \in Nat /\ t < 2^d
BY PowerPositive DEF Epochs

\* What CoverIs says of a cover, slot by slot.
LEMMA CoverSlots ==
  ASSUME NEW d \in 1..MaxDepth, NEW t \in Epochs(d), NEW cover, Covers(cover, d, t)
  PROVE  /\ cover \in Seq(Slots) /\ Len(cover) \in 1..d
         /\ \A k \in 1..Len(cover) :
              /\ cover[k] \in Slots /\ SeedMatches(cover[k])
              /\ cover[k].heap \in Nodes(d) /\ t <= HeapLo(d, cover[k].heap)
<1>1. d \in Nat \ {0} /\ t \in Nat /\ t < 2^d
  BY EpochIs, MaxDepthAssumption
<1> DEFINE c == ComputeCover(d, t)
<1>2. /\ Len(c) \in 1..d
      /\ \A k \in 1..Len(c) : c[k] \in Nodes(d) /\ t <= HeapLo(d, c[k])
  BY <1>1, CoverIs
<1> HIDE DEF c
<1>3. /\ cover \in Seq(Slots) /\ Len(cover) = Len(c)
      /\ \A k \in 1..Len(cover) : cover[k].heap = c[k] /\ SeedMatches(cover[k])
  BY DEF Covers, c
<1> QED
  BY <1>2, <1>3

LEMMA InstallTyped ==
  ASSUME NEW cover \in Seq(Slots)
  PROVE  Install(cover) \in [SlotIds -> Slots]
<1>1. ZeroSlot \in Slots
  BY DEF ZeroSlot, Slots, ZeroSeed, Seeds
<1>2. ASSUME NEW i \in SlotIds, i < Len(cover) PROVE cover[i + 1] \in Slots
  <2>1. i + 1 \in 1..Len(cover)
    BY <1>2 DEF SlotIds
  <2> QED
    BY <2>1
<1> QED
  BY <1>1, <1>2 DEF Install

\* The slots of a schedule: live ones are nodes at or after t, in a block of
\* their own, and the others are zero.
LEMMA LiveSlots ==
  ASSUME NEW s, s.slot \in [SlotIds -> Slots], Scheduled(s)
  PROVE  /\ s.depth \in 1..MaxDepth /\ s.t \in Epochs(s.depth) /\ s.n \in 1..s.depth
         /\ \A i \in 0..(s.n - 1) :
              /\ i \in SlotIds /\ s.slot[i] \in Slots /\ SeedMatches(s.slot[i])
              /\ s.slot[i].heap \in Nodes(s.depth) /\ s.t <= HeapLo(s.depth, s.slot[i].heap)
         /\ \A i \in SlotIds : ~(i < s.n) => s.slot[i] = ZeroSlot
<1>1. s.depth \in 1..MaxDepth /\ s.t \in Epochs(s.depth)
  BY DEF Scheduled
<1>2. PICK cover : Covers(cover, s.depth, s.t) /\ s.n = Len(cover) /\ s.slot = Install(cover)
  BY DEF Scheduled
<1>3. /\ cover \in Seq(Slots) /\ Len(cover) \in 1..s.depth
      /\ \A k \in 1..Len(cover) :
           /\ cover[k] \in Slots /\ SeedMatches(cover[k])
           /\ cover[k].heap \in Nodes(s.depth) /\ s.t <= HeapLo(s.depth, cover[k].heap)
  BY <1>1, <1>2, CoverSlots
<1>4. ASSUME NEW i \in 0..(s.n - 1)
      PROVE  i \in SlotIds /\ s.slot[i] = cover[i + 1] /\ i + 1 \in 1..Len(cover)
  <2>1. i \in SlotIds /\ i < Len(cover) /\ i + 1 \in 1..Len(cover)
    BY <1>1, <1>2, <1>3, MaxDepthAssumption DEF SlotIds
  <2> QED
    BY <1>2, <2>1 DEF Install
<1>5. ASSUME NEW i \in SlotIds, ~(i < s.n) PROVE s.slot[i] = ZeroSlot
  BY <1>2, <1>5 DEF Install
<1> QED
  BY <1>1, <1>2, <1>3, <1>4, <1>5

LEMMA LeastExists ==
  ASSUME NEW S, S \subseteq Nat, S # {}
  PROVE  \E i \in S : \A j \in S : i <= j
<1> DEFINE R == {ss \in Nat \X Nat : ss[1] < ss[2]}
<1>1. IsWellFoundedOn(R, Nat)
  BY NatLessThanWellFounded DEF OpToRel
<1> HIDE DEF R
<1>2. PICK i \in S : \A j \in S : ~(<<j, i>> \in R)
  BY <1>1, WFMin
<1>3. ASSUME NEW j \in S PROVE i <= j
  <2>1. i \in Nat /\ j \in Nat /\ ~(<<j, i>> \in R)
    BY <1>2
  <2>2. j < i => <<j, i>> \in R
    BY <2>1 DEF R
  <2> QED
    BY <2>1, <2>2
<1> QED
  BY <1>3

\* The slot advance takes the seed of block h from.
LEMMA SourceSlot ==
  ASSUME NEW s, NEW h, s.n \in Nat, \E i \in 0..(s.n - 1) : Holds(s, i, h)
  PROVE  LET i == First({x \in 0..(s.n - 1) : Holds(s, x, h)})
         IN  i \in 0..(s.n - 1) /\ Holds(s, i, h)
<1> DEFINE S == {x \in 0..(s.n - 1) : Holds(s, x, h)}
<1>1. \E i \in S : \A j \in S : i <= j
  <2>1. S \subseteq Nat /\ S # {}
    OBVIOUS
  <2> HIDE DEF S
  <2> QED
    BY <2>1, LeastExists
<1>2. First(S) \in S
  BY <1>1 DEF First
<1> QED
  BY <1>2

\* What a walk from a seed to node h below it gives.
SeedBelow(seed, h) == [key |-> seed.key, node |-> IF seed.node = 0 THEN 0 ELSE h]

\* The seed derived for block h of the new cover: its own node's, or none.
LEMMA DerivedMatches ==
  ASSUME NEW d \in 1..MaxDepth, NEW slot \in Slots, NEW h \in Nodes(d),
         slot.heap \in Nodes(d), SeedMatches(slot),
         HeapLo(d, slot.heap) <= HeapLo(d, h),
         HeapLo(d, h) + HeapSize(d, h) <= HeapLo(d, slot.heap) + HeapSize(d, slot.heap)
  PROVE  DeriveNode(d, slot.seed, slot.heap, HeapLo(d, h), HeapDepth(h)) = SeedBelow(slot.seed, h)
<1> DEFINE g == slot.heap
<1>1. d \in Nat
  BY MaxDepthAssumption
<1>2. /\ HeapDepth(g) \in 0..d /\ HeapLo(d, g) \in Nat /\ HeapSize(d, g) \in Nat
      /\ HeapSize(d, g) = 2^(d - HeapDepth(g))
  BY <1>1, NodeBlock
<1>3. /\ HeapDepth(h) \in 0..d /\ HeapLo(d, h) \in Nat
      /\ HeapSize(d, h) \in Nat /\ HeapSize(d, h) > 0
      /\ HeapSize(d, h) = 2^(d - HeapDepth(h))
  BY <1>1, NodeBlock
<1>4. HeapLo(d, h) < HeapLo(d, g) + HeapSize(d, g) /\ HeapSize(d, h) <= HeapSize(d, g)
  BY <1>2, <1>3
<1>5. HeapDepth(h) \in HeapDepth(g)..d
  <2> DEFINE m == d - HeapDepth(g)
             n == d - HeapDepth(h)
  <2>1. m \in Nat /\ n \in Nat
    BY <1>1, <1>2, <1>3
  <2>2. ASSUME m < n PROVE FALSE
    <3> HIDE DEF m, n
    <3>1. m + 1 \in Nat /\ m + 1 <= n
      BY <2>1, <2>2
    <3>2. 2^(m + 1) <= 2^n /\ 2^(m + 1) = 2 * 2^m /\ 2^m \in Nat /\ 2^m > 0 /\ 2^n \in Nat
      BY <2>1, <3>1, PowerMonotone, PowerStep, PowerPositive
    <3>3. 2^n <= 2^m
      BY <1>2, <1>3, <1>4 DEF m, n
    <3> QED
      BY <3>2, <3>3
  <2> QED
    BY <1>1, <1>2, <1>3, <2>1, <2>2
<1>6. h = Ancestor(d, HeapLo(d, h), HeapDepth(h))
  <2>1. HeapLo(d, h) <= HeapLo(d, h) /\ HeapLo(d, h) < HeapLo(d, h) + HeapSize(d, h)
    BY <1>3
  <2> QED
    BY <1>1, <1>3, <2>1, NodeIsAncestor
<1>7. slot.seed \in Seeds /\ slot.seed.node \in {0, g}
  BY DEF Slots, SeedMatches
<1> DEFINE edge == HeapLo(d, h)
           target == HeapDepth(h)
<1>8. edge \in Nat /\ HeapLo(d, g) <= edge /\ target \in HeapDepth(g)..d
  BY <1>3, <1>5
<1>9. edge < HeapLo(d, g) + HeapSize(d, g)
  BY <1>4
<1> HIDE DEF edge, target, g
<1> DEFINE r == DeriveNode(d, slot.seed, g, edge, target)
<1>10. /\ r \in Seeds /\ r.key = slot.seed.key
       /\ r.node = IF slot.seed.node = 0 THEN 0 ELSE Ancestor(d, edge, target)
  <2>1. g \in Nodes(d)
    BY DEF g
  <2> QED
    BY <1>1, <1>7, <1>8, <1>9, <2>1, DeriveIs
<1> HIDE DEF r
<1>11. r = SeedBelow(slot.seed, h)
  BY <1>6, <1>10 DEF SeedBelow, Seeds, edge, target
<1> QED
  BY <1>11 DEF edge, target, g, r

\* Slot i's block holds the block of h.
Within(d, g, h) ==
  /\ HeapLo(d, g) <= HeapLo(d, h)
  /\ HeapLo(d, h) + HeapSize(d, h) <= HeapLo(d, g) + HeapSize(d, g)

LEMMA HoldsIs ==
  ASSUME NEW s, s.depth \in 1..MaxDepth, NEW i, s.slot[i].heap \in Nodes(s.depth),
         NEW h \in Nodes(s.depth)
  PROVE  Holds(s, i, h) <=> Within(s.depth, s.slot[i].heap, h)
<1> DEFINE d == s.depth
           g == s.slot[i].heap
<1>1. /\ Block[d][h] = [lo |-> HeapLo(d, h), end |-> HeapLo(d, h) + HeapSize(d, h)]
      /\ Block[d][g] = [lo |-> HeapLo(d, g), end |-> HeapLo(d, g) + HeapSize(d, g)]
  BY BlockTable
<1> QED
  BY <1>1 DEF Holds, Within

\* Each seed of the new cover comes from a slot whose block holds its own.
LEMMA NewCoverSlot ==
  ASSUME NEW s, s.slot \in [SlotIds -> Slots], Scheduled(s),
         NEW target \in Epochs(s.depth), AllHeld(s, target),
         NEW k \in 1..Len(ComputeCover(s.depth, target))
  PROVE  LET h == ComputeCover(s.depth, target)[k]
         IN  \E i \in 0..(s.n - 1) :
               /\ Within(s.depth, s.slot[i].heap, h)
               /\ NewCover(s, target)[k] = [heap |-> h, seed |-> SeedBelow(s.slot[i].seed, h)]
<1> DEFINE d == s.depth
           heaps == Cover[d][target]
           h == heaps[k]
           i == First({x \in 0..(s.n - 1) : Holds(s, x, h)})
           src == s.slot[i]
           r == DeriveNode(d, src.seed, src.heap, Block[d][h].lo, HeapDepth(h))
           new == NewCover(s, target)
<1>1. /\ d \in 1..MaxDepth /\ s.n \in 1..d
      /\ \A x \in 0..(s.n - 1) :
           s.slot[x] \in Slots /\ SeedMatches(s.slot[x]) /\ s.slot[x].heap \in Nodes(d)
  BY LiveSlots
<1>2. heaps = ComputeCover(d, target)
  BY <1>1, CoverTable
<1>3. d \in Nat \ {0} /\ s.n \in Nat
  BY <1>1, MaxDepthAssumption
<1>4. h \in Nodes(d)
  <2>1. target \in Nat /\ target < 2^d
    BY <1>3, EpochIs
  <2> HIDE DEF heaps, d
  <2>2. \A x \in 1..Len(ComputeCover(d, target)) : ComputeCover(d, target)[x] \in Nodes(d)
    BY <1>3, <2>1, CoverIs
  <2> QED
    BY <1>2, <2>2 DEF d
<1>5. k \in 1..Len(heaps)
  BY <1>2
<1>6. \E x \in 0..(s.n - 1) : Holds(s, x, h)
  BY <1>5 DEF AllHeld
<1>7. i \in 0..(s.n - 1) /\ Holds(s, i, h)
  BY <1>3, <1>6, SourceSlot
<1>8. new[k] = [heap |-> h, seed |-> r]
  BY <1>5 DEF NewCover
<1> HIDE DEF i, h, heaps, new
<1>9. src \in Slots /\ SeedMatches(src) /\ src.heap \in Nodes(d)
  BY <1>1, <1>7
<1>10. Within(d, src.heap, h)
  BY <1>1, <1>4, <1>7, <1>9, HoldsIs
<1> HIDE DEF d
<1>11. Block[d][h].lo = HeapLo(d, h)
  <2>1. Block[d][h] = [lo |-> HeapLo(d, h), end |-> HeapLo(d, h) + HeapSize(d, h)]
    BY <1>1, <1>4, BlockTable
  <2> QED
    BY <2>1
<1> HIDE DEF src
<1>12. r = SeedBelow(src.seed, h)
  <2>1. DeriveNode(d, src.seed, src.heap, HeapLo(d, h), HeapDepth(h)) = SeedBelow(src.seed, h)
    BY <1>1, <1>4, <1>9, <1>10, DerivedMatches DEF Within
  <2> QED
    BY <1>11, <2>1
<1> HIDE DEF r
<1>13. h = ComputeCover(s.depth, target)[k]
  BY <1>2 DEF h, d
<1> QED
  BY <1>7, <1>8, <1>10, <1>12, <1>13 DEF src, new, d

\* advance derives a full cover of the target epoch.
LEMMA NewCoverIs ==
  ASSUME NEW s, s.slot \in [SlotIds -> Slots], Scheduled(s),
         NEW target \in Epochs(s.depth), AllHeld(s, target)
  PROVE  Covers(NewCover(s, target), s.depth, target)
<1> DEFINE d == s.depth
           c == ComputeCover(d, target)
           n == Len(c)
           new == NewCover(s, target)
<1>1. /\ d \in 1..MaxDepth /\ s.n \in 1..d
      /\ \A i \in 0..(s.n - 1) :
           s.slot[i] \in Slots /\ SeedMatches(s.slot[i]) /\ s.slot[i].heap \in Nodes(d)
  BY LiveSlots
<1>2. Cover[d][target] = c
  BY <1>1, CoverTable
<1>3. d \in Nat \ {0} /\ target \in Nat /\ target < 2^d
  BY <1>1, EpochIs, MaxDepthAssumption
<1>4. n \in Nat /\ \A k \in 1..n : c[k] \in Nodes(d)
  <2> HIDE DEF d
  <2>1. Len(ComputeCover(d, target)) \in 1..d
    BY <1>3, CoverIs
  <2>2. \A k \in 1..Len(ComputeCover(d, target)) : ComputeCover(d, target)[k] \in Nodes(d)
    BY <1>3, CoverIs
  <2> QED
    BY <1>3, <2>1, <2>2
<1>5. ASSUME NEW k \in 1..n
      PROVE  new[k] \in Slots /\ new[k].heap = c[k] /\ SeedMatches(new[k])
  <2>1. PICK i \in 0..(s.n - 1) : new[k] = [heap |-> c[k], seed |-> SeedBelow(s.slot[i].seed, c[k])]
    BY NewCoverSlot
  <2>2. s.slot[i].seed \in Seeds /\ (s.slot[i].seed.key = NoKey => s.slot[i].seed.node = 0)
    BY <1>1 DEF Slots, SeedMatches
  <2>3. c[k] \in Nat
    BY <1>4 DEF Nodes
  <2> HIDE DEF c, new
  <2> QED
    BY <2>1, <2>2, <2>3 DEF SeedBelow, Seeds, Slots, SeedMatches
<1>6. new \in Seq(Slots) /\ Len(new) = n
  <2>1. new = [k \in 1..n |-> new[k]] /\ DOMAIN new = 1..n
    BY <1>2 DEF NewCover
  <2> HIDE DEF new, n
  <2>2. [k \in 1..n |-> new[k]] \in [1..n -> Slots]
    BY <1>5
  <2>3. new \in Seq(Slots)
    BY <1>4, <2>1, <2>2
  <2> QED
    BY <1>4, <2>1, <2>3
<1> HIDE DEF new
<1>7. Covers(new, d, target)
  BY <1>5, <1>6 DEF Covers
<1> QED
  BY <1>7 DEF new

\* A schedule built from a cover of its epoch is scheduled.
LEMMA ScheduleIs ==
  ASSUME NEW d \in 1..MaxDepth, NEW t \in Epochs(d), NEW cover, Covers(cover, d, t),
         NEW nodes, NEW fp,
         fp \in Cfgs => d = CfgDepth[fp] /\ PublicArray(nodes, d), nodes # <<>> => fp \in Cfgs
  PROVE  LET s == Schedule(d, t, cover, nodes, fp)
         IN  /\ s.depth = d /\ s.t = t /\ s.n = Len(cover) /\ s.slot = Install(cover)
             /\ s.nodes = nodes /\ s.slot \in [SlotIds -> Slots] /\ Scheduled(s)
<1> DEFINE s == Schedule(d, t, cover, nodes, fp)
<1>1. /\ s.depth = d /\ s.t = t /\ s.n = Len(cover) /\ s.slot = Install(cover)
      /\ s.nodes = nodes /\ s.fp = fp
  BY DEF Schedule
<1>2. Install(cover) \in [SlotIds -> Slots]
  BY InstallTyped DEF Covers
<1> HIDE DEF s
<1>3. Scheduled(s)
  BY <1>1 DEF Scheduled
<1> QED
  BY <1>1, <1>2, <1>3 DEF s

LEMMA ScheduleOK ==
  ASSUME NEW d \in 1..MaxDepth, NEW t \in Epochs(d), NEW cover, Covers(cover, d, t),
         NEW nodes, NEW fp \in Cfgs \cup {NoCfg},
         fp \in Cfgs => d = CfgDepth[fp] /\ PublicArray(nodes, d), nodes # <<>> => fp \in Cfgs,
         st' = Schedule(d, t, cover, nodes, fp)
  PROVE  StateOK'
<1>1. /\ st'.slot = Install(cover) /\ st'.slot \in [SlotIds -> Slots] /\ Scheduled(st')
  BY ScheduleIs
<1>2. st' = [depth |-> d, t |-> t, n |-> Len(cover), slot |-> Install(cover),
             nodes |-> nodes, root |-> st'.root, fp |-> fp] /\ st'.nodes = nodes
  BY DEF Schedule
<1>3. d \in Nat /\ t \in Nat /\ Len(cover) \in Nat
  BY EpochIs, MaxDepthAssumption DEF Covers
<1>4. st' \in States'
  BY <1>1, <1>2, <1>3 DEF States
<1> QED
  BY <1>1, <1>4 DEF StateOK

LEMMA ClearedIs ==
  /\ Cleared.t = 0 /\ Cleared.depth = 0 /\ Cleared.n = 0 /\ Cleared.nodes = <<>>
  /\ Cleared.fp = NoCfg /\ Cleared.slot \in [SlotIds -> Slots]
  /\ Cleared = [depth |-> 0, t |-> 0, n |-> 0, slot |-> Cleared.slot, nodes |-> <<>>,
                root |-> Cleared.root, fp |-> NoCfg]
  /\ \A i \in SlotIds : Cleared.slot[i] = ZeroSlot
<1>1. << >> \in Seq(Slots) /\ Len(<< >>) = 0
  OBVIOUS
<1>2. Install(<< >>) \in [SlotIds -> Slots]
  BY <1>1, InstallTyped
<1>3. \A i \in SlotIds : Install(<< >>)[i] = ZeroSlot
  BY <1>1 DEF Install, SlotIds
<1> QED
  BY <1>1, <1>2, <1>3 DEF Cleared, Schedule

LEMMA ClearedOK ==
  ASSUME st = Cleared
  PROVE  StateOK
BY ClearedIs DEF StateOK, States

LEMMA FreshCoverIs ==
  ASSUME NEW d \in 1..MaxDepth, NEW m \in Masters
  PROVE  0 \in Epochs(d) /\ Covers(FreshCover(m), d, 0)
<1> DEFINE first == [heap |-> 1, seed |-> MasterSeed(m)]
<1>1. first \in Slots /\ SeedMatches(first) /\ first.heap = 1
  BY NamesAssumption DEF Slots, Seeds, MasterSeed, SeedMatches
<1> HIDE DEF first
<1>2. <<first>> \in Seq(Slots) /\ Len(<<first>>) = 1 /\ <<first>>[1] = first
  BY <1>1
<1>3. ComputeCover(d, 0) = <<1>> /\ Len(<<1>>) = 1 /\ <<1>>[1] = 1
  BY CoverOfZero, MaxDepthAssumption
<1>4. Covers(<<first>>, d, 0)
  BY <1>1, <1>2, <1>3 DEF Covers
<1>5. d \in Nat /\ 0 < 2^d
  BY MaxDepthAssumption, PowerPositive
<1> QED
  BY <1>4, <1>5, EpochIs DEF FreshCover, first

LEMMA InitInv == Init => IInv
<1> SUFFICES ASSUME Init PROVE IInv
  OBVIOUS
<1>1. StateOK
  BY ClearedOK DEF Init
<1>2. FilesOK
  BY DEF Init, FilesOK, FileOK
<1>3. EnrolledOK
  BY DEF Init, EnrolledOK
<1> QED
  BY <1>1, <1>2, <1>3 DEF IInv

\* An action that changes neither files nor the ring.
LEMMA FilesKept ==
  ASSUME IInv, UNCHANGED <<file, written>>
  PROVE  FilesOK'
BY DEF IInv, FilesOK

LEMMA RingKept ==
  ASSUME IInv, UNCHANGED enrolled
  PROVE  EnrolledOK'
BY DEF IInv, EnrolledOK

LEMMA KeygenInv ==
  ASSUME IInv, NEW c \in Cfgs, NEW m \in Masters,
         Keygen(c, m) \/ InitSchedule(CfgDepth[c], m)
  PROVE  IInv'
<1> DEFINE d == CfgDepth[c]
           nodes == PublicNodes(d, m)
<1>1. d \in 1..MaxDepth /\ 0 \in Epochs(d) /\ Covers(FreshCover(m), d, 0) /\ d \in Nat
  BY DepthOf, FreshCoverIs, MaxDepthAssumption
<1> HIDE DEF d
<1>2. PublicArray(nodes, d) /\ Root(nodes) = TreeHash(m, 1)
  <2>1. /\ nodes \in Seq(Hashes) /\ Len(nodes) = 2 * 2^d - 1 /\ Root(nodes) = TreeHash(m, 1)
        /\ \A i \in 1..Len(nodes) : nodes[i].key = m
    BY <1>1, PublicNodesAre
  <2> HIDE DEF nodes
  <2>2. m # NoKey
    BY NamesAssumption
  <2> QED
    BY <2>1, <2>2 DEF PublicArray, ProperHash
<1> HIDE DEF nodes
<1>3. StateOK'
  <2>1. ASSUME Keygen(c, m) PROVE StateOK'
    <3>1. st' = Schedule(d, 0, FreshCover(m), nodes, c)
      BY <2>1 DEF Keygen, d, nodes
    <3> QED
      BY <1>1, <1>2, <3>1, ScheduleOK DEF d
  <2>2. ASSUME InitSchedule(d, m) PROVE StateOK'
    <3>1. st' = Schedule(d, 0, FreshCover(m), <<>>, NoCfg)
      BY <2>2 DEF InitSchedule, StateInit
    <3> QED
      BY <1>1, <3>1, ScheduleOK, NamesAssumption
  <2> QED
    BY <2>1, <2>2 DEF d
<1>4. EnrolledOK'
  <2>1. \E root \in {NotEnrolled, TreeHash(m, 1)} :
          enrolled' = [x \in DOMAIN enrolled \cup {m} |-> IF x = m THEN root ELSE enrolled[x]]
    BY <1>2 DEF Keygen, InitSchedule, d, nodes
  <2> QED
    BY <2>1 DEF IInv, EnrolledOK
<1> QED
  BY <1>3, <1>4, FilesKept DEF IInv, Keygen, InitSchedule

\* Where advance can be called.
LEMMA AdvanceFrom ==
  ASSUME IInv, NEW target \in 1..(2^MaxDepth - 1), Advance(target)
  PROVE  /\ Scheduled(st) /\ st.slot \in [SlotIds -> Slots] /\ target \in Epochs(st.depth)
         /\ AllHeld(st, target) /\ st' = AdvanceTo(st, target)
<1>1. /\ st \in States /\ st.t < target /\ target < 2^st.depth /\ AllHeld(st, target)
      /\ st' = AdvanceTo(st, target)
  BY DEF IInv, StateOK, Advance
<1>2. target \in Nat
  BY MaxDepthAssumption, PowerPositive
<1>3. Scheduled(st)
  <2>1. CASE st = Cleared
    <3>1. st.depth = 0 /\ 2^0 = 1 /\ target >= 1
      BY <2>1, ClearedIs, PowerZero
    <3> QED
      BY <1>1, <1>2, <3>1
  <2> QED
    BY <2>1 DEF IInv, StateOK
<1>4. st.depth \in Nat
  BY <1>1 DEF States
<1> QED
  BY <1>1, <1>2, <1>3, <1>4, EpochIs DEF States

LEMMA AdvanceInv ==
  ASSUME IInv, NEW target \in 1..(2^MaxDepth - 1), Advance(target)
  PROVE  IInv'
<1> DEFINE d == st.depth
<1>1. /\ Scheduled(st) /\ st.slot \in [SlotIds -> Slots] /\ target \in Epochs(d)
      /\ AllHeld(st, target) /\ st' = Schedule(d, target, NewCover(st, target), st.nodes, st.fp)
  BY AdvanceFrom DEF AdvanceTo
<1>2. /\ d \in 1..MaxDepth /\ st.fp \in Cfgs \cup {NoCfg}
      /\ st.fp \in Cfgs => d = CfgDepth[st.fp] /\ PublicArray(st.nodes, d)
      /\ st.nodes # <<>> => st.fp \in Cfgs
  BY <1>1, NamesAssumption, ClearedIs DEF Scheduled, IInv, StateOK, States
<1>3. Covers(NewCover(st, target), d, target)
  BY <1>1, NewCoverIs
<1>4. StateOK'
  <2> HIDE DEF d
  <2> QED
    BY <1>1, <1>2, <1>3, ScheduleOK DEF d
<1> QED
  BY <1>4, FilesKept, RingKept DEF IInv, Advance

LEMMA ClearInv ==
  ASSUME IInv, Clear
  PROVE  IInv'
<1>1. StateOK'
  BY ClearedIs DEF Clear, StateOK, States
<1> QED
  BY <1>1, FilesKept, RingKept DEF IInv, Clear

-----------------------------------------------------------------------------
(* Persistence and the files.                                              *)

\* A state with a public tree serializes to what load will accept.
LEMMA SerializedIsSaved ==
  ASSUME IInv, st.nodes # <<>>
  PROVE  /\ Saved(Serialized(st)) /\ Scheduled(st) /\ Serialized(st).fp = st.fp
         /\ st.n = Len(Serialized(st).cover) /\ st.slot = Install(Serialized(st).cover)
<1> DEFINE d == st.depth
           b == Serialized(st)
<1>1. /\ st \in States /\ Scheduled(st) /\ st.fp \in Cfgs /\ d = CfgDepth[st.fp]
      /\ PublicArray(st.nodes, d)
  <2>1. st # Cleared
    BY ClearedIs
  <2> QED
    BY <2>1 DEF IInv, StateOK, Scheduled
<1>2. PICK cover : Covers(cover, d, st.t) /\ st.n = Len(cover) /\ st.slot = Install(cover)
  BY <1>1 DEF Scheduled
<1>3. d \in 1..MaxDepth /\ st.t \in Epochs(d) /\ d \in Nat /\ st.t \in Nat
  <2>1. d \in 1..MaxDepth /\ st.t \in Epochs(d)
    BY <1>1 DEF Scheduled
  <2> QED
    BY <2>1, EpochIs, MaxDepthAssumption
<1>4. cover \in Seq(Slots) /\ Len(cover) \in 1..d
  BY <1>2, <1>3, CoverSlots
<1>5. [k \in 1..st.n |-> st.slot[k - 1]] = cover
  <2>1. ASSUME NEW k \in 1..Len(cover) PROVE st.slot[k - 1] = cover[k]
    <3>1. k - 1 \in SlotIds /\ k - 1 < Len(cover) /\ (k - 1) + 1 = k
      BY <1>3, <1>4, MaxDepthAssumption DEF SlotIds
    <3> QED
      BY <1>2, <3>1 DEF Install
  <2>2. cover = [k \in 1..Len(cover) |-> cover[k]]
    BY <1>4
  <2> QED
    BY <1>2, <2>1, <2>2
<1>6. b = [magic |-> TRUE, fp |-> st.fp, t |-> st.t, count |-> Len(cover), cover |-> cover,
           nodes |-> st.nodes, slack |-> 0]
  BY <1>2, <1>5 DEF Serialized
<1> HIDE DEF b, d
<1>7. Saved(b)
  BY <1>1, <1>2, <1>3, <1>4, <1>6 DEF Saved
<1>8. b.fp = st.fp /\ st.n = Len(b.cover) /\ st.slot = Install(b.cover)
  BY <1>2, <1>6
<1> QED
  BY <1>1, <1>7, <1>8 DEF b

\* A file rewritten with what is in order, or wiped, leaves the files in order.
LEMMA FileReplaced ==
  ASSUME IInv, NEW f \in Files, NEW b, NEW w, FileOK(b, w),
         file' = [file EXCEPT ![f] = b], written' = [written EXCEPT ![f] = w]
  PROVE  FilesOK'
<1>1. \A g \in Files : FileOK(file'[g], written'[g])
  BY DEF IInv, FilesOK
<1>2. file' = [g \in Files |-> file'[g]] /\ written' = [g \in Files |-> written'[g]]
  BY DEF IInv, FilesOK
<1> QED
  BY <1>1, <1>2 DEF FilesOK

LEMMA SerializeInv ==
  ASSUME IInv, NEW f \in Files, Serialize(f)
  PROVE  IInv'
<1> DEFINE b == Serialized(st)
<1>1. Saved(b)
  BY SerializedIsSaved DEF Serialize
<1>2. file' = [file EXCEPT ![f] = b] /\ written' = [written EXCEPT ![f] = b]
  BY DEF Serialize
<1> HIDE DEF b
<1>3. FilesOK'
  BY <1>1, <1>2, FileReplaced DEF FileOK
<1>4. StateOK'
  BY DEF Serialize, IInv, StateOK, States, Scheduled
<1> QED
  BY <1>3, <1>4, RingKept DEF IInv, Serialize

\* What load accepts carries what was written, but for lost seeds and hashes.
Accepted(b, w, c) ==
  /\ w.fp = c /\ b.t = w.t /\ b.count = w.count
  /\ Covers(b.cover, CfgDepth[c], w.t) /\ PublicArray(b.nodes, CfgDepth[c])

\* Any damage that parts a cover from its epoch, or a seed from its index,
\* is noticed: a cover starts at its epoch, so its first index gives the
\* epoch away.
LEMMA AcceptedIsSaved ==
  ASSUME NEW b, NEW w, Saved(w), b = w \/ b \in Damaged(w), NEW c \in Cfgs, Loadable(c, b)
  PROVE  Accepted(b, w, c)
<1> DEFINE d == CfgDepth[w.fp]
<1>1. /\ w = [magic |-> TRUE, fp |-> w.fp, t |-> w.t, count |-> w.count,
              cover |-> w.cover, nodes |-> w.nodes, slack |-> 0]
      /\ w.fp \in Cfgs /\ w.t \in Epochs(d) /\ w.count = Len(w.cover)
      /\ Covers(w.cover, d, w.t) /\ PublicArray(w.nodes, d)
  BY DEF Saved
<1>2. d \in 1..MaxDepth /\ d \in Nat \ {0} /\ w.t \in Nat /\ w.t < 2^d
  BY <1>1, DepthOf, EpochIs, MaxDepthAssumption
<1>3. /\ b.magic /\ b.fp = c /\ b.slack = 0 /\ b.count = Len(b.cover)
      /\ Len(Cover[CfgDepth[c]][b.t]) = b.count
      /\ \A k \in 1..b.count : b.cover[k].heap = Cover[CfgDepth[c]][b.t][k]
  BY DEF Loadable
<1> HIDE DEF d
<1>4. /\ w.cover \in Seq(Slots) /\ Len(w.cover) \in 1..d
      /\ \A k \in 1..Len(w.cover) : w.cover[k] \in Slots /\ SeedMatches(w.cover[k])
  BY <1>1, <1>2, CoverSlots
<1>5. /\ Len(w.cover) = Len(ComputeCover(d, w.t))
      /\ \A k \in 1..Len(w.cover) : w.cover[k].heap = ComputeCover(d, w.t)[k]
  BY <1>1 DEF Covers
<1>6. ASSUME b.fp = w.fp, b.t = w.t, b.count = w.count, b.cover = w.cover, b.nodes = w.nodes
      PROVE  Accepted(b, w, c)
  BY <1>1, <1>3, <1>6 DEF Accepted, d
<1>7. CASE b = [w EXCEPT !.magic = FALSE]
  BY <1>1, <1>3, <1>7
<1>8. CASE b = [w EXCEPT !.fp = NoCfg]
  <2>1. b.fp = NoCfg
    BY <1>1, <1>8
  <2> QED
    BY <1>3, <2>1, NamesAssumption
<1>9. ASSUME NEW t \in Epochs(d), b = [w EXCEPT !.t = t] PROVE Accepted(b, w, c)
  <2>1. /\ b.fp = w.fp /\ b.t = t /\ b.count = w.count /\ b.cover = w.cover /\ b.nodes = w.nodes
    BY <1>1, <1>9
  <2>2. c = w.fp /\ Cover[d][t] = ComputeCover(d, t) /\ t \in Nat /\ t < 2^d
    BY <1>2, <1>3, <1>9, <2>1, CoverTable, EpochIs
  <2>3. 1 \in 1..b.count
    BY <1>1, <1>4, <2>1
  <2>4. ComputeCover(d, t)[1] = ComputeCover(d, w.t)[1]
    BY <1>1, <1>3, <1>5, <2>1, <2>2, <2>3 DEF d
  <2>5. HeapLo(d, ComputeCover(d, t)[1]) = t /\ HeapLo(d, ComputeCover(d, w.t)[1]) = w.t
    BY <1>2, <2>2, CoverIs
  <2> QED
    BY <1>6, <2>1, <2>4, <2>5
<1>10. ASSUME NEW n \in {w.count - 1, w.count + 1}, b = [w EXCEPT !.count = n] PROVE FALSE
  <2>1. b.count = n /\ b.cover = w.cover
    BY <1>1, <1>10
  <2> QED
    BY <1>1, <1>3, <1>4, <1>10, <2>1
<1>11. ASSUME NEW i \in 1..w.count, b = [w EXCEPT !.cover[i].heap = FlipLast(@)]
      PROVE  FALSE
  <2> DEFINE h == FlipLast(w.cover[i].heap)
             slot == [w.cover[i] EXCEPT !.heap = h]
             cover == [w.cover EXCEPT ![i] = slot]
  <2>1. w.cover[i] \in Slots /\ i \in 1..Len(w.cover)
    BY <1>1, <1>4
  <2>2. w.cover[i].heap \in Nat
    BY <2>1 DEF Slots
  <2>3. h \in Nat /\ h # w.cover[i].heap
    BY <2>2 DEF FlipLast
  <2> HIDE DEF h
  <2>4. slot.heap = h
    BY <2>1 DEF Slots
  <2> HIDE DEF slot
  <2>5. cover[i] = slot /\ Len(cover) = Len(w.cover)
    BY <1>4, <2>1
  <2>6. b = [w EXCEPT !.cover = cover]
    BY <1>1, <1>11 DEF slot, h
  <2> HIDE DEF cover
  <2>7. b.cover = cover /\ b.fp = w.fp /\ b.t = w.t /\ b.count = w.count
    BY <1>1, <2>6
  <2>8. cover[i].heap = Cover[d][w.t][i]
    BY <1>1, <1>3, <2>1, <2>7 DEF d
  <2>9. Cover[d][w.t] = ComputeCover(d, w.t)
    BY <1>1, <1>2, CoverTable DEF d
  <2> QED
    BY <1>5, <2>1, <2>3, <2>4, <2>5, <2>8, <2>9
<1>12. ASSUME NEW i \in {1, w.count}, b = [w EXCEPT !.cover[i].seed = ZeroSeed]
      PROVE  Accepted(b, w, c)
  <2> DEFINE slot == [w.cover[i] EXCEPT !.seed = ZeroSeed]
             cover == [w.cover EXCEPT ![i] = slot]
  <2>1. i \in 1..Len(w.cover) /\ w.cover[i] \in Slots
    BY <1>1, <1>2, <1>4, <1>12
  <2>2. slot \in Slots /\ SeedMatches(slot) /\ slot.heap = w.cover[i].heap
    BY <2>1 DEF Slots, Seeds, ZeroSeed, SeedMatches
  <2>3. b = [w EXCEPT !.cover = cover]
    BY <1>1, <1>12
  <2> HIDE DEF slot
  <2>4. /\ cover \in Seq(Slots) /\ Len(cover) = Len(w.cover)
        /\ \A k \in 1..Len(cover) : cover[k] = IF k = i THEN slot ELSE w.cover[k]
    BY <1>4, <2>1, <2>2
  <2> HIDE DEF cover
  <2>5. Covers(cover, d, w.t)
    BY <1>4, <1>5, <2>2, <2>4 DEF Covers
  <2>6. b.cover = cover /\ b.fp = w.fp /\ b.t = w.t /\ b.count = w.count /\ b.nodes = w.nodes
    BY <1>1, <2>3
  <2> QED
    BY <1>1, <1>3, <2>5, <2>6 DEF Accepted, d
<1>13. ASSUME NEW i \in {1, Len(w.nodes)}, b = [w EXCEPT !.nodes[i] = NoHash]
       PROVE  Accepted(b, w, c)
  <2> DEFINE nodes == [w.nodes EXCEPT ![i] = NoHash]
  <2>1. b = [w EXCEPT !.nodes = nodes]
    BY <1>1, <1>13
  <2>2. /\ w.nodes \in Seq(Hashes) /\ \A k \in 1..Len(w.nodes) : ProperHash(w.nodes[k])
        /\ Len(w.nodes) = 2 * 2^d - 1
    BY <1>1 DEF PublicArray
  <2>3. NoHash \in Hashes /\ ProperHash(NoHash)
    BY DEF NoHash, Hashes, ProperHash
  <2>4. nodes \in Seq(Hashes) /\ Len(nodes) = Len(w.nodes)
    <3>1. 2^d \in Nat /\ 2^d > 0
      BY <1>2, PowerPositive
    <3>2. i \in 1..Len(w.nodes)
      BY <1>13, <2>2, <3>1
    <3> QED
      BY <2>2, <2>3, <3>2
  <2>5. \A k \in 1..Len(w.nodes) : nodes[k] = IF k = i THEN NoHash ELSE w.nodes[k]
    BY <2>2
  <2> HIDE DEF nodes
  <2>6. PublicArray(nodes, d)
    BY <2>2, <2>3, <2>4, <2>5 DEF PublicArray
  <2>7. b.nodes = nodes /\ b.cover = w.cover /\ b.fp = w.fp /\ b.t = w.t /\ b.count = w.count
    BY <1>1, <2>1
  <2> QED
    BY <1>1, <1>3, <2>6, <2>7 DEF Accepted, d
<1>14. CASE b = [w EXCEPT !.slack = 1]
  <2>1. b.slack = 1
    BY <1>1, <1>14
  <2> QED
    BY <1>3, <2>1
<1>15. CASE b = [w EXCEPT !.cover = SubSeq(w.cover, 1, Len(w.cover) - 1)]
  <2> DEFINE cover == SubSeq(w.cover, 1, Len(w.cover) - 1)
  <2>1. Len(w.cover) \in Nat \ {0}
    BY <1>2, <1>4
  <2>2. Len(cover) = Len(w.cover) - 1
    <3>1. \A i \in 1..(Len(w.cover) - 1) : w.cover[i] \in Slots
      BY <1>4, <2>1
    <3>2. 1 \in Int /\ Len(w.cover) - 1 \in Int
      BY <2>1
    <3> HIDE DEF cover
    <3>3. Len(cover) = IF 1 <= Len(w.cover) - 1 THEN (Len(w.cover) - 1) - 1 + 1 ELSE 0
      BY <3>1, <3>2, SubSeqProperties DEF cover
    <3> QED
      BY <2>1, <3>3
  <2> HIDE DEF cover
  <2>3. b.cover = cover /\ b.count = w.count
    BY <1>1, <1>15 DEF cover
  <2> QED
    BY <1>1, <1>3, <2>1, <2>2, <2>3
<1>16. CASE b = w
  BY <1>6, <1>16
<1> QED
  BY <1>7, <1>8, <1>9, <1>10, <1>11, <1>12, <1>13, <1>14, <1>15, <1>16 DEF Damaged, d

\* The file that load accepts.
LEMMA LoadAccepts ==
  ASSUME IInv, NEW f \in Files, NEW c \in Cfgs, file[f] # NoFile, Loadable(c, file[f])
  PROVE  Accepted(file[f], written[f], c) /\ Saved(written[f])
<1>1. Saved(written[f]) /\ (file[f] = written[f] \/ file[f] \in Damaged(written[f]))
  BY DEF IInv, FilesOK, FileOK
<1> QED
  BY <1>1, AcceptedIsSaved

LEMMA LoadInv ==
  ASSUME IInv, NEW f \in Files, NEW c \in Cfgs, Load(f, c)
  PROVE  IInv'
<1> DEFINE b == file[f]
           w == written[f]
           d == CfgDepth[c]
<1>1. ASSUME Loadable(c, b), st' = Loaded(c, b) PROVE StateOK'
  <2>1. Accepted(b, w, c) /\ Saved(w)
    BY <1>1, LoadAccepts DEF Load
  <2> HIDE DEF b, w
  <2>2. d \in 1..MaxDepth /\ b.t \in Epochs(d) /\ Covers(b.cover, d, b.t) /\ PublicArray(b.nodes, d)
    BY <2>1, DepthOf DEF Accepted, Saved
  <2>3. st' = Schedule(d, b.t, b.cover, b.nodes, c)
    BY <1>1 DEF Loaded
  <2>4. c \in Cfgs \cup {NoCfg} /\ d = CfgDepth[c]
    OBVIOUS
  <2> HIDE DEF d
  <2> QED
    BY <2>2, <2>3, <2>4, ScheduleOK
<1>2. ASSUME st' = Cleared PROVE StateOK'
  BY <1>2, ClearedIs DEF StateOK, States
<1>3. StateOK'
  BY <1>1, <1>2 DEF Load
<1> QED
  BY <1>3, FilesKept, RingKept DEF IInv, Load

LEMMA StateKept ==
  ASSUME IInv, UNCHANGED st
  PROVE  StateOK'
BY DEF IInv, StateOK, States, Scheduled

LEMMA CopyFileInv ==
  ASSUME IInv, NEW f \in Files, NEW g \in Files, CopyFile(f, g)
  PROVE  IInv'
<1>1. FileOK(file[f], written[f])
  BY DEF IInv, FilesOK
<1>2. file' = [file EXCEPT ![g] = file[f]] /\ written' = [written EXCEPT ![g] = written[f]]
  BY DEF CopyFile
<1> QED
  BY <1>1, <1>2, FileReplaced, StateKept, RingKept DEF IInv, CopyFile

LEMMA DamageInv ==
  ASSUME IInv, NEW f \in Files, Damage(f)
  PROVE  IInv'
<1>1. PICK b \in Damaged(file[f]) : file' = [file EXCEPT ![f] = b]
  BY DEF Damage
<1>2. FileOK(b, written[f])
  BY <1>1 DEF Damage, IInv, FilesOK, FileOK
<1>3. written' = [written EXCEPT ![f] = written[f]]
  BY DEF Damage, IInv, FilesOK
<1> QED
  BY <1>1, <1>2, <1>3, FileReplaced, StateKept, RingKept DEF IInv, Damage

LEMMA StepInv ==
  ASSUME IInv, [Next]_vars
  PROVE  IInv'
<1>1. CASE UNCHANGED vars
  BY <1>1, StateKept, FilesKept, RingKept DEF vars, IInv
<1> QED
  BY <1>1, KeygenInv, AdvanceInv, ClearInv, SerializeInv, LoadInv, CopyFileInv, DamageInv
  DEF Next

-----------------------------------------------------------------------------
(* What the invariant is for.                                              *)

LEMMA InvIsTypeOK == IInv => TypeOK
<1> SUFFICES ASSUME IInv PROVE TypeOK
  OBVIOUS
<1>1. /\ st.slot \in [SlotIds -> [heap : Nat, seed : Seeds]]
      /\ st.fp \in Cfgs \cup {NoCfg} /\ DOMAIN enrolled \subseteq Masters
  BY DEF IInv, StateOK, States, Slots, EnrolledOK
<1>2. st.depth \in 0..MaxDepth /\ st.n \in 0..st.depth /\ st.t \in Epochs(st.depth)
  <2>1. CASE st = Cleared
    <3>1. 0 \in Epochs(0)
      BY PowerPositive, EpochIs
    <3> QED
      BY <2>1, <3>1, ClearedIs, MaxDepthAssumption
  <2>2. CASE Scheduled(st)
    BY <1>1, <2>2, LiveSlots, MaxDepthAssumption DEF Slots
  <2> QED
    BY <2>1, <2>2 DEF IInv, StateOK
<1> QED
  BY <1>1, <1>2 DEF TypeOK

\* A node's epochs are not before its block; no node has none.
LEMMA BelowInBlock ==
  ASSUME NEW d \in 1..MaxDepth, NEW h \in Nodes(d) \cup {0}, NEW e \in Below[d][h]
  PROVE  h \in Nodes(d) /\ e \in Epochs(d) /\ HeapLo(d, h) <= e
<1>1. d \in Nat /\ h \in 0..(2^(d + 1) - 1)
  <2>1. d \in Nat /\ 2^(d + 1) \in Nat /\ 2^(d + 1) > 0
    BY MaxDepthAssumption, PowerPositive
  <2> QED
    BY <2>1 DEF Nodes
<1>2. Below[d][h] = {x \in Epochs(d) : \E j \in 0..d : (2^d + x) \div 2^j = h}
  BY <1>1 DEF Below
<1>3. e \in Epochs(d) /\ e \in Nat /\ e < 2^d
  BY <1>1, <1>2, EpochIs
<1>4. PICK j \in 0..d : (2^d + e) \div 2^j = h
  BY <1>2
<1> QED
  BY <1>1, <1>3, <1>4, LeafInBlock

LEMMA InvIsForwardSecure == IInv => ForwardSecure
<1> SUFFICES ASSUME IInv, NEW k \in MemorySecrets PROVE k[2] >= st.t
  BY DEF ForwardSecure
<1>1. PICK i \in SlotIds :
        st.slot[i].seed # ZeroSeed /\ k \in {st.slot[i].seed.key} \X Below[st.depth][st.slot[i].seed.node]
  BY DEF MemorySecrets
<1>2. Scheduled(st) /\ st.slot \in [SlotIds -> Slots]
  <2>1. st # Cleared
    BY <1>1, ClearedIs DEF ZeroSlot
  <2> QED
    BY <2>1 DEF IInv, StateOK, States
<1> DEFINE d == st.depth
           h == st.slot[i].heap
           node == st.slot[i].seed.node
<1>3. /\ d \in 1..MaxDepth /\ st.t \in Epochs(d)
      /\ node \in {0, h} /\ h \in Nodes(d) /\ st.t <= HeapLo(d, h)
  <2>1. d \in 1..MaxDepth /\ st.t \in Epochs(d) /\ st.n \in 1..d
    BY <1>2, LiveSlots
  <2>2. i < st.n
    BY <1>1, <1>2, LiveSlots DEF ZeroSlot
  <2>3. i \in 0..(st.n - 1)
    BY <2>1, <2>2 DEF SlotIds
  <2> QED
    BY <1>2, <2>1, <2>3, LiveSlots DEF SeedMatches
<1>4. k[2] \in Below[d][node]
  BY <1>1
<1> HIDE DEF d, h, node
<1>5. node \in Nodes(d) /\ k[2] \in Epochs(d) /\ HeapLo(d, node) <= k[2]
  BY <1>3, <1>4, BelowInBlock
<1>6. node = h /\ h # 0
  BY <1>3, <1>5 DEF Nodes
<1>7. st.t \in Nat /\ k[2] \in Nat /\ HeapLo(d, h) \in Nat
  <2>1. d \in Nat
    BY <1>3, MaxDepthAssumption
  <2> QED
    BY <1>3, <1>5, <2>1, EpochIs, NodeBlock
<1> QED
  BY <1>3, <1>5, <1>6, <1>7

\* The struct is well formed in every state: in particular its cover fits
\* the arrays advance and load give compute_cover.
THEOREM TypeCorrect == Spec => []TypeOK
BY InitInv, StepInv, InvIsTypeOK, PTL DEF Spec

\* Forward security: at epoch t no slot of the state, live or stale, reveals
\* the key of an epoch before t, for any depth, history of advances, saves,
\* copies, damage and loads.
THEOREM ForwardSecurity == Spec => []ForwardSecure
BY InitInv, StepInv, InvIsForwardSecure, PTL DEF Spec

-----------------------------------------------------------------------------
(* What load accepts, where advance can go, who can sign what.             *)

LEMMA LoadedWasWritten ==
  ASSUME IInv, NEW f \in Files, NEW c \in Cfgs, Load(f, c), st' # Cleared
  PROVE  /\ Serialized(st').t = written[f].t
         /\ st'.fp = written[f].fp
         /\ [k \in 1..st'.n |-> st'.slot[k - 1].heap]
              = [k \in 1..written[f].count |-> written[f].cover[k].heap]
<1> DEFINE b == file[f]
           w == written[f]
           d == CfgDepth[c]
<1>1. Loadable(c, b) /\ st' = Loaded(c, b)
  BY DEF Load
<1>2. Accepted(b, w, c) /\ Saved(w)
  BY <1>1, LoadAccepts DEF Load
<1>3. st'.t = b.t /\ st'.fp = c /\ st'.n = Len(b.cover) /\ st'.slot = Install(b.cover)
  BY <1>1 DEF Loaded, Schedule
<1> HIDE DEF b, w
<1>4. Serialized(st').t = w.t /\ st'.fp = w.fp
  BY <1>2, <1>3 DEF Accepted, Serialized
<1>5. d \in 1..MaxDepth /\ w.t \in Epochs(d) /\ Covers(b.cover, d, w.t) /\ Covers(w.cover, d, w.t)
  BY <1>2, DepthOf DEF Accepted, Saved
<1> HIDE DEF d
<1>6. Len(b.cover) \in 1..d /\ Len(w.cover) = Len(b.cover) /\ w.count = Len(w.cover)
  BY <1>2, <1>5, CoverSlots DEF Covers, Saved
<1>7. ASSUME NEW k \in 1..Len(b.cover) PROVE st'.slot[k - 1].heap = w.cover[k].heap
  <2>1. k - 1 \in SlotIds /\ k - 1 < Len(b.cover) /\ (k - 1) + 1 = k
    BY <1>5, <1>6, MaxDepthAssumption DEF SlotIds
  <2>2. st'.slot[k - 1] = b.cover[k]
    BY <1>3, <2>1 DEF Install
  <2>3. b.cover[k].heap = w.cover[k].heap
    BY <1>5, <1>6 DEF Covers
  <2> QED
    BY <2>2, <2>3
<1>8. [k \in 1..st'.n |-> st'.slot[k - 1].heap] = [k \in 1..w.count |-> w.cover[k].heap]
  BY <1>3, <1>6, <1>7
<1> QED
  BY <1>4, <1>8 DEF w

\* No damaged header, cover index or length gets past load.
THEOREM NothingElseIsLoaded == Spec => LoadsWhatWasSaved
<1>1. IInv /\ [Next]_vars =>
        [\A f \in Files, c \in Cfgs :
           Load(f, c) /\ st' # Cleared =>
             /\ Serialized(st').t = written[f].t
             /\ st'.fp = written[f].fp
             /\ [k \in 1..st'.n |-> st'.slot[k - 1].heap]
                  = [k \in 1..written[f].count |-> written[f].cover[k].heap]]_vars
  BY LoadedWasWritten
<1> QED
  BY <1>1, InitInv, StepInv, PTL DEF Spec, LoadsWhatWasSaved

\* The slots' indices are compute_cover's, so their blocks tile [t, 2^d).
LEMMA SlotBlocks ==
  ASSUME NEW s, s.slot \in [SlotIds -> Slots], Scheduled(s)
  PROVE  /\ s.n = Len(ComputeCover(s.depth, s.t))
         /\ \A i \in 0..(s.n - 1) : s.slot[i].heap = ComputeCover(s.depth, s.t)[i + 1]
         /\ \A e \in Nat : s.t <= e /\ e < 2^s.depth =>
              \E i \in 0..(s.n - 1) : InRange(s.depth, s.slot[i].heap, e)
         /\ \A i \in 0..(s.n - 1) :
              s.slot[i].heap = CoverBlock(s.depth, HeapLo(s.depth, s.slot[i].heap))
         /\ \A i, j \in 0..(s.n - 1) :
              i < j => HeapLo(s.depth, s.slot[i].heap) + HeapSize(s.depth, s.slot[i].heap)
                         <= HeapLo(s.depth, s.slot[j].heap)
<1> DEFINE d == s.depth
           c == ComputeCover(d, s.t)
<1>1. d \in 1..MaxDepth /\ s.t \in Epochs(d) /\ s.n \in 1..d
  BY LiveSlots
<1>2. PICK cover : Covers(cover, d, s.t) /\ s.n = Len(cover) /\ s.slot = Install(cover)
  BY DEF Scheduled
<1>3. d \in Nat \ {0} /\ s.t \in Nat /\ s.t < 2^d /\ s.n \in Nat
  BY <1>1, EpochIs, MaxDepthAssumption
<1> HIDE DEF d
<1>4. Tiles(d, s.t, c)
  BY <1>3, CoverTiles
<1>5. s.n = Len(c) /\ \A k \in 1..s.n : cover[k].heap = c[k]
  BY <1>2 DEF Covers
<1> HIDE DEF c
<1>6. ASSUME NEW i \in 0..(s.n - 1) PROVE i + 1 \in 1..s.n /\ s.slot[i].heap = c[i + 1]
  <2>1. i \in SlotIds /\ i < Len(cover) /\ i + 1 \in 1..s.n
    BY <1>1, <1>2, MaxDepthAssumption DEF SlotIds
  <2> QED
    BY <1>2, <1>5, <2>1 DEF Install
<1>7. ASSUME NEW e \in Nat, s.t <= e, e < 2^d
      PROVE  \E i \in 0..(s.n - 1) : InRange(d, s.slot[i].heap, e)
  <2>1. PICK k \in 1..s.n : InRange(d, c[k], e)
    BY <1>4, <1>5, <1>7 DEF Tiles
  <2>2. k - 1 \in 0..(s.n - 1) /\ (k - 1) + 1 = k
    BY <1>3
  <2> QED
    BY <1>6, <2>1, <2>2
<1>8. ASSUME NEW i \in 0..(s.n - 1)
      PROVE  s.slot[i].heap = CoverBlock(d, HeapLo(d, s.slot[i].heap))
  BY <1>4, <1>5, <1>6 DEF Tiles
<1>9. ASSUME NEW i \in 0..(s.n - 1), NEW j \in 0..(s.n - 1), i < j
      PROVE  HeapLo(d, s.slot[i].heap) + HeapSize(d, s.slot[i].heap) <= HeapLo(d, s.slot[j].heap)
  <2>1. i + 1 < j + 1
    BY <1>3, <1>9
  <2> QED
    BY <1>4, <1>5, <1>6, <2>1 DEF Tiles
<1> QED
  BY <1>5, <1>6, <1>7, <1>8, <1>9 DEF c, d

\* Every block of a later cover lies in one of the blocks at hand.
LEMMA TargetHeld ==
  ASSUME NEW s, s.slot \in [SlotIds -> Slots], Scheduled(s),
         NEW target \in Epochs(s.depth), s.t <= target
  PROVE  AllHeld(s, target)
<1> DEFINE d == s.depth
           c == ComputeCover(d, target)
<1>1. /\ d \in 1..MaxDepth /\ s.t \in Epochs(d) /\ s.n \in 1..d
      /\ \A i \in 0..(s.n - 1) : s.slot[i].heap \in Nodes(d)
  BY LiveSlots
<1>2. /\ d \in Nat \ {0} /\ s.t \in Nat /\ target \in Nat /\ target < 2^d /\ s.n \in Nat
      /\ Cover[d][target] = c
  BY <1>1, EpochIs, MaxDepthAssumption, CoverTable
<1>3. /\ \A e \in Nat : s.t <= e /\ e < 2^d =>
           \E i \in 0..(s.n - 1) : InRange(d, s.slot[i].heap, e)
      /\ \A i \in 0..(s.n - 1) : s.slot[i].heap = CoverBlock(d, HeapLo(d, s.slot[i].heap))
  BY SlotBlocks
<1> HIDE DEF d
<1>4. Tiles(d, target, c) /\ \A k \in 1..Len(c) : c[k] \in Nodes(d) /\ target <= HeapLo(d, c[k])
  BY <1>2, CoverTiles, CoverIs
<1> HIDE DEF c
<1>5. ASSUME NEW k \in 1..Len(c) PROVE \E i \in 0..(s.n - 1) : Holds(s, i, c[k])
  <2> DEFINE h == c[k]
             lo == HeapLo(d, h)
  <2>1. lo \in Nat /\ s.t <= lo /\ lo < 2^d /\ h \in Nodes(d) /\ h = CoverBlock(d, lo)
    <3>1. h \in Nodes(d) /\ target <= lo /\ lo < 2^d /\ h = CoverBlock(d, lo)
      BY <1>4 DEF Tiles
    <3>2. lo \in Nat
      BY <1>2, <3>1, NodeBlock
    <3> QED
      BY <1>2, <3>1, <3>2, s.t <= target
  <2>2. PICK i \in 0..(s.n - 1) : InRange(d, s.slot[i].heap, lo)
    BY <1>3, <2>1
  <2>3. s.slot[i].heap \in Nodes(d) /\ s.slot[i].heap = CoverBlock(d, HeapLo(d, s.slot[i].heap))
    BY <1>1, <1>3
  <2> DEFINE g == s.slot[i].heap
  <2> HIDE DEF g, lo, h
  <2>4. LET x == CoverBlock(d, lo)
        IN  HeapLo(d, x) + HeapSize(d, x) <= HeapLo(d, g) + HeapSize(d, g)
    BY <1>2, <2>1, <2>2, <2>3, CoverNests DEF g
  <2>5. HeapLo(d, g) <= lo
    BY <2>2 DEF InRange, g
  <2>6. Within(d, g, h)
    BY <2>1, <2>4, <2>5 DEF Within, lo
  <2> QED
    BY <1>1, <2>1, <2>3, <2>6, HoldsIs DEF d, g, h
<1> QED
  BY <1>2, <1>5 DEF AllHeld, d

LEMMA InvIsNeverStuck == IInv => AdvanceNeverStuck
<1> SUFFICES ASSUME IInv, NEW target \in (st.t + 1)..(2^(st.depth) - 1)
             PROVE  AllHeld(st, target)
  BY DEF AdvanceNeverStuck
<1>1. Scheduled(st) /\ st.slot \in [SlotIds -> Slots]
  <2>1. st # Cleared
    <3>1. SUFFICES ASSUME st = Cleared PROVE FALSE
      OBVIOUS
    <3>2. target \in 1..0
      BY <3>1, ClearedIs, PowerZero
    <3> QED
      BY <3>2
  <2> QED
    BY <2>1 DEF IInv, StateOK, States
<1>2. st.depth \in Nat /\ st.t \in Nat /\ 2^st.depth \in Nat
  <2>1. st.depth \in 1..MaxDepth /\ st.t \in Epochs(st.depth)
    BY <1>1 DEF Scheduled
  <2> QED
    BY <2>1, EpochIs, PowerPositive, MaxDepthAssumption
<1>3. target \in Epochs(st.depth) /\ st.t <= target
  BY <1>2, EpochIs
<1> QED
  BY <1>1, <1>3, TargetHeld

\* Every legal target can be reached from every state: the branch of advance
\* that its comment calls unreachable is.
THEOREM NeverStuck == Spec => []AdvanceNeverStuck
BY InitInv, StepInv, InvIsNeverStuck, PTL DEF Spec

\* derive_sk walks from the slot whose block the epoch lies in.
LEMMA DeriveSkIs ==
  ASSUME NEW s, s.slot \in [SlotIds -> Slots], Scheduled(s), NEW e \in Epochs(s.depth),
         Covered(s, e)
  PROVE  \E i \in 0..(s.n - 1) :
           /\ InRange(s.depth, s.slot[i].heap, e)
           /\ DeriveSk(s, e) = SeedBelow(s.slot[i].seed, 2^s.depth + e)
<1> DEFINE d == s.depth
           S == {x \in 0..(s.n - 1) : InBlock(e, d, s.slot[x].heap)}
           i == First(S)
           src == s.slot[i]
           r == DeriveSk(s, e)
<1>1. /\ d \in 1..MaxDepth /\ s.n \in 1..d
      /\ \A x \in 0..(s.n - 1) :
           s.slot[x] \in Slots /\ SeedMatches(s.slot[x]) /\ s.slot[x].heap \in Nodes(d)
  BY LiveSlots
<1>2. d \in Nat /\ s.n \in Nat /\ e \in Nat /\ e < 2^d
  BY <1>1, EpochIs, MaxDepthAssumption
<1>3. i \in S
  <2>1. S \subseteq Nat /\ S # {}
    BY DEF Covered
  <2> HIDE DEF S
  <2>2. \E x \in S : \A y \in S : x <= y
    BY <2>1, LeastExists
  <2> QED
    BY <2>2 DEF First
<1>4. i \in 0..(s.n - 1) /\ InBlock(e, d, src.heap)
  BY <1>3
<1>5. r = DeriveNode(d, src.seed, src.heap, e, d)
  BY DEF DeriveSk
<1> HIDE DEF S, i, r, d
<1>6. src \in Slots /\ SeedMatches(src) /\ src.heap \in Nodes(d)
  BY <1>1, <1>4
<1>7. InRange(d, src.heap, e)
  <2>1. Block[d][src.heap] = [lo |-> HeapLo(d, src.heap),
                              end |-> HeapLo(d, src.heap) + HeapSize(d, src.heap)]
    BY <1>1, <1>6, BlockTable
  <2> QED
    BY <1>4, <2>1 DEF InBlock, InRange
<1> HIDE DEF src
<1>8. /\ r \in Seeds /\ r.key = src.seed.key
      /\ r.node = IF src.seed.node = 0 THEN 0 ELSE Ancestor(d, e, d)
  <2>1. src.seed \in Seeds /\ src.seed.node \in {0, src.heap}
    BY <1>6 DEF Slots, SeedMatches
  <2>2. HeapLo(d, src.heap) <= e /\ e < HeapLo(d, src.heap) + HeapSize(d, src.heap)
    BY <1>7 DEF InRange
  <2>3. d \in HeapDepth(src.heap)..d
    BY <1>2, <1>6, NodeBlock
  <2> QED
    BY <1>2, <1>5, <1>6, <2>1, <2>2, <2>3, DeriveIs
<1>9. r = SeedBelow(src.seed, 2^d + e)
  BY <1>2, <1>8, LeafAncestor DEF SeedBelow, Seeds
<1> QED
  BY <1>4, <1>7, <1>9 DEF src, r, d

\* The path of an epoch is made of hashes of the array.
LEMMA PathIs ==
  ASSUME NEW d \in Nat, NEW nodes, PublicArray(nodes, d), NEW e \in Nat, e < 2^d
  PROVE  \A k \in 1..d : ProperHash(EpochPath(d, nodes, e)[k])
<1> TAKE k \in 1..d
<1> DEFINE x == LevelOffset(d, k - 1) + FlipLast(e \div 2^(k - 1)) + 1
<1>1. x \in 1..(2 * 2^d - 1)
  BY SiblingPlace
<1>2. EpochPath(d, nodes, e)[k] = nodes[x]
  BY DEF EpochPath
<1> QED
  BY <1>1, <1>2 DEF PublicArray

LEMMA InvIsSignsOnlyWhatItHolds == IInv => SignsOnlyWhatItHolds
<1> SUFFICES ASSUME IInv, NEW c \in Cfgs, NEW m \in DOMAIN enrolled,
                    NEW e \in Epochs(CfgDepth[c]), SignOk(c, m, e)
             PROVE  c = st.fp /\ e >= st.t /\ <<m, e>> \in MemorySecrets
  BY DEF SignsOnlyWhatItHolds
<1> DEFINE d == st.depth
           sk == DeriveSk(st, e)
           path == EpochPath(d, st.nodes, e)
<1>1. /\ Scheduled(st) /\ st.slot \in [SlotIds -> Slots] /\ st.fp = c /\ d = CfgDepth[c]
      /\ PublicArray(st.nodes, d)
  <2>1. st.fp = c /\ st # Cleared
    BY ClearedIs, NamesAssumption DEF SignOk
  <2> QED
    BY <2>1 DEF IInv, StateOK, States, Scheduled
<1>2. /\ d \in 1..MaxDepth /\ d \in Nat /\ e \in Epochs(d) /\ e \in Nat /\ e < 2^d
      /\ st.n \in 1..d /\ Covered(st, e) /\ Climb(d, sk, e, path) = enrolled[m]
  BY <1>1, LiveSlots, EpochIs, MaxDepthAssumption DEF SignOk
<1>3. e >= st.t
  BY <1>2 DEF Covered
<1>4. PICK i \in 0..(st.n - 1) :
        InRange(d, st.slot[i].heap, e) /\ sk = SeedBelow(st.slot[i].seed, 2^d + e)
  BY <1>1, <1>2, DeriveSkIs
<1> DEFINE seed == st.slot[i].seed
           g == st.slot[i].heap
<1>5. /\ i \in SlotIds /\ seed \in Seeds /\ seed.node \in {0, g} /\ g \in Nodes(d)
      /\ seed.key = NoKey => seed.node = 0
  BY <1>1, LiveSlots DEF Slots, SeedMatches
<1>6. enrolled[m] \in {NotEnrolled, TreeHash(m, 1)} /\ m # NoKey
  BY NamesAssumption DEF IInv, EnrolledOK
<1> HIDE DEF d, path
<1>7. \A k \in 1..d : ProperHash(path[k])
  BY <1>1, <1>2, PathIs DEF path
<1> HIDE DEF sk, seed, g
<1>8. sk \in Seeds /\ sk.node \in {0, 2^d + e} /\ sk.key = seed.key /\ (seed.node = 0 => sk.node = 0)
  <2>1. 2^d + e \in Nat
    BY <1>2, PowerPositive
  <2> QED
    BY <1>4, <1>5, <2>1 DEF SeedBelow, Seeds, seed
<1>9. /\ Climb(d, sk, e, path) \in {NoHash, TreeHash(seed.key, 1)}
      /\ seed.node = 0 => Climb(d, sk, e, path) = NoHash
  BY <1>2, <1>7, <1>8, ClimbKeepsKey
<1>10. seed.node = g /\ seed.key = m
  BY <1>2, <1>5, <1>6, <1>9 DEF NoHash, NotEnrolled, TreeHash
<1>11. seed # ZeroSeed
  BY <1>6, <1>10 DEF ZeroSeed
<1>12. e \in Below[d][seed.node]
  <2>1. \E j \in 0..d : (2^d + e) \div 2^j = g
    BY <1>2, <1>4, <1>5, BlockLeaf DEF g
  <2>2. g \in 0..(2^(d + 1) - 1)
    BY <1>5 DEF Nodes
  <2> QED
    BY <1>2, <1>10, <2>1, <2>2 DEF Below
<1>13. <<m, e>> \in MemorySecrets
  BY <1>5, <1>10, <1>11, <1>12 DEF MemorySecrets, seed, d
<1> QED
  BY <1>1, <1>3, <1>13

\* Damaged or not, a state signs with the keys it holds, for its own
\* configuration, and nothing before its epoch.
THEOREM OnlyHeldKeysSign == Spec => []SignsOnlyWhatItHolds
BY InitInv, StepInv, InvIsSignsOnlyWhatItHolds, PTL DEF Spec

-----------------------------------------------------------------------------
(* Undamaged copies.  Every seed of one belongs to the same identity, and  *)
(* so does its public tree, whose root is the one the ring has.            *)

GenuineState(s, m, root) ==
  /\ \A i \in 0..(s.n - 1) : s.slot[i].seed = NodeSeed(m, s.slot[i].heap)
  /\ s.nodes # <<>> => s.nodes = PublicNodes(s.depth, m) /\ root = TreeHash(m, 1)

GenuineFile(b, m, root) ==
  /\ \A k \in 1..Len(b.cover) : b.cover[k].seed = NodeSeed(m, b.cover[k].heap)
  /\ b.nodes = PublicNodes(CfgDepth[b.fp], m) /\ root = TreeHash(m, 1)

SoundState ==
  "st" \in sound /\ st # Cleared => \E m \in DOMAIN enrolled : GenuineState(st, m, enrolled[m])

SoundFiles ==
  \A f \in Files : f \in sound /\ file[f] # NoFile =>
    /\ file[f] = written[f]
    /\ \E m \in DOMAIN enrolled : GenuineFile(file[f], m, enrolled[m])

SoundInv == IInv /\ SoundState /\ SoundFiles

\* An identity keeps its root: it is enrolled once.
LEMMA RingGrows ==
  ASSUME [Next]_vars
  PROVE  \A m \in DOMAIN enrolled : m \in DOMAIN enrolled' /\ enrolled'[m] = enrolled[m]
<1>1. ASSUME NEW c \in Cfgs, NEW m \in Masters, Keygen(c, m) \/ InitSchedule(CfgDepth[c], m)
      PROVE  \A x \in DOMAIN enrolled : x \in DOMAIN enrolled' /\ enrolled'[x] = enrolled[x]
  <2>1. m \notin DOMAIN enrolled
    BY <1>1 DEF Keygen, InitSchedule
  <2>2. \E root : enrolled' = [x \in DOMAIN enrolled \cup {m} |->
                                 IF x = m THEN root ELSE enrolled[x]]
    BY <1>1 DEF Keygen, InitSchedule
  <2> QED
    BY <2>1, <2>2
<1>2. CASE UNCHANGED enrolled
  BY <1>2
<1> QED
  BY <1>1, <1>2
  DEF Next, vars, Advance, Clear, Serialize, Load, CopyFile, Damage

LEMMA SoundStateKept ==
  ASSUME SoundState, [Next]_vars, UNCHANGED st, "st" \in sound' => "st" \in sound
  PROVE  SoundState'
BY RingGrows DEF SoundState

LEMMA SoundFilesKept ==
  ASSUME SoundFiles, [Next]_vars, UNCHANGED <<file, written>>,
         \A f \in Files : f \in sound' => f \in sound
  PROVE  SoundFiles'
BY RingGrows DEF SoundFiles

LEMMA KeygenSound ==
  ASSUME SoundInv, NEW c \in Cfgs, NEW m \in Masters,
         Keygen(c, m) \/ InitSchedule(CfgDepth[c], m)
  PROVE  SoundState' /\ SoundFiles'
<1> DEFINE d == CfgDepth[c]
           first == [heap |-> 1, seed |-> MasterSeed(m)]
<1>1. [Next]_vars
  BY DEF Next
<1>2. PICK nodes, fp :
        /\ st' = Schedule(d, 0, FreshCover(m), nodes, fp)
        /\ nodes # <<>> => nodes = PublicNodes(d, m) /\ enrolled'[m] = Root(nodes)
        /\ m \in DOMAIN enrolled' /\ sound' = sound \cup {"st"} /\ UNCHANGED <<file, written>>
  <2>1. CASE Keygen(c, m)
    BY <2>1 DEF Keygen
  <2>2. CASE InitSchedule(d, m)
    BY <2>2 DEF InitSchedule, StateInit
  <2> QED
    BY <2>1, <2>2
<1>3. d \in Nat
  BY DepthOf, MaxDepthAssumption
<1> HIDE DEF d
<1>4. st'.n = 1 /\ st'.slot[0] = first /\ st'.nodes = nodes /\ st'.depth = d
  <2>1. Len(<<first>>) = 1 /\ <<first>>[1] = first /\ 0 \in SlotIds
    BY MaxDepthAssumption DEF SlotIds
  <2>2. Install(<<first>>)[0] = first
    BY <2>1 DEF Install
  <2> HIDE DEF first
  <2> QED
    BY <1>2, <2>1, <2>2 DEF Schedule, FreshCover, first
<1>5. GenuineState(st', m, enrolled'[m])
  <2>1. ASSUME NEW i \in 0..(st'.n - 1) PROVE st'.slot[i].seed = NodeSeed(m, st'.slot[i].heap)
    <3>1. i = 0
      BY <1>4
    <3> QED
      BY <1>4, <3>1 DEF NodeSeed, MasterSeed
  <2>2. Root(PublicNodes(d, m)) = TreeHash(m, 1)
    BY <1>3, PublicNodesAre
  <2> QED
    BY <1>2, <1>4, <2>1, <2>2 DEF GenuineState
<1>6. SoundState'
  BY <1>2, <1>5 DEF SoundState
<1>7. SoundFiles'
  BY <1>1, <1>2, SoundFilesKept, NamesAssumption DEF SoundInv
<1> QED
  BY <1>6, <1>7

\* An advance stays with the identity.
LEMMA GenuineAdvance ==
  ASSUME NEW s, s.slot \in [SlotIds -> Slots], Scheduled(s), NEW target \in Epochs(s.depth),
         AllHeld(s, target), NEW m \in Masters, NEW root, GenuineState(s, m, root)
  PROVE  LET r == AdvanceTo(s, target)
         IN  /\ r.depth = s.depth /\ r.t = target /\ r.slot \in [SlotIds -> Slots]
             /\ Scheduled(r) /\ GenuineState(r, m, root)
<1> DEFINE d == s.depth
           c == ComputeCover(d, target)
           new == NewCover(s, target)
           r == AdvanceTo(s, target)
<1>1. /\ d \in 1..MaxDepth /\ s.n \in 1..d
      /\ \A i \in 0..(s.n - 1) : s.slot[i].heap \in Nodes(d)
  BY LiveSlots
<1>2. Covers(new, d, target)
  BY NewCoverIs
<1>3. /\ s.fp \in Cfgs => d = CfgDepth[s.fp] /\ PublicArray(s.nodes, d)
      /\ s.nodes # <<>> => s.fp \in Cfgs
  BY DEF Scheduled
<1>4. r = Schedule(d, target, new, s.nodes, s.fp)
  BY DEF AdvanceTo
<1>5. ASSUME NEW k \in 1..Len(new) PROVE new[k].seed = NodeSeed(m, new[k].heap)
  <2>1. k \in 1..Len(c)
    BY <1>2 DEF Covers
  <2>2. PICK i \in 0..(s.n - 1) : new[k] = [heap |-> c[k], seed |-> SeedBelow(s.slot[i].seed, c[k])]
    BY <2>1, NewCoverSlot
  <2>3. s.slot[i].seed = NodeSeed(m, s.slot[i].heap) /\ s.slot[i].heap # 0
    BY <1>1 DEF GenuineState, Nodes
  <2> HIDE DEF new, c
  <2> QED
    BY <2>2, <2>3 DEF SeedBelow, NodeSeed
<1> HIDE DEF new, r, d
<1>6. /\ r.depth = d /\ r.t = target /\ r.n = Len(new) /\ r.slot = Install(new)
      /\ r.nodes = s.nodes /\ r.slot \in [SlotIds -> Slots] /\ Scheduled(r)
  BY <1>1, <1>2, <1>3, <1>4, ScheduleIs DEF d
<1>7. Len(new) \in 1..d
  BY <1>1, <1>2, CoverSlots DEF d
<1>8. ASSUME NEW i \in 0..(r.n - 1) PROVE r.slot[i].seed = NodeSeed(m, r.slot[i].heap)
  <2>1. i \in SlotIds /\ i < Len(new) /\ i + 1 \in 1..Len(new)
    BY <1>1, <1>6, <1>7, MaxDepthAssumption DEF SlotIds
  <2> QED
    BY <1>5, <1>6, <2>1 DEF Install
<1>9. GenuineState(r, m, root)
  BY <1>6, <1>8 DEF GenuineState, d
<1> QED
  BY <1>6, <1>9 DEF r, d

LEMMA AdvanceSound ==
  ASSUME SoundInv, NEW target \in 1..(2^MaxDepth - 1), Advance(target)
  PROVE  SoundState' /\ SoundFiles'
<1>1. [Next]_vars
  BY DEF Next
<1>2. /\ Scheduled(st) /\ st.slot \in [SlotIds -> Slots] /\ target \in Epochs(st.depth)
      /\ AllHeld(st, target) /\ st' = AdvanceTo(st, target)
  BY AdvanceFrom DEF SoundInv
<1>3. UNCHANGED <<file, written, enrolled, sound>>
  BY DEF Advance
<1>4. ASSUME "st" \in sound PROVE \E m \in DOMAIN enrolled : GenuineState(st', m, enrolled[m])
  <2>1. st # Cleared
    <3>1. st.depth \in 1..MaxDepth
      BY <1>2 DEF Scheduled
    <3> QED
      BY <3>1, ClearedIs
  <2>2. PICK m \in DOMAIN enrolled : GenuineState(st, m, enrolled[m])
    BY <1>4, <2>1 DEF SoundInv, SoundState
  <2>3. m \in Masters
    BY DEF SoundInv, IInv, EnrolledOK
  <2> QED
    BY <1>2, <2>2, <2>3, GenuineAdvance
<1>5. SoundState'
  BY <1>3, <1>4 DEF SoundState
<1> QED
  BY <1>1, <1>3, <1>5, SoundFilesKept DEF SoundInv

LEMMA SerializeSound ==
  ASSUME SoundInv, NEW f \in Files, Serialize(f)
  PROVE  SoundState' /\ SoundFiles'
<1> DEFINE b == Serialized(st)
<1>1. [Next]_vars
  BY DEF Next
<1>2. /\ file' = [file EXCEPT ![f] = b] /\ written' = [written EXCEPT ![f] = b]
      /\ sound' = Inherit(f, "st") /\ UNCHANGED <<st, enrolled>> /\ st.nodes # <<>>
  BY DEF Serialize
<1>3. ASSUME "st" \in sound PROVE \E m \in DOMAIN enrolled : GenuineFile(b, m, enrolled[m])
  <2>1. st # Cleared
    BY <1>2, ClearedIs
  <2>2. PICK m \in DOMAIN enrolled : GenuineState(st, m, enrolled[m])
    BY <1>3, <2>1 DEF SoundInv, SoundState
  <2>3. Scheduled(st) /\ st.fp \in Cfgs /\ st.depth = CfgDepth[st.fp] /\ st.n \in Nat
    <3>1. Scheduled(st) /\ st \in States
      BY <2>1 DEF SoundInv, IInv, StateOK
    <3> QED
      BY <1>2, <3>1 DEF Scheduled, States
  <2>4. /\ b.fp = st.fp /\ b.nodes = st.nodes /\ Len(b.cover) = st.n
        /\ \A k \in 1..st.n : b.cover[k] = st.slot[k - 1]
    <3>1. Len([k \in 1..st.n |-> st.slot[k - 1]]) = st.n
      BY <2>3
    <3> QED
      BY <3>1 DEF Serialized
  <2> HIDE DEF b
  <2>5. \A k \in 1..st.n : st.slot[k - 1].seed = NodeSeed(m, st.slot[k - 1].heap)
    <3>1. \A k \in 1..st.n : k - 1 \in 0..(st.n - 1)
      BY <2>3
    <3> QED
      BY <2>2, <3>1 DEF GenuineState
  <2> QED
    BY <1>2, <2>2, <2>3, <2>4, <2>5, SMTT(40) DEF GenuineFile, GenuineState
<1> HIDE DEF b
<1>4. SoundState'
  <2>1. "st" \in sound' => "st" \in sound
    BY <1>2, NamesAssumption DEF Inherit
  <2> QED
    BY <1>1, <1>2, <2>1, SoundStateKept DEF SoundInv
<1>5. SoundFiles'
  <2> SUFFICES ASSUME NEW g \in Files, g \in sound', file'[g] # NoFile
               PROVE  /\ file'[g] = written'[g]
                      /\ \E m \in DOMAIN enrolled : GenuineFile(file'[g], m, enrolled[m])
    BY <1>2 DEF SoundFiles
  <2>1. CASE g = f
    <3>1. file'[g] = b /\ written'[g] = b
      BY <1>2, <2>1 DEF SoundInv, IInv, FilesOK
    <3>2. "st" \in sound
      BY <1>2, <2>1 DEF Inherit
    <3> QED
      BY <1>3, <3>1, <3>2
  <2>2. CASE g # f
    <3>1. file'[g] = file[g] /\ written'[g] = written[g] /\ g \in sound
      BY <1>2, <2>2 DEF SoundInv, IInv, FilesOK, Inherit
    <3> QED
      BY <3>1 DEF SoundInv, SoundFiles
  <2> QED
    BY <2>1, <2>2
<1> QED
  BY <1>4, <1>5

LEMMA LoadSound ==
  ASSUME SoundInv, NEW f \in Files, NEW c \in Cfgs, Load(f, c)
  PROVE  SoundState' /\ SoundFiles'
<1> DEFINE b == file[f]
           d == CfgDepth[c]
<1>1. [Next]_vars
  BY DEF Next
<1>2. b # NoFile /\ sound' = Inherit("st", f) /\ UNCHANGED <<file, written, enrolled>>
  BY DEF Load
<1>3. SoundState'
  <2> SUFFICES ASSUME "st" \in sound', st' # Cleared
               PROVE  \E m \in DOMAIN enrolled : GenuineState(st', m, enrolled[m])
    BY <1>2 DEF SoundState
  <2>1. f \in sound
    BY <1>2, NamesAssumption DEF Inherit
  <2>2. PICK m \in DOMAIN enrolled : GenuineFile(b, m, enrolled[m])
    BY <1>2, <2>1 DEF SoundInv, SoundFiles
  <2>3. Loadable(c, b) /\ st' = Loaded(c, b)
    BY DEF Load
  <2>4. Accepted(b, written[f], c)
    BY <1>2, <2>3, LoadAccepts DEF SoundInv
  <2> HIDE DEF b
  <2>5. /\ st'.depth = d /\ st'.n = Len(b.cover) /\ st'.slot = Install(b.cover)
        /\ st'.nodes = b.nodes /\ b.fp = c
    BY <2>3 DEF Loaded, Schedule, Loadable
  <2>6. Len(b.cover) \in 1..d /\ d \in 1..MaxDepth
    <3>1. d \in 1..MaxDepth /\ written[f].t \in Epochs(d) /\ Covers(b.cover, d, written[f].t)
      <4>1. Saved(written[f])
        BY <1>2, <2>3, LoadAccepts DEF SoundInv, b
      <4> QED
        BY <2>4, <4>1, DepthOf DEF Accepted, Saved
    <3> HIDE DEF d
    <3> QED
      BY <3>1, CoverSlots
  <2>7. ASSUME NEW i \in 0..(st'.n - 1) PROVE st'.slot[i].seed = NodeSeed(m, st'.slot[i].heap)
    <3>1. i \in SlotIds /\ i < Len(b.cover) /\ i + 1 \in 1..Len(b.cover)
      BY <2>5, <2>6, MaxDepthAssumption DEF SlotIds
    <3>2. st'.slot[i] = b.cover[i + 1]
      BY <2>5, <3>1 DEF Install
    <3> QED
      BY <2>2, <3>1, <3>2 DEF GenuineFile
  <2> QED
    BY <2>2, <2>5, <2>7 DEF GenuineState, GenuineFile
<1>4. \A g \in Files : g \in sound' => g \in sound
  BY <1>2, NamesAssumption DEF Inherit
<1> QED
  BY <1>1, <1>2, <1>3, <1>4, SoundFilesKept DEF SoundInv

LEMMA FilesSound ==
  ASSUME SoundInv, NEW f \in Files, Damage(f) \/ \E g \in Files : CopyFile(f, g)
  PROVE  SoundState' /\ SoundFiles'
<1>1. [Next]_vars
  BY DEF Next
<1>2. UNCHANGED <<st, enrolled>> /\ ("st" \in sound' => "st" \in sound)
  BY NamesAssumption DEF Damage, CopyFile, Inherit
<1>3. ASSUME Damage(f) PROVE SoundFiles'
  <2>1. ASSUME NEW x \in Files, x \in sound'
        PROVE  x \in sound /\ file'[x] = file[x] /\ written'[x] = written[x]
    BY <1>3, <2>1 DEF Damage, SoundInv, IInv, FilesOK
  <2> QED
    BY <1>2, <2>1 DEF SoundInv, SoundFiles
<1>4. ASSUME NEW g \in Files, CopyFile(f, g) PROVE SoundFiles'
  <2>1. ASSUME NEW x \in Files, x \in sound'
        PROVE  \E y \in Files : y \in sound /\ file'[x] = file[y] /\ written'[x] = written[y]
    BY <1>4, <2>1 DEF CopyFile, Inherit, SoundInv, IInv, FilesOK
  <2> QED
    BY <1>2, <2>1 DEF SoundInv, SoundFiles
<1> QED
  BY <1>1, <1>2, <1>3, <1>4, SoundStateKept DEF SoundInv

LEMMA StepSound ==
  ASSUME SoundInv, [Next]_vars
  PROVE  SoundInv'
<1>1. IInv'
  BY StepInv DEF SoundInv
<1>2. ASSUME NEW c \in Cfgs, NEW m \in Masters, Keygen(c, m) \/ InitSchedule(CfgDepth[c], m)
      PROVE  SoundState' /\ SoundFiles'
  BY <1>2, KeygenSound
<1>3. ASSUME Clear PROVE SoundState' /\ SoundFiles'
  <2>1. UNCHANGED <<file, written, enrolled, sound>> /\ st' = Cleared
    BY <1>3 DEF Clear
  <2>2. SoundState'
    BY <2>1 DEF SoundState
  <2>3. SoundFiles'
    BY <2>1 DEF SoundInv, SoundFiles
  <2> QED
    BY <2>2, <2>3
<1>4. ASSUME UNCHANGED vars PROVE SoundState' /\ SoundFiles'
  <2>1. UNCHANGED <<st, file, written, enrolled, sound>>
    BY <1>4 DEF vars
  <2> QED
    BY <2>1 DEF SoundInv, SoundState, SoundFiles
<1>5. ASSUME NEW target \in 1..(2^MaxDepth - 1), Advance(target)
      PROVE  SoundState' /\ SoundFiles'
  BY <1>5, AdvanceSound
<1>6. ASSUME NEW f \in Files, Serialize(f) PROVE SoundState' /\ SoundFiles'
  BY <1>6, SerializeSound
<1>7. ASSUME NEW f \in Files, NEW c \in Cfgs, Load(f, c) PROVE SoundState' /\ SoundFiles'
  BY <1>7, LoadSound
<1>8. ASSUME NEW f \in Files, Damage(f) \/ \E g \in Files : CopyFile(f, g)
      PROVE  SoundState' /\ SoundFiles'
  BY <1>8, FilesSound
<1>9. SoundState' /\ SoundFiles'
  BY <1>2, <1>3, <1>4, <1>5, <1>6, <1>7, <1>8 DEF Next
<1> QED
  BY <1>1, <1>9 DEF SoundInv

LEMMA InitSound == Init => SoundInv
BY InitInv DEF Init, SoundInv, SoundState, SoundFiles

LEMMA CoveredIs ==
  ASSUME NEW s, s.slot \in [SlotIds -> Slots], Scheduled(s), NEW e \in Epochs(s.depth),
         s.t <= e
  PROVE  Covered(s, e)
<1> DEFINE d == s.depth
<1>1. /\ d \in 1..MaxDepth /\ d \in Nat
      /\ \A i \in 0..(s.n - 1) : s.slot[i].heap \in Nodes(d)
  BY LiveSlots, MaxDepthAssumption
<1>2. e \in Nat /\ e < 2^d
  BY <1>1, EpochIs
<1>3. PICK i \in 0..(s.n - 1) : InRange(d, s.slot[i].heap, e)
  BY <1>2, SlotBlocks
<1> DEFINE g == s.slot[i].heap
<1>4. Block[d][g] = [lo |-> HeapLo(d, g), end |-> HeapLo(d, g) + HeapSize(d, g)]
  BY <1>1, BlockTable
<1>5. InBlock(e, d, g)
  BY <1>3, <1>4 DEF InBlock, InRange
<1> QED
  BY <1>2, <1>5 DEF Covered

LEMMA InvIsSignable == SoundInv => LiveEpochsSignable
<1> SUFFICES ASSUME SoundInv, "st" \in sound, st.nodes # <<>>,
                    NEW e \in st.t..(2^st.depth - 1)
             PROVE  \E m \in DOMAIN enrolled : SignOk(st.fp, m, e)
  BY DEF LiveEpochsSignable
<1> DEFINE d == st.depth
           nodes == st.nodes
<1>1. st # Cleared
  BY ClearedIs
<1>2. PICK m \in DOMAIN enrolled : GenuineState(st, m, enrolled[m])
  BY <1>1 DEF SoundInv, SoundState
<1>3. /\ Scheduled(st) /\ st.slot \in [SlotIds -> Slots]
      /\ d = CfgDepth[st.fp] /\ m \in Masters
  BY <1>1 DEF SoundInv, IInv, StateOK, States, Scheduled, EnrolledOK
<1>4. /\ d \in 1..MaxDepth /\ d \in Nat /\ e \in Nat /\ e < 2^d /\ e \in Epochs(d) /\ st.t <= e
      /\ \A i \in 0..(st.n - 1) : st.slot[i].heap \in Nodes(d)
  <2>1. d \in 1..MaxDepth /\ st.t \in Epochs(d)
    BY <1>3, LiveSlots
  <2>2. d \in Nat /\ st.t \in Nat /\ 2^d \in Nat
    BY <2>1, EpochIs, PowerPositive, MaxDepthAssumption
  <2> QED
    BY <1>3, <2>1, <2>2, LiveSlots, EpochIs, SMTT(40)
<1>5. Covered(st, e)
  BY <1>3, <1>4, CoveredIs
<1>6. PICK i \in 0..(st.n - 1) : DeriveSk(st, e) = SeedBelow(st.slot[i].seed, 2^d + e)
  BY <1>3, <1>4, <1>5, DeriveSkIs
<1>7. DeriveSk(st, e) = NodeSeed(m, 2^d + e)
  <2>1. st.slot[i].seed = NodeSeed(m, st.slot[i].heap) /\ st.slot[i].heap # 0
    BY <1>2, <1>4 DEF GenuineState, Nodes
  <2> QED
    BY <1>6, <2>1 DEF SeedBelow, NodeSeed
<1>8. nodes = PublicNodes(d, m) /\ enrolled[m] = TreeHash(m, 1)
  BY <1>2 DEF GenuineState
<1> HIDE DEF d, nodes
<1>9. LevelsHold(d, m, d, nodes)
  BY <1>3, <1>4, <1>8, PublicNodesAre
<1> DEFINE path == EpochPath(d, nodes, e)
<1>10. ASSUME NEW k \in 1..d
       PROVE  path[k] = TreeHash(m, FlipLast(Ancestor(d, e, d - (k - 1))))
  <2> DEFINE l == k - 1
             y == FlipLast(e \div 2^l)
  <2>1. /\ y \in Nat /\ y < 2^(d - l)
        /\ 2^(d - l) + y = FlipLast(Ancestor(d, e, d - l))
    BY <1>4, SiblingPlace
  <2>2. l \in 0..d
    BY <1>4
  <2>3. path[k] = nodes[LevelOffset(d, l) + y + 1]
    BY DEF EpochPath
  <2> HIDE DEF y, l, path
  <2>4. nodes[LevelOffset(d, l) + y + 1] = TreeHash(m, 2^(d - l) + y)
    BY <1>9, <2>1, <2>2 DEF LevelsHold
  <2>5. path[k] = TreeHash(m, FlipLast(Ancestor(d, e, d - l)))
    BY <2>1, <2>3, <2>4
  <2> QED
    BY <2>5 DEF l
<1> HIDE DEF path
<1>11. Climb(d, NodeSeed(m, 2^d + e), e, path) = TreeHash(m, 1)
  BY <1>3, <1>4, <1>10, ClimbReachesRoot
<1>12. SignOk(st.fp, m, e)
  BY <1>3, <1>5, <1>7, <1>8, <1>11 DEF SignOk, path, d, nodes
<1> QED
  BY <1>12

\* Whatever a state went through, if no damage reached it, it signs every
\* epoch it has not retired.
THEOREM LiveEpochsCanSign == Spec => []LiveEpochsSignable
BY InitSound, StepSound, InvIsSignable, PTL DEF Spec

\* The slots are a function of the identity and the epoch.
LEMMA GenuineSlots ==
  ASSUME NEW s, s.slot \in [SlotIds -> Slots], Scheduled(s), NEW m, NEW root,
         GenuineState(s, m, root)
  PROVE  LET c == ComputeCover(s.depth, s.t)
         IN  /\ s.n = Len(c)
             /\ s.slot = [i \in SlotIds |->
                            IF i < Len(c) THEN [heap |-> c[i + 1], seed |-> NodeSeed(m, c[i + 1])]
                                          ELSE ZeroSlot]
<1> DEFINE c == ComputeCover(s.depth, s.t)
<1>1. s.n = Len(c) /\ \A i \in 0..(s.n - 1) : s.slot[i].heap = c[i + 1]
  BY SlotBlocks
<1>2. /\ s.n \in Nat /\ \A i \in 0..(s.n - 1) : s.slot[i] \in Slots
      /\ \A i \in SlotIds : ~(i < s.n) => s.slot[i] = ZeroSlot
  BY LiveSlots
<1> HIDE DEF c
<1>3. ASSUME NEW i \in SlotIds, i < Len(c)
      PROVE  s.slot[i] = [heap |-> c[i + 1], seed |-> NodeSeed(m, c[i + 1])]
  <2>1. i \in 0..(s.n - 1)
    BY <1>1, <1>2, <1>3 DEF SlotIds
  <2>2. s.slot[i].heap = c[i + 1] /\ s.slot[i].seed = NodeSeed(m, c[i + 1]) /\ s.slot[i] \in Slots
    BY <1>1, <1>2, <2>1 DEF GenuineState
  <2> QED
    BY <2>2 DEF Slots
<1>4. s.slot = [i \in SlotIds |-> s.slot[i]]
  OBVIOUS
<1> QED
  BY <1>1, <1>2, <1>3, <1>4 DEF c

LEMMA InvIsHistoryFree == SoundInv => HistoryFree
<1> SUFFICES ASSUME SoundInv, st.depth > 0, "st" \in sound
             PROVE  \E m \in DOMAIN enrolled :
                      LET fresh == StateInit(st.depth, m)
                          direct == IF st.t = 0 THEN fresh ELSE AdvanceTo(fresh, st.t)
                      IN  direct.slot = st.slot /\ direct.n = st.n
  BY DEF HistoryFree
<1>1. st # Cleared
  BY ClearedIs
<1>2. PICK m \in DOMAIN enrolled : GenuineState(st, m, enrolled[m])
  BY <1>1 DEF SoundInv, SoundState
<1>3. Scheduled(st) /\ st.slot \in [SlotIds -> Slots] /\ m \in Masters
  BY <1>1 DEF SoundInv, IInv, StateOK, States, EnrolledOK
<1> DEFINE d == st.depth
           root == enrolled[m]
           fresh == StateInit(d, m)
           direct == IF st.t = 0 THEN fresh ELSE AdvanceTo(fresh, st.t)
<1>4. d \in 1..MaxDepth /\ d \in Nat /\ st.t \in Epochs(d) /\ st.t \in Nat
  <2>1. d \in 1..MaxDepth /\ st.t \in Epochs(d)
    BY <1>3, LiveSlots
  <2> QED
    BY <2>1, EpochIs, MaxDepthAssumption
<1>5. 0 \in Epochs(d) /\ Covers(FreshCover(m), d, 0)
  BY <1>3, <1>4, FreshCoverIs
<1> HIDE DEF d
<1>6. /\ fresh.depth = d /\ fresh.t = 0 /\ fresh.n = Len(FreshCover(m))
      /\ fresh.slot = Install(FreshCover(m)) /\ fresh.nodes = <<>>
      /\ fresh.slot \in [SlotIds -> Slots] /\ Scheduled(fresh)
  BY <1>4, <1>5, ScheduleIs, NamesAssumption DEF StateInit
<1>7. GenuineState(fresh, m, root)
  <2>1. fresh.n = 1 /\ fresh.slot[0] = [heap |-> 1, seed |-> MasterSeed(m)]
    <3> DEFINE first == [heap |-> 1, seed |-> MasterSeed(m)]
    <3>1. Len(<<first>>) = 1 /\ <<first>>[1] = first /\ 0 \in SlotIds
      BY MaxDepthAssumption DEF SlotIds
    <3>2. Install(<<first>>)[0] = first
      BY <3>1 DEF Install
    <3> HIDE DEF first
    <3> QED
      BY <1>6, <3>1, <3>2 DEF FreshCover, first
  <2> HIDE DEF fresh
  <2>2. ASSUME NEW i \in 0..(fresh.n - 1)
        PROVE  fresh.slot[i].seed = NodeSeed(m, fresh.slot[i].heap)
    <3>1. i = 0
      BY <2>1
    <3> QED
      BY <2>1, <3>1 DEF NodeSeed, MasterSeed
  <2> QED
    BY <1>6, <2>2 DEF GenuineState
<1> HIDE DEF fresh, root
<1>8. /\ direct.depth = d /\ direct.t = st.t /\ direct.slot \in [SlotIds -> Slots]
      /\ Scheduled(direct) /\ GenuineState(direct, m, root)
  <2>1. CASE st.t = 0
    BY <1>6, <1>7, <2>1
  <2>2. CASE st.t # 0
    <3>1. st.t \in Epochs(fresh.depth) /\ fresh.t <= st.t
      BY <1>4, <1>6
    <3>2. AllHeld(fresh, st.t)
      BY <1>6, <3>1, TargetHeld
    <3> QED
      BY <1>3, <1>6, <1>7, <2>2, <3>1, <3>2, GenuineAdvance
  <2> QED
    BY <2>1, <2>2
<1> HIDE DEF direct
<1> DEFINE c == ComputeCover(d, st.t)
           slots == [i \in SlotIds |->
                       IF i < Len(c) THEN [heap |-> c[i + 1], seed |-> NodeSeed(m, c[i + 1])]
                                     ELSE ZeroSlot]
<1>9. direct.n = Len(c) /\ direct.slot = slots
  <2> HIDE DEF slots, c
  <2> QED
    BY <1>8, GenuineSlots DEF slots, c
<1>10. st.n = Len(c) /\ st.slot = slots
  <2> HIDE DEF slots, c
  <2> QED
    BY <1>2, <1>3, GenuineSlots DEF slots, c, d
<1> HIDE DEF slots, c
<1>11. direct.slot = st.slot /\ direct.n = st.n
  BY <1>9, <1>10
<1> QED
  BY <1>11 DEF direct, fresh, d

\* The way to an epoch, in one advance or many, through files or not, leaves
\* no trace in the cover.
THEOREM HistoryLeavesNoTrace == Spec => []HistoryFree
BY InitSound, StepSound, InvIsHistoryFree, PTL DEF Spec

-----------------------------------------------------------------------------
(* The refinement of EpochKey.                                             *)

\* The epoch keys that can be computed from the seeds of a cover.
KeysOf(cover, d) ==
  UNION {{s.key} \X Below[d][s.node] : s \in {cover[k].seed : k \in 1..Len(cover)} \ {ZeroSeed}}

\* Slot k of a cover gives identity m's key of epoch e.
Gives(cover, d, k, m, e) ==
  /\ cover[k].seed.key = m /\ cover[k].seed.node # 0
  /\ e \in Epochs(d) /\ InRange(d, cover[k].heap, e)

\* One slot's keys: those of its block, if its seed was not wiped.
LEMMA SlotKeys ==
  ASSUME NEW d \in 1..MaxDepth, NEW slot \in Slots, SeedMatches(slot), slot.heap \in Nodes(d),
         NEW e
  PROVE  /\ e \in Below[d][slot.seed.node] <=>
              slot.seed.node # 0 /\ e \in Epochs(d) /\ InRange(d, slot.heap, e)
         /\ slot.seed = ZeroSeed => slot.seed.node = 0
<1> DEFINE h == slot.heap
           node == slot.seed.node
<1>1. /\ d \in Nat /\ node \in {0, h} /\ h \in Nodes(d) /\ h \in Nat /\ h # 0
      /\ node \in 0..(2^(d + 1) - 1)
  <2>1. d \in Nat /\ 2^(d + 1) \in Nat /\ 2^(d + 1) > 0
    BY MaxDepthAssumption, PowerPositive
  <2> QED
    BY <2>1 DEF SeedMatches, Nodes
<1> HIDE DEF h, node
<1>2. Below[d][node] = {x \in Epochs(d) : \E j \in 0..d : (2^d + x) \div 2^j = node}
  BY <1>1 DEF Below
<1>3. ASSUME e \in Below[d][node]
      PROVE  node # 0 /\ e \in Epochs(d) /\ InRange(d, h, e)
  <2>1. e \in Epochs(d) /\ e \in Nat /\ e < 2^d
    BY <1>1, <1>2, <1>3, EpochIs
  <2>2. PICK j \in 0..d : (2^d + e) \div 2^j = node
    BY <1>2, <1>3
  <2>3. node \in Nodes(d) /\ HeapLo(d, node) <= e /\ e < HeapLo(d, node) + HeapSize(d, node)
    BY <1>1, <2>1, <2>2, LeafInBlock
  <2>4. node = h
    BY <1>1, <2>3 DEF Nodes
  <2> QED
    BY <1>1, <2>1, <2>3, <2>4 DEF InRange
<1>4. ASSUME node # 0, e \in Epochs(d), InRange(d, h, e)
      PROVE  e \in Below[d][node]
  <2>1. e \in Nat /\ node = h
    BY <1>1, <1>4, EpochIs
  <2>2. \E j \in 0..d : (2^d + e) \div 2^j = node
    BY <1>1, <1>4, <2>1, BlockLeaf
  <2> QED
    BY <1>2, <1>4, <2>2
<1> QED
  BY <1>3, <1>4 DEF h, node, ZeroSeed

LEMMA KeysAre ==
  ASSUME NEW d \in 1..MaxDepth, NEW t \in Epochs(d), NEW cover, Covers(cover, d, t), NEW x
  PROVE  x \in KeysOf(cover, d) <=>
           \E k \in 1..Len(cover) : \E m, e : Gives(cover, d, k, m, e) /\ x = <<m, e>>
<1>1. \A k \in 1..Len(cover) :
        cover[k] \in Slots /\ SeedMatches(cover[k]) /\ cover[k].heap \in Nodes(d)
  BY CoverSlots
<1>2. ASSUME x \in KeysOf(cover, d)
      PROVE  \E k \in 1..Len(cover) : \E m, e : Gives(cover, d, k, m, e) /\ x = <<m, e>>
  <2>1. PICK k \in 1..Len(cover) :
          x \in {cover[k].seed.key} \X Below[d][cover[k].seed.node]
    BY <1>2 DEF KeysOf
  <2>2. PICK e : e \in Below[d][cover[k].seed.node] /\ x = <<cover[k].seed.key, e>>
    BY <2>1
  <2>3. cover[k].seed.node # 0 /\ e \in Epochs(d) /\ InRange(d, cover[k].heap, e)
    BY <1>1, <2>2, SlotKeys
  <2> QED
    BY <2>2, <2>3 DEF Gives
<1>3. ASSUME NEW k \in 1..Len(cover), NEW m, NEW e, Gives(cover, d, k, m, e)
      PROVE  <<m, e>> \in KeysOf(cover, d)
  <2>1. e \in Below[d][cover[k].seed.node] /\ cover[k].seed # ZeroSeed
    BY <1>1, <1>3, SlotKeys DEF Gives
  <2>2. <<m, e>> \in {cover[k].seed.key} \X Below[d][cover[k].seed.node]
    BY <1>3, <2>1 DEF Gives
  <2> QED
    BY <2>1, <2>2 DEF KeysOf
<1> QED
  BY <1>2, <1>3

\* The keys that can be computed from the seeds of a state.
SecretsOf(s) ==
  UNION {{s.slot[i].seed.key} \X Below[s.depth][s.slot[i].seed.node] :
           i \in {j \in SlotIds : s.slot[j].seed # ZeroSeed}}

LEMMA MemoryIsSecrets ==
  MemorySecrets = SecretsOf(st) /\ MemorySecrets' = SecretsOf(st')
BY DEF MemorySecrets, SecretsOf

\* A state holds the keys of its cover: the slots past it are zero.
LEMMA SecretsAre ==
  ASSUME NEW x, NEW cover, NEW d \in 1..MaxDepth, NEW t \in Epochs(d), Covers(cover, d, t),
         x.depth = d, x.slot = Install(cover)
  PROVE  SecretsOf(x) = KeysOf(cover, d)
<1> DEFINE Keys(seed) == {seed.key} \X Below[d][seed.node]
           live == {cover[k].seed : k \in 1..Len(cover)} \ {ZeroSeed}
<1>1. Len(cover) \in 1..d
  BY CoverSlots
<1>2. ASSUME NEW i \in SlotIds, x.slot[i].seed # ZeroSeed PROVE x.slot[i].seed \in live
  <2>1. i < Len(cover)
    BY <1>2 DEF Install, ZeroSlot
  <2>2. x.slot[i] = cover[i + 1] /\ i + 1 \in 1..Len(cover)
    BY <1>1, <2>1 DEF Install, SlotIds
  <2> QED
    BY <1>2, <2>2
<1>3. ASSUME NEW k \in 1..Len(cover)
      PROVE  k - 1 \in SlotIds /\ x.slot[k - 1].seed = cover[k].seed
  <2>1. k - 1 \in SlotIds /\ k - 1 < Len(cover) /\ (k - 1) + 1 = k
    BY <1>1, MaxDepthAssumption DEF SlotIds
  <2> QED
    BY <2>1 DEF Install
<1> DEFINE seeds == {x.slot[i].seed : i \in {j \in SlotIds : x.slot[j].seed # ZeroSeed}}
<1>4. ASSUME NEW s \in live PROVE s \in seeds
  <2>1. PICK k \in 1..Len(cover) : s = cover[k].seed /\ s # ZeroSeed
    OBVIOUS
  <2> QED
    BY <1>3, <2>1
<1>5. ASSUME NEW s \in seeds PROVE s \in live
  <2>1. PICK i \in SlotIds : s = x.slot[i].seed /\ s # ZeroSeed
    OBVIOUS
  <2> QED
    BY <1>2, <2>1
<1>6. SecretsOf(x) = UNION {Keys(s) : s \in seeds}
  BY DEF SecretsOf
<1>7. KeysOf(cover, d) = UNION {Keys(s) : s \in live}
  BY DEF KeysOf
<1>8. seeds = live
  <2> HIDE DEF seeds, live
  <2> QED
    BY <1>4, <1>5
<1> QED
  BY <1>6, <1>7, <1>8

LEMMA ClearedHoldsNothing == SecretsOf(Cleared) = {}
<1>1. \A i \in SlotIds : Cleared.slot[i].seed = ZeroSeed
  BY ClearedIs DEF ZeroSlot
<1> QED
  BY <1>1 DEF SecretsOf

\* A fresh schedule holds the keys of all its epochs.
LEMMA FreshKeys ==
  ASSUME NEW d \in 1..MaxDepth, NEW m \in Masters
  PROVE  KeysOf(FreshCover(m), d) = {m} \X (0..(2^d - 1))
<1> DEFINE cover == FreshCover(m)
           first == [heap |-> 1, seed |-> MasterSeed(m)]
<1>1. 0 \in Epochs(d) /\ Covers(cover, d, 0)
  BY FreshCoverIs
<1>2. Len(cover) = 1 /\ cover[1] = first
  BY DEF FreshCover
<1>3. d \in Nat /\ d \in Nat \ {0} /\ 0 < 2^d
  BY MaxDepthAssumption, PowerPositive
<1>4. ASSUME NEW e \in Epochs(d) PROVE InRange(d, 1, e)
  <2>1. e \in Nat /\ e < 2^d
    BY <1>3, <1>4, EpochIs
  <2>2. (2^d + e) \div 2^d = 1
    <3>1. (2^d + e) \div 2^d = Ancestor(d, e, d - d)
      BY <1>3, <2>1, ShiftLeaf
    <3>2. d - d = 0 /\ d - 0 = d /\ 2^0 = 1
      BY <1>3, PowerZero
    <3>3. e \div 2^d = 0
      BY <1>3, <2>1, PowerPositive
    <3> QED
      BY <3>1, <3>2, <3>3 DEF Ancestor
  <2> QED
    BY <1>3, <2>1, <2>2, LeafInBlock DEF InRange
<1> HIDE DEF cover
<1>5. ASSUME NEW x PROVE x \in KeysOf(cover, d) <=> x \in {m} \X Epochs(d)
  <2>1. x \in KeysOf(cover, d) <=>
          \E k \in 1..Len(cover) : \E n, e : Gives(cover, d, k, n, e) /\ x = <<n, e>>
    BY <1>1, KeysAre
  <2>2. \A n, e : Gives(cover, d, 1, n, e) <=> n = m /\ e \in Epochs(d)
    BY <1>2, <1>4 DEF Gives, MasterSeed
  <2>3. \A k : k \in 1..Len(cover) <=> k = 1
    BY <1>2
  <2> QED
    BY <2>1, <2>2, <2>3
<1>6. KeysOf(cover, d) \subseteq {m} \X Epochs(d) /\ {m} \X Epochs(d) \subseteq KeysOf(cover, d)
  BY <1>5
<1> QED
  BY <1>6 DEF cover, Epochs

\* The new cover gives the old one's keys from the target on: every later
\* block lies in exactly one of the blocks at hand.
LEMMA AdvanceKeys ==
  ASSUME NEW s, s.slot \in [SlotIds -> Slots], Scheduled(s),
         NEW cover, Covers(cover, s.depth, s.t), s.n = Len(cover), s.slot = Install(cover),
         NEW target \in Epochs(s.depth), AllHeld(s, target), NEW m, NEW e
  PROVE  <<m, e>> \in KeysOf(NewCover(s, target), s.depth) <=>
           <<m, e>> \in KeysOf(cover, s.depth) /\ e >= target
<1> DEFINE d == s.depth
           new == NewCover(s, target)
           c == ComputeCover(d, target)
<1>1. /\ d \in 1..MaxDepth /\ d \in Nat \ {0} /\ s.t \in Epochs(d) /\ s.n \in 1..d
      /\ \A i \in 0..(s.n - 1) : s.slot[i].heap \in Nodes(d)
  BY LiveSlots, MaxDepthAssumption
<1>2. target \in Nat /\ target < 2^d
  BY <1>1, EpochIs
<1>3. Covers(new, d, target) /\ Len(new) = Len(c)
  BY NewCoverIs DEF Covers
<1>4. ASSUME NEW k \in 1..Len(new)
      PROVE  \E l \in 1..Len(cover) :
               /\ Within(d, cover[l].heap, c[k])
               /\ new[k] = [heap |-> c[k], seed |-> SeedBelow(cover[l].seed, c[k])]
  <2>1. PICK i \in 0..(s.n - 1) :
          /\ Within(d, s.slot[i].heap, c[k])
          /\ new[k] = [heap |-> c[k], seed |-> SeedBelow(s.slot[i].seed, c[k])]
    BY <1>3, NewCoverSlot
  <2>2. i \in SlotIds /\ i < Len(cover) /\ i + 1 \in 1..Len(cover)
    BY <1>1, MaxDepthAssumption DEF SlotIds
  <2>3. s.slot[i] = cover[i + 1]
    BY <2>2 DEF Install
  <2> HIDE DEF new, c
  <2> QED
    BY <2>1, <2>2, <2>3
<1>5. Tiles(d, target, c) /\ \A k \in 1..Len(c) : c[k] \in Nodes(d) /\ target <= HeapLo(d, c[k])
  BY <1>1, <1>2, CoverTiles, CoverIs
<1>6. ASSUME NEW k \in 1..Len(cover), NEW l \in 1..Len(cover), e \in Epochs(d),
             InRange(d, cover[k].heap, e), InRange(d, cover[l].heap, e)
      PROVE  k = l
  <2>1. Tiles(d, s.t, ComputeCover(d, s.t))
    BY <1>1, EpochIs, CoverTiles
  <2>2. /\ Len(cover) = Len(ComputeCover(d, s.t)) /\ Len(cover) \in Nat
        /\ \A i \in 1..Len(cover) : cover[i].heap = ComputeCover(d, s.t)[i]
    BY <1>1 DEF Covers
  <2>3. \A i, j \in 1..Len(cover) :
          i < j => HeapLo(d, cover[i].heap) + HeapSize(d, cover[i].heap) <= HeapLo(d, cover[j].heap)
    BY <2>1, <2>2 DEF Tiles
  <2>4. \A i \in 1..Len(cover) :
          HeapLo(d, cover[i].heap) \in Nat /\ HeapSize(d, cover[i].heap) \in Nat
    BY <1>1, CoverSlots, NodeBlock
  <2>5. e \in Nat
    BY <1>1, <1>6, EpochIs
  <2>6. ~(k < l) /\ ~(l < k)
    BY <1>6, <2>3, <2>4, <2>5 DEF InRange
  <2> QED
    BY <2>2, <2>6
<1> HIDE DEF new
<1>7. ASSUME <<m, e>> \in KeysOf(new, d)
      PROVE  <<m, e>> \in KeysOf(cover, d) /\ e >= target
  <2>1. PICK k \in 1..Len(new) : Gives(new, d, k, m, e)
    BY <1>1, <1>3, <1>7, KeysAre
  <2>2. PICK l \in 1..Len(cover) :
          /\ Within(d, cover[l].heap, c[k])
          /\ new[k] = [heap |-> c[k], seed |-> SeedBelow(cover[l].seed, c[k])]
    BY <1>4
  <2>3. c[k] \in Nodes(d) /\ target <= HeapLo(d, c[k])
    BY <1>3, <1>5
  <2> DEFINE h == c[k]
             g == cover[l].heap
  <2>4. /\ HeapLo(d, h) \in Nat /\ HeapSize(d, h) \in Nat
        /\ HeapLo(d, g) \in Nat /\ HeapSize(d, g) \in Nat
    <3>1. g \in Nodes(d)
      BY <1>1, CoverSlots
    <3> HIDE DEF g, h, d
    <3> QED
      BY <1>1, <2>3, <3>1, NodeBlock DEF h
  <2>5. e \in Epochs(d) /\ e \in Nat /\ InRange(d, h, e) /\ cover[l].seed.key = m
        /\ cover[l].seed.node # 0
    <3>1. e \in Epochs(d) /\ InRange(d, h, e) /\ new[k].seed.key = m /\ new[k].seed.node # 0
      BY <2>1, <2>2 DEF Gives
    <3> HIDE DEF h, c
    <3> QED
      BY <1>1, <2>2, <3>1, EpochIs DEF SeedBelow
  <2> HIDE DEF h, g, c
  <2>6. InRange(d, g, e) /\ e >= target
    BY <1>2, <2>2, <2>3, <2>4, <2>5, SMTT(40) DEF InRange, Within, h, g
  <2>7. Gives(cover, d, l, m, e)
    BY <2>5, <2>6 DEF Gives, g
  <2> QED
    BY <1>1, <2>6, <2>7, KeysAre
<1>8. ASSUME <<m, e>> \in KeysOf(cover, d), e >= target
      PROVE  <<m, e>> \in KeysOf(new, d)
  <2>1. PICK j \in 1..Len(cover) : Gives(cover, d, j, m, e)
    BY <1>1, <1>8, KeysAre
  <2>2. e \in Epochs(d) /\ e \in Nat /\ e < 2^d
    BY <1>1, <2>1, EpochIs DEF Gives
  <2>3. PICK k \in 1..Len(new) : InRange(d, c[k], e)
    BY <1>2, <1>3, <1>5, <1>8, <2>2 DEF Tiles
  <2>4. PICK l \in 1..Len(cover) :
          /\ Within(d, cover[l].heap, c[k])
          /\ new[k] = [heap |-> c[k], seed |-> SeedBelow(cover[l].seed, c[k])]
    BY <1>4
  <2>5. c[k] \in Nodes(d) /\ c[k] # 0
    BY <1>3, <1>5 DEF Nodes
  <2> DEFINE h == c[k]
             g == cover[l].heap
  <2>6. /\ HeapLo(d, h) \in Nat /\ HeapSize(d, h) \in Nat
        /\ HeapLo(d, g) \in Nat /\ HeapSize(d, g) \in Nat
    <3>1. g \in Nodes(d)
      BY <1>1, CoverSlots
    <3> HIDE DEF g, h, d
    <3> QED
      BY <1>1, <2>5, <3>1, NodeBlock DEF h
  <2> HIDE DEF h, g, c
  <2>7. InRange(d, g, e)
    BY <2>2, <2>3, <2>4, <2>6, SMTT(40) DEF InRange, Within, h, g
  <2>8. l = j
    BY <1>6, <2>1, <2>7 DEF Gives, g
  <2>9. Gives(new, d, k, m, e)
    BY <2>1, <2>2, <2>3, <2>4, <2>5, <2>8 DEF Gives, SeedBelow
  <2> QED
    BY <1>1, <1>2, <1>3, <2>9, KeysAre
<1> QED
  BY <1>7, <1>8 DEF new, d


\* What a file holds.
LEMMA FileKeys ==
  ASSUME NEW f \in Files
  PROVE  FileSecrets(f) = IF file[f] = NoFile THEN {}
                          ELSE KeysOf(file[f].cover, CfgDepth[written[f].fp])
BY DEF FileSecrets, KeysOf

LEMMA FileKeysNext ==
  ASSUME NEW f \in Files
  PROVE  FileSecrets(f)' = IF file'[f] = NoFile THEN {}
                           ELSE KeysOf(file'[f].cover, CfgDepth[written'[f].fp])
BY DEF FileSecrets, KeysOf

\* Damage destroys seeds and creates none.
LEMMA DamageLoses ==
  ASSUME NEW w, Saved(w), NEW b \in Damaged(w), NEW d
  PROVE  KeysOf(b.cover, d) \subseteq KeysOf(w.cover, d)
<1>1. /\ w = [magic |-> TRUE, fp |-> w.fp, t |-> w.t, count |-> w.count,
              cover |-> w.cover, nodes |-> w.nodes, slack |-> 0]
      /\ w.count = Len(w.cover) /\ w.cover \in Seq(Slots)
  BY DEF Saved, Covers
<1>2. ASSUME b.cover = w.cover
      PROVE  KeysOf(b.cover, d) \subseteq KeysOf(w.cover, d)
  BY <1>2
<1>3. ASSUME \A k \in 1..Len(b.cover) :
               \/ b.cover[k].seed = ZeroSeed
               \/ k \in 1..Len(w.cover) /\ b.cover[k].seed = w.cover[k].seed
      PROVE  KeysOf(b.cover, d) \subseteq KeysOf(w.cover, d)
  BY <1>3 DEF KeysOf
<1>4. CASE b = [w EXCEPT !.magic = FALSE]
  BY <1>1, <1>2, <1>4
<1>5. CASE b = [w EXCEPT !.fp = NoCfg]
  BY <1>1, <1>2, <1>5
<1>6. ASSUME NEW t \in Epochs(CfgDepth[w.fp]), b = [w EXCEPT !.t = t]
      PROVE  b.cover = w.cover
  BY <1>1, <1>6
<1>7. ASSUME NEW n \in {w.count - 1, w.count + 1}, b = [w EXCEPT !.count = n]
      PROVE  b.cover = w.cover
  BY <1>1, <1>7
<1>8. ASSUME NEW i \in 1..w.count, b = [w EXCEPT !.cover[i].heap = FlipLast(@)]
      PROVE  KeysOf(b.cover, d) \subseteq KeysOf(w.cover, d)
  <2> DEFINE slot == [w.cover[i] EXCEPT !.heap = FlipLast(@)]
             cover == [w.cover EXCEPT ![i] = slot]
  <2>1. b.cover = cover
    <3>1. b = [w EXCEPT !.cover = cover]
      BY <1>1, <1>8
    <3> QED
      BY <1>1, <3>1
  <2>2. slot.seed = w.cover[i].seed
    <3>1. w.cover[i] \in Slots
      BY <1>1
    <3> QED
      BY <3>1 DEF Slots
  <2> HIDE DEF slot
  <2>3. Len(cover) = Len(w.cover) /\ \A k \in 1..Len(cover) : cover[k] = IF k = i THEN slot ELSE w.cover[k]
    BY <1>1
  <2> HIDE DEF cover
  <2> QED
    BY <1>3, <2>1, <2>2, <2>3
<1>9. ASSUME NEW i \in {1, w.count}, b = [w EXCEPT !.cover[i].seed = ZeroSeed]
      PROVE  KeysOf(b.cover, d) \subseteq KeysOf(w.cover, d)
  <2> DEFINE slot == [w.cover[i] EXCEPT !.seed = ZeroSeed]
             cover == [w.cover EXCEPT ![i] = slot]
  <2>1. b.cover = cover
    <3>1. b = [w EXCEPT !.cover = cover]
      BY <1>1, <1>9
    <3> QED
      BY <1>1, <3>1
  <2>2. Len(cover) = Len(w.cover)
    BY <1>1
  <2>3. ASSUME NEW k \in 1..Len(cover)
        PROVE  cover[k].seed = ZeroSeed \/ cover[k].seed = w.cover[k].seed
    <3>1. w.cover[k] \in Slots /\ cover[k] = IF k = i THEN slot ELSE w.cover[k]
      BY <1>1, <2>2
    <3>2. k = i => slot.seed = ZeroSeed
      BY <3>1 DEF Slots
    <3> HIDE DEF slot, cover
    <3> QED
      BY <3>1, <3>2
  <2> HIDE DEF cover
  <2> QED
    BY <1>3, <2>1, <2>2, <2>3
<1>10. ASSUME NEW i \in {1, Len(w.nodes)}, b = [w EXCEPT !.nodes[i] = NoHash]
       PROVE  b.cover = w.cover
  <2>1. b = [w EXCEPT !.nodes = [w.nodes EXCEPT ![i] = NoHash]]
    BY <1>1, <1>10
  <2> QED
    BY <1>1, <2>1
<1>11. CASE b = [w EXCEPT !.slack = 1]
  BY <1>1, <1>2, <1>11
<1>12. CASE b = [w EXCEPT !.cover = SubSeq(w.cover, 1, Len(w.cover) - 1)]
  <2> DEFINE cover == SubSeq(w.cover, 1, Len(w.cover) - 1)
  <2>1. b.cover = cover
    BY <1>1, <1>12
  <2>2. Len(w.cover) \in Nat
    BY <1>1
  <2>3. /\ \A i \in 1..(Len(w.cover) - 1) : w.cover[i] \in Slots
        /\ 1 \in Int /\ Len(w.cover) - 1 \in Int
    BY <1>1, <2>2
  <2>4. /\ Len(cover) = IF 1 <= Len(w.cover) - 1 THEN (Len(w.cover) - 1) - 1 + 1 ELSE 0
        /\ \A k \in 1..((Len(w.cover) - 1) - 1 + 1) : cover[k] = w.cover[1 + k - 1]
    <3> HIDE DEF cover
    <3> QED
      BY <2>3, SubSeqProperties DEF cover
  <2> HIDE DEF cover
  <2>5. ASSUME NEW k \in 1..Len(cover)
        PROVE  k \in 1..Len(w.cover) /\ cover[k] = w.cover[k]
    <3>1. k \in 1..((Len(w.cover) - 1) - 1 + 1) /\ k \in 1..Len(w.cover) /\ 1 + k - 1 = k
      BY <2>2, <2>4
    <3> QED
      BY <2>4, <3>1
  <2> QED
    BY <1>3, <2>1, <2>5
<1> QED
  BY <1>2, <1>4, <1>5, <1>6, <1>7, <1>8, <1>9, <1>10, <1>11, <1>12 DEF Damaged

Disk == [f \in Files |-> FileSecrets(f)]

LEMMA DiskKept ==
  ASSUME UNCHANGED <<file, written>>
  PROVE  UNCHANGED Disk
BY DEF Disk, FileSecrets

LEMMA EnrolStep ==
  ASSUME NEW c \in Cfgs, NEW m \in Masters, Keygen(c, m) \/ InitSchedule(CfgDepth[c], m)
  PROVE  Key!Enrol(m, 2^CfgDepth[c])
<1> DEFINE d == CfgDepth[c]
<1>1. d \in 1..MaxDepth
  BY DepthOf
<1>2. PICK nodes, fp :
        /\ st = Cleared /\ m \notin DOMAIN enrolled
        /\ st' = Schedule(d, 0, FreshCover(m), nodes, fp)
        /\ DOMAIN enrolled' = DOMAIN enrolled \cup {m} /\ UNCHANGED <<file, written>>
  BY DEF Keygen, InitSchedule, StateInit
<1> HIDE DEF d
<1>3. MemorySecrets = {}
  BY <1>2, MemoryIsSecrets, ClearedHoldsNothing
<1>4. MemorySecrets' = {m} \X (0..(2^d - 1))
  <2>1. 0 \in Epochs(d) /\ Covers(FreshCover(m), d, 0)
    BY <1>1, FreshCoverIs
  <2>2. st'.depth = d /\ st'.slot = Install(FreshCover(m))
    BY <1>2 DEF Schedule
  <2>3. SecretsOf(st') = KeysOf(FreshCover(m), d)
    BY <1>1, <2>1, <2>2, SecretsAre
  <2> QED
    BY <1>1, <2>3, MemoryIsSecrets, FreshKeys
<1>5. UNCHANGED Disk
  BY <1>2, DiskKept
<1> QED
  BY <1>2, <1>3, <1>4, <1>5 DEF Key!Enrol, Disk, d

LEMMA RetireStep ==
  ASSUME IInv, NEW target \in 1..(2^MaxDepth - 1), Advance(target)
  PROVE  Key!Retire(target)
<1> DEFINE d == st.depth
           new == NewCover(st, target)
<1>1. /\ Scheduled(st) /\ st.slot \in [SlotIds -> Slots] /\ target \in Epochs(d)
      /\ AllHeld(st, target) /\ st' = AdvanceTo(st, target)
  BY AdvanceFrom
<1>2. PICK cover : Covers(cover, d, st.t) /\ st.n = Len(cover) /\ st.slot = Install(cover)
  BY <1>1 DEF Scheduled
<1>3. d \in 1..MaxDepth /\ st.t \in Epochs(d)
  BY <1>1, LiveSlots
<1>4. MemorySecrets = KeysOf(cover, d)
  BY <1>2, <1>3, MemoryIsSecrets, SecretsAre
<1>5. MemorySecrets' = KeysOf(new, d)
  <2>1. Covers(new, d, target)
    BY <1>1, NewCoverIs
  <2>2. st'.depth = d /\ st'.slot = Install(new)
    BY <1>1 DEF AdvanceTo, Schedule
  <2> HIDE DEF new, d
  <2> QED
    BY <1>1, <1>3, <2>1, <2>2, MemoryIsSecrets, SecretsAre
<1>6. ASSUME NEW x PROVE x \in KeysOf(new, d) <=> x \in KeysOf(cover, d) /\ x[2] >= target
  <2>1. \A m, e : <<m, e>> \in KeysOf(new, d) <=> <<m, e>> \in KeysOf(cover, d) /\ e >= target
    BY <1>1, <1>2, AdvanceKeys
  <2>2. Covers(new, d, target)
    BY <1>1, NewCoverIs
  <2> HIDE DEF new, d
  <2>3. x \in KeysOf(new, d) => \E m, e : x = <<m, e>>
    BY <1>1, <1>3, <2>2, KeysAre
  <2>4. x \in KeysOf(cover, d) => \E m, e : x = <<m, e>>
    BY <1>2, <1>3, KeysAre
  <2> QED
    BY <2>1, <2>3, <2>4
<1> HIDE DEF new, d
<1>7. MemorySecrets' = {k \in MemorySecrets : k[2] >= target}
  BY <1>4, <1>5, <1>6
<1>8. UNCHANGED Disk /\ UNCHANGED enrolled
  BY DiskKept DEF Advance
<1> QED
  BY <1>7, <1>8 DEF Key!Retire, Disk

LEMMA SaveStep ==
  ASSUME IInv, NEW f \in Files, Serialize(f)
  PROVE  Key!Save(f)
<1> DEFINE b == Serialized(st)
<1>1. /\ Saved(b) /\ Scheduled(st) /\ b.fp = st.fp
      /\ st.n = Len(b.cover) /\ st.slot = Install(b.cover) /\ st.nodes # <<>>
  BY SerializedIsSaved DEF Serialize
<1>2. /\ file' = [file EXCEPT ![f] = b] /\ written' = [written EXCEPT ![f] = b]
      /\ UNCHANGED <<st, enrolled>> /\ b.magic
  BY DEF Serialize, Serialized
<1> HIDE DEF b
<1> DEFINE d == st.depth
<1>3. d \in 1..MaxDepth /\ st.fp \in Cfgs /\ d = CfgDepth[b.fp] /\ b.t \in Epochs(d)
      /\ Covers(b.cover, d, b.t)
  BY <1>1 DEF Scheduled, Saved
<1>4. MemorySecrets = KeysOf(b.cover, d) /\ UNCHANGED MemorySecrets
  <2>1. SecretsOf(st) = KeysOf(b.cover, d)
    <3> HIDE DEF d
    <3> QED
      BY <1>1, <1>3, SecretsAre DEF d
  <2> QED
    BY <1>2, <2>1, MemoryIsSecrets
<1>5. Disk' = [Disk EXCEPT ![f] = MemorySecrets]
  <2>1. ASSUME NEW g \in Files
        PROVE  FileSecrets(g)' = IF g = f THEN MemorySecrets ELSE FileSecrets(g)
    <3>1. CASE g = f
      <4>1. file'[g] = b /\ written'[g] = b /\ b # NoFile
        BY <1>1, <1>2, <3>1 DEF IInv, FilesOK, Saved, NoFile
      <4> QED
        BY <1>3, <1>4, <3>1, <4>1, FileKeysNext
    <3>2. CASE g # f
      <4>1. file'[g] = file[g] /\ written'[g] = written[g]
        BY <1>2, <3>2 DEF IInv, FilesOK
      <4> QED
        BY <3>2, <4>1, FileKeys, FileKeysNext
    <3> QED
      BY <3>1, <3>2
  <2> QED
    BY <2>1 DEF Disk
<1> QED
  BY <1>2, <1>4, <1>5 DEF Key!Save, Disk

LEMMA ForgetStep ==
  ASSUME st' = Cleared, UNCHANGED <<file, written, enrolled>>
  PROVE  Key!Forget
<1>1. MemorySecrets' = {}
  BY MemoryIsSecrets, ClearedHoldsNothing
<1>2. UNCHANGED Disk
  BY DiskKept
<1> QED
  BY <1>1, <1>2 DEF Key!Forget, Disk

LEMMA RestoreStep ==
  ASSUME IInv, NEW f \in Files, NEW c \in Cfgs, Load(f, c)
  PROVE  Key!Restore(f) \/ Key!Forget
<1> DEFINE b == file[f]
           d == CfgDepth[c]
<1>1. b # NoFile /\ UNCHANGED <<file, written, enrolled>>
  BY DEF Load
<1>2. ASSUME Loadable(c, b), st' = Loaded(c, b) PROVE Key!Restore(f)
  <2>1. Accepted(b, written[f], c) /\ Saved(written[f])
    BY <1>1, <1>2, LoadAccepts
  <2>2. /\ d \in 1..MaxDepth /\ b.t \in Epochs(d) /\ Covers(b.cover, d, b.t)
        /\ CfgDepth[written[f].fp] = d
    BY <2>1, DepthOf DEF Accepted, Saved
  <2>3. st'.depth = d /\ st'.slot = Install(b.cover)
    BY <1>2 DEF Loaded, Schedule
  <2>4. FileSecrets(f) = KeysOf(b.cover, d)
    BY <1>1, <2>2, FileKeys
  <2> HIDE DEF b, d
  <2>5. SecretsOf(st') = KeysOf(b.cover, d)
    BY <2>2, <2>3, SecretsAre
  <2>6. MemorySecrets' = Disk[f]
    BY <2>4, <2>5, MemoryIsSecrets DEF Disk
  <2>7. UNCHANGED Disk
    BY <1>1, DiskKept
  <2> QED
    BY <1>1, <2>6, <2>7 DEF Key!Restore, Disk
<1>3. ASSUME st' = Cleared PROVE Key!Forget
  BY <1>1, <1>3, ForgetStep
<1> QED
  BY <1>2, <1>3 DEF Load

LEMMA CopyStep ==
  ASSUME IInv, NEW f \in Files, NEW g \in Files, CopyFile(f, g)
  PROVE  Key!Copy(f, g)
<1>1. /\ file' = [file EXCEPT ![g] = file[f]] /\ written' = [written EXCEPT ![g] = written[f]]
      /\ UNCHANGED <<st, enrolled>>
  BY DEF CopyFile
<1>2. UNCHANGED MemorySecrets
  BY <1>1, MemoryIsSecrets
<1>3. ASSUME NEW x \in Files
      PROVE  FileSecrets(x)' = IF x = g THEN FileSecrets(f) ELSE FileSecrets(x)
  <2>1. /\ file'[x] = IF x = g THEN file[f] ELSE file[x]
        /\ written'[x] = IF x = g THEN written[f] ELSE written[x]
    BY <1>1 DEF IInv, FilesOK
  <2> QED
    BY <2>1, FileKeys, FileKeysNext
<1>4. Disk' = [Disk EXCEPT ![g] = Disk[f]]
  BY <1>3 DEF Disk
<1> QED
  BY <1>1, <1>2, <1>4 DEF Key!Copy, Disk

LEMMA RotStep ==
  ASSUME IInv, NEW f \in Files, Damage(f)
  PROVE  Key!Rot(f)
<1>1. PICK b \in Damaged(file[f]) : file' = [file EXCEPT ![f] = b]
  BY DEF Damage
<1>2. /\ file[f] # NoFile /\ file[f] = written[f] /\ Saved(written[f])
      /\ UNCHANGED <<st, written, enrolled>>
  BY DEF Damage, IInv, FilesOK, FileOK
<1>3. UNCHANGED MemorySecrets
  BY <1>2, MemoryIsSecrets
<1>4. ASSUME NEW x \in Files, x # f PROVE FileSecrets(x)' = FileSecrets(x)
  <2>1. file'[x] = file[x] /\ written'[x] = written[x]
    BY <1>1, <1>2, <1>4 DEF IInv, FilesOK
  <2> QED
    BY <2>1, FileKeys, FileKeysNext
<1>5. FileSecrets(f)' \subseteq FileSecrets(f)
  <2>1. file'[f] = b /\ written'[f] = written[f]
    BY <1>1, <1>2 DEF IInv, FilesOK
  <2>2. KeysOf(b.cover, CfgDepth[written[f].fp]) \subseteq KeysOf(file[f].cover, CfgDepth[written[f].fp])
    BY <1>1, <1>2, DamageLoses
  <2> QED
    BY <1>2, <2>1, <2>2, FileKeys, FileKeysNext
<1>6. Disk'[f] \subseteq Disk[f] /\ Disk' = [Disk EXCEPT ![f] = Disk'[f]]
  BY <1>4, <1>5 DEF Disk
<1> QED
  BY <1>2, <1>3, <1>6 DEF Key!Rot, Disk

LEMMA KeyStep ==
  ASSUME IInv, [Next]_vars
  PROVE  [Key!Next]_(Key!vars)
<1>1. ASSUME NEW c \in Cfgs, NEW m \in Masters, Keygen(c, m) \/ InitSchedule(CfgDepth[c], m)
      PROVE  Key!Next
  <2>1. CfgDepth[c] \in 1..MaxDepth /\ MaxDepth \in Nat
    BY DepthOf, MaxDepthAssumption
  <2>2. 2^CfgDepth[c] \in 1..(2^MaxDepth)
    BY <2>1, PowerPositive, PowerMonotone
  <2>3. Key!Enrol(m, 2^CfgDepth[c])
    BY <1>1, EnrolStep
  <2> QED
    BY <2>2, <2>3 DEF Key!Next
<1>2. ASSUME NEW target \in 1..(2^MaxDepth - 1), Advance(target) PROVE Key!Next
  BY <1>2, RetireStep DEF Key!Next
<1>3. ASSUME Clear PROVE Key!Next
  BY <1>3, ForgetStep DEF Key!Next, Clear
<1>4. ASSUME NEW f \in Files, Serialize(f) PROVE Key!Next
  BY <1>4, SaveStep DEF Key!Next
<1>5. ASSUME NEW f \in Files, NEW c \in Cfgs, Load(f, c) PROVE Key!Next
  BY <1>5, RestoreStep DEF Key!Next
<1>6. ASSUME NEW f \in Files, NEW g \in Files, CopyFile(f, g) PROVE Key!Next
  BY <1>6, CopyStep DEF Key!Next
<1>7. ASSUME NEW f \in Files, Damage(f) PROVE Key!Next
  BY <1>7, RotStep DEF Key!Next
<1>8. ASSUME UNCHANGED vars PROVE UNCHANGED Key!vars
  <2>1. UNCHANGED <<st, file, written, enrolled>>
    BY <1>8 DEF vars
  <2>2. UNCHANGED MemorySecrets /\ UNCHANGED Disk
    BY <2>1, MemoryIsSecrets, DiskKept
  <2> QED
    BY <2>1, <2>2 DEF Key!vars, Disk
<1> QED
  BY <1>1, <1>2, <1>3, <1>4, <1>5, <1>6, <1>7, <1>8 DEF Next

LEMMA KeyInit == Init => Key!Init
<1> SUFFICES ASSUME Init PROVE Key!Init
  OBVIOUS
<1>1. MemorySecrets = {}
  BY MemoryIsSecrets, ClearedHoldsNothing DEF Init
<1>2. \A f \in Files : FileSecrets(f) = {}
  BY FileKeys DEF Init
<1>3. DOMAIN enrolled = {}
  BY DEF Init
<1> QED
  BY <1>1, <1>2, <1>3 DEF Key!Init

\* The implementation, its files and all that may happen to them, does what
\* EpochKey allows and no more.
THEOREM KeepsThePromise == Spec => ImplementsEpochKey
BY KeyInit, KeyStep, InitInv, StepInv, PTL DEF Spec, ImplementsEpochKey, Key!Spec

\* Hence erasure is final in the implementation too.
THEOREM ErasedForGood == Spec => Key!NeverResurrected
BY KeepsThePromise, Key!ErasureIsFinal, PTL DEF ImplementsEpochKey

====
