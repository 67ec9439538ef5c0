---------------------------- MODULE RingTheorems ----------------------------
(***************************************************************************)
(* Theorems of Ring, for every set of people and scenarios and trees of    *)
(* every depth: first sequences and the order on them, then the indexed    *)
(* trees (a record that is in the tree straddles no value of the tree, and *)
(* a path to the root leads to a record that is in the tree), then what a  *)
(* signature on its way was made of, then what an envelope reads back as,  *)
(* whole or altered, then what the issuer laid, what a signature fixes and *)
(* what a verdict says of it, and last whose fields a leaf was hashed from *)
(* and who can sign for it.                                                *)
(***************************************************************************)
EXTENDS Ring, LoopsProofs

-----------------------------------------------------------------------------
(* Sequences. *)

LEMMA SameCells ==
  ASSUME NEW S, NEW a \in Seq(S), NEW b \in Seq(S), Len(a) = Len(b),
         \A i \in 1..Len(a) : a[i] = b[i]
  PROVE  a = b
OBVIOUS

\* w is put together of a and x.
ConcatOf(w, a, x) ==
  /\ Len(w) = Len(a) + Len(x)
  /\ \A i \in 1..Len(a) : w[i] = a[i]
  /\ \A i \in 1..Len(x) : w[Len(a) + i] = x[i]

LEMMA ConcatCells ==
  ASSUME NEW S, NEW a \in Seq(S), NEW x \in Seq(S)
  PROVE  a \o x \in Seq(S) /\ ConcatOf(a \o x, a, x)
<1>1. a \o x \in Seq(S)
  OBVIOUS
<1>2. Len(a \o x) = Len(a) + Len(x)
  OBVIOUS
<1>3. \A i \in 1..Len(a) : (a \o x)[i] = a[i]
  OBVIOUS
<1>4. \A i \in 1..Len(x) : (a \o x)[Len(a) + i] = x[i]
  OBVIOUS
<1> QED
  BY <1>1, <1>2, <1>3, <1>4 DEF ConcatOf

\* What was put together of parts of the same length has the same parts.
LEMMA ConcatCancel ==
  ASSUME NEW S, NEW a \in Seq(S), NEW b \in Seq(S), NEW x \in Seq(S), NEW y \in Seq(S),
         Len(a) = Len(b)
  PROVE  a \o x = b \o y => a = b /\ x = y
<1>1. ConcatOf(a \o x, a, x)
  BY ConcatCells
<1>2. ConcatOf(b \o y, b, y)
  BY ConcatCells
<1> SUFFICES ASSUME NEW w, ConcatOf(w, a, x), ConcatOf(w, b, y) PROVE a = b /\ x = y
  BY <1>1, <1>2
<1>3. Len(x) = Len(y)
  <2>1. Len(a) \in Nat /\ Len(b) \in Nat /\ Len(x) \in Nat /\ Len(y) \in Nat
    OBVIOUS
  <2> QED
    BY <2>1 DEF ConcatOf
<1>4. \A i \in 1..Len(a) : a[i] = b[i]
  BY DEF ConcatOf
<1>5. \A i \in 1..Len(x) : x[i] = y[i]
  BY <1>3 DEF ConcatOf
<1> QED
  BY <1>3, <1>4, <1>5, SameCells

\* Hashes of different data differ.
LEMMA DigestInjective ==
  ASSUME NEW mark \in Nat, NEW a \in Seq(Nat), NEW b \in Seq(Nat)
  PROVE  /\ Digest(mark, a) \in Seq(Nat) /\ Len(Digest(mark, a)) = Len(a) + 2
         /\ Digest(mark, a) = Digest(mark, b) => a = b
<1>1. <<mark, Len(a)>> \in Seq(Nat) /\ <<mark, Len(b)>> \in Seq(Nat)
      /\ Len(<<mark, Len(a)>>) = 2 /\ Len(<<mark, Len(b)>>) = 2
  OBVIOUS
<1>2. Digest(mark, a) = Digest(mark, b) => a = b
  BY <1>1, ConcatCancel DEF Digest
<1>3. <<mark, Len(a)>> \o a \in Seq(Nat) /\ Len(<<mark, Len(a)>> \o a) = 2 + Len(a)
  BY <1>1, ConcatCells DEF ConcatOf
<1>4. Digest(mark, a) \in Seq(Nat)
  BY <1>3 DEF Digest
<1>5. Len(Digest(mark, a)) = Len(a) + 2
  <2>1. Len(Digest(mark, a)) = 2 + Len(a) /\ Len(a) \in Nat
    BY <1>3 DEF Digest
  <2> QED
    BY <2>1
<1> QED
  BY <1>2, <1>4, <1>5

-----------------------------------------------------------------------------
(* The order on sequences of cells. *)

LEMMA MinOf ==
  ASSUME NEW S \in SUBSET Nat, S # {}
  PROVE  Min(S) \in S /\ \A y \in S : Min(S) <= y
<1> DEFINE None0(n) == \A y \in S : y > n
           T == {n \in Nat : (\A y \in 0..n : y \notin S) \/ \E x \in S : \A y \in S : x <= y}
<1>1. 0 \in T
  <2>1. CASE 0 \in S
    <3>1. \A y \in S : 0 <= y
      OBVIOUS
    <3> QED
      BY <2>1, <3>1
  <2>2. CASE 0 \notin S
    BY <2>2
  <2> QED
    BY <2>1, <2>2
<1>2. ASSUME NEW n \in Nat, n \in T PROVE n + 1 \in T
  <2>1. CASE \E x \in S : \A y \in S : x <= y
    BY <2>1
  <2>2. CASE (\A y \in 0..n : y \notin S) /\ n + 1 \in S
    <3>1. \A y \in S : n + 1 <= y
      BY <2>2
    <3> QED
      BY <2>2, <3>1
  <2>3. CASE (\A y \in 0..n : y \notin S) /\ n + 1 \notin S
    <3>1. \A y \in 0..(n + 1) : y \in 0..n \/ y = n + 1
      OBVIOUS
    <3> QED
      BY <2>3, <3>1
  <2> QED
    BY <1>2, <2>1, <2>2, <2>3
<1> HIDE DEF T
<1>3. Nat \subseteq T
  BY <1>1, <1>2, NatSetInduction
<1>4. PICK z \in S : TRUE
  OBVIOUS
<1>5. z \in T
  BY <1>3, <1>4
<1>6. \E x \in S : \A y \in S : x <= y
  BY <1>4, <1>5 DEF T
<1> QED
  BY <1>6 DEF Min

\* The first cell in which a and b differ is the k-th, and a is the lower.
LowerAt(a, b, k) ==
  /\ k \in 1..Len(b) /\ k - 1 <= Len(a)
  /\ k > Len(a) \/ a[k] < b[k]
  /\ \A j \in 1..(k - 1) : a[j] = b[j]

LEMMA LessForm ==
  ASSUME NEW a \in Seq(Nat), NEW b \in Seq(Nat)
  PROVE  /\ Less(a, b) => \E k \in Nat : LowerAt(a, b, k)
         /\ a # b => Less(a, b) \/ \E k \in Nat : LowerAt(b, a, k)
         /\ \A k \in Nat : LowerAt(a, b, k) => Less(a, b)
<1> DEFINE top == Max({Len(a), Len(b)})
           differ == {i \in 1..top : i > Len(a) \/ i > Len(b) \/ a[i] # b[i]}
           at == Min(differ)
<1>1. top \in Nat /\ Len(a) <= top /\ Len(b) <= top /\ top \in {Len(a), Len(b)}
  BY DEF Max
<1>2. Cmp(a, b) = IF differ = {} THEN 0
                  ELSE IF at > Len(a) \/ (at <= Len(b) /\ a[at] < b[at]) THEN -1 ELSE 1
  BY DEF Cmp
<1> HIDE DEF top
<1>3. differ \subseteq Nat
  BY <1>1
<1>4. \A i \in differ : i \in 1..top /\ (i > Len(a) \/ i > Len(b) \/ a[i] # b[i])
  OBVIOUS
<1>5. \A i \in 1..top : i \notin differ => i <= Len(a) /\ i <= Len(b) /\ a[i] = b[i]
  BY <1>1
<1>6. differ = {} => a = b
  <2> SUFFICES ASSUME differ = {} PROVE a = b
    OBVIOUS
  <2>1. \A i \in 1..top : i <= Len(a) /\ i <= Len(b) /\ a[i] = b[i]
    BY <1>5
  <2>2. Len(a) = Len(b)
    <3>1. Len(a) > 0 => Len(a) <= Len(b)
      BY <1>1, <2>1
    <3>2. Len(b) > 0 => Len(b) <= Len(a)
      BY <1>1, <2>1
    <3> QED
      BY <3>1, <3>2
  <2> QED
    BY <1>1, <2>1, <2>2, SameCells
<1>7. differ # {} => at \in differ /\ \A j \in 1..(at - 1) : j \notin differ
  <2> SUFFICES ASSUME differ # {} PROVE at \in differ /\ \A j \in 1..(at - 1) : j \notin differ
    OBVIOUS
  <2>1. at \in differ /\ \A y \in differ : at <= y
    BY <1>3, MinOf
  <2>2. at \in Nat
    BY <1>3, <2>1
  <2> HIDE DEF at, differ
  <2> QED
    BY <2>1, <2>2
<1> HIDE DEF at, differ
<1>8. ASSUME differ # {}
      PROVE  /\ at \in 1..top /\ at - 1 <= Len(a) /\ at - 1 <= Len(b)
             /\ \A j \in 1..(at - 1) : a[j] = b[j]
             /\ at > Len(a) \/ at > Len(b) \/ a[at] # b[at]
  <2>1. at \in 1..top /\ (at > Len(a) \/ at > Len(b) \/ a[at] # b[at])
    BY <1>4, <1>7, <1>8
  <2>2. \A j \in 1..(at - 1) : j <= Len(a) /\ j <= Len(b) /\ a[j] = b[j]
    BY <1>1, <1>5, <1>7, <1>8, <2>1
  <2>3. at - 1 > 0 => at - 1 <= Len(a) /\ at - 1 <= Len(b)
    <3> SUFFICES ASSUME at - 1 > 0 PROVE at - 1 <= Len(a) /\ at - 1 <= Len(b)
      OBVIOUS
    <3>1. at - 1 \in 1..(at - 1)
      BY <1>1, <2>1
    <3> QED
      BY <2>2, <3>1
  <2>4. at - 1 <= Len(a) /\ at - 1 <= Len(b)
    BY <1>1, <2>1, <2>3
  <2> QED
    BY <2>1, <2>2, <2>4
<1>9. Less(a, b) => differ # {} /\ LowerAt(a, b, at)
  <2> SUFFICES ASSUME Less(a, b) PROVE differ # {} /\ LowerAt(a, b, at)
    OBVIOUS
  <2>1. differ # {} /\ (at > Len(a) \/ (at <= Len(b) /\ a[at] < b[at]))
    BY <1>2 DEF Less
  <2> QED
    BY <1>1, <1>8, <2>1 DEF LowerAt
<1>10. a # b => Less(a, b) \/ LowerAt(b, a, at)
  <2> SUFFICES ASSUME a # b, ~ Less(a, b) PROVE LowerAt(b, a, at)
    OBVIOUS
  <2>1. differ # {} /\ ~ (at > Len(a) \/ (at <= Len(b) /\ a[at] < b[at]))
    BY <1>2, <1>6 DEF Less
  <2>2. at \in 1..Len(a) /\ (at > Len(b) \/ b[at] < a[at])
    BY <1>1, <1>8, <2>1
  <2> QED
    BY <1>8, <2>1, <2>2 DEF LowerAt
<1>11. ASSUME NEW k \in Nat, LowerAt(a, b, k) PROVE Less(a, b)
  <2>1. /\ k \in 1..Len(b) /\ k - 1 <= Len(a)
        /\ k > Len(a) \/ a[k] < b[k]
        /\ \A j \in 1..(k - 1) : a[j] = b[j]
    BY <1>11 DEF LowerAt
  <2>2. a # b
    BY <2>1
  <2>3. differ # {}
    <3>1. k \in 1..top /\ (k > Len(a) \/ k > Len(b) \/ a[k] # b[k])
      BY <1>1, <2>1
    <3> QED
      BY <1>5, <3>1
  <2>4. at = k
    <3>1. /\ at \in Nat /\ at >= 1 /\ \A j \in 1..(at - 1) : a[j] = b[j]
          /\ at - 1 <= Len(a) /\ (at > Len(a) \/ at > Len(b) \/ a[at] # b[at])
      BY <1>1, <1>8, <2>3
    <3>2. ~ at < k
      <4> SUFFICES ASSUME at < k PROVE FALSE
        OBVIOUS
      <4>1. at \in 1..(k - 1) /\ at <= Len(a) /\ at <= Len(b)
        BY <2>1, <3>1
      <4> QED
        BY <2>1, <3>1, <4>1
    <3>3. ~ k < at
      <4> SUFFICES ASSUME k < at PROVE FALSE
        OBVIOUS
      <4>1. k \in 1..(at - 1) /\ k <= Len(a) /\ k \in 1..Len(a)
        BY <2>1, <3>1
      <4>2. a[k] = b[k] /\ a[k] < b[k] /\ a[k] \in Nat
        BY <2>1, <3>1, <4>1
      <4> QED
        BY <4>2
    <3> QED
      BY <3>1, <3>2, <3>3
  <2>5. Cmp(a, b) = -1
    BY <1>2, <2>1, <2>3, <2>4
  <2> QED
    BY <2>5 DEF Less
<1>12. at \in Nat \/ differ = {}
  BY <1>1, <1>8
<1> QED
  BY <1>6, <1>9, <1>10, <1>11, <1>12

\* A strict total order.
LEMMA LessOrder ==
  ASSUME NEW a \in Seq(Nat), NEW b \in Seq(Nat), NEW c \in Seq(Nat)
  PROVE  /\ ~ Less(a, a)
         /\ Less(a, b) /\ Less(b, c) => Less(a, c)
         /\ a # b => Less(a, b) \/ Less(b, a)
<1>1. ~ Less(a, a)
  <2>1. \A k \in Nat : ~ LowerAt(a, a, k)
    BY DEF LowerAt
  <2> QED
    BY <2>1, LessForm
<1>2. ASSUME Less(a, b), Less(b, c) PROVE Less(a, c)
  <2>1. PICK k \in Nat : LowerAt(a, b, k)
    BY <1>2, LessForm
  <2>2. PICK l \in Nat : LowerAt(b, c, l)
    BY <1>2, LessForm
  <2>3. CASE k <= l
    <3>1. k < l => b[k] = c[k] /\ k <= Len(b)
      BY <2>1, <2>2 DEF LowerAt
    <3>2. k \in 1..Len(c) /\ k - 1 <= Len(a)
      BY <2>1, <2>2, <2>3 DEF LowerAt
    <3>3. k > Len(a) \/ a[k] < c[k]
      <4>1. CASE k < l
        BY <2>1, <3>1, <4>1 DEF LowerAt
      <4>2. CASE k = l /\ k <= Len(a)
        <5>1. a[k] < b[k] /\ b[k] < c[k] /\ k \in 1..Len(a) /\ k \in 1..Len(b) /\ k \in 1..Len(c)
          BY <2>1, <2>2, <3>2, <4>2 DEF LowerAt
        <5>2. \A s \in Seq(Nat) : \A i \in 1..Len(s) : s[i] \in Nat
          OBVIOUS
        <5>3. a[k] \in Nat /\ b[k] \in Nat /\ c[k] \in Nat
          BY <5>1, <5>2
        <5> QED
          BY <5>1, <5>3
      <4> QED
        BY <2>3, <4>1, <4>2
    <3>4. \A j \in 1..(k - 1) : a[j] = c[j]
      BY <2>1, <2>2, <2>3 DEF LowerAt
    <3>5. LowerAt(a, c, k)
      BY <3>2, <3>3, <3>4 DEF LowerAt
    <3> QED
      BY <3>5, LessForm
  <2>4. CASE l < k
    <3>1. l \in 1..Len(c) /\ l - 1 <= Len(a) /\ l <= Len(a) /\ a[l] = b[l]
      <4>1. l \in Nat /\ l # 0 /\ l <= Len(c) /\ Len(c) \in Nat
        BY <2>2 DEF LowerAt
      <4>2. k - 1 <= Len(a) /\ Len(a) \in Nat
        BY <2>1 DEF LowerAt
      <4>3. l \in 1..Len(c) /\ l <= Len(a) /\ l - 1 <= Len(a)
        BY <2>4, <4>1, <4>2
      <4>4. l \in 1..(k - 1)
        BY <2>4, <4>1
      <4>5. a[l] = b[l]
        BY <2>1, <4>4 DEF LowerAt
      <4> QED
        BY <4>3, <4>5
    <3>2. a[l] < c[l]
      BY <2>1, <2>2, <2>4, <3>1 DEF LowerAt
    <3>3. \A j \in 1..(l - 1) : a[j] = c[j]
      BY <2>1, <2>2, <2>4 DEF LowerAt
    <3>4. LowerAt(a, c, l)
      BY <3>1, <3>2, <3>3 DEF LowerAt
    <3> QED
      BY <3>4, LessForm
  <2> QED
    BY <2>3, <2>4
<1>3. a # b => Less(a, b) \/ Less(b, a)
  BY LessForm
<1> QED
  BY <1>1, <1>2, <1>3

-----------------------------------------------------------------------------
(* Indexed trees: the sorted records. *)

Rank(values, v) == Cardinality(Below(values, v))

LEMMA RankBounds ==
  ASSUME NEW values \in SUBSET Seq(Nat), IsFiniteSet(values), NEW v \in values
  PROVE  /\ IsFiniteSet(Below(values, v)) /\ Below(values, v) \in SUBSET values
         /\ Rank(values, v) \in 0..(Cardinality(values) - 1)
         /\ Cardinality(values) \in Nat
<1>1. Below(values, v) \in SUBSET (values \ {v})
  BY LessOrder DEF Below
<1>2. /\ IsFiniteSet(values \ {v}) /\ Cardinality(values \ {v}) = Cardinality(values) - 1
  BY FS_RemoveElement
<1>3. /\ IsFiniteSet(Below(values, v))
      /\ Cardinality(Below(values, v)) <= Cardinality(values \ {v})
  BY <1>1, <1>2, FS_Subset
<1>4. Cardinality(Below(values, v)) \in Nat /\ Cardinality(values) \in Nat
  BY <1>3, FS_CardinalityType
<1> QED
  BY <1>1, <1>2, <1>3, <1>4 DEF Rank

LEMMA RankMonotone ==
  ASSUME NEW values \in SUBSET Seq(Nat), IsFiniteSet(values), NEW u \in values, NEW v \in values,
         Less(u, v)
  PROVE  Rank(values, u) < Rank(values, v)
<1>1. Below(values, u) \cup {u} \in SUBSET Below(values, v)
  <2>1. \A x \in values : Less(x, u) => Less(x, v)
    BY LessOrder
  <2> QED
    BY <2>1 DEF Below
<1>2. u \notin Below(values, u)
  BY LessOrder DEF Below
<1>3. /\ IsFiniteSet(Below(values, u)) /\ IsFiniteSet(Below(values, v))
      /\ Rank(values, u) \in Nat /\ Rank(values, v) \in Nat
  BY RankBounds
<1>4. Cardinality(Below(values, u) \cup {u}) = Rank(values, u) + 1
  BY <1>2, <1>3, FS_AddElement DEF Rank
<1>5. Cardinality(Below(values, u) \cup {u}) <= Cardinality(Below(values, v))
  BY <1>1, <1>3, FS_Subset
<1> QED
  BY <1>3, <1>4, <1>5 DEF Rank

\* Every place of the order is filled, by the value of that rank.
LEMMA AscendingRanks ==
  ASSUME NEW values \in SUBSET Seq(Nat), IsFiniteSet(values)
  PROVE  /\ Cardinality(values) \in Nat /\ Len(Ascending(values)) = Cardinality(values)
         /\ \A i \in 1..Cardinality(values) :
              /\ Ascending(values)[i] \in values
              /\ Rank(values, Ascending(values)[i]) = i - 1
<1> DEFINE m == Cardinality(values)
           f == [v \in values |-> Rank(values, v)]
<1>1. m \in Nat
  BY FS_CardinalityType
<1>2. IsFiniteSet(0..(m - 1)) /\ Cardinality(0..(m - 1)) = m
  <2>1. 0 \in Int /\ m - 1 \in Int
    BY <1>1
  <2>2. /\ IsFiniteSet(0..(m - 1))
        /\ Cardinality(0..(m - 1)) = IF 0 > m - 1 THEN 0 ELSE (m - 1) - 0 + 1
    BY <2>1, FS_Interval
  <2> QED
    BY <1>1, <2>2
<1>3. f \in Injection(values, 0..(m - 1))
  <2>1. \A v \in values : Rank(values, v) \in 0..(m - 1)
    BY RankBounds
  <2>2. \A u, v \in values : u # v => Rank(values, u) # Rank(values, v)
    <3> SUFFICES ASSUME NEW u \in values, NEW v \in values, u # v
                 PROVE  Rank(values, u) # Rank(values, v)
      OBVIOUS
    <3>1. Less(u, v) \/ Less(v, u)
      BY LessOrder
    <3>2. Rank(values, u) \in Nat /\ Rank(values, v) \in Nat
      BY RankBounds
    <3> QED
      BY <3>1, <3>2, RankMonotone
  <2> QED
    BY <2>1, <2>2 DEF Injection, IsInjective
<1>4. f \in Surjection(values, 0..(m - 1))
  <2> HIDE DEF f
  <2> QED
    BY <1>2, <1>3, FS_Injection
<1>5. \A i \in 1..m : \E v \in values : Rank(values, v) = i - 1
  <2> TAKE i \in 1..m
  <2>1. i - 1 \in 0..(m - 1)
    BY <1>1
  <2>2. \E v \in values : f[v] = i - 1
    BY <1>4, <2>1 DEF Surjection
  <2> QED
    BY <2>2
<1>6. Ascending(values) =
        [i \in 1..m |-> CHOOSE v \in values : Rank(values, v) = i - 1]
  BY DEF Ascending, Rank
<1>7. Len(Ascending(values)) = m
  BY <1>1, <1>6
<1>8. \A i \in 1..m : /\ Ascending(values)[i] \in values
                      /\ Rank(values, Ascending(values)[i]) = i - 1
  BY <1>5, <1>6
<1> QED
  BY <1>1, <1>7, <1>8

Recs(d) == 0..(2 ^ d - 1)
TypedRecord(r) ==
  /\ r.value \in Seq(Nat) /\ r.next \in Seq(Nat)
  /\ r.index \in Seq(Nat) /\ Len(r.index) = 1

\* The records are of cells, and no value lies between the two ends of one.
LEMMA NothingStraddled ==
  ASSUME NEW values \in SUBSET Seq(Nat), IsFiniteSet(values), NEW d \in Nat, NEW i \in Recs(d)
  PROVE  LET r == RecordsOf(values, d)[i]
         IN  /\ DOMAIN RecordsOf(values, d) = Recs(d)
             /\ TypedRecord(r)
             /\ \A v \in values : ~ (Less(r.value, v) /\ Less(v, r.next))
<1> DEFINE m == Cardinality(values)
           order == Ascending(values)
           At(n) == IF n = 0 THEN Vacant ELSE IF n <= m THEN order[n] ELSE Top
           r == RecordsOf(values, d)[i]
<1>1. /\ m \in Nat /\ Len(order) = m
      /\ \A n \in 1..m : order[n] \in values /\ Rank(values, order[n]) = n - 1
  BY AscendingRanks
<1>2. RecordsOf(values, d) =
        [n \in Recs(d) |-> [value |-> At(n), next |-> At(n + 1), index |-> <<IF n < m THEN n + 1 ELSE 0>>]]
  BY <1>1 DEF RecordsOf, Recs
<1>3. i \in Nat
  BY PowerPositive DEF Recs
<1>4. r.value = At(i) /\ r.next = At(i + 1) /\ r.index = <<IF i < m THEN i + 1 ELSE 0>>
      /\ DOMAIN RecordsOf(values, d) = Recs(d)
  BY <1>2
<1> HIDE DEF r, order, m
<1>5. Vacant \in Seq(Nat) /\ Top \in Seq(Nat)
  BY DEF Vacant, Top
<1>6. At(i) \in Seq(Nat) /\ At(i + 1) \in Seq(Nat)
  BY <1>1, <1>3, <1>5
<1>7. TypedRecord(r)
  BY <1>1, <1>3, <1>4, <1>6 DEF TypedRecord
<1>8. ASSUME NEW v \in values, Less(At(i), v), Less(v, At(i + 1)) PROVE FALSE
  <2>1. Rank(values, v) \in 0..(m - 1)
    BY RankBounds DEF m
  <2>2. i > 0 /\ i <= m => Rank(values, v) > i - 1
    <3> SUFFICES ASSUME i > 0, i <= m PROVE Rank(values, v) > i - 1
      OBVIOUS
    <3>1. At(i) = order[i] /\ order[i] \in values /\ Rank(values, order[i]) = i - 1
      BY <1>1, <1>3
    <3>2. Rank(values, order[i]) < Rank(values, v)
      BY <1>8, <3>1, RankMonotone
    <3> QED
      BY <3>1, <3>2, <2>1
  <2>3. i + 1 <= m => Rank(values, v) < i
    <3> SUFFICES ASSUME i + 1 <= m PROVE Rank(values, v) < i
      OBVIOUS
    <3>1. At(i + 1) = order[i + 1] /\ order[i + 1] \in values /\ Rank(values, order[i + 1]) = i
      BY <1>1, <1>3
    <3>2. Rank(values, v) < Rank(values, order[i + 1])
      BY <1>8, <3>1, RankMonotone
    <3> QED
      BY <3>1, <3>2, <2>1
  <2>4. CASE i > m
    <3>1. At(i) = Top /\ At(i + 1) = Top
      BY <1>1, <1>3, <2>4
    <3> QED
      BY <1>5, <1>8, <3>1, LessOrder
  <2> QED
    BY <1>1, <1>3, <2>1, <2>2, <2>3, <2>4
<1> QED
  BY <1>4, <1>7, <1>8 DEF r

-----------------------------------------------------------------------------
(* A leaf says what record it was made of. *)

LEMMA MaxOf ==
  ASSUME NEW S \in SUBSET Nat, S # {}, NEW n \in Nat, \A y \in S : y <= n
  PROVE  Max(S) \in S /\ \A y \in S : y <= Max(S)
<1> DEFINE T == {n - y : y \in S}
<1>1. T \in SUBSET Nat /\ T # {}
  <2>1. \A y \in S : n - y \in Nat
    OBVIOUS
  <2> QED
    BY <2>1
<1>2. Min(T) \in T /\ \A t \in T : Min(T) <= t
  BY <1>1, MinOf
<1>3. PICK x \in S : Min(T) = n - x
  BY <1>2
<1>4. \A y \in S : x >= y
  <2> TAKE y \in S
  <2>1. n - y \in T
    OBVIOUS
  <2>2. n - x <= n - y
    BY <1>2, <1>3, <2>1
  <2> QED
    BY <2>2
<1>5. Max(S) \in S /\ \A y \in S : Max(S) >= y
  BY <1>4 DEF Max
<1> QED
  BY <1>5

\* What is at a place of data, zero behind its end.
Cell(data, j) == IF j <= Len(data) THEN data[j] ELSE 0
SameData(a, b) == \A j \in Nat \ {0} : Cell(a, j) = Cell(b, j)

LEMMA UnpaddedCells ==
  ASSUME NEW a \in Seq(Nat)
  PROVE  Unpadded(a) \in Seq(Nat) /\ SameData(Unpadded(a), a)
<1> DEFINE S == {0} \cup {i \in 1..Len(a) : a[i] # 0}
           n == Max(S)
<1>1. S \in SUBSET Nat /\ S # {} /\ \A y \in S : y <= Len(a)
  OBVIOUS
<1>2. n \in S /\ \A y \in S : y <= n
  <2>1. Len(a) \in Nat
    OBVIOUS
  <2> HIDE DEF S
  <2> QED
    BY <1>1, <2>1, MaxOf
<1>3. n \in 0..Len(a) /\ \A i \in 1..Len(a) : a[i] # 0 => i <= n
  <2>1. n \in Nat /\ n <= Len(a)
    BY <1>1, <1>2
  <2>2. \A i \in 1..Len(a) : a[i] # 0 => i \in S
    OBVIOUS
  <2> QED
    BY <1>2, <2>1, <2>2
<1>4. Unpadded(a) = SubSeq(a, 1, n)
  BY DEF Unpadded
<1> HIDE DEF n, S
<1>5. SubSeq(a, 1, n) \in Seq(Nat) /\ Len(SubSeq(a, 1, n)) = n
      /\ \A i \in 1..n : SubSeq(a, 1, n)[i] = a[i]
  BY <1>3
<1>6. SameData(Unpadded(a), a)
  BY <1>3, <1>4, <1>5 DEF SameData, Cell
<1> QED
  BY <1>4, <1>5, <1>6

LEMMA LeafInjective ==
  ASSUME NEW h, h.mark \in Nat, NEW a \in Seq(Nat), NEW b \in Seq(Nat)
  PROVE  /\ LeafNode(h, a) \in Seq(Nat) /\ Len(LeafNode(h, a)) >= 2
         /\ LeafNode(h, a) = LeafNode(h, b) => SameData(a, b)
<1>1. CASE h.block # 0
  <2>1. LeafNode(h, a) = Digest(h.mark, Unpadded(a)) /\ LeafNode(h, b) = Digest(h.mark, Unpadded(b))
    BY <1>1 DEF LeafNode, FixedLeaf
  <2>2. /\ Unpadded(a) \in Seq(Nat) /\ SameData(Unpadded(a), a)
        /\ Unpadded(b) \in Seq(Nat) /\ SameData(Unpadded(b), b)
    BY UnpaddedCells
  <2>3. /\ LeafNode(h, a) \in Seq(Nat) /\ Len(LeafNode(h, a)) = Len(Unpadded(a)) + 2
        /\ LeafNode(h, a) = LeafNode(h, b) => Unpadded(a) = Unpadded(b)
    BY <2>1, <2>2, DigestInjective
  <2>4. Unpadded(a) = Unpadded(b) => SameData(a, b)
    BY <2>2 DEF SameData
  <2>5. Len(Unpadded(a)) \in Nat
    BY <2>2
  <2> QED
    BY <2>3, <2>4, <2>5
<1>2. CASE h.block = 0
  <2> DEFINE x == a \o <<98>>
             y == b \o <<98>>
  <2>1. LeafNode(h, a) = Digest(h.mark, x) /\ LeafNode(h, b) = Digest(h.mark, y)
    BY <1>2 DEF LeafNode, VariableLeaf
  <2>2. <<98>> \in Seq(Nat) /\ Len(<<98>>) = 1
    OBVIOUS
  <2>3. x \in Seq(Nat) /\ y \in Seq(Nat) /\ Len(x) = Len(a) + 1 /\ Len(y) = Len(b) + 1
    BY <2>2, ConcatCells DEF ConcatOf
  <2>4. x = y => a = b
    <3>1. Len(a) = Len(b) => (x = y => a = b)
      <4> SUFFICES ASSUME Len(a) = Len(b) PROVE a \o <<98>> = b \o <<98>> => a = b
        OBVIOUS
      <4> DEFINE c == <<98>>
      <4>1. c \in Seq(Nat)
        BY <2>2
      <4> HIDE DEF c
      <4>2. a \o c = b \o c => a = b
        BY <4>1, ConcatCancel
      <4> QED
        BY <4>2 DEF c
    <3>2. x = y => Len(a) = Len(b)
      BY <2>3
    <3> QED
      BY <3>1, <3>2
  <2> HIDE DEF x, y
  <2>5. /\ Digest(h.mark, x) \in Seq(Nat) /\ Len(Digest(h.mark, x)) = Len(x) + 2
        /\ Digest(h.mark, x) = Digest(h.mark, y) => x = y
    BY <2>3, DigestInjective
  <2>6. a = b => SameData(a, b)
    BY DEF SameData
  <2>7. Len(a) \in Nat
    OBVIOUS
  <2> QED
    BY <2>1, <2>3, <2>4, <2>5, <2>6, <2>7
<1> QED
  BY <1>1, <1>2

\* Where the parts of a record are found in its data.
LEMMA RecordCells ==
  ASSUME NEW r, TypedRecord(r)
  PROVE  /\ RecordData(r) \in Seq(Nat)
         /\ Cell(RecordData(r), 1) = Len(r.value)
         /\ \A i \in 1..Len(r.value) : Cell(RecordData(r), 1 + i) = r.value[i]
         /\ Cell(RecordData(r), 2 + Len(r.value)) = Len(r.next)
         /\ \A i \in 1..Len(r.next) : Cell(RecordData(r), 2 + Len(r.value) + i) = r.next[i]
<1> DEFINE v == r.value
           n == r.next
           p == <<Len(v)>>
           q == <<Len(n)>>
           w1 == p \o v
           w2 == w1 \o q
           w3 == w2 \o n
           w4 == w3 \o r.index
<1>1. RecordData(r) = w4
  BY DEF RecordData
<1>2. /\ v \in Seq(Nat) /\ n \in Seq(Nat) /\ r.index \in Seq(Nat) /\ Len(r.index) = 1
      /\ Len(v) \in Nat /\ Len(n) \in Nat
  BY DEF TypedRecord
<1>3. /\ p \in Seq(Nat) /\ Len(p) = 1 /\ p[1] = Len(v)
      /\ q \in Seq(Nat) /\ Len(q) = 1 /\ q[1] = Len(n)
  BY <1>2
<1> HIDE DEF p, q
<1>4. w1 \in Seq(Nat) /\ ConcatOf(w1, p, v)
  BY <1>2, <1>3, ConcatCells
<1> HIDE DEF w1
<1>5. w2 \in Seq(Nat) /\ ConcatOf(w2, w1, q)
  BY <1>3, <1>4, ConcatCells
<1> HIDE DEF w2
<1>6. w3 \in Seq(Nat) /\ ConcatOf(w3, w2, n)
  BY <1>2, <1>5, ConcatCells
<1> HIDE DEF w3
<1>7. w4 \in Seq(Nat) /\ ConcatOf(w4, w3, r.index)
  BY <1>2, <1>6, ConcatCells
<1> HIDE DEF w4, v, n
<1>8. Len(w1) = 1 + Len(v) /\ w1[1] = Len(v) /\ \A i \in 1..Len(v) : w1[1 + i] = v[i]
  BY <1>2, <1>3, <1>4 DEF ConcatOf
<1>9. /\ Len(w2) = 2 + Len(v) /\ w2[2 + Len(v)] = Len(n)
      /\ \A i \in 1..(1 + Len(v)) : w2[i] = w1[i]
  <2>1. Len(w2) = Len(w1) + 1 /\ w2[Len(w1) + 1] = q[1] /\ \A i \in 1..Len(w1) : w2[i] = w1[i]
    BY <1>3, <1>5 DEF ConcatOf
  <2> QED
    BY <1>2, <1>3, <1>8, <2>1
<1>10. /\ Len(w3) = 2 + Len(v) + Len(n) /\ \A i \in 1..Len(n) : w3[2 + Len(v) + i] = n[i]
       /\ \A i \in 1..(2 + Len(v)) : w3[i] = w2[i]
  BY <1>2, <1>6, <1>9 DEF ConcatOf
<1>11. /\ Len(w4) = 3 + Len(v) + Len(n)
       /\ \A i \in 1..(2 + Len(v) + Len(n)) : w4[i] = w3[i]
  BY <1>2, <1>7, <1>10 DEF ConcatOf
<1>12. \A j \in 1..(2 + Len(v) + Len(n)) : Cell(w4, j) = w3[j]
  BY <1>2, <1>11 DEF Cell
<1>13. Cell(w4, 1) = Len(v)
  <2>1. 1 \in 1..(2 + Len(v) + Len(n)) /\ 1 \in 1..(2 + Len(v)) /\ 1 \in 1..(1 + Len(v))
    BY <1>2
  <2> QED
    BY <1>8, <1>9, <1>10, <1>12, <2>1
<1>14. ASSUME NEW i \in 1..Len(v) PROVE Cell(w4, 1 + i) = v[i]
  <2>1. /\ 1 + i \in 1..(2 + Len(v) + Len(n)) /\ 1 + i \in 1..(2 + Len(v)) /\ 1 + i \in 1..(1 + Len(v))
    BY <1>2
  <2> QED
    BY <1>8, <1>9, <1>10, <1>12, <2>1
<1>15. Cell(w4, 2 + Len(v)) = Len(n)
  <2>1. 2 + Len(v) \in 1..(2 + Len(v) + Len(n)) /\ 2 + Len(v) \in 1..(2 + Len(v))
    BY <1>2
  <2> QED
    BY <1>9, <1>10, <1>12, <2>1
<1>16. ASSUME NEW i \in 1..Len(n) PROVE Cell(w4, 2 + Len(v) + i) = n[i]
  <2>1. 2 + Len(v) + i \in 1..(2 + Len(v) + Len(n))
    BY <1>2
  <2> QED
    BY <1>10, <1>12, <2>1
<1> QED
  BY <1>1, <1>7, <1>13, <1>14, <1>15, <1>16 DEF v, n

LEMMA RecordInjective ==
  ASSUME NEW r, TypedRecord(r), NEW s, TypedRecord(s), SameData(RecordData(r), RecordData(s))
  PROVE  r.value = s.value /\ r.next = s.next
<1> DEFINE a == RecordData(r)
           b == RecordData(s)
<1>1. \A j \in Nat \ {0} : Cell(a, j) = Cell(b, j)
  BY DEF SameData
<1>2. /\ Cell(a, 1) = Len(r.value)
      /\ \A i \in 1..Len(r.value) : Cell(a, 1 + i) = r.value[i]
      /\ Cell(a, 2 + Len(r.value)) = Len(r.next)
      /\ \A i \in 1..Len(r.next) : Cell(a, 2 + Len(r.value) + i) = r.next[i]
  BY RecordCells
<1>3. /\ Cell(b, 1) = Len(s.value)
      /\ \A i \in 1..Len(s.value) : Cell(b, 1 + i) = s.value[i]
      /\ Cell(b, 2 + Len(s.value)) = Len(s.next)
      /\ \A i \in 1..Len(s.next) : Cell(b, 2 + Len(s.value) + i) = s.next[i]
  BY RecordCells
<1>4. /\ r.value \in Seq(Nat) /\ r.next \in Seq(Nat) /\ Len(r.value) \in Nat /\ Len(r.next) \in Nat
      /\ s.value \in Seq(Nat) /\ s.next \in Seq(Nat)
  BY DEF TypedRecord
<1> HIDE DEF a, b
<1>5. Len(r.value) = Len(s.value)
  BY <1>1, <1>2, <1>3
<1>6. \A i \in 1..Len(r.value) : r.value[i] = s.value[i]
  BY <1>1, <1>2, <1>3, <1>4, <1>5
<1>7. Len(r.next) = Len(s.next)
  BY <1>1, <1>2, <1>3, <1>4, <1>5
<1>8. \A i \in 1..Len(r.next) : r.next[i] = s.next[i]
  BY <1>1, <1>2, <1>3, <1>4, <1>5, <1>7
<1> QED
  BY <1>4, <1>5, <1>6, <1>7, <1>8, SameCells

-----------------------------------------------------------------------------
(* Trees: a path to the root leads to a leaf of the tree. *)

\* What is defined level by level exists.
Ladder(g, G, s, n) == g = [k \in 0..n |-> IF k = 0 THEN s ELSE G[k][g[k - 1]]]

LEMMA LadderExists ==
  ASSUME NEW G, NEW s, NEW n \in Nat
  PROVE  \E g : Ladder(g, G, s, n)
<1> DEFINE Turn(f, k) == IF k = 0 THEN s ELSE G[k][f[k - 1]]
           T == {m \in Nat : \E f : f = [k \in 0..m |-> Turn(f, k)]}
<1>1. 0 \in T
  <2> DEFINE f == [k \in 0..0 |-> s]
  <2>1. f = [k \in 0..0 |-> Turn(f, k)]
    OBVIOUS
  <2> QED
    BY <2>1
<1>2. ASSUME NEW m \in Nat, m \in T PROVE m + 1 \in T
  <2>1. PICK f : f = [k \in 0..m |-> Turn(f, k)]
    BY <1>2
  <2> DEFINE g == [k \in 0..(m + 1) |-> IF k <= m THEN f[k] ELSE G[m + 1][f[m]]]
  <2>2. \A k \in 0..m : g[k] = f[k]
    OBVIOUS
  <2>3. g[m + 1] = G[m + 1][f[m]]
    OBVIOUS
  <2>4. g = [k \in 0..(m + 1) |-> g[k]]
    OBVIOUS
  <2> HIDE DEF g
  <2>5. ASSUME NEW k \in 0..(m + 1) PROVE g[k] = Turn(g, k)
    <3>1. CASE k = m + 1
      <4>1. (m + 1) - 1 = m /\ m + 1 # 0 /\ g[m] = f[m]
        BY <2>2
      <4> QED
        BY <2>3, <3>1, <4>1
    <3>2. CASE k \in 0..m
      <4>1. f[k] = Turn(f, k)
        BY <2>1, <3>2
      <4>2. k # 0 => g[k - 1] = f[k - 1]
        BY <2>2, <3>2
      <4> QED
        BY <2>2, <3>2, <4>1, <4>2
    <3> QED
      BY <3>1, <3>2
  <2> HIDE DEF Turn
  <2>6. g = [k \in 0..(m + 1) |-> Turn(g, k)]
    BY <2>4, <2>5
  <2>7. \E f2 : f2 = [k \in 0..(m + 1) |-> Turn(f2, k)]
    BY <2>6
  <2> QED
    BY <2>7
<1> HIDE DEF T
<1>3. n \in T
  BY <1>1, <1>2, NatSetInduction
<1> QED
  BY <1>3 DEF T, Ladder

LEMMA InodeInjective ==
  ASSUME NEW h, h.mark \in Nat, NEW l \in Seq(Nat), NEW r \in Seq(Nat),
         NEW l2 \in Seq(Nat), NEW r2 \in Seq(Nat)
  PROVE  /\ Inode(h, l, r) \in Seq(Nat) /\ Len(Inode(h, l, r)) >= 2
         /\ Inode(h, l, r) = Inode(h, l2, r2) => l = l2 /\ r = r2
<1> DEFINE mark == (IF h.mark \in {20, 30, 40} THEN 20 ELSE h.mark) + 1
           p == <<Len(l)>>
           p2 == <<Len(l2)>>
           w == p \o l
           w2 == p2 \o l2
<1>1. mark \in Nat /\ Inode(h, l, r) = Digest(mark, w \o r) /\ Inode(h, l2, r2) = Digest(mark, w2 \o r2)
  BY DEF Inode
<1>2. /\ p \in Seq(Nat) /\ Len(p) = 1 /\ p[1] = Len(l)
      /\ p2 \in Seq(Nat) /\ Len(p2) = 1 /\ p2[1] = Len(l2)
      /\ Len(l) \in Nat /\ Len(l2) \in Nat
  OBVIOUS
<1> HIDE DEF mark, p, p2
<1>3. w \in Seq(Nat) /\ ConcatOf(w, p, l)
  BY <1>2, ConcatCells
<1>4. w2 \in Seq(Nat) /\ ConcatOf(w2, p2, l2)
  BY <1>2, ConcatCells
<1>5. w = w2 => p = p2 /\ l = l2
  BY <1>2, ConcatCancel
<1> HIDE DEF w, w2
<1>6. w \o r \in Seq(Nat) /\ ConcatOf(w \o r, w, r)
  BY <1>3, ConcatCells
<1>7. w2 \o r2 \in Seq(Nat) /\ ConcatOf(w2 \o r2, w2, r2)
  BY <1>4, ConcatCells
<1>8. ASSUME w \o r = w2 \o r2 PROVE l = l2 /\ r = r2
  <2>1. w[1] = (w \o r)[1] /\ w2[1] = (w2 \o r2)[1]
    <3>1. 1 \in 1..Len(w) /\ 1 \in 1..Len(w2)
      BY <1>2, <1>3, <1>4 DEF ConcatOf
    <3> QED
      BY <1>6, <1>7, <3>1 DEF ConcatOf
  <2>2. w[1] = Len(l) /\ w2[1] = Len(l2)
    BY <1>2, <1>3, <1>4 DEF ConcatOf
  <2>3. Len(l) = Len(l2)
    BY <1>8, <2>1, <2>2
  <2>4. Len(w) = Len(w2)
    BY <1>2, <1>3, <1>4, <2>3 DEF ConcatOf
  <2>5. w \o r = w2 \o r2 => w = w2 /\ r = r2
    BY <1>3, <1>4, <2>4, ConcatCancel
  <2> QED
    BY <1>5, <1>8, <2>5
<1>9. /\ Digest(mark, w \o r) \in Seq(Nat) /\ Len(Digest(mark, w \o r)) = Len(w \o r) + 2
      /\ Digest(mark, w \o r) = Digest(mark, w2 \o r2) => w \o r = w2 \o r2
  BY <1>1, <1>6, <1>7, DigestInjective
<1>10. Len(w \o r) \in Nat
  BY <1>6
<1> DEFINE u == w \o r
           u2 == w2 \o r2
<1>11. Inode(h, l, r) = Digest(mark, u) /\ Inode(h, l2, r2) = Digest(mark, u2)
  BY <1>1
<1>12. u = u2 => l = l2 /\ r = r2
  BY <1>8
<1>13. /\ Digest(mark, u) \in Seq(Nat) /\ Len(Digest(mark, u)) = Len(u) + 2 /\ Len(u) \in Nat
       /\ Digest(mark, u) = Digest(mark, u2) => u = u2
  BY <1>9, <1>10
<1> HIDE DEF u, u2
<1> QED
  BY <1>11, <1>12, <1>13

Nodes(n) == [0..(2 ^ n - 1) -> Seq(Nat)]
Paired(h, f, n) == [j \in 0..(2 ^ n - 1) |-> Inode(h, f[2 * j], f[2 * j + 1])]

LEMMA PairedNodes ==
  ASSUME NEW h, h.mark \in Nat, NEW n \in Nat, NEW f \in Nodes(n + 1)
  PROVE  /\ Paired(h, f, n) \in Nodes(n)
         /\ \A j \in 0..(2 ^ n - 1) : 2 * j \in 0..(2 ^ (n + 1) - 1) /\ 2 * j + 1 \in 0..(2 ^ (n + 1) - 1)
<1>1. 2 ^ n \in Nat /\ 2 ^ (n + 1) = 2 * 2 ^ n
  BY PowerStep
<1> DEFINE e == 2 ^ n
<1> HIDE DEF e
<1>2. \A j \in 0..(e - 1) : 2 * j \in 0..(2 * e - 1) /\ 2 * j + 1 \in 0..(2 * e - 1)
  BY <1>1 DEF e
<1>3. f \in [0..(2 * e - 1) -> Seq(Nat)]
  BY <1>1 DEF e, Nodes
<1>4. \A j \in 0..(e - 1) : Inode(h, f[2 * j], f[2 * j + 1]) \in Seq(Nat)
  <2> TAKE j \in 0..(e - 1)
  <2>1. f[2 * j] \in Seq(Nat) /\ f[2 * j + 1] \in Seq(Nat)
    BY <1>2, <1>3
  <2> QED
    BY <2>1, InodeInjective
<1> QED
  BY <1>1, <1>2, <1>4 DEF e, Nodes, Paired

\* lev are the levels of the tree over leaves.
Leveled(lev, h, leaves, d) ==
  /\ lev[0] = leaves
  /\ \A k \in 0..d : lev[k] \in Nodes(d - k)
  /\ \A k \in 1..d : lev[k] = Paired(h, lev[k - 1], d - k)

LEMMA LevelsUnfold ==
  ASSUME NEW h, h.mark \in Nat, NEW d \in Nat, NEW leaves \in Nodes(d)
  PROVE  Leveled(Levels(h, leaves, d), h, leaves, d)
<1> DEFINE Dom(k) == Nodes(d - k + 1)
           G == [k \in 1..d |-> [f \in Dom(k) |-> Paired(h, f, d - k)]]
           Def(g) == g = [k \in 0..d |->
                        IF k = 0 THEN leaves
                        ELSE [j \in 0..(2 ^ (d - k) - 1) |->
                                Inode(h, g[k - 1][2 * j], g[k - 1][2 * j + 1])]]
<1>0. \E g : Ladder(g, G, leaves, d)
  <2> HIDE DEF G
  <2> QED
    BY LadderExists
<1>1. PICK g : g = [k \in 0..d |-> IF k = 0 THEN leaves ELSE G[k][g[k - 1]]]
  BY <1>0 DEF Ladder
<1> DEFINE T == {k \in Nat : k <= d => g[k] \in Nodes(d - k)}
<1>2. 0 \in T
  BY <1>1
<1>3. ASSUME NEW k \in Nat, k + 1 <= d, g[k] \in Nodes(d - k)
      PROVE  g[k + 1] = Paired(h, g[k], d - (k + 1)) /\ g[k + 1] \in Nodes(d - (k + 1))
  <2>1. g[k + 1] = G[k + 1][g[k]]
    <3>1. k + 1 \in 0..d /\ k + 1 # 0 /\ (k + 1) - 1 = k
      BY <1>3
    <3> HIDE DEF G
    <3> QED
      BY <1>1, <3>1
  <2>2. k + 1 \in 1..d /\ d - (k + 1) + 1 = d - k /\ d - (k + 1) \in Nat
    BY <1>3
  <2>3. g[k] \in Dom(k + 1)
    BY <1>3, <2>2
  <2>4. G[k + 1][g[k]] = Paired(h, g[k], d - (k + 1))
    <3> HIDE DEF Dom
    <3> QED
      BY <2>2, <2>3
  <2>5. Paired(h, g[k], d - (k + 1)) \in Nodes(d - (k + 1))
    <3> DEFINE n == d - (k + 1)
    <3>1. n \in Nat /\ g[k] \in Nodes(n + 1)
      BY <2>2, <2>3
    <3> HIDE DEF n
    <3>2. Paired(h, g[k], n) \in Nodes(n)
      BY <3>1, PairedNodes
    <3> QED
      BY <3>2 DEF n
  <2> QED
    BY <2>1, <2>4, <2>5
<1>4. ASSUME NEW k \in Nat, k \in T PROVE k + 1 \in T
  <2> SUFFICES ASSUME k + 1 <= d PROVE g[k + 1] \in Nodes(d - (k + 1))
    OBVIOUS
  <2>1. g[k] \in Nodes(d - k)
    BY <1>4
  <2> HIDE DEF T, G
  <2> QED
    BY <1>3, <2>1
<1> HIDE DEF T
<1>5. Nat \subseteq T
  BY <1>2, <1>4, NatSetInduction
<1>6. \A k \in 0..d : g[k] \in Nodes(d - k)
  BY <1>5 DEF T
<1>7. \A k \in 1..d : g[k] = Paired(h, g[k - 1], d - k)
  <2> TAKE k \in 1..d
  <2>1. k - 1 \in Nat /\ (k - 1) + 1 = k /\ (k - 1) + 1 <= d /\ k - 1 \in 0..d
    OBVIOUS
  <2>2. g[k - 1] \in Nodes(d - (k - 1))
    BY <1>6, <2>1
  <2>3. g[(k - 1) + 1] = Paired(h, g[k - 1], d - ((k - 1) + 1))
    BY <1>3, <2>1, <2>2
  <2> QED
    BY <2>1, <2>3
<1>8. Def(g)
  <2>1. g = [k \in 0..d |-> g[k]] /\ g[0] = leaves
    BY <1>1
  <2>2. \A k \in 0..d : k # 0 => g[k] = [j \in 0..(2 ^ (d - k) - 1) |->
                                Inode(h, g[k - 1][2 * j], g[k - 1][2 * j + 1])]
    <3> TAKE k \in 0..d
    <3> SUFFICES ASSUME k # 0
                 PROVE  g[k] = [j \in 0..(2 ^ (d - k) - 1) |->
                                  Inode(h, g[k - 1][2 * j], g[k - 1][2 * j + 1])]
      OBVIOUS
    <3>1. k \in 1..d
      OBVIOUS
    <3>2. g[k] = Paired(h, g[k - 1], d - k)
      BY <1>7, <3>1
    <3> QED
      BY <3>2 DEF Paired
  <2> HIDE DEF G
  <2> QED
    BY <2>1, <2>2
<1> DEFINE lev == CHOOSE f : Def(f)
<1>9. Levels(h, leaves, d) = lev
  BY DEF Levels
<1>10. Def(lev)
  <2> HIDE DEF Def, lev
  <2> QED
    BY <1>8 DEF lev
<1> QED
  <2> HIDE DEF lev
  <2>1. lev[0] = leaves
    BY <1>10
  <2>2. \A k \in 1..d : lev[k] = Paired(h, lev[k - 1], d - k)
    <3> TAKE k \in 1..d
    <3>1. k \in 0..d /\ k # 0
      OBVIOUS
    <3>2. lev[k] = [j \in 0..(2 ^ (d - k) - 1) |->
                      Inode(h, lev[k - 1][2 * j], lev[k - 1][2 * j + 1])]
      BY <1>10, <3>1
    <3> QED
      BY <3>2 DEF Paired
  <2> DEFINE U == {k \in Nat : k <= d => lev[k] \in Nodes(d - k)}
  <2>3. 0 \in U
    BY <2>1
  <2>4. ASSUME NEW k \in Nat, k \in U PROVE k + 1 \in U
    <3> SUFFICES ASSUME k + 1 <= d PROVE lev[k + 1] \in Nodes(d - (k + 1))
      OBVIOUS
    <3>1. lev[k] \in Nodes(d - k)
      BY <2>4
    <3> DEFINE n == d - (k + 1)
    <3>2. n \in Nat /\ d - k = n + 1 /\ k + 1 \in 1..d /\ (k + 1) - 1 = k
      OBVIOUS
    <3>3. lev[k + 1] = Paired(h, lev[k], n)
      BY <2>2, <3>2
    <3> HIDE DEF n, Def, U
    <3>4. Paired(h, lev[k], n) \in Nodes(n)
      BY <3>1, <3>2, PairedNodes
    <3> QED
      BY <3>3, <3>4 DEF n
  <2> HIDE DEF U, Def
  <2>5. Nat \subseteq U
    BY <2>3, <2>4, NatSetInduction
  <2>6. \A k \in 0..d : lev[k] \in Nodes(d - k)
    BY <2>5 DEF U
  <2> QED
    BY <1>9, <2>1, <2>2, <2>6 DEF Leveled

Turned(h, b, x, y) == IF b = 1 THEN Inode(h, y, x) ELSE Inode(h, x, y)

\* w are the nodes on the way from node up the siblings.
Climbed(w, h, node, siblings, i) ==
  /\ w[0] = node
  /\ \A k \in 0..Len(siblings) : w[k] \in Seq(Nat)
  /\ \A k \in 1..Len(siblings) : w[k] = Turned(h, Bit(i, k - 1), w[k - 1], siblings[k])

LEMMA WalkUnfold ==
  ASSUME NEW h, h.mark \in Nat, NEW node \in Seq(Nat), NEW siblings \in Seq(Seq(Nat)), NEW i
  PROVE  \E w : Climbed(w, h, node, siblings, i) /\ Walk(h, node, siblings, i) = w[Len(siblings)]
<1> DEFINE d == Len(siblings)
           G == [k \in 1..d |-> [x \in Seq(Nat) |-> Turned(h, Bit(i, k - 1), x, siblings[k])]]
           Def(g) == g = [k \in 0..d |->
                        IF k = 0 THEN node
                        ELSE IF Bit(i, k - 1) = 1 THEN Inode(h, siblings[k], g[k - 1])
                             ELSE Inode(h, g[k - 1], siblings[k])]
<1>0. d \in Nat /\ \A k \in 1..d : siblings[k] \in Seq(Nat)
  OBVIOUS
<1>1. \A b : \A x, y \in Seq(Nat) : Turned(h, b, x, y) \in Seq(Nat)
  BY InodeInjective DEF Turned
<1> HIDE DEF d
<1>2. \E g : Ladder(g, G, node, d)
  <2> HIDE DEF G
  <2> QED
    BY <1>0, LadderExists
<1>3. PICK g : g = [k \in 0..d |-> IF k = 0 THEN node ELSE G[k][g[k - 1]]]
  BY <1>2 DEF Ladder
<1>4. ASSUME NEW k \in Nat, k + 1 <= d, g[k] \in Seq(Nat)
      PROVE  /\ g[k + 1] = Turned(h, Bit(i, k), g[k], siblings[k + 1])
             /\ g[k + 1] \in Seq(Nat)
  <2>1. k + 1 \in 0..d /\ k + 1 \in 1..d /\ k + 1 # 0 /\ (k + 1) - 1 = k
    BY <1>0, <1>4
  <2>2. g[k + 1] = G[k + 1][g[k]]
    <3> HIDE DEF G
    <3> QED
      BY <1>3, <2>1
  <2>3. G[k + 1][g[k]] = Turned(h, Bit(i, k), g[k], siblings[k + 1])
    BY <1>4, <2>1
  <2>4. Turned(h, Bit(i, k), g[k], siblings[k + 1]) \in Seq(Nat)
    BY <1>0, <1>1, <1>4, <2>1
  <2> QED
    BY <2>2, <2>3, <2>4
<1> DEFINE T == {k \in Nat : k <= d => g[k] \in Seq(Nat)}
<1>5. 0 \in T
  BY <1>0, <1>3
<1>6. ASSUME NEW k \in Nat, k \in T PROVE k + 1 \in T
  <2> SUFFICES ASSUME k + 1 <= d PROVE g[k + 1] \in Seq(Nat)
    OBVIOUS
  <2>1. g[k] \in Seq(Nat)
    BY <1>0, <1>6
  <2> HIDE DEF T, G
  <2> QED
    BY <1>4, <2>1
<1> HIDE DEF T
<1>7. Nat \subseteq T
  BY <1>5, <1>6, NatSetInduction
<1>8. \A k \in 0..d : g[k] \in Seq(Nat)
  BY <1>0, <1>7 DEF T
<1>9. \A k \in 1..d : g[k] = Turned(h, Bit(i, k - 1), g[k - 1], siblings[k])
  <2> TAKE k \in 1..d
  <2>1. k - 1 \in Nat /\ (k - 1) + 1 = k /\ (k - 1) + 1 <= d /\ k - 1 \in 0..d
    BY <1>0
  <2>2. g[k - 1] \in Seq(Nat)
    BY <1>8, <2>1
  <2>3. g[(k - 1) + 1] = Turned(h, Bit(i, k - 1), g[k - 1], siblings[(k - 1) + 1])
    BY <1>4, <2>1, <2>2
  <2> QED
    BY <2>1, <2>3
<1>10. g = [k \in 0..d |-> g[k]] /\ g[0] = node
  BY <1>0, <1>3
<1> HIDE DEF G
<1>11. Def(g)
  <2>1. \A k \in 0..d : g[k] = IF k = 0 THEN node
                        ELSE IF Bit(i, k - 1) = 1 THEN Inode(h, siblings[k], g[k - 1])
                             ELSE Inode(h, g[k - 1], siblings[k])
    <3> TAKE k \in 0..d
    <3>1. CASE k = 0
      BY <1>10, <3>1
    <3>2. CASE k # 0
      <4>1. k \in 1..d
        BY <1>0, <3>2
      <4>2. g[k] = Turned(h, Bit(i, k - 1), g[k - 1], siblings[k])
        BY <1>9, <4>1
      <4> QED
        BY <3>2, <4>2 DEF Turned
    <3> QED
      BY <3>1, <3>2
  <2> QED
    BY <1>10, <2>1
<1> DEFINE up == CHOOSE f : Def(f)
<1>12. Def(up)
  <2> HIDE DEF Def, up
  <2> QED
    BY <1>11 DEF up
<1>13. Walk(h, node, siblings, i) = up[d]
  BY DEF Walk, d
<1>14. up[0] = node /\ \A k \in 1..d : up[k] = Turned(h, Bit(i, k - 1), up[k - 1], siblings[k])
  <2> HIDE DEF up
  <2>1. up[0] = node
    BY <1>0, <1>12
  <2>2. ASSUME NEW k \in 1..d PROVE up[k] = Turned(h, Bit(i, k - 1), up[k - 1], siblings[k])
    <3>1. k \in 0..d /\ k # 0
      BY <1>0
    <3>2. up[k] = IF Bit(i, k - 1) = 1 THEN Inode(h, siblings[k], up[k - 1])
                             ELSE Inode(h, up[k - 1], siblings[k])
      BY <1>12, <3>1
    <3> QED
      BY <3>2 DEF Turned
  <2> QED
    BY <2>1, <2>2
<1> HIDE DEF up, Def
<1> DEFINE U == {k \in Nat : k <= d => up[k] = g[k]}
<1>15. 0 \in U
  BY <1>10, <1>14
<1>16. ASSUME NEW k \in Nat, k \in U PROVE k + 1 \in U
  <2> SUFFICES ASSUME k + 1 <= d PROVE up[k + 1] = g[k + 1]
    OBVIOUS
  <2>1. up[k] = g[k] /\ k + 1 \in 1..d /\ (k + 1) - 1 = k
    BY <1>0, <1>16
  <2>2. up[k + 1] = Turned(h, Bit(i, (k + 1) - 1), up[(k + 1) - 1], siblings[k + 1])
    BY <1>14, <2>1
  <2>3. g[k + 1] = Turned(h, Bit(i, (k + 1) - 1), g[(k + 1) - 1], siblings[k + 1])
    BY <1>9, <2>1
  <2> QED
    BY <2>1, <2>2, <2>3
<1> HIDE DEF U
<1>17. Nat \subseteq U
  BY <1>15, <1>16, NatSetInduction
<1>18. up[d] = g[d]
  BY <1>0, <1>17 DEF U
<1>19. Climbed(g, h, node, siblings, i)
  BY <1>8, <1>9, <1>10 DEF Climbed, d
<1> QED
  BY <1>13, <1>18, <1>19 DEF d

\* A path that leads to the root of a tree leads from one of its leaves.
LEMMA WalkBinds ==
  ASSUME NEW h, h.mark \in Nat, NEW d \in Nat, NEW leaves \in Nodes(d), NEW node \in Seq(Nat),
         NEW siblings \in Seq(Seq(Nat)), Len(siblings) = d, NEW i,
         Walk(h, node, siblings, i) = Root(h, leaves, d)
  PROVE  \E j \in Recs(d) : node = leaves[j]
<1> DEFINE lev == Levels(h, leaves, d)
<1>1. Leveled(lev, h, leaves, d)
  BY LevelsUnfold
<1>2. PICK w : Climbed(w, h, node, siblings, i) /\ Walk(h, node, siblings, i) = w[d]
  BY WalkUnfold
<1>3. w[d] = lev[d][0]
  BY <1>2 DEF Root
<1> HIDE DEF lev
<1> DEFINE Meets(n) == \E j \in 0..(2 ^ n - 1) : w[d - n] = lev[d - n][j]
           T == {n \in Nat : n <= d => Meets(n)}
<1>4. 0 \in T
  <2>1. 0 \in 0..(2 ^ 0 - 1) /\ d - 0 = d
    BY PowerZero
  <2> QED
    BY <1>3, <2>1
<1>5. ASSUME NEW n \in Nat, n \in T PROVE n + 1 \in T
  <2> SUFFICES ASSUME n + 1 <= d PROVE Meets(n + 1)
    OBVIOUS
  <2> DEFINE k == d - n
             f == lev[k - 1]
  <2>1. k \in 1..d /\ k - 1 = d - (n + 1) /\ k - 1 \in 0..d /\ d - k = n /\ d - (k - 1) = n + 1
    OBVIOUS
  <2>2. PICK j \in 0..(2 ^ n - 1) : w[k] = lev[k][j]
    BY <1>5
  <2> HIDE DEF k, T
  <2>3. f \in Nodes(n + 1) /\ lev[k] = Paired(h, f, n)
    BY <1>1, <2>1 DEF Leveled
  <2>4. 2 * j \in 0..(2 ^ (n + 1) - 1) /\ 2 * j + 1 \in 0..(2 ^ (n + 1) - 1)
    BY <2>3, PairedNodes
  <2> DEFINE a == f[2 * j]
             b == f[2 * j + 1]
             x == w[k - 1]
             y == siblings[k]
  <2>5. a \in Seq(Nat) /\ b \in Seq(Nat)
    BY <2>3, <2>4 DEF Nodes
  <2>6. x \in Seq(Nat) /\ y \in Seq(Nat) /\ w[k] = Turned(h, Bit(i, k - 1), x, y)
    BY <1>2, <2>1 DEF Climbed
  <2>7. w[k] = Inode(h, a, b)
    BY <2>2, <2>3 DEF Paired
  <2> HIDE DEF a, b, x, y, f
  <2>8. x = a \/ x = b
    <3>1. w[k] = Inode(h, y, x) \/ w[k] = Inode(h, x, y)
      BY <2>6 DEF Turned
    <3>2. Inode(h, y, x) = Inode(h, a, b) => y = a /\ x = b
      BY <2>5, <2>6, InodeInjective
    <3>3. Inode(h, x, y) = Inode(h, a, b) => x = a /\ y = b
      BY <2>5, <2>6, InodeInjective
    <3> QED
      BY <2>7, <3>1, <3>2, <3>3
  <2>9. \E l \in 0..(2 ^ (n + 1) - 1) : w[k - 1] = lev[k - 1][l]
    BY <2>4, <2>8 DEF a, b, x, f
  <2> QED
    BY <2>1, <2>9
<1> HIDE DEF T
<1>6. d \in T
  BY <1>4, <1>5, NatSetInduction
<1>7. Meets(d)
  <2> HIDE DEF Meets
  <2>1. d <= d
    OBVIOUS
  <2> QED
    BY <1>6, <2>1 DEF T
<1>8. w[0] = node /\ lev[0] = leaves /\ d - d = 0
  BY <1>1, <1>2 DEF Climbed, Leveled
<1> QED
  BY <1>7, <1>8 DEF Recs

\* The siblings of a leaf of the tree are nodes, one a level.
LEMMA PathTyped ==
  ASSUME NEW h, h.mark \in Nat, NEW d \in Nat, NEW leaves \in Nodes(d), NEW at \in Recs(d)
  PROVE  Path(h, leaves, d, at) \in Seq(Seq(Nat)) /\ Len(Path(h, leaves, d, at)) = d
<1> DEFINE lev == Levels(h, leaves, d)
           node(k) == lev[k - 1][Flip(at \div 2 ^ (k - 1))]
<1>1. Leveled(lev, h, leaves, d)
  BY LevelsUnfold
<1> HIDE DEF lev
<1>2. at \in Nat /\ at < 2 ^ d
  BY PowerPositive DEF Recs
<1>3. ASSUME NEW k \in 1..d PROVE node(k) \in Seq(Nat)
  <2> DEFINE n == d - k
             q == 2 ^ (k - 1)
             e == 2 ^ n
             y == at \div q
  <2>1. k - 1 \in Nat /\ n \in Nat /\ d = (k - 1) + (n + 1) /\ k - 1 \in 0..d /\ d - (k - 1) = n + 1
    OBVIOUS
  <2>2. q \in Nat /\ q > 0 /\ e \in Nat /\ 2 ^ (n + 1) = 2 * e
    BY <2>1, PowerPositive, PowerStep
  <2>3. 2 ^ d = q * (2 * e)
    <3> DEFINE l == k - 1
               m == n + 1
    <3>1. l \in Nat /\ m \in Nat /\ d = l + m
      BY <2>1
    <3> HIDE DEF l, m
    <3>2. 2 ^ d = 2 ^ l * 2 ^ m
      BY <3>1, PowerSum
    <3> QED
      BY <2>2, <3>2 DEF l, m
  <2> HIDE DEF n, q, e
  <2>4. y \in Nat /\ q * y <= at
    BY <1>2, <2>2, DivProps
  <2> HIDE DEF y
  <2>5. y < 2 * e
    <3>1. q * y < q * (2 * e)
      <4>1. q * y \in Nat /\ q * (2 * e) \in Nat
        BY <2>2, <2>4
      <4> QED
        BY <1>2, <2>3, <2>4, <4>1
    <3>2. \A a, b \in Nat : a >= b => q * a >= q * b
      <4> SUFFICES ASSUME NEW a \in Nat, NEW b \in Nat, a >= b PROVE q * a >= q * b
        OBVIOUS
      <4>1. PICK c \in Nat : a = b + c
        <5>1. a - b \in Nat /\ a = b + (a - b)
          OBVIOUS
        <5> QED
          BY <5>1
      <4>2. q * a = q * b + q * c /\ q * c \in Nat /\ q * b \in Nat
        BY <2>2, <4>1
      <4> QED
        BY <4>2
    <3>3. q * y \in Nat /\ q * (2 * e) \in Nat /\ 2 * e \in Nat
      BY <2>2, <2>4
    <3> QED
      BY <2>4, <3>1, <3>2, <3>3
  <2>6. Flip(y) \in 0..(2 * e - 1)
    BY <2>2, <2>4, <2>5 DEF Flip
  <2>7. lev[k - 1] \in [0..(2 * e - 1) -> Seq(Nat)]
    BY <1>1, <2>1, <2>2 DEF Leveled, Nodes
  <2>8. lev[k - 1][Flip(y)] \in Seq(Nat)
    BY <2>6, <2>7
  <2> QED
    BY <2>8 DEF y, q
<1>4. Path(h, leaves, d, at) = [k \in 1..d |-> node(k)]
  BY DEF Path, lev
<1> HIDE DEF node
<1> QED
  BY <1>3, <1>4

-----------------------------------------------------------------------------
(* Absence: what the non-membership circuit accepts is not in the tree. *)

LEMMA WalkLong ==
  ASSUME NEW h, h.mark \in Nat, NEW node \in Seq(Nat), Len(node) >= 2,
         NEW siblings \in Seq(Seq(Nat)), NEW i
  PROVE  Len(Walk(h, node, siblings, i)) >= 2 /\ Walk(h, node, siblings, i) # Vacant
<1> DEFINE d == Len(siblings)
           v == Walk(h, node, siblings, i)
<1>1. PICK w : Climbed(w, h, node, siblings, i) /\ v = w[d]
  BY WalkUnfold
<1>2. d \in Nat /\ \A k \in 1..d : siblings[k] \in Seq(Nat)
  OBVIOUS
<1> HIDE DEF v
<1>3. d = 0 => Len(v) >= 2
  <2> SUFFICES ASSUME d = 0 PROVE Len(v) >= 2
    OBVIOUS
  <2>1. w[d] = node
    BY <1>1 DEF Climbed
  <2> QED
    BY <1>1, <2>1
<1>4. d # 0 => Len(v) >= 2
  <2> SUFFICES ASSUME d # 0 PROVE Len(v) >= 2
    OBVIOUS
  <2> DEFINE x == w[d - 1]
             y == siblings[d]
  <2>1. d \in 1..d /\ d - 1 \in 0..d
    BY <1>2
  <2>2. x \in Seq(Nat) /\ y \in Seq(Nat) /\ w[d] = Turned(h, Bit(i, d - 1), x, y)
    BY <1>1, <1>2, <2>1 DEF Climbed
  <2> HIDE DEF x, y, d
  <2>3. Len(Turned(h, Bit(i, d - 1), x, y)) >= 2
    BY <2>2, InodeInjective DEF Turned
  <2> QED
    BY <1>1, <2>2, <2>3 DEF d
<1>5. Len(v) >= 2
  BY <1>3, <1>4
<1>6. v # Vacant
  <2> SUFFICES ASSUME v = Vacant PROVE FALSE
    OBVIOUS
  <2>1. Len(v) = 1
    BY DEF Vacant
  <2>2. 1 >= 2
    BY <1>5, <2>1
  <2> QED
    BY <2>2
<1> QED
  BY <1>5, <1>6 DEF v

\* An adjacent record of cells, with a path of d nodes.
TypedAdjacent(adj, d) ==
  TypedRecord(adj) /\ adj.siblings \in Seq(Seq(Nat)) /\ Len(adj.siblings) = d

LEMMA LeavesTyped ==
  ASSUME NEW h, h.mark \in Nat, NEW values \in SUBSET Seq(Nat), IsFiniteSet(values), NEW d \in Nat
  PROVE  RecordLeaves(h, RecordsOf(values, d), d) \in Nodes(d)
<1> DEFINE recs == RecordsOf(values, d)
<1>1. \A i \in Recs(d) : TypedRecord(recs[i])
  BY NothingStraddled
<1> HIDE DEF recs
<1>2. \A i \in Recs(d) : LeafNode(h, RecordData(recs[i])) \in Seq(Nat)
  <2> TAKE i \in Recs(d)
  <2>1. RecordData(recs[i]) \in Seq(Nat)
    BY <1>1, RecordCells
  <2> QED
    BY <2>1, LeafInjective
<1> QED
  BY <1>2 DEF RecordLeaves, Nodes, Recs, recs

LEMMA AbsenceSound ==
  ASSUME NEW h, h.mark \in Nat, NEW values \in SUBSET Seq(Nat), IsFiniteSet(values), NEW d \in Nat,
         NEW vb, NEW adj, TypedAdjacent(adj, d), NEW target,
         NonMember(h, target, adj, Given(ImtRoot(h, RecordsOf(values, d), d, vb)))
  PROVE  target \notin values
<1> DEFINE recs == RecordsOf(values, d)
           leaves == RecordLeaves(h, recs, d)
           node == LeafNode(h, RecordData(adj))
           root == Given(ImtRoot(h, recs, d, vb))
<1>1. Walk(h, node, adj.siblings, adj.at) = root /\ Less(adj.value, target) /\ Less(target, adj.next)
  BY DEF NonMember
<1>2. RecordData(adj) \in Seq(Nat)
  BY RecordCells DEF TypedAdjacent
<1>3. node \in Seq(Nat) /\ Len(node) >= 2
  BY <1>2, LeafInjective
<1>4. root = Vacant \/ root = Root(h, leaves, d)
  BY DEF Given, ImtRoot
<1>5. leaves \in Nodes(d)
  BY LeavesTyped
<1> HIDE DEF leaves, node, root, recs
<1>6. root # Vacant
  BY <1>1, <1>3, WalkLong DEF TypedAdjacent
<1>7. PICK j \in Recs(d) : node = leaves[j]
  BY <1>1, <1>3, <1>4, <1>5, <1>6, WalkBinds DEF TypedAdjacent
<1>8. TypedRecord(recs[j]) /\ \A v \in values : ~ (Less(recs[j].value, v) /\ Less(v, recs[j].next))
  BY NothingStraddled DEF recs
<1>9. RecordData(recs[j]) \in Seq(Nat)
  BY <1>8, RecordCells
<1>10. leaves[j] = LeafNode(h, RecordData(recs[j]))
  BY DEF leaves, RecordLeaves, Recs
<1>11. SameData(RecordData(adj), RecordData(recs[j]))
  BY <1>2, <1>7, <1>9, <1>10, LeafInjective DEF node
<1>12. adj.value = recs[j].value /\ adj.next = recs[j].next
  BY <1>8, <1>11, RecordInjective DEF TypedAdjacent
<1> QED
  BY <1>1, <1>8, <1>12

\* What an honest prover shows is a record of the tree and its path.
LEMMA AdjacentTyped ==
  ASSUME cfg.tree.mark \in Nat, NEW values \in SUBSET Seq(Nat), IsFiniteSet(values), NEW d \in Nat,
         NEW vb, NEW target
  PROVE  TypedAdjacent(Adjacent(values, d, vb, target), d)
<1> DEFINE recs == RecordsOf(values, d)
           leaves == RecordLeaves(cfg.tree, recs, d)
           found == LookupNonmember(cfg.tree, recs, d, vb, target)
           at == IF found = <<>> THEN 0 ELSE found[1]
           straddling == {i \in Recs(d) : Less(recs[i].value, target) /\ Less(target, recs[i].next)}
<1>1. found = <<>> \/ (straddling # {} /\ found = <<Min(straddling)>>)
  BY DEF LookupNonmember, Recs
<1>2. Recs(d) \subseteq Nat /\ 0 \in Recs(d)
  BY PowerPositive DEF Recs
<1>3. straddling # {} => Min(straddling) \in Recs(d)
  <2>1. straddling \in SUBSET Nat /\ straddling \subseteq Recs(d)
    BY <1>2
  <2> HIDE DEF straddling
  <2> QED
    BY <2>1, MinOf
<1> HIDE DEF found, straddling
<1>4. at \in Recs(d)
  BY <1>1, <1>2, <1>3
<1>5. Adjacent(values, d, vb, target) = Shown(recs, d, at)
  BY DEF Adjacent, AdjacentIn, found
<1> HIDE DEF at
<1>6. TypedRecord(recs[at])
  BY <1>4, NothingStraddled
<1>7. leaves \in Nodes(d)
  BY LeavesTyped
<1> HIDE DEF recs
<1>8. /\ Path(cfg.tree, leaves, d, at) \in Seq(Seq(Nat))
      /\ Len(Path(cfg.tree, leaves, d, at)) = d
  <2> HIDE DEF leaves
  <2> QED
    BY <1>4, <1>7, PathTyped
<1> DEFINE p == Path(cfg.tree, leaves, d, at)
<1>9. Shown(recs, d, at) = [value |-> recs[at].value, next |-> recs[at].next, index |-> recs[at].index,
                            at |-> at, siblings |-> p]
  BY DEF Shown
<1> HIDE DEF p, leaves
<1>10. TypedAdjacent(Shown(recs, d, at), d)
  BY <1>6, <1>8, <1>9 DEF TypedAdjacent, TypedRecord, p
<1> QED
  BY <1>5, <1>10

-----------------------------------------------------------------------------
(* Nullifiers. *)

\* Marks are numbers.
LEMMA MarksTyped == ASSUME NEW h \in Hashes \cup {NoHash} PROVE h.mark \in Nat
BY DEF Hashes, AesDm, Hirose, HiroseFixed32, HiroseFixed96, Grostl512, NoHash, Hash

LEMMA SetupFacts ==
  ASSUME setup \in Setups
  PROVE  /\ cfg.tree \in Hashes /\ cfg.tree.mark \in Nat /\ cfg.depth_s \in Nat
         /\ setup.scopes \subseteq Nat /\ setup.epochs \subseteq Epochs
         /\ setup.v1 \in BOOLEAN /\ (cfg.scope > 0 => ~ setup.v1)
         /\ "cfg" \in setup.asks /\ ~ setup.v1 => \/ Fingerprint(setup.alt) # Fingerprint(cfg)
                                                 \/ ShapeOf(setup.alt) # ShapeOf(cfg)
<1>1. cfg = setup.cfg
  BY DEF cfg
<1>2. /\ setup.cfg.tree \in Hashes /\ setup.cfg.depth_s \in Nat /\ setup.scopes \subseteq Nat
      /\ setup.v1 \in BOOLEAN /\ (setup.v1 => setup.cfg.scope = 0)
  BY SetupsAssumption
<1>3. "cfg" \in setup.asks /\ ~ setup.v1 => \/ Fingerprint(setup.alt) # Fingerprint(setup.cfg)
                                            \/ ShapeOf(setup.alt) # ShapeOf(setup.cfg)
  BY SetupsAssumption DEF Differ
<1>4. cfg.tree.mark \in Nat
  BY <1>1, <1>2, MarksTyped
<1>5. setup.epochs \subseteq Epochs
  BY DEF Epochs
<1>6. cfg.scope > 0 => cfg.scope # 0
  OBVIOUS
<1> QED
  BY <1>1, <1>2, <1>3, <1>4, <1>5, <1>6

\* Who shows, in which scope, and in which epoch when there are epochs.
Showable(show) == show \in People \X Nat \X (IF V6(cfg) THEN Epochs ELSE {0})
NullifierOf(show) == Prf(cfg, KeyOf(show[1], show[3]), <<show[2]>>)

LEMMA KeyTyped ==
  ASSUME NEW p \in People, NEW e \in IF V6(cfg) THEN Epochs ELSE {0}
  PROVE  KeyOf(p, e) \in Seq(Nat)
BY PeopleAssumption DEF KeyOf

LEMMA KeyInjective ==
  ASSUME NEW p \in People, NEW e \in IF V6(cfg) THEN Epochs ELSE {0},
         NEW q \in People, NEW f \in IF V6(cfg) THEN Epochs ELSE {0},
         KeyOf(p, e) = KeyOf(q, f)
  PROVE  p = q /\ e = f
<1>1. CASE V6(cfg)
  <2>1. EpochKeyOf(p, e) = EpochKeyOf(q, f) /\ e \in Epochs /\ f \in Epochs
    BY <1>1 DEF KeyOf
  <2> QED
    BY <2>1, PeopleAssumption
<1>2. CASE ~ V6(cfg)
  <2>1. SkOf(p) = SkOf(q) /\ e = 0 /\ f = 0
    BY <1>2 DEF KeyOf
  <2> QED
    BY <2>1, PeopleAssumption
<1> QED
  BY <1>1, <1>2

LEMMA NullifierInjective ==
  ASSUME NEW x, NEW y, Showable(x), Showable(y)
  PROVE  /\ NullifierOf(x) \in Seq(Nat)
         /\ NullifierOf(x) = NullifierOf(y) => x = y
<1> DEFINE mark == IF NullifierBytes(cfg) = 16 THEN 80 ELSE 81
           k == KeyOf(x[1], x[3])
           l == KeyOf(y[1], y[3])
           s == <<x[2]>>
           t == <<y[2]>>
<1>1. /\ x[1] \in People /\ x[2] \in Nat /\ x[3] \in (IF V6(cfg) THEN Epochs ELSE {0})
      /\ y[1] \in People /\ y[2] \in Nat /\ y[3] \in (IF V6(cfg) THEN Epochs ELSE {0})
      /\ x = <<x[1], x[2], x[3]>> /\ y = <<y[1], y[2], y[3]>>
  BY DEF Showable
<1>2. k \in Seq(Nat) /\ l \in Seq(Nat)
  BY <1>1, KeyTyped
<1>3. /\ s \in Seq(Nat) /\ Len(s) = 1 /\ t \in Seq(Nat) /\ Len(t) = 1
      /\ (s = t => x[2] = y[2])
  BY <1>1
<1>4. NullifierOf(x) = Digest(mark, k \o s) /\ NullifierOf(y) = Digest(mark, l \o t)
  BY DEF NullifierOf, Prf
<1>5. mark \in Nat
  OBVIOUS
<1>6. k = l => x[1] = y[1] /\ x[3] = y[3]
  BY <1>1, KeyInjective
<1> HIDE DEF mark, k, l, s, t
<1>7. k \o s \in Seq(Nat) /\ ConcatOf(k \o s, k, s)
  BY <1>2, <1>3, ConcatCells
<1>8. l \o t \in Seq(Nat) /\ ConcatOf(l \o t, l, t)
  BY <1>2, <1>3, ConcatCells
<1>9. /\ Digest(mark, k \o s) \in Seq(Nat)
      /\ Digest(mark, k \o s) = Digest(mark, l \o t) => k \o s = l \o t
  BY <1>5, <1>7, <1>8, DigestInjective
<1>10. k \o s = l \o t => Len(k) = Len(l)
  <2> SUFFICES ASSUME k \o s = l \o t PROVE Len(k) = Len(l)
    OBVIOUS
  <2>1. Len(k \o s) = Len(k) + 1 /\ Len(l \o t) = Len(l) + 1 /\ Len(k) \in Nat /\ Len(l) \in Nat
    BY <1>2, <1>3, <1>7, <1>8 DEF ConcatOf
  <2> QED
    BY <2>1
<1>11. Len(k) = Len(l) => (k \o s = l \o t => k = l /\ s = t)
  BY <1>2, <1>3, ConcatCancel
<1>12. NullifierOf(x) = NullifierOf(y) => k = l /\ s = t
  BY <1>4, <1>9, <1>10, <1>11
<1> QED
  BY <1>1, <1>3, <1>4, <1>6, <1>9, <1>12

-----------------------------------------------------------------------------
(* What a signature on its way was made of. *)

\* The signature s was made for the request r.
BoundTo(s, r) ==
  /\ s.proof.shape = ShapeOf(cfg) /\ s.proof.fs.protocol = "RS" /\ s.proof.fs.fp = Fingerprint(cfg)
  /\ s.proof.inst.T = s.pub.T /\ s.pub.T = NullifierOf(ShowOf(r))
  /\ cfg.depth_s > 0 => TypedAdjacent(s.proof.wit.spent, cfg.depth_s)

Requested(r) == r.who \in People /\ r.scope \in setup.scopes /\ r.epoch \in setup.epochs

\* What is on its way comes from what was tried before it.
Control ==
  /\ setup \in Setups
  /\ sig # <<>> => tried # <<>>
  /\ packer # <<>> => sig # <<>> /\ wire = <<>>
  /\ wire # <<>> => sig # <<>>

NullifierInv ==
  /\ IsFiniteSet(accepted)
  /\ cfg.scope > 0 => \A a \in accepted : Showable(a.show) /\ a.T = NullifierOf(a.show)
  /\ cfg.scope > 0 /\ cfg.depth_s > 0 => \A x, y \in accepted : x.T = y.T => x = y

SignedInv ==
  cfg.scope > 0 /\ sig # <<>> => Requested(tried[1].req) /\ BoundTo(sig[1], tried[1].req)

IInv == Control /\ NullifierInv /\ SignedInv

LEMMA ShowOfRequest ==
  ASSUME setup \in Setups, NEW r, Requested(r)
  PROVE  Showable(ShowOf(r))
<1>1. Supplies(r)["sk"] \in People
  <2>1. Other(r.who) \in People
    BY PeopleAssumption DEF Other, Requested
  <2> QED
    BY <2>1 DEF Supplies, Fields, Requested
<1>2. r.scope \in Nat /\ r.epoch \in Epochs
  BY SetupFacts DEF Requested
<1> QED
  BY <1>1, <1>2 DEF ShowOf, Showable

LEMMA SpentTyped ==
  ASSUME setup \in Setups, NullifierInv, cfg.scope > 0
  PROVE  SpentValues \in SUBSET Seq(Nat) /\ IsFiniteSet(SpentValues)
<1>1. \A a \in accepted : a.T \in Seq(Nat)
  BY NullifierInjective DEF NullifierInv
<1> DEFINE f == [a \in accepted |-> a.T]
<1>2. f \in Surjection(accepted, SpentValues)
  BY DEF Surjection, SpentValues
<1> HIDE DEF f
<1>3. IsFiniteSet(SpentValues)
  BY <1>2, FS_Surjection DEF NullifierInv
<1> QED
  BY <1>1, <1>3 DEF SpentValues

\* The parts of what Sign makes that the nullifier rests on.
LEMMA PackedParts ==
  ASSUME NEW sk, NEW attrs, NEW path, NEW id, NEW rand,
         PackWitness(cfg, sk, attrs, path, id, rand) # <<>>
  PROVE  LET wit == PackWitness(cfg, sk, attrs, path, id, rand)[1]
         IN  wit.sk = sk /\ wit.epoch_sk = path.epoch_sk /\ wit.spent = path.spent
BY DEF PackWitness

LEMMA InstanceParts ==
  ASSUME NEW pub, FillInstance(cfg, pub) # <<>>
  PROVE  LET inst == FillInstance(cfg, pub)[1]
         IN  /\ cfg.scope > 0 => inst.T = pub.T /\ inst.scope = pub.scope
             /\ cfg.depth_s > 0 => inst.spent = pub.spent
BY DEF FillInstance

LEMMA SeedParts ==
  ASSUME NEW c, NEW pub, NEW m, FsSeed(c, pub, m) # <<>>
  PROVE  FsSeed(c, pub, m)[1].protocol = "RS" /\ FsSeed(c, pub, m)[1].fp = Fingerprint(c)
BY DEF FsSeed

LEMMA SignParts ==
  ASSUME NEW sk, NEW attrs, NEW path, NEW id, NEW rand, NEW pub, NEW m, cfg.scope > 0,
         Sign(cfg, Params, sk, attrs, path, id, rand, pub, m) # <<>>
  PROVE  LET proof == Sign(cfg, Params, sk, attrs, path, id, rand, pub, m)[1]
         IN  /\ proof.shape = ShapeOf(cfg) /\ proof.fs.protocol = "RS"
             /\ proof.fs.fp = Fingerprint(cfg)
             /\ proof.inst.T = pub.T /\ proof.wit.spent = path.spent
             /\ pub.T = Prf(cfg, IF V6(cfg) THEN path.epoch_sk ELSE sk, pub.scope)
             /\ Builds(cfg)
<1> DEFINE pinned == [path EXCEPT !.epoch = pub.epoch]
           pw == PackWitness(cfg, sk, attrs, pinned, id, rand)
           fi == FillInstance(cfg, pub)
           fs == FsSeed(cfg, pub, m)
           wit == pw[1]
           inst == fi[1]
           proof == Sign(cfg, Params, sk, attrs, path, id, rand, pub, m)
<1>1. /\ Builds(cfg) /\ pw # <<>> /\ fi # <<>> /\ fs # <<>>
      /\ proof = Prove(Params, cfg, fs[1], wit, inst)
  BY DEF Sign
<1>2. pinned.epoch_sk = path.epoch_sk /\ pinned.spent = path.spent
  OBVIOUS
<1> HIDE DEF pinned
<1>3. wit.sk = sk /\ wit.epoch_sk = path.epoch_sk /\ wit.spent = path.spent
  BY <1>1, <1>2, PackedParts
<1>4. inst.T = pub.T /\ inst.scope = pub.scope
  BY <1>1, InstanceParts
<1>5. fs[1].protocol = "RS" /\ fs[1].fp = Fingerprint(cfg)
  BY <1>1, SeedParts
<1> HIDE DEF pw, fi, fs, wit, inst
<1>6. /\ Relation(cfg, wit, inst)
      /\ proof = <<[params |-> Params, shape |-> ShapeOf(cfg), fs |-> fs[1], inst |-> inst, wit |-> wit]>>
  BY <1>1 DEF Prove
<1>7. inst.T = Prf(cfg, IF V6(cfg) THEN wit.epoch_sk ELSE wit.sk, inst.scope)
  BY <1>6 DEF Relation, NullifierOk
<1> HIDE DEF proof
<1>8. /\ proof[1].shape = ShapeOf(cfg) /\ proof[1].fs = fs[1] /\ proof[1].inst = inst
      /\ proof[1].wit = wit
  BY <1>6
<1>9. pub.T = Prf(cfg, IF V6(cfg) THEN path.epoch_sk ELSE sk, pub.scope)
  BY <1>3, <1>4, <1>7
<1>10. /\ proof[1].fs.protocol = "RS" /\ proof[1].fs.fp = Fingerprint(cfg)
       /\ proof[1].inst.T = pub.T /\ proof[1].wit.spent = path.spent
  BY <1>3, <1>4, <1>5, <1>8
<1> QED
  BY <1>1, <1>8, <1>9, <1>10 DEF proof

LEMMA RequestParts ==
  ASSUME NEW r
  PROVE  /\ cfg.scope > 0 => PubOf(r).scope = <<r.scope>>
         /\ \A pub : /\ V6(cfg) => PathOf(r, pub).epoch_sk = EpochKeyOf(Supplies(r)["sk"], r.epoch)
                     /\ cfg.depth_s > 0 =>
                          PathOf(r, pub).spent =
                            Adjacent(SpentOf(r), cfg.depth_s, NullifierBytes(cfg), pub.T)
<1>1. cfg.scope > 0 => PubOf(r).scope = <<r.scope>>
  BY DEF PubOf, PubWith, On
<1>2. ASSUME NEW pub, V6(cfg) PROVE PathOf(r, pub).epoch_sk = EpochKeyOf(Supplies(r)["sk"], r.epoch)
  BY <1>2 DEF PathOf, On
<1>3. ASSUME NEW pub, cfg.depth_s > 0
      PROVE  PathOf(r, pub).spent = Adjacent(SpentOf(r), cfg.depth_s, NullifierBytes(cfg), pub.T)
  BY <1>3 DEF PathOf, On
<1> QED
  BY <1>1, <1>2, <1>3

\* A signature that was made is bound to its request.
LEMMA SignedIsBound ==
  ASSUME setup \in Setups, NullifierInv, cfg.scope > 0, NEW r, Requested(r), NEW pub, pub = PubOf(r),
         NEW path, path = PathOf(r, pub), SignRequest(r, pub, path) # <<>>
  PROVE  BoundTo([proof |-> SignRequest(r, pub, path)[1], pub |-> pub], r)
<1> DEFINE sk == On(cfg.sk > 0, SkOf(Supplies(r)["sk"]))
           attrs == On(cfg.schema # <<>>, AttrsOf(Supplies(r)["attrs"]))
           id == IdOf(Supplies(r)["id"])
           proof == SignRequest(r, pub, path)
           key == IF V6(cfg) THEN path.epoch_sk ELSE sk
<1>1. ~ setup.v1
  BY SetupFacts
<1>2. proof = Sign(cfg, Params, sk, attrs, path, id, RandOf(r.who), pub, "m")
  BY <1>1 DEF SignRequest
<1> HIDE DEF proof, sk, attrs, id
<1>3. /\ proof[1].shape = ShapeOf(cfg) /\ proof[1].fs.protocol = "RS"
      /\ proof[1].fs.fp = Fingerprint(cfg)
      /\ proof[1].inst.T = pub.T /\ proof[1].wit.spent = path.spent
      /\ pub.T = Prf(cfg, key, pub.scope)
      /\ Builds(cfg)
  <2>1. proof # <<>>
    BY DEF proof
  <2> QED
    BY <1>2, <2>1, SignParts
<1>4. key = KeyOf(Supplies(r)["sk"], r.epoch)
  <2>1. CASE V6(cfg)
    BY <2>1, RequestParts DEF KeyOf
  <2>2. CASE ~ V6(cfg)
    <3>1. cfg.sk > 0
      BY <1>3, <2>2 DEF Builds, Validate, Structural
    <3> QED
      BY <2>2, <3>1 DEF KeyOf, sk, On
  <2> QED
    BY <2>1, <2>2
<1>5. pub.scope = <<r.scope>>
  BY RequestParts
<1>6. KeyOf(Supplies(r)["sk"], r.epoch) = KeyOf(ShowOf(r)[1], ShowOf(r)[3]) /\ ShowOf(r)[2] = r.scope
  BY DEF ShowOf, KeyOf
<1>7. pub.T = NullifierOf(ShowOf(r))
  BY <1>3, <1>4, <1>5, <1>6 DEF NullifierOf
<1>8. cfg.depth_s > 0 => TypedAdjacent(path.spent, cfg.depth_s)
  <2> SUFFICES ASSUME cfg.depth_s > 0 PROVE TypedAdjacent(path.spent, cfg.depth_s)
    OBVIOUS
  <2>1. path.spent = Adjacent(SpentOf(r), cfg.depth_s, NullifierBytes(cfg), pub.T)
    BY RequestParts
  <2>2. SpentOf(r) \in SUBSET Seq(Nat) /\ IsFiniteSet(SpentOf(r))
    BY SpentTyped, FS_EmptySet DEF SpentOf
  <2>3. cfg.tree.mark \in Nat /\ cfg.depth_s \in Nat
    BY SetupFacts
  <2> QED
    BY <2>1, <2>2, <2>3, AdjacentTyped
<1> DEFINE s == [proof |-> proof[1], pub |-> pub]
<1>9. s.proof = proof[1] /\ s.pub = pub
  OBVIOUS
<1> HIDE DEF s
<1>10. BoundTo(s, r)
  BY <1>3, <1>7, <1>8, <1>9 DEF BoundTo
<1> QED
  BY <1>10 DEF s, proof

\* A signature that is accepted proves that its nullifier is not spent.
LEMMA AcceptedIsFresh ==
  ASSUME IInv, cfg.scope > 0, cfg.depth_s > 0, sig # <<>>, NEW dev \in setup.asks, Verdict(dev)
  PROVE  sig[1].pub.T \notin SpentValues
<1> DEFINE proof == sig[1].proof
           vcfg == IF dev = "cfg" THEN setup.alt ELSE cfg
           params == IF dev = "params" THEN "other" ELSE Params
           m == IF dev = "message" THEN "m2" ELSE "m"
           tag == TagOf(vcfg, Params)
           asked == AskedOf(dev, tag)
<1>1. setup \in Setups /\ BoundTo(sig[1], tried[1].req)
  BY DEF IInv, Control, SignedInv
<1>2. setup.v1 = FALSE
  BY <1>1, SetupFacts
<1>3. Judges(dev, vcfg, params, m, asked)
  BY DEF Verdict
<1> HIDE DEF vcfg, params, m, tag, asked
<1>4. dev # "protocol"
  <2> SUFFICES ASSUME dev = "protocol" PROVE FALSE
    OBVIOUS
  <2>1. VerifyV1(proof, vcfg, params, asked.root, asked.rev, m)
    BY <1>2, <1>3 DEF Judges
  <2>2. proof.fs = FsSeedV1(vcfg, asked.root, asked.rev, m)
    BY <2>1 DEF VerifyV1
  <2>3. FsSeedV1(vcfg, asked.root, asked.rev, m).protocol = "RSv1"
    BY DEF FsSeedV1
  <2> QED
    BY <1>1, <2>2, <2>3 DEF BoundTo
<1>5. Verify(proof, vcfg, params, asked, m)
  BY <1>2, <1>3, <1>4 DEF Judges
<1>6. /\ FillInstance(vcfg, asked) # <<>> /\ FsSeed(vcfg, asked, m) # <<>>
      /\ VerifyProof(proof, params, vcfg, FsSeed(vcfg, asked, m)[1], FillInstance(vcfg, asked)[1])
  BY <1>5 DEF Verify
<1>7. /\ proof.shape = ShapeOf(vcfg) /\ proof.fs = FsSeed(vcfg, asked, m)[1]
      /\ proof.inst = FillInstance(vcfg, asked)[1]
      /\ Relation(vcfg, proof.wit, proof.inst)
  BY <1>6 DEF VerifyProof
<1>8. dev # "cfg"
  <2> SUFFICES ASSUME dev = "cfg" PROVE FALSE
    OBVIOUS
  <2>1. vcfg = setup.alt
    BY DEF vcfg
  <2>2. FsSeed(vcfg, asked, m)[1].fp = Fingerprint(vcfg)
    BY <1>6, SeedParts
  <2>3. ShapeOf(vcfg) = ShapeOf(cfg) /\ Fingerprint(vcfg) = Fingerprint(cfg)
    BY <1>1, <1>7, <2>2 DEF BoundTo
  <2> QED
    BY <1>1, <1>2, <2>1, <2>3, SetupFacts
<1>9. vcfg = cfg
  BY <1>8 DEF vcfg
<1>10. proof.inst.spent = asked.spent
  BY <1>6, <1>7, <1>9, InstanceParts
<1>11. asked.spent = SpentRoot(SpentValues)
  BY DEF asked, AskedOf
<1>12. SpentRoot(SpentValues) =
         Given(ImtRoot(cfg.tree, RecordsOf(SpentValues, cfg.depth_s), cfg.depth_s, NullifierBytes(cfg)))
  BY DEF SpentRoot, On, RootOf
<1>13. NonMember(cfg.tree, sig[1].pub.T, proof.wit.spent, proof.inst.spent)
  BY <1>1, <1>7, <1>9 DEF Relation, BoundTo
<1>14. SpentValues \in SUBSET Seq(Nat) /\ IsFiniteSet(SpentValues)
  BY <1>1, SpentTyped DEF IInv
<1>15. cfg.tree.mark \in Nat /\ cfg.depth_s \in Nat /\ TypedAdjacent(proof.wit.spent, cfg.depth_s)
  BY <1>1, SetupFacts DEF BoundTo
<1> DEFINE adj == proof.wit.spent
           target == sig[1].pub.T
           values == SpentValues
           h == cfg.tree
           d == cfg.depth_s
           vb == NullifierBytes(cfg)
<1>16. /\ h.mark \in Nat /\ d \in Nat /\ TypedAdjacent(adj, d)
       /\ NonMember(h, target, adj, Given(ImtRoot(h, RecordsOf(values, d), d, vb)))
       /\ values \in SUBSET Seq(Nat) /\ IsFiniteSet(values)
  BY <1>10, <1>11, <1>12, <1>13, <1>14, <1>15
<1> HIDE DEF adj, target, values, h, d, vb
<1>17. target \notin values
  BY <1>16, AbsenceSound
<1> QED
  BY <1>17 DEF target, values

-----------------------------------------------------------------------------
(* The invariant. *)

LEMMA InitInv == Init => IInv
<1> SUFFICES ASSUME Init PROVE IInv
  OBVIOUS
<1>1. /\ setup \in Setups /\ sig = <<>> /\ packer = <<>> /\ wire = <<>> /\ accepted = {}
  BY DEF Init
<1> QED
  BY <1>1, FS_EmptySet DEF IInv, Control, NullifierInv, SignedInv

\* Steps that touch neither a signature nor what was accepted.
LEMMA KeepsInv ==
  ASSUME IInv, UNCHANGED <<setup, sig, tried, accepted>>, Control'
  PROVE  IInv'
<1>1. cfg' = cfg
  BY DEF cfg
<1>2. \A show : Showable(show)' <=> Showable(show)
  BY <1>1 DEF Showable
<1>3. \A show : NullifierOf(show)' = NullifierOf(show)
  BY <1>1 DEF NullifierOf, KeyOf
<1>4. NullifierInv'
  BY <1>1, <1>2, <1>3 DEF IInv, NullifierInv
<1>5. SignedInv'
  <2>1. \A r : ShowOf(r)' = ShowOf(r)
    BY <1>1 DEF ShowOf, Supplies
  <2>2. \A s, r : BoundTo(s, r)' <=> BoundTo(s, r)
    BY <1>1, <1>3, <2>1 DEF BoundTo
  <2>3. \A r : Requested(r)' <=> Requested(r)
    BY DEF Requested
  <2> QED
    BY <1>1, <2>2, <2>3 DEF IInv, SignedInv
<1> QED
  BY <1>4, <1>5 DEF IInv

LEMMA TryInv == ASSUME IInv, Try PROVE IInv'
<1>1. PICK who \in People, slot \in Slots, dev \in Devs, scope \in setup.scopes, epoch \in setup.epochs :
        LET r == [who |-> who, slot |-> slot, dev |-> dev, scope |-> scope, epoch |-> epoch]
        IN  \E pub \in {PubOf(r)} : \E proof \in {SignRequest(r, pub, PathOf(r, pub))} :
              /\ sig' = IF proof = <<>> THEN <<>> ELSE <<[proof |-> proof[1], pub |-> pub]>>
              /\ tried' = <<[req |-> r, made |-> proof # <<>>, revoked |-> RevOf(r),
                             shows |-> IF dev = "stale" THEN {} ELSE {a.show : a \in accepted}]>>
  BY DEF Try
<1> DEFINE r == [who |-> who, slot |-> slot, dev |-> dev, scope |-> scope, epoch |-> epoch]
           pub == PubOf(r)
           path == PathOf(r, pub)
           proof == SignRequest(r, pub, path)
           s == [proof |-> proof[1], pub |-> pub]
<1>2. r.who = who /\ r.scope = scope /\ r.epoch = epoch
  OBVIOUS
<1>3. /\ sig' = IF proof = <<>> THEN <<>> ELSE <<s>>
      /\ tried' # <<>> /\ tried'[1].req = r
  BY <1>1
<1>4. /\ tried = <<>> /\ UNCHANGED <<setup, packer, wire, accepted>>
  BY DEF Try
<1>5. cfg' = cfg
  BY <1>4 DEF cfg
<1> HIDE DEF r
<1>6. Requested(r)
  BY <1>2 DEF Requested
<1>7. cfg.scope > 0 /\ proof # <<>> => BoundTo(s, r)
  <2> DEFINE p == pub
             q == path
  <2>1. p = PubOf(r) /\ q = PathOf(r, p) /\ setup \in Setups /\ NullifierInv
    BY DEF IInv, Control
  <2> HIDE DEF p, q
  <2>2. cfg.scope > 0 /\ SignRequest(r, p, q) # <<>> =>
          BoundTo([proof |-> SignRequest(r, p, q)[1], pub |-> p], r)
    BY <1>6, <2>1, SignedIsBound
  <2> QED
    BY <2>2 DEF p, q
<1> HIDE DEF s, proof, path, pub
<1>8. packer = <<>> /\ wire = <<>>
  BY <1>4 DEF IInv, Control
<1>9. Control'
  BY <1>3, <1>4, <1>8 DEF IInv, Control
<1>10. \A show : Showable(show)' <=> Showable(show)
  BY <1>5 DEF Showable
<1>11. \A show : NullifierOf(show)' = NullifierOf(show)
  BY <1>4, <1>5 DEF NullifierOf, KeyOf
<1>12. NullifierInv'
  BY <1>4, <1>5, <1>10, <1>11 DEF IInv, NullifierInv
<1>13. SignedInv'
  <2> SUFFICES ASSUME cfg.scope > 0, sig' # <<>> PROVE SignedInv'
    BY <1>5 DEF SignedInv
  <2>1. \E x, y : sig' = <<x>> /\ tried'[1].req = y /\ Requested(y) /\ BoundTo(x, y)
    BY <1>3, <1>6, <1>7
  <2>2. PICK x, y : sig' = <<x>> /\ tried'[1].req = y /\ Requested(y) /\ BoundTo(x, y)
    BY <2>1
  <2>3. ShowOf(y)' = ShowOf(y)
    BY <1>5 DEF ShowOf, Supplies
  <2>4. BoundTo(x, y)'
    BY <1>5, <1>11, <2>2, <2>3 DEF BoundTo
  <2>5. Requested(y)'
    BY <1>4, <2>2 DEF Requested
  <2>6. sig'[1] = x
    BY <2>2
  <2> QED
    BY <2>2, <2>4, <2>5, <2>6 DEF SignedInv
<1> QED
  BY <1>9, <1>12, <1>13 DEF IInv

LEMMA ReceiveInv == ASSUME IInv, Receive PROVE IInv'
<1> DEFINE r == tried[1].req
           new == [n |-> Cardinality(accepted), T |-> sig[1].pub.T, by |-> enrolled[r.slot],
                   show |-> <<Supplies(r)["sk"], r.scope, IF V6(cfg) THEN r.epoch ELSE 0>>,
                   s |-> sig[1].pub.s, ct |-> sig[1].pub.ct]
<1>1. /\ wire # <<>> /\ wire' = <<>> /\ sig' = <<>> /\ UNCHANGED <<setup, packer>>
  BY DEF Receive
<1>2. PICK dev \in setup.asks : accepted' = accepted \cup (IF Verdict(dev) THEN {new} ELSE {})
  BY DEF Receive
<1>3. new.T = sig[1].pub.T /\ new.show = ShowOf(r)
  BY DEF ShowOf
<1> HIDE DEF new, r
<1>4. sig # <<>> /\ packer = <<>>
  BY <1>1 DEF IInv, Control
<1>5. cfg' = cfg
  BY <1>1 DEF cfg
<1>6. Control'
  BY <1>1, <1>4 DEF IInv, Control
<1>7. SignedInv'
  BY <1>1 DEF SignedInv
<1>8. \A show : Showable(show)' <=> Showable(show)
  BY <1>5 DEF Showable
<1>9. \A show : NullifierOf(show)' = NullifierOf(show)
  BY <1>1, <1>5 DEF NullifierOf, KeyOf
<1>10. CASE ~ Verdict(dev)
  <2>1. accepted' = accepted
    BY <1>2, <1>10
  <2>2. NullifierInv'
    BY <1>5, <1>8, <1>9, <2>1 DEF IInv, NullifierInv
  <2> QED
    BY <1>6, <1>7, <2>2 DEF IInv
<1>11. CASE Verdict(dev)
  <2>1. accepted' = accepted \cup {new}
    BY <1>2, <1>11
  <2>2. IsFiniteSet(accepted')
    BY <2>1, FS_AddElement DEF IInv, NullifierInv
  <2>3. cfg.scope > 0 => Showable(new.show) /\ new.T = NullifierOf(new.show)
    <3> SUFFICES ASSUME cfg.scope > 0 PROVE Showable(new.show) /\ new.T = NullifierOf(new.show)
      OBVIOUS
    <3>1. Requested(r) /\ BoundTo(sig[1], r) /\ setup \in Setups
      BY <1>4 DEF IInv, SignedInv, Control, r
    <3> QED
      BY <1>3, <3>1, ShowOfRequest DEF BoundTo
  <2>4. cfg.scope > 0 /\ cfg.depth_s > 0 => \A a \in accepted : a.T # new.T
    <3>1. cfg.scope > 0 /\ cfg.depth_s > 0 => sig[1].pub.T \notin SpentValues
      BY <1>4, <1>11, AcceptedIsFresh
    <3> QED
      BY <1>3, <3>1 DEF SpentValues
  <2>5. cfg.scope > 0 => \A a \in accepted' : Showable(a.show)' /\ a.T = NullifierOf(a.show)'
    BY <1>8, <1>9, <2>1, <2>3 DEF IInv, NullifierInv
  <2>6. cfg.scope > 0 /\ cfg.depth_s > 0 => \A x, y \in accepted' : x.T = y.T => x = y
    BY <2>1, <2>4 DEF IInv, NullifierInv
  <2>7. NullifierInv'
    BY <1>5, <2>2, <2>5, <2>6 DEF NullifierInv
  <2> QED
    BY <1>6, <1>7, <2>7 DEF IInv
<1> QED
  BY <1>10, <1>11

\* Steps that only drop the signature, or what is recorded of the attempt.
LEMMA DropsInv ==
  ASSUME IInv, UNCHANGED <<setup, accepted>>, sig' = <<>>, Control'
  PROVE  IInv'
<1>1. cfg' = cfg
  BY DEF cfg
<1>2. \A show : Showable(show)' <=> Showable(show)
  BY <1>1 DEF Showable
<1>3. \A show : NullifierOf(show)' = NullifierOf(show)
  BY <1>1 DEF NullifierOf, KeyOf
<1>4. NullifierInv'
  BY <1>1, <1>2, <1>3 DEF IInv, NullifierInv
<1>5. SignedInv'
  BY DEF SignedInv
<1> QED
  BY <1>4, <1>5 DEF IInv

LEMMA NextInv == ASSUME IInv, [Next]_vars PROVE IInv'
<1> USE DEF After
<1>0. Control
  BY DEF IInv
<1>1. CASE UNCHANGED vars
  <2>1. UNCHANGED <<setup, sig, tried, accepted>> /\ Control'
    BY <1>0, <1>1 DEF vars, Control
  <2> QED
    BY <2>1, KeepsInv
<1>2. CASE Begin
  <2>1. UNCHANGED <<setup, sig, tried, accepted>> /\ Control'
    BY <1>0, <1>2 DEF Begin, Control
  <2> QED
    BY <2>1, KeepsInv
<1>3. CASE Set
  <2>1. UNCHANGED <<setup, sig, tried, accepted>> /\ Control'
    BY <1>0, <1>3 DEF Set, Control
  <2> QED
    BY <2>1, KeepsInv
<1>4. CASE End
  <2>1. UNCHANGED <<setup, sig, tried, accepted>> /\ Control'
    BY <1>0, <1>4 DEF End, Control
  <2> QED
    BY <2>1, KeepsInv
<1>5. CASE Final
  <2>1. UNCHANGED <<setup, sig, tried, accepted>> /\ Control'
    BY <1>0, <1>5 DEF Final, Control
  <2> QED
    BY <2>1, KeepsInv
<1>6. CASE BuildAtOnce
  <2>1. UNCHANGED <<setup, sig, tried, accepted>> /\ Control'
    BY <1>0, <1>6 DEF BuildAtOnce, Control
  <2> QED
    BY <2>1, KeepsInv
<1>7. CASE Revoke
  <2>1. UNCHANGED <<setup, sig, tried, accepted>> /\ Control'
    BY <1>0, <1>7 DEF Revoke, Control
  <2> QED
    BY <2>1, KeepsInv
<1>8. CASE Try
  BY <1>8, TryInv
<1>9. CASE SendBare
  <2>1. UNCHANGED <<setup, sig, tried, accepted>> /\ Control'
    BY <1>0, <1>9 DEF SendBare, Control
  <2> QED
    BY <2>1, KeepsInv
<1>10. CASE OpenPacker
  <2>1. UNCHANGED <<setup, sig, tried, accepted>> /\ Control'
    BY <1>0, <1>10 DEF OpenPacker, Control
  <2> QED
    BY <2>1, KeepsInv
<1>11. CASE Pack
  <2>1. UNCHANGED <<setup, sig, tried, accepted>> /\ Control'
    BY <1>0, <1>11 DEF Pack, Control
  <2> QED
    BY <2>1, KeepsInv
<1>12. CASE Close
  <2>1. Control' /\ UNCHANGED <<setup, tried, accepted>> /\ (sig' = sig \/ sig' = <<>>)
    BY <1>0, <1>12 DEF Close, Control
  <2> QED
    BY <2>1, KeepsInv, DropsInv
<1>13. CASE Spoil
  <2>1. UNCHANGED <<setup, sig, tried, accepted>> /\ Control'
    BY <1>0, <1>13 DEF Spoil, Control
  <2> QED
    BY <2>1, KeepsInv
<1>14. CASE Receive
  BY <1>14, ReceiveInv
<1>15. CASE Settle
  <2>1. UNCHANGED <<setup, accepted>> /\ sig' = <<>> /\ Control'
    BY <1>0, <1>15 DEF Settle, Control
  <2> QED
    BY <2>1, DropsInv
<1> QED
  BY <1>1, <1>2, <1>3, <1>4, <1>5, <1>6, <1>7, <1>8, <1>9, <1>10, <1>11, <1>12, <1>13, <1>14, <1>15
     DEF Next

\* What is on its way and what was accepted is as IInv says.
THEOREM RingInvariant == Spec => []IInv
<1>1. Init => IInv
  BY InitInv
<1>2. IInv /\ [Next]_vars => IInv'
  BY NextInv
<1> QED
  BY <1>1, <1>2, PTL DEF Spec

\* A key has one nullifier a scope (and epoch), different keys have different
\* ones, and where a spent set is kept no nullifier is accepted twice, whatever
\* the requests, the envelopes and the verifiers' mistakes
\* (voleith_rs_nullifier_equal, voleith_rs_build_circuit, voleith_rs_verify).
THEOREM ShowsOncePerScope == Spec => []OneShowPerScope
<1>1. IInv => OneShowPerScope
  <2> SUFFICES ASSUME IInv, cfg.scope > 0, NEW x \in accepted, NEW y \in accepted
               PROVE  /\ (x.T = y.T) <=> (x.show = y.show)
                      /\ cfg.depth_s > 0 /\ x # y => x.show # y.show
    BY DEF OneShowPerScope
  <2>1. /\ Showable(x.show) /\ x.T = NullifierOf(x.show)
        /\ Showable(y.show) /\ y.T = NullifierOf(y.show)
        /\ cfg.depth_s > 0 => (x.T = y.T => x = y)
    BY DEF IInv, NullifierInv
  <2>2. NullifierOf(x.show) = NullifierOf(y.show) => x.show = y.show
    BY <2>1, NullifierInjective
  <2>3. (x.T = y.T) <=> (x.show = y.show)
    BY <2>1, <2>2
  <2> QED
    BY <2>1, <2>3
<1> QED
  BY <1>1, RingInvariant, PTL

-----------------------------------------------------------------------------
(* Envelopes: the length before a section reads back. *)

LEMMA FewSections == MaxSections \in Nat /\ MaxSections <= 255 /\ 1 <= MaxSections
<1>1. MaxSections \in 1..255
  BY EnvelopeAssumption
<1> QED
  BY <1>1

LEMMA Powers ==
  2 ^ 8 = 256 /\ 2 ^ 16 = 65536 /\ 2 ^ 24 = 16777216 /\ 2 ^ 30 = 1073741824
<1>1. 2 ^ 1 = 2 /\ 2 ^ 2 = 4
  BY PowerZero, PowerStep
<1>2. 2 ^ 4 = 16
  BY <1>1, PowerSum
<1>3. 2 ^ 8 = 256
  BY <1>2, PowerSum
<1>4. 2 ^ 16 = 65536
  <2>1. 2 ^ (8 + 8) = 2 ^ 8 * 2 ^ 8
    BY PowerSum
  <2> QED
    BY <1>3, <2>1
<1>5. 2 ^ 24 = 16777216
  <2>1. 2 ^ (8 + 16) = 2 ^ 8 * 2 ^ 16
    BY PowerSum
  <2> QED
    BY <1>3, <1>4, <2>1
<1>6. 2 ^ 6 = 64
  <2>1. 2 ^ (2 + 4) = 2 ^ 2 * 2 ^ 4
    BY PowerSum
  <2> QED
    BY <1>1, <1>2, <2>1
<1>7. 2 ^ 30 = 1073741824
  <2>1. 2 ^ (6 + 24) = 2 ^ 6 * 2 ^ 24
    BY PowerSum
  <2> QED
    BY <1>5, <1>6, <2>1
<1> QED
  BY <1>3, <1>4, <1>5, <1>7

\* The lengths there are.
Lengths == {n \in Nat : n < 65536}

LEMMA LengthBytes ==
  ASSUME NEW n \in Lengths
  PROVE  /\ Be32(n) = <<0, 0, n \div 256, n % 256>>
         /\ n \div 256 \in 0..255 /\ n % 256 \in 0..255 /\ n = 256 * (n \div 256) + (n % 256)
<1>0. n \in Nat /\ n < 65536
  BY DEF Lengths
<1>1. n \div 16777216 = 0 /\ n \div 65536 = 0
  BY <1>0, DivUnique
<1>2. n \div 256 \in 0..255 /\ n % 256 \in 0..255 /\ n = 256 * (n \div 256) + (n % 256)
  <2>1. /\ n \div 256 \in Nat /\ n % 256 \in 0..255
        /\ n = 256 * (n \div 256) + (n % 256)
    BY <1>0
  <2> QED
    BY <1>0, <2>1
<1>3. (n \div 256) % 256 = n \div 256
  <2>1. \A x \in 0..255 : x % 256 = x
    OBVIOUS
  <2> QED
    BY <1>2, <2>1
<1>4. 0 % 256 = 0
  OBVIOUS
<1> QED
  BY <1>1, <1>2, <1>3, <1>4, Powers DEF Be32

LEMMA LengthReads ==
  ASSUME NEW c, NEW b \in 0..255, NEW l \in 0..255, NEW t \in Nat,
         c = <<t, 0, b, l>>
  PROVE  ReadBe32(c) = IF t >= 64 THEN 1073741824 ELSE t * 16777216 + 256 * b + l
<1>1. c[1] = t /\ c[2] = 0 /\ c[3] = b /\ c[4] = l
  OBVIOUS
<1> QED
  BY <1>1, Powers, SMT DEF ReadBe32

LEMMA LengthBack ==
  ASSUME NEW c, c[1] = 0, c[2] = 0, c[3] \in 0..255, c[4] \in 0..255
  PROVE  ReadBe32(c) = 256 * c[3] + c[4]
BY Powers, SMT DEF ReadBe32

\* What holds at first and is kept at each turn holds at every turn.
LEMMA StaysIn ==
  ASSUME NEW D, NEW n \in Nat, NEW f, f[0] \in D, \A k \in 1..n : f[k - 1] \in D => f[k] \in D
  PROVE  \A k \in 0..n : f[k] \in D
<1> DEFINE T == {k \in Nat : k <= n => f[k] \in D}
<1>1. 0 \in T
  OBVIOUS
<1>2. ASSUME NEW k \in Nat, k \in T PROVE k + 1 \in T
  <2>1. k + 1 <= n => k + 1 \in 1..n /\ (k + 1) - 1 = k /\ k <= n
    OBVIOUS
  <2> QED
    BY <1>2, <2>1
<1> HIDE DEF T
<1>3. Nat \subseteq T
  BY <1>1, <1>2, NatSetInduction
<1> QED
  BY <1>3 DEF T

\* The sections a packer can hold.
Sect == {s \in [tag : 0..255, payload : Seq(Nat)] : Len(s.payload) \in Lengths}

LEMMA SectParts ==
  ASSUME NEW s \in Sect
  PROVE  /\ s.tag \in 0..255 /\ s.tag \in Nat /\ s.payload \in Seq(Nat)
         /\ Len(s.payload) \in Lengths /\ Len(s.payload) \in Nat
<1>1. s.tag \in 0..255
  BY DEF Sect
<1>2. s.payload \in Seq(Nat)
  BY DEF Sect
<1>3. Len(s.payload) \in Lengths
  BY DEF Sect
<1>4. \A t \in 0..255 : t \in Nat
  OBVIOUS
<1>5. \A n \in Lengths : n \in Nat
  BY DEF Lengths
<1>6. s.tag \in Nat
  BY <1>1, <1>4
<1>7. Len(s.payload) \in Nat
  BY <1>3, <1>5
<1> QED
  BY <1>1, <1>2, <1>3, <1>6, <1>7

LEMMA LengthCells ==
  ASSUME NEW n \in Lengths
  PROVE  LET c == Be32(n) IN
         /\ c \in Seq(Nat) /\ Len(c) = 4
         /\ c[1] = 0 /\ c[2] = 0 /\ c[3] = n \div 256 /\ c[4] = n % 256
<1> DEFINE q == n \div 256
           r == n % 256
<1>1. Be32(n) = <<0, 0, q, r>> /\ q \in Nat /\ r \in Nat
  <2>1. q \in 0..255 /\ r \in 0..255 /\ Be32(n) = <<0, 0, q, r>>
    BY LengthBytes
  <2> HIDE DEF q, r
  <2> QED
    BY <2>1
<1> HIDE DEF q, r
<1>2. /\ Be32(n) \in Seq(Nat) /\ Len(Be32(n)) = 4
      /\ Be32(n)[1] = 0 /\ Be32(n)[2] = 0 /\ Be32(n)[3] = q /\ Be32(n)[4] = r
  BY <1>1
<1> QED
  BY <1>2 DEF q, r

\* A section as the sectioned framing writes it.
LEMMA FramedCells ==
  ASSUME NEW s \in Sect
  PROVE  /\ Framed(s, 2) \in Seq(Nat) /\ Len(Framed(s, 2)) = 5 + Len(s.payload)
         /\ LET w == Framed(s, 2) IN
            /\ w[1] = s.tag /\ w[2] = 0 /\ w[3] = 0
            /\ w[4] = Len(s.payload) \div 256 /\ w[5] = Len(s.payload) % 256
            /\ \A i \in 1..Len(s.payload) : w[5 + i] = s.payload[i]
<1> DEFINE n == Len(s.payload)
           len == Be32(n)
           head == <<s.tag>> \o len
           w == head \o s.payload
<1>1. s.tag \in Nat /\ s.payload \in Seq(Nat) /\ n \in Lengths
  BY SectParts
<1>2. Framed(s, 2) = w
  BY DEF Framed
<1> HIDE DEF n
<1>3. /\ len \in Seq(Nat) /\ Len(len) = 4
      /\ len[1] = 0 /\ len[2] = 0 /\ len[3] = n \div 256 /\ len[4] = n % 256
  BY <1>1, LengthCells
<1> HIDE DEF len
<1>4. <<s.tag>> \in Seq(Nat) /\ Len(<<s.tag>>) = 1 /\ <<s.tag>>[1] = s.tag
  BY <1>1
<1>5. head \in Seq(Nat) /\ ConcatOf(head, <<s.tag>>, len)
  BY <1>3, <1>4, ConcatCells
<1> HIDE DEF head
<1>6. Len(head) = 5 /\ head[1] = s.tag /\ \A i \in 1..4 : head[1 + i] = len[i]
  BY <1>3, <1>4, <1>5 DEF ConcatOf
<1>7. head[2] = 0 /\ head[3] = 0 /\ head[4] = n \div 256 /\ head[5] = n % 256
  <2>1. head[1 + 1] = len[1] /\ head[1 + 2] = len[2] /\ head[1 + 3] = len[3] /\ head[1 + 4] = len[4]
    BY <1>6
  <2> QED
    BY <1>3, <2>1
<1>8. w \in Seq(Nat) /\ ConcatOf(w, head, s.payload)
  BY <1>1, <1>5, ConcatCells
<1> HIDE DEF w
<1>9. /\ Len(w) = 5 + n
      /\ \A i \in 1..5 : w[i] = head[i]
      /\ \A i \in 1..n : w[5 + i] = s.payload[i]
  BY <1>6, <1>8 DEF ConcatOf, n
<1>10. w[1] = s.tag /\ w[2] = 0 /\ w[3] = 0 /\ w[4] = n \div 256 /\ w[5] = n % 256
  BY <1>6, <1>7, <1>9
<1> QED
  BY <1>2, <1>8, <1>9, <1>10 DEF n

\* W holds what has been written after each section.
Layout(W, secs, format) ==
  /\ W[0] = <<>>
  /\ \A n \in 0..Len(secs) : W[n] \in Seq(Nat)
  /\ \A n \in 1..Len(secs) : W[n] = W[n - 1] \o Framed(secs[n], format)

LEMMA FramedTyped ==
  ASSUME NEW s \in Sect, NEW format
  PROVE  Framed(s, format) \in Seq(Nat)
<1>1. s.tag \in Nat /\ s.payload \in Seq(Nat) /\ Len(s.payload) \in Lengths
  BY SectParts
<1>2. Be32(Len(s.payload)) \in Seq(Nat)
  BY <1>1, LengthCells
<1>3. <<>> \in Seq(Nat) /\ <<s.tag>> \in Seq(Nat)
  BY <1>1
<1>4. (IF format = 1 THEN <<>> ELSE <<s.tag>>) \in Seq(Nat)
  BY <1>3
<1> QED
  BY <1>1, <1>2, <1>4 DEF Framed

LEMMA WrittenUnfold ==
  ASSUME NEW secs \in Seq(Sect), NEW format
  PROVE  \E W : Layout(W, secs, format) /\ Written(secs, format) = W[Len(secs)]
<1> DEFINE d == Len(secs)
           G == [k \in 1..d |-> [x \in Seq(Nat) |-> x \o Framed(secs[k], format)]]
           Def(g) == g = [k \in 0..d |-> IF k = 0 THEN <<>> ELSE g[k - 1] \o Framed(secs[k], format)]
<1>0. d \in Nat /\ \A k \in 1..d : Framed(secs[k], format) \in Seq(Nat)
  BY FramedTyped
<1>1. \E g : Ladder(g, G, <<>>, d)
  <2> HIDE DEF G, d
  <2> QED
    BY <1>0, LadderExists
<1>2. PICK g : g = [k \in 0..d |-> IF k = 0 THEN <<>> ELSE G[k][g[k - 1]]]
  BY <1>1 DEF Ladder
<1> HIDE DEF d
<1>3. ASSUME NEW k \in 1..d, g[k - 1] \in Seq(Nat)
      PROVE  g[k] = g[k - 1] \o Framed(secs[k], format) /\ g[k] \in Seq(Nat)
  <2>1. k \in 0..d /\ k # 0
    BY <1>0
  <2>2. g[k] = G[k][g[k - 1]]
    <3> HIDE DEF G
    <3> QED
      BY <1>2, <2>1
  <2>3. g[k] = g[k - 1] \o Framed(secs[k], format)
    BY <1>3, <2>2
  <2> QED
    BY <1>0, <1>3, <2>3
<1>4. g[0] = <<>> /\ <<>> \in Seq(Nat)
  <2> HIDE DEF G
  <2> QED
    BY <1>0, <1>2
<1>5. \A k \in 0..d : g[k] \in Seq(Nat)
  <2> HIDE DEF G
  <2>1. \A k \in 1..d : g[k - 1] \in Seq(Nat) => g[k] \in Seq(Nat)
    BY <1>3
  <2>2. g[0] \in Seq(Nat)
    BY <1>4
  <2> QED
    BY <1>0, <2>1, <2>2, StaysIn
<1>6. Def(g)
  <2>1. g = [k \in 0..d |-> g[k]]
    BY <1>2
  <2>2. \A k \in 0..d : k # 0 => g[k] = g[k - 1] \o Framed(secs[k], format)
    <3> TAKE k \in 0..d
    <3> HAVE k # 0
    <3>1. k \in 1..d /\ k - 1 \in 0..d
      BY <1>0
    <3> QED
      BY <1>3, <1>5, <3>1
  <2> HIDE DEF G
  <2> QED
    BY <1>4, <2>1, <2>2
<1> DEFINE f == CHOOSE x : Def(x)
<1>7. Written(secs, format) = f[d]
  BY DEF Written, d
<1>8. Def(f)
  <2> HIDE DEF Def, f
  <2> QED
    BY <1>6 DEF f
<1> HIDE DEF f, G
<1>9. f[0] = <<>> /\ \A k \in 1..d : f[k] = f[k - 1] \o Framed(secs[k], format)
  <2>1. 0 \in 0..d /\ \A k \in 1..d : k \in 0..d /\ k # 0
    BY <1>0
  <2> QED
    BY <1>8, <2>1
<1>10. \A k \in 0..d : f[k] \in Seq(Nat)
  <2> HIDE DEF Def
  <2>1. \A k \in 1..d : f[k - 1] \in Seq(Nat) => f[k] \in Seq(Nat)
    <3> TAKE k \in 1..d
    <3> HAVE f[k - 1] \in Seq(Nat)
    <3>1. f[k] = f[k - 1] \o Framed(secs[k], format) /\ Framed(secs[k], format) \in Seq(Nat)
      BY <1>0, <1>9
    <3> QED
      BY <3>1, ConcatCells
  <2>2. f[0] \in Seq(Nat)
    BY <1>4, <1>9
  <2> QED
    BY <1>0, <2>1, <2>2, StaysIn
<1> QED
  BY <1>7, <1>9, <1>10 DEF Layout, d

-----------------------------------------------------------------------------
(* Reading one section. *)

LEMMA CutCells ==
  ASSUME NEW body \in Seq(Nat), NEW from \in Nat, NEW len \in Nat, from + len <= Len(body)
  PROVE  /\ Cut(body, from, len) \in Seq(Nat) /\ Len(Cut(body, from, len)) = len
         /\ \A i \in 1..len : Cut(body, from, len)[i] = body[from + i]
<1>1. Cut(body, from, len) = SubSeq(body, from + 1, from + len)
  BY DEF Cut
<1>2. Cut(body, from, len) \in Seq(Nat)
  BY <1>1
<1>3. Len(Cut(body, from, len)) = len
  BY <1>1
<1>4. ASSUME NEW i \in 1..len PROVE Cut(body, from, len)[i] = body[from + i]
  BY <1>1
<1> QED
  BY <1>2, <1>3, <1>4

\* The five cells in front of a section, wherever they stand.
LEMMA HeaderReads ==
  ASSUME NEW body \in Seq(Nat), NEW off \in Nat, off + 5 <= Len(body), NEW s \in Sect,
         \A i \in 1..5 : body[off + i] = Framed(s, 2)[i]
  PROVE  /\ body[off + 1] = s.tag
         /\ ReadBe32(Cut(body, off + 1, 4)) = Len(s.payload)
<1> DEFINE n == Len(s.payload)
           w == Framed(s, 2)
           c == Cut(body, off + 1, 4)
           b == n \div 256
           l == n % 256
<1>1. n \in Lengths
  BY SectParts
<1>2. w[1] = s.tag /\ w[2] = 0 /\ w[3] = 0 /\ w[4] = b /\ w[5] = l
  BY FramedCells
<1> HIDE DEF n
<1>3. b \in 0..255 /\ l \in 0..255 /\ n = 256 * b + l
  BY <1>1, LengthBytes
<1> HIDE DEF w, b, l
<1> DEFINE from == off + 1
<1>4. /\ c \in Seq(Nat) /\ Len(c) = 4
      /\ \A i \in 1..4 : c[i] = body[from + i]
  <2>1. from \in Nat /\ from + 4 <= Len(body) /\ c = Cut(body, from, 4) /\ 4 \in Nat
    OBVIOUS
  <2> HIDE DEF from, c
  <2> QED
    BY <2>1, CutCells
<1> HIDE DEF c
<1>5. \A i \in 1..4 : c[i] = w[i + 1]
  <2> TAKE i \in 1..4
  <2>1. i + 1 \in 1..5 /\ off + (i + 1) = from + i
    OBVIOUS
  <2> HIDE DEF from
  <2>2. body[off + (i + 1)] = w[i + 1]
    BY <2>1 DEF w
  <2> QED
    BY <1>4, <2>1, <2>2
<1>6. c[1] = 0 /\ c[2] = 0 /\ c[3] = b /\ c[4] = l
  <2>1. c[1] = w[1 + 1] /\ c[2] = w[2 + 1] /\ c[3] = w[3 + 1] /\ c[4] = w[4 + 1]
    BY <1>5
  <2> QED
    BY <1>2, <2>1
<1>7. ReadBe32(c) = 256 * b + l
  BY <1>3, <1>6, LengthBack
<1>8. body[off + 1] = s.tag
  BY <1>2 DEF w
<1> QED
  BY <1>3, <1>7, <1>8 DEF c, n

StartsWith(body, w) == Len(w) <= Len(body) /\ \A i \in 1..Len(w) : body[i] = w[i]

\* A section that is there is read.
LEMMA SectionReads ==
  ASSUME NEW w \in Seq(Nat), NEW s \in Sect, NEW body \in Seq(Nat),
         StartsWith(body, w \o Framed(s, 2))
  PROVE  SectionAt(body, Len(w)) =
           <<[tag |-> s.tag, payload |-> s.payload, next |-> Len(w \o Framed(s, 2))]>>
<1> DEFINE f == Framed(s, 2)
           v == w \o f
           off == Len(w)
           n == Len(s.payload)
<1>1. /\ f \in Seq(Nat) /\ Len(f) = 5 + n
      /\ \A i \in 1..n : f[5 + i] = s.payload[i]
  BY FramedCells
<1>2. s.payload \in Seq(Nat) /\ n \in Nat /\ off \in Nat
  BY SectParts
<1> HIDE DEF f, n
<1>3. ConcatOf(v, w, f)
  BY <1>1, ConcatCells
<1>4. StartsWith(body, v)
  BY DEF f
<1> HIDE DEF v, off
<1>5. /\ Len(v) = off + 5 + n /\ off + 5 + n <= Len(body)
      /\ \A i \in 1..(5 + n) : body[off + i] = f[i]
  <2>1. /\ Len(v) = Len(w) + Len(f) /\ Len(v) <= Len(body)
        /\ \A i \in 1..Len(f) : v[Len(w) + i] = f[i]
        /\ \A i \in 1..Len(v) : body[i] = v[i]
    BY <1>3, <1>4 DEF ConcatOf, StartsWith
  <2>2. Len(v) = off + 5 + n
    BY <1>1, <1>2, <2>1 DEF off
  <2>3. ASSUME NEW i \in 1..(5 + n) PROVE body[off + i] = f[i]
    <3>1. i \in 1..Len(f) /\ off + i \in 1..Len(v)
      BY <1>1, <1>2, <2>2
    <3> QED
      BY <2>1, <3>1 DEF off
  <2> QED
    BY <2>1, <2>2, <2>3
<1>6. body[off + 1] = s.tag /\ ReadBe32(Cut(body, off + 1, 4)) = n
  <2>1. off + 5 <= Len(body) /\ \A i \in 1..5 : body[off + i] = f[i]
    <3>1. off + 5 <= Len(body)
      <4>1. off + 5 + n <= Len(body) /\ Len(body) \in Nat
        BY <1>5
      <4> QED
        BY <1>2, <4>1
    <3>2. ASSUME NEW i \in 1..5 PROVE body[off + i] = f[i]
      <4>1. i \in 1..(5 + n)
        BY <1>2
      <4> QED
        BY <1>5, <4>1
    <3> QED
      BY <3>1, <3>2
  <2> QED
    BY <1>2, <2>1, HeaderReads DEF f, n
<1>7. Cut(body, off + 5, n) = s.payload
  <2> DEFINE c == Cut(body, off + 5, n)
  <2>1. c \in Seq(Nat) /\ Len(c) = n /\ \A i \in 1..n : c[i] = body[(off + 5) + i]
    <3>1. off + 5 \in Nat /\ (off + 5) + n <= Len(body)
      BY <1>2, <1>5
    <3> QED
      BY <1>2, <3>1, CutCells
  <2> HIDE DEF c
  <2>2. ASSUME NEW i \in 1..n PROVE c[i] = s.payload[i]
    <3>1. 5 + i \in 1..(5 + n) /\ off + (5 + i) = (off + 5) + i
      BY <1>2
    <3> QED
      BY <1>1, <1>5, <2>1, <3>1
  <2>3. c = s.payload
    BY <1>2, <2>1, <2>2, SameCells DEF n
  <2> QED
    BY <2>3 DEF c
<1>8. ~ (Len(body) - off < 5) /\ ~ (n > Len(body) - (off + 5))
  BY <1>2, <1>5
<1>9. SectionAt(body, off) = <<[tag |-> body[off + 1], payload |-> Cut(body, off + 5, n), next |-> off + 5 + n]>>
  BY <1>6, <1>8 DEF SectionAt, Overhead
<1> QED
  BY <1>5, <1>6, <1>7, <1>9 DEF off, v, f

\* A section that is cut is not.
LEMMA SectionCut ==
  ASSUME NEW w \in Seq(Nat), NEW s \in Sect, NEW body \in Seq(Nat),
         StartsWith(w \o Framed(s, 2), body),
         Len(w) <= Len(body), Len(body) < Len(w \o Framed(s, 2))
  PROVE  SectionAt(body, Len(w)) = <<>>
<1> DEFINE f == Framed(s, 2)
           v == w \o f
           off == Len(w)
           n == Len(s.payload)
<1>1. f \in Seq(Nat) /\ Len(f) = 5 + n
  BY FramedCells
<1>2. n \in Nat /\ off \in Nat /\ Len(body) \in Nat
  BY SectParts
<1> HIDE DEF f, n
<1>3. ConcatOf(v, w, f)
  BY <1>1, ConcatCells
<1>4. StartsWith(v, body) /\ off <= Len(body) /\ Len(body) < Len(v)
  BY DEF f
<1> HIDE DEF v, off
<1>5. CASE Len(body) - off < 5
  BY <1>5 DEF SectionAt, Overhead, off
<1>6. CASE ~ (Len(body) - off < 5)
  <2>1. /\ Len(v) = Len(w) + Len(f)
        /\ \A i \in 1..Len(f) : v[Len(w) + i] = f[i]
        /\ \A i \in 1..Len(body) : v[i] = body[i]
    BY <1>3, <1>4 DEF ConcatOf, StartsWith
  <2>2. ASSUME NEW i \in 1..5 PROVE body[off + i] = f[i]
    <3>1. i \in 1..Len(f) /\ off + i \in 1..Len(body)
      BY <1>1, <1>2, <1>6
    <3> QED
      BY <2>1, <3>1 DEF off
  <2>3. off + 5 <= Len(body)
    BY <1>2, <1>6
  <2>4. ReadBe32(Cut(body, off + 1, 4)) = n
    BY <1>2, <2>2, <2>3, HeaderReads DEF f, n
  <2>5. n > Len(body) - (off + 5)
    BY <1>1, <1>2, <1>4, <2>1 DEF off
  <2> QED
    BY <1>6, <2>4, <2>5 DEF SectionAt, Overhead, off
<1> QED
  BY <1>5, <1>6

-----------------------------------------------------------------------------
(* Reading all sections. *)

Entry == [tag : Nat, payload : Seq(Nat)]
Reads == [ok : BOOLEAN, off : Nat, secs : Seq(Entry)]
NoneRead == [ok |-> TRUE, off |-> 0, secs |-> <<>>]

\* What reading a section makes of what has been read.
Refuses(body, n, r) ==
  LET s == SectionAt(body, r.off)
  IN  \/ s = <<>>
      \/ n > MaxSections
      \/ \E k \in DOMAIN r.secs : r.secs[k].tag = s[1].tag
ReadOn(body, n, r) ==
  LET s == SectionAt(body, r.off)
  IN  IF ~ r.ok \/ r.off >= Len(body) THEN r
      ELSE IF Refuses(body, n, r) THEN [r EXCEPT !.ok = FALSE]
      ELSE [ok |-> TRUE, off |-> s[1].next,
            secs |-> Append(r.secs, [tag |-> s[1].tag, payload |-> s[1].payload])]

LEMMA CellTyped ==
  ASSUME NEW c \in Seq(Nat), NEW i \in 1..Len(c)
  PROVE  c[i] \in Nat
OBVIOUS

LEMMA LengthTyped ==
  ASSUME NEW c \in Seq(Nat), Len(c) = 4
  PROVE  ReadBe32(c) \in Nat
<1>1. \A i \in 1..4 : c[i] \in Nat
  <2>1. \A i \in 1..Len(c) : c[i] \in Nat
    BY CellTyped
  <2> QED
    BY <2>1
<1>2. c[1] \in Nat /\ c[2] \in Nat /\ c[3] \in Nat /\ c[4] \in Nat
  BY <1>1
<1> SUFFICES ASSUME NEW x1 \in Nat, NEW x2 \in Nat, NEW x3 \in Nat, NEW x4 \in Nat,
                    c[1] = x1, c[2] = x2, c[3] = x3, c[4] = x4
             PROVE  ReadBe32(c) \in Nat
  BY <1>2
<1>3. x1 * 16777216 + x2 * 65536 + x3 * 256 + x4 \in Nat /\ 1073741824 \in Nat
  BY SMT
<1> QED
  BY <1>3, Powers, SMT DEF ReadBe32

LEMMA SectionTyped ==
  ASSUME NEW body \in Seq(Nat), NEW off \in Nat, SectionAt(body, off) # <<>>
  PROVE  LET s == SectionAt(body, off)[1] IN
         /\ s.tag = body[off + 1] /\ s.tag \in Nat /\ s.payload \in Seq(Nat) /\ s.next \in Nat
         /\ off + 5 <= Len(body)
<1> DEFINE c == Cut(body, off + 1, 4)
           len == ReadBe32(c)
           from == off + 5
           x == [tag |-> body[off + 1], payload |-> Cut(body, from, len), next |-> from + len]
<1>1. ~ (Len(body) - off < 5) /\ ~ (len > Len(body) - from) /\ SectionAt(body, off) = <<x>>
  BY DEF SectionAt, Overhead
<1>2. Len(body) \in Nat /\ from \in Nat /\ off + 5 <= Len(body)
  BY <1>1
<1>3. c \in Seq(Nat) /\ Len(c) = 4
  <2> DEFINE g == off + 1
  <2>1. g \in Nat /\ g + 4 <= Len(body) /\ c = Cut(body, g, 4) /\ 4 \in Nat
    BY <1>2
  <2> HIDE DEF g, c
  <2> QED
    BY <2>1, CutCells
<1> HIDE DEF c
<1>4. len \in Nat
  BY <1>3, LengthTyped
<1> HIDE DEF len
<1>5. from + len <= Len(body)
  BY <1>1, <1>2, <1>4
<1>6. Cut(body, from, len) \in Seq(Nat)
  <2> HIDE DEF from
  <2> QED
    BY <1>2, <1>4, <1>5, CutCells
<1>7. body[off + 1] \in Nat
  BY <1>2
<1>8. from + len \in Nat
  BY <1>2, <1>4
<1> HIDE DEF from
<1>9. x.tag = body[off + 1] /\ x.payload = Cut(body, from, len) /\ x.next = from + len
  OBVIOUS
<1> HIDE DEF x
<1>10. SectionAt(body, off)[1] = x
  BY <1>1
<1> QED
  BY <1>2, <1>6, <1>7, <1>8, <1>9, <1>10

LEMMA ReadOnTyped ==
  ASSUME NEW body \in Seq(Nat), NEW n, NEW r \in Reads
  PROVE  ReadOn(body, n, r) \in Reads
<1>1. r.ok \in BOOLEAN /\ r.off \in Nat /\ r.secs \in Seq(Entry)
  BY DEF Reads
<1>2. CASE ~ r.ok \/ r.off >= Len(body)
  BY <1>2 DEF ReadOn
<1>3. CASE ~ (~ r.ok \/ r.off >= Len(body)) /\ Refuses(body, n, r)
  <2>1. ReadOn(body, n, r) = [r EXCEPT !.ok = FALSE]
    BY <1>3 DEF ReadOn
  <2> QED
    BY <2>1 DEF Reads
<1>4. CASE ~ (~ r.ok \/ r.off >= Len(body)) /\ ~ Refuses(body, n, r)
  <2> DEFINE s == SectionAt(body, r.off)[1]
             e == [tag |-> s.tag, payload |-> s.payload]
  <2>1. SectionAt(body, r.off) # <<>>
    BY <1>4 DEF Refuses
  <2>2. s.tag \in Nat /\ s.payload \in Seq(Nat) /\ s.next \in Nat
    BY <1>1, <2>1, SectionTyped
  <2>3. ReadOn(body, n, r) = [ok |-> TRUE, off |-> s.next, secs |-> Append(r.secs, e)]
    BY <1>4 DEF ReadOn
  <2> HIDE DEF s
  <2>4. e \in Entry
    BY <2>2 DEF Entry
  <2> HIDE DEF e
  <2>5. Append(r.secs, e) \in Seq(Entry)
    BY <1>1, <2>4
  <2> QED
    BY <2>2, <2>3, <2>5 DEF Reads
<1> QED
  BY <1>2, <1>3, <1>4

\* R is what has been read after each section of body.
Reading(R, body) ==
  /\ R[0] = NoneRead
  /\ \A n \in 0..(MaxSections + 1) : R[n] \in Reads
  /\ \A n \in 1..(MaxSections + 1) : R[n] = ReadOn(body, n, R[n - 1])

LEMMA SectionsUnfold ==
  ASSUME NEW body \in Seq(Nat)
  PROVE  \E R : Reading(R, body) /\ Sections(body) = R[MaxSections + 1]
<1> DEFINE d == MaxSections + 1
           G == [k \in 1..d |-> [x \in Reads |-> ReadOn(body, k, x)]]
           Def(g) == g = [n \in 0..d |->
             IF n = 0 THEN [ok |-> TRUE, off |-> 0, secs |-> <<>>]
             ELSE LET r == g[n - 1]
                      s == SectionAt(body, r.off)
                  IN  IF ~ r.ok \/ r.off >= Len(body) THEN r
                      ELSE IF \/ s = <<>>
                              \/ n > MaxSections
                              \/ \E k \in DOMAIN r.secs : r.secs[k].tag = s[1].tag
                           THEN [r EXCEPT !.ok = FALSE]
                      ELSE [ok |-> TRUE, off |-> s[1].next,
                            secs |-> Append(r.secs, [tag |-> s[1].tag, payload |-> s[1].payload])]]
           Short(g) == g = [n \in 0..d |-> IF n = 0 THEN NoneRead ELSE ReadOn(body, n, g[n - 1])]
<1>0. d \in Nat /\ MaxSections \in Nat
  BY FewSections
<1>1. \A g : Def(g) <=> Short(g)
  BY DEF NoneRead, ReadOn, Refuses
<1>2. Sections(body) = (CHOOSE g : Def(g))[d]
  BY DEF Sections
<1>3. NoneRead \in Reads
  BY DEF NoneRead, Reads
<1>4. \E g : Ladder(g, G, NoneRead, d)
  <2> HIDE DEF G, d
  <2> QED
    BY <1>0, LadderExists
<1> HIDE DEF Def
<1>5. PICK g : g = [k \in 0..d |-> IF k = 0 THEN NoneRead ELSE G[k][g[k - 1]]]
  BY <1>4 DEF Ladder
<1> HIDE DEF d
<1>6. ASSUME NEW k \in 1..d, g[k - 1] \in Reads
      PROVE  g[k] = ReadOn(body, k, g[k - 1]) /\ g[k] \in Reads
  <2>1. k \in 0..d /\ k # 0
    BY <1>0
  <2>2. g[k] = G[k][g[k - 1]]
    <3> HIDE DEF G
    <3> QED
      BY <1>5, <2>1
  <2>3. g[k] = ReadOn(body, k, g[k - 1])
    BY <1>6, <2>2
  <2> QED
    BY <1>6, <2>3, ReadOnTyped
<1> HIDE DEF G
<1>7. g[0] = NoneRead
  BY <1>0, <1>5
<1>8. \A k \in 0..d : g[k] \in Reads
  <2>1. g[0] \in Reads /\ \A k \in 1..d : g[k - 1] \in Reads => g[k] \in Reads
    BY <1>3, <1>6, <1>7
  <2> QED
    BY <1>0, <2>1, StaysIn
<1>9. Short(g)
  <2>1. g = [k \in 0..d |-> g[k]]
    BY <1>5
  <2>2. \A k \in 0..d : k # 0 => g[k] = ReadOn(body, k, g[k - 1])
    <3> TAKE k \in 0..d
    <3> HAVE k # 0
    <3>1. k \in 1..d /\ k - 1 \in 0..d
      BY <1>0
    <3> QED
      BY <1>6, <1>8, <3>1
  <2> QED
    BY <1>7, <2>1, <2>2
<1> DEFINE f == CHOOSE x : Def(x)
<1>10. Def(f)
  <2>1. Def(g)
    BY <1>1, <1>9
  <2> QED
    BY <2>1
<1> HIDE DEF f
<1>11. Short(f)
  BY <1>1, <1>10
<1>12. f[0] = NoneRead /\ \A k \in 1..d : f[k] = ReadOn(body, k, f[k - 1])
  <2>1. 0 \in 0..d /\ \A k \in 1..d : k \in 0..d /\ k # 0
    BY <1>0
  <2> QED
    BY <1>11, <2>1
<1> HIDE DEF Short
<1>13. \A k \in 0..d : f[k] \in Reads
  <2>1. \A k \in 1..d : f[k - 1] \in Reads => f[k] \in Reads
    BY <1>12, ReadOnTyped
  <2>2. f[0] \in Reads
    BY <1>3, <1>12
  <2> QED
    BY <1>0, <2>1, <2>2, StaysIn
<1>14. Sections(body) = f[d]
  BY <1>2 DEF f
<1> QED
  BY <1>12, <1>13, <1>14 DEF Reading, d

LEMMA StartsTrans ==
  ASSUME NEW a \in Seq(Nat), NEW b \in Seq(Nat), NEW c \in Seq(Nat), StartsWith(a, b), StartsWith(b, c)
  PROVE  StartsWith(a, c)
BY DEF StartsWith

LEMMA ConcatStarts ==
  ASSUME NEW a \in Seq(Nat), NEW x \in Seq(Nat)
  PROVE  StartsWith(a \o x, a) /\ Len(a \o x) = Len(a) + Len(x)
<1>1. ConcatOf(a \o x, a, x)
  BY ConcatCells
<1>2. Len(a) \in Nat /\ Len(x) \in Nat
  OBVIOUS
<1> QED
  BY <1>1, <1>2 DEF ConcatOf, StartsWith

\* Sections that a packer can hold together.
Packable(secs) ==
  /\ secs \in Seq(Sect) /\ Len(secs) <= MaxSections
  /\ \A i, j \in 1..Len(secs) : secs[i].tag = secs[j].tag => i = j

\* What has been written grows by a section, with five cells in front.
LEMMA LayoutStep ==
  ASSUME NEW secs, Packable(secs), NEW W, Layout(W, secs, 2), NEW n \in 1..Len(secs)
  PROVE  /\ secs[n] \in Sect /\ W[n - 1] \in Seq(Nat) /\ W[n] \in Seq(Nat)
         /\ W[n] = W[n - 1] \o Framed(secs[n], 2)
         /\ Len(W[n]) = Len(W[n - 1]) + 5 + Len(secs[n].payload)
         /\ StartsWith(W[n], W[n - 1])
<1>1. n - 1 \in 0..Len(secs) /\ n \in 0..Len(secs)
  BY DEF Packable
<1>2. secs[n] \in Sect
  BY DEF Packable
<1>3. W[n - 1] \in Seq(Nat) /\ W[n] \in Seq(Nat) /\ W[n] = W[n - 1] \o Framed(secs[n], 2)
  BY <1>1 DEF Layout
<1> DEFINE f == Framed(secs[n], 2)
<1>4. f \in Seq(Nat) /\ Len(f) = 5 + Len(secs[n].payload)
  BY <1>2, FramedCells
<1>5. Len(secs[n].payload) \in Nat
  BY <1>2, SectParts
<1> HIDE DEF f
<1>6. StartsWith(W[n], W[n - 1]) /\ Len(W[n]) = Len(W[n - 1]) + Len(f)
  BY <1>3, <1>4, ConcatStarts DEF f
<1>7. Len(W[n - 1]) \in Nat
  BY <1>3
<1>8. Len(W[n]) = Len(W[n - 1]) + 5 + Len(secs[n].payload)
  <2> DEFINE y == Len(W[n - 1])
             p == Len(secs[n].payload)
  <2>1. y \in Nat /\ p \in Nat /\ Len(f) = 5 + p /\ Len(W[n]) = y + Len(f)
    BY <1>4, <1>5, <1>6, <1>7
  <2> HIDE DEF y, p
  <2>2. Len(W[n]) = y + 5 + p
    BY <2>1
  <2> QED
    BY <2>2 DEF y, p
<1> QED
  BY <1>2, <1>3, <1>6, <1>8

\* What is written stays as it is while more is written.
LEMMA LayoutGrows ==
  ASSUME NEW secs, Packable(secs), NEW W, Layout(W, secs, 2), NEW m \in 0..Len(secs)
  PROVE  \A n \in 0..Len(secs) : m <= n => StartsWith(W[n], W[m])
<1> DEFINE N == Len(secs)
           T == {k \in Nat : m + k <= N => StartsWith(W[m + k], W[m])}
<1>0. N \in Nat /\ \A n \in 0..N : W[n] \in Seq(Nat)
  BY DEF Packable, Layout
<1>1. 0 \in T
  <2>1. W[m] \in Seq(Nat)
    BY <1>0
  <2>2. StartsWith(W[m], W[m])
    BY <2>1 DEF StartsWith
  <2>3. m + 0 = m
    OBVIOUS
  <2> QED
    BY <2>2, <2>3
<1>2. ASSUME NEW k \in Nat, k \in T PROVE k + 1 \in T
  <2> SUFFICES ASSUME m + (k + 1) <= N PROVE StartsWith(W[m + (k + 1)], W[m])
    OBVIOUS
  <2> DEFINE n == m + (k + 1)
  <2>1. n \in 1..N /\ n - 1 = m + k /\ m + k <= N /\ m + k \in 0..N
    BY <1>0
  <2>2. StartsWith(W[m + k], W[m])
    BY <1>2, <2>1
  <2>3. W[m] \in Seq(Nat) /\ W[m + k] \in Seq(Nat)
    BY <1>0, <2>1
  <2> HIDE DEF n, T
  <2>4. StartsWith(W[n], W[n - 1]) /\ W[n] \in Seq(Nat)
    BY <2>1, LayoutStep
  <2>5. StartsWith(W[n], W[m])
    BY <2>1, <2>2, <2>3, <2>4, StartsTrans
  <2> QED
    BY <2>5 DEF n
<1> HIDE DEF T
<1>3. Nat \subseteq T
  BY <1>1, <1>2, NatSetInduction
<1> TAKE n \in 0..Len(secs)
<1> HAVE m <= n
<1>4. n - m \in T /\ m + (n - m) = n /\ n <= N
  BY <1>0, <1>3
<1> QED
  BY <1>4 DEF T

LEMMA PrefixGrows ==
  ASSUME NEW secs \in Seq(Sect), NEW n \in 1..Len(secs)
  PROVE  /\ SubSeq(secs, 1, n) = Append(SubSeq(secs, 1, n - 1), secs[n])
         /\ secs[n] = [tag |-> secs[n].tag, payload |-> secs[n].payload]
         /\ SubSeq(secs, 1, n - 1) \in Seq(Sect) /\ Len(SubSeq(secs, 1, n - 1)) = n - 1
         /\ \A i \in 1..(n - 1) : SubSeq(secs, 1, n - 1)[i] = secs[i]
<1>1. Len(secs) \in Nat /\ secs[n] \in Sect
  OBVIOUS
<1>2. secs[n] = [tag |-> secs[n].tag, payload |-> secs[n].payload]
  BY <1>1 DEF Sect
<1>3. /\ SubSeq(secs, 1, n - 1) \in Seq(Sect) /\ Len(SubSeq(secs, 1, n - 1)) = n - 1
      /\ \A i \in 1..(n - 1) : SubSeq(secs, 1, n - 1)[i] = secs[i]
  BY <1>1
<1>4. /\ SubSeq(secs, 1, n) \in Seq(Sect) /\ Len(SubSeq(secs, 1, n)) = n
      /\ \A i \in 1..n : SubSeq(secs, 1, n)[i] = secs[i]
  BY <1>1
<1> DEFINE p == SubSeq(secs, 1, n - 1)
           q == SubSeq(secs, 1, n)
<1> HIDE DEF p, q
<1>5. p \in Seq(Sect) /\ Len(p) = n - 1 /\ \A i \in 1..(n - 1) : p[i] = secs[i]
  BY <1>3 DEF p
<1>6. q \in Seq(Sect) /\ Len(q) = n /\ \A i \in 1..n : q[i] = secs[i]
  BY <1>4 DEF q
<1>7. Append(p, secs[n]) \in Seq(Sect) /\ Len(Append(p, secs[n])) = n
  BY <1>1, <1>5
<1>8. \A i \in 1..n : q[i] = Append(p, secs[n])[i]
  BY <1>1, <1>5, <1>6
<1>9. q = Append(p, secs[n])
  BY <1>6, <1>7, <1>8, SameCells
<1> QED
  BY <1>2, <1>3, <1>9 DEF p, q

\* As far as a body is what was written, it is read as what was packed.
ReadTo(R, W, secs, m) ==
  \A n \in 0..m : R[n] = [ok |-> TRUE, off |-> Len(W[n]), secs |-> SubSeq(secs, 1, n)]

LEMMA ReadsSections ==
  ASSUME NEW secs, Packable(secs), NEW W, Layout(W, secs, 2), NEW m \in 0..Len(secs),
         NEW body \in Seq(Nat), StartsWith(body, W[m]), NEW R, Reading(R, body)
  PROVE  ReadTo(R, W, secs, m)
<1> DEFINE Read(n) == [ok |-> TRUE, off |-> Len(W[n]), secs |-> SubSeq(secs, 1, n)]
           T == {n \in Nat : n <= m => R[n] = Read(n)}
<1>0. /\ Len(secs) \in Nat /\ m \in Nat /\ m <= Len(secs) /\ Len(secs) <= MaxSections
      /\ MaxSections \in Nat /\ secs \in Seq(Sect)
      /\ \A n \in 0..Len(secs) : W[n] \in Seq(Nat)
  BY FewSections DEF Packable, Layout
<1>1. 0 \in T
  <2>1. SubSeq(secs, 1, 0) = <<>> /\ W[0] = <<>> /\ Len(<<>>) = 0
    BY <1>0 DEF Layout
  <2> QED
    BY <2>1 DEF Reading, NoneRead
<1>2. ASSUME NEW k \in Nat, k \in T PROVE k + 1 \in T
  <2> SUFFICES ASSUME k + 1 <= m PROVE R[k + 1] = Read(k + 1)
    OBVIOUS
  <2> DEFINE n == k + 1
             s == secs[n]
  <2>1. n \in 1..Len(secs) /\ n - 1 = k /\ n \in 1..(MaxSections + 1) /\ n <= MaxSections /\ n <= m
        /\ n \in 0..Len(secs)
    BY <1>0
  <2>2. R[k] = Read(k)
    BY <1>2, <2>1
  <2> HIDE DEF n, T
  <2>3. R[n] = ReadOn(body, n, R[k])
    BY <2>1 DEF Reading
  <2>4. /\ s \in Sect /\ W[k] \in Seq(Nat) /\ W[n] \in Seq(Nat) /\ W[n] = W[k] \o Framed(s, 2)
        /\ Len(W[n]) = Len(W[k]) + 5 + Len(s.payload)
    BY <2>1, LayoutStep
  <2>5. StartsWith(body, W[n])
    <3>1. StartsWith(W[m], W[n]) /\ W[m] \in Seq(Nat)
      BY <1>0, <2>1, LayoutGrows
    <3> QED
      BY <2>4, <3>1, StartsTrans
  <2>6. SectionAt(body, Len(W[k])) = <<[tag |-> s.tag, payload |-> s.payload, next |-> Len(W[n])]>>
    <3> HIDE DEF s
    <3> QED
      BY <2>4, <2>5, SectionReads
  <2>7. /\ SubSeq(secs, 1, n) = Append(SubSeq(secs, 1, k), s)
        /\ s = [tag |-> s.tag, payload |-> s.payload]
        /\ SubSeq(secs, 1, k) \in Seq(Sect) /\ Len(SubSeq(secs, 1, k)) = k
        /\ \A i \in 1..k : SubSeq(secs, 1, k)[i] = secs[i]
    BY <1>0, <2>1, PrefixGrows
  <2> DEFINE p == SubSeq(secs, 1, k)
             at == SectionAt(body, Len(W[k]))
  <2>8. Len(W[k]) < Len(body)
    <3>1. Len(W[n]) <= Len(body)
      BY <2>5 DEF StartsWith
    <3>2. Len(W[k]) \in Nat /\ Len(s.payload) \in Nat /\ Len(body) \in Nat
      BY <2>4, SectParts
    <3>3. Len(W[n]) = Len(W[k]) + 5 + Len(s.payload)
      BY <2>4
    <3> DEFINE y == Len(W[k])
               z == Len(body)
               q == Len(s.payload)
    <3>4. y \in Nat /\ z \in Nat /\ q \in Nat /\ Len(W[n]) = y + 5 + q /\ Len(W[n]) <= z
      BY <3>1, <3>2, <3>3
    <3> HIDE DEF y, z, q
    <3>5. y < z
      BY <3>4
    <3> QED
      BY <3>5 DEF y, z
  <2>9. R[k].ok = TRUE /\ R[k].off = Len(W[k]) /\ R[k].secs = p
    BY <2>2
  <2>10. at # <<>> /\ at[1].tag = s.tag /\ at[1].payload = s.payload /\ at[1].next = Len(W[n])
    BY <2>6
  <2>11. \A i \in DOMAIN p : p[i].tag # s.tag
    <3> TAKE i \in DOMAIN p
    <3>1. i \in 1..k /\ p[i] = secs[i]
      BY <2>7
    <3>2. i \in 1..Len(secs) /\ i # n
      BY <1>0, <2>1, <3>1
    <3> QED
      BY <2>1, <3>1, <3>2 DEF Packable
  <2> HIDE DEF at, p
  <2>12. ~ Refuses(body, n, R[k])
    BY <1>0, <2>1, <2>9, <2>10, <2>11 DEF Refuses, at
  <2>13. R[n] = [ok |-> TRUE, off |-> Len(W[n]), secs |-> Append(p, s)]
    <3>1. ~ (~ R[k].ok \/ R[k].off >= Len(body))
      <4>1. Len(W[k]) \in Nat /\ Len(body) \in Nat
        BY <2>4
      <4> QED
        BY <2>8, <2>9, <4>1
    <3>2. ReadOn(body, n, R[k]) = [ok |-> TRUE, off |-> at[1].next,
                   secs |-> Append(R[k].secs, [tag |-> at[1].tag, payload |-> at[1].payload])]
      BY <2>9, <2>12, <3>1 DEF ReadOn, at
    <3> QED
      BY <2>3, <2>7, <2>9, <2>10, <3>2
  <2> QED
    BY <2>7, <2>13 DEF n, p
<1> HIDE DEF T
<1>3. Nat \subseteq T
  BY <1>1, <1>2, NatSetInduction
<1>4. ASSUME NEW n \in 0..m PROVE R[n] = Read(n)
  <2>1. n \in Nat /\ n <= m
    BY <1>0
  <2>2. n \in T
    BY <1>3, <2>1
  <2> QED
    BY <2>1, <2>2 DEF T
<1> QED
  BY <1>4 DEF ReadTo

-----------------------------------------------------------------------------
(* What becomes of a body that arrives whole, cut or with more behind. *)

\* Once it is refused or at its end, nothing more is read.
LEMMA ReadingStays ==
  ASSUME NEW body \in Seq(Nat), NEW R, Reading(R, body), NEW n \in 0..(MaxSections + 1),
         ~ R[n].ok \/ R[n].off >= Len(body)
  PROVE  R[MaxSections + 1] = R[n]
<1> DEFINE d == MaxSections + 1
           T == {k \in Nat : n + k <= d => R[n + k] = R[n]}
<1>0. d \in Nat /\ n \in Nat /\ n <= d
  BY FewSections
<1>1. 0 \in T
  BY <1>0
<1>2. ASSUME NEW k \in Nat, k \in T PROVE k + 1 \in T
  <2> SUFFICES ASSUME n + (k + 1) <= d PROVE R[n + (k + 1)] = R[n]
    OBVIOUS
  <2> DEFINE m == n + (k + 1)
  <2>1. m \in 1..d /\ m - 1 = n + k /\ n + k <= d
    BY <1>0
  <2>2. R[n + k] = R[n]
    BY <1>2, <2>1
  <2> HIDE DEF m, T
  <2>3. R[m] = ReadOn(body, m, R[n])
    BY <2>1, <2>2 DEF Reading
  <2>4. R[m] = R[n]
    BY <2>3 DEF ReadOn
  <2> QED
    BY <2>4 DEF m
<1> HIDE DEF T
<1>3. Nat \subseteq T
  BY <1>1, <1>2, NatSetInduction
<1>4. d - n \in T /\ n + (d - n) = d
  BY <1>0, <1>3
<1> HIDE DEF d
<1>5. R[d] = R[n]
  BY <1>0, <1>4 DEF T
<1> QED
  BY <1>5 DEF d

LEMMA ReadingStops ==
  ASSUME NEW body \in Seq(Nat), NEW R, Reading(R, body), NEW n \in 0..MaxSections,
         R[n].off < Len(body), Refuses(body, n + 1, R[n])
  PROVE  R[MaxSections + 1].ok = FALSE
<1>1. MaxSections \in Nat
  BY FewSections
<1>2. n + 1 \in 1..(MaxSections + 1) /\ (n + 1) - 1 = n /\ n \in 0..(MaxSections + 1)
      /\ n + 1 \in 0..(MaxSections + 1)
  BY <1>1
<1>3. R[n] \in Reads
  BY <1>2 DEF Reading
<1>4. R[n].ok \in BOOLEAN /\ R[n].off \in Nat
  BY <1>3 DEF Reads
<1>5. R[n + 1] = ReadOn(body, n + 1, R[n])
  BY <1>2 DEF Reading
<1>6. R[n + 1].ok = FALSE
  <2>1. ~ (R[n].off >= Len(body))
    <3>1. Len(body) \in Nat
      OBVIOUS
    <3> QED
      BY <1>4, <3>1
  <2>2. CASE ~ R[n].ok
    <3>1. R[n + 1] = R[n]
      BY <1>5, <2>2 DEF ReadOn
    <3> QED
      BY <1>4, <2>2, <3>1
  <2>3. CASE R[n].ok
    <3>1. R[n + 1] = [R[n] EXCEPT !.ok = FALSE]
      BY <1>5, <2>1, <2>3 DEF ReadOn
    <3>2. R[n] = [ok |-> R[n].ok, off |-> R[n].off, secs |-> R[n].secs]
      BY <1>3 DEF Reads
    <3> QED
      BY <1>3, <3>1, <3>2 DEF Reads
  <2> QED
    BY <1>4, <2>2, <2>3
<1>7. R[MaxSections + 1] = R[n + 1]
  BY <1>2, <1>6, ReadingStays
<1> QED
  BY <1>6, <1>7

\* The whole is read as what was packed.
LEMMA WholeReads ==
  ASSUME NEW secs, Packable(secs), NEW W, Layout(W, secs, 2)
  PROVE  Sections(W[Len(secs)]).ok /\ Sections(W[Len(secs)]).secs = secs
<1> DEFINE N == Len(secs)
           body == W[N]
<1>0. /\ N \in Nat /\ N \in 0..N /\ N \in 0..(MaxSections + 1) /\ secs \in Seq(Sect)
      /\ body \in Seq(Nat)
  BY FewSections DEF Packable, Layout
<1>1. PICK R : Reading(R, body) /\ Sections(body) = R[MaxSections + 1]
  BY <1>0, SectionsUnfold
<1>2. StartsWith(body, W[N])
  BY <1>0 DEF StartsWith
<1>3. R[N] = [ok |-> TRUE, off |-> Len(body), secs |-> SubSeq(secs, 1, N)]
  <2>1. ReadTo(R, W, secs, N)
    BY <1>0, <1>1, <1>2, ReadsSections
  <2>2. N \in 0..N
    BY <1>0
  <2> QED
    BY <1>0, <2>1, <2>2 DEF ReadTo
<1>4. R[MaxSections + 1] = R[N]
  <2>1. R[N].off = Len(body) /\ Len(body) \in Nat
    BY <1>0, <1>3
  <2>2. R[N].off >= Len(body)
    BY <2>1
  <2> HIDE DEF N, body
  <2> QED
    BY <1>0, <1>1, <2>2, ReadingStays
<1>5. SubSeq(secs, 1, N) = secs
  BY <1>0
<1> QED
  BY <1>1, <1>3, <1>4, <1>5

\* What is cut between two sections gives those before; cut within one, nothing.
LEMMA CutReads ==
  ASSUME NEW secs, Packable(secs), NEW W, Layout(W, secs, 2), NEW c \in Nat, c < Len(W[Len(secs)]),
         NEW body, body = SubSeq(W[Len(secs)], 1, c), Sections(body).ok
  PROVE  \E m \in 0..Len(secs) : Sections(body).secs = SubSeq(secs, 1, m)
<1> DEFINE N == Len(secs)
           S == {n \in 0..N : c < Len(W[n])}
<1>0. /\ N \in Nat /\ N <= MaxSections /\ MaxSections \in Nat
      /\ \A n \in 0..N : W[n] \in Seq(Nat) /\ Len(W[n]) \in Nat
  <2>1. N \in Nat /\ N <= MaxSections /\ MaxSections \in Nat
    BY FewSections DEF Packable
  <2>2. \A n \in 0..N : W[n] \in Seq(Nat)
    BY DEF Layout
  <2>3. \A w \in Seq(Nat) : Len(w) \in Nat
    OBVIOUS
  <2> QED
    BY <2>1, <2>2, <2>3
<1>1. N \in S /\ S \in SUBSET Nat
  BY <1>0
<1>2. PICK k : k \in S /\ \A n \in S : k <= n
  BY <1>1, MinOf
<1> DEFINE m == k - 1
<1>3. k # 0
  <2>1. W[0] = <<>> /\ Len(<<>>) = 0
    BY DEF Layout
  <2> QED
    BY <1>2, <2>1
<1>4. m \in 0..N /\ k \in 1..N /\ m \in 0..MaxSections /\ m + 1 = k /\ m \notin S
  BY <1>0, <1>2, <1>3
<1>5. Len(W[m]) <= c /\ c < Len(W[k])
  BY <1>0, <1>2, <1>4
<1> HIDE DEF S, m
<1>6. /\ body \in Seq(Nat) /\ Len(body) = c /\ \A i \in 1..c : body[i] = W[N][i]
  <2> DEFINE w == W[N]
  <2>1. w \in Seq(Nat) /\ c < Len(w) /\ body = SubSeq(w, 1, c)
    BY <1>0
  <2> HIDE DEF w
  <2>2. body \in Seq(Nat) /\ Len(body) = c
    BY <2>1
  <2>3. \A i \in 1..c : body[i] = w[i]
    BY <2>1
  <2> QED
    BY <2>2, <2>3 DEF w
<1>7. StartsWith(W[N], W[m]) /\ StartsWith(W[N], W[k])
  <2>1. N \in 0..N /\ m <= N /\ k <= N /\ k \in 0..N /\ m \in 0..N
    BY <1>0, <1>4
  <2> QED
    BY <2>1, LayoutGrows
<1>8. StartsWith(body, W[m])
  <2> SUFFICES ASSUME NEW i \in 1..Len(W[m]) PROVE body[i] = W[m][i]
    BY <1>5, <1>6 DEF StartsWith
  <2>1. i \in 1..c
    BY <1>0, <1>4, <1>5
  <2> QED
    BY <1>6, <1>7, <2>1 DEF StartsWith
<1>9. StartsWith(W[k], body)
  <2>1. Len(body) <= Len(W[k])
    BY <1>0, <1>4, <1>5, <1>6
  <2>2. ASSUME NEW i \in 1..c PROVE W[k][i] = body[i]
    <3>1. i \in 1..Len(W[k])
      BY <1>0, <1>4, <1>5
    <3> QED
      BY <1>6, <1>7, <3>1 DEF StartsWith
  <2> QED
    BY <1>6, <2>1, <2>2 DEF StartsWith
<1>10. PICK R : Reading(R, body) /\ Sections(body) = R[MaxSections + 1]
  BY <1>6, SectionsUnfold
<1>11. R[m] = [ok |-> TRUE, off |-> Len(W[m]), secs |-> SubSeq(secs, 1, m)]
  <2>1. m \in 0..Len(secs) /\ m \in 0..m
    BY <1>0, <1>4
  <2>2. body \in Seq(Nat) /\ Reading(R, body)
    BY <1>6, <1>10
  <2> HIDE DEF N
  <2>3. ReadTo(R, W, secs, m)
    BY <1>8, <2>1, <2>2, ReadsSections
  <2> QED
    BY <2>1, <2>3 DEF ReadTo
<1>12. CASE c = Len(W[m])
  <2>1. R[m].off >= Len(body) /\ m \in 0..(MaxSections + 1)
    BY <1>0, <1>4, <1>6, <1>11, <1>12
  <2>2. R[MaxSections + 1] = R[m]
    BY <1>6, <1>10, <2>1, ReadingStays
  <2> QED
    BY <1>4, <1>10, <1>11, <2>2
<1>13. CASE c # Len(W[m])
  <2>1. /\ secs[k] \in Sect /\ W[m] \in Seq(Nat) /\ W[k] = W[m] \o Framed(secs[k], 2)
    <3>1. k \in 1..Len(secs) /\ k - 1 = m
      BY <1>4 DEF m
    <3> QED
      BY <3>1, LayoutStep
  <2>2. SectionAt(body, Len(W[m])) = <<>>
    BY <1>5, <1>6, <1>9, <2>1, SectionCut
  <2>3. Refuses(body, m + 1, R[m]) /\ R[m].off < Len(body)
    <3>1. Len(W[m]) < c
      BY <1>0, <1>4, <1>5, <1>13
    <3> QED
      BY <1>6, <1>11, <2>2, <3>1 DEF Refuses
  <2>4. R[MaxSections + 1].ok = FALSE
    BY <1>4, <1>6, <1>10, <2>3, ReadingStops
  <2> QED
    BY <1>10, <2>4
<1> QED
  BY <1>12, <1>13

\* What has a cell behind it is refused.
LEMMA LongerRefused ==
  ASSUME NEW secs, Packable(secs), NEW W, Layout(W, secs, 2)
  PROVE  ~ Sections(W[Len(secs)] \o <<0>>).ok
<1> DEFINE N == Len(secs)
           w == W[N]
           body == w \o <<0>>
<1>0. N \in 0..N /\ N \in 0..MaxSections /\ w \in Seq(Nat) /\ <<0>> \in Seq(Nat) /\ Len(<<0>>) = 1
  BY FewSections DEF Packable, Layout
<1> HIDE DEF N, w
<1>1. body \in Seq(Nat) /\ StartsWith(body, w) /\ Len(body) = Len(w) + 1
  BY <1>0, ConcatStarts, ConcatCells
<1> HIDE DEF body
<1>2. PICK R : Reading(R, body) /\ Sections(body) = R[MaxSections + 1]
  BY <1>1, SectionsUnfold
<1>3. R[N] = [ok |-> TRUE, off |-> Len(w), secs |-> SubSeq(secs, 1, N)]
  <2>1. N \in 0..Len(secs) /\ StartsWith(body, W[N])
    BY <1>0, <1>1 DEF N, w
  <2>2. ReadTo(R, W, secs, N)
    BY <1>1, <1>2, <2>1, ReadsSections
  <2> QED
    BY <1>0, <2>2 DEF w, ReadTo
<1>4. Len(w) \in Nat
  BY <1>0
<1>5. SectionAt(body, R[N].off) = <<>>
  <2>1. R[N].off = Len(w) /\ Len(body) - Len(w) = 1
    BY <1>1, <1>3, <1>4
  <2>2. Len(body) - R[N].off < Overhead
    BY <2>1 DEF Overhead
  <2> QED
    BY <2>2 DEF SectionAt
<1>6. Refuses(body, N + 1, R[N])
  BY <1>5 DEF Refuses
<1>7. R[N].off < Len(body)
  BY <1>1, <1>3, <1>4
<1>8. R[MaxSections + 1].ok = FALSE
  BY <1>0, <1>1, <1>2, <1>6, <1>7, ReadingStops
<1> QED
  BY <1>2, <1>8 DEF body, w, N

\* What comes twice has its first tag twice.
LEMMA TwiceRefused ==
  ASSUME NEW secs, Packable(secs), secs # <<>>, NEW W, Layout(W, secs, 2)
  PROVE  ~ Sections(W[Len(secs)] \o W[Len(secs)]).ok
<1> DEFINE N == Len(secs)
           w == W[N]
           body == w \o w
<1>0. /\ N \in 0..N /\ N \in 0..MaxSections /\ w \in Seq(Nat) /\ 1 \in 1..N
      /\ secs \in Seq(Sect) /\ N \in Nat /\ 1 \in 0..N
  BY FewSections DEF Packable, Layout
<1>1. W[1] \in Seq(Nat) /\ W[1][1] = secs[1].tag /\ 5 <= Len(W[1]) /\ StartsWith(w, W[1])
  <2> DEFINE f == Framed(secs[1], 2)
             a == W[0]
             b == W[1]
  <2>1. /\ secs[1] \in Sect /\ a \in Seq(Nat) /\ b \in Seq(Nat) /\ b = a \o f
        /\ Len(b) = Len(a) + 5 + Len(secs[1].payload)
    <3>1. PICK n \in 1..Len(secs) : n = 1
      BY <1>0
    <3>2. /\ secs[n] \in Sect /\ W[n - 1] \in Seq(Nat) /\ W[n] \in Seq(Nat)
          /\ W[n] = W[n - 1] \o Framed(secs[n], 2)
          /\ Len(W[n]) = Len(W[n - 1]) + 5 + Len(secs[n].payload)
      BY LayoutStep
    <3>3. n - 1 = 0
      BY <3>1
    <3> QED
      BY <3>1, <3>2, <3>3
  <2>2. a = <<>> /\ Len(a) = 0
    BY DEF Layout
  <2>3. f \in Seq(Nat) /\ Len(f) = 5 + Len(secs[1].payload) /\ f[1] = secs[1].tag
    BY <2>1, FramedCells
  <2>4. Len(secs[1].payload) \in Nat
    BY <2>1, SectParts
  <2>5. StartsWith(w, b)
    BY <1>0, LayoutGrows
  <2> HIDE DEF f, a, b
  <2>6. ConcatOf(b, a, f)
    BY <2>1, <2>3, ConcatCells
  <2>7. b[1] = f[1]
    <3>1. 1 \in 1..Len(f) /\ Len(a) + 1 = 1
      BY <2>2, <2>3, <2>4
    <3>2. b[Len(a) + 1] = f[1]
      BY <2>6, <3>1 DEF ConcatOf
    <3> QED
      BY <3>1, <3>2
  <2>8. 5 <= Len(b)
    BY <2>1, <2>2, <2>4
  <2> QED
    BY <2>1, <2>3, <2>5, <2>7, <2>8 DEF b
<1> HIDE DEF N, w
<1>2. body \in Seq(Nat) /\ StartsWith(body, w) /\ ConcatOf(body, w, w)
  BY <1>0, ConcatStarts, ConcatCells
<1> HIDE DEF body
<1>3. PICK R : Reading(R, body) /\ Sections(body) = R[MaxSections + 1]
  BY <1>2, SectionsUnfold
<1>4. R[N] = [ok |-> TRUE, off |-> Len(w), secs |-> SubSeq(secs, 1, N)]
  <2>1. N \in 0..Len(secs) /\ StartsWith(body, W[N])
    BY <1>0, <1>2 DEF N, w
  <2>2. ReadTo(R, W, secs, N)
    BY <1>2, <1>3, <2>1, ReadsSections
  <2> QED
    BY <1>0, <2>2 DEF w, ReadTo
<1>5. Len(w) \in Nat /\ Len(body) = Len(w) + Len(w) /\ 5 <= Len(w) /\ w[1] = secs[1].tag
  <2>1. Len(W[1]) \in Nat /\ Len(w) \in Nat
    BY <1>0, <1>1
  <2>2. 1 \in 1..Len(W[1])
    BY <1>1, <2>1
  <2>3. Len(W[1]) <= Len(w) /\ w[1] = W[1][1]
    BY <1>1, <2>2 DEF StartsWith
  <2>4. Len(body) = Len(w) + Len(w)
    BY <1>2 DEF ConcatOf
  <2> QED
    BY <1>1, <2>1, <2>3, <2>4
<1>6. body[Len(w) + 1] = secs[1].tag
  <2>1. 1 \in 1..Len(w)
    BY <1>5
  <2> QED
    BY <1>2, <1>5, <2>1 DEF ConcatOf
<1>7. R[N].secs = secs /\ R[N].off = Len(w)
  BY <1>0, <1>4 DEF N
<1>8. Refuses(body, N + 1, R[N])
  <2> DEFINE at == SectionAt(body, Len(w))
  <2>1. CASE at = <<>>
    BY <1>7, <2>1 DEF Refuses
  <2>2. CASE at # <<>>
    <3>1. at[1].tag = body[Len(w) + 1]
      BY <1>2, <1>5, <2>2, SectionTyped
    <3>2. 1 \in DOMAIN R[N].secs /\ R[N].secs[1].tag = at[1].tag
      BY <1>0, <1>6, <1>7, <3>1 DEF N
    <3> HIDE DEF at
    <3> QED
      BY <1>7, <3>2 DEF Refuses, at
  <2> QED
    BY <2>1, <2>2
<1>9. R[N].off < Len(body)
  BY <1>5, <1>7
<1>10. R[MaxSections + 1].ok = FALSE
  BY <1>0, <1>2, <1>3, <1>8, <1>9, ReadingStops
<1> QED
  BY <1>3, <1>10 DEF body, w, N

-----------------------------------------------------------------------------
(* The bare framing, and one framing read as the other. *)

BareBody == <<0, 0, 0, 2, 77, 78>>

LEMMA BareCells ==
  /\ BareBody \in Seq(Nat) /\ Len(BareBody) = 6
  /\ BareBody[1] = 0 /\ BareBody[2] = 0 /\ BareBody[3] = 0 /\ BareBody[4] = 2
  /\ BareBody[5] = 77 /\ BareBody[6] = 78
BY DEF BareBody

LEMMA BareWritten ==
  ASSUME NEW secs \in Seq(Sect), Len(secs) = 1, secs[1].payload = Payload
  PROVE  Written(secs, 1) = BareBody
<1>1. PICK W : Layout(W, secs, 1) /\ Written(secs, 1) = W[Len(secs)]
  BY WrittenUnfold
<1>2. W[0] = <<>> /\ W[1] = W[0] \o Framed(secs[1], 1)
  <2>1. 1 \in 1..Len(secs) /\ 1 - 1 = 0
    OBVIOUS
  <2> QED
    BY <1>1, <2>1 DEF Layout
<1>3. Framed(secs[1], 1) = (<<>> \o Be32(2)) \o Payload
  <2>1. Len(Payload) = 2
    BY DEF Payload
  <2> QED
    BY <2>1 DEF Framed
<1>4. 2 \in Lengths /\ 2 \div 256 = 0 /\ 2 % 256 = 2
  BY DEF Lengths
<1>5. Be32(2) = <<0, 0, 0, 2>>
  BY <1>4, LengthBytes
<1>6. <<>> \o <<0, 0, 0, 2>> = <<0, 0, 0, 2>>
  OBVIOUS
<1> DEFINE a == <<0, 0, 0, 2>>
           p == Payload
           w == a \o p
<1>7. a \in Seq(Nat) /\ Len(a) = 4 /\ a[1] = 0 /\ a[2] = 0 /\ a[3] = 0 /\ a[4] = 2
  OBVIOUS
<1>8. p \in Seq(Nat) /\ Len(p) = 2 /\ p[1] = 77 /\ p[2] = 78
  BY DEF Payload
<1>9. W[1] = <<>> \o w
  BY <1>2, <1>3, <1>5, <1>6
<1> HIDE DEF a, p
<1>10. w \in Seq(Nat) /\ ConcatOf(w, a, p)
  BY <1>7, <1>8, ConcatCells
<1> HIDE DEF w
<1>11. W[1] = w
  BY <1>9, <1>10
<1>12. /\ Len(w) = 6
       /\ w[1] = 0 /\ w[2] = 0 /\ w[3] = 0 /\ w[4] = 2
       /\ w[4 + 1] = 77 /\ w[4 + 2] = 78
  BY <1>7, <1>8, <1>10 DEF ConcatOf
<1>13. w = BareBody
  <2>1. \A i \in 1..6 : w[i] = BareBody[i]
    <3> TAKE i \in 1..6
    <3>1. i = 1 \/ i = 2 \/ i = 3 \/ i = 4 \/ i = 5 \/ i = 6
      OBVIOUS
    <3>2. w[5] = 77 /\ w[6] = 78
      BY <1>12
    <3> QED
      BY <1>12, <3>1, <3>2, BareCells
  <2> QED
    <3> DEFINE v == BareBody
    <3>1. v \in Seq(Nat) /\ Len(v) = 6 /\ (\A i \in 1..6 : w[i] = v[i])
      BY <2>1, BareCells
    <3> HIDE DEF v
    <3>2. w \in Seq(Nat) /\ Len(w) = Len(v) /\ (\A i \in 1..Len(w) : w[i] = v[i])
      BY <1>10, <1>12, <3>1
    <3>3. w = v
      BY <3>1, <3>2, SameCells
    <3> QED
      BY <3>3 DEF v
<1> QED
  BY <1>1, <1>11, <1>13

\* Cuts of four cells and of two.
LEMMA CutFour ==
  ASSUME NEW body \in Seq(Nat), NEW from \in Nat, from + 4 <= Len(body)
  PROVE  LET c == Cut(body, from, 4) IN
         /\ c[1] = body[from + 1] /\ c[2] = body[from + 2]
         /\ c[3] = body[from + 3] /\ c[4] = body[from + 4]
<1> DEFINE len == 4
           c == Cut(body, from, len)
<1>1. len \in Nat /\ from + len <= Len(body) /\ {1, 2, 3, 4} \subseteq 1..len
  OBVIOUS
<1> HIDE DEF len
<1>2. \A i \in 1..len : c[i] = body[from + i]
  BY <1>1, CutCells
<1> HIDE DEF c
<1>3. c[1] = body[from + 1] /\ c[2] = body[from + 2] /\ c[3] = body[from + 3] /\ c[4] = body[from + 4]
  BY <1>1, <1>2
<1> QED
  BY <1>3 DEF c, len

LEMMA CutTwo ==
  ASSUME NEW body \in Seq(Nat), NEW from \in Nat, from + 2 <= Len(body)
  PROVE  LET c == Cut(body, from, 2) IN
         c \in Seq(Nat) /\ Len(c) = 2 /\ c[1] = body[from + 1] /\ c[2] = body[from + 2]
<1> DEFINE len == 2
           c == Cut(body, from, len)
<1>1. len \in Nat /\ from + len <= Len(body) /\ 1 \in 1..len /\ 2 \in 1..len /\ len = 2
  OBVIOUS
<1> HIDE DEF len
<1>2. c \in Seq(Nat) /\ Len(c) = len /\ \A i \in 1..len : c[i] = body[from + i]
  BY <1>1, CutCells
<1> HIDE DEF c
<1>3. c \in Seq(Nat) /\ Len(c) = 2 /\ c[1] = body[from + 1] /\ c[2] = body[from + 2]
  BY <1>1, <1>2
<1> QED
  BY <1>3 DEF c, len

\* The length in front of a bare body, or of what is left of one.
LEMMA BareLength ==
  ASSUME NEW body \in Seq(Nat), 4 <= Len(body),
         body[1] = 0, body[2] = 0, body[3] = 0, body[4] = 2
  PROVE  ReadBe32(Cut(body, 0, 4)) = 2
<1> DEFINE c == Cut(body, 0, 4)
<1>2. c[1] = body[0 + 1] /\ c[2] = body[0 + 2] /\ c[3] = body[0 + 3] /\ c[4] = body[0 + 4]
  <2> DEFINE from == 0
  <2>1. from \in Nat /\ from + 4 <= Len(body)
    OBVIOUS
  <2> HIDE DEF from
  <2>2. LET d == Cut(body, from, 4) IN
        /\ d[1] = body[from + 1] /\ d[2] = body[from + 2]
        /\ d[3] = body[from + 3] /\ d[4] = body[from + 4]
    BY <2>1, CutFour
  <2> QED
    BY <2>2 DEF from
<1> HIDE DEF c
<1>3. c[1] = 0 /\ c[2] = 0 /\ c[3] = 0 /\ c[4] = 2
  BY <1>2
<1>4. ReadBe32(c) = 256 * c[3] + c[4]
  BY <1>3, LengthBack
<1> QED
  BY <1>3, <1>4 DEF c

LEMMA BareReads ==
  Bare(BareBody) = <<<<[tag |-> ProofTag, payload |-> Payload]>>>>
<1>1. ReadBe32(Cut(BareBody, 0, 4)) = 2
  BY BareCells, BareLength
<1>2. Cut(BareBody, 4, 2) = Payload
  <2> DEFINE c == Cut(BareBody, 4, 2)
  <2>1. c \in Seq(Nat) /\ Len(c) = 2 /\ c[1] = BareBody[4 + 1] /\ c[2] = BareBody[4 + 2]
    <3> DEFINE from == 4
               v == BareBody
    <3>1. v \in Seq(Nat) /\ from \in Nat /\ from + 2 <= Len(v)
      BY BareCells
    <3> HIDE DEF from, v
    <3>2. LET d == Cut(v, from, 2) IN
          d \in Seq(Nat) /\ Len(d) = 2 /\ d[1] = v[from + 1] /\ d[2] = v[from + 2]
      BY <3>1, CutTwo
    <3> QED
      BY <3>2 DEF from, v
  <2> HIDE DEF c
  <2>2. c[1] = 77 /\ c[2] = 78
    BY <2>1, BareCells
  <2>3. Payload \in Seq(Nat) /\ Len(Payload) = 2 /\ Payload[1] = 77 /\ Payload[2] = 78
    BY DEF Payload
  <2> DEFINE v == Payload
  <2>4. v \in Seq(Nat) /\ Len(v) = 2 /\ v[1] = 77 /\ v[2] = 78
    BY <2>3
  <2> HIDE DEF v
  <2>5. \A i \in 1..2 : c[i] = v[i]
    BY <2>2, <2>4
  <2>6. c = v
    BY <2>1, <2>4, <2>5, SameCells
  <2> QED
    BY <2>6 DEF c, v
<1>3. Len(BareBody) - 4 = 2 /\ ~ (Len(BareBody) < 4) /\ Len(BareBody) = 4 + 2
  BY BareCells
<1> QED
  BY <1>1, <1>2, <1>3 DEF Bare

\* Cut or with more behind, a bare body has not the length that it says.
LEMMA BareRefuses ==
  ASSUME NEW body \in Seq(Nat), Len(body) # 6, \A i \in 1..4 : i <= Len(body) => body[i] = BareBody[i]
  PROVE  Bare(body) = <<>>
<1>1. CASE Len(body) < 4
  BY <1>1 DEF Bare
<1>2. CASE ~ (Len(body) < 4)
  <2>1. 4 <= Len(body) /\ Len(body) \in Nat
    BY <1>2
  <2>2. body[1] = 0 /\ body[2] = 0 /\ body[3] = 0 /\ body[4] = 2
    <3>1. /\ body[1] = BareBody[1] /\ body[2] = BareBody[2]
          /\ body[3] = BareBody[3] /\ body[4] = BareBody[4]
      BY <2>1
    <3> QED
      BY <3>1, BareCells
  <2>3. ReadBe32(Cut(body, 0, 4)) = 2
    BY <2>1, <2>2, BareLength
  <2>4. Len(body) # 4 + 2
    OBVIOUS
  <2> QED
    BY <2>3, <2>4 DEF Bare
<1> QED
  BY <1>1, <1>2

\* A bare body read as sections: the first would be longer than the body.
LEMMA BareIsNotSectioned == ~ Sections(BareBody).ok
<1> DEFINE body == BareBody
<1>1. body \in Seq(Nat) /\ Len(body) = 6
  BY BareCells
<1>2. PICK R : Reading(R, body) /\ Sections(body) = R[MaxSections + 1]
  BY <1>1, SectionsUnfold
<1>3. R[0].off = 0 /\ R[0].secs = <<>>
  BY <1>2 DEF Reading, NoneRead
<1>4. ReadBe32(Cut(body, 1, 4)) = 589
  <2> DEFINE c == Cut(body, 1, 4)
  <2>2. c[1] = body[1 + 1] /\ c[2] = body[1 + 2] /\ c[3] = body[1 + 3] /\ c[4] = body[1 + 4]
    <3> DEFINE from == 1
               v == body
    <3>1. v \in Seq(Nat) /\ from \in Nat /\ from + 4 <= Len(v)
      BY <1>1
    <3> HIDE DEF from, v
    <3>2. LET d == Cut(v, from, 4) IN
          /\ d[1] = v[from + 1] /\ d[2] = v[from + 2]
          /\ d[3] = v[from + 3] /\ d[4] = v[from + 4]
      BY <3>1, CutFour
    <3> QED
      BY <3>2 DEF from, v
  <2> HIDE DEF c
  <2>3. c[1] = 0 /\ c[2] = 0 /\ c[3] = 2 /\ c[4] = 77
    BY <2>2, BareCells
  <2>4. ReadBe32(c) = 256 * c[3] + c[4]
    BY <2>3, LengthBack
  <2> QED
    BY <2>3, <2>4 DEF c
<1> HIDE DEF body
<1>5. SectionAt(body, 0) = <<>>
  <2>1. ReadBe32(Cut(body, 0 + 1, 4)) = 589
    BY <1>4
  <2>2. 589 > Len(body) - (0 + Overhead)
    BY <1>1 DEF Overhead
  <2> QED
    BY <2>1, <2>2 DEF SectionAt
<1>6. Refuses(body, 0 + 1, R[0])
  BY <1>3, <1>5 DEF Refuses
<1>7. R[MaxSections + 1].ok = FALSE
  <2> DEFINE n == 0
  <2>1. n \in 0..MaxSections
    <3>1. MaxSections \in 1..255
      BY FewSections
    <3> QED
      BY <3>1
  <2>2. R[n].off < Len(body)
    BY <1>1, <1>3
  <2>3. Refuses(body, n + 1, R[n])
    BY <1>6
  <2> HIDE DEF n
  <2> QED
    BY <1>1, <1>2, <2>1, <2>2, <2>3, ReadingStops
<1> QED
  BY <1>2, <1>7 DEF body
-----------------------------------------------------------------------------
(* Sections read as a bare body: they have not the length that would say. *)

LEMMA FirstSection ==
  ASSUME NEW secs, Packable(secs), secs # <<>>, NEW W, Layout(W, secs, 2)
  PROVE  LET w == W[Len(secs)] IN
         /\ secs[1] \in Sect /\ 5 + Len(secs[1].payload) <= Len(w)
         /\ w[1] = secs[1].tag /\ w[2] = 0 /\ w[3] = 0 /\ w[4] = Len(secs[1].payload) \div 256
<1> DEFINE N == Len(secs)
           w == W[N]
           f == Framed(secs[1], 2)
           a == W[0]
           b == W[1]
           len == Len(secs[1].payload)
<1>0. N \in Nat /\ 1 \in 1..N /\ 1 \in 0..N /\ N \in 0..N /\ w \in Seq(Nat) /\ secs \in Seq(Sect)
  BY DEF Packable, Layout
<1>1. secs[1] \in Sect /\ a \in Seq(Nat) /\ b \in Seq(Nat) /\ b = a \o f /\ Len(b) = Len(a) + 5 + len
  <2>1. PICK n \in 1..Len(secs) : n = 1
    BY <1>0
  <2>2. /\ secs[n] \in Sect /\ W[n - 1] \in Seq(Nat) /\ W[n] \in Seq(Nat)
        /\ W[n] = W[n - 1] \o Framed(secs[n], 2)
        /\ Len(W[n]) = Len(W[n - 1]) + 5 + Len(secs[n].payload)
    BY LayoutStep
  <2>3. n - 1 = 0
    BY <2>1
  <2> QED
    BY <2>1, <2>2, <2>3
<1>2. a = <<>> /\ Len(a) = 0
  BY DEF Layout
<1>3. /\ f \in Seq(Nat) /\ Len(f) = 5 + len
      /\ f[1] = secs[1].tag /\ f[2] = 0 /\ f[3] = 0 /\ f[4] = len \div 256
  BY <1>1, FramedCells
<1>4. len \in Nat
  BY <1>1, SectParts
<1>5. StartsWith(w, b)
  BY <1>0, LayoutGrows
<1> HIDE DEF f, a, b, w, N, len
<1>6. ConcatOf(b, a, f)
  BY <1>1, <1>3, ConcatCells
<1>7. Len(b) = 5 + len /\ {1, 2, 3, 4} \subseteq 1..Len(f) /\ {1, 2, 3, 4} \subseteq 1..Len(b)
  BY <1>1, <1>2, <1>3, <1>4
<1>8. \A i \in {1, 2, 3, 4} : w[i] = f[i]
  <2> TAKE i \in {1, 2, 3, 4}
  <2>1. b[Len(a) + i] = f[i]
    BY <1>6, <1>7 DEF ConcatOf
  <2>2. Len(a) + i = i
    BY <1>2
  <2>3. w[i] = b[i]
    BY <1>5, <1>7 DEF StartsWith
  <2> QED
    BY <2>1, <2>2, <2>3
<1>9. 5 + len <= Len(w)
  BY <1>5, <1>7 DEF StartsWith
<1>10. w[1] = secs[1].tag /\ w[2] = 0 /\ w[3] = 0 /\ w[4] = len \div 256
  BY <1>3, <1>8
<1> QED
  BY <1>1, <1>9, <1>10 DEF w, N, len

LEMMA LayoutLength ==
  ASSUME NEW secs, Packable(secs), NEW W, Layout(W, secs, 2)
  PROVE  Len(W[Len(secs)]) < 2 ^ 24
<1> DEFINE N == Len(secs)
           most == 65540
           T == {k \in Nat : k <= N => Len(W[k]) <= k * most}
<1>0. N \in Nat /\ N <= MaxSections /\ MaxSections \in Nat /\ MaxSections <= 255
  BY FewSections DEF Packable
<1>a. most = 65540 /\ most \in Nat
  BY SMT
<1> HIDE DEF most
<1>1. 0 \in T
  <2>1. Len(W[0]) = 0 /\ 0 * most = 0
    BY <1>a DEF Layout
  <2> QED
    BY <2>1
<1>2. ASSUME NEW k \in Nat, k \in T PROVE k + 1 \in T
  <2> SUFFICES ASSUME k + 1 <= N PROVE Len(W[k + 1]) <= (k + 1) * most
    OBVIOUS
  <2> DEFINE n == k + 1
             x == Len(W[k])
             y == Len(W[n])
             p == Len(secs[n].payload)
  <2>1. n \in 1..Len(secs) /\ n - 1 = k /\ k <= N
    BY <1>0
  <2>2. x <= k * most
    BY <1>2, <2>1
  <2> HIDE DEF n
  <2>3. secs[n] \in Sect /\ W[n - 1] \in Seq(Nat) /\ Len(W[n]) = Len(W[n - 1]) + 5 + p
    BY <2>1, LayoutStep
  <2>4. p \in Lengths
    BY <2>3, SectParts
  <2>5. y = x + 5 + p /\ x \in Nat
    BY <2>1, <2>3
  <2> HIDE DEF x, y, p
  <2>6. 5 + p <= most
    BY <1>a, <2>4, SMT DEF Lengths
  <2>7. (k + 1) * most = k * most + most
    BY <1>a
  <2> DEFINE m == k * most
  <2>8. m \in Nat /\ x <= m /\ y = x + 5 + p /\ x \in Nat /\ p \in Nat
    BY <1>a, <2>2, <2>4, <2>5, SMT DEF Lengths
  <2> HIDE DEF m
  <2>9. y <= m + most
    BY <1>a, <2>6, <2>8
  <2> QED
    BY <2>7, <2>9 DEF y, n, m
<1> HIDE DEF T
<1>3. Nat \subseteq T
  BY <1>1, <1>2, NatSetInduction
<1>4. Len(W[N]) <= N * most
  BY <1>0, <1>3 DEF T
<1>5. Len(W[N]) \in Nat
  <2>1. W[N] \in Seq(Nat)
    BY <1>0 DEF Layout
  <2> QED
    BY <2>1
<1> DEFINE z == Len(W[N])
<1>6. z <= N * most /\ z \in Nat
  BY <1>4, <1>5
<1> HIDE DEF z, N
<1>7. z < 16777216
  BY <1>0, <1>6, <1>a, SMT
<1> QED
  BY <1>7, Powers, SMT DEF z, N

LEMMA HighLength ==
  ASSUME NEW c, NEW t \in Nat, NEW b \in Nat, c[1] = t, c[2] = 0, c[3] = 0, c[4] = b
  PROVE  /\ ReadBe32(c) \in Nat
         /\ t = 0 => ReadBe32(c) = b
         /\ t # 0 => ReadBe32(c) >= 2 ^ 24
BY Powers, SMT DEF ReadBe32

LEMMA BareRefusesSections ==
  ASSUME NEW secs, Packable(secs), secs # <<>>, NEW W, Layout(W, secs, 2)
  PROVE  Bare(W[Len(secs)]) = <<>>
<1> DEFINE w == W[Len(secs)]
           len == Len(secs[1].payload)
           tag == secs[1].tag
           b == len \div 256
           c == Cut(w, 0, 4)
           far == 2 ^ 24
<1>a. far \in Nat
  <2>1. 24 \in Nat
    OBVIOUS
  <2> QED
    BY <2>1, PowerPositive
<1>1. /\ secs[1] \in Sect /\ 5 + len <= Len(w)
      /\ w[1] = tag /\ w[2] = 0 /\ w[3] = 0 /\ w[4] = b
  BY FirstSection
<1>2. len \in Lengths /\ tag \in Nat
  BY <1>1, SectParts
<1>3. b \in Nat /\ b <= len /\ len \in Nat
  <2> HIDE DEF len
  <2>1. len \in Nat
    BY <1>2 DEF Lengths
  <2> QED
    BY <2>1
<1>4. Len(w) < far
  BY LayoutLength
<1>5. w \in Seq(Nat) /\ Len(w) \in Nat
  <2>1. Len(secs) \in 0..Len(secs)
    BY DEF Packable
  <2> QED
    BY <2>1 DEF Layout
<1> HIDE DEF w, len, tag, b, far
<1>6. c[1] = w[0 + 1] /\ c[2] = w[0 + 2] /\ c[3] = w[0 + 3] /\ c[4] = w[0 + 4]
  <2> DEFINE from == 0
  <2>1. from \in Nat /\ from + 4 <= Len(w)
    BY <1>1, <1>3, <1>5
  <2> HIDE DEF from
  <2>2. LET d == Cut(w, from, 4) IN
        /\ d[1] = w[from + 1] /\ d[2] = w[from + 2]
        /\ d[3] = w[from + 3] /\ d[4] = w[from + 4]
    BY <1>5, <2>1, CutFour
  <2> QED
    BY <2>2 DEF from
<1> HIDE DEF c
<1>7. c[1] = tag /\ c[2] = 0 /\ c[3] = 0 /\ c[4] = b
  BY <1>1, <1>6
<1>8. /\ ReadBe32(c) \in Nat
      /\ tag = 0 => ReadBe32(c) = b
      /\ tag # 0 => ReadBe32(c) >= far
  BY <1>2, <1>3, <1>7, HighLength DEF far
<1> DEFINE read == ReadBe32(c)
<1>9. read \in Nat /\ (tag = 0 => read = b) /\ (tag # 0 => read >= far)
  BY <1>8
<1> HIDE DEF read
<1> DEFINE all == Len(w)
<1>10. all \in Nat /\ all < far /\ 5 + len <= all
  BY <1>1, <1>4, <1>5
<1> HIDE DEF all
<1>11. all # 4 + read
  <2>1. CASE tag = 0
    BY <1>3, <1>9, <1>10, <2>1
  <2>2. CASE tag # 0
    BY <1>a, <1>9, <1>10, <2>2
  <2> QED
    BY <2>1, <2>2
<1> QED
  BY <1>11 DEF Bare, all, read, c, w

-----------------------------------------------------------------------------
(* What the calls to a packer leave in it. *)

LEMMA KeepTyped ==
  ASSUME NEW kept \in Seq(Sect), NEW c \in Sect, NEW opener
  PROVE  Keep(kept, c, opener) \in Seq(Sect)
BY DEF Keep

\* K holds what is kept after each call.
Keeping(K, asked, opener) ==
  /\ K[0] = <<>>
  /\ \A n \in 1..Len(asked) : K[n] = Keep(K[n - 1], asked[n], opener)

LEMMA KeptUnfold ==
  ASSUME NEW asked \in Seq(Sect), NEW opener
  PROVE  \E K : Keeping(K, asked, opener) /\ KeptOf(asked, opener) = K[Len(asked)]
<1> DEFINE d == Len(asked)
           G == [k \in 1..d |-> [x \in Seq(Sect) |-> Keep(x, asked[k], opener)]]
           Def(g) == g = [k \in 0..d |-> IF k = 0 THEN <<>> ELSE Keep(g[k - 1], asked[k], opener)]
<1>0. d \in Nat /\ \A k \in 1..d : asked[k] \in Sect
  OBVIOUS
<1>1. \E g : Ladder(g, G, <<>>, d)
  <2> HIDE DEF G, d
  <2> QED
    BY <1>0, LadderExists
<1>2. PICK g : g = [k \in 0..d |-> IF k = 0 THEN <<>> ELSE G[k][g[k - 1]]]
  BY <1>1 DEF Ladder
<1> HIDE DEF d
<1>3. ASSUME NEW k \in 1..d, g[k - 1] \in Seq(Sect)
      PROVE  g[k] = Keep(g[k - 1], asked[k], opener) /\ g[k] \in Seq(Sect)
  <2>1. k \in 0..d /\ k # 0
    BY <1>0
  <2>2. g[k] = G[k][g[k - 1]]
    <3> HIDE DEF G
    <3> QED
      BY <1>2, <2>1
  <2>3. g[k] = Keep(g[k - 1], asked[k], opener)
    BY <1>3, <2>2
  <2> QED
    BY <1>0, <1>3, <2>3, KeepTyped
<1>4. g[0] = <<>> /\ <<>> \in Seq(Sect)
  <2> HIDE DEF G
  <2> QED
    BY <1>0, <1>2
<1>5. \A k \in 0..d : g[k] \in Seq(Sect)
  <2> HIDE DEF G
  <2>1. \A k \in 1..d : g[k - 1] \in Seq(Sect) => g[k] \in Seq(Sect)
    BY <1>3
  <2>2. g[0] \in Seq(Sect)
    BY <1>4
  <2> QED
    BY <1>0, <2>1, <2>2, StaysIn
<1>6. Def(g)
  <2>1. g = [k \in 0..d |-> g[k]]
    BY <1>2
  <2>2. \A k \in 0..d : k # 0 => g[k] = Keep(g[k - 1], asked[k], opener)
    <3> TAKE k \in 0..d
    <3> HAVE k # 0
    <3>1. k \in 1..d /\ k - 1 \in 0..d
      BY <1>0
    <3> QED
      BY <1>3, <1>5, <3>1
  <2> HIDE DEF G
  <2> QED
    BY <1>4, <2>1, <2>2
<1> DEFINE f == CHOOSE x : Def(x)
<1>7. KeptOf(asked, opener) = f[d]
  BY DEF KeptOf, d
<1>8. Def(f)
  <2> HIDE DEF Def, f
  <2> QED
    BY <1>6 DEF f
<1> HIDE DEF f, G
<1>9. f[0] = <<>> /\ \A k \in 1..d : f[k] = Keep(f[k - 1], asked[k], opener)
  <2>1. 0 \in 0..d /\ \A k \in 1..d : k \in 0..d /\ k # 0
    BY <1>0
  <2> QED
    BY <1>8, <2>1
<1> QED
  BY <1>7, <1>9 DEF Keeping, d

LEMMA KeptNone == ASSUME NEW opener PROVE KeptOf(<<>>, opener) = <<>>
<1> DEFINE none == <<>>
<1>1. none \in Seq(Sect) /\ Len(none) = 0
  OBVIOUS
<1> HIDE DEF none
<1>2. PICK K : Keeping(K, none, opener) /\ KeptOf(none, opener) = K[Len(none)]
  BY <1>1, KeptUnfold
<1>3. KeptOf(none, opener) = <<>>
  BY <1>1, <1>2 DEF Keeping
<1> QED
  BY <1>3 DEF none

LEMMA KeptGrows ==
  ASSUME NEW asked \in Seq(Sect), NEW c \in Sect, NEW opener
  PROVE  KeptOf(Append(asked, c), opener) = Keep(KeptOf(asked, opener), c, opener)
<1> DEFINE more == Append(asked, c)
           d == Len(asked)
<1>1. /\ more \in Seq(Sect) /\ Len(more) = d + 1 /\ d \in Nat /\ more[d + 1] = c
      /\ \A k \in 1..d : more[k] = asked[k]
  OBVIOUS
<1> HIDE DEF more
<1>2. PICK K : Keeping(K, asked, opener) /\ KeptOf(asked, opener) = K[Len(asked)]
  BY KeptUnfold
<1>3. PICK M : Keeping(M, more, opener) /\ KeptOf(more, opener) = M[Len(more)]
  BY <1>1, KeptUnfold
<1> HIDE DEF d
<1>4. K[0] = <<>> /\ \A k \in 1..d : K[k] = Keep(K[k - 1], asked[k], opener)
  BY <1>2 DEF Keeping, d
<1>5. M[0] = <<>> /\ \A k \in 1..(d + 1) : M[k] = Keep(M[k - 1], more[k], opener)
  BY <1>1, <1>3 DEF Keeping
<1> DEFINE T == {k \in Nat : k <= d => M[k] = K[k]}
<1>6. 0 \in T
  BY <1>4, <1>5
<1>7. ASSUME NEW k \in Nat, k \in T PROVE k + 1 \in T
  <2> SUFFICES ASSUME k + 1 <= d PROVE M[k + 1] = K[k + 1]
    OBVIOUS
  <2>1. k + 1 \in 1..d /\ k + 1 \in 1..(d + 1) /\ (k + 1) - 1 = k /\ k <= d
    BY <1>1
  <2>2. M[k] = K[k]
    BY <1>7, <2>1
  <2>3. M[k + 1] = Keep(M[k], more[k + 1], opener)
    BY <1>5, <2>1
  <2>4. K[k + 1] = Keep(K[k], asked[k + 1], opener)
    BY <1>4, <2>1
  <2> QED
    BY <1>1, <2>1, <2>2, <2>3, <2>4
<1> HIDE DEF T
<1>8. Nat \subseteq T
  BY <1>6, <1>7, NatSetInduction
<1>9. M[d] = K[d]
  BY <1>1, <1>8 DEF T
<1>10. M[d + 1] = Keep(M[d], c, opener)
  <2>1. d + 1 \in 1..(d + 1) /\ (d + 1) - 1 = d
    BY <1>1
  <2> QED
    BY <1>1, <1>5, <2>1
<1> QED
  BY <1>1, <1>2, <1>3, <1>9, <1>10 DEF more, d

\* Sections that may be packed, their proof the proof that was made.
Good(kept) ==
  /\ Packable(kept)
  /\ \A i \in 1..Len(kept) : kept[i].tag = ProofTag => kept[i].payload = Payload
GoodCall(c) == c \in Sect /\ (c.tag = ProofTag => c.payload = Payload)

LEMMA GoodNone == Good(<<>>)
<1>1. <<>> \in Seq(Sect) /\ Len(<<>>) = 0 /\ 0 <= MaxSections
  BY FewSections
<1> QED
  BY <1>1 DEF Good, Packable

LEMMA GoodGrows ==
  ASSUME NEW kept, Good(kept), NEW c, GoodCall(c), NEW opener
  PROVE  Good(Keep(kept, c, opener))
<1>1. CASE Keep(kept, c, opener) = kept
  BY <1>1
<1>2. CASE Keep(kept, c, opener) # kept
  <2> DEFINE more == Append(kept, c)
             d == Len(kept)
  <2>1. /\ Keep(kept, c, opener) = more /\ Len(kept) # MaxSections
        /\ \A k \in DOMAIN kept : kept[k].tag # c.tag
    BY <1>2 DEF Keep
  <2>2. kept \in Seq(Sect) /\ Len(kept) <= MaxSections /\ MaxSections \in Nat /\ c \in Sect
    BY FewSections DEF Good, Packable, GoodCall
  <2>3. /\ more \in Seq(Sect) /\ Len(more) = d + 1 /\ d \in Nat /\ more[d + 1] = c
        /\ DOMAIN kept = 1..d /\ \A k \in 1..d : more[k] = kept[k]
    BY <2>2
  <2>4. Len(more) <= MaxSections
    <3>1. d # MaxSections /\ d <= MaxSections
      BY <2>1, <2>2
    <3> HIDE DEF d, more
    <3> QED
      BY <2>2, <2>3, <3>1
  <2> HIDE DEF more
  <2>5. \A i, j \in 1..d : kept[i].tag = kept[j].tag => i = j
    BY DEF Good, Packable
  <2>6. \A i \in 1..d : kept[i].tag = ProofTag => kept[i].payload = Payload
    BY DEF Good
  <2> HIDE DEF d
  <2>7. \A i \in 1..(d + 1) : i \in 1..d \/ i = d + 1
    BY <2>3
  <2>8. \A i, j \in 1..(d + 1) : more[i].tag = more[j].tag => i = j
    BY <2>1, <2>3, <2>5, <2>7
  <2>9. \A i \in 1..(d + 1) : more[i].tag = ProofTag => more[i].payload = Payload
    BY <2>3, <2>6, <2>7 DEF GoodCall
  <2> QED
    BY <2>1, <2>3, <2>4, <2>8, <2>9 DEF Good, Packable
<1> QED
  BY <1>1, <1>2

-----------------------------------------------------------------------------
(* From the packer to the unpacker. *)

\* An envelope as it was packed.
Intact(w, kept) ==
  /\ w = [magic |-> Magic, version |-> w.version, cfg_fp |-> CfgFp, params_fp |-> Params,
          body |-> Written(kept, w.version)]
  /\ w.version \in {1, 2}
  /\ \E i \in 1..Len(kept) : kept[i].tag = ProofTag
  /\ w.version = 1 => Len(kept) = 1

LEMMA FinalIntact ==
  ASSUME NEW p, p.format \in Formats, p.cfg_fp = CfgFp, p.params_fp = Params, Good(p.sections),
         NEW n, PackFinal(p, n) # <<>>
  PROVE  \E w : PackFinal(p, n) = <<w>> /\ Intact(w, p.sections)
<1> DEFINE kept == p.sections
           others == Tags(p) \ {ProofTag}
           format == IF p.format # 0 THEN p.format ELSE IF others # {} THEN 2 ELSE 1
           w == [magic |-> Magic, version |-> format, cfg_fp |-> CfgFp, params_fp |-> Params,
                 body |-> Written(kept, format)]
<1>1. Resolve(p) # <<>>
  BY DEF PackFinal
<1>2. ProofTag \in Tags(p) /\ ~ (format = 1 /\ others # {}) /\ Resolve(p)[1].format = format
  BY <1>1 DEF Resolve
<1>3. PackFinal(p, n) = <<w>>
  BY <1>2 DEF PackFinal
<1>4. format \in {1, 2}
  BY DEF Formats
<1>5. /\ kept \in Seq(Sect) /\ DOMAIN kept = 1..Len(kept) /\ Len(kept) \in Nat
      /\ \A i, j \in 1..Len(kept) : kept[i].tag = kept[j].tag => i = j
  BY DEF Good, Packable
<1>6. PICK i \in 1..Len(kept) : kept[i].tag = ProofTag
  BY <1>2, <1>5 DEF Tags
<1>7. format = 1 => Len(kept) = 1
  <2> SUFFICES ASSUME format = 1 PROVE Len(kept) = 1
    OBVIOUS
  <2>1. others = {}
    BY <1>2
  <2>2. \A j \in 1..Len(kept) : kept[j].tag = ProofTag
    BY <1>5, <2>1 DEF Tags
  <2>3. \A j \in 1..Len(kept) : i = j
    BY <1>5, <1>6, <2>2
  <2> DEFINE d == Len(kept)
  <2>4. d \in Nat /\ i \in 1..d /\ \A j \in 1..d : i = j
    BY <1>5, <1>6, <2>3
  <2> HIDE DEF d
  <2>5. 1 \in 1..d /\ d \in 1..d
    BY <2>4
  <2>6. d = 1
    BY <2>4, <2>5
  <2> QED
    BY <2>6 DEF d
<1> HIDE DEF format
<1>8. /\ w.version = format
      /\ w = [magic |-> Magic, version |-> w.version, cfg_fp |-> CfgFp, params_fp |-> Params,
              body |-> Written(kept, w.version)]
  OBVIOUS
<1> HIDE DEF w, kept
<1>9. Intact(w, kept)
  BY <1>4, <1>6, <1>7, <1>8 DEF Intact
<1> QED
  BY <1>3, <1>9 DEF kept

\* The body of an envelope as it was packed.
LEMMA IntactBody ==
  ASSUME NEW kept, Good(kept), NEW w, Intact(w, kept)
  PROVE  /\ kept # <<>>
         /\ w.version = 1 => w.body = BareBody /\ kept = <<[tag |-> ProofTag, payload |-> Payload]>>
         /\ w.version = 2 => \E W : Layout(W, kept, 2) /\ w.body = W[Len(kept)]
<1>1. kept \in Seq(Sect)
  BY DEF Good, Packable
<1>2. PICK i \in 1..Len(kept) : kept[i].tag = ProofTag
  BY DEF Intact
<1>3. w.body = Written(kept, w.version)
  <2> DEFINE v == w.version
  <2>1. w = [magic |-> Magic, version |-> v, cfg_fp |-> CfgFp, params_fp |-> Params,
             body |-> Written(kept, v)]
    BY DEF Intact
  <2> HIDE DEF v
  <2>2. w.body = Written(kept, v)
    BY <2>1
  <2> QED
    BY <2>2 DEF v
<1>4. ASSUME w.version = 1
      PROVE  w.body = BareBody /\ kept = <<[tag |-> ProofTag, payload |-> Payload]>>
  <2>1. Len(kept) = 1 /\ i = 1
    BY <1>2, <1>4 DEF Intact
  <2>2. kept[1].tag = ProofTag /\ kept[1].payload = Payload
    BY <1>2, <2>1 DEF Good
  <2>3. w.body = BareBody
    BY <1>1, <1>3, <1>4, <2>1, <2>2, BareWritten
  <2>4. kept[1] = [tag |-> ProofTag, payload |-> Payload]
    <3>1. kept[1] \in Sect
      BY <1>1, <2>1
    <3>2. kept[1] = [tag |-> kept[1].tag, payload |-> kept[1].payload]
      BY <3>1 DEF Sect
    <3> QED
      BY <2>2, <3>2
  <2>5. kept = <<kept[1]>>
    BY <1>1, <2>1
  <2> QED
    BY <2>3, <2>4, <2>5
<1>5. ASSUME w.version = 2
      PROVE  \E W : Layout(W, kept, 2) /\ w.body = W[Len(kept)]
  <2>1. w.body = Written(kept, 2)
    BY <1>3, <1>5
  <2> QED
    BY <1>1, <2>1, WrittenUnfold
<1>6. kept # <<>>
  BY <1>2
<1> QED
  BY <1>4, <1>5, <1>6

\* What the unpacker makes of the body, by the version.
LEMMA UnpackForm ==
  ASSUME NEW w, w.magic = Magic, w.cfg_fp = CfgFp, w.params_fp = Params
  PROVE  /\ w.version = 1 => Unpack(w, CfgFp, Params) = Bare(w.body)
         /\ w.version = 2 => Unpack(w, CfgFp, Params) = Sectioned(w.body)
         /\ w.version = 3 => Unpack(w, CfgFp, Params) = <<>>
BY DEF Unpack, Versions

LEMMA IntactHeader ==
  ASSUME NEW w, NEW kept, Intact(w, kept)
  PROVE  w.magic = Magic /\ w.cfg_fp = CfgFp /\ w.params_fp = Params
<1> DEFINE v == w.version
<1>1. w = [magic |-> Magic, version |-> v, cfg_fp |-> CfgFp, params_fp |-> Params,
           body |-> Written(kept, v)]
  BY DEF Intact
<1> HIDE DEF v
<1> QED
  BY <1>1

\* What was packed and not altered unpacks to what was packed.
LEMMA IntactUnpacks ==
  ASSUME NEW kept, Good(kept), NEW w, Intact(w, kept)
  PROVE  Unpack(w, CfgFp, Params) = <<kept>>
<1>1. w.magic = Magic /\ w.cfg_fp = CfgFp /\ w.params_fp = Params
  BY IntactHeader
<1>2. CASE w.version = 1
  <2>1. w.body = BareBody /\ kept = <<[tag |-> ProofTag, payload |-> Payload]>>
    BY <1>2, IntactBody
  <2> QED
    BY <1>1, <1>2, <2>1, BareReads, UnpackForm
<1>3. CASE w.version = 2
  <2>1. PICK W : Layout(W, kept, 2) /\ w.body = W[Len(kept)]
    BY <1>3, IntactBody
  <2>2. Packable(kept)
    BY DEF Good
  <2>3. Sections(w.body).ok /\ Sections(w.body).secs = kept
    BY <2>1, <2>2, WholeReads
  <2>4. \E k \in DOMAIN kept : kept[k].tag = ProofTag
    <3>1. DOMAIN kept = 1..Len(kept)
      BY <2>2 DEF Packable
    <3> QED
      BY <3>1 DEF Intact
  <2>5. Sectioned(w.body) = <<kept>>
    BY <2>3, <2>4 DEF Sectioned
  <2> QED
    BY <1>1, <1>3, <2>5, UnpackForm
<1> QED
  BY <1>2, <1>3 DEF Intact

\* The first sections, the proof among them, are faithful.
LEMMA PrefixFaithful ==
  ASSUME NEW kept, Good(kept), NEW m \in 0..Len(kept), NEW u, u = SubSeq(kept, 1, m),
         \E k \in DOMAIN u : u[k].tag = ProofTag
  PROVE  IsPrefix(u, kept) /\ Find(u, ProofTag) = <<Payload>>
<1>1. kept \in Seq(Sect)
  BY DEF Good, Packable
<1>2. u \in Seq(Sect) /\ Len(u) = m /\ m <= Len(kept) /\ \A k \in 1..m : u[k] = kept[k]
  BY <1>1
<1>3. SubSeq(u, 1, m) = u
  BY <1>2
<1>4. IsPrefix(u, kept)
  BY <1>2, <1>3 DEF IsPrefix
<1> DEFINE at == {k \in DOMAIN u : u[k].tag = ProofTag}
           k == CHOOSE x \in at : TRUE
<1>5. k \in at
  OBVIOUS
<1>6. Find(u, ProofTag) = <<u[k].payload>>
  BY <1>5 DEF Find
<1>7. k \in 1..m /\ u[k].tag = ProofTag
  BY <1>2, <1>5
<1> HIDE DEF k, at
<1>8. u[k].payload = Payload
  <2>1. k \in 1..Len(kept)
    BY <1>1, <1>7
  <2> QED
    BY <1>2, <1>7, <2>1 DEF Good
<1> QED
  BY <1>4, <1>6, <1>8

\* The same header around another body, the same body under another version.
WithBody(o, b) == [o EXCEPT !.body = b]
WithVersion(o, v) == [o EXCEPT !.version = v]

\* What may be done to an envelope on its way.
Altered(w, o, how) ==
  \/ how = "cut" /\ \E n \in 0..(Len(o.body) - 1) : w = WithBody(o, SubSeq(o.body, 1, n))
  \/ how = "longer" /\ w = WithBody(o, o.body \o <<0>>)
  \/ how = "twice" /\ w = WithBody(o, o.body \o o.body)
  \/ how = "version" /\ \E v \in {1, 2, 3} \ {o.version} : w = WithVersion(o, v)

Faithful(w, kept) ==
  LET u == Unpack(w, CfgFp, Params)
  IN  u # <<>> => IsPrefix(u[1], kept) /\ Find(u[1], ProofTag) = <<Payload>>

LEMMA NewBody ==
  ASSUME NEW o, NEW kept, Intact(o, kept), NEW b, NEW w, w = WithBody(o, b)
  PROVE  /\ w.body = b
         /\ o.version = 1 => Unpack(w, CfgFp, Params) = Bare(b)
         /\ o.version = 2 => Unpack(w, CfgFp, Params) = Sectioned(b)
<1> DEFINE v == o.version
           was == Written(kept, v)
<1>1. o = [magic |-> Magic, version |-> v, cfg_fp |-> CfgFp, params_fp |-> Params, body |-> was]
  BY DEF Intact
<1> HIDE DEF v, was
<1>2. w.magic = Magic /\ w.cfg_fp = CfgFp /\ w.params_fp = Params /\ w.version = v /\ w.body = b
  BY <1>1 DEF WithBody
<1>3. /\ v = 1 => Unpack(w, CfgFp, Params) = Bare(w.body)
      /\ v = 2 => Unpack(w, CfgFp, Params) = Sectioned(w.body)
  BY <1>2, UnpackForm
<1> QED
  BY <1>2, <1>3 DEF v

LEMMA NewVersion ==
  ASSUME NEW o, NEW kept, Intact(o, kept), NEW v, NEW w, w = WithVersion(o, v)
  PROVE  /\ v = 1 => Unpack(w, CfgFp, Params) = Bare(o.body)
         /\ v = 2 => Unpack(w, CfgFp, Params) = Sectioned(o.body)
         /\ v = 3 => Unpack(w, CfgFp, Params) = <<>>
<1> DEFINE was == o.version
           body == Written(kept, was)
<1>1. o = [magic |-> Magic, version |-> was, cfg_fp |-> CfgFp, params_fp |-> Params, body |-> body]
  BY DEF Intact
<1> HIDE DEF was, body
<1>2. /\ w.magic = Magic /\ w.cfg_fp = CfgFp /\ w.params_fp = Params /\ w.version = v
      /\ w.body = o.body
  BY <1>1 DEF WithVersion
<1> QED
  BY <1>2, UnpackForm

LEMMA CutFaithful ==
  ASSUME NEW kept, Good(kept), NEW o, Intact(o, kept), NEW n \in 0..(Len(o.body) - 1),
         NEW w, w = WithBody(o, SubSeq(o.body, 1, n))
  PROVE  Faithful(w, kept)
<1> DEFINE b == SubSeq(o.body, 1, n)
<1>0. w = WithBody(o, b)
  OBVIOUS
<1>1. CASE o.version = 1
  <2>1. o.body = BareBody
    BY <1>1, IntactBody
  <2> DEFINE whole == BareBody
  <2>2. whole \in Seq(Nat) /\ Len(whole) = 6
    BY BareCells
  <2> HIDE DEF whole
  <2>3. n \in 0..5 /\ b = SubSeq(whole, 1, n)
    BY <2>1, <2>2 DEF whole
  <2>4. b \in Seq(Nat) /\ Len(b) = n /\ \A i \in 1..n : b[i] = whole[i]
    <3> DEFINE c == SubSeq(whole, 1, n)
    <3>1. n \in Nat /\ n <= Len(whole)
      BY <2>2, <2>3
    <3>2. \A q \in Seq(Nat), k \in Nat : k <= Len(q) =>
            /\ SubSeq(q, 1, k) \in Seq(Nat) /\ Len(SubSeq(q, 1, k)) = k
            /\ \A i \in 1..k : SubSeq(q, 1, k)[i] = q[i]
      OBVIOUS
    <3>3. c \in Seq(Nat) /\ Len(c) = n /\ \A i \in 1..n : c[i] = whole[i]
      BY <2>2, <3>1, <3>2
    <3> QED
      BY <2>3, <3>3
  <2> HIDE DEF b
  <2>5. Len(b) # 6 /\ \A i \in 1..4 : i <= Len(b) => b[i] = whole[i]
    BY <2>3, <2>4
  <2>6. Bare(b) = <<>>
    BY <2>4, <2>5, BareRefuses DEF whole
  <2>7. Unpack(w, CfgFp, Params) = <<>>
    BY <1>0, <1>1, <2>6, NewBody
  <2> QED
    BY <2>7 DEF Faithful
<1>2. CASE o.version = 2
  <2>1. PICK W : Layout(W, kept, 2) /\ o.body = W[Len(kept)]
    BY <1>2, IntactBody
  <2>2. Packable(kept)
    BY DEF Good
  <2>3. n \in Nat /\ n < Len(W[Len(kept)])
    <3>1. Len(kept) \in 0..Len(kept)
      BY <2>2 DEF Packable
    <3>2. W[Len(kept)] \in Seq(Nat)
      BY <2>1, <3>1 DEF Layout
    <3>3. Len(o.body) \in Nat
      BY <2>1, <3>2
    <3> QED
      BY <2>1, <3>3
  <2>4. b = SubSeq(W[Len(kept)], 1, n)
    BY <2>1
  <2> HIDE DEF b
  <2>5. Unpack(w, CfgFp, Params) = Sectioned(b)
    BY <1>0, <1>2, NewBody
  <2>6. CASE Sectioned(b) = <<>>
    BY <2>5, <2>6 DEF Faithful
  <2>7. CASE Sectioned(b) # <<>>
    <3> DEFINE u == Sections(b).secs
    <3>1. /\ Sections(b).ok /\ Sectioned(b) = <<u>>
          /\ \E k \in DOMAIN u : u[k].tag = ProofTag
      BY <2>7 DEF Sectioned
    <3>2. PICK m \in 0..Len(kept) : u = SubSeq(kept, 1, m)
      BY <2>1, <2>2, <2>3, <2>4, <3>1, CutReads
    <3> HIDE DEF u
    <3>3. IsPrefix(u, kept) /\ Find(u, ProofTag) = <<Payload>>
      BY <3>1, <3>2, PrefixFaithful
    <3> QED
      BY <2>5, <3>1, <3>3 DEF Faithful
  <2> QED
    BY <2>6, <2>7
<1> QED
  BY <1>1, <1>2 DEF Intact

\* With cells behind it an envelope is refused.
LEMMA BareMore ==
  ASSUME NEW x \in Seq(Nat), x # <<>>
  PROVE  Bare(BareBody \o x) = <<>>
<1> DEFINE whole == BareBody
           b == whole \o x
<1>1. whole \in Seq(Nat) /\ Len(whole) = 6
  BY BareCells
<1>2. Len(x) \in Nat /\ Len(x) # 0
  OBVIOUS
<1> HIDE DEF whole
<1>3. b \in Seq(Nat) /\ ConcatOf(b, whole, x)
  BY <1>1, ConcatCells
<1> HIDE DEF b
<1>4. Len(b) # 6 /\ \A i \in 1..4 : b[i] = whole[i]
  BY <1>1, <1>2, <1>3 DEF ConcatOf
<1>5. Bare(b) = <<>>
  BY <1>3, <1>4, BareRefuses DEF whole
<1> QED
  BY <1>5 DEF b, whole

\* What the channel may put behind a body.
Behind(body) == {<<0>>, body}

\* A body with more behind it is refused.
LEMMA LongerFaithful ==
  ASSUME NEW kept, Good(kept), NEW o, Intact(o, kept), NEW x \in Behind(o.body),
         NEW w, w = WithBody(o, o.body \o x)
  PROVE  Faithful(w, kept)
<1> DEFINE b == o.body \o x
<1>0. w = WithBody(o, b)
  OBVIOUS
<1>1. CASE o.version = 1
  <2>1. o.body = BareBody
    BY <1>1, IntactBody
  <2>2. BareBody \in Seq(Nat) /\ BareBody # <<>> /\ <<0>> \in Seq(Nat) /\ <<0>> # <<>>
    <3>1. BareBody # <<>>
      BY DEF BareBody
    <3>2. <<0>> \in Seq(Nat) /\ <<0>> # <<>>
      OBVIOUS
    <3> QED
      BY <3>1, <3>2, BareCells
  <2>3. x \in Seq(Nat) /\ x # <<>>
    BY <2>1, <2>2 DEF Behind
  <2>4. Bare(b) = <<>>
    BY <2>1, <2>3, BareMore
  <2> HIDE DEF b
  <2>5. Unpack(w, CfgFp, Params) = <<>>
    BY <1>0, <1>1, <2>4, NewBody
  <2> QED
    BY <2>5 DEF Faithful
<1>2. CASE o.version = 2
  <2>1. PICK W : Layout(W, kept, 2) /\ o.body = W[Len(kept)]
    BY <1>2, IntactBody
  <2>2. Packable(kept) /\ kept # <<>>
    BY IntactBody DEF Good
  <2>3. ~ Sections(W[Len(kept)] \o <<0>>).ok /\ ~ Sections(W[Len(kept)] \o W[Len(kept)]).ok
    BY <2>1, <2>2, LongerRefused, TwiceRefused
  <2>4. ~ Sections(b).ok
    BY <2>1, <2>3 DEF Behind
  <2> HIDE DEF b
  <2>5. Sectioned(b) = <<>>
    BY <2>4 DEF Sectioned
  <2>6. Unpack(w, CfgFp, Params) = <<>>
    BY <1>0, <1>2, <2>5, NewBody
  <2> QED
    BY <2>6 DEF Faithful
<1> QED
  BY <1>1, <1>2 DEF Intact

\* Under the other version an envelope is refused.
LEMMA RelabelledFaithful ==
  ASSUME NEW kept, Good(kept), NEW o, Intact(o, kept), NEW v \in {1, 2, 3} \ {o.version},
         NEW w, w = WithVersion(o, v)
  PROVE  Faithful(w, kept)
<1>1. Unpack(w, CfgFp, Params) = <<>>
  <2>1. CASE v = 1
    <3>1. o.version = 2
      BY <2>1 DEF Intact
    <3>2. PICK W : Layout(W, kept, 2) /\ o.body = W[Len(kept)]
      BY <3>1, IntactBody
    <3>3. Packable(kept) /\ kept # <<>>
      BY IntactBody DEF Good
    <3>4. Bare(o.body) = <<>>
      BY <3>2, <3>3, BareRefusesSections
    <3> QED
      BY <2>1, <3>4, NewVersion
  <2>2. CASE v = 2
    <3>1. o.version = 1
      BY <2>2 DEF Intact
    <3>2. o.body = BareBody
      BY <3>1, IntactBody
    <3>3. Sectioned(o.body) = <<>>
      BY <3>2, BareIsNotSectioned DEF Sectioned
    <3> QED
      BY <2>2, <3>3, NewVersion
  <2>3. CASE v = 3
    BY <2>3, NewVersion
  <2> QED
    BY <2>1, <2>2, <2>3
<1> QED
  BY <1>1 DEF Faithful

LEMMA AlteredFaithful ==
  ASSUME NEW kept, Good(kept), NEW o, Intact(o, kept), NEW w, NEW how, Altered(w, o, how)
  PROVE  Faithful(w, kept)
<1>1. CASE \E n \in 0..(Len(o.body) - 1) : w = WithBody(o, SubSeq(o.body, 1, n))
  BY <1>1, CutFaithful
<1>2. CASE w = WithBody(o, o.body \o <<0>>)
  <2> DEFINE x == <<0>>
  <2>1. x \in Behind(o.body) /\ w = WithBody(o, o.body \o x)
    BY <1>2 DEF Behind
  <2> HIDE DEF x
  <2> QED
    BY <2>1, LongerFaithful
<1>3. CASE w = WithBody(o, o.body \o o.body)
  <2> DEFINE x == o.body
  <2>1. x \in Behind(o.body) /\ w = WithBody(o, o.body \o x)
    BY <1>3 DEF Behind
  <2> HIDE DEF x
  <2> QED
    BY <2>1, LongerFaithful
<1>4. CASE \E v \in {1, 2, 3} \ {o.version} : w = WithVersion(o, v)
  BY <1>4, RelabelledFaithful
<1> QED
  BY <1>1, <1>2, <1>3, <1>4 DEF Altered

-----------------------------------------------------------------------------
(* The sealed id fits a section. *)

Bumped(s, at, x) == [s EXCEPT ![at] = @ + x]

LEMMA BumpedKeeps ==
  ASSUME NEW s \in Seq(Nat), NEW at, NEW x \in Nat
  PROVE  Bumped(s, at, x) \in Seq(Nat) /\ Len(Bumped(s, at, x)) = Len(s)
<1> DEFINE t == Bumped(s, at, x)
           d == Len(s)
<1>1. d \in Nat /\ s \in [1..d -> Nat]
  OBVIOUS
<1> HIDE DEF d
<1>2. t \in [1..d -> Nat]
  <2> DEFINE v == [k \in 1..d |-> IF k = at THEN s[k] + x ELSE s[k]]
  <2>1. t = v
    BY <1>1 DEF Bumped
  <2>2. \A k \in 1..d : s[k] \in Nat /\ s[k] + x \in Nat
    BY <1>1
  <2>3. v \in [1..d -> Nat]
    BY <2>2
  <2> QED
    BY <2>1, <2>3
<1> HIDE DEF t
<1>3. t \in Seq(Nat) /\ Len(t) = d
  BY <1>1, <1>2
<1> QED
  BY <1>3 DEF t, d

LEMMA ShortLength == ASSUME NEW n \in Nat, n < 65536 PROVE n \in Lengths
BY DEF Lengths

LEMMA SealParts ==
  ASSUME NEW c, NEW p, SealFits(c, p), NEW sealed, sealed = Seal(c, Drawn, IdOf(p), OpenerIdBytes(c))
  PROVE  /\ ArgusParams(c.set).prim \in Nat /\ ArgusParams(c.set).p \in Nat \ {0}
         /\ FitSection(sealed[1].s, sealed[1].ct)
BY DEF SealFits

LEMMA SealsFit ==
  ASSUME setup \in Setups, cfg.opener = 1, NEW r, r.who \in People, NEW pub, pub = PubOf(r)
  PROVE  OpenerCells(pub) \in Seq(Nat) /\ Len(OpenerCells(pub)) \in Lengths
<1> DEFINE p == Supplies(r)
           who == IF r.dev = "frame" THEN Other(r.who) ELSE p["id"]
           sealed == Seals(IdOf(who))
           op == ArgusParams(cfg.set)
           x == 2 ^ (op.p % 8)
           s == sealed[1].s
           ct == sealed[1].ct
<1>1. who \in People
  <2>1. Other(r.who) \in People
    BY PeopleAssumption DEF Other
  <2> QED
    BY <2>1 DEF Supplies, Fields
<1> HIDE DEF who, p
<1>2. /\ op.prim \in Nat /\ op.p \in Nat \ {0}
      /\ FitSection(s, ct)
  <2>1. SealFits(cfg, who)
    BY <1>1, EnvelopeAssumption DEF cfg
  <2>2. sealed = Seal(cfg, Drawn, IdOf(who), OpenerIdBytes(cfg))
    BY DEF Seals
  <2> QED
    BY <2>1, <2>2, SealParts
<1>3. x \in Nat
  <2>1. op.p % 8 \in Nat
    BY <1>2
  <2> QED
    BY <2>1, PowerPositive
<1>4. pub.ct = ct /\ (pub.s = s \/ pub.s = Padded(op, s))
  BY DEF PubOf, PubWith, On, who, p
<1> HIDE DEF sealed, op, s, ct, x
<1>a. s \in Seq(Nat) /\ ct \in Seq(Nat) /\ 1 + Len(s) + Len(ct) < 65536
  BY <1>2, SMT DEF FitSection
<1>5. pub.s \in Seq(Nat) /\ Len(pub.s) = Len(s)
  <2>1. Padded(op, s) \in Seq(Nat) /\ Len(Padded(op, s)) = Len(s)
    <3>1. Padded(op, s) = Bumped(s, BlockBytes(op), x)
      BY DEF Padded, Bumped, x
    <3> QED
      BY <1>a, <1>3, <3>1, BumpedKeeps
  <2> QED
    BY <1>a, <1>4, <2>1
<1> DEFINE t == pub.s
           head == <<op.prim>>
           front == head \o t
           all == front \o ct
<1>6. t \in Seq(Nat) /\ head \in Seq(Nat) /\ Len(head) = 1
  BY <1>2, <1>5
<1>7. OpenerCells(pub) = all
  BY <1>4 DEF OpenerCells, Tag, op
<1> HIDE DEF t, head
<1>8. front \in Seq(Nat) /\ Len(front) = 1 + Len(t)
  BY <1>6, ConcatCells DEF ConcatOf
<1> HIDE DEF front
<1>9. all \in Seq(Nat) /\ Len(all) = Len(front) + Len(ct)
  <2>1. ct \in Seq(Nat)
    BY <1>a
  <2> QED
    BY <1>8, <2>1, ConcatCells DEF ConcatOf
<1> HIDE DEF all
<1>10. Len(all) \in Nat /\ Len(all) < 65536
  <2> DEFINE a == Len(s)
             b == Len(ct)
  <2>1. a \in Nat /\ b \in Nat /\ Len(all) = (1 + a) + b
    BY <1>a, <1>5, <1>8, <1>9 DEF t
  <2>2. 1 + a + b < 65536
    BY <1>a
  <2> HIDE DEF a, b
  <2> QED
    BY <2>1, <2>2, SMT
<1>11. Len(all) \in Lengths
  <2> DEFINE n == Len(all)
  <2>1. n \in Nat /\ n < 65536
    BY <1>10
  <2> HIDE DEF n
  <2>2. n \in Lengths
    BY <2>1, ShortLength
  <2> QED
    BY <2>2 DEF n
<1> QED
  BY <1>7, <1>9, <1>11

-----------------------------------------------------------------------------
(* What is packed is what was asked for. *)

PackerOf(fp, format, kept) ==
  [cfg_fp |-> fp, params_fp |-> Params, format |-> format, sections |-> kept]

LEMMA SectionKept ==
  ASSUME NEW fp, NEW format, NEW kept, Good(kept), NEW tag, NEW payload
  PROVE  NewSection(PackerOf(fp, format, kept), tag, payload) =
           IF Len(kept) = MaxSections \/ \E k \in DOMAIN kept : kept[k].tag = tag THEN <<>>
           ELSE <<PackerOf(fp, format, Append(kept, [tag |-> tag, payload |-> payload]))>>
<1> DEFINE p == PackerOf(fp, format, kept)
           more == Append(kept, [tag |-> tag, payload |-> payload])
<1>1. p.sections = kept /\ [p EXCEPT !.sections = more] = PackerOf(fp, format, more)
  BY DEF PackerOf
<1>2. tag \in Tags(p) <=> \E k \in DOMAIN kept : kept[k].tag = tag
  BY <1>1 DEF Tags
<1>3. Len(kept) >= MaxSections <=> Len(kept) = MaxSections
  <2>1. MaxSections \in Nat /\ Len(kept) \in Nat /\ Len(kept) <= MaxSections
    BY FewSections DEF Good, Packable
  <2> QED
    BY <2>1
<1>4. [p EXCEPT !.sections = Append(p.sections, [tag |-> tag, payload |-> payload])]
        = PackerOf(fp, format, more)
  BY <1>1
<1> QED
  BY <1>1, <1>2, <1>3, <1>4 DEF NewSection

\* Into a packer that holds nothing any section goes.
LEMMA FirstPacked ==
  ASSUME NEW fp, NEW format, NEW tag, NEW payload
  PROVE  NewSection(PackerOf(fp, format, <<>>), tag, payload) =
           <<PackerOf(fp, format, Append(<<>>, [tag |-> tag, payload |-> payload]))>>
<1>1. PICK none : none = <<>>
  OBVIOUS
<1>0. Good(none)
  BY <1>1, GoodNone
<1>2. Len(none) = 0 /\ DOMAIN none = {}
  BY <1>1
<1>3. NewSection(PackerOf(fp, format, none), tag, payload) =
        IF Len(none) = MaxSections \/ \E k \in DOMAIN none : none[k].tag = tag THEN <<>>
        ELSE <<PackerOf(fp, format, Append(none, [tag |-> tag, payload |-> payload]))>>
  BY <1>0, SectionKept
<1>4. MaxSections # 0
  BY EnvelopeAssumption
<1>5. NewSection(PackerOf(fp, format, none), tag, payload) =
        <<PackerOf(fp, format, Append(none, [tag |-> tag, payload |-> payload]))>>
  BY <1>2, <1>3, <1>4
<1> QED
  BY <1>1, <1>5

\* A call leaves in the packer what Keep says.
PackCall(p, tag, payload, opener) ==
  CASE tag = ProofTag  -> PackProof(p, payload)
    [] tag = OpenerTag -> PackOpener(p, opener = 1, payload)
    [] OTHER           -> PackSection(p, tag, payload)

LEMMA PackIsKeep ==
  ASSUME NEW fp, NEW format, NEW kept, Good(kept), NEW tag, NEW payload, NEW opener \in {0, 1},
         NEW p, p = PackerOf(fp, format, kept), NEW c, c = [tag |-> tag, payload |-> payload],
         NEW q, q = PackCall(p, tag, payload, opener)
  PROVE  (IF q = <<>> THEN <<p>> ELSE q) = <<PackerOf(fp, format, Keep(kept, c, opener))>>
<1> DEFINE full == Len(kept) = MaxSections \/ \E k \in DOMAIN kept : kept[k].tag = tag
           new == <<PackerOf(fp, format, Append(kept, c))>>
<1>0. ProofTag # OpenerTag
  BY EnvelopeAssumption
<1>1. NewSection(p, tag, payload) = IF full THEN <<>> ELSE new
  BY SectionKept
<1>2. q = IF tag = OpenerTag /\ opener = 0 THEN <<>> ELSE NewSection(p, tag, payload)
  <2>1. CASE tag = ProofTag
    BY <1>0, <2>1 DEF PackCall, PackProof
  <2>2. CASE tag = OpenerTag
    BY <1>0, <2>2 DEF PackCall, PackOpener
  <2>3. CASE tag # ProofTag /\ tag # OpenerTag
    BY <2>3 DEF PackCall, PackSection
  <2> QED
    BY <2>1, <2>2, <2>3
<1>3. c.tag = tag
  OBVIOUS
<1>4. Keep(kept, c, opener) = IF full \/ (tag = OpenerTag /\ opener = 0) THEN kept ELSE Append(kept, c)
  BY <1>3 DEF Keep
<1>5. new # <<>>
  OBVIOUS
<1> HIDE DEF full
<1> QED
  BY <1>1, <1>2, <1>4, <1>5

-----------------------------------------------------------------------------
(* The invariant of the envelope: the packer holds what the calls asked for,  *)
(* and the envelope is what it wrote, or that with one thing done to it.      *)

PackerInv ==
  packer # <<>> => \E format \in Formats : packer = <<PackerOf(CfgFp, format, Kept(calls))>>

WireInv ==
  /\ wire = <<>> => damage = "none"
  /\ wire # <<>> /\ ~ setup.v1 =>
       \E o : /\ Intact(o, Kept(calls))
              /\ IF damage = "none" THEN wire[1] = o ELSE Altered(wire[1], o, damage)

SealInv ==
  sig # <<>> /\ cfg.opener = 1 =>
    OpenerCells(sig[1].pub) \in Seq(Nat) /\ Len(OpenerCells(sig[1].pub)) \in Lengths

EnvelopeInv ==
  /\ calls \in Seq(Sect) /\ Good(Kept(calls))
  /\ PackerInv /\ WireInv /\ SealInv

\* Of one setup the fingerprint and what it says stay the same.
LEMMA SameSetup ==
  ASSUME setup' = setup
  PROVE  /\ cfg' = cfg /\ CfgFp' = CfgFp
         /\ \A w, kept : Intact(w, kept)' <=> Intact(w, kept)
         /\ \A pub : OpenerCells(pub)' = OpenerCells(pub)
<1>1. cfg' = cfg
  BY DEF cfg
<1>2. CfgFp' = CfgFp
  BY <1>1 DEF CfgFp
<1>3. \A w, kept : Intact(w, kept)' <=> Intact(w, kept)
  BY <1>2 DEF Intact
<1>4. \A pub : OpenerCells(pub)' = OpenerCells(pub)
  BY <1>1 DEF OpenerCells
<1> QED
  BY <1>1, <1>2, <1>3, <1>4

\* Without calls nothing is kept.
LEMMA NoCalls ==
  ASSUME NEW opener
  PROVE  <<>> \in Seq(Sect) /\ KeptOf(<<>>, opener) = <<>> /\ Good(<<>>)
BY KeptNone, GoodNone

LEMMA EnvelopeInit == Init => EnvelopeInv
<1> SUFFICES ASSUME Init PROVE EnvelopeInv
  OBVIOUS
<1>1. sig = <<>> /\ packer = <<>> /\ wire = <<>> /\ calls = <<>> /\ damage = "none"
  BY DEF Init
<1>2. calls \in Seq(Sect) /\ Good(Kept(calls))
  BY <1>1, NoCalls DEF Kept
<1> QED
  BY <1>1, <1>2 DEF EnvelopeInv, PackerInv, WireInv, SealInv

\* Steps that do not touch the envelope.
LEMMA EnvelopeKeeps ==
  ASSUME EnvelopeInv, UNCHANGED <<setup, packer, calls, wire, damage>>, sig' = sig \/ SealInv'
  PROVE  EnvelopeInv'
<1>1. /\ cfg' = cfg /\ CfgFp' = CfgFp
      /\ \A w, kept : Intact(w, kept)' <=> Intact(w, kept)
      /\ \A pub : OpenerCells(pub)' = OpenerCells(pub)
  BY SameSetup
<1>2. Kept(calls)' = Kept(calls)
  BY <1>1 DEF Kept
<1>3. PackerInv'
  BY <1>1, <1>2 DEF EnvelopeInv, PackerInv
<1>4. WireInv'
  BY <1>1, <1>2 DEF EnvelopeInv, WireInv
<1>5. SealInv'
  BY <1>1 DEF EnvelopeInv, SealInv
<1> QED
  BY <1>2, <1>3, <1>4, <1>5 DEF EnvelopeInv

\* Steps after which there is neither a packer nor an envelope nor a call.
LEMMA EnvelopeCleared ==
  ASSUME packer' = <<>>, wire' = <<>>, calls' = <<>>, damage' = "none", sig' = <<>>
  PROVE  EnvelopeInv'
<1>1. calls' \in Seq(Sect) /\ Good(Kept(calls)')
  BY NoCalls DEF Kept
<1>2. PackerInv' /\ WireInv' /\ SealInv'
  BY DEF PackerInv, WireInv, SealInv
<1> QED
  BY <1>1, <1>2 DEF EnvelopeInv

LEMMA EnvelopeTry == ASSUME Control, EnvelopeInv, Try PROVE EnvelopeInv'
<1>1. PICK who \in People, slot \in Slots, dev \in Devs, scope \in setup.scopes, epoch \in setup.epochs :
        LET r == [who |-> who, slot |-> slot, dev |-> dev, scope |-> scope, epoch |-> epoch]
        IN  \E pub \in {PubOf(r)} : \E proof \in {SignRequest(r, pub, PathOf(r, pub))} :
              sig' = IF proof = <<>> THEN <<>> ELSE <<[proof |-> proof[1], pub |-> pub]>>
  BY DEF Try
<1> DEFINE r == [who |-> who, slot |-> slot, dev |-> dev, scope |-> scope, epoch |-> epoch]
           pub == PubOf(r)
           proof == SignRequest(r, pub, PathOf(r, pub))
<1>2. r.who \in People /\ sig' = IF proof = <<>> THEN <<>> ELSE <<[proof |-> proof[1], pub |-> pub]>>
  BY <1>1
<1> HIDE DEF r, proof
<1>3. UNCHANGED <<setup, packer, calls, wire, damage>>
  BY DEF Try
<1>4. cfg.opener = 1 => OpenerCells(pub) \in Seq(Nat) /\ Len(OpenerCells(pub)) \in Lengths
  <2> DEFINE x == pub
  <2>1. x = PubOf(r) /\ setup \in Setups
    BY DEF Control
  <2> HIDE DEF x
  <2>2. cfg.opener = 1 => OpenerCells(x) \in Seq(Nat) /\ Len(OpenerCells(x)) \in Lengths
    BY <1>2, <2>1, SealsFit
  <2> QED
    BY <2>2 DEF x
<1> HIDE DEF pub
<1>5. sig' # <<>> => \E x : sig'[1].pub = x
                            /\ (cfg.opener = 1 => OpenerCells(x) \in Seq(Nat) /\ Len(OpenerCells(x)) \in Lengths)
  BY <1>2, <1>4
<1>6. SealInv'
  <2> SUFFICES ASSUME sig' # <<>>, cfg.opener = 1
               PROVE  /\ OpenerCells(sig[1].pub)' \in Seq(Nat)
                      /\ Len(OpenerCells(sig[1].pub)') \in Lengths
    BY <1>3, SameSetup DEF SealInv
  <2>1. PICK x : sig'[1].pub = x /\ OpenerCells(x) \in Seq(Nat) /\ Len(OpenerCells(x)) \in Lengths
    BY <1>5
  <2>2. OpenerCells(sig[1].pub)' = OpenerCells(x)
    BY <1>3, <2>1, SameSetup DEF OpenerCells
  <2> QED
    BY <2>1, <2>2
<1> QED
  BY <1>3, <1>6, EnvelopeKeeps

LEMMA EnvelopeOpen == ASSUME EnvelopeInv, OpenPacker, setup \in Setups PROVE EnvelopeInv'
<1>1. PICK format \in setup.formats : packer' = <<PackInit(CfgFp, Params, format)>>
  BY DEF OpenPacker
<1>2. calls' = <<>> /\ UNCHANGED <<setup, sig, wire, damage>> /\ wire = <<>>
  BY DEF OpenPacker
<1>3. format \in Formats
  BY EnvelopeAssumption
<1>4. Kept(calls)' = <<>> /\ calls' \in Seq(Sect) /\ Good(Kept(calls)')
  BY <1>2, NoCalls DEF Kept
<1>5. packer' = <<PackerOf(CfgFp, format, <<>>)>>
  BY <1>1 DEF PackInit, PackerOf
<1>6. PackerInv'
  BY <1>2, <1>3, <1>4, <1>5, SameSetup DEF PackerInv
<1>7. WireInv'
  BY <1>2 DEF EnvelopeInv, WireInv
<1>8. SealInv'
  BY <1>2, SameSetup DEF EnvelopeInv, SealInv
<1> QED
  BY <1>4, <1>6, <1>7, <1>8 DEF EnvelopeInv

LEMMA EnvelopePack == ASSUME Control, EnvelopeInv, Pack PROVE EnvelopeInv'
<1> DEFINE Payload_(tag) == IF tag = OpenerTag THEN On(cfg.opener = 1, OpenerCells(sig[1].pub)) ELSE Payload
           Packed(tag) == PackCall(packer[1], tag, Payload_(tag), cfg.opener)
<1>1. PICK tag \in setup.tags :
        /\ packer' = IF Packed(tag) = <<>> THEN packer ELSE Packed(tag)
        /\ calls' = Append(calls, [tag |-> tag, payload |-> Payload_(tag)])
  BY DEF Pack, PackCall
<1> DEFINE payload == Payload_(tag)
           c == [tag |-> tag, payload |-> payload]
           q == PackCall(packer[1], tag, payload, cfg.opener)
           kept == Kept(calls)
           opener == cfg.opener
<1>2. /\ packer # <<>> /\ wire = <<>> /\ sig # <<>> /\ setup \in Setups
      /\ UNCHANGED <<setup, sig, wire, damage>>
  BY DEF Pack, Control
<1>3. packer' = (IF q = <<>> THEN packer ELSE q) /\ calls' = Append(calls, c)
  BY <1>1
<1>4. tag \in 0..255 /\ opener \in {0, 1}
  BY <1>2, EnvelopeAssumption DEF cfg
<1>5. payload \in Seq(Nat) /\ Len(payload) \in Lengths
  <2>1. Payload \in Seq(Nat) /\ Len(Payload) \in Lengths /\ <<>> \in Seq(Nat) /\ Len(<<>>) \in Lengths
    <3>1. Payload \in Seq(Nat) /\ Len(Payload) = 2 /\ <<>> \in Seq(Nat) /\ Len(<<>>) = 0
      BY DEF Payload
    <3>2. 2 \in Lengths /\ 0 \in Lengths
      BY DEF Lengths
    <3> QED
      BY <3>1, <3>2
  <2>2. CASE tag # OpenerTag
    BY <2>1, <2>2
  <2>3. CASE tag = OpenerTag /\ opener # 1
    BY <2>1, <2>3 DEF On, Absent
  <2>4. CASE tag = OpenerTag /\ opener = 1
    BY <1>2, <2>4 DEF EnvelopeInv, SealInv, On
  <2> QED
    BY <2>2, <2>3, <2>4
<1>6. tag = ProofTag => payload = Payload
  BY EnvelopeAssumption
<1> HIDE DEF payload
<1>7. GoodCall(c)
  BY <1>4, <1>5, <1>6 DEF GoodCall, Sect
<1>8. calls \in Seq(Sect) /\ Good(kept)
  BY DEF EnvelopeInv
<1>9. PICK format \in Formats : packer = <<PackerOf(CfgFp, format, kept)>>
  BY <1>2 DEF EnvelopeInv, PackerInv
<1>10. packer[1] = PackerOf(CfgFp, format, kept) /\ packer = <<packer[1]>>
  BY <1>9
<1>11. (IF q = <<>> THEN <<packer[1]>> ELSE q) = <<PackerOf(CfgFp, format, Keep(kept, c, opener))>>
  <2> DEFINE p == packer[1]
             d == c
             x == q
  <2>1. /\ p = PackerOf(CfgFp, format, kept) /\ d = [tag |-> tag, payload |-> payload]
        /\ x = PackCall(p, tag, payload, opener)
    BY <1>10
  <2> HIDE DEF p, d, x, opener, kept
  <2>2. (IF x = <<>> THEN <<p>> ELSE x) = <<PackerOf(CfgFp, format, Keep(kept, d, opener))>>
    BY <1>4, <1>8, <2>1, PackIsKeep
  <2> QED
    BY <2>2 DEF p, d, x
<1>12. packer' = <<PackerOf(CfgFp, format, Keep(kept, c, opener))>>
  BY <1>3, <1>10, <1>11
<1> HIDE DEF q, c
<1>13. Kept(calls)' = Keep(kept, c, opener)
  <2>1. KeptOf(Append(calls, c), opener) = Keep(KeptOf(calls, opener), c, opener)
    BY <1>7, <1>8, KeptGrows DEF GoodCall
  <2> QED
    BY <1>2, <1>3, <2>1, SameSetup DEF Kept
<1>14. Good(Keep(kept, c, opener))
  BY <1>7, <1>8, GoodGrows
<1>15. calls' \in Seq(Sect)
  BY <1>3, <1>7, <1>8 DEF GoodCall
<1> HIDE DEF kept, opener
<1>16. PackerInv'
  BY <1>2, <1>12, <1>13, SameSetup DEF PackerInv
<1>17. WireInv'
  BY <1>2 DEF EnvelopeInv, WireInv
<1>18. SealInv'
  BY <1>2, SameSetup DEF EnvelopeInv, SealInv
<1> QED
  BY <1>13, <1>14, <1>15, <1>16, <1>17, <1>18 DEF EnvelopeInv

\* What the packer writes is an envelope as it was packed.
LEMMA WrittenIntact ==
  ASSUME NEW format \in Formats, NEW kept, Good(kept), NEW n, NEW p, p = PackerOf(CfgFp, format, kept),
         PackFinal(p, n) # <<>>
  PROVE  \E w : PackFinal(p, n) = <<w>> /\ Intact(w, kept)
<1>1. p.format \in Formats /\ p.cfg_fp = CfgFp /\ p.params_fp = Params /\ p.sections = kept
  BY DEF PackerOf
<1> QED
  BY <1>1, FinalIntact

LEMMA EnvelopeClose == ASSUME Control, EnvelopeInv, Close PROVE EnvelopeInv'
<1>0. PICK kept : kept = Kept(calls)
  OBVIOUS
<1>1. /\ packer # <<>> /\ wire = <<>> /\ packer' = <<>> /\ UNCHANGED <<setup, calls, damage>>
      /\ wire' = PackFinal(packer[1], PackLen(packer[1]))
      /\ sig' = sig \/ sig' = <<>>
  BY DEF Close, Control
<1>2. PICK format \in Formats : packer = <<PackerOf(CfgFp, format, kept)>>
  BY <1>0, <1>1 DEF EnvelopeInv, PackerInv
<1>3. calls \in Seq(Sect) /\ Good(kept) /\ damage = "none"
  BY <1>0, <1>1 DEF EnvelopeInv, WireInv
<1>4. wire' # <<>> => \E w : wire' = <<w>> /\ Intact(w, kept)
  <2> DEFINE p == packer[1]
             n == PackLen(packer[1])
  <2>1. p = PackerOf(CfgFp, format, kept) /\ wire' = PackFinal(p, n)
    BY <1>1, <1>2
  <2> HIDE DEF p, n
  <2> QED
    BY <1>3, <2>1, WrittenIntact
<1>5. Kept(calls)' = kept
  BY <1>0, <1>1, SameSetup DEF Kept
<1>6. PackerInv'
  BY <1>1 DEF PackerInv
<1>7. WireInv'
  <2> SUFFICES ASSUME wire' # <<>>
               PROVE  \E o : Intact(o, Kept(calls))' /\ wire'[1] = o
    BY <1>1, <1>3 DEF WireInv
  <2>1. PICK w : wire' = <<w>> /\ Intact(w, kept)
    BY <1>4
  <2>2. Intact(w, kept)'
    BY <1>1, <1>5, <2>1, SameSetup
  <2> QED
    BY <1>5, <2>1, <2>2
<1>8. SealInv'
  BY <1>1, SameSetup DEF EnvelopeInv, SealInv
<1>9. calls' \in Seq(Sect) /\ Good(Kept(calls)')
  BY <1>1, <1>3, <1>5
<1> QED
  BY <1>6, <1>7, <1>8, <1>9 DEF EnvelopeInv

LEMMA EnvelopeBare == ASSUME Control, EnvelopeInv, SendBare PROVE EnvelopeInv'
<1> DEFINE c == [tag |-> ProofTag, payload |-> Payload]
           none == <<>>
           one == Append(none, c)
           opener == cfg.opener
<1>1. /\ packer = <<>> /\ wire = <<>> /\ calls' = <<c>> /\ opener = 0
      /\ UNCHANGED <<setup, sig, packer, damage>>
      /\ ~ setup.v1 => wire' = SigPack(Payload, CfgFp, Params, 4 + Len(Payload))
  BY DEF SendBare
<1>2. GoodCall(c)
  <2>1. Payload \in Seq(Nat) /\ Len(Payload) = 2 /\ ProofTag \in 0..255
    BY EnvelopeAssumption DEF Payload
  <2>2. 2 \in Lengths
    BY DEF Lengths
  <2> QED
    BY <2>1, <2>2 DEF GoodCall, Sect
<1>3. none \in Seq(Sect) /\ KeptOf(none, opener) = none /\ Good(none) /\ Len(none) = 0 /\ DOMAIN none = {}
  BY NoCalls
<1>4. calls' = one /\ c.tag = ProofTag
  BY <1>1
<1> HIDE DEF c, none
<1>5. Keep(none, c, opener) = one
  <2>1. ProofTag # OpenerTag /\ MaxSections # 0
    BY EnvelopeAssumption
  <2> QED
    BY <1>3, <1>4, <2>1 DEF Keep
<1>6. Good(one)
  BY <1>2, <1>3, <1>5, GoodGrows
<1>7. Kept(calls)' = one /\ calls' \in Seq(Sect)
  <2>1. KeptOf(one, opener) = one
    BY <1>2, <1>3, <1>5, KeptGrows DEF GoodCall
  <2>2. one \in Seq(Sect)
    BY <1>2, <1>3 DEF GoodCall
  <2> QED
    BY <1>1, <1>4, <2>1, <2>2, SameSetup DEF Kept
<1>8. ~ setup.v1 /\ wire' # <<>> => \E w : wire' = <<w>> /\ Intact(w, one)
  <2> SUFFICES ASSUME ~ setup.v1, wire' # <<>> PROVE \E w : wire' = <<w>> /\ Intact(w, one)
    OBVIOUS
  <2> DEFINE p == PackerOf(CfgFp, 1, none)
             q == PackerOf(CfgFp, 1, one)
             n == 4 + Len(Payload)
  <2>1. PackInit(CfgFp, Params, 1) = p
    BY DEF PackInit, PackerOf, none
  <2>2. PackProof(p, Payload) = <<q>>
    <3>1. PICK fp : fp = CfgFp
      OBVIOUS
    <3>2. PICK f : f = 1
      OBVIOUS
    <3>3. NewSection(PackerOf(fp, f, none), ProofTag, Payload) = <<PackerOf(fp, f, one)>>
      BY FirstPacked DEF c, none
    <3>4. NewSection(p, ProofTag, Payload) = <<q>>
      BY <3>1, <3>2, <3>3
    <3> QED
      BY <3>4 DEF PackProof
  <2> HIDE DEF p, n, one
  <2>3. <<q>> # <<>> /\ <<q>>[1] = q
    OBVIOUS
  <2>4. wire' = PackFinal(q, n)
    BY <1>1, <2>1, <2>2, <2>3 DEF SigPack, n
  <2>5. 1 \in Formats
    BY DEF Formats
  <2> HIDE DEF q
  <2> QED
    BY <1>6, <2>4, <2>5, WrittenIntact DEF q
<1> HIDE DEF one
<1>9. PackerInv'
  BY <1>1 DEF PackerInv
<1>10. WireInv'
  <2>1. damage = "none"
    BY <1>1 DEF EnvelopeInv, WireInv
  <2>2. PICK k : k = one
    OBVIOUS
  <2> SUFFICES ASSUME wire' # <<>>, ~ setup.v1
               PROVE  \E o : Intact(o, Kept(calls))' /\ wire'[1] = o
    BY <1>1, <2>1 DEF WireInv
  <2>3. PICK w : wire' = <<w>> /\ Intact(w, k)
    BY <1>8, <2>2
  <2>4. Intact(w, k)'
    BY <1>1, <2>3, SameSetup
  <2>5. Kept(calls)' = k
    BY <1>7, <2>2
  <2> QED
    BY <2>3, <2>4, <2>5
<1>11. SealInv'
  BY <1>1, SameSetup DEF EnvelopeInv, SealInv
<1> QED
  BY <1>6, <1>7, <1>9, <1>10, <1>11 DEF EnvelopeInv

LEMMA EnvelopeSpoil == ASSUME Control, EnvelopeInv, Spoil PROVE EnvelopeInv'
<1>0. PICK kept : kept = Kept(calls)
  OBVIOUS
<1>1. wire # <<>> /\ damage = "none" /\ UNCHANGED <<setup, sig, packer, calls>> /\ wire' # <<>>
  BY DEF Spoil
<1>2. Altered(wire'[1], wire[1], damage')
  <2>1. CASE /\ \E n \in 0..(Len(wire[1].body) - 1) : wire' = <<[wire[1] EXCEPT !.body = SubSeq(@, 1, n)]>>
             /\ damage' = "cut"
    <3>1. PICK n \in 0..(Len(wire[1].body) - 1) : wire' = <<[wire[1] EXCEPT !.body = SubSeq(@, 1, n)]>>
      BY <2>1
    <3>2. wire'[1] = WithBody(wire[1], SubSeq(wire[1].body, 1, n))
      BY <3>1 DEF WithBody
    <3> QED
      BY <2>1, <3>2 DEF Altered
  <2>2. CASE wire' = <<[wire[1] EXCEPT !.body = @ \o <<0>>]>> /\ damage' = "longer"
    BY <2>2 DEF Altered, WithBody
  <2>3. CASE wire' = <<[wire[1] EXCEPT !.body = @ \o @]>> /\ damage' = "twice"
    BY <2>3 DEF Altered, WithBody
  <2>4. CASE /\ \E v \in {1, 2, 3} \ {wire[1].version} : wire' = <<[wire[1] EXCEPT !.version = v]>>
             /\ damage' = "version"
    BY <2>4 DEF Altered, WithVersion
  <2> QED
    BY <2>1, <2>2, <2>3, <2>4 DEF Spoil
<1>3. damage' # "none"
  BY DEF Spoil
<1>4. Kept(calls)' = kept
  BY <1>0, <1>1, SameSetup DEF Kept
<1>5. WireInv'
  <2> SUFFICES ASSUME ~ setup.v1
               PROVE  \E o : Intact(o, Kept(calls))' /\ Altered(wire'[1], o, damage')
    BY <1>1, <1>3 DEF WireInv
  <2>1. PICK o : Intact(o, kept) /\ wire[1] = o
    BY <1>0, <1>1 DEF EnvelopeInv, WireInv
  <2>2. Intact(o, kept)'
    BY <1>1, <2>1, SameSetup
  <2> QED
    BY <1>2, <1>4, <2>1, <2>2
<1>6. PackerInv'
  BY <1>0, <1>1, <1>4, SameSetup DEF EnvelopeInv, PackerInv
<1>7. SealInv'
  BY <1>1, SameSetup DEF EnvelopeInv, SealInv
<1>8. calls' \in Seq(Sect) /\ Good(Kept(calls)')
  BY <1>0, <1>1, <1>4 DEF EnvelopeInv
<1> QED
  BY <1>5, <1>6, <1>7, <1>8 DEF EnvelopeInv

\* Every step keeps what the packer and the envelope hold in step with the
\* calls; a delivery and a restart leave neither.
LEMMA EnvelopeNext == ASSUME Control, EnvelopeInv, [Next]_vars PROVE EnvelopeInv'
<1>1. CASE Begin \/ Set \/ End \/ Final \/ BuildAtOnce
  <2>1. UNCHANGED <<setup, sig, packer, calls, wire, damage>>
    BY <1>1 DEF Begin, Set, End, Final, BuildAtOnce, After
  <2> QED
    BY <2>1, EnvelopeKeeps
<1>2. CASE Revoke
  <2>1. UNCHANGED <<setup, sig, packer, calls, wire, damage>>
    BY <1>2 DEF Revoke
  <2> QED
    BY <2>1, EnvelopeKeeps
<1>3. CASE Try \/ SendBare \/ OpenPacker \/ Pack \/ Close \/ Spoil
  BY <1>3, EnvelopeTry, EnvelopeBare, EnvelopeOpen, EnvelopePack, EnvelopeClose, EnvelopeSpoil DEF Control
<1>4. CASE Receive \/ Settle
  <2>1. packer' = <<>> /\ wire' = <<>> /\ calls' = <<>> /\ damage' = "none" /\ sig' = <<>>
    BY <1>4 DEF Control, EnvelopeInv, WireInv, Receive, Settle
  <2> QED
    BY <2>1, EnvelopeCleared
<1>5. CASE UNCHANGED vars
  <2>1. UNCHANGED <<setup, sig, packer, calls, wire, damage>>
    BY <1>5 DEF vars
  <2> QED
    BY <2>1, EnvelopeKeeps
<1> QED
  BY <1>1, <1>2, <1>3, <1>4, <1>5 DEF Next

\* What the unpacker then says of the envelope.
LEMMA EnvelopeAnswers == ASSUME EnvelopeInv PROVE EnvelopeFaithful
<1>1. PICK kept : kept = Kept(calls)
  OBVIOUS
<1>2. CASE wire # <<>> /\ ~ setup.v1
  <2>1. PICK o : /\ Intact(o, kept)
                 /\ IF damage = "none" THEN wire[1] = o ELSE Altered(wire[1], o, damage)
    BY <1>1, <1>2 DEF EnvelopeInv, WireInv
  <2>2. PICK w : w = wire[1]
    OBVIOUS
  <2>3. Good(kept)
    BY <1>1 DEF EnvelopeInv
  <2>4. CASE damage = "none"
    <3>1. Unpack(w, CfgFp, Params) = <<kept>>
      BY <2>1, <2>2, <2>3, <2>4, IntactUnpacks
    <3> QED
      BY <1>1, <2>2, <2>4, <3>1 DEF EnvelopeFaithful
  <2>5. CASE damage # "none"
    <3>1. Faithful(w, kept)
      BY <2>1, <2>2, <2>3, <2>5, AlteredFaithful
    <3> QED
      BY <1>1, <2>2, <2>5, <3>1 DEF EnvelopeFaithful, Faithful
  <2> QED
    BY <2>4, <2>5
<1> QED
  BY <1>2 DEF EnvelopeFaithful

\* An envelope that arrives whole unpacks to the sections that were packed, in
\* their order; of one that was cut, extended, doubled or relabelled either
\* nothing is read or a beginning of what was packed with the proof in it,
\* whatever the payloads and the calls (voleith_rs_sig_pack_final,
\* voleith_rs_sig_unpack_init).
THEOREM EnvelopesAreFaithful == Spec => []EnvelopeFaithful
<1>1. Init => EnvelopeInv
  BY EnvelopeInit
<1>2. Control /\ EnvelopeInv /\ [Next]_vars => EnvelopeInv'
  BY EnvelopeNext
<1>3. Spec => []Control
  <2>1. IInv => Control
    BY DEF IInv
  <2> QED
    BY <2>1, RingInvariant, PTL
<1>4. EnvelopeInv => EnvelopeFaithful
  BY EnvelopeAnswers
<1> QED
  BY <1>1, <1>2, <1>3, <1>4, PTL DEF Spec

-----------------------------------------------------------------------------
(* Two indexed trees: an empty one and another have different roots. *)

\* Trees of the same root have the same first leaf.
LEMMA RootBinds ==
  ASSUME NEW h, h.mark \in Nat, NEW d \in Nat, NEW x \in Nodes(d), NEW y \in Nodes(d),
         Root(h, x, d) = Root(h, y, d)
  PROVE  x[0] = y[0]
<1> DEFINE a == Levels(h, x, d)
           b == Levels(h, y, d)
<1>1. Leveled(a, h, x, d) /\ Leveled(b, h, y, d)
  BY LevelsUnfold
<1>2. a[d][0] = b[d][0]
  BY DEF Root
<1> HIDE DEF a, b
<1> DEFINE T == {n \in Nat : n <= d => a[d - n][0] = b[d - n][0]}
<1>3. 0 \in T
  BY <1>2
<1>4. ASSUME NEW n \in Nat, n \in T PROVE n + 1 \in T
  <2> SUFFICES ASSUME n + 1 <= d PROVE a[d - (n + 1)][0] = b[d - (n + 1)][0]
    OBVIOUS
  <2> DEFINE k == d - n
             f == a[k - 1]
             g == b[k - 1]
  <2>1. k \in 1..d /\ k - 1 = d - (n + 1) /\ k - 1 \in 0..d /\ d - k = n /\ d - (k - 1) = n + 1
    OBVIOUS
  <2>2. a[k][0] = b[k][0]
    BY <1>4
  <2> HIDE DEF k, T
  <2>3. /\ f \in Nodes(n + 1) /\ a[k] = Paired(h, f, n)
        /\ g \in Nodes(n + 1) /\ b[k] = Paired(h, g, n)
    BY <1>1, <2>1 DEF Leveled
  <2> HIDE DEF f, g
  <2>4. 0 \in 0..(2 ^ n - 1) /\ 0 \in 0..(2 ^ (n + 1) - 1) /\ 1 \in 0..(2 ^ (n + 1) - 1)
    BY PowerPositive, PowerStep
  <2>5. a[k][0] = Inode(h, f[0], f[1]) /\ b[k][0] = Inode(h, g[0], g[1])
    BY <2>3, <2>4 DEF Paired
  <2>6. f[0] \in Seq(Nat) /\ f[1] \in Seq(Nat) /\ g[0] \in Seq(Nat) /\ g[1] \in Seq(Nat)
    BY <2>3, <2>4 DEF Nodes
  <2> DEFINE p == f[0]
             q == f[1]
             u == g[0]
             w == g[1]
  <2>7. p = u
    <3>1. /\ Inode(h, p, q) = Inode(h, u, w)
          /\ p \in Seq(Nat) /\ q \in Seq(Nat) /\ u \in Seq(Nat) /\ w \in Seq(Nat)
      BY <2>2, <2>5, <2>6
    <3> HIDE DEF p, q, u, w
    <3> QED
      BY <3>1, InodeInjective
  <2> QED
    BY <2>1, <2>7 DEF f, g
<1> HIDE DEF T
<1>5. d \in T
  BY <1>3, <1>4, NatSetInduction
<1>6. a[d - d][0] = b[d - d][0]
  <2>1. d <= d
    OBVIOUS
  <2> QED
    BY <1>5, <2>1 DEF T
<1>7. a[0] = x /\ b[0] = y /\ d - d = 0
  BY <1>1 DEF Leveled
<1> QED
  BY <1>6, <1>7

\* The first record of a tree leads to its lowest value, or to the upper end.
LEMMA FirstRecord ==
  ASSUME NEW values \in SUBSET Seq(Nat), IsFiniteSet(values), NEW d \in Nat
  PROVE  IF values = {} THEN RecordsOf(values, d)[0].next = Top
         ELSE RecordsOf(values, d)[0].next \in values
<1> DEFINE m == Cardinality(values)
           order == Ascending(values)
           At(n) == IF n = 0 THEN Vacant ELSE IF n <= m THEN order[n] ELSE Top
<1>1. /\ m \in Nat /\ Len(order) = m
      /\ \A n \in 1..m : order[n] \in values
  BY AscendingRanks
<1>2. RecordsOf(values, d) =
        [n \in Recs(d) |-> [value |-> At(n), next |-> At(n + 1), index |-> <<IF n < m THEN n + 1 ELSE 0>>]]
  BY <1>1 DEF RecordsOf, Recs
<1>3. 0 \in Recs(d)
  BY PowerPositive DEF Recs
<1>4. RecordsOf(values, d)[0].next = IF 1 <= m THEN order[1] ELSE Top
  BY <1>2, <1>3
<1>5. values = {} <=> m = 0
  BY FS_EmptySet
<1> HIDE DEF m, order
<1> QED
  BY <1>1, <1>4, <1>5

LEMMA RootsDiffer ==
  ASSUME NEW h, h.mark \in Nat, NEW values \in SUBSET Seq(Nat), IsFiniteSet(values), values # {},
         Top \notin values, NEW d \in Nat, NEW vb, NEW x, x # Vacant,
         x = Given(ImtRoot(h, RecordsOf({}, d), d, vb))
  PROVE  x # Given(ImtRoot(h, RecordsOf(values, d), d, vb))
<1> SUFFICES ASSUME x = Given(ImtRoot(h, RecordsOf(values, d), d, vb)) PROVE FALSE
  OBVIOUS
<1>0. PICK none : none = {}
  OBVIOUS
<1> DEFINE r == RecordsOf(none, d)
           s == RecordsOf(values, d)
           f == RecordLeaves(h, r, d)
           g == RecordLeaves(h, s, d)
<1>1. none \in SUBSET Seq(Nat) /\ IsFiniteSet(none)
  BY <1>0, FS_EmptySet
<1>2. x = Root(h, f, d) /\ x = Root(h, g, d)
  BY <1>0 DEF Given, ImtRoot
<1>3. f \in Nodes(d) /\ g \in Nodes(d)
  BY <1>1, LeavesTyped
<1>4. 0 \in Recs(d)
  BY PowerPositive DEF Recs
<1>5. f[0] = LeafNode(h, RecordData(r[0])) /\ g[0] = LeafNode(h, RecordData(s[0]))
  BY <1>4 DEF RecordLeaves, Recs
<1>6. TypedRecord(r[0]) /\ TypedRecord(s[0])
  BY <1>1, <1>4, NothingStraddled
<1>7. r[0].next = Top /\ s[0].next \in values
  BY <1>0, <1>1, FirstRecord
<1> HIDE DEF f, g, r, s
<1>8. f[0] = g[0]
  <2>1. \A u, v \in Nodes(d) : Root(h, u, d) = Root(h, v, d) => u[0] = v[0]
    BY RootBinds
  <2> QED
    BY <1>2, <1>3, <2>1
<1>9. RecordData(r[0]) \in Seq(Nat) /\ RecordData(s[0]) \in Seq(Nat)
  BY <1>6, RecordCells
<1>10. SameData(RecordData(r[0]), RecordData(s[0]))
  BY <1>5, <1>8, <1>9, LeafInjective
<1>11. r[0].next = s[0].next
  BY <1>6, <1>10, RecordInjective
<1> QED
  BY <1>7, <1>11

-----------------------------------------------------------------------------
(* What is long is none of the values that stand for nothing.               *)

LEMMA LongCells ==
  ASSUME NEW x, Len(x) >= 2
  PROVE  x # Vacant /\ x # Top /\ x # Absent
<1>1. \A y : y = Vacant \/ y = Top \/ y = Absent => Len(y) \in {0, 1}
  BY DEF Vacant, Top, Absent
<1>2. ~ 0 >= 2 /\ ~ 1 >= 2
  OBVIOUS
<1> QED
  BY <1>1, <1>2

LEMMA RootLong ==
  ASSUME NEW h, h.mark \in Nat, NEW d \in Nat, d >= 1, NEW leaves \in Nodes(d)
  PROVE  Root(h, leaves, d) \in Seq(Nat) /\ Len(Root(h, leaves, d)) >= 2
<1> DEFINE lev == Levels(h, leaves, d)
           f == lev[d - 1]
           a == f[0]
           b == f[1]
<1>1. Leveled(lev, h, leaves, d)
  BY LevelsUnfold
<1>2. Root(h, leaves, d) = lev[d][0]
  BY DEF Root
<1> HIDE DEF lev
<1>3. d \in 1..d /\ d - 1 \in 0..d /\ d - d = 0 /\ d - (d - 1) = 0 + 1
  OBVIOUS
<1>4. f \in Nodes(0 + 1) /\ lev[d] = Paired(h, f, 0)
  BY <1>1, <1>3 DEF Leveled
<1> HIDE DEF f
<1>5. 0 \in 0..(2 ^ 0 - 1) /\ 0 \in 0..(2 ^ (0 + 1) - 1) /\ 1 \in 0..(2 ^ (0 + 1) - 1)
  BY PowerZero, PowerStep
<1>6. lev[d][0] = Inode(h, a, b)
  BY <1>4, <1>5 DEF Paired
<1>7. a \in Seq(Nat) /\ b \in Seq(Nat)
  BY <1>4, <1>5 DEF Nodes
<1> HIDE DEF a, b
<1> QED
  BY <1>2, <1>6, <1>7, InodeInjective

LEMMA SetupTypes ==
  ASSUME setup \in Setups
  PROVE  /\ cfg.tree.mark \in Nat /\ OwfOf(cfg).mark \in Nat /\ EpochOf(cfg).mark \in Nat
         /\ cfg.depth_m \in Nat /\ cfg.depth_r \in Nat /\ cfg.depth_s \in Nat /\ cfg.depth_e \in Nat
         /\ cfg.scope \in Nat /\ setup.scopes \subseteq Nat /\ setup.epochs \subseteq Nat
         /\ setup.offers \in Seq(SUBSET People) /\ setup.attrs \in [People -> Seq(Nat)]
         /\ setup.bounds \in Seq(Nat) /\ Len(setup.bounds) = BoundsTotal(cfg)
         /\ setup.v1 \in BOOLEAN
         /\ setup.v1 => /\ cfg.scope = 0 /\ cfg.depth_s = 0 /\ cfg.opener = 0
                        /\ setup.asks \subseteq AsksV1
         /\ Differ(setup)
<1> DEFINE c == setup.cfg
<1>1. cfg = c
  BY DEF cfg
<1>2. /\ c.tree \in Hashes /\ c.owf \in Hashes \cup {NoHash} /\ c.epoch_hash \in Hashes \cup {NoHash}
      /\ c.depth_m \in Nat /\ c.depth_r \in Nat /\ c.depth_s \in Nat /\ c.depth_e \in Nat
  BY SetupsAssumption
<1>3. /\ setup.offers \in Seq(SUBSET People) /\ setup.attrs \in [People -> Seq(Nat)]
      /\ setup.bounds \in Seq(Nat) /\ Len(setup.bounds) = BoundsTotal(c)
  BY SetupsAssumption
<1>4. /\ setup.v1 \in BOOLEAN
      /\ setup.v1 => /\ c.scope = 0 /\ c.depth_s = 0 /\ c.opener = 0
                     /\ setup.asks \subseteq AsksV1
      /\ Differ(setup)
  BY SetupsAssumption
<1>6. c.scope \in Nat /\ setup.scopes \subseteq Nat /\ setup.epochs \subseteq Nat
  BY SetupsAssumption
<1> HIDE DEF c
<1>5. c.tree.mark \in Nat /\ c.owf.mark \in Nat /\ c.epoch_hash.mark \in Nat
  BY <1>2, MarksTyped
<1> QED
  BY <1>1, <1>2, <1>3, <1>4, <1>5, <1>6 DEF OwfOf, EpochOf

LEMMA PeopleTypes ==
  ASSUME setup \in Setups, NEW p \in People
  PROVE  /\ SkOf(p) \in Seq(Nat) /\ IdOf(p) \in Seq(Nat) /\ RandOf(p) \in Seq(Nat) /\ SaltOf(p) \in Seq(Nat)
         /\ AttrsOf(p) \in Seq(Nat)
         /\ \A e \in 0..(2 ^ cfg.depth_e - 1) : EpochKeyOf(p, e) \in Seq(Nat)
         /\ \A f \in Fields : Data(f, p) \in Seq(Nat)
<1>1. /\ SkOf(p) \in Seq(Nat) /\ IdOf(p) \in Seq(Nat) /\ RandOf(p) \in Seq(Nat) /\ SaltOf(p) \in Seq(Nat)
      /\ \A e \in 0..(2 ^ cfg.depth_e - 1) : EpochKeyOf(p, e) \in Seq(Nat)
  BY PeopleAssumption DEF cfg
<1>2. AttrsOf(p) \in Seq(Nat)
  BY SetupTypes DEF AttrsOf
<1>3. \A f \in Fields : Data(f, p) \in Seq(Nat)
  BY <1>1, <1>2 DEF Fields, Data
<1> QED
  BY <1>1, <1>2, <1>3

\* Three parts put together.
LEMMA ThreeParts ==
  ASSUME NEW a \in Seq(Nat), NEW b \in Seq(Nat), NEW c \in Seq(Nat)
  PROVE  a \o b \o c \in Seq(Nat)
OBVIOUS

LEMMA FourParts ==
  ASSUME NEW a \in Seq(Nat), NEW b \in Seq(Nat), NEW c \in Seq(Nat), NEW d \in Seq(Nat)
  PROVE  a \o b \o c \o d \in Seq(Nat)
OBVIOUS

-----------------------------------------------------------------------------
(* What the issuer has laid, what was tried, and what a signature fixes.    *)

\* Leaves of cells, none of them the upper end of an indexed tree.
Laid(leaves, d) == leaves \in Nodes(d) /\ \A j \in Recs(d) : leaves[j] # Top

\* A builder by its parts; truth values and the empty store have names.
Yes == TRUE
No == FALSE
Unset == <<>>
BuilderOf(cursor, in_member, staged, leaves) ==
  [cfg |-> cfg, n_members |-> Len(setup.offers), cursor |-> cursor, in_member |-> in_member,
   staged |-> staged, leaves |-> leaves]
Building(b, cursor, in_member, staged, leaves) ==
  /\ b = <<BuilderOf(cursor, in_member, staged, leaves)>>
  /\ cfg.depth_m >= 1 /\ Len(setup.offers) <= Capacity(cfg)
  /\ cursor \in Nat /\ cursor <= Len(setup.offers) /\ in_member \in {Yes, No}
  /\ in_member = Yes => cursor < Len(setup.offers)
  /\ Laid(leaves, cfg.depth_m)
  /\ \A f \in DOMAIN staged : staged[f] \in Seq(Nat)

BuilderInv ==
  builder # <<>> =>
    \E cursor, in_member, staged, leaves :
      Building(builder, cursor, in_member, staged, leaves) /\ Len(enrolled) = cursor

\* The ring of its leaves.
Stands(r) ==
  /\ cfg.depth_m >= 1 /\ Laid(r.leaves, cfg.depth_m)
  /\ r.root = Root(cfg.tree, r.leaves, cfg.depth_m)

RingInv ==
  /\ \E S : enrolled \in Seq(S)
  /\ IF ring = <<>> THEN tried = <<>> /\ heard = <<>> /\ revoked = {}
     ELSE builder = <<>> /\ Stands(ring[1]) /\ Len(enrolled) <= Capacity(cfg)
  /\ revoked = {} \/ \E i \in Slots : revoked = {i}

TriedInv ==
  tried # <<>> =>
    LET t == tried[1]
    IN  /\ Requested(t.req) /\ t.req.dev \in setup.devs
        /\ t.revoked \in {{}, revoked}
        /\ t.shows = IF t.req.dev = "stale" THEN {} ELSE {a.show : a \in accepted}

\* What the statement of a signature is, and that it is none of those a
\* verifier may ask instead.
Stated(pub, t) ==
  /\ pub.root = ring[1].root
  /\ IF cfg.depth_r > 0 THEN pub.rev = RevRoot(t.revoked) /\ pub.rev \notin {Vacant, Absent}
     ELSE pub.rev = Absent
  /\ ~ setup.v1 =>
       /\ cfg.depth_s > 0 => /\ cfg.scope > 0 /\ pub.spent # Vacant
                             /\ pub.spent = SpentRoot(SpentOf(t.req))
       /\ cfg.commit = 1 => pub.commitment # Vacant
       /\ cfg.scope > 0 => pub.scope = <<t.req.scope>> /\ pub.T # <<0>>
       /\ pub.bounds \in Seq(Nat) /\ pub.epoch = t.req.epoch
       /\ cfg.opener = 1 => pub.ct # <<0>>
       /\ t.req.dev = "pad" => ~ SCanonical(ArgusParams(cfg.set), pub.s)

\* What a proof fixes: the statement and the message it was made for.
Fixed(proof, pub) ==
  /\ proof.params = Params /\ proof.shape = ShapeOf(cfg)
  /\ IF setup.v1 THEN proof.fs = FsSeedV1(cfg, pub.root, pub.rev, "m")
     ELSE /\ FsSeed(cfg, pub, "m") # <<>> /\ proof.fs = FsSeed(cfg, pub, "m")[1]
          /\ FillInstance(cfg, pub) # <<>> /\ proof.inst = FillInstance(cfg, pub)[1]

MadeInv == sig # <<>> => Fixed(sig[1].proof, sig[1].pub) /\ Stated(sig[1].pub, tried[1])

-----------------------------------------------------------------------------
(* The issuer: a ring is a tree over leaves that were hashed, or are vacant. *)

LEMMA LeafLong ==
  ASSUME NEW h, h.mark \in Nat, NEW data \in Seq(Nat)
  PROVE  /\ LeafNode(h, data) \in Seq(Nat) /\ Len(LeafNode(h, data)) >= 2
         /\ LeafNode(h, data) # Top /\ LeafNode(h, data) # Vacant
<1> DEFINE x == LeafNode(h, data)
<1>1. x \in Seq(Nat) /\ Len(x) >= 2
  BY LeafInjective
<1> HIDE DEF x
<1>2. x # Top /\ x # Vacant
  BY <1>1, LongCells
<1> QED
  BY <1>1, <1>2 DEF x

LEMMA VacantTyped == Vacant \in Seq(Nat) /\ Vacant # Top
<1>1. Vacant[1] = 0 /\ Top[1] = 99
  BY DEF Vacant, Top
<1>2. Vacant \in Seq(Nat)
  BY DEF Vacant
<1> QED
  BY <1>1, <1>2

LEMMA LaidNone ==
  ASSUME NEW d \in Nat
  PROVE  Laid([i \in 0..(2 ^ d - 1) |-> Vacant], d)
BY VacantTyped DEF Laid, Nodes, Recs

LEMMA LaidMore ==
  ASSUME NEW d \in Nat, NEW leaves, Laid(leaves, d), NEW x \in Seq(Nat), x # Top, NEW c
  PROVE  Laid([leaves EXCEPT ![c] = x], d)
BY DEF Laid, Nodes, Recs

LEMMA RingOfStands ==
  ASSUME cfg.depth_m >= 1, NEW leaves, Laid(leaves, cfg.depth_m)
  PROVE  Stands(RingOf(cfg, leaves))
BY DEF Stands, RingOf

LEMMA InitBuilds ==
  ASSUME setup \in Setups, BuildInit(cfg, Len(setup.offers)) # <<>>
  PROVE  \E st, lv : Building(BuildInit(cfg, Len(setup.offers)), 0, No, st, lv)
<1> DEFINE n == Len(setup.offers)
           st == <<>>
           lv == [i \in 0..(Capacity(cfg) - 1) |-> Vacant]
<1>1. Validate(cfg) /\ n > 0 /\ n <= Capacity(cfg)
      /\ BuildInit(cfg, n) = <<[cfg |-> cfg, n_members |-> n, cursor |-> 0, in_member |-> FALSE,
                                staged |-> st, leaves |-> lv]>>
  BY DEF BuildInit
<1>2. cfg.depth_m >= 1 /\ cfg.depth_m \in Nat
  BY <1>1, SetupTypes DEF Validate, Structural
<1>3. Laid(lv, cfg.depth_m)
  BY <1>2, LaidNone DEF Capacity
<1>4. \A f \in DOMAIN st : st[f] \in Seq(Nat)
  OBVIOUS
<1>5. n \in Nat
  BY SetupTypes
<1> HIDE DEF st, lv, n
<1>6. Building(BuildInit(cfg, n), 0, No, st, lv)
  BY <1>1, <1>2, <1>3, <1>4, <1>5 DEF Building, BuilderOf, n, No
<1> QED
  BY <1>6 DEF n

\* What an operation makes of a builder, if it does not refuse.
LEMMA BeginMakes ==
  ASSUME NEW c, NEW m, NEW st, NEW lv, NEW b, b = BuilderOf(c, m, st, lv), MemberBegin(b) # <<>>
  PROVE  /\ m # Yes /\ ~ c >= Len(setup.offers)
         /\ MemberBegin(b) = <<BuilderOf(c, Yes, Unset, lv)>>
<1> DEFINE y == [b EXCEPT !.in_member = Yes]
           z == [y EXCEPT !.staged = Unset]
<1>0. b.in_member = m /\ b.cursor = c /\ b.n_members = Len(setup.offers)
  BY DEF BuilderOf
<1>1. m # Yes /\ ~ c >= Len(setup.offers) /\ MemberBegin(b) = <<z>>
  BY <1>0 DEF MemberBegin, Yes, Unset
<1>2. y = BuilderOf(c, Yes, st, lv)
  BY DEF BuilderOf
<1> HIDE DEF y
<1>3. z = BuilderOf(c, Yes, Unset, lv)
  BY <1>2 DEF BuilderOf
<1> QED
  BY <1>1, <1>3

LEMMA SetMakes ==
  ASSUME NEW c, NEW m, NEW st, NEW lv, NEW b, b = BuilderOf(c, m, st, lv),
         NEW f, NEW data, NEW ok, MemberSet(b, f, data, ok) # <<>>
  PROVE  MemberSet(b, f, data, ok) = <<BuilderOf(c, m, With(st, f, data), lv)>>
<1> DEFINE y == [b EXCEPT !.staged = With(st, f, data)]
<1>1. b.staged = st
  BY DEF BuilderOf
<1>2. MemberSet(b, f, data, ok) = <<y>>
  BY <1>1 DEF MemberSet
<1>3. y = BuilderOf(c, m, With(st, f, data), lv)
  BY DEF BuilderOf
<1> QED
  BY <1>2, <1>3

EndPart(st, f) == IF f \in Wanted(cfg) THEN st[f] ELSE <<>>
EndLeaf(st) == LeafNode(OwfOf(cfg), EndPart(st, "sk") \o EndPart(st, "attrs") \o EndPart(st, "id"))
EndFits ==
  LET bytes == cfg.sk + AttrTotal(cfg) + OpenerIdBytes(cfg)
  IN  bytes # 0 /\ LeafFits(OwfOf(cfg), bytes)

LEMMA EndMakes ==
  ASSUME NEW c, NEW m, NEW st, NEW lv, NEW b, b = BuilderOf(c, m, st, lv), MemberEnd(b) # <<>>
  PROVE  /\ m # No /\ DOMAIN st = Wanted(cfg)
         /\ MemberEnd(b) = <<BuilderOf(c + 1, No, st, [lv EXCEPT ![c] = EndLeaf(st)])>>
<1> DEFINE leaf == EndLeaf(st)
           lv2 == [lv EXCEPT ![c] = leaf]
           w == [b EXCEPT !.leaves = lv2]
           y == [w EXCEPT !.cursor = c + 1]
           v == [y EXCEPT !.in_member = No]
<1>0. /\ b.in_member = m /\ b.cursor = c /\ b.staged = st /\ b.cfg = cfg /\ b.leaves = lv
  BY DEF BuilderOf
<1>1. /\ m # No /\ DOMAIN st = Wanted(cfg)
      /\ MemberEnd(b) = <<[b EXCEPT !.leaves[c] = leaf, !.cursor = @ + 1, !.in_member = No]>>
  BY <1>0 DEF MemberEnd, EndLeaf, EndPart, No
<1> HIDE DEF leaf
<1>2. [b EXCEPT !.leaves[c] = leaf, !.cursor = @ + 1, !.in_member = No] = v
  BY <1>0
<1> HIDE DEF lv2
<1>3. w = BuilderOf(c, m, st, lv2)
  BY DEF BuilderOf
<1> HIDE DEF w
<1>4. y = BuilderOf(c + 1, m, st, lv2)
  BY <1>3 DEF BuilderOf
<1> HIDE DEF y
<1>5. v = BuilderOf(c + 1, No, st, lv2)
  BY <1>4 DEF BuilderOf
<1> QED
  BY <1>1, <1>2, <1>5 DEF lv2, leaf

LEMMA BeginBuilds ==
  ASSUME NEW b, NEW c, NEW m, NEW st, NEW lv, Building(b, c, m, st, lv), MemberBegin(b[1]) # <<>>
  PROVE  m # Yes /\ \E st2 : Building(MemberBegin(b[1]), c, Yes, st2, lv)
<1>1. b[1] = BuilderOf(c, m, st, lv)
  BY DEF Building
<1>3. m # Yes /\ ~ c >= Len(setup.offers) /\ MemberBegin(b[1]) = <<BuilderOf(c, Yes, Unset, lv)>>
  BY <1>1, BeginMakes
<1>4. \A f \in DOMAIN Unset : Unset[f] \in Seq(Nat)
  BY DEF Unset
<1>5. c < Len(setup.offers)
  <2>1. c \in Nat /\ c <= Len(setup.offers)
    BY DEF Building
  <2> QED
    BY <1>3, <2>1
<1>6. Building(MemberBegin(b[1]), c, Yes, Unset, lv)
  BY <1>3, <1>4, <1>5 DEF Building
<1> QED
  BY <1>3, <1>6

LEMMA BeginGoes ==
  ASSUME NEW b, NEW c, NEW st, NEW lv, Building(b, c, No, st, lv), c < Len(setup.offers)
  PROVE  MemberBegin(b[1]) # <<>>
<1> DEFINE x == BuilderOf(c, No, st, lv)
<1>1. b[1] = x /\ x.n_members = Len(setup.offers) /\ x.cursor = c /\ x.in_member = FALSE
  BY DEF Building, BuilderOf, No
<1>2. c \in Nat /\ c <= Len(setup.offers)
  BY DEF Building
<1>3. ~ c >= Len(setup.offers)
  <2>1. c = Len(setup.offers) \/ Len(setup.offers) \in Int \/ Len(setup.offers) \notin Int
    OBVIOUS
  <2> QED
    BY <1>2
<1> HIDE DEF x
<1> QED
  BY <1>1, <1>3 DEF MemberBegin

LEMMA SetBuilds ==
  ASSUME NEW b, NEW c, NEW m, NEW st, NEW lv, Building(b, c, m, st, lv),
         NEW f, NEW data \in Seq(Nat), NEW ok, MemberSet(b[1], f, data, ok) # <<>>
  PROVE  \E st2 : Building(MemberSet(b[1], f, data, ok), c, m, st2, lv)
<1> DEFINE st2 == With(st, f, data)
<1>1. b[1] = BuilderOf(c, m, st, lv)
  BY DEF Building
<1>3. MemberSet(b[1], f, data, ok) = <<BuilderOf(c, m, st2, lv)>>
  BY <1>1, SetMakes
<1>4. \A g \in DOMAIN st2 : st2[g] \in Seq(Nat)
  <2>1. \A g \in DOMAIN st : st[g] \in Seq(Nat)
    BY DEF Building
  <2> QED
    BY <2>1 DEF With
<1> HIDE DEF st2
<1>5. Building(MemberSet(b[1], f, data, ok), c, m, st2, lv)
  BY <1>3, <1>4 DEF Building
<1> QED
  BY <1>5

LEMMA SetGoes ==
  ASSUME NEW b, NEW c, NEW st, NEW lv, Building(b, c, Yes, st, lv),
         NEW f \in Wanted(cfg), NEW data
  PROVE  MemberSet(b[1], f, data, TRUE) # <<>>
<1> DEFINE x == BuilderOf(c, Yes, st, lv)
<1>1. b[1] = x /\ x.cfg = cfg /\ x.in_member = TRUE
  BY DEF Building, BuilderOf, Yes
<1> HIDE DEF x
<1> QED
  BY <1>1 DEF MemberSet

LEMMA EndBuilds ==
  ASSUME setup \in Setups, NEW b, NEW c, NEW m, NEW st, NEW lv, Building(b, c, m, st, lv),
         MemberEnd(b[1]) # <<>>
  PROVE  \E lv2 : Building(MemberEnd(b[1]), c + 1, No, st, lv2)
<1> DEFINE leaf == EndLeaf(st)
           lv2 == [lv EXCEPT ![c] = leaf]
           part(f) == EndPart(st, f)
           pre == part("sk") \o part("attrs") \o part("id")
<1>1. b[1] = BuilderOf(c, m, st, lv)
  BY DEF Building
<1>3. m # No /\ DOMAIN st = Wanted(cfg) /\ MemberEnd(b[1]) = <<BuilderOf(c + 1, No, st, lv2)>>
  BY <1>1, EndMakes
<1>4. /\ cfg.depth_m >= 1 /\ cfg.depth_m \in Nat /\ Laid(lv, cfg.depth_m)
      /\ c \in Nat /\ c < Len(setup.offers) /\ Len(setup.offers) \in Nat
      /\ Len(setup.offers) <= Capacity(cfg)
      /\ \A f \in DOMAIN st : st[f] \in Seq(Nat)
  <2>1. m = Yes
    BY <1>3 DEF Building
  <2> QED
    BY <2>1, SetupTypes DEF Building
<1>5. leaf \in Seq(Nat) /\ leaf # Top
  <2>1. \A f : part(f) \in Seq(Nat)
    BY <1>3, <1>4 DEF EndPart
  <2>3. leaf = LeafNode(OwfOf(cfg), pre)
    BY DEF EndLeaf
  <2> HIDE DEF part, leaf
  <2>2. pre \in Seq(Nat)
    BY <2>1, ThreeParts
  <2> HIDE DEF pre
  <2> QED
    BY <2>2, <2>3, LeafLong, SetupTypes
<1> HIDE DEF leaf
<1>6. Laid(lv2, cfg.depth_m)
  BY <1>4, <1>5, LaidMore
<1> HIDE DEF lv2
<1>8. c + 1 \in Nat /\ c + 1 <= Len(setup.offers)
  BY <1>4
<1>7. Building(MemberEnd(b[1]), c + 1, No, st, lv2)
  BY <1>3, <1>4, <1>6, <1>8 DEF Building
<1> QED
  BY <1>7

LEMMA FinalStands ==
  ASSUME NEW b, NEW c, NEW m, NEW st, NEW lv, Building(b, c, m, st, lv), BuildFinal(b[1]) # <<>>
  PROVE  \E r : BuildFinal(b[1]) = <<r>> /\ Stands(r)
<1> DEFINE x == BuilderOf(c, m, st, lv)
<1>1. b[1] = x /\ x.cfg = cfg /\ x.leaves = lv
  BY DEF Building, BuilderOf
<1> HIDE DEF x
<1>2. BuildFinal(b[1]) = <<RingOf(cfg, lv)>>
  BY <1>1 DEF BuildFinal
<1>3. Stands(RingOf(cfg, lv))
  BY RingOfStands DEF Building
<1> QED
  BY <1>2, <1>3

-----------------------------------------------------------------------------
(* The calls that build a ring at once.                                     *)

\* A function that takes each step from the one before exists.
Stepped(f, b0, n, sks, attrs) ==
  f = [i \in 0..n |-> IF i = 0 THEN b0
                      ELSE IF f[i - 1] = <<>> THEN <<>> ELSE Enrol(cfg, f[i - 1][1], sks, attrs, i)]

LEMMA SteppedExists ==
  ASSUME NEW b0, NEW sks, NEW attrs, NEW n \in Nat
  PROVE  \E f : Stepped(f, b0, n, sks, attrs)
<1> DEFINE Next1(x, i) == IF x = <<>> THEN <<>> ELSE Enrol(cfg, x[1], sks, attrs, i)
           Turn(f, k) == IF k = 0 THEN b0 ELSE Next1(f[k - 1], k)
           T == {m \in Nat : \E f : f = [k \in 0..m |-> Turn(f, k)]}
<1> HIDE DEF Next1
<1>1. 0 \in T
  <2> DEFINE f == [k \in 0..0 |-> b0]
  <2>1. f = [k \in 0..0 |-> Turn(f, k)]
    OBVIOUS
  <2> QED
    BY <2>1
<1>2. ASSUME NEW m \in Nat, m \in T PROVE m + 1 \in T
  <2>1. PICK f : f = [k \in 0..m |-> Turn(f, k)]
    BY <1>2
  <2> DEFINE g == [k \in 0..(m + 1) |-> IF k <= m THEN f[k] ELSE Next1(f[m], m + 1)]
  <2>2. \A k \in 0..m : g[k] = f[k]
    OBVIOUS
  <2>3. g[m + 1] = Next1(f[m], m + 1)
    OBVIOUS
  <2>4. g = [k \in 0..(m + 1) |-> g[k]]
    OBVIOUS
  <2> HIDE DEF g
  <2>5. ASSUME NEW k \in 0..(m + 1) PROVE g[k] = Turn(g, k)
    <3>1. CASE k = m + 1
      <4>1. (m + 1) - 1 = m /\ m + 1 # 0 /\ g[m] = f[m]
        BY <2>2
      <4> QED
        BY <2>3, <3>1, <4>1
    <3>2. CASE k \in 0..m
      <4>1. f[k] = Turn(f, k)
        BY <2>1, <3>2
      <4>2. k # 0 => g[k - 1] = f[k - 1]
        BY <2>2, <3>2
      <4> QED
        BY <2>2, <3>2, <4>1, <4>2
    <3> QED
      BY <3>1, <3>2
  <2> HIDE DEF Turn
  <2>6. g = [k \in 0..(m + 1) |-> Turn(g, k)]
    BY <2>4, <2>5
  <2>7. \E f2 : f2 = [k \in 0..(m + 1) |-> Turn(f2, k)]
    BY <2>6
  <2> QED
    BY <2>7
<1>3. n \in T
  <2> HIDE DEF T
  <2> QED
    BY <1>1, <1>2, NatSetInduction
<1>4. PICK f : f = [k \in 0..n |-> Turn(f, k)]
  BY <1>3
<1>5. Stepped(f, b0, n, sks, attrs)
  BY <1>4 DEF Stepped, Next1
<1> QED
  BY <1>5

LEMMA EnrolAllUnfold ==
  ASSUME NEW b0, NEW sks, NEW attrs, NEW n \in Nat
  PROVE  \E f : Stepped(f, b0, n, sks, attrs) /\ EnrolAll(cfg, b0, sks, attrs, n) = f[n]
<1> DEFINE f == CHOOSE f : Stepped(f, b0, n, sks, attrs)
<1>1. EnrolAll(cfg, b0, sks, attrs, n) = f[n]
  BY DEF EnrolAll, Stepped
<1>2. Stepped(f, b0, n, sks, attrs)
  BY SteppedExists
<1> QED
  BY <1>1, <1>2

\* A member that is begun, given its key and attributes, and ended.
LEMMA EnrolBuilds ==
  ASSUME setup \in Setups, NEW b, NEW c, NEW st, NEW lv, Building(b, c, No, st, lv),
         c < Len(setup.offers), NEW sks, NEW attrs, NEW i,
         cfg.sk > 0 => sks[i] \in Seq(Nat), AttrTotal(cfg) > 0 => attrs[i] \in Seq(Nat),
         Enrol(cfg, b[1], sks, attrs, i) # <<>>
  PROVE  \E st2, lv2 : Building(Enrol(cfg, b[1], sks, attrs, i), c + 1, No, st2, lv2)
<1> DEFINE begun == MemberBegin(b[1])
           keyed == IF cfg.sk > 0 THEN MemberSet(begun[1], "sk", sks[i], TRUE) ELSE begun
           full == IF AttrTotal(cfg) > 0 THEN MemberSet(keyed[1], "attrs", attrs[i], TRUE) ELSE keyed
<1>1. Enrol(cfg, b[1], sks, attrs, i) = MemberEnd(full[1])
  BY DEF Enrol
<1>2. \E s1 : Building(begun, c, Yes, s1, lv)
  BY BeginGoes, BeginBuilds
<1> HIDE DEF begun
<1>3. \E s2 : Building(keyed, c, Yes, s2, lv)
  <2>1. CASE cfg.sk > 0
    <3>1. PICK s1 : Building(begun, c, Yes, s1, lv)
      BY <1>2
    <3>2. "sk" \in Wanted(cfg)
      BY <2>1 DEF Wanted, Fields
    <3> QED
      BY <2>1, <3>1, <3>2, SetGoes, SetBuilds
  <2> QED
    BY <1>2, <2>1
<1> HIDE DEF keyed
<1>4. \E s3 : Building(full, c, Yes, s3, lv)
  <2>1. CASE AttrTotal(cfg) > 0
    <3>1. PICK s1 : Building(keyed, c, Yes, s1, lv)
      BY <1>3
    <3>2. "attrs" \in Wanted(cfg)
      BY <2>1 DEF Wanted, Fields
    <3> QED
      BY <2>1, <3>1, <3>2, SetGoes, SetBuilds
  <2> QED
    BY <1>3, <2>1
<1> HIDE DEF full
<1> QED
  BY <1>1, <1>4, EndBuilds

\* Enrolled one by one: each time a builder at the next member, or a refusal.
LEMMA EnrolAllBuilds ==
  ASSUME setup \in Setups, NEW b0, NEW st0, NEW lv0, Building(b0, 0, No, st0, lv0),
         NEW sks, NEW attrs, NEW n, n = Len(setup.offers),
         \A i \in 1..n : /\ cfg.sk > 0 => sks[i] \in Seq(Nat)
                         /\ AttrTotal(cfg) > 0 => attrs[i] \in Seq(Nat),
         EnrolAll(cfg, b0, sks, attrs, n) # <<>>
  PROVE  \E st, lv : Building(EnrolAll(cfg, b0, sks, attrs, n), n, No, st, lv)
<1>0. n \in Nat
  BY SetupTypes
<1>1. PICK f : Stepped(f, b0, n, sks, attrs) /\ EnrolAll(cfg, b0, sks, attrs, n) = f[n]
  BY <1>0, EnrolAllUnfold
<1> DEFINE Is(k) == f[k] # <<>> => \E st, lv : Building(f[k], k, No, st, lv)
           T == {k \in Nat : k <= n => Is(k)}
<1>2. f[0] = b0
  BY <1>0, <1>1 DEF Stepped
<1>3. 0 \in T
  BY <1>2
<1>4. ASSUME NEW k \in Nat, k \in T PROVE k + 1 \in T
  <2> SUFFICES ASSUME k + 1 <= n, f[k + 1] # <<>>
               PROVE  \E st, lv : Building(f[k + 1], k + 1, No, st, lv)
    OBVIOUS
  <2>1. k + 1 \in 0..n /\ k + 1 \in 1..n /\ k + 1 # 0 /\ (k + 1) - 1 = k /\ k <= n /\ k < n
    BY <1>0
  <2>2. f[k + 1] = IF f[k] = <<>> THEN <<>> ELSE Enrol(cfg, f[k][1], sks, attrs, k + 1)
    BY <1>1, <2>1 DEF Stepped
  <2>3. f[k] # <<>> /\ f[k + 1] = Enrol(cfg, f[k][1], sks, attrs, k + 1)
    BY <2>2
  <2>4. PICK st, lv : Building(f[k], k, No, st, lv)
    BY <1>4, <2>1, <2>3
  <2> DEFINE b == f[k]
             x == f[k + 1]
             i == k + 1
  <2>5. /\ Building(b, k, No, st, lv) /\ k < Len(setup.offers) /\ i \in 1..n
        /\ x = Enrol(cfg, b[1], sks, attrs, i) /\ x # <<>>
    BY <2>1, <2>3, <2>4
  <2> HIDE DEF b, x, i
  <2>6. cfg.sk > 0 => sks[i] \in Seq(Nat)
    BY <2>5
  <2>7. AttrTotal(cfg) > 0 => attrs[i] \in Seq(Nat)
    BY <2>5
  <2>8. \E st2, lv2 : Building(x, k + 1, No, st2, lv2)
    BY <2>5, <2>6, <2>7, EnrolBuilds
  <2> QED
    BY <2>8 DEF x
<1> HIDE DEF T
<1>5. n \in T
  BY <1>0, <1>3, <1>4, NatSetInduction
<1> QED
  BY <1>0, <1>1, <1>5 DEF T

LEMMA RingBuildStands ==
  ASSUME setup \in Setups, NEW sks, NEW attrs, NEW n, n = Len(setup.offers),
         \A i \in 1..n : /\ cfg.sk > 0 => sks[i] \in Seq(Nat)
                         /\ AttrTotal(cfg) > 0 => attrs[i] \in Seq(Nat),
         RingBuild(cfg, sks, attrs, n) # <<>>
  PROVE  n <= Capacity(cfg) /\ \E r : RingBuild(cfg, sks, attrs, n) = <<r>> /\ Stands(r)
<1> DEFINE b0 == BuildInit(cfg, n)
           b == EnrolAll(cfg, b0, sks, attrs, n)
<1>1. b0 # <<>> /\ b # <<>> /\ RingBuild(cfg, sks, attrs, n) = BuildFinal(b[1])
  BY DEF RingBuild
<1>2. PICK st0, lv0 : Building(b0, 0, No, st0, lv0)
  BY <1>1, InitBuilds
<1> HIDE DEF b0
<1>3. PICK st, lv : Building(b, n, No, st, lv)
  BY <1>1, <1>2, EnrolAllBuilds
<1> HIDE DEF b
<1>4. n <= Capacity(cfg)
  BY <1>3 DEF Building
<1> QED
  BY <1>1, <1>3, <1>4, FinalStands

LEMMA RingBuildV1Stands ==
  ASSUME setup \in Setups, NEW sks, NEW n \in Nat, \A i \in 1..n : sks[i] \in Seq(Nat),
         RingBuildV1(cfg, sks, n) # <<>>
  PROVE  n <= Capacity(cfg) /\ \E r : RingBuildV1(cfg, sks, n) = <<r>> /\ Stands(r)
<1> DEFINE lv == [i \in 0..(Capacity(cfg) - 1) |-> IF i < n THEN LeafNode(OwfOf(cfg), sks[i + 1]) ELSE Vacant]
<1>1. ValidateV1(cfg) /\ n \in 1..Capacity(cfg) /\ RingBuildV1(cfg, sks, n) = <<RingOf(cfg, lv)>>
  BY DEF RingBuildV1
<1>2. cfg.depth_m >= 1 /\ cfg.depth_m \in Nat
  BY <1>1, SetupTypes DEF ValidateV1, Structural
<1>3. Laid(lv, cfg.depth_m)
  <2>1. ASSUME NEW i \in Recs(cfg.depth_m) PROVE lv[i] \in Seq(Nat) /\ lv[i] # Top
    <3>1. i \in 0..(Capacity(cfg) - 1) /\ i \in Nat
      BY <1>2 DEF Recs, Capacity
    <3>2. CASE i < n
      <4> DEFINE sk == sks[i + 1]
      <4>1. i + 1 \in 1..n
        BY <3>1, <3>2
      <4>2. sk \in Seq(Nat)
        BY <4>1
      <4>3. lv[i] = LeafNode(OwfOf(cfg), sk)
        BY <3>1, <3>2
      <4> HIDE DEF sk, lv
      <4> QED
        BY <4>2, <4>3, LeafLong, SetupTypes
    <3>3. CASE ~ i < n
      BY <3>1, <3>3, VacantTyped
    <3> QED
      BY <3>2, <3>3
  <2>2. lv = [i \in Recs(cfg.depth_m) |-> lv[i]]
    BY DEF Recs, Capacity
  <2> HIDE DEF lv
  <2> QED
    BY <2>1, <2>2 DEF Laid, Nodes, Recs
<1> HIDE DEF lv
<1>4. Stands(RingOf(cfg, lv))
  BY <1>2, <1>3, RingOfStands
<1>5. n <= Capacity(cfg)
  BY <1>1
<1> QED
  BY <1>1, <1>4, <1>5

\* The leaf of a member of a ring of epochs.
LEMMA EpochLeavesTyped ==
  ASSUME setup \in Setups, NEW p \in People
  PROVE  EpochLeaves(p) \in Nodes(cfg.depth_e)
<1> DEFINE d == cfg.depth_e
<1>1. \A e \in 0..(2 ^ d - 1) : EpochKeyOf(p, e) \in Seq(Nat)
  BY PeopleTypes
<1>2. EpochOf(cfg).mark \in Nat
  BY SetupTypes
<1>3. \A e \in 0..(2 ^ d - 1) : LeafNode(EpochOf(cfg), EpochKeyOf(p, e)) \in Seq(Nat)
  <2> TAKE e \in 0..(2 ^ d - 1)
  <2> DEFINE k == EpochKeyOf(p, e)
  <2>1. k \in Seq(Nat)
    BY <1>1
  <2> HIDE DEF k
  <2>2. LeafNode(EpochOf(cfg), k) \in Seq(Nat)
    BY <1>2, <2>1, LeafLong
  <2> QED
    BY <2>2 DEF k
<1> QED
  BY <1>3 DEF EpochLeaves, Nodes

LEMMA MemberLeafLong ==
  ASSUME setup \in Setups, V6(cfg), NEW p \in People
  PROVE  MemberLeaf(p) \in Seq(Nat) /\ MemberLeaf(p) # Top
<1> DEFINE head == Root(EpochOf(cfg), EpochLeaves(p), cfg.depth_e)
           attrs == AttrsOf(p)
           salt == IF SaltBytes(cfg) > 0 THEN SaltOf(p) ELSE <<>>
           id == IF cfg.opener = 1 THEN IdOf(p) ELSE <<>>
           pre == head \o attrs \o salt \o id
<1>1. cfg.depth_e >= 1 /\ cfg.depth_e \in Nat
  BY SetupTypes DEF V6
<1>2. head \in Seq(Nat) /\ Len(head) >= 2
  BY <1>1, EpochLeavesTyped, RootLong, SetupTypes
<1>3. attrs \in Seq(Nat) /\ salt \in Seq(Nat) /\ id \in Seq(Nat)
  BY PeopleTypes
<1>4. MemberLeaf(p) = IF OwfUsed(cfg) THEN LeafNode(OwfOf(cfg), pre) ELSE head
  BY DEF MemberLeaf, LeafOf
<1> HIDE DEF head, attrs, salt, id
<1>5. pre \in Seq(Nat)
  BY <1>2, <1>3, FourParts
<1> HIDE DEF pre
<1>6. LeafNode(OwfOf(cfg), pre) \in Seq(Nat) /\ LeafNode(OwfOf(cfg), pre) # Top
  BY <1>5, LeafLong, SetupTypes
<1>7. head # Top
  BY <1>2, LongCells
<1> QED
  BY <1>2, <1>4, <1>6, <1>7

LEMMA AtOnceStands ==
  ASSUME setup \in Setups, NEW who \in [1..Len(setup.offers) -> People], RingAtOnce(who) # <<>>
  PROVE  /\ Len(who) = Len(setup.offers) /\ Len(who) <= Capacity(cfg)
         /\ \E r : RingAtOnce(who) = <<r>> /\ Stands(r)
<1> DEFINE n == Len(who)
           sks == [i \in 1..n |-> SkOf(who[i])]
           attrs == IF AttrTotal(cfg) > 0 THEN [i \in 1..n |-> AttrsOf(who[i])] ELSE Absent
           lv == [i \in 0..(Capacity(cfg) - 1) |-> IF i < n THEN MemberLeaf(who[i + 1]) ELSE Vacant]
<1>1. n = Len(setup.offers) /\ n \in Nat
  <2>1. Len(setup.offers) \in Nat
    BY SetupTypes
  <2> QED
    BY <2>1
<1>2. \A i \in 1..n : who[i] \in People
  BY <1>1
<1>3. \A i \in 1..n : sks[i] \in Seq(Nat) /\ (AttrTotal(cfg) > 0 => attrs[i] \in Seq(Nat))
  BY <1>1, <1>2, PeopleTypes
<1>4. CASE setup.v1
  <2>1. RingAtOnce(who) = RingBuildV1(cfg, sks, n)
    BY <1>4 DEF RingAtOnce
  <2> HIDE DEF n, sks
  <2> QED
    BY <1>1, <1>3, <2>1, RingBuildV1Stands DEF n
<1>5. CASE ~ setup.v1 /\ ~ V6(cfg)
  <2>1. RingAtOnce(who) = RingBuild(cfg, sks, attrs, n)
    BY <1>5 DEF RingAtOnce
  <2> HIDE DEF n, sks, attrs
  <2> QED
    BY <1>1, <1>3, <2>1, RingBuildStands DEF n
<1>6. CASE ~ setup.v1 /\ V6(cfg)
  <2>1. Validate(cfg) /\ ~ n > Capacity(cfg) /\ RingAtOnce(who) = <<RingOf(cfg, lv)>>
    BY <1>6 DEF RingAtOnce
  <2>2. cfg.depth_m >= 1 /\ cfg.depth_m \in Nat
    BY <2>1, SetupTypes DEF Validate, Structural
  <2>3. Laid(lv, cfg.depth_m)
    <3>1. ASSUME NEW i \in Recs(cfg.depth_m) PROVE lv[i] \in Seq(Nat) /\ lv[i] # Top
      <4>1. i \in 0..(Capacity(cfg) - 1) /\ i \in Nat
        BY <2>2 DEF Recs, Capacity
      <4>2. CASE i < n
        <5> DEFINE p == who[i + 1]
        <5>1. i + 1 \in 1..n
          BY <1>1, <4>1, <4>2
        <5>2. p \in People
          BY <1>2, <5>1
        <5>3. lv[i] = MemberLeaf(p)
          BY <4>1, <4>2
        <5> HIDE DEF p, lv
        <5> QED
          BY <1>6, <5>2, <5>3, MemberLeafLong
      <4>3. CASE ~ i < n
        BY <4>1, <4>3, VacantTyped
      <4> QED
        BY <4>2, <4>3
    <3>2. lv = [i \in Recs(cfg.depth_m) |-> lv[i]]
      BY DEF Recs, Capacity
    <3> HIDE DEF lv
    <3> QED
      BY <3>1, <3>2 DEF Laid, Nodes, Recs
  <2>4. Capacity(cfg) \in Nat
    BY <2>2, PowerPositive DEF Capacity
  <2> HIDE DEF lv
  <2>5. Stands(RingOf(cfg, lv))
    BY <2>2, <2>3, RingOfStands
  <2>6. n <= Capacity(cfg)
    BY <1>1, <2>1, <2>4
  <2> QED
    BY <1>1, <2>1, <2>5, <2>6
<1> QED
  BY <1>4, <1>5, <1>6

-----------------------------------------------------------------------------
(* What the issuer has laid stays laid.                                     *)

LayInv == BuilderInv /\ RingInv

LEMMA SameLaid ==
  ASSUME setup' = setup
  PROVE  /\ cfg' = cfg
         /\ \A b, c, m, st, lv : Building(b, c, m, st, lv)' <=> Building(b, c, m, st, lv)
         /\ \A r : Stands(r)' <=> Stands(r)
<1>1. cfg' = cfg
  BY DEF cfg
<1>2. \A c, m, st, lv : BuilderOf(c, m, st, lv)' = BuilderOf(c, m, st, lv)
  BY <1>1 DEF BuilderOf
<1>3. \A b, c, m, st, lv : Building(b, c, m, st, lv)' <=> Building(b, c, m, st, lv)
  BY <1>1, <1>2 DEF Building
<1>4. \A r : Stands(r)' <=> Stands(r)
  BY <1>1 DEF Stands
<1> QED
  BY <1>1, <1>3, <1>4

LEMMA LayInit == Init => LayInv
<1> SUFFICES ASSUME Init PROVE LayInv
  OBVIOUS
<1>1. /\ setup \in Setups /\ ring = <<>> /\ tried = <<>> /\ heard = <<>> /\ revoked = {}
      /\ enrolled = <<>>
  BY DEF Init
<1>2. Len(enrolled) = 0 /\ enrolled \in Seq({})
  BY <1>1
<1>3. RingInv
  BY <1>1, <1>2 DEF RingInv
<1>4. builder # <<>> => builder = BuildInit(cfg, Len(setup.offers))
  BY DEF Init, cfg
<1>5. BuilderInv
  BY <1>1, <1>2, <1>4, InitBuilds DEF BuilderInv
<1> QED
  BY <1>3, <1>5 DEF LayInv

\* A builder that moves on before there is a ring.
LEMMA BuilderMoves ==
  ASSUME LayInv, UNCHANGED <<setup, ring, revoked, tried, heard>>, builder # <<>>,
         \E c, m, st, lv : Building(builder', c, m, st, lv) /\ Len(enrolled') = c,
         \E S : enrolled' \in Seq(S)
  PROVE  LayInv'
<1>1. ring = <<>> /\ tried = <<>> /\ heard = <<>> /\ revoked = {}
  BY DEF LayInv, RingInv
<1>2. RingInv'
  BY <1>1 DEF RingInv
<1>3. PICK b, c, m, st, lv : b = builder' /\ Building(b, c, m, st, lv) /\ Len(enrolled') = c
  OBVIOUS
<1>4. Building(b, c, m, st, lv)'
  BY <1>3, SameLaid
<1>5. BuilderInv'
  BY <1>3, <1>4 DEF BuilderInv, Building
<1> QED
  BY <1>2, <1>5 DEF LayInv

LEMMA BeginLays == ASSUME LayInv, Begin PROVE LayInv'
<1>1. /\ builder # <<>> /\ MemberBegin(builder[1]) # <<>> /\ builder' = MemberBegin(builder[1])
      /\ UNCHANGED <<setup, ring, revoked, tried, heard, enrolled>>
  BY DEF Begin, After
<1>2. PICK c, m, st, lv : Building(builder, c, m, st, lv) /\ Len(enrolled) = c
  BY <1>1 DEF LayInv, BuilderInv
<1>3. \E st2 : Building(builder', c, Yes, st2, lv)
  BY <1>1, <1>2, BeginBuilds
<1>4. \E S : enrolled' \in Seq(S)
  BY <1>1 DEF LayInv, RingInv
<1> QED
  BY <1>1, <1>2, <1>3, <1>4, BuilderMoves

LEMMA SetLays == ASSUME setup \in Setups, LayInv, Set PROVE LayInv'
<1>1. /\ builder # <<>> /\ builder[1].in_member
      /\ UNCHANGED <<setup, ring, revoked, tried, heard, enrolled>>
  BY DEF Set, After
<1>2. PICK f \in Fields, p \in setup.offers[builder[1].cursor + 1], ok \in BOOLEAN :
        MemberSet(builder[1], f, Data(f, p), ok) # <<>> /\ builder' = MemberSet(builder[1], f, Data(f, p), ok)
  BY DEF Set
<1>3. PICK c, m, st, lv : Building(builder, c, m, st, lv) /\ Len(enrolled) = c
  BY <1>1 DEF LayInv, BuilderInv
<1>4. builder[1].in_member = m /\ builder[1].cursor = c
  BY <1>3 DEF Building, BuilderOf
<1>5. m = Yes
  <2>1. m \in {Yes, No}
    BY <1>3 DEF Building
  <2>2. m # No
    BY <1>1, <1>4 DEF No
  <2> QED
    BY <2>1, <2>2
<1>6. c \in Nat /\ c < Len(setup.offers)
  BY <1>3, <1>5 DEF Building
<1>7. p \in People
  <2>1. setup.offers \in Seq(SUBSET People) /\ c + 1 \in 1..Len(setup.offers)
    BY <1>6, SetupTypes
  <2>2. setup.offers[c + 1] \subseteq People
    BY <2>1
  <2> QED
    BY <1>2, <1>4, <2>2
<1> DEFINE data == Data(f, p)
<1>8. data \in Seq(Nat) /\ builder' = MemberSet(builder[1], f, data, ok) /\ MemberSet(builder[1], f, data, ok) # <<>>
  BY <1>2, <1>7, PeopleTypes
<1> HIDE DEF data
<1>9. \E st2 : Building(builder', c, m, st2, lv)
  BY <1>3, <1>8, SetBuilds
<1>10. \E S : enrolled' \in Seq(S)
  BY <1>1 DEF LayInv, RingInv
<1> QED
  BY <1>1, <1>3, <1>9, <1>10, BuilderMoves

LEMMA EndLays == ASSUME setup \in Setups, LayInv, End PROVE LayInv'
<1>1. /\ builder # <<>> /\ MemberEnd(builder[1]) # <<>> /\ builder' = MemberEnd(builder[1])
      /\ enrolled' = Append(enrolled, said)
      /\ UNCHANGED <<setup, ring, revoked, tried, heard>>
  BY DEF End, After
<1>2. PICK c, m, st, lv : Building(builder, c, m, st, lv) /\ Len(enrolled) = c
  BY <1>1 DEF LayInv, BuilderInv
<1>3. \E lv2 : Building(builder', c + 1, No, st, lv2)
  BY <1>1, <1>2, EndBuilds
<1>4. PICK S : enrolled \in Seq(S)
  BY DEF LayInv, RingInv
<1>5. enrolled \in Seq(S \cup {said})
  BY <1>4
<1>6. enrolled' \in Seq(S \cup {said}) /\ Len(enrolled') = Len(enrolled) + 1
  BY <1>1, <1>5
<1> QED
  BY <1>1, <1>2, <1>3, <1>6, BuilderMoves

\* A ring that was handed out, or none.
LEMMA RingLaid ==
  ASSUME LayInv, UNCHANGED <<setup, revoked, tried, heard>>, ring = <<>>, builder' = <<>>,
         ring' = <<>> \/ ((\E r : ring' = <<r>> /\ Stands(r)) /\ Len(enrolled') <= Capacity(cfg)),
         \E S : enrolled' \in Seq(S)
  PROVE  LayInv'
<1>1. tried = <<>> /\ heard = <<>> /\ revoked = {}
  BY DEF LayInv, RingInv
<1>2. BuilderInv'
  BY DEF BuilderInv
<1>3. ring' # <<>> => Stands(ring'[1]) /\ Len(enrolled') <= Capacity(cfg)
  OBVIOUS
<1>4. ring' # <<>> => Stands(ring[1])' /\ Len(enrolled') <= Capacity(cfg')
  BY <1>3, SameLaid
<1>5. RingInv'
  BY <1>1, <1>4 DEF RingInv
<1> QED
  BY <1>2, <1>5 DEF LayInv

LEMMA FinalLays == ASSUME setup \in Setups, LayInv, Final PROVE LayInv'
<1>1. /\ builder # <<>> /\ ring' = BuildFinal(builder[1]) /\ builder' = <<>>
      /\ enrolled' = IF ring' = <<>> THEN <<>> ELSE enrolled
      /\ UNCHANGED <<setup, revoked, tried, heard>>
  BY DEF Final, After
<1>2. PICK c, m, st, lv : Building(builder, c, m, st, lv) /\ Len(enrolled) = c
  BY <1>1 DEF LayInv, BuilderInv
<1>3. ring = <<>>
  BY <1>1 DEF LayInv, RingInv
<1>4. \E S : enrolled' \in Seq(S)
  <2>1. <<>> \in Seq({})
    OBVIOUS
  <2> QED
    BY <1>1, <2>1 DEF LayInv, RingInv
<1>5. ring' # <<>> => \E r : ring' = <<r>> /\ Stands(r)
  BY <1>1, <1>2, FinalStands
<1>6. ring' # <<>> => Len(enrolled') <= Capacity(cfg)
  <2>1. c \in Nat /\ c <= Len(setup.offers) /\ Len(setup.offers) <= Capacity(cfg) /\ cfg.depth_m >= 1
    BY <1>2 DEF Building
  <2>2. Capacity(cfg) \in Nat /\ Len(setup.offers) \in Nat
    BY SetupTypes, PowerPositive DEF Capacity
  <2>3. c <= Capacity(cfg)
    BY <2>1, <2>2
  <2> QED
    BY <1>1, <1>2, <2>3
<1> QED
  BY <1>1, <1>3, <1>4, <1>5, <1>6, RingLaid

LEMMA AtOnceLays == ASSUME setup \in Setups, LayInv, BuildAtOnce PROVE LayInv'
<1>1. /\ ring = <<>> /\ builder' = <<>> /\ UNCHANGED <<setup, revoked, tried, heard>>
  BY DEF BuildAtOnce, After
<1>2. PICK who \in [1..Len(setup.offers) -> People] :
        /\ RingAtOnce(who) # <<>> /\ ring' = RingAtOnce(who)
        /\ enrolled' = [i \in 1..Len(who) |-> [f \in {"sk"} \cup (Wanted(cfg) \ {"sk"}) |-> who[i]]]
  BY DEF BuildAtOnce
<1>3. /\ Len(who) = Len(setup.offers) /\ Len(who) <= Capacity(cfg)
      /\ \E r : ring' = <<r>> /\ Stands(r)
  BY <1>2, AtOnceStands
<1> DEFINE n == Len(who)
<1>4. n \in Nat
  BY <1>3, SetupTypes
<1> HIDE DEF n
<1>5. enrolled' \in Seq({[f \in {"sk"} \cup (Wanted(cfg) \ {"sk"}) |-> who[i]] : i \in 1..n})
      /\ Len(enrolled') = n
  BY <1>2, <1>4 DEF n
<1>6. (\E S : enrolled' \in Seq(S)) /\ Len(enrolled') <= Capacity(cfg)
  BY <1>3, <1>5 DEF n
<1> QED
  BY <1>1, <1>3, <1>6, RingLaid

\* Steps after the ring was handed out.
LEMMA LaidKeeps ==
  ASSUME LayInv, UNCHANGED <<setup, builder, enrolled, ring>>,
         revoked' = revoked \/ \E i \in Slots : revoked' = {i},
         ring # <<>> \/ (revoked' = revoked /\ tried' \in {tried, <<>>} /\ heard' \in {heard, <<>>})
  PROVE  LayInv'
<1>1. BuilderInv'
  BY SameLaid DEF LayInv, BuilderInv
<1>2. Slots' = Slots
  BY DEF Slots
<1>3. RingInv'
  BY <1>2, SameLaid DEF LayInv, RingInv
<1> QED
  BY <1>1, <1>3 DEF LayInv

LEMMA LayNext == ASSUME Control, LayInv, [Next]_vars PROVE LayInv'
<1>0. setup \in Setups
  BY DEF Control
<1>1. CASE Begin
  BY <1>1, BeginLays
<1>2. CASE Set
  BY <1>0, <1>2, SetLays
<1>3. CASE End
  BY <1>0, <1>3, EndLays
<1>4. CASE Final
  BY <1>0, <1>4, FinalLays
<1>5. CASE BuildAtOnce
  BY <1>0, <1>5, AtOnceLays
<1>6. CASE Revoke
  BY <1>6, LaidKeeps DEF Revoke
<1>7. CASE Try
  BY <1>7, LaidKeeps DEF Try
<1>8. CASE UNCHANGED vars \/ SendBare \/ OpenPacker \/ Pack \/ Close \/ Spoil
  <2>1. UNCHANGED <<setup, builder, enrolled, ring, revoked, tried, heard>>
    BY <1>8 DEF vars, SendBare, OpenPacker, Pack, Close, Spoil
  <2> QED
    BY <2>1, LaidKeeps
<1>9. CASE Receive
  <2>1. UNCHANGED <<setup, builder, enrolled, ring, revoked>> /\ wire # <<>>
    BY <1>9 DEF Receive
  <2>2. tried # <<>>
    BY <2>1 DEF Control
  <2>3. ring # <<>>
    BY <2>2 DEF LayInv, RingInv
  <2> QED
    BY <2>1, <2>3, LaidKeeps
<1>10. CASE Settle
  <2>1. UNCHANGED <<setup, builder, enrolled, ring, revoked>> /\ tried' = <<>> /\ heard' = <<>>
    BY <1>10 DEF Settle
  <2> QED
    BY <2>1, LaidKeeps
<1> QED
  BY <1>1, <1>2, <1>3, <1>4, <1>5, <1>6, <1>7, <1>8, <1>9, <1>10 DEF Next

-----------------------------------------------------------------------------
(* What a signature fixes when it is made.                                  *)

\* The root that a record is absent from is none of those that stand for nothing.
LEMMA AbsenceRoot ==
  ASSUME NEW h, h.mark \in Nat, NEW adj, TypedRecord(adj), adj.siblings \in Seq(Seq(Nat)),
         NEW target, NEW root, NonMember(h, target, adj, root)
  PROVE  root # Vacant /\ root # Absent
<1> DEFINE data == RecordData(adj)
           node == LeafNode(h, data)
           sib == adj.siblings
<1>1. Walk(h, node, sib, adj.at) = root
  BY DEF NonMember
<1>2. data \in Seq(Nat)
  BY RecordCells
<1> HIDE DEF data
<1>3. node \in Seq(Nat) /\ Len(node) >= 2
  BY <1>2, LeafInjective
<1>4. sib \in Seq(Seq(Nat))
  OBVIOUS
<1> HIDE DEF node, sib
<1>5. Len(root) >= 2
  BY <1>1, <1>3, <1>4, WalkLong
<1> QED
  BY <1>5, LongCells

LEMMA SignFixes ==
  ASSUME NEW sk, NEW attrs, NEW path, NEW id, NEW rand, NEW pub, NEW m,
         Sign(cfg, Params, sk, attrs, path, id, rand, pub, m) # <<>>
  PROVE  LET proof == Sign(cfg, Params, sk, attrs, path, id, rand, pub, m)[1]
         IN  /\ proof.params = Params /\ proof.shape = ShapeOf(cfg)
             /\ FsSeed(cfg, pub, m) # <<>> /\ proof.fs = FsSeed(cfg, pub, m)[1]
             /\ FillInstance(cfg, pub) # <<>> /\ proof.inst = FillInstance(cfg, pub)[1]
             /\ cfg.depth_r > 0 => \E t : NonMember(cfg.tree, t, path.rev, pub.rev)
             /\ cfg.depth_s > 0 => cfg.scope > 0 /\ \E t : NonMember(cfg.tree, t, path.spent, pub.spent)
             /\ cfg.commit = 1 => pub.commitment = LeafNode(cfg.tree, id \o rand)
<1> DEFINE pinned == [path EXCEPT !.epoch = pub.epoch]
           pw == PackWitness(cfg, sk, attrs, pinned, id, rand)
           fi == FillInstance(cfg, pub)
           fs == FsSeed(cfg, pub, m)
           wit == pw[1]
           inst == fi[1]
           proof == Sign(cfg, Params, sk, attrs, path, id, rand, pub, m)
<1>1. /\ Builds(cfg) /\ pw # <<>> /\ fi # <<>> /\ fs # <<>>
      /\ proof = Prove(Params, cfg, fs[1], wit, inst)
  BY DEF Sign
<1>2. pinned.rev = path.rev /\ pinned.spent = path.spent
  OBVIOUS
<1> HIDE DEF pinned
<1>3. wit.rev = path.rev /\ wit.spent = path.spent /\ wit.id = id /\ wit.rand = rand
  BY <1>1, <1>2 DEF PackWitness
<1>4. /\ cfg.depth_r > 0 => inst.rev = pub.rev
      /\ cfg.depth_s > 0 => inst.spent = pub.spent
      /\ cfg.commit = 1 => inst.commitment = pub.commitment
  BY <1>1 DEF FillInstance
<1> HIDE DEF pw, fi, fs, wit, inst
<1>6. /\ Relation(cfg, wit, inst)
      /\ proof = <<[params |-> Params, shape |-> ShapeOf(cfg), fs |-> fs[1], inst |-> inst, wit |-> wit]>>
  BY <1>1 DEF Prove
<1> HIDE DEF proof
<1>7. /\ proof[1].params = Params /\ proof[1].shape = ShapeOf(cfg) /\ proof[1].fs = fs[1]
      /\ proof[1].inst = inst
  BY <1>6
<1>8. cfg.depth_r > 0 => \E t : NonMember(cfg.tree, t, path.rev, pub.rev)
  BY <1>3, <1>4, <1>6 DEF Relation
<1>9. cfg.depth_s > 0 => cfg.scope > 0 /\ \E t : NonMember(cfg.tree, t, path.spent, pub.spent)
  <2>1. cfg.depth_s > 0 => cfg.scope > 0
    BY <1>1 DEF Builds, Validate
  <2> QED
    BY <1>3, <1>4, <1>6, <2>1 DEF Relation
<1>10. cfg.commit = 1 => pub.commitment = LeafNode(cfg.tree, id \o rand)
  BY <1>3, <1>4, <1>6 DEF Relation, Committed
<1> QED
  BY <1>1, <1>7, <1>8, <1>9, <1>10 DEF proof, fs, fi, inst

LEMMA SignV1Fixes ==
  ASSUME NEW sk, NEW root, NEW path, NEW rev, NEW m, SignV1(cfg, Params, sk, root, path, rev, m) # <<>>
  PROVE  LET proof == SignV1(cfg, Params, sk, root, path, rev, m)[1]
         IN  /\ proof.params = Params /\ proof.shape = ShapeOf(cfg)
             /\ proof.fs = FsSeedV1(cfg, root, rev, m)
             /\ cfg.depth_r > 0 => \E t : NonMember(cfg.tree, t, path.rev, rev)
<1> DEFINE pw == PackWitnessV1(cfg, sk, path)
           wit == pw[1]
           fs == FsSeedV1(cfg, root, rev, m)
           inst == InstanceV1(cfg, root, rev)
           proof == SignV1(cfg, Params, sk, root, path, rev, m)
<1>1. /\ pw # <<>> /\ RelationV1(cfg, wit, root, rev)
      /\ proof = <<[params |-> Params, shape |-> ShapeOf(cfg), fs |-> fs, inst |-> inst, wit |-> wit]>>
  BY DEF SignV1
<1>2. wit.rev = path.rev
  BY <1>1 DEF PackWitnessV1
<1>3. cfg.depth_r > 0 => \E t : NonMember(cfg.tree, t, path.rev, rev)
  <2> HIDE DEF wit
  <2> QED
    BY <1>1, <1>2 DEF RelationV1
<1> HIDE DEF fs, inst, wit, proof
<1>4. proof[1].params = Params /\ proof[1].shape = ShapeOf(cfg) /\ proof[1].fs = fs
  BY <1>1
<1> QED
  BY <1>3, <1>4 DEF proof, fs

\* The leaves that were revoked.
LEMMA RevTyped ==
  ASSUME setup \in Setups, LayInv, ring # <<>>, NEW who \in {{}, revoked}
  PROVE  /\ RevValues(who) \in SUBSET Seq(Nat) /\ IsFiniteSet(RevValues(who)) /\ Top \notin RevValues(who)
         /\ who = {} <=> RevValues(who) = {}
<1>1. /\ Laid(ring[1].leaves, cfg.depth_m) /\ Len(enrolled) <= Capacity(cfg)
      /\ cfg.depth_m \in Nat /\ (\E S : enrolled \in Seq(S))
      /\ revoked = {} \/ \E i \in Slots : revoked = {i}
  BY SetupTypes DEF LayInv, RingInv, Stands
<1>2. CASE who = {}
  BY <1>2, FS_EmptySet DEF RevValues
<1>3. CASE who # {}
  <2>1. PICK i \in Slots : who = {i}
    BY <1>1, <1>3
  <2> DEFINE x == ring[1].leaves[i - 1]
  <2>2. RevValues(who) = {x}
    BY <2>1 DEF RevValues
  <2>3. i \in Nat /\ i >= 1 /\ i <= Len(enrolled) /\ Len(enrolled) \in Nat
    BY <1>1 DEF Slots
  <2>4. Capacity(cfg) \in Nat
    BY <1>1, PowerPositive DEF Capacity
  <2>5. i - 1 \in Recs(cfg.depth_m)
    BY <1>1, <2>3, <2>4 DEF Recs, Capacity
  <2>6. x \in Seq(Nat) /\ x # Top
    BY <1>1, <2>5 DEF Laid, Nodes, Recs
  <2> HIDE DEF x
  <2> QED
    BY <1>3, <2>2, <2>6, FS_Singleton
<1> QED
  BY <1>2, <1>3

LEMMA RevRecordTyped ==
  ASSUME setup \in Setups, LayInv, ring # <<>>, NEW r, cfg.depth_r > 0
  PROVE  TypedRecord(RevRecord(r)) /\ RevRecord(r).siblings \in Seq(Seq(Nat))
<1> DEFINE values == RevValues(RevOf(r))
           target == ring[1].leaves[r.slot - 1]
           vb == cfg.tree.node
           rev == Adjacent(values, cfg.depth_r, vb, target)
           at == IF r.dev = "adj" THEN rev.at + 2 ^ cfg.depth_r ELSE rev.at
           y == [rev EXCEPT !.at = at]
<1>1. RevOf(r) \in {{}, revoked}
  BY DEF RevOf
<1>2. values \in SUBSET Seq(Nat) /\ IsFiniteSet(values)
  BY <1>1, RevTyped
<1>3. RevRecord(r) = y
  BY DEF RevRecord
<1> HIDE DEF values, target, vb, at
<1>4. TypedAdjacent(rev, cfg.depth_r)
  BY <1>2, AdjacentTyped, SetupTypes
<1> HIDE DEF rev
<1>5. y.value = rev.value /\ y.next = rev.next /\ y.index = rev.index /\ y.siblings = rev.siblings
  OBVIOUS
<1> HIDE DEF y
<1> QED
  BY <1>3, <1>4, <1>5 DEF TypedAdjacent, TypedRecord

-----------------------------------------------------------------------------
(* What is tried is as it is stated.                                        *)

LEMMA NullifierLong ==
  ASSUME NEW show, Showable(show)
  PROVE  NullifierOf(show) \in Seq(Nat) /\ Len(NullifierOf(show)) >= 2
<1> DEFINE mark == IF NullifierBytes(cfg) = 16 THEN 80 ELSE 81
           k == KeyOf(show[1], show[3])
           s == <<show[2]>>
<1>1. show[1] \in People /\ show[2] \in Nat /\ show[3] \in (IF V6(cfg) THEN Epochs ELSE {0})
  BY DEF Showable
<1>2. k \in Seq(Nat) /\ s \in Seq(Nat)
  BY <1>1, KeyTyped
<1>3. NullifierOf(show) = Digest(mark, k \o s) /\ mark \in Nat
  BY DEF NullifierOf, Prf
<1> HIDE DEF mark, k, s
<1> DEFINE ks == k \o s
<1>4. ks \in Seq(Nat)
  BY <1>2, ConcatCells
<1> HIDE DEF ks
<1>5. Digest(mark, ks) \in Seq(Nat) /\ Len(Digest(mark, ks)) = Len(ks) + 2
  BY <1>3, <1>4, DigestInjective
<1>6. Len(ks) \in Nat
  BY <1>4
<1> QED
  BY <1>3, <1>5, <1>6 DEF ks

LEMMA RevStated ==
  ASSUME setup \in Setups, LayInv, ring # <<>>, cfg.depth_r > 0, NEW r, NEW rev,
         \E t : NonMember(cfg.tree, t, RevRecord(r), rev)
  PROVE  rev # Vacant /\ rev # Absent
<1> DEFINE adj == RevRecord(r)
           h == cfg.tree
<1>1. TypedRecord(adj) /\ adj.siblings \in Seq(Seq(Nat)) /\ h.mark \in Nat
  BY RevRecordTyped, SetupTypes
<1>2. PICK t : NonMember(h, t, adj, rev)
  OBVIOUS
<1> HIDE DEF adj, h
<1> QED
  BY <1>1, <1>2, AbsenceRoot

LEMMA SpentStated ==
  ASSUME setup \in Setups, NullifierInv, cfg.scope > 0, NEW r, NEW target, NEW root,
         \E t : NonMember(cfg.tree, t,
                  Adjacent(SpentOf(r), cfg.depth_s, NullifierBytes(cfg), target), root)
  PROVE  root # Vacant /\ root # Absent
<1> DEFINE values == SpentOf(r)
           d == cfg.depth_s
           vb == NullifierBytes(cfg)
           adj == Adjacent(values, d, vb, target)
           h == cfg.tree
<1>1. values \in SUBSET Seq(Nat) /\ IsFiniteSet(values)
  BY SpentTyped, FS_EmptySet DEF SpentOf
<1>2. cfg.tree.mark \in Nat /\ d \in Nat
  BY SetupTypes
<1>3. PICK t : NonMember(h, t, adj, root)
  OBVIOUS
<1> HIDE DEF values, d, vb
<1>4. TypedAdjacent(adj, d)
  BY <1>1, <1>2, AdjacentTyped
<1>5. TypedRecord(adj) /\ adj.siblings \in Seq(Seq(Nat)) /\ h.mark \in Nat
  BY <1>2, <1>4 DEF TypedAdjacent
<1> HIDE DEF adj, h
<1> QED
  BY <1>3, <1>5, AbsenceRoot

\* Whose id is sealed.
SealedId(r) == IF r.dev = "frame" THEN Other(r.who) ELSE Supplies(r)["id"]

LEMMA SealStated ==
  ASSUME setup \in Setups, cfg.opener = 1, NEW r, r.who \in People, NEW pub, pub = PubOf(r)
  PROVE  LET op == ArgusParams(cfg.set)
             s == Seals(IdOf(SealedId(r)))[1].s
         IN  /\ op.p \in Nat \ {0} /\ s \in Seq(Nat) /\ DOMAIN s = 1..BlockBytes(op)
             /\ pub.s = IF r.dev = "pad" THEN Padded(op, s) ELSE s
             /\ pub.ct # <<0>>
<1> DEFINE who == SealedId(r)
           sealed == Seals(IdOf(who))
           op == ArgusParams(cfg.set)
           s == sealed[1].s
           ct == sealed[1].ct
<1>1. who \in People
  <2>1. Other(r.who) \in People
    BY PeopleAssumption DEF Other
  <2> QED
    BY <2>1 DEF Supplies, Fields, SealedId
<1>2. pub.ct = ct /\ pub.s = IF r.dev = "pad" THEN Padded(op, s) ELSE s
  BY DEF PubOf, PubWith, On, SealedId
<1> HIDE DEF who
<1>3. sealed = Seal(cfg, Drawn, IdOf(who), OpenerIdBytes(cfg))
  BY DEF Seals
<1>4. op.p \in Nat \ {0} /\ sealed # <<>> /\ FitSection(s, ct) /\ ct # <<0>>
  <2>1. SealFits(cfg, who)
    BY <1>1, EnvelopeAssumption DEF cfg
  <2> QED
    BY <1>3, <2>1 DEF SealFits
<1>5. \E bits : s = PackBits(op, bits)
  BY <1>3, <1>4 DEF Seal, Syndrome
<1>6. DOMAIN s = 1..BlockBytes(op)
  <2> HIDE DEF s, op
  <2> QED
    BY <1>5 DEF PackBits
<1>7. s \in Seq(Nat)
  <2> HIDE DEF s, op, ct
  <2> QED
    BY <1>4 DEF FitSection
<1> QED
  BY <1>2, <1>4, <1>6, <1>7 DEF who

LEMMA PadBit ==
  ASSUME NEW a \in Nat, NEW k \in 1..7
  PROVE  (a + 2 ^ k) \div 2 ^ k # 0
<1>1. /\ 2 ^ 1 = 2 /\ 2 ^ 2 = 4 /\ 2 ^ 3 = 8 /\ 2 ^ 4 = 16 /\ 2 ^ 5 = 32 /\ 2 ^ 6 = 64 /\ 2 ^ 7 = 128
  BY PowerZero, PowerStep
<1> DEFINE x == 2 ^ k
<1>2. x \in {2, 4, 8, 16, 32, 64, 128}
  <2>1. k = 1 \/ k = 2 \/ k = 3 \/ k = 4 \/ k = 5 \/ k = 6 \/ k = 7
    OBVIOUS
  <2>2. CASE k = 1
    BY <1>1, <2>2
  <2>3. CASE k = 2
    BY <1>1, <2>3
  <2>4. CASE k = 3
    BY <1>1, <2>4
  <2>5. CASE k = 4
    BY <1>1, <2>5
  <2>6. CASE k = 5
    BY <1>1, <2>6
  <2>7. CASE k = 6
    BY <1>1, <2>7
  <2>8. CASE k = 7
    BY <1>1, <2>8
  <2> QED
    BY <2>1, <2>2, <2>3, <2>4, <2>5, <2>6, <2>7, <2>8
<1> HIDE DEF x
<1>3. (a + x) \div x # 0
  BY <1>2
<1> QED
  BY <1>3 DEF x

LEMMA PadStated ==
  ASSUME setup \in Setups, cfg.opener = 1, NEW r, r.who \in People, NEW pub, pub = PubOf(r),
         r.dev = "pad", ArgusParams(cfg.set).p % 8 # 0
  PROVE  ~ SCanonical(ArgusParams(cfg.set), pub.s)
<1> DEFINE op == ArgusParams(cfg.set)
           s == Seals(IdOf(SealedId(r)))[1].s
           B == BlockBytes(op)
           k == op.p % 8
           n == op.p
<1>1. n \in Nat \ {0} /\ s \in Seq(Nat) /\ DOMAIN s = 1..B /\ pub.s = Padded(op, s)
  BY SealStated
<1>2. B = (n + 7) \div 8 /\ k = n % 8 /\ k # 0
  BY DEF BlockBytes
<1> HIDE DEF s, B, k, n
<1>3. B \in Nat /\ B >= 1 /\ k \in 1..7
  BY <1>1, <1>2
<1>4. s[B] \in Nat
  BY <1>1, <1>3
<1>5. pub.s = [s EXCEPT ![B] = @ + 2 ^ k]
  BY <1>1 DEF Padded, B, k
<1>6. pub.s[B] = s[B] + 2 ^ k
  BY <1>1, <1>3, <1>5
<1>7. pub.s[B] \div 2 ^ k # 0
  BY <1>3, <1>4, <1>6, PadBit
<1> QED
  BY <1>2, <1>7 DEF SCanonical, B, k, n

\* The parts of a statement.
LEMMA PubParts ==
  ASSUME NEW r, NEW pub, pub = PubOf(r)
  PROVE  /\ pub.root = ring[1].root /\ pub.rev = RevRoot(RevOf(r)) /\ pub.spent = SpentRoot(SpentOf(r))
         /\ pub.scope = On(cfg.scope > 0, <<r.scope>>)
         /\ pub.bounds = (IF r.dev = "bounds" THEN setup.bounds \o <<0>> ELSE setup.bounds)
         /\ pub.epoch = r.epoch
BY DEF PubOf, PubWith

LEMMA BoundsStated ==
  ASSUME setup \in Setups, NEW r, NEW pub, pub = PubOf(r)
  PROVE  pub.bounds \in Seq(Nat)
<1> DEFINE b == setup.bounds
           zero == <<0>>
<1>1. b \in Seq(Nat) /\ zero \in Seq(Nat)
  BY SetupTypes
<1>2. pub.bounds = (IF r.dev = "bounds" THEN b \o zero ELSE b)
  BY PubParts
<1> HIDE DEF b, zero
<1>3. b \o zero \in Seq(Nat)
  BY <1>1, ConcatCells
<1> QED
  BY <1>1, <1>2, <1>3

LEMMA CommitmentStated ==
  ASSUME setup \in Setups, NEW p \in People, NEW q \in People
  PROVE  LeafNode(cfg.tree, IdOf(p) \o RandOf(q)) # Vacant
<1> DEFINE a == IdOf(p)
           b == RandOf(q)
           ab == a \o b
           h == cfg.tree
<1>1. a \in Seq(Nat) /\ b \in Seq(Nat) /\ h.mark \in Nat
  BY PeopleTypes, SetupTypes
<1> HIDE DEF a, b, h
<1>2. ab \in Seq(Nat)
  BY <1>1, ConcatCells
<1> HIDE DEF ab
<1>3. LeafNode(h, ab) \in Seq(Nat) /\ Len(LeafNode(h, ab)) >= 2
  BY <1>1, <1>2, LeafInjective
<1> DEFINE x == LeafNode(h, ab)
<1>4. Len(x) >= 2
  BY <1>3
<1> HIDE DEF x
<1>5. x # Vacant
  BY <1>4, LongCells
<1> QED
  BY <1>5 DEF x, ab, a, b, h

\* Who asks for a signature, and whose fields are used.
LEMMA SuppliedBy ==
  ASSUME NEW r, r.who \in People
  PROVE  \A f \in Fields : Supplies(r)[f] \in People
<1>1. Other(r.who) \in People
  BY PeopleAssumption DEF Other
<1> QED
  BY <1>1 DEF Supplies

LEMMA MadeFitsV1 ==
  ASSUME setup \in Setups, setup.v1, LayInv, ring # <<>>, NEW r, NEW pub, pub = PubOf(r),
         NEW path, path = PathOf(r, pub), NEW proof, proof = SignRequest(r, pub, path), proof # <<>>,
         NEW t, t.req = r, t.revoked = RevOf(r)
  PROVE  Fixed(proof[1], pub) /\ Stated(pub, t)
<1> DEFINE sk == SkOf(Supplies(r)["sk"])
<1>1. proof = SignV1(cfg, Params, sk, pub.root, path, pub.rev, "m")
  BY DEF SignRequest
<1> HIDE DEF sk
<1>2. /\ proof[1].params = Params /\ proof[1].shape = ShapeOf(cfg)
      /\ proof[1].fs = FsSeedV1(cfg, pub.root, pub.rev, "m")
      /\ cfg.depth_r > 0 => \E u : NonMember(cfg.tree, u, path.rev, pub.rev)
  <2>1. SignV1(cfg, Params, sk, pub.root, path, pub.rev, "m") # <<>>
    BY <1>1
  <2> DEFINE a == pub.root
             b == pub.rev
             m == "m"
  <2> HIDE DEF a, b, m
  <2>2. SignV1(cfg, Params, sk, a, path, b, m) # <<>>
    BY <2>1 DEF a, b, m
  <2>3. LET q == SignV1(cfg, Params, sk, a, path, b, m)[1]
        IN  /\ q.params = Params /\ q.shape = ShapeOf(cfg) /\ q.fs = FsSeedV1(cfg, a, b, m)
            /\ cfg.depth_r > 0 => \E u : NonMember(cfg.tree, u, path.rev, b)
    BY <2>2, SignV1Fixes
  <2> QED
    BY <1>1, <2>3 DEF a, b, m
<1>3. Fixed(proof[1], pub)
  BY <1>2 DEF Fixed
<1>4. pub.root = ring[1].root /\ pub.rev = RevRoot(t.revoked)
  <2>1. pub.root = ring[1].root /\ pub.rev = RevRoot(RevOf(r))
    BY PubParts
  <2> QED
    BY <2>1
<1>5. cfg.depth_r > 0 => pub.rev # Vacant /\ pub.rev # Absent
  <2>1. cfg.depth_r > 0 => path.rev = RevRecord(r)
    BY DEF PathOf, On
  <2> QED
    BY <1>2, <2>1, RevStated
<1>6. ~ cfg.depth_r > 0 => pub.rev = Absent
  BY <1>4 DEF RevRoot, On
<1>7. Stated(pub, t)
  BY <1>4, <1>5, <1>6 DEF Stated
<1> QED
  BY <1>3, <1>7

LEMMA MadeFits ==
  ASSUME setup \in Setups, ~ setup.v1, LayInv, NullifierInv, ring # <<>>,
         NEW r, Requested(r), r.dev \in setup.devs, NEW pub, pub = PubOf(r),
         NEW path, path = PathOf(r, pub), NEW proof, proof = SignRequest(r, pub, path), proof # <<>>,
         NEW t, t.req = r, t.revoked = RevOf(r)
  PROVE  Fixed(proof[1], pub) /\ Stated(pub, t)
<1> DEFINE sk == On(cfg.sk > 0, SkOf(Supplies(r)["sk"]))
           attrs == On(cfg.schema # <<>>, AttrsOf(Supplies(r)["attrs"]))
           id == IdOf(Supplies(r)["id"])
           rand == RandOf(r.who)
           m == "m"
           made == Sign(cfg, Params, sk, attrs, path, id, rand, pub, m)
<1>1. proof = made
  BY DEF SignRequest
<1> HIDE DEF sk, attrs, id, rand, m
<1>2. /\ proof[1].params = Params /\ proof[1].shape = ShapeOf(cfg)
      /\ FsSeed(cfg, pub, m) # <<>> /\ proof[1].fs = FsSeed(cfg, pub, m)[1]
      /\ FillInstance(cfg, pub) # <<>> /\ proof[1].inst = FillInstance(cfg, pub)[1]
      /\ cfg.depth_r > 0 => \E u : NonMember(cfg.tree, u, path.rev, pub.rev)
      /\ cfg.depth_s > 0 => cfg.scope > 0 /\ \E u : NonMember(cfg.tree, u, path.spent, pub.spent)
      /\ cfg.commit = 1 => pub.commitment = LeafNode(cfg.tree, id \o rand)
  BY <1>1, SignFixes
<1> HIDE DEF made
<1>3. Fixed(proof[1], pub)
  BY <1>2 DEF Fixed, m
<1>4. /\ pub.root = ring[1].root /\ pub.rev = RevRoot(t.revoked) /\ pub.spent = SpentRoot(SpentOf(r))
      /\ pub.epoch = r.epoch
  <2>1. /\ pub.root = ring[1].root /\ pub.rev = RevRoot(RevOf(r)) /\ pub.spent = SpentRoot(SpentOf(r))
        /\ pub.epoch = r.epoch
    BY PubParts
  <2> QED
    BY <2>1
<1>5. cfg.depth_r > 0 => pub.rev # Vacant /\ pub.rev # Absent
  <2>1. cfg.depth_r > 0 => path.rev = RevRecord(r)
    BY DEF PathOf, On
  <2> QED
    BY <1>2, <2>1, RevStated
<1>6. ~ cfg.depth_r > 0 => pub.rev = Absent
  BY <1>4 DEF RevRoot, On
<1>7. cfg.depth_s > 0 => cfg.scope > 0 /\ pub.spent # Vacant
  <2> SUFFICES ASSUME cfg.depth_s > 0 PROVE cfg.scope > 0 /\ pub.spent # Vacant
    OBVIOUS
  <2> DEFINE target == pub.T
             root == pub.spent
  <2>1. path.spent = Adjacent(SpentOf(r), cfg.depth_s, NullifierBytes(cfg), target)
    BY RequestParts
  <2>2. cfg.scope > 0 /\ \E u : NonMember(cfg.tree, u, path.spent, root)
    BY <1>2
  <2> HIDE DEF target, root
  <2>3. root # Vacant
    BY <2>1, <2>2, SpentStated
  <2> QED
    BY <2>2, <2>3 DEF root
<1>8. cfg.commit = 1 => pub.commitment # Vacant
  <2>1. Supplies(r)["id"] \in People /\ r.who \in People
    BY SuppliedBy DEF Requested, Fields
  <2>2. LeafNode(cfg.tree, id \o rand) # Vacant
    BY <2>1, CommitmentStated DEF id, rand
  <2> QED
    BY <1>2, <2>2
<1>9. cfg.scope > 0 => pub.scope = <<r.scope>> /\ pub.T # <<0>>
  <2> SUFFICES ASSUME cfg.scope > 0 PROVE pub.scope = <<r.scope>> /\ pub.T # <<0>>
    OBVIOUS
  <2>1. BoundTo([proof |-> proof[1], pub |-> pub], r)
    BY SignedIsBound
  <2>2. pub.T = NullifierOf(ShowOf(r))
    BY <2>1 DEF BoundTo
  <2>3. Len(pub.T) >= 2
    BY <2>2, ShowOfRequest, NullifierLong
  <2>4. pub.T # Vacant
    BY <2>3, LongCells
  <2> QED
    BY <2>4, PubParts DEF On, Vacant
<1>10. pub.bounds \in Seq(Nat)
  BY BoundsStated
<1>11. cfg.opener = 1 => pub.ct # <<0>>
  BY SealStated DEF Requested
<1>12. r.dev = "pad" => ~ SCanonical(ArgusParams(cfg.set), pub.s)
  <2>1. r.dev = "pad" => cfg.opener = 1 /\ ArgusParams(cfg.set).p % 8 # 0
    BY SetupTypes DEF Differ, cfg
  <2> QED
    BY <2>1, PadStated DEF Requested
<1>13. Stated(pub, t)
  BY <1>4, <1>5, <1>6, <1>7, <1>8, <1>9, <1>10, <1>11, <1>12 DEF Stated
<1> QED
  BY <1>3, <1>13

-----------------------------------------------------------------------------
(* What was tried and made stays so until there is a verdict.               *)

AttemptInv == TriedInv /\ MadeInv

LEMMA SameStated ==
  ASSUME UNCHANGED <<setup, ring, accepted>>
  PROVE  /\ \A proof, pub : Fixed(proof, pub)' <=> Fixed(proof, pub)
         /\ \A pub, t : Stated(pub, t)' <=> Stated(pub, t)
<1>1. cfg' = cfg
  BY DEF cfg
<1>2. \A proof, pub : Fixed(proof, pub)' <=> Fixed(proof, pub)
  BY <1>1 DEF Fixed
<1>3. \A who : RevRoot(who)' = RevRoot(who)
  BY <1>1 DEF RevRoot, RevValues, RootOf
<1>4. \A r : SpentRoot(SpentOf(r))' = SpentRoot(SpentOf(r))
  BY <1>1 DEF SpentRoot, SpentOf, SpentValues, RootOf
<1>5. \A pub, t : Stated(pub, t)' <=> Stated(pub, t)
  <2> TAKE pub, t
  <2>1. RevRoot(t.revoked)' = RevRoot(t.revoked) /\ SpentRoot(SpentOf(t.req))' = SpentRoot(SpentOf(t.req))
    BY <1>3, <1>4
  <2> QED
    BY <1>1, <2>1 DEF Stated
<1> QED
  BY <1>2, <1>5

LEMMA AttemptKeeps ==
  ASSUME AttemptInv, UNCHANGED <<setup, ring, sig, tried, accepted>>, revoked' = revoked \/ revoked = {}
  PROVE  AttemptInv'
<1>1. TriedInv'
  <2> SUFFICES ASSUME tried # <<>> PROVE TriedInv'
    BY DEF TriedInv
  <2>1. /\ Requested(tried[1].req) /\ tried[1].req.dev \in setup.devs
        /\ tried[1].revoked \in {{}, revoked}
        /\ tried[1].shows = IF tried[1].req.dev = "stale" THEN {} ELSE {a.show : a \in accepted}
    BY DEF AttemptInv, TriedInv
  <2>2. Requested(tried[1].req)'
    BY <2>1 DEF Requested
  <2>3. tried[1].revoked \in {{}, revoked'}
    BY <2>1
  <2> QED
    BY <2>1, <2>2, <2>3 DEF TriedInv
<1>2. MadeInv'
  <2> SUFFICES ASSUME sig # <<>> PROVE MadeInv'
    BY DEF MadeInv
  <2>1. Fixed(sig[1].proof, sig[1].pub) /\ Stated(sig[1].pub, tried[1])
    BY DEF AttemptInv, MadeInv
  <2>2. PICK proof, pub, t : proof = sig[1].proof /\ pub = sig[1].pub /\ t = tried[1]
    OBVIOUS
  <2>3. Fixed(proof, pub)' /\ Stated(pub, t)'
    BY <2>1, <2>2, SameStated
  <2>4. proof = sig'[1].proof /\ pub = sig'[1].pub /\ t = tried'[1]
    BY <2>2
  <2> QED
    BY <2>3, <2>4 DEF MadeInv
<1> QED
  BY <1>1, <1>2 DEF AttemptInv

LEMMA AttemptDrops ==
  ASSUME AttemptInv, UNCHANGED <<setup, ring, accepted, revoked>>, sig' = <<>>, tried' = tried \/ tried' = <<>>
  PROVE  AttemptInv'
<1>1. MadeInv'
  BY DEF MadeInv
<1>2. TriedInv'
  <2> SUFFICES ASSUME tried # <<>>, tried' = tried PROVE TriedInv'
    BY DEF TriedInv
  <2>1. /\ Requested(tried[1].req) /\ tried[1].req.dev \in setup.devs
        /\ tried[1].revoked \in {{}, revoked}
        /\ tried[1].shows = IF tried[1].req.dev = "stale" THEN {} ELSE {a.show : a \in accepted}
    BY DEF AttemptInv, TriedInv
  <2>2. Requested(tried[1].req)'
    BY <2>1 DEF Requested
  <2> QED
    BY <2>1, <2>2 DEF TriedInv
<1> QED
  BY <1>1, <1>2 DEF AttemptInv

\* Without a ring nothing was tried.
LEMMA AttemptNone == ASSUME sig' = <<>>, tried' = <<>> PROVE AttemptInv'
BY DEF AttemptInv, TriedInv, MadeInv

LEMMA AttemptTry == ASSUME Control, LayInv, NullifierInv, Try PROVE AttemptInv'
<1>1. PICK who \in People, slot \in Slots, dev \in Devs, scope \in setup.scopes, epoch \in setup.epochs :
        LET r == [who |-> who, slot |-> slot, dev |-> dev, scope |-> scope, epoch |-> epoch]
        IN  \E pub \in {PubOf(r)} : \E proof \in {SignRequest(r, pub, PathOf(r, pub))} :
              /\ sig' = IF proof = <<>> THEN <<>> ELSE <<[proof |-> proof[1], pub |-> pub]>>
              /\ tried' = <<[req |-> r, made |-> proof # <<>>, revoked |-> RevOf(r),
                             shows |-> IF dev = "stale" THEN {} ELSE {a.show : a \in accepted}]>>
  BY DEF Try
<1> DEFINE r == [who |-> who, slot |-> slot, dev |-> dev, scope |-> scope, epoch |-> epoch]
           pub == PubOf(r)
           path == PathOf(r, pub)
           proof == SignRequest(r, pub, path)
           shows == IF dev = "stale" THEN {} ELSE {a.show : a \in accepted}
           t == [req |-> r, made |-> proof # <<>>, revoked |-> RevOf(r), shows |-> shows]
           s == [proof |-> proof[1], pub |-> pub]
<1>2. r.who = who /\ r.scope = scope /\ r.epoch = epoch /\ r.dev = dev
  OBVIOUS
<1>3. sig' = (IF proof = <<>> THEN <<>> ELSE <<s>>) /\ tried' = <<t>>
  BY <1>1
<1>4. ring # <<>> /\ UNCHANGED <<setup, ring, revoked, accepted>>
  BY DEF Try
<1> HIDE DEF r
<1>5. Requested(r) /\ r.dev \in setup.devs
  <2>1. dev \in setup.devs
    BY DEF Devs
  <2> QED
    BY <1>2, <2>1 DEF Requested
<1>6. t.req = r /\ t.revoked = RevOf(r) /\ t.shows = shows /\ s.proof = proof[1] /\ s.pub = pub
  OBVIOUS
<1>7. pub = PubOf(r) /\ path = PathOf(r, pub) /\ proof = SignRequest(r, pub, path)
  OBVIOUS
<1> HIDE DEF pub, path, proof, shows, t, s
<1>8. proof # <<>> => Fixed(proof[1], pub) /\ Stated(pub, t)
  <2>1. setup \in Setups
    BY DEF Control
  <2>2. setup.v1 /\ proof # <<>> => Fixed(proof[1], pub) /\ Stated(pub, t)
    BY <1>4, <1>6, <1>7, <2>1, MadeFitsV1
  <2>3. ~ setup.v1 /\ proof # <<>> => Fixed(proof[1], pub) /\ Stated(pub, t)
    BY <1>4, <1>5, <1>6, <1>7, <2>1, MadeFits
  <2> QED
    BY <2>2, <2>3
<1>9. MadeInv'
  <2> SUFFICES ASSUME proof # <<>> PROVE MadeInv'
    BY <1>3 DEF MadeInv
  <2>1. PICK p, u, w : p = proof[1] /\ u = pub /\ w = t
    OBVIOUS
  <2>2. Fixed(p, u)' /\ Stated(u, w)'
    BY <1>4, <1>8, <2>1, SameStated
  <2>3. sig'[1].proof = p /\ sig'[1].pub = u /\ tried'[1] = w
    BY <1>3, <1>6, <2>1
  <2> QED
    BY <2>2, <2>3 DEF MadeInv
<1>10. TriedInv'
  <2>1. tried'[1] = t
    BY <1>3
  <2>2. Requested(r)' /\ r.dev \in setup'.devs
    BY <1>4, <1>5 DEF Requested
  <2>3. t.revoked \in {{}, revoked'}
    BY <1>4, <1>6 DEF RevOf
  <2>4. t.shows = IF r.dev = "stale" THEN {} ELSE {a.show : a \in accepted'}
    BY <1>2, <1>4, <1>6 DEF shows
  <2> QED
    BY <1>6, <2>1, <2>2, <2>3, <2>4 DEF TriedInv
<1> QED
  BY <1>9, <1>10 DEF AttemptInv

LEMMA AttemptNext ==
  ASSUME Control, LayInv, NullifierInv, AttemptInv, [Next]_vars
  PROVE  AttemptInv'
<1> USE DEF After
<1>0. /\ ring = <<>> => tried = <<>>
      /\ sig # <<>> => tried # <<>>
      /\ ring # <<>> => builder = <<>>
  BY DEF Control, LayInv, RingInv
<1>1. CASE UNCHANGED vars
  BY <1>1, AttemptKeeps DEF vars
<1>2. CASE Begin
  BY <1>2, AttemptKeeps DEF Begin
<1>3. CASE Set
  BY <1>3, AttemptKeeps DEF Set
<1>4. CASE End
  BY <1>4, AttemptKeeps DEF End
<1>5. CASE Final
  <2>1. UNCHANGED <<sig, tried>> /\ builder # <<>>
    BY <1>5 DEF Final
  <2> QED
    BY <1>0, <2>1, AttemptNone
<1>6. CASE BuildAtOnce
  <2>1. UNCHANGED <<sig, tried>> /\ ring = <<>>
    BY <1>6 DEF BuildAtOnce
  <2> QED
    BY <1>0, <2>1, AttemptNone
<1>7. CASE Revoke
  BY <1>7, AttemptKeeps DEF Revoke
<1>8. CASE Try
  BY <1>8, AttemptTry
<1>9. CASE SendBare
  BY <1>9, AttemptKeeps DEF SendBare
<1>10. CASE OpenPacker
  BY <1>10, AttemptKeeps DEF OpenPacker
<1>11. CASE Pack
  BY <1>11, AttemptKeeps DEF Pack
<1>12. CASE Close
  <2>1. UNCHANGED <<setup, ring, tried, accepted, revoked>> /\ (sig' = sig \/ sig' = <<>>)
    BY <1>12 DEF Close
  <2> QED
    BY <2>1, AttemptKeeps, AttemptDrops
<1>13. CASE Spoil
  BY <1>13, AttemptKeeps DEF Spoil
<1>14. CASE Receive
  BY <1>14, AttemptNone DEF Receive
<1>15. CASE Settle
  <2>1. sig' = <<>> /\ tried' = <<>>
    BY <1>15 DEF Settle
  <2> QED
    BY <2>1, AttemptNone
<1> QED
  BY <1>1, <1>2, <1>3, <1>4, <1>5, <1>6, <1>7, <1>8, <1>9, <1>10, <1>11, <1>12, <1>13, <1>14, <1>15
     DEF Next

-----------------------------------------------------------------------------
(* What a verdict says of the statement that was asked.                     *)

RevIn(rev) == IF rev = Absent THEN Vacant ELSE rev
Refused == {"protocol", "cfg", "params", "message"}

LEMMA SeedAgrees ==
  ASSUME NEW c, NEW x, NEW y, NEW m, NEW n, FsSeed(c, x, m) # <<>>, FsSeed(c, y, n) # <<>>,
         FsSeed(c, x, m)[1] = FsSeed(c, y, n)[1]
  PROVE  /\ m = n /\ x.root = y.root /\ RevIn(x.rev) = RevIn(y.rev)
         /\ V6(c) => x.epoch = y.epoch
         /\ c.opener = 1 => x.s = y.s
<1> DEFINE f == FsSeed(c, x, m)[1]
           g == FsSeed(c, y, n)[1]
<1>1. /\ f.m = m /\ f.root = x.root /\ f.rev = RevIn(x.rev)
      /\ "epoch" \in Bitmap(c) => f.epoch = <<x.epoch>>
      /\ "opener" \in Bitmap(c) => f.opener = <<x.s, x.ct>>
  BY DEF FsSeed, RevIn
<1>2. /\ g.m = n /\ g.root = y.root /\ g.rev = RevIn(y.rev)
      /\ "epoch" \in Bitmap(c) => g.epoch = <<y.epoch>>
      /\ "opener" \in Bitmap(c) => g.opener = <<y.s, y.ct>>
  BY DEF FsSeed, RevIn
<1>3. (V6(c) => "epoch" \in Bitmap(c)) /\ (c.opener = 1 => "opener" \in Bitmap(c))
  BY DEF Bitmap
<1>4. f = g
  OBVIOUS
<1> HIDE DEF f, g
<1> QED
  BY <1>1, <1>2, <1>3, <1>4

LEMMA InstanceAgrees ==
  ASSUME NEW c, NEW x, NEW y, FillInstance(c, x) # <<>>, FillInstance(c, y) # <<>>,
         FillInstance(c, x)[1] = FillInstance(c, y)[1]
  PROVE  /\ c.commit = 1 => x.commitment = y.commitment
         /\ c.scope > 0 => x.scope = y.scope /\ x.T = y.T
         /\ BoundsTotal(c) > 0 => x.bounds = y.bounds /\ Len(x.bounds) = BoundsTotal(c)
         /\ c.depth_s > 0 => x.spent = y.spent
         /\ c.opener = 1 => x.ct = y.ct
<1> DEFINE f == FillInstance(c, x)[1]
           g == FillInstance(c, y)[1]
<1>1. /\ c.commit = 1 => f.commitment = x.commitment
      /\ c.scope > 0 => f.scope = x.scope /\ f.T = x.T
      /\ BoundsTotal(c) > 0 => f.bounds = x.bounds /\ Len(x.bounds) = BoundsTotal(c)
      /\ c.depth_s > 0 => f.spent = x.spent
      /\ c.opener = 1 => f.ct = x.ct
  BY DEF FillInstance
<1>2. /\ c.commit = 1 => g.commitment = y.commitment
      /\ c.scope > 0 => g.scope = y.scope /\ g.T = y.T
      /\ BoundsTotal(c) > 0 => g.bounds = y.bounds
      /\ c.depth_s > 0 => g.spent = y.spent
      /\ c.opener = 1 => g.ct = y.ct
  BY DEF FillInstance
<1>3. f = g
  OBVIOUS
<1> HIDE DEF f, g
<1> QED
  BY <1>1, <1>2, <1>3

\* Asked and signed agree, of whichever version.
AgreeV1(pub, asked) == asked.root = pub.root /\ RevIn(asked.rev) = RevIn(pub.rev)
Agree(pub, asked) ==
  /\ AgreeV1(pub, asked)
  /\ V6(cfg) => asked.epoch = pub.epoch
  /\ cfg.commit = 1 => asked.commitment = pub.commitment
  /\ cfg.scope > 0 => asked.scope = pub.scope /\ asked.T = pub.T
  /\ BoundsTotal(cfg) > 0 => asked.bounds = pub.bounds /\ Len(pub.bounds) = BoundsTotal(cfg)
  /\ cfg.depth_s > 0 => asked.spent = pub.spent
  /\ cfg.opener = 1 => /\ asked.s = pub.s /\ asked.ct = pub.ct /\ asked.s # Absent
                       /\ SCanonical(ArgusParams(cfg.set), asked.s)

LEMMA VerdictV1 ==
  ASSUME setup \in Setups, setup.v1, NEW proof, proof = sig[1].proof, NEW pub, Fixed(proof, pub),
         NEW dev \in setup.asks, Verdict(dev), NEW asked, asked = AskedOf(dev, TagOf(cfg, Params))
  PROVE  dev \notin Refused /\ AgreeV1(pub, asked)
<1> DEFINE vcfg == IF dev = "cfg" THEN setup.alt ELSE cfg
           params == IF dev = "params" THEN "other" ELSE Params
           m == IF dev = "message" THEN "m2" ELSE "m"
           a == AskedOf(dev, TagOf(vcfg, Params))
<1>1. setup.v1 = TRUE
  BY SetupTypes
<1>2. Judges(dev, vcfg, params, m, a)
  BY DEF Verdict
<1>3. /\ proof.params = Params /\ proof.shape = ShapeOf(cfg)
      /\ proof.fs = FsSeedV1(cfg, pub.root, pub.rev, "m")
  BY DEF Fixed
<1>4. dev # "cfg" => a = asked /\ vcfg = cfg
  OBVIOUS
<1>5. /\ params = Params => dev # "params"
      /\ m = "m" => dev # "message"
      /\ dev = "cfg" => vcfg = setup.alt
  BY DEF Params
<1> HIDE DEF vcfg, params, m, a
<1>6. dev # "protocol"
  <2> SUFFICES ASSUME dev = "protocol" PROVE FALSE
    OBVIOUS
  <2>1. Verify(proof, vcfg, params, a, m)
    BY <1>1, <1>2 DEF Judges
  <2>2. FsSeed(vcfg, a, m) # <<>> /\ proof.fs = FsSeed(vcfg, a, m)[1]
    BY <2>1 DEF Verify, VerifyProof
  <2>3. proof.fs.protocol = "RS"
    BY <2>2, SeedParts
  <2>4. proof.fs.protocol = "RSv1"
    BY <1>3 DEF FsSeedV1
  <2> QED
    BY <2>3, <2>4
<1>7. VerifyV1(proof, vcfg, params, a.root, a.rev, m)
  BY <1>1, <1>2, <1>6 DEF Judges
<1>8. /\ proof.params = params /\ proof.shape = ShapeOf(vcfg)
      /\ proof.fs = FsSeedV1(vcfg, a.root, a.rev, m)
  BY <1>7 DEF VerifyV1
<1>9. /\ FingerprintV1(vcfg) = FingerprintV1(cfg) /\ a.root = pub.root /\ RevIn(a.rev) = RevIn(pub.rev)
      /\ m = "m"
  BY <1>3, <1>8 DEF FsSeedV1, RevIn
<1>10. dev # "cfg"
  <2> SUFFICES ASSUME dev = "cfg" PROVE FALSE
    OBVIOUS
  <2>1. \/ ShapeOf(setup.alt) # ShapeOf(cfg)
        \/ FingerprintV1(setup.alt) # FingerprintV1(cfg)
    BY <1>1, SetupTypes DEF Differ, cfg
  <2> QED
    BY <1>3, <1>5, <1>8, <1>9, <2>1
<1>11. dev \notin Refused
  BY <1>3, <1>5, <1>6, <1>8, <1>9, <1>10 DEF Refused
<1> QED
  BY <1>4, <1>9, <1>10, <1>11 DEF AgreeV1

LEMMA VerdictFits ==
  ASSUME setup \in Setups, ~ setup.v1, NEW proof, proof = sig[1].proof, NEW pub, Fixed(proof, pub),
         NEW dev \in setup.asks, Verdict(dev), NEW asked, asked = AskedOf(dev, TagOf(cfg, Params))
  PROVE  dev \notin Refused /\ Agree(pub, asked)
<1> DEFINE vcfg == IF dev = "cfg" THEN setup.alt ELSE cfg
           params == IF dev = "params" THEN "other" ELSE Params
           m == IF dev = "message" THEN "m2" ELSE "m"
           n == "m"
           a == AskedOf(dev, TagOf(vcfg, Params))
<1>1. setup.v1 = FALSE
  BY SetupTypes
<1>2. Judges(dev, vcfg, params, m, a)
  BY DEF Verdict
<1>3. /\ proof.params = Params /\ proof.shape = ShapeOf(cfg)
      /\ FsSeed(cfg, pub, n) # <<>> /\ proof.fs = FsSeed(cfg, pub, n)[1]
      /\ FillInstance(cfg, pub) # <<>> /\ proof.inst = FillInstance(cfg, pub)[1]
  BY <1>1 DEF Fixed
<1>4. dev # "cfg" => a = asked /\ vcfg = cfg
  OBVIOUS
<1>5. /\ params = Params => dev # "params"
      /\ m = n => dev # "message"
      /\ dev = "cfg" => vcfg = setup.alt
  BY DEF Params
<1> HIDE DEF vcfg, params, m, n, a
<1>6. dev # "protocol"
  <2> SUFFICES ASSUME dev = "protocol" PROVE FALSE
    OBVIOUS
  <2>1. VerifyV1(proof, vcfg, params, a.root, a.rev, m)
    BY <1>1, <1>2 DEF Judges
  <2>2. proof.fs = FsSeedV1(vcfg, a.root, a.rev, m)
    BY <2>1 DEF VerifyV1
  <2>3. proof.fs.protocol = "RSv1"
    BY <2>2 DEF FsSeedV1
  <2>4. proof.fs.protocol = "RS"
    BY <1>3, SeedParts
  <2> QED
    BY <2>3, <2>4
<1>7. Verify(proof, vcfg, params, a, m)
  BY <1>1, <1>2, <1>6 DEF Judges
<1>8. /\ FsSeed(vcfg, a, m) # <<>> /\ FillInstance(vcfg, a) # <<>>
      /\ proof.params = params /\ proof.shape = ShapeOf(vcfg)
      /\ proof.fs = FsSeed(vcfg, a, m)[1] /\ proof.inst = FillInstance(vcfg, a)[1]
      /\ vcfg.opener = 1 => a.s # Absent /\ SCanonical(ArgusParams(vcfg.set), a.s)
  BY <1>7 DEF Verify, VerifyProof
<1>9. dev # "cfg"
  <2> SUFFICES ASSUME dev = "cfg" PROVE FALSE
    OBVIOUS
  <2>1. \/ ShapeOf(setup.alt) # ShapeOf(cfg)
        \/ Fingerprint(setup.alt) # Fingerprint(cfg)
    BY <1>1, SetupTypes DEF Differ, cfg
  <2>2. proof.fs.fp = Fingerprint(cfg) /\ proof.fs.fp = Fingerprint(vcfg)
    BY <1>3, <1>8, SeedParts
  <2> QED
    BY <1>3, <1>5, <1>8, <2>1, <2>2
<1>10. /\ FsSeed(cfg, pub, n) # <<>> /\ FsSeed(cfg, asked, m) # <<>>
       /\ FsSeed(cfg, asked, m)[1] = FsSeed(cfg, pub, n)[1]
       /\ FillInstance(cfg, pub) # <<>> /\ FillInstance(cfg, asked) # <<>>
       /\ FillInstance(cfg, pub)[1] = FillInstance(cfg, asked)[1]
       /\ proof.params = params
       /\ cfg.opener = 1 => asked.s # Absent /\ SCanonical(ArgusParams(cfg.set), asked.s)
  BY <1>3, <1>4, <1>8, <1>9
<1>11. /\ m = n /\ asked.root = pub.root /\ RevIn(asked.rev) = RevIn(pub.rev)
       /\ V6(cfg) => asked.epoch = pub.epoch
       /\ cfg.opener = 1 => asked.s = pub.s
  <2> DEFINE c == cfg
  <2>1. /\ FsSeed(c, pub, n) # <<>> /\ FsSeed(c, asked, m) # <<>>
        /\ FsSeed(c, asked, m)[1] = FsSeed(c, pub, n)[1]
    BY <1>10
  <2> HIDE DEF c
  <2>2. /\ m = n /\ asked.root = pub.root /\ RevIn(asked.rev) = RevIn(pub.rev)
        /\ V6(c) => asked.epoch = pub.epoch
        /\ c.opener = 1 => asked.s = pub.s
    BY <2>1, SeedAgrees
  <2> QED
    BY <2>2 DEF c
<1>12. /\ cfg.commit = 1 => asked.commitment = pub.commitment
       /\ cfg.scope > 0 => asked.scope = pub.scope /\ asked.T = pub.T
       /\ BoundsTotal(cfg) > 0 => asked.bounds = pub.bounds /\ Len(pub.bounds) = BoundsTotal(cfg)
       /\ cfg.depth_s > 0 => asked.spent = pub.spent
       /\ cfg.opener = 1 => asked.ct = pub.ct
  BY <1>10, InstanceAgrees
<1>13. dev \notin Refused
  BY <1>3, <1>5, <1>6, <1>9, <1>10, <1>11 DEF Refused
<1> QED
  BY <1>10, <1>11, <1>12, <1>13 DEF Agree, AgreeV1

-----------------------------------------------------------------------------
(* What was accepted was asked as it was signed.                            *)

LEMMA AskedParts ==
  ASSUME NEW dev, NEW tag, NEW asked, asked = AskedOf(dev, tag), NEW pub, pub = sig[1].pub
  PROVE  /\ dev = "root" => asked.root = Vacant
         /\ dev = "rev" => asked.rev = IF cfg.depth_r > 0 THEN Vacant ELSE Top
         /\ dev # "rev" => asked.rev = RevRoot(revoked)
         /\ asked.spent = SpentRoot(SpentValues)
         /\ dev = "commitment" => asked.commitment = Vacant
         /\ dev = "scope" => asked.scope = <<0>>
         /\ dev = "T" => asked.T = <<0>>
         /\ dev = "bounds" => asked.bounds = [i \in DOMAIN pub.bounds |-> pub.bounds[i] + 1]
         /\ dev = "epoch" => asked.epoch = 1 - pub.epoch
         /\ dev = "ct" /\ asked.s # Absent => asked.ct = <<0>>
<1>1. /\ dev = "root" => asked.root = Vacant
      /\ dev = "rev" => asked.rev = IF cfg.depth_r > 0 THEN Vacant ELSE Top
      /\ dev # "rev" => asked.rev = RevRoot(revoked)
      /\ asked.spent = SpentRoot(SpentValues)
  BY DEF AskedOf
<1>2. /\ dev = "commitment" => asked.commitment = Vacant
      /\ dev = "scope" => asked.scope = <<0>>
      /\ dev = "T" => asked.T = <<0>>
  BY DEF AskedOf
<1>3. /\ dev = "bounds" => asked.bounds = [i \in DOMAIN pub.bounds |-> pub.bounds[i] + 1]
      /\ dev = "epoch" => asked.epoch = 1 - pub.epoch
  BY DEF AskedOf
<1>4. dev = "ct" /\ asked.s # Absent => asked.ct = <<0>>
  BY DEF AskedOf, On
<1> QED
  BY <1>1, <1>2, <1>3, <1>4

\* The tree of nobody and the tree of somebody have different roots.
LEMMA RevAgrees ==
  ASSUME setup \in Setups, LayInv, ring # <<>>, cfg.depth_r > 0, NEW who \in {{}, revoked},
         RevRoot(who) = RevRoot(revoked), RevRoot(who) # Vacant
  PROVE  who = revoked
<1> SUFFICES ASSUME who = {}, revoked # {} PROVE FALSE
  OBVIOUS
<1> DEFINE h == cfg.tree
           d == cfg.depth_r
           vb == cfg.tree.node
           values == RevValues(revoked)
           x == RevRoot(who)
<1>1. RevValues(who) = {} /\ values # {}
  BY RevTyped
<1>2. values \in SUBSET Seq(Nat) /\ IsFiniteSet(values) /\ Top \notin values
  BY RevTyped
<1>3. h.mark \in Nat /\ d \in Nat
  BY SetupTypes
<1>4. x = Given(ImtRoot(h, RecordsOf(RevValues(who), d), d, vb))
  BY DEF RevRoot, RootOf, On
<1>5. x = Given(ImtRoot(h, RecordsOf(values, d), d, vb))
  BY DEF RevRoot, RootOf, On
<1>6. x # Vacant
  OBVIOUS
<1> HIDE DEF h, d, vb, values, x
<1>7. x = Given(ImtRoot(h, RecordsOf({}, d), d, vb))
  BY <1>1, <1>4
<1>8. x # Given(ImtRoot(h, RecordsOf(values, d), d, vb))
  BY <1>1, <1>2, <1>3, <1>6, <1>7, RootsDiffer
<1> QED
  BY <1>5, <1>8

LEMMA SpentAgrees ==
  ASSUME setup \in Setups, NullifierInv, cfg.scope > 0, cfg.depth_s > 0,
         SpentRoot({}) = SpentRoot(SpentValues), SpentRoot({}) # Vacant
  PROVE  accepted = {}
<1> SUFFICES ASSUME accepted # {} PROVE FALSE
  OBVIOUS
<1> DEFINE h == cfg.tree
           d == cfg.depth_s
           vb == NullifierBytes(cfg)
           values == SpentValues
           x == SpentRoot({})
<1>1. values # {} /\ values \in SUBSET Seq(Nat) /\ IsFiniteSet(values)
  BY SpentTyped DEF SpentValues
<1>2. Top \notin values
  <2> SUFFICES ASSUME NEW a \in accepted, a.T = Top PROVE FALSE
    BY DEF SpentValues
  <2>1. Showable(a.show) /\ a.T = NullifierOf(a.show)
    BY DEF NullifierInv
  <2> DEFINE y == NullifierOf(a.show)
  <2>2. Len(y) >= 2
    BY <2>1, NullifierLong
  <2> HIDE DEF y
  <2>3. y # Top
    BY <2>2, LongCells
  <2> QED
    BY <2>1, <2>3 DEF y
<1>3. h.mark \in Nat /\ d \in Nat
  BY SetupTypes
<1>4. x = Given(ImtRoot(h, RecordsOf({}, d), d, vb))
  BY DEF SpentRoot, RootOf, On
<1>5. x = Given(ImtRoot(h, RecordsOf(values, d), d, vb))
  BY DEF SpentRoot, RootOf, On
<1>6. x # Vacant
  OBVIOUS
<1> HIDE DEF h, d, vb, values, x
<1> QED
  BY <1>1, <1>2, <1>3, <1>4, <1>5, <1>6, RootsDiffer

\* The root of a ring is not the one a verifier may mistake for it.
LEMMA RingRoot ==
  ASSUME setup \in Setups, LayInv, ring # <<>>
  PROVE  ring[1].root # Vacant
<1> DEFINE h == cfg.tree
           d == cfg.depth_m
           leaves == ring[1].leaves
           x == ring[1].root
<1>1. d >= 1 /\ leaves \in Nodes(d) /\ x = Root(h, leaves, d)
  BY DEF LayInv, RingInv, Stands, Laid
<1>2. h.mark \in Nat /\ d \in Nat
  BY SetupTypes
<1> HIDE DEF h, d, leaves, x
<1>3. Len(x) >= 2
  BY <1>1, <1>2, RootLong
<1>4. x # Vacant
  BY <1>3, LongCells
<1> QED
  BY <1>4 DEF x

\* What is asked of the two roots.
LEMMA RootsAsked ==
  ASSUME setup \in Setups, LayInv, ring # <<>>, NEW t, t.revoked \in {{}, revoked},
         NEW pub, pub = sig[1].pub, Stated(pub, t), NEW dev, NEW tag, NEW asked, asked = AskedOf(dev, tag),
         AgreeV1(pub, asked)
  PROVE  dev # "root" /\ dev # "rev" /\ (cfg.depth_r > 0 => t.revoked = revoked)
<1>1. /\ pub.root = ring[1].root
      /\ cfg.depth_r > 0 => pub.rev = RevRoot(t.revoked) /\ pub.rev # Vacant /\ pub.rev # Absent
      /\ ~ cfg.depth_r > 0 => pub.rev = Absent
  BY DEF Stated
<1>2. asked.root = pub.root /\ RevIn(asked.rev) = RevIn(pub.rev)
  BY DEF AgreeV1
<1>3. /\ dev = "root" => asked.root = Vacant
      /\ dev = "rev" => asked.rev = IF cfg.depth_r > 0 THEN Vacant ELSE Top
      /\ dev # "rev" => asked.rev = RevRoot(revoked)
  BY DEF AskedOf
<1>4. dev # "root"
  BY <1>1, <1>2, <1>3, RingRoot
<1>5. Top # Vacant /\ Top # Absent /\ Vacant # Absent
  BY DEF Top, Vacant, Absent
<1>6. dev # "rev"
  <2>1. CASE cfg.depth_r > 0
    BY <1>1, <1>2, <1>3, <1>5, <2>1 DEF RevIn
  <2>2. CASE ~ cfg.depth_r > 0
    BY <1>1, <1>2, <1>3, <1>5, <2>2 DEF RevIn
  <2> QED
    BY <2>1, <2>2
<1>7. cfg.depth_r > 0 => t.revoked = revoked
  <2> SUFFICES ASSUME cfg.depth_r > 0 PROVE t.revoked = revoked
    OBVIOUS
  <2> DEFINE who == t.revoked
  <2>1. asked.rev = RevRoot(revoked) /\ asked.rev = pub.rev
    BY <1>1, <1>2, <1>3, <1>6 DEF RevIn
  <2>2. RevRoot(who) = RevRoot(revoked) /\ RevRoot(who) # Vacant /\ who \in {{}, revoked}
    BY <1>1, <2>1
  <2> HIDE DEF who
  <2>3. who = revoked
    BY <2>2, RevAgrees
  <2> QED
    BY <2>3 DEF who
<1> QED
  BY <1>4, <1>6, <1>7

\* What a verifier may ask otherwise is refused.
LEMMA AsksRefused ==
  ASSUME setup \in Setups, ~ setup.v1, NEW t, Requested(t.req),
         NEW pub, pub = sig[1].pub, Stated(pub, t), NEW dev \in setup.asks, NEW tag,
         NEW asked, asked = AskedOf(dev, tag), Agree(pub, asked)
  PROVE  /\ dev # "commitment" /\ dev # "ct"
         /\ dev \in {"scope", "T"} => cfg.scope = 0
         /\ dev = "bounds" => setup.bounds = <<>>
         /\ dev = "epoch" => ~ V6(cfg)
         /\ t.req.dev # "pad" \/ cfg.opener # 1
<1>1. /\ "commitment" \in setup.asks => cfg.commit = 1
      /\ "scope" \in setup.asks => 0 \notin setup.scopes
      /\ "ct" \in setup.asks => cfg.opener = 1
  BY SetupTypes DEF Differ, cfg
<1>2. /\ cfg.scope \in Nat /\ setup.epochs \subseteq Nat
      /\ setup.bounds \in Seq(Nat) /\ Len(setup.bounds) = BoundsTotal(cfg)
  BY SetupTypes
<1>3. /\ cfg.commit = 1 => pub.commitment # Vacant
      /\ cfg.scope > 0 => pub.scope = <<t.req.scope>> /\ pub.T # <<0>>
      /\ pub.bounds \in Seq(Nat) /\ pub.epoch = t.req.epoch
      /\ cfg.opener = 1 => pub.ct # <<0>>
      /\ t.req.dev = "pad" => ~ SCanonical(ArgusParams(cfg.set), pub.s)
  BY DEF Stated
<1>4. /\ V6(cfg) => asked.epoch = pub.epoch
      /\ cfg.commit = 1 => asked.commitment = pub.commitment
      /\ cfg.scope > 0 => asked.scope = pub.scope /\ asked.T = pub.T
      /\ BoundsTotal(cfg) > 0 => asked.bounds = pub.bounds /\ Len(pub.bounds) = BoundsTotal(cfg)
      /\ cfg.opener = 1 => /\ asked.s = pub.s /\ asked.ct = pub.ct /\ asked.s # Absent
                           /\ SCanonical(ArgusParams(cfg.set), asked.s)
  BY DEF Agree
<1>5. /\ dev = "commitment" => asked.commitment = Vacant
      /\ dev = "scope" => asked.scope = <<0>>
      /\ dev = "T" => asked.T = <<0>>
      /\ dev = "bounds" => asked.bounds = [i \in DOMAIN pub.bounds |-> pub.bounds[i] + 1]
      /\ dev = "epoch" => asked.epoch = 1 - pub.epoch
      /\ dev = "ct" /\ asked.s # Absent => asked.ct = <<0>>
  BY DEF AskedOf, On
<1>6. dev # "commitment"
  BY <1>1, <1>3, <1>4, <1>5
<1>7. dev # "ct"
  BY <1>1, <1>3, <1>4, <1>5
<1>8. dev \in {"scope", "T"} => cfg.scope = 0
  <2> SUFFICES ASSUME dev \in {"scope", "T"}, cfg.scope > 0 PROVE FALSE
    BY <1>2
  <2>1. dev = "T"
    <3> SUFFICES ASSUME dev = "scope" PROVE FALSE
      OBVIOUS
    <3>1. t.req.scope \in setup.scopes /\ 0 \notin setup.scopes
      BY <1>1 DEF Requested
    <3>2. <<t.req.scope>> = <<0>>
      BY <1>3, <1>4, <1>5
    <3> QED
      BY <3>1, <3>2
  <2> QED
    BY <1>3, <1>4, <1>5, <2>1
<1>9. dev = "bounds" => setup.bounds = <<>>
  <2> SUFFICES ASSUME dev = "bounds", setup.bounds # <<>> PROVE FALSE
    OBVIOUS
  <2> DEFINE b == pub.bounds
             n == BoundsTotal(cfg)
  <2>1. n \in Nat /\ n > 0
    <3> DEFINE s == setup.bounds
    <3>1. s \in Seq(Nat) /\ s # <<>> /\ n = Len(s)
      BY <1>2
    <3> HIDE DEF s, n
    <3> QED
      BY <3>1
  <2>2. b \in Seq(Nat) /\ Len(b) = n /\ [i \in DOMAIN b |-> b[i] + 1] = b
    BY <1>3, <1>4, <1>5, <2>1
  <2> HIDE DEF b, n
  <2>3. 1 \in DOMAIN b /\ b[1] \in Nat
    BY <2>1, <2>2
  <2>4. b[1] + 1 = b[1]
    BY <2>2, <2>3
  <2> QED
    BY <2>3, <2>4
<1>10. dev = "epoch" => ~ V6(cfg)
  <2> SUFFICES ASSUME dev = "epoch", V6(cfg) PROVE FALSE
    OBVIOUS
  <2> DEFINE e == pub.epoch
  <2>1. e \in Nat
    BY <1>2, <1>3 DEF Requested
  <2>2. e = 1 - e
    BY <1>4, <1>5
  <2> HIDE DEF e
  <2> QED
    BY <2>1, <2>2
<1>11. t.req.dev # "pad" \/ cfg.opener # 1
  BY <1>3, <1>4
<1> QED
  BY <1>6, <1>7, <1>8, <1>9, <1>10, <1>11

LEMMA VerdictSound ==
  ASSUME Control, LayInv, NullifierInv, AttemptInv, sig # <<>>, NEW dev \in setup.asks, Verdict(dev)
  PROVE  /\ AskHarmless(dev) /\ tried[1].req.dev # "pad"
         /\ cfg.depth_r > 0 => tried[1].revoked = revoked
         /\ cfg.depth_s > 0 => tried[1].shows = {a.show : a \in accepted}
<1> DEFINE t == tried[1]
           r == t.req
           proof == sig[1].proof
           pub == sig[1].pub
           tag == TagOf(cfg, Params)
           asked == AskedOf(dev, tag)
<1>1. setup \in Setups /\ tried # <<>> /\ ring # <<>>
  BY DEF Control, LayInv, RingInv
<1>2. /\ Requested(r) /\ r.dev \in setup.devs /\ t.revoked \in {{}, revoked}
      /\ t.shows = IF r.dev = "stale" THEN {} ELSE {a.show : a \in accepted}
  BY <1>1 DEF AttemptInv, TriedInv
<1>3. Fixed(proof, pub) /\ Stated(pub, t)
  BY DEF AttemptInv, MadeInv
<1>4. setup.asks \subseteq AsksV1 \cup {"commitment", "scope", "T", "bounds", "epoch", "ct"}
  BY <1>1, SetupTypes DEF Differ
<1>5. setup.v1 => cfg.depth_s = 0 /\ cfg.opener = 0 /\ setup.asks \subseteq AsksV1
  BY <1>1, SetupTypes
<1>6. r.dev = "pad" => cfg.opener = 1
  BY <1>1, <1>2, SetupTypes DEF Differ, cfg
<1>7. proof = sig[1].proof /\ pub = sig[1].pub /\ asked = AskedOf(dev, TagOf(cfg, Params))
      /\ asked = AskedOf(dev, tag)
  OBVIOUS
<1> HIDE DEF proof, pub, asked, tag, t, r
<1>8. CASE setup.v1
  <2>1. dev \notin Refused /\ AgreeV1(pub, asked)
    BY <1>1, <1>3, <1>7, <1>8, VerdictV1
  <2>2. dev # "root" /\ dev # "rev" /\ (cfg.depth_r > 0 => t.revoked = revoked)
    BY <1>1, <1>2, <1>3, <1>7, <2>1, RootsAsked
  <2>3. dev = "none"
    BY <1>5, <1>8, <2>1, <2>2 DEF AsksV1, Refused
  <2>4. r.dev # "pad" /\ ~ cfg.depth_s > 0
    BY <1>5, <1>6, <1>8
  <2> QED
    BY <2>2, <2>3, <2>4 DEF AskHarmless, t, r
<1>9. CASE ~ setup.v1
  <2>1. dev \notin Refused /\ Agree(pub, asked)
    BY <1>1, <1>3, <1>7, <1>9, VerdictFits
  <2>2. dev # "root" /\ dev # "rev" /\ (cfg.depth_r > 0 => t.revoked = revoked)
    <3>1. AgreeV1(pub, asked)
      BY <2>1 DEF Agree
    <3> QED
      BY <1>1, <1>2, <1>3, <1>7, <3>1, RootsAsked
  <2>3. /\ dev # "commitment" /\ dev # "ct"
        /\ dev \in {"scope", "T"} => cfg.scope = 0
        /\ dev = "bounds" => setup.bounds = <<>>
        /\ dev = "epoch" => ~ V6(cfg)
        /\ r.dev # "pad" \/ cfg.opener # 1
    <3>1. Requested(t.req) /\ r = t.req
      BY <1>2 DEF r
    <3> QED
      BY <1>1, <1>3, <1>7, <1>9, <2>1, <3>1, AsksRefused
  <2>4. AskHarmless(dev)
    BY <1>4, <2>1, <2>2, <2>3 DEF AskHarmless, AsksV1, Refused
  <2>5. cfg.depth_s > 0 => t.shows = {a.show : a \in accepted}
    <3> SUFFICES ASSUME cfg.depth_s > 0, r.dev = "stale" PROVE t.shows = {a.show : a \in accepted}
      BY <1>2
    <3>1. cfg.scope > 0 /\ pub.spent # Vacant /\ pub.spent = SpentRoot(SpentOf(r))
      BY <1>3, <1>9 DEF Stated, r
    <3>2. SpentOf(r) = {}
      BY DEF SpentOf
    <3>3. asked.spent = SpentRoot(SpentValues) /\ asked.spent = pub.spent
      BY <1>7, <2>1 DEF Agree, AskedOf
    <3>4. accepted = {}
      BY <1>1, <3>1, <3>2, <3>3, SpentAgrees
    <3> QED
      BY <1>2, <3>4
  <2> QED
    BY <1>6, <2>2, <2>3, <2>4, <2>5 DEF t, r
<1> QED
  BY <1>8, <1>9

LEMMA ReceiveSound ==
  ASSUME Control, LayInv, NullifierInv, AttemptInv, Receive
  PROVE  VerifiesOnlyWhatWasSigned'
<1>0. PICK dev \in setup.asks : \E ok \in {Verdict(dev)} :
        heard' = <<[dev |-> dev, ok |-> ok, damage |-> damage, was |-> tried[1],
                    calls |-> calls, revoked |-> revoked, shows |-> {a.show : a \in accepted}]>>
  BY DEF Receive
<1>1. PICK ok \in {Verdict(dev)} :
        heard' = <<[dev |-> dev, ok |-> ok, damage |-> damage, was |-> tried[1],
                    calls |-> calls, revoked |-> revoked, shows |-> {a.show : a \in accepted}]>>
  BY <1>0
<1>2. sig # <<>> /\ UNCHANGED <<setup, enrolled>>
  BY DEF Receive, Control
<1>3. cfg' = cfg
  BY <1>2 DEF cfg
<1> DEFINE h == [dev |-> dev, ok |-> ok, damage |-> damage, was |-> tried[1],
                 calls |-> calls, revoked |-> revoked, shows |-> {a.show : a \in accepted}]
<1>4. h.dev = dev /\ h.ok = ok /\ h.was = tried[1] /\ h.revoked = revoked
      /\ h.shows = {a.show : a \in accepted}
  OBVIOUS
<1>5. heard' = <<h>>
  BY <1>1
<1> HIDE DEF h
<1>6. h.ok => SameStatement(h)
  <2> SUFFICES ASSUME h.ok PROVE SameStatement(h)
    OBVIOUS
  <2>1. Verdict(dev)
    BY <1>1, <1>4
  <2>2. /\ AskHarmless(dev) /\ tried[1].req.dev # "pad"
        /\ cfg.depth_r > 0 => tried[1].revoked = revoked
        /\ cfg.depth_s > 0 => tried[1].shows = {a.show : a \in accepted}
    BY <1>2, <2>1, VerdictSound
  <2> QED
    BY <1>4, <2>2 DEF SameStatement
<1>7. \A x : SameStatement(x)' <=> SameStatement(x)
  BY <1>2, <1>3 DEF SameStatement, AskHarmless
<1>8. PICK x : x = h
  OBVIOUS
<1>9. \A i \in DOMAIN heard' : heard'[i] = x
  BY <1>5, <1>8
<1>10. x.ok => SameStatement(x)'
  BY <1>6, <1>7, <1>8
<1> QED
  BY <1>9, <1>10 DEF VerifiesOnlyWhatWasSigned

\* A verdict that was right stays right.
LEMMA SoundKeeps ==
  ASSUME VerifiesOnlyWhatWasSigned, UNCHANGED setup, heard' = heard \/ heard' = <<>>,
         enrolled' = enrolled \/ heard' = <<>>
  PROVE  VerifiesOnlyWhatWasSigned'
<1>1. CASE heard' = <<>>
  <2>1. DOMAIN heard' = {}
    BY <1>1
  <2> QED
    BY <2>1 DEF VerifiesOnlyWhatWasSigned
<1>2. CASE heard' = heard /\ enrolled' = enrolled
  <2>1. cfg' = cfg
    BY DEF cfg
  <2>2. \A x : SameStatement(x)' <=> SameStatement(x)
    BY <1>2, <2>1 DEF SameStatement, AskHarmless
  <2>3. ASSUME NEW i \in DOMAIN heard', heard'[i].ok PROVE SameStatement(heard[i])'
    <3>1. SameStatement(heard[i])
      BY <1>2, <2>3 DEF VerifiesOnlyWhatWasSigned
    <3>2. PICK x : x = heard[i]
      OBVIOUS
    <3>3. SameStatement(x)' /\ heard'[i] = x
      BY <1>2, <2>2, <3>1, <3>2
    <3> QED
      BY <3>3
  <2> QED
    BY <2>3 DEF VerifiesOnlyWhatWasSigned
<1> QED
  BY <1>1, <1>2

LEMMA SoundNext ==
  ASSUME Control, LayInv, NullifierInv, AttemptInv, VerifiesOnlyWhatWasSigned, [Next]_vars
  PROVE  VerifiesOnlyWhatWasSigned'
<1> USE DEF After
<1>0. (ring = <<>> => heard = <<>>) /\ (ring # <<>> => builder = <<>>)
  BY DEF LayInv, RingInv
<1>1. CASE UNCHANGED vars
  BY <1>1, SoundKeeps DEF vars
<1>2. CASE Begin
  BY <1>2, SoundKeeps DEF Begin
<1>3. CASE Set
  BY <1>3, SoundKeeps DEF Set
<1>4. CASE End
  BY <1>0, <1>4, SoundKeeps DEF End
<1>5. CASE Final
  BY <1>0, <1>5, SoundKeeps DEF Final
<1>6. CASE BuildAtOnce
  BY <1>0, <1>6, SoundKeeps DEF BuildAtOnce
<1>7. CASE Revoke
  BY <1>7, SoundKeeps DEF Revoke
<1>8. CASE Try
  BY <1>8, SoundKeeps DEF Try
<1>9. CASE SendBare
  BY <1>9, SoundKeeps DEF SendBare
<1>10. CASE OpenPacker
  BY <1>10, SoundKeeps DEF OpenPacker
<1>11. CASE Pack
  BY <1>11, SoundKeeps DEF Pack
<1>12. CASE Close
  BY <1>12, SoundKeeps DEF Close
<1>13. CASE Spoil
  BY <1>13, SoundKeeps DEF Spoil
<1>14. CASE Receive
  BY <1>14, ReceiveSound
<1>15. CASE Settle
  BY <1>15, SoundKeeps DEF Settle
<1> QED
  BY <1>1, <1>2, <1>3, <1>4, <1>5, <1>6, <1>7, <1>8, <1>9, <1>10, <1>11, <1>12, <1>13, <1>14, <1>15
     DEF Next

SoundInv == LayInv /\ AttemptInv /\ VerifiesOnlyWhatWasSigned

\* A verifier accepts nothing but what was signed: not another message, root,
\* revocation tree, commitment, scope, nullifier, bounds, epoch or sealed id,
\* not under other parameters, another configuration or the other version, not
\* what was signed before the last revocation or show, and no padded syndrome,
\* whatever happened to the envelope
\* (voleith_rs_verify, voleith_rsv1_verify, voleith_rs_compute_fs_seed).
THEOREM VerifiedIsSigned == Spec => []VerifiesOnlyWhatWasSigned
<1>1. Init => SoundInv
  <2> SUFFICES ASSUME Init PROVE SoundInv
    OBVIOUS
  <2>1. sig = <<>> /\ tried = <<>> /\ heard = <<>>
    BY DEF Init
  <2>2. AttemptInv
    BY <2>1 DEF AttemptInv, TriedInv, MadeInv
  <2>3. VerifiesOnlyWhatWasSigned
    BY <2>1 DEF VerifiesOnlyWhatWasSigned
  <2> QED
    BY <2>2, <2>3, LayInit DEF SoundInv
<1>2. IInv /\ SoundInv /\ [Next]_vars => SoundInv'
  BY LayNext, AttemptNext, SoundNext DEF SoundInv, IInv
<1>3. SoundInv => VerifiesOnlyWhatWasSigned
  BY DEF SoundInv
<1> QED
  BY <1>1, <1>2, <1>3, RingInvariant, PTL DEF Spec

-----------------------------------------------------------------------------
(* Whose fields a leaf was hashed from.                                     *)

\* The fields of e, as the builder would have been given them.
Filled(e) == [f \in Wanted(cfg) |-> Data(f, e[f])]
Alone(p) == [f \in {"sk"} \cup (Wanted(cfg) \ {"sk"}) |-> p]

\* leaf is what the configuration makes of the fields enrolled: field by field,
\* or, laid by an issuer under epochs, all of one person's.
Enrolled(leaf, e) ==
  /\ \A f \in DOMAIN e : e[f] \in People
  /\ \/ DOMAIN e = Wanted(cfg) /\ (V6(cfg) => EndFits) /\ leaf = EndLeaf(Filled(e))
     \/ ~ setup.v1 /\ V6(cfg) /\ \E p \in People : e = Alone(p) /\ leaf = MemberLeaf(p)

Given1(staged, who) ==
  /\ DOMAIN staged = DOMAIN who
  /\ \A f \in DOMAIN who : who[f] \in People /\ f \in Fields /\ staged[f] = Data(f, who[f])

NamedInv ==
  /\ builder # <<>> =>
       /\ ~ setup.v1
       /\ builder[1].in_member => Given1(builder[1].staged, said)
       /\ \A i \in Slots : Enrolled(builder[1].leaves[i - 1], enrolled[i])
  /\ ring # <<>> =>
       /\ ring[1] = RingOf(cfg, ring[1].leaves)
       /\ \A i \in Slots : Enrolled(ring[1].leaves[i - 1], enrolled[i])

-----------------------------------------------------------------------------
(* Where a path leads.                                                      *)

\* A way up to the root of a tree starts at the leaf it turns for, and its
\* first sibling is that leaf's neighbour.
LEMMA WalkAt ==
  ASSUME NEW h, h.mark \in Nat, NEW d \in Nat, NEW leaves \in Nodes(d), NEW node \in Seq(Nat),
         NEW siblings \in Seq(Seq(Nat)), Len(siblings) = d, NEW i \in Recs(d),
         Walk(h, node, siblings, i) = Root(h, leaves, d)
  PROVE  node = leaves[i] /\ (d >= 1 => siblings[1] = leaves[Flip(i)])
<1> DEFINE lev == Levels(h, leaves, d)
<1>1. Leveled(lev, h, leaves, d)
  BY LevelsUnfold
<1>2. PICK w : Climbed(w, h, node, siblings, i) /\ Walk(h, node, siblings, i) = w[d]
  BY WalkUnfold
<1>3. w[d] = lev[d][0]
  BY <1>2 DEF Root
<1> HIDE DEF lev
<1>0. i \in Nat /\ i < 2 ^ d /\ 2 ^ d \in Nat /\ 2 ^ d > 0
  BY PowerPositive DEF Recs
<1> DEFINE At(k) == i \div 2 ^ k
           Meets(k) == At(k) \in 0..(2 ^ (d - k) - 1) /\ w[k] = lev[k][At(k)]
           T == {n \in Nat : n <= d => Meets(d - n)}
<1>4. 0 \in T
  <2>1. At(d) = 0
    <3> DEFINE q == 2 ^ d
    <3>1. q \in Nat /\ q > 0 /\ i \in Nat /\ q * 0 <= i /\ i < q * 0 + q
      BY <1>0
    <3> HIDE DEF q
    <3>2. i \div q = 0
      BY <3>1, DivUnique
    <3> QED
      BY <3>2 DEF q
  <2>2. d - 0 = d /\ d - d = 0 /\ 0 \in 0..(2 ^ 0 - 1)
    BY PowerZero
  <2> HIDE DEF At
  <2>3. Meets(d)
    BY <1>3, <2>1, <2>2
  <2> HIDE DEF Meets
  <2> QED
    BY <2>2, <2>3
\* One level down the way goes on to the same node, and passes its neighbour.
<1>5. ASSUME NEW k \in 1..d, Meets(k)
      PROVE  Meets(k - 1) /\ siblings[k] = lev[k - 1][Flip(At(k - 1))]
  <2> DEFINE f == lev[k - 1]
             n == d - k
             j == At(k)
             l == At(k - 1)
             b == Bit(i, k - 1)
  <2>1. /\ k - 1 \in Nat /\ k - 1 \in 0..d /\ n \in Nat /\ d - (k - 1) = n + 1 /\ (k - 1) + 1 = k
    OBVIOUS
  <2>2. l = 2 * j + b /\ b \in {0, 1} /\ l \in Nat
    <3>1. b = BitAt(i, k - 1)
      BY DEF Bit, BitAt
    <3> HIDE DEF b
    <3> DEFINE m == k - 1
    <3>2. m \in Nat /\ m + 1 = k
      BY <2>1
    <3> HIDE DEF m
    <3>3. i \div 2 ^ m = 2 * (i \div 2 ^ (m + 1)) + BitAt(i, m) /\ BitAt(i, m) \in {0, 1} /\ i \div 2 ^ m \in Nat
      BY <1>0, <3>2, ShiftStep
    <3> QED
      BY <3>1, <3>2, <3>3 DEF m
  <2>3. j \in 0..(2 ^ n - 1) /\ w[k] = lev[k][j]
    BY <1>5
  <2>4. f \in Nodes(n + 1) /\ lev[k] = Paired(h, f, n)
    BY <1>1, <2>1 DEF Leveled
  <2> DEFINE x == w[k - 1]
             y == siblings[k]
  <2>5. x \in Seq(Nat) /\ y \in Seq(Nat) /\ w[k] = Turned(h, b, x, y)
    BY <1>2, <2>1 DEF Climbed
  <2> HIDE DEF f, n, j, l, b, x, y, At
  <2>6. 2 * j \in 0..(2 ^ (n + 1) - 1) /\ 2 * j + 1 \in 0..(2 ^ (n + 1) - 1)
    BY <2>1, <2>3, <2>4, PairedNodes
  <2> DEFINE p == f[2 * j]
             q == f[2 * j + 1]
  <2>7. p \in Seq(Nat) /\ q \in Seq(Nat)
    BY <2>4, <2>6 DEF Nodes
  <2>8. w[k] = Inode(h, p, q)
    BY <2>3, <2>4 DEF Paired
  <2> HIDE DEF p, q
  <2>9. CASE b = 1
    <3>1. w[k] = Inode(h, y, x)
      BY <2>5, <2>9 DEF Turned
    <3>2. y = p /\ x = q
      <4>1. Inode(h, y, x) = Inode(h, p, q) => y = p /\ x = q
        BY <2>5, <2>7, InodeInjective
      <4> QED
        BY <2>8, <3>1, <4>1
    <3>3. l = 2 * j + 1 /\ Flip(l) = 2 * j
      BY <2>2, <2>3, <2>9 DEF Flip
    <3> QED
      BY <2>1, <2>6, <3>2, <3>3 DEF p, q, x, y, f, l, n
  <2>10. CASE b = 0
    <3>1. w[k] = Inode(h, x, y)
      BY <2>5, <2>10 DEF Turned
    <3>2. x = p /\ y = q
      <4>1. Inode(h, x, y) = Inode(h, p, q) => x = p /\ y = q
        BY <2>5, <2>7, InodeInjective
      <4> QED
        BY <2>8, <3>1, <4>1
    <3>3. l = 2 * j /\ Flip(l) = 2 * j + 1
      BY <2>2, <2>3, <2>10 DEF Flip
    <3> QED
      BY <2>1, <2>6, <3>2, <3>3 DEF p, q, x, y, f, l, n
  <2> QED
    BY <2>2, <2>9, <2>10
<1> HIDE DEF Meets, At
<1>6. ASSUME NEW n \in Nat, n \in T PROVE n + 1 \in T
  <2> SUFFICES ASSUME n + 1 <= d PROVE Meets(d - (n + 1))
    OBVIOUS
  <2>1. d - n \in 1..d /\ (d - n) - 1 = d - (n + 1) /\ n <= d
    OBVIOUS
  <2>2. Meets(d - n)
    BY <1>6, <2>1
  <2> QED
    BY <1>5, <2>1, <2>2
<1> HIDE DEF T
<1>7. \A n \in Nat : n \in T
  BY <1>4, <1>6, NatSetInduction
<1>8. \A k \in 0..d : Meets(k)
  <2> TAKE k \in 0..d
  <2>1. d - k \in Nat /\ d - k <= d /\ d - (d - k) = k
    OBVIOUS
  <2>2. d - k \in T
    BY <1>7, <2>1
  <2> QED
    BY <2>1, <2>2 DEF T
<1>9. At(0) = i
  BY <1>0, PowerZero DEF At
<1>10. w[0] = node /\ lev[0] = leaves
  BY <1>1, <1>2 DEF Climbed, Leveled
<1>11. node = leaves[i]
  BY <1>8, <1>9, <1>10 DEF Meets
<1>12. d >= 1 => siblings[1] = leaves[Flip(i)]
  <2>1. d >= 1 => 1 \in 1..d /\ 1 \in 0..d /\ 1 - 1 = 0
    OBVIOUS
  <2> QED
    BY <1>5, <1>8, <1>9, <1>10, <2>1
<1> QED
  BY <1>11, <1>12

\* The first sibling of a leaf is its neighbour.
LEMMA PathFirst ==
  ASSUME NEW h, h.mark \in Nat, NEW d \in Nat, d >= 1, NEW leaves \in Nodes(d), NEW i \in Nat
  PROVE  Path(h, leaves, d, i)[1] = leaves[Flip(i)]
<1> DEFINE lev == Levels(h, leaves, d)
<1>1. lev[0] = leaves
  BY LevelsUnfold DEF Leveled
<1> HIDE DEF lev
<1>2. Path(h, leaves, d, i) = [k \in 1..d |-> lev[k - 1][Flip(i \div 2 ^ (k - 1))]]
  BY DEF Path, lev
<1>3. 1 \in 1..d /\ 1 - 1 = 0 /\ i \div 2 ^ 0 = i
  BY PowerZero
<1> QED
  BY <1>1, <1>2, <1>3

LEMMA FlipTwice == ASSUME NEW i \in Nat PROVE Flip(i) \in Nat /\ Flip(Flip(i)) = i
BY DEF Flip

\* The path of a leaf, taken at its index or at its neighbour's, leads from no
\* other leaf to the root.
LEMMA PathBinds ==
  ASSUME NEW h, h.mark \in Nat, NEW d \in Nat, d >= 1, NEW leaves \in Nodes(d), NEW node \in Seq(Nat),
         NEW i \in Recs(d), NEW at \in {i, Flip(i)}, at < 2 ^ d,
         Walk(h, node, Path(h, leaves, d, i), at) = Root(h, leaves, d)
  PROVE  node = leaves[i]
<1> DEFINE siblings == Path(h, leaves, d, i)
<1>1. siblings \in Seq(Seq(Nat)) /\ Len(siblings) = d
  BY PathTyped
<1>2. i \in Nat /\ Flip(i) \in Nat /\ Flip(Flip(i)) = i
  BY FlipTwice, PowerPositive DEF Recs
<1>3. siblings[1] = leaves[Flip(i)]
  BY <1>2, PathFirst
<1>4. at \in Recs(d)
  BY <1>2, PowerPositive DEF Recs
<1> HIDE DEF siblings
<1>5. node = leaves[at] /\ siblings[1] = leaves[Flip(at)]
  BY <1>1, <1>4, WalkAt DEF siblings
<1> QED
  BY <1>2, <1>3, <1>5

-----------------------------------------------------------------------------
(* What was hashed, taken apart again.                                      *)

LEMMA SameWhole ==
  ASSUME NEW a \in Seq(Nat), NEW b \in Seq(Nat), Len(a) = Len(b), SameData(a, b)
  PROVE  a = b
<1>1. ASSUME NEW i \in 1..Len(a) PROVE a[i] = b[i]
  <2>1. i \in Nat \ {0} /\ i <= Len(a) /\ i <= Len(b)
    OBVIOUS
  <2>2. Cell(a, i) = Cell(b, i)
    BY <2>1 DEF SameData
  <2> QED
    BY <2>1, <2>2 DEF Cell
<1> QED
  BY <1>1, SameCells

LEMMA SameParts ==
  ASSUME NEW a \in Seq(Nat), NEW b \in Seq(Nat), NEW x \in Seq(Nat), NEW y \in Seq(Nat),
         Len(a) = Len(b), SameData(a \o x, b \o y)
  PROVE  a = b /\ SameData(x, y)
<1> DEFINE w == a \o x
           v == b \o y
           n == Len(a)
<1>1. ConcatOf(w, a, x) /\ ConcatOf(v, b, y)
  BY ConcatCells
<1>2. n \in Nat /\ Len(x) \in Nat /\ Len(y) \in Nat /\ Len(b) = n
  OBVIOUS
<1>3. \A j \in Nat \ {0} : Cell(w, j) = Cell(v, j)
  BY DEF SameData
<1> HIDE DEF w, v, n
<1>4. /\ Len(w) = n + Len(x) /\ Len(v) = n + Len(y)
      /\ \A i \in 1..n : w[i] = a[i] /\ v[i] = b[i]
      /\ \A i \in 1..Len(x) : w[n + i] = x[i]
      /\ \A i \in 1..Len(y) : v[n + i] = y[i]
  BY <1>1, <1>2 DEF ConcatOf, n
<1>5. \A i \in 1..n : a[i] = b[i]
  <2> TAKE i \in 1..n
  <2>1. i \in Nat \ {0} /\ i <= Len(w) /\ i <= Len(v)
    BY <1>2, <1>4
  <2>2. Cell(w, i) = Cell(v, i)
    BY <1>3, <2>1
  <2> QED
    BY <1>4, <2>1, <2>2 DEF Cell
<1>6. ASSUME NEW j \in Nat \ {0} PROVE Cell(x, j) = Cell(y, j)
  <2>1. n + j \in Nat \ {0} /\ (n + j <= Len(w) <=> j <= Len(x)) /\ (n + j <= Len(v) <=> j <= Len(y))
    BY <1>2, <1>4
  <2>2. Cell(w, n + j) = Cell(v, n + j)
    BY <1>3, <2>1
  <2>3. Cell(w, n + j) = Cell(x, j)
    BY <1>2, <1>4, <2>1 DEF Cell
  <2>4. Cell(v, n + j) = Cell(y, j)
    BY <1>2, <1>4, <2>1 DEF Cell
  <2> QED
    BY <2>2, <2>3, <2>4
<1>7. SameData(x, y)
  BY <1>6 DEF SameData
<1> QED
  BY <1>2, <1>5, <1>7, SameCells DEF n

\* A hash says how long it is.
Headed(v) == v \in Seq(Nat) /\ Len(v) >= 2 /\ Len(v) = v[2] + 2

LEMMA HeadsApart ==
  ASSUME NEW a, Headed(a), NEW b, Headed(b), NEW x \in Seq(Nat), NEW y \in Seq(Nat),
         SameData(a \o x, b \o y)
  PROVE  a = b /\ SameData(x, y)
<1>1. a \in Seq(Nat) /\ b \in Seq(Nat) /\ 2 \in 1..Len(a) /\ 2 \in 1..Len(b)
  BY DEF Headed
<1> DEFINE w == a \o x
           v == b \o y
<1>2. ConcatOf(w, a, x) /\ ConcatOf(v, b, y)
  BY <1>1, ConcatCells
<1>3. Cell(w, 2) = Cell(v, 2)
  BY DEF SameData
<1> HIDE DEF w, v
<1>4. w[2] = a[2] /\ v[2] = b[2] /\ 2 <= Len(w) /\ 2 <= Len(v)
  BY <1>1, <1>2 DEF ConcatOf
<1>5. a[2] = b[2]
  BY <1>3, <1>4 DEF Cell
<1>6. Len(a) = Len(b)
  BY <1>5 DEF Headed
<1> QED
  BY <1>1, <1>6, SameParts

\* The mark of an inner node.
InodeMark(h) == Inode(h, Vacant, Vacant)[1]

LEMMA InodeHeaded ==
  ASSUME NEW h, h.mark \in Nat, NEW l \in Seq(Nat), NEW r \in Seq(Nat)
  PROVE  Headed(Inode(h, l, r)) /\ Inode(h, l, r)[1] = InodeMark(h) /\ InodeMark(h) # 0
<1> DEFINE mark == (IF h.mark \in {20, 30, 40} THEN 20 ELSE h.mark) + 1
           data == <<Len(l)>> \o l \o r
           none == <<Len(Vacant)>> \o Vacant \o Vacant
<1>1. mark \in Nat /\ mark # 0
  OBVIOUS
<1>2. data \in Seq(Nat)
  <2>1. <<Len(l)>> \in Seq(Nat)
    OBVIOUS
  <2> QED
    BY <2>1, ThreeParts
<1>3. none \in Seq(Nat)
  <2>1. <<Len(Vacant)>> \in Seq(Nat) /\ Vacant \in Seq(Nat)
    BY VacantTyped
  <2> QED
    BY <2>1, ThreeParts
<1>4. Inode(h, l, r) = Digest(mark, data) /\ Inode(h, Vacant, Vacant) = Digest(mark, none)
  BY DEF Inode
<1> HIDE DEF mark, data, none
<1>5. ASSUME NEW s \in Seq(Nat) PROVE Headed(Digest(mark, s)) /\ Digest(mark, s)[1] = mark
  <2> DEFINE head == <<mark, Len(s)>>
  <2>1. head \in Seq(Nat) /\ Len(head) = 2 /\ head[1] = mark /\ head[2] = Len(s) /\ Len(s) \in Nat
    BY <1>1
  <2>2. Digest(mark, s) = head \o s
    BY DEF Digest
  <2> HIDE DEF head
  <2>3. head \o s \in Seq(Nat) /\ ConcatOf(head \o s, head, s)
    BY <2>1, ConcatCells
  <2>4. /\ Len(head \o s) = 2 + Len(s)
        /\ (head \o s)[1] = head[1] /\ (head \o s)[2] = head[2]
    BY <2>1, <2>3 DEF ConcatOf
  <2> QED
    BY <2>1, <2>2, <2>3, <2>4 DEF Headed
<1> QED
  BY <1>1, <1>2, <1>3, <1>4, <1>5 DEF InodeMark

\* A root, and what a way up leads to, are inner nodes.
LEMMA RootHeaded ==
  ASSUME NEW h, h.mark \in Nat, NEW d \in Nat, d >= 1, NEW leaves \in Nodes(d)
  PROVE  Headed(Root(h, leaves, d)) /\ Root(h, leaves, d)[1] = InodeMark(h)
<1> DEFINE lev == Levels(h, leaves, d)
           f == lev[d - 1]
           a == f[0]
           b == f[1]
<1>1. Leveled(lev, h, leaves, d)
  BY LevelsUnfold
<1>2. Root(h, leaves, d) = lev[d][0]
  BY DEF Root
<1> HIDE DEF lev
<1>3. d \in 1..d /\ d - 1 \in 0..d /\ d - d = 0 /\ d - (d - 1) = 0 + 1
  OBVIOUS
<1>4. f \in Nodes(0 + 1) /\ lev[d] = Paired(h, f, 0)
  BY <1>1, <1>3 DEF Leveled
<1> HIDE DEF f
<1>5. 0 \in 0..(2 ^ 0 - 1) /\ 0 \in 0..(2 ^ (0 + 1) - 1) /\ 1 \in 0..(2 ^ (0 + 1) - 1)
  BY PowerZero, PowerStep
<1>6. lev[d][0] = Inode(h, a, b)
  BY <1>4, <1>5 DEF Paired
<1>7. a \in Seq(Nat) /\ b \in Seq(Nat)
  BY <1>4, <1>5 DEF Nodes
<1> HIDE DEF a, b
<1> QED
  BY <1>2, <1>6, <1>7, InodeHeaded

LEMMA WalkHeaded ==
  ASSUME NEW h, h.mark \in Nat, NEW node \in Seq(Nat), NEW siblings \in Seq(Seq(Nat)),
         Len(siblings) >= 1, NEW i
  PROVE  Headed(Walk(h, node, siblings, i)) /\ Walk(h, node, siblings, i)[1] = InodeMark(h)
<1> DEFINE d == Len(siblings)
           v == Walk(h, node, siblings, i)
<1>1. PICK w : Climbed(w, h, node, siblings, i) /\ v = w[d]
  BY WalkUnfold
<1> DEFINE x == w[d - 1]
           y == siblings[d]
<1>2. d \in 1..d /\ d - 1 \in 0..d
  OBVIOUS
<1>3. x \in Seq(Nat) /\ y \in Seq(Nat) /\ w[d] = Turned(h, Bit(i, d - 1), x, y)
  BY <1>1, <1>2 DEF Climbed
<1> HIDE DEF v, d, x, y
<1>4. v = Inode(h, x, y) \/ v = Inode(h, y, x)
  BY <1>1, <1>3 DEF Turned
<1> QED
  BY <1>3, <1>4, InodeHeaded DEF v

\* Four parts, from the right.
Regrouped(s, a, b, c, d) == s = a \o (b \o (c \o d))

LEMMA RegroupFour ==
  ASSUME NEW a, NEW b, NEW c, NEW d,
         a \in Seq(Nat), b \in Seq(Nat), c \in Seq(Nat), d \in Seq(Nat)
  PROVE  Regrouped(a \o b \o c \o d, a, b, c, d)
<1> DEFINE u == a \o b
           v == c \o d
<1>1. u \in Seq(Nat) /\ v \in Seq(Nat)
  OBVIOUS
<1> HIDE DEF u, v
<1>2. u \in Seq(Nat) /\ c \in Seq(Nat) /\ d \in Seq(Nat)
  BY <1>1
<1>3. a \in Seq(Nat) /\ b \in Seq(Nat) /\ v \in Seq(Nat)
  BY <1>1
<1>4. u \o c \o d = u \o (c \o d)
  BY ONLY <1>2
<1>5. u \o c \o d = u \o v
  BY ONLY <1>4 DEF v
<1>6. a \o b \o v = a \o (b \o v)
  BY ONLY <1>3
<1>7. u \o v = a \o (b \o v)
  BY ONLY <1>6 DEF u
<1> QED
  BY ONLY <1>5, <1>7 DEF u, v, Regrouped

LEMMA NothingAdded ==
  ASSUME NEW a \in Seq(Nat)
  PROVE  a \o <<>> = a /\ <<>> \o a = a
OBVIOUS

-----------------------------------------------------------------------------
(* The fields in a leaf tell whose they are.                                *)

\* What the configuration puts into a leaf beside the key.
AttrPart(p) == IF cfg.schema # <<>> THEN AttrsOf(p) ELSE <<>>
SaltPart(p) == IF SaltBytes(cfg) > 0 THEN SaltOf(p) ELSE <<>>
IdPart(p) == IF cfg.opener = 1 THEN IdOf(p) ELSE <<>>

LEMMA PartFacts ==
  ASSUME setup \in Setups, NEW p \in People, NEW q \in People
  PROVE  /\ SkOf(p) \in Seq(Nat) /\ Len(SkOf(p)) = Len(SkOf(q)) /\ (SkOf(p) = SkOf(q) => p = q)
         /\ AttrPart(p) \in Seq(Nat) /\ Len(AttrPart(p)) = Len(AttrPart(q))
         /\ cfg.schema # <<>> /\ AttrPart(p) = AttrPart(q) => p = q
         /\ cfg.schema = <<>> => AttrsOf(p) = <<>>
         /\ SaltPart(p) \in Seq(Nat) /\ Len(SaltPart(p)) = Len(SaltPart(q))
         /\ IdPart(p) \in Seq(Nat) /\ Len(IdPart(p)) = Len(IdPart(q))
         /\ cfg.opener = 1 /\ IdPart(p) = IdPart(q) => p = q
         /\ <<>> \in Seq(Nat)
<1>1. /\ SkOf(p) \in Seq(Nat) /\ IdOf(p) \in Seq(Nat) /\ SaltOf(p) \in Seq(Nat) /\ AttrsOf(p) \in Seq(Nat)
      /\ AttrsOf(q) \in Seq(Nat)
  BY PeopleTypes
<1>2. SkOf(p) = SkOf(q) => p = q
  BY PeopleAssumption
<1>3. /\ Len(SkOf(p)) = Len(SkOf(q)) /\ Len(IdOf(p)) = Len(IdOf(q)) /\ Len(SaltOf(p)) = Len(SaltOf(q))
      /\ IdOf(p) = IdOf(q) => p = q
  BY WidthAssumption
<1>4. /\ Len(AttrsOf(p)) = Len(cfg.schema) /\ Len(AttrsOf(q)) = Len(cfg.schema)
      /\ cfg.schema # <<>> /\ AttrsOf(p) = AttrsOf(q) => p = q
  BY WidthAssumption DEF AttrsOf, cfg
<1>5. <<>> \in Seq(Nat)
  OBVIOUS
<1>6. cfg.schema = <<>> => AttrsOf(p) = <<>>
  <2>1. cfg.schema = <<>> => Len(AttrsOf(p)) = 0
    BY <1>4
  <2> QED
    BY <1>1, <2>1
<1> QED
  BY <1>1, <1>2, <1>3, <1>4, <1>5, <1>6 DEF AttrPart, SaltPart, IdPart

\* Which fields are wanted.
LEMMA WantedFacts ==
  ASSUME setup \in Setups
  PROVE  /\ Wanted(cfg) \subseteq {"sk", "attrs", "id"}
         /\ "sk" \in Wanted(cfg) <=> cfg.sk > 0
         /\ "attrs" \in Wanted(cfg) <=> cfg.schema # <<>>
         /\ "id" \in Wanted(cfg) <=> cfg.opener = 1
<1>1. AttrTotal(cfg) \in Nat /\ (AttrTotal(cfg) = 0 <=> cfg.schema = <<>>)
  BY WidthAssumption DEF cfg
<1>2. AttrTotal(cfg) > 0 <=> cfg.schema # <<>>
  <2> DEFINE total == AttrTotal(cfg)
  <2>1. total \in Nat /\ (total = 0 <=> cfg.schema = <<>>)
    BY <1>1
  <2> HIDE DEF total
  <2>2. total > 0 <=> cfg.schema # <<>>
    BY <2>1
  <2> QED
    BY <2>2 DEF total
<1> QED
  BY <1>2 DEF Wanted, Fields

\* What the builder hashes of the fields that were given.
LEMMA FilledLeaf ==
  ASSUME setup \in Setups, NEW e
  PROVE  EndLeaf(Filled(e)) =
           LeafNode(OwfOf(cfg), (IF cfg.sk > 0 THEN SkOf(e["sk"]) ELSE <<>>)
                                \o AttrPart(e["attrs"]) \o IdPart(e["id"]))
<1>1. EndPart(Filled(e), "sk") = IF cfg.sk > 0 THEN SkOf(e["sk"]) ELSE <<>>
  BY WantedFacts DEF EndPart, Filled, Data
<1>2. EndPart(Filled(e), "attrs") = AttrPart(e["attrs"])
  BY WantedFacts DEF EndPart, Filled, Data, AttrPart
<1>3. EndPart(Filled(e), "id") = IdPart(e["id"])
  BY WantedFacts DEF EndPart, Filled, Data, IdPart
<1> QED
  BY <1>1, <1>2, <1>3 DEF EndLeaf

\* Without epochs: a key, attributes and an id hashed to an enrolled leaf are
\* those of the people enrolled in it.
LEMMA PlainLeafBinds ==
  ASSUME setup \in Setups, ~ V6(cfg), cfg.sk > 0, NEW leaf, NEW e, Enrolled(leaf, e),
         NEW p, \A f \in Fields : p[f] \in People,
         leaf = LeafNode(OwfOf(cfg), SkOf(p["sk"]) \o AttrPart(p["attrs"]) \o IdPart(p["id"]))
  PROVE  "sk" \in DOMAIN e /\ \A f \in DOMAIN e : e[f] = p[f]
<1>1. DOMAIN e = Wanted(cfg) /\ leaf = EndLeaf(Filled(e)) /\ \A f \in DOMAIN e : e[f] \in People
  BY DEF Enrolled
<1>2. p["sk"] \in People /\ p["attrs"] \in People /\ p["id"] \in People
  BY DEF Fields
<1>3. /\ "sk" \in DOMAIN e /\ e["sk"] \in People
      /\ cfg.schema # <<>> => e["attrs"] \in People
      /\ cfg.opener = 1 => e["id"] \in People
  BY <1>1, WantedFacts
<1> DEFINE a == SkOf(e["sk"])
           b == AttrPart(e["attrs"])
           c == IdPart(e["id"])
           x == SkOf(p["sk"])
           y == AttrPart(p["attrs"])
           z == IdPart(p["id"])
<1>4. a \in Seq(Nat) /\ x \in Seq(Nat) /\ Len(a) = Len(x) /\ (a = x => e["sk"] = p["sk"])
  BY <1>2, <1>3, PartFacts
<1>5. /\ b \in Seq(Nat) /\ y \in Seq(Nat) /\ Len(b) = Len(y)
      /\ cfg.schema # <<>> /\ b = y => e["attrs"] = p["attrs"]
  <2>1. CASE cfg.schema # <<>>
    BY <1>2, <1>3, <2>1, PartFacts
  <2>2. CASE cfg.schema = <<>>
    <3>1. b = <<>> /\ y = <<>>
      BY <2>2 DEF AttrPart
    <3> QED
      BY <2>2, <3>1
  <2> QED
    BY <2>1, <2>2
<1>6. /\ c \in Seq(Nat) /\ z \in Seq(Nat) /\ Len(c) = Len(z)
      /\ cfg.opener = 1 /\ c = z => e["id"] = p["id"]
  <2>1. CASE cfg.opener = 1
    BY <1>2, <1>3, <2>1, PartFacts
  <2>2. CASE cfg.opener # 1
    <3>1. c = <<>> /\ z = <<>>
      BY <2>2 DEF IdPart
    <3> QED
      BY <2>2, <3>1
  <2> QED
    BY <2>1, <2>2
<1>7. leaf = LeafNode(OwfOf(cfg), a \o b \o c) /\ leaf = LeafNode(OwfOf(cfg), x \o y \o z)
  BY <1>1, FilledLeaf
<1> HIDE DEF a, b, c, x, y, z
<1>8. a \o b \o c \in Seq(Nat) /\ x \o y \o z \in Seq(Nat) /\ b \o c \in Seq(Nat) /\ y \o z \in Seq(Nat)
  BY <1>4, <1>5, <1>6, ThreeParts, ConcatCells
<1>9. a \o b \o c = a \o (b \o c) /\ x \o y \o z = x \o (y \o z)
  <2>1. a \in Seq(Nat) /\ b \in Seq(Nat) /\ c \in Seq(Nat)
    BY <1>4, <1>5, <1>6
  <2>2. x \in Seq(Nat) /\ y \in Seq(Nat) /\ z \in Seq(Nat)
    BY <1>4, <1>5, <1>6
  <2>3. a \o b \o c = a \o (b \o c)
    BY ONLY <2>1
  <2>4. x \o y \o z = x \o (y \o z)
    BY ONLY <2>2
  <2> QED
    BY <2>3, <2>4
<1>10. SameData(a \o (b \o c), x \o (y \o z))
  <2> DEFINE u == a \o b \o c
             v == x \o y \o z
             h == OwfOf(cfg)
  <2>1. u \in Seq(Nat) /\ v \in Seq(Nat) /\ h.mark \in Nat /\ LeafNode(h, u) = LeafNode(h, v)
    BY <1>7, <1>8, SetupTypes
  <2>2. u = a \o (b \o c) /\ v = x \o (y \o z)
    BY <1>9
  <2> HIDE DEF u, v, h
  <2>3. SameData(u, v)
    BY <2>1, LeafInjective
  <2> QED
    BY <2>2, <2>3
<1>11. a = x /\ SameData(b \o c, y \o z)
  BY <1>4, <1>8, <1>10, SameParts
<1>12. b = y /\ SameData(c, z)
  BY <1>5, <1>6, <1>11, SameParts
<1>13. c = z
  BY <1>6, <1>12, SameWhole
<1> QED
  BY <1>1, <1>3, <1>4, <1>5, <1>6, <1>11, <1>12, <1>13, WantedFacts

-----------------------------------------------------------------------------
(* The same for a ring with epochs.                                         *)

\* A way up an epoch tree from a key's leaf, to the root of a member's tree,
\* starts at that member's key.
LEMMA EpochBinds ==
  ASSUME setup \in Setups, V6(cfg), NEW p \in People, NEW q \in People,
         NEW epoch \in setup.epochs, epoch < 2 ^ cfg.depth_e,
         NEW siblings \in Seq(Seq(Nat)), Len(siblings) = cfg.depth_e,
         Walk(EpochOf(cfg), LeafNode(EpochOf(cfg), EpochKeyOf(p, epoch)), siblings, epoch)
           = Root(EpochOf(cfg), EpochLeaves(q), cfg.depth_e)
  PROVE  p = q
<1> DEFINE h == EpochOf(cfg)
           d == cfg.depth_e
           k == EpochKeyOf(p, epoch)
           l == EpochKeyOf(q, epoch)
           leaves == EpochLeaves(q)
<1>1. h.mark \in Nat /\ d \in Nat /\ epoch \in Nat /\ epoch \in Epochs
  BY SetupTypes, SetupFacts
<1>2. epoch \in Recs(d)
  BY <1>1, PowerPositive DEF Recs
<1>3. k \in Seq(Nat) /\ l \in Seq(Nat) /\ Len(k) = Len(l) /\ (k = l => p = q)
  BY <1>1, PeopleAssumption, WidthAssumption
<1>4. leaves \in Nodes(d) /\ leaves[epoch] = LeafNode(h, l)
  BY <1>2, EpochLeavesTyped DEF EpochLeaves, Recs
<1>5. Walk(h, LeafNode(h, k), siblings, epoch) = Root(h, leaves, d)
  OBVIOUS
<1> HIDE DEF h, d, k, l, leaves
<1>6. LeafNode(h, k) \in Seq(Nat)
  BY <1>1, <1>3, LeafLong
<1>7. LeafNode(h, k) = leaves[epoch]
  <2> DEFINE node == LeafNode(h, k)
  <2>1. node \in Seq(Nat) /\ Walk(h, node, siblings, epoch) = Root(h, leaves, d) /\ Len(siblings) = d
    BY <1>5, <1>6 DEF d
  <2> HIDE DEF node
  <2>2. node = leaves[epoch]
    BY <1>1, <1>2, <1>4, <2>1, WalkAt
  <2> QED
    BY <2>2 DEF node
<1>8. SameData(k, l)
  <2>1. LeafNode(h, k) = LeafNode(h, l)
    BY <1>4, <1>7
  <2> QED
    BY <1>1, <1>3, <2>1, LeafInjective
<1> QED
  BY <1>3, <1>8, SameWhole

\* All fields of one person.
Own(q) == [f \in Fields |-> q]

\* What a signer hashes to a leaf in a ring with epochs.
EpochLeaf(w, p, who) ==
  IF OwfUsed(cfg) THEN LeafNode(OwfOf(cfg), w \o AttrPart(p["attrs"]) \o SaltPart(who) \o IdPart(p["id"]))
  ELSE w

LEMMA MemberLeafForm ==
  ASSUME setup \in Setups, NEW q \in People
  PROVE  MemberLeaf(q) = EpochLeaf(Root(EpochOf(cfg), EpochLeaves(q), cfg.depth_e), Own(q), q)
<1>1. AttrsOf(q) = AttrPart(q)
  BY PartFacts DEF AttrPart
<1> QED
  BY <1>1 DEF MemberLeaf, LeafOf, EpochLeaf, SaltPart, IdPart, Fields, Own

\* Two leaves that are hashed from heads and parts of the same widths.
LEMMA HeadedLeaves ==
  ASSUME setup \in Setups, NEW v, Headed(v), NEW w, Headed(w), NEW q \in People,
         NEW p, \A f \in Fields : p[f] \in People, NEW who \in People,
         EpochLeaf(v, Own(q), q) = EpochLeaf(w, p, who)
  PROVE  /\ v = w
         /\ cfg.schema # <<>> => q = p["attrs"]
         /\ cfg.opener = 1 => q = p["id"]
<1>1. CASE ~ OwfUsed(cfg)
  BY <1>1 DEF EpochLeaf, OwfUsed
<1>2. CASE OwfUsed(cfg)
  <2> DEFINE h == OwfOf(cfg)
             a == AttrPart(q)
             b == SaltPart(q)
             c == IdPart(q)
             x == AttrPart(p["attrs"])
             y == SaltPart(who)
             z == IdPart(p["id"])
  <2>1. p["attrs"] \in People /\ p["id"] \in People
    BY DEF Fields
  <2>2. /\ a \in Seq(Nat) /\ x \in Seq(Nat) /\ Len(a) = Len(x)
        /\ b \in Seq(Nat) /\ y \in Seq(Nat) /\ Len(b) = Len(y)
        /\ c \in Seq(Nat) /\ z \in Seq(Nat) /\ Len(c) = Len(z)
        /\ cfg.schema # <<>> /\ a = x => q = p["attrs"]
        /\ cfg.opener = 1 /\ c = z => q = p["id"]
        /\ h.mark \in Nat /\ v \in Seq(Nat) /\ w \in Seq(Nat)
    BY <2>1, PartFacts, SetupTypes DEF Headed
  <2>3. LeafNode(h, v \o a \o b \o c) = LeafNode(h, w \o x \o y \o z)
    BY <1>2 DEF EpochLeaf, Fields, Own
  <2> HIDE DEF h, a, b, c, x, y, z
  <2> DEFINE s == v \o a \o b \o c
             t == w \o x \o y \o z
  <2>4. s \in Seq(Nat) /\ t \in Seq(Nat)
    <3>1. s \in Seq(Nat)
      BY <2>2, FourParts
    <3>2. t \in Seq(Nat)
      BY <2>2, FourParts
    <3> QED
      BY <3>1, <3>2
  <2>5. s = v \o (a \o (b \o c))
    <3>1. v \in Seq(Nat) /\ a \in Seq(Nat) /\ b \in Seq(Nat) /\ c \in Seq(Nat)
      BY <2>2
    <3>2. Regrouped(s, v, a, b, c)
      BY <3>1, RegroupFour
    <3> HIDE DEF s
    <3> QED
      BY ONLY <3>2 DEF Regrouped
  <2>6. t = w \o (x \o (y \o z))
    <3>1. w \in Seq(Nat) /\ x \in Seq(Nat) /\ y \in Seq(Nat) /\ z \in Seq(Nat)
      BY <2>2
    <3>2. Regrouped(t, w, x, y, z)
      BY <3>1, RegroupFour
    <3> HIDE DEF t
    <3> QED
      BY ONLY <3>2 DEF Regrouped
  <2> HIDE DEF s, t
  <2>7. SameData(s, t)
    <3>1. LeafNode(h, s) = LeafNode(h, t)
      BY <2>3 DEF s, t
    <3> QED
      BY <2>2, <2>4, <3>1, LeafInjective
  <2> DEFINE bc == b \o c
             yz == y \o z
  <2>8. bc \in Seq(Nat) /\ yz \in Seq(Nat)
    BY <2>2, ConcatCells
  <2>9. SameData(bc, yz) => b = y /\ SameData(c, z)
    BY <2>2, SameParts
  <2>10. s = v \o (a \o bc) /\ t = w \o (x \o yz)
    BY <2>5, <2>6
  <2> HIDE DEF bc, yz
  <2> DEFINE abc == a \o bc
             xyz == x \o yz
  <2>11. abc \in Seq(Nat) /\ xyz \in Seq(Nat)
    BY <2>2, <2>8, ConcatCells
  <2>12. SameData(abc, xyz) => a = x /\ SameData(bc, yz)
    BY <2>2, <2>8, SameParts
  <2>13. SameData(v \o abc, w \o xyz)
    BY <2>7, <2>10
  <2> HIDE DEF abc, xyz
  <2>14. v = w /\ SameData(abc, xyz)
    BY <2>11, <2>13, HeadsApart
  <2>15. SameData(c, z) => c = z
    BY <2>2, SameWhole
  <2> QED
    BY <2>2, <2>9, <2>12, <2>14, <2>15
<1> QED
  BY <1>1, <1>2

\* A builder does not hash a leaf that begins like the root of an epoch tree.
LEMMA BuiltApart ==
  ASSUME setup \in Setups, V6(cfg), cfg.sk = 0, NEW e, DOMAIN e = Wanted(cfg),
         \A f \in DOMAIN e : e[f] \in People, EndFits,
         NEW w, Headed(w), w[1] = InodeMark(EpochOf(cfg)),
         NEW p, \A f \in Fields : p[f] \in People, NEW who \in People,
         EndLeaf(Filled(e)) = EpochLeaf(w, p, who)
  PROVE  FALSE
<1> DEFINE a == AttrPart(e["attrs"])
           b == IdPart(e["id"])
           data == a \o b
           x == AttrPart(p["attrs"])
           y == SaltPart(who)
           z == IdPart(p["id"])
           rest == x \o (y \o z)
           h == OwfOf(cfg)
<1>1. p["sk"] \in People /\ p["attrs"] \in People /\ p["id"] \in People
  BY DEF Fields
<1>2. cfg.schema # <<>> \/ cfg.opener = 1
  <2> SUFFICES ASSUME cfg.schema = <<>>, cfg.opener # 1 PROVE FALSE
    OBVIOUS
  <2>1. AttrTotal(cfg) = 0
    BY WidthAssumption DEF cfg
  <2>2. OpenerIdBytes(cfg) = 0
    BY DEF OpenerIdBytes
  <2> QED
    BY <2>1, <2>2 DEF EndFits
<1>3. OwfUsed(cfg)
  BY <1>2 DEF OwfUsed
<1>4. EndLeaf(Filled(e)) = LeafNode(h, data)
  <2>1. EndLeaf(Filled(e)) = LeafNode(h, <<>> \o a \o b)
    BY FilledLeaf
  <2>2. a \in Seq(Nat)
    <3>1. CASE cfg.schema # <<>>
      BY <3>1, PartFacts, WantedFacts
    <3>2. CASE cfg.schema = <<>>
      BY <3>2 DEF AttrPart
    <3> QED
      BY <3>1, <3>2
  <2> HIDE DEF a, b
  <2>3. <<>> \o a = a
    BY <2>2, NothingAdded
  <2> QED
    BY <2>1, <2>3
\* Whose attributes and id the builder was given, or would have been.
<1>5. PICK s \in People, t \in People : a = AttrPart(s) /\ b = IdPart(t)
  <2>1. \E s \in People : a = AttrPart(s)
    <3>1. CASE cfg.schema # <<>>
      BY <3>1, WantedFacts
    <3>2. CASE cfg.schema = <<>>
      BY <1>1, <3>2 DEF AttrPart
    <3> QED
      BY <3>1, <3>2
  <2>2. \E t \in People : b = IdPart(t)
    <3>1. CASE cfg.opener = 1
      BY <3>1, WantedFacts
    <3>2. CASE cfg.opener # 1
      BY <1>1, <3>2 DEF IdPart
    <3> QED
      BY <3>1, <3>2
  <2> QED
    BY <2>1, <2>2
<1>6. /\ a \in Seq(Nat) /\ b \in Seq(Nat) /\ x \in Seq(Nat) /\ y \in Seq(Nat) /\ z \in Seq(Nat)
      /\ w \in Seq(Nat) /\ h.mark \in Nat
  BY <1>1, <1>5, PartFacts, SetupTypes DEF Headed
<1>7. data # <<>> => data[1] # InodeMark(EpochOf(cfg))
  <2>1. a = AttrsOf(s)
    BY <1>5, PartFacts DEF AttrPart
  <2>2. data = setup.attrs[s] \o (IF setup.cfg.opener = 1 THEN IdOf(t) ELSE <<>>)
    BY <1>5, <2>1 DEF AttrsOf, IdPart, cfg
  <2>3. setup.cfg.depth_e > 0
    BY DEF V6, cfg
  <2> HIDE DEF data
  <2>4. data # <<>> => data[1] # Inode(EpochOf(setup.cfg), Vacant, Vacant)[1]
    BY <2>2, <2>3, WidthAssumption
  <2> QED
    BY <2>4 DEF InodeMark, cfg
<1>8. EpochLeaf(w, p, who) = LeafNode(h, w \o x \o y \o z)
  BY <1>3 DEF EpochLeaf
<1> HIDE DEF a, b, x, y, z, h
<1>9. data \in Seq(Nat) /\ w \o x \o y \o z \in Seq(Nat) /\ rest \in Seq(Nat)
  <2>1. data \in Seq(Nat)
    BY <1>6, ConcatCells
  <2>2. w \o x \o y \o z \in Seq(Nat)
    BY <1>6, FourParts
  <2>3. y \o z \in Seq(Nat)
    BY <1>6, ConcatCells
  <2> DEFINE yz == y \o z
  <2> HIDE DEF yz
  <2>4. x \o yz \in Seq(Nat)
    BY <1>6, <2>3, ConcatCells DEF yz
  <2> QED
    BY <2>1, <2>2, <2>4 DEF yz
<1> DEFINE v == w \o x \o y \o z
<1>10. v = w \o rest
  <2>1. Regrouped(v, w, x, y, z)
    BY <1>6, RegroupFour
  <2> HIDE DEF v
  <2> QED
    BY ONLY <2>1 DEF Regrouped
<1>11. SameData(data, v)
  <2>1. data \in Seq(Nat) /\ v \in Seq(Nat) /\ LeafNode(h, data) = LeafNode(h, v)
    BY <1>4, <1>8, <1>9
  <2> HIDE DEF data, v
  <2> QED
    BY <1>6, <2>1, LeafInjective
<1> HIDE DEF data, rest, v
<1>12. ConcatOf(v, w, rest)
  BY <1>6, <1>9, <1>10, ConcatCells
<1>13. 1 <= Len(v) /\ v[1] = InodeMark(EpochOf(cfg))
  <2>1. Len(v) = Len(w) + Len(rest) /\ \A i \in 1..Len(w) : v[i] = w[i]
    BY <1>12 DEF ConcatOf
  <2>2. Len(w) >= 2 /\ Len(w) \in Nat /\ Len(rest) \in Nat /\ 1 \in 1..Len(w)
    BY <1>6, <1>9 DEF Headed
  <2> QED
    BY <2>1, <2>2
<1>14. Cell(data, 1) = Cell(v, 1)
  BY <1>11 DEF SameData
<1>15. InodeMark(EpochOf(cfg)) # 0
  BY InodeHeaded, SetupTypes, VacantTyped
<1>16. 1 <= Len(data) /\ data[1] = InodeMark(EpochOf(cfg))
  BY <1>13, <1>14, <1>15 DEF Cell
<1> QED
  BY <1>7, <1>9, <1>16

\* Under epochs: what a signer hashes to an enrolled leaf is of the people
\* enrolled in it.
LEMMA EpochLeafBinds ==
  ASSUME setup \in Setups, ~ setup.v1, V6(cfg), Validate(cfg), NEW leaf, NEW e, Enrolled(leaf, e),
         NEW p, \A f \in Fields : p[f] \in People, NEW who \in People,
         NEW epoch \in setup.epochs, epoch < 2 ^ cfg.depth_e,
         NEW siblings \in Seq(Seq(Nat)), Len(siblings) = cfg.depth_e,
         leaf = EpochLeaf(Walk(EpochOf(cfg), LeafNode(EpochOf(cfg), EpochKeyOf(p["sk"], epoch)),
                               siblings, epoch), p, who)
  PROVE  "sk" \in DOMAIN e /\ \A f \in DOMAIN e : e[f] = p[f]
<1> DEFINE h == EpochOf(cfg)
           node == LeafNode(h, EpochKeyOf(p["sk"], epoch))
           w == Walk(h, node, siblings, epoch)
<1>1. /\ h.mark \in Nat /\ cfg.depth_e \in Nat /\ cfg.depth_e >= 1 /\ cfg.sk = 0
      /\ p["sk"] \in People
  BY SetupTypes DEF V6, Validate, Fields
<1>2. node \in Seq(Nat)
  <2> DEFINE k == EpochKeyOf(p["sk"], epoch)
  <2>1. k \in Seq(Nat)
    BY <1>1, SetupFacts, PeopleAssumption
  <2> HIDE DEF k, h
  <2>2. LeafNode(h, k) \in Seq(Nat)
    BY <1>1, <2>1, LeafLong
  <2> QED
    BY <2>2 DEF k
<1> HIDE DEF h, node
<1>3. Headed(w) /\ w[1] = InodeMark(h)
  BY <1>1, <1>2, WalkHeaded
<1>4. leaf = EpochLeaf(w, p, who)
  BY DEF h, node
<1>5. w = Walk(EpochOf(cfg), LeafNode(EpochOf(cfg), EpochKeyOf(p["sk"], epoch)), siblings, epoch)
  BY DEF h, node
<1> HIDE DEF w
<1>6. CASE DOMAIN e = Wanted(cfg) /\ EndFits /\ leaf = EndLeaf(Filled(e))
  <2>1. \A f \in DOMAIN e : e[f] \in People
    BY DEF Enrolled
  <2>2. FALSE
    BY <1>1, <1>3, <1>4, <1>6, <2>1, BuiltApart DEF h
  <2> QED
    BY <2>2
<1>7. CASE \E q \in People : e = Alone(q) /\ leaf = MemberLeaf(q)
  <2>1. PICK q \in People : e = Alone(q) /\ leaf = MemberLeaf(q)
    BY <1>7
  <2> DEFINE leaves == EpochLeaves(q)
             v == Root(h, leaves, cfg.depth_e)
  <2>2. leaves \in Nodes(cfg.depth_e)
    BY EpochLeavesTyped
  <2>3. leaf = EpochLeaf(v, Own(q), q)
    BY <2>1, MemberLeafForm DEF h
  <2> HIDE DEF leaves
  <2>4. Headed(v)
    BY <1>1, <2>2, RootHeaded
  <2> HIDE DEF v
  <2>5. EpochLeaf(v, Own(q), q) = EpochLeaf(w, p, who)
    BY <1>4, <2>3
  <2>6. /\ v = w
        /\ cfg.schema # <<>> => q = p["attrs"]
        /\ cfg.opener = 1 => q = p["id"]
    BY <1>3, <2>4, <2>5, HeadedLeaves
  <2>7. Walk(EpochOf(cfg), LeafNode(EpochOf(cfg), EpochKeyOf(p["sk"], epoch)), siblings, epoch)
          = Root(EpochOf(cfg), EpochLeaves(q), cfg.depth_e)
    BY <1>5, <2>6 DEF v, leaves, h
  <2>8. p["sk"] = q
    BY <1>1, <2>7, EpochBinds
  <2>9. DOMAIN e = {"sk"} \cup (Wanted(cfg) \ {"sk"}) /\ \A f \in DOMAIN e : e[f] = q
    BY <2>1 DEF Alone
  <2>10. ASSUME NEW f \in DOMAIN e PROVE e[f] = p[f]
    <3>1. f \in {"sk", "attrs", "id"} /\ (f = "attrs" => cfg.schema # <<>>) /\ (f = "id" => cfg.opener = 1)
      BY <2>9, <2>10, WantedFacts
    <3> QED
      BY <2>6, <2>8, <2>9, <3>1
  <2> QED
    BY <2>9, <2>10
<1> QED
  BY <1>6, <1>7 DEF Enrolled

-----------------------------------------------------------------------------
(* What a proof that was made says of the leaf it was made for.             *)

\* The leaf a signer's inputs are hashed to.
SignedLeaf(sk, attrs, path, id, pub) ==
  LeafOf(cfg, IF V6(cfg)
              THEN Walk(EpochOf(cfg), LeafNode(EpochOf(cfg), path.epoch_sk), path.epoch_siblings, pub.epoch)
              ELSE sk, attrs, path.salt, id)

\* The leaf is where the path says, and neither it nor the nullifier is in
\* the tree it is shown to be absent from.
Meets(leaf, path, pub) ==
  /\ ~ path.index >= 2 ^ cfg.depth_m
  /\ Walk(cfg.tree, leaf, path.siblings, path.index) = pub.root
  /\ cfg.depth_r > 0 => NonMember(cfg.tree, leaf, path.rev, pub.rev)

LEMMA SignMeets ==
  ASSUME NEW sk, NEW attrs, NEW path, "epoch" \in DOMAIN path, NEW id, NEW rand, NEW pub, NEW m,
         Sign(cfg, Params, sk, attrs, path, id, rand, pub, m) # <<>>
  PROVE  /\ Validate(cfg)
         /\ V6(cfg) => ~ pub.epoch >= 2 ^ cfg.depth_e
         /\ Meets(SignedLeaf(sk, attrs, path, id, pub), path, pub)
         /\ cfg.depth_s > 0 => cfg.scope > 0 /\ NonMember(cfg.tree, pub.T, path.spent, pub.spent)
         /\ BoundsTotal(cfg) > 0 => Len(pub.bounds) = BoundsTotal(cfg)
         /\ PredicatesHold(cfg, [attrs |-> attrs],
                           [bounds |-> IF BoundsTotal(cfg) > 0 THEN pub.bounds ELSE <<>>])
<1> DEFINE pinned == [path EXCEPT !.epoch = pub.epoch]
           pw == PackWitness(cfg, sk, attrs, pinned, id, rand)
           fi == FillInstance(cfg, pub)
           fs == FsSeed(cfg, pub, m)
           wit == pw[1]
           inst == fi[1]
           proof == Sign(cfg, Params, sk, attrs, path, id, rand, pub, m)
           head == Walk(EpochOf(cfg), LeafNode(EpochOf(cfg), path.epoch_sk), path.epoch_siblings, pub.epoch)
           leaf == SignedLeaf(sk, attrs, path, id, pub)
<1>1. /\ Builds(cfg) /\ pw # <<>> /\ fi # <<>> /\ fs # <<>>
      /\ proof = Prove(Params, cfg, fs[1], wit, inst) /\ proof # <<>>
  BY DEF Sign
<1>2. /\ pinned.rev = path.rev /\ pinned.spent = path.spent /\ pinned.index = path.index
      /\ pinned.siblings = path.siblings /\ pinned.salt = path.salt /\ pinned.epoch_sk = path.epoch_sk
      /\ pinned.epoch_siblings = path.epoch_siblings /\ pinned.epoch = pub.epoch
  OBVIOUS
<1> HIDE DEF pinned
<1>3. /\ Validate(cfg) /\ (V6(cfg) => ~ pub.epoch >= 2 ^ cfg.depth_e) /\ ~ path.index >= 2 ^ cfg.depth_m
      /\ wit.sk = sk /\ wit.attrs = attrs /\ wit.salt = path.salt /\ wit.id = id
      /\ wit.index = path.index /\ wit.siblings = path.siblings
      /\ wit.rev = path.rev /\ wit.spent = path.spent
      /\ wit.hints = IF V6(cfg) THEN head ELSE sk
  BY <1>1, <1>2 DEF PackWitness
<1>4. /\ inst.root = pub.root
      /\ cfg.depth_r > 0 => inst.rev = pub.rev
      /\ cfg.depth_s > 0 => inst.spent = pub.spent
      /\ cfg.scope > 0 => inst.T = pub.T
      /\ inst.bounds = IF BoundsTotal(cfg) > 0 THEN pub.bounds ELSE <<>>
      /\ BoundsTotal(cfg) > 0 => Len(pub.bounds) = BoundsTotal(cfg)
  BY <1>1 DEF FillInstance
<1> HIDE DEF pw, fi, fs, wit, inst
<1>5. Relation(cfg, wit, inst)
  BY <1>1 DEF Prove
<1> HIDE DEF proof
<1>6. /\ V6(cfg) => wit.hints = EpochRoot(cfg, wit, inst)
      /\ InRing(cfg, wit, inst) /\ PredicatesHold(cfg, wit, inst)
      /\ cfg.depth_r > 0 => NonMember(cfg.tree, LeafWires(cfg, wit, inst), wit.rev, inst.rev)
      /\ cfg.depth_s > 0 => NonMember(cfg.tree, inst.T, wit.spent, inst.spent)
  BY <1>5 DEF Relation
<1>7. LeafWires(cfg, wit, inst) = leaf
  <2>1. LeafWires(cfg, wit, inst) =
          LeafOf(cfg, IF V6(cfg) THEN EpochRoot(cfg, wit, inst) ELSE wit.sk, wit.attrs, wit.salt, wit.id)
    BY DEF LeafWires
  <2>2. V6(cfg) => EpochRoot(cfg, wit, inst) = head
    BY <1>3, <1>6
  <2> HIDE DEF head
  <2>3. leaf = LeafOf(cfg, IF V6(cfg) THEN head ELSE sk, attrs, path.salt, id)
    BY DEF SignedLeaf, head
  <2> QED
    BY <1>3, <2>1, <2>2, <2>3
<1> HIDE DEF leaf, head
<1>8. Meets(leaf, path, pub)
  BY <1>3, <1>4, <1>6, <1>7 DEF InRing, Meets
<1>9. cfg.depth_s > 0 => cfg.scope > 0 /\ NonMember(cfg.tree, pub.T, path.spent, pub.spent)
  <2>1. cfg.depth_s > 0 => cfg.scope > 0
    BY <1>3 DEF Validate
  <2> QED
    BY <1>3, <1>4, <1>6, <2>1
<1>10. PredicatesHold(cfg, [attrs |-> attrs], [bounds |-> IF BoundsTotal(cfg) > 0 THEN pub.bounds ELSE <<>>])
  <2> DEFINE b == IF BoundsTotal(cfg) > 0 THEN pub.bounds ELSE <<>>
             x == [attrs |-> attrs]
             y == [bounds |-> b]
  <2>1. x.attrs = wit.attrs /\ y.bounds = inst.bounds
    BY <1>3, <1>4
  <2> HIDE DEF b, x, y
  <2>2. PredicatesHold(cfg, x, y)
    BY <1>6, <2>1 DEF PredicatesHold
  <2> QED
    BY <2>2 DEF x, y, b
<1> QED
  BY <1>3, <1>4, <1>8, <1>9, <1>10 DEF leaf

LEMMA SignV1Meets ==
  ASSUME NEW sk, NEW path, NEW pub, NEW m, SignV1(cfg, Params, sk, pub.root, path, pub.rev, m) # <<>>
  PROVE  ValidateV1(cfg) /\ Meets(LeafNode(OwfOf(cfg), sk), path, pub)
<1> DEFINE pw == PackWitnessV1(cfg, sk, path)
           wit == pw[1]
           root == pub.root
           rev == pub.rev
<1>1. ValidateV1(cfg) /\ pw # <<>> /\ RelationV1(cfg, wit, root, rev)
  BY DEF SignV1
<1>2. /\ wit.sk = sk /\ wit.index = path.index /\ wit.siblings = path.siblings /\ wit.rev = path.rev
      /\ ~ path.index >= 2 ^ cfg.depth_m
  BY <1>1 DEF PackWitnessV1
<1> HIDE DEF wit, pw
<1> QED
  BY <1>1, <1>2 DEF RelationV1, Meets

\* The record shown of the revocation tree.
LEMMA RevRecordAdjacent ==
  ASSUME setup \in Setups, LayInv, ring # <<>>, NEW r, cfg.depth_r > 0
  PROVE  TypedAdjacent(RevRecord(r), cfg.depth_r)
<1> DEFINE values == RevValues(RevOf(r))
           target == ring[1].leaves[r.slot - 1]
           vb == cfg.tree.node
           rev == Adjacent(values, cfg.depth_r, vb, target)
           at == IF r.dev = "adj" THEN rev.at + 2 ^ cfg.depth_r ELSE rev.at
           y == [rev EXCEPT !.at = at]
<1>1. RevOf(r) \in {{}, revoked}
  BY DEF RevOf
<1>2. values \in SUBSET Seq(Nat) /\ IsFiniteSet(values)
  BY <1>1, RevTyped
<1>3. RevRecord(r) = y
  BY DEF RevRecord
<1> HIDE DEF values, target, vb, at
<1>4. TypedAdjacent(rev, cfg.depth_r)
  BY <1>2, AdjacentTyped, SetupTypes
<1> HIDE DEF rev
<1>5. y.value = rev.value /\ y.next = rev.next /\ y.index = rev.index /\ y.siblings = rev.siblings
  OBVIOUS
<1> HIDE DEF y
<1> QED
  BY <1>3, <1>4, <1>5 DEF TypedAdjacent, TypedRecord

\* The parts of a path.
LEMMA PathParts ==
  ASSUME NEW r, NEW pub, NEW path, path = PathOf(r, pub)
  PROVE  /\ path.index = IndexOf(r) /\ path.siblings = ring[1].siblings[r.slot - 1]
         /\ cfg.depth_r > 0 => path.rev = RevRecord(r)
         /\ cfg.depth_s > 0 => path.spent = Adjacent(SpentOf(r), cfg.depth_s, NullifierBytes(cfg), pub.T)
         /\ V6(cfg) => /\ path.epoch_sk = EpochKeyOf(Supplies(r)["sk"], r.epoch)
                       /\ path.epoch_siblings =
                            Path(EpochOf(cfg), EpochLeaves(Supplies(r)["sk"]), cfg.depth_e,
                                 IF r.dev = "epoch" THEN 1 - r.epoch ELSE r.epoch)
         /\ path.salt = On(SaltBytes(cfg) > 0, SaltOf(r.who))
         /\ "epoch" \in DOMAIN path
BY DEF PathOf, On

\* The path of a request leads to no leaf but that of its slot.
LEMMA ReachesSlot ==
  ASSUME setup \in Setups, LayInv, ring # <<>>, ring[1] = RingOf(cfg, ring[1].leaves),
         NEW r, r.slot \in Slots, NEW pub, pub.root = ring[1].root, NEW path, path = PathOf(r, pub),
         NEW leaf \in Seq(Nat), Meets(leaf, path, pub)
  PROVE  leaf = ring[1].leaves[r.slot - 1]
<1> DEFINE leaves == ring[1].leaves
           d == cfg.depth_m
           i == r.slot - 1
           at == path.index
           h == cfg.tree
           siblings == path.siblings
<1>1. /\ leaves \in Nodes(d) /\ d \in Nat /\ d >= 1 /\ h.mark \in Nat /\ Len(enrolled) <= Capacity(cfg)
      /\ \E S : enrolled \in Seq(S)
  BY SetupTypes DEF LayInv, RingInv, Stands, Laid
<1>2. Capacity(cfg) = 2 ^ d /\ 2 ^ d \in Nat
  BY <1>1, PowerPositive DEF Capacity
<1>3. i \in Recs(d) /\ i \in Nat
  <2>1. Len(enrolled) \in Nat /\ r.slot \in 1..Len(enrolled)
    BY <1>1 DEF Slots
  <2> QED
    BY <1>1, <1>2, <2>1 DEF Recs
<1>4. siblings = Path(h, leaves, d, i)
  <2>1. siblings = ring[1].siblings[i]
    BY PathParts
  <2>2. ring[1].siblings = [k \in DOMAIN leaves |-> Path(cfg.tree, leaves, cfg.depth_m, k)]
    <3>1. RingOf(cfg, leaves).siblings = [k \in DOMAIN leaves |-> Path(cfg.tree, leaves, cfg.depth_m, k)]
      BY DEF RingOf
    <3> QED
      BY <3>1
  <2>3. i \in DOMAIN leaves
    BY <1>1, <1>3 DEF Nodes, Recs
  <2> HIDE DEF leaves, i
  <2> QED
    BY <2>1, <2>2, <2>3
<1>5. Walk(h, leaf, siblings, at) = Root(h, leaves, d) /\ ~ at >= 2 ^ d
  <2>1. RingOf(cfg, leaves).root = Root(h, leaves, d)
    BY DEF RingOf
  <2> QED
    BY <2>1 DEF Meets
<1>6. at = IndexOf(r)
  BY PathParts
<1> HIDE DEF leaves, d, at, h, siblings
<1>7. at \in {i, Flip(i)}
  <2>1. r.dev = "range" => at = i + Capacity(cfg)
    BY <1>6 DEF IndexOf
  <2>2. r.dev # "range"
    BY <1>2, <1>3, <1>5, <2>1
  <2> QED
    BY <1>6, <2>2 DEF IndexOf
<1> HIDE DEF i
<1>8. at < 2 ^ d
  <2>1. at \in Nat
    BY <1>3, <1>7, FlipTwice
  <2> QED
    BY <1>2, <1>5, <2>1
<1>9. Walk(h, leaf, Path(h, leaves, d, i), at) = Root(h, leaves, d)
  BY <1>4, <1>5
<1>10. leaf = leaves[i]
  BY <1>1, <1>3, <1>7, <1>8, <1>9, PathBinds
<1> QED
  BY <1>10 DEF leaves, i

-----------------------------------------------------------------------------
(* Who signed is who was enrolled.                                          *)

LEMMA LeafIsOwnV1 ==
  ASSUME setup \in Setups, setup.v1, LayInv, NamedInv, ring # <<>>,
         NEW r, Requested(r), r.slot \in Slots, NEW pub, pub = PubOf(r),
         NEW path, path = PathOf(r, pub), SignRequest(r, pub, path) # <<>>
  PROVE  /\ \E leaf : leaf = ring[1].leaves[r.slot - 1] /\ Meets(leaf, path, pub)
         /\ LET e == enrolled[r.slot]
            IN  "sk" \in DOMAIN e /\ \A f \in DOMAIN e : e[f] = Supplies(r)[f]
<1> DEFINE p == Supplies(r)
           sk == SkOf(p["sk"])
           h == OwfOf(cfg)
           leaf == LeafNode(h, sk)
           e == enrolled[r.slot]
           m == "m"
<1>1. \A f \in Fields : p[f] \in People
  BY SuppliedBy DEF Requested
<1>2. SignV1(cfg, Params, sk, pub.root, path, pub.rev, m) # <<>>
  BY DEF SignRequest
<1>3. p["sk"] \in People
  BY <1>1 DEF Fields
<1>4. sk \in Seq(Nat) /\ h.mark \in Nat
  BY <1>3, PeopleTypes, SetupTypes
<1> HIDE DEF p, m
<1>5. leaf \in Seq(Nat)
  <2> HIDE DEF sk, h
  <2> QED
    BY <1>4, LeafLong
<1>6. ValidateV1(cfg) /\ Meets(leaf, path, pub)
  <2> HIDE DEF sk
  <2> QED
    BY <1>2, SignV1Meets
<1>7. Enrolled(ring[1].leaves[r.slot - 1], e) /\ ring[1] = RingOf(cfg, ring[1].leaves)
  BY DEF NamedInv
<1> HIDE DEF leaf, e
<1>8. leaf = ring[1].leaves[r.slot - 1]
  <2>1. pub.root = ring[1].root
    BY PubParts
  <2> QED
    BY <1>5, <1>6, <1>7, <2>1, ReachesSlot
<1>9. ~ V6(cfg) /\ cfg.sk > 0 /\ cfg.schema = <<>> /\ cfg.opener # 1
  <2>1. cfg.schema = <<>> /\ cfg.depth_e = 0
    BY WidthAssumption DEF cfg
  <2>2. cfg.opener = 0
    BY SetupTypes
  <2> QED
    BY <1>6, <2>1, <2>2 DEF V6, ValidateV1, Structural
<1>10. leaf = LeafNode(h, SkOf(p["sk"]) \o AttrPart(p["attrs"]) \o IdPart(p["id"]))
  <2>1. AttrPart(p["attrs"]) = <<>> /\ IdPart(p["id"]) = <<>>
    BY <1>9 DEF AttrPart, IdPart
  <2>2. sk \o <<>> = sk
    BY <1>4, NothingAdded
  <2>3. SkOf(p["sk"]) \o AttrPart(p["attrs"]) \o IdPart(p["id"]) = sk
    BY <2>1, <2>2
  <2> QED
    BY <2>3 DEF leaf
<1>11. "sk" \in DOMAIN e /\ \A f \in DOMAIN e : e[f] = p[f]
  <2>1. Enrolled(leaf, e)
    BY <1>7, <1>8
  <2> QED
    BY <1>1, <1>9, <1>10, <2>1, PlainLeafBinds DEF h
<1> QED
  BY <1>6, <1>8, <1>11 DEF e, p

\* What a request is signed to.
LEMMA LeafOfRequest ==
  ASSUME setup \in Setups, ~ setup.v1, Validate(cfg), NEW r, Requested(r), NEW pub, pub.epoch = r.epoch,
         NEW path, path = PathOf(r, pub), NEW p, p = Supplies(r), NEW leaf,
         leaf = SignedLeaf(On(cfg.sk > 0, SkOf(p["sk"])), On(cfg.schema # <<>>, AttrsOf(p["attrs"])),
                           path, IdOf(p["id"]), pub)
  PROVE  /\ V6(cfg) =>
              leaf = EpochLeaf(Walk(EpochOf(cfg), LeafNode(EpochOf(cfg), EpochKeyOf(p["sk"], r.epoch)),
                                    path.epoch_siblings, r.epoch), p, r.who)
         /\ ~ V6(cfg) =>
              /\ cfg.sk > 0
              /\ leaf = LeafNode(OwfOf(cfg), SkOf(p["sk"]) \o AttrPart(p["attrs"]) \o IdPart(p["id"]))
<1> DEFINE head == Walk(EpochOf(cfg), LeafNode(EpochOf(cfg), EpochKeyOf(p["sk"], r.epoch)),
                        path.epoch_siblings, r.epoch)
           attrs == AttrPart(p["attrs"])
           id == IdPart(p["id"])
           sk == SkOf(p["sk"])
<1>1. On(cfg.schema # <<>>, AttrsOf(p["attrs"])) = attrs
  BY DEF On, AttrPart, Absent
<1>2. \A w, s : LeafOf(cfg, w, attrs, s, IdOf(p["id"])) =
        IF OwfUsed(cfg) THEN LeafNode(OwfOf(cfg), w \o attrs \o (IF SaltBytes(cfg) > 0 THEN s ELSE <<>>) \o id)
        ELSE w
  BY DEF LeafOf, IdPart
<1>3. CASE V6(cfg)
  <2>1. path.epoch_sk = EpochKeyOf(p["sk"], r.epoch) /\ path.salt = On(SaltBytes(cfg) > 0, SaltOf(r.who))
    BY <1>3, PathParts
  <2>2. leaf = LeafOf(cfg, head, attrs, path.salt, IdOf(p["id"]))
    BY <1>1, <1>3, <2>1 DEF SignedLeaf
  <2>3. (IF SaltBytes(cfg) > 0 THEN path.salt ELSE <<>>) = SaltPart(r.who)
    BY <2>1 DEF On, SaltPart
  <2> HIDE DEF head, attrs, id
  <2>4. leaf = IF OwfUsed(cfg) THEN LeafNode(OwfOf(cfg), head \o attrs \o SaltPart(r.who) \o id) ELSE head
    BY <1>2, <2>2, <2>3
  <2> QED
    BY <1>3, <2>4 DEF EpochLeaf, head, attrs, id
<1>4. CASE ~ V6(cfg)
  <2>1. cfg.sk > 0 /\ OwfUsed(cfg) /\ ~ SaltBytes(cfg) > 0
    BY <1>4 DEF Validate, Structural, OwfUsed, SaltBytes
  <2>2. leaf = LeafOf(cfg, sk, attrs, path.salt, IdOf(p["id"]))
    BY <1>1, <1>4, <2>1 DEF SignedLeaf, On
  <2>3. p["sk"] \in People /\ p["attrs"] \in People
    BY SuppliedBy DEF Fields, Requested
  <2>4. sk \in Seq(Nat) /\ attrs \in Seq(Nat)
    BY <2>3, PartFacts
  <2> HIDE DEF sk, attrs, id
  <2>5. leaf = LeafNode(OwfOf(cfg), sk \o attrs \o <<>> \o id)
    BY <1>2, <2>1, <2>2
  <2> DEFINE both == sk \o attrs
  <2>6. both \in Seq(Nat)
    BY <2>4, ConcatCells
  <2> HIDE DEF both
  <2>7. both \o <<>> = both
    BY <2>6, NothingAdded
  <2>8. leaf = LeafNode(OwfOf(cfg), both \o id)
    BY <2>5, <2>7 DEF both
  <2> QED
    BY <1>4, <2>1, <2>8 DEF both, sk, attrs, id
<1> QED
  BY <1>3, <1>4

\* The siblings that are packed for the epoch.
LEMMA EpochPathTyped ==
  ASSUME setup \in Setups, V6(cfg), NEW r, Requested(r), r.dev \in setup.devs, r.epoch < 2 ^ cfg.depth_e,
         NEW pub, NEW path, path = PathOf(r, pub)
  PROVE  path.epoch_siblings \in Seq(Seq(Nat)) /\ Len(path.epoch_siblings) = cfg.depth_e
<1> DEFINE p == Supplies(r)["sk"]
           d == cfg.depth_e
           h == EpochOf(cfg)
           leaves == EpochLeaves(p)
           at == IF r.dev = "epoch" THEN 1 - r.epoch ELSE r.epoch
<1>1. d \in Nat /\ d >= 1 /\ h.mark \in Nat /\ r.epoch \in Nat /\ p \in People /\ r.epoch \in setup.epochs
  BY SetupTypes, SuppliedBy DEF V6, Requested, Fields
<1>2. leaves \in Nodes(d)
  BY <1>1, EpochLeavesTyped
<1>3. at \in Recs(d)
  <2>1. 2 ^ d \in Nat /\ 2 ^ d >= 2
    <3>1. d - 1 \in Nat /\ (d - 1) + 1 = d
      BY <1>1
    <3>2. 2 ^ (d - 1) \in Nat /\ 2 ^ (d - 1) > 0 /\ 2 ^ ((d - 1) + 1) = 2 * 2 ^ (d - 1)
      BY <3>1, PowerPositive, PowerStep
    <3> QED
      BY <3>1, <3>2
  <2>2. CASE r.dev = "epoch"
    <3>1. r.epoch \in {0, 1}
      BY <1>1, <2>2, WidthAssumption
    <3> QED
      BY <2>1, <2>2, <3>1 DEF Recs
  <2>3. CASE r.dev # "epoch"
    BY <1>1, <2>1, <2>3 DEF Recs
  <2> QED
    BY <2>2, <2>3
<1>4. path.epoch_siblings = Path(h, leaves, d, at)
  BY PathParts
<1> HIDE DEF d, h, leaves, at
<1>5. Path(h, leaves, d, at) \in Seq(Seq(Nat)) /\ Len(Path(h, leaves, d, at)) = d
  BY <1>1, <1>2, <1>3, PathTyped
<1> QED
  BY <1>4, <1>5 DEF d

-----------------------------------------------------------------------------
(* The same without version 1.                                              *)

\* What a signer hashes is cells.
LEMMA EpochLeafTyped ==
  ASSUME setup \in Setups, NEW w \in Seq(Nat), NEW p, \A f \in Fields : p[f] \in People, NEW who \in People
  PROVE  EpochLeaf(w, p, who) \in Seq(Nat)
<1> DEFINE h == OwfOf(cfg)
           a == AttrPart(p["attrs"])
           b == SaltPart(who)
           c == IdPart(p["id"])
           pre == w \o a \o b \o c
<1>1. p["attrs"] \in People /\ p["id"] \in People
  BY DEF Fields
<1>2. a \in Seq(Nat) /\ b \in Seq(Nat) /\ c \in Seq(Nat) /\ h.mark \in Nat
  BY <1>1, PartFacts, SetupTypes
<1>3. EpochLeaf(w, p, who) = IF OwfUsed(cfg) THEN LeafNode(h, pre) ELSE w
  BY DEF EpochLeaf
<1> HIDE DEF a, b, c, h
<1>4. pre \in Seq(Nat)
  BY <1>2, FourParts
<1> HIDE DEF pre
<1>5. LeafNode(h, pre) \in Seq(Nat)
  BY <1>2, <1>4, LeafLong
<1> QED
  BY <1>3, <1>5

\* A leaf a signer hashes to that of its slot was hashed from its own fields.
LEMMA OwnEpochLeaf ==
  ASSUME setup \in Setups, ~ setup.v1, V6(cfg), Validate(cfg), LayInv, NamedInv, ring # <<>>,
         NEW r, Requested(r), r.dev \in setup.devs, r.slot \in Slots, r.epoch < 2 ^ cfg.depth_e,
         NEW pub, pub = PubOf(r), NEW path, path = PathOf(r, pub),
         NEW leaf, Meets(leaf, path, pub),
         leaf = EpochLeaf(Walk(EpochOf(cfg), LeafNode(EpochOf(cfg), EpochKeyOf(Supplies(r)["sk"], r.epoch)),
                               path.epoch_siblings, r.epoch), Supplies(r), r.who)
  PROVE  /\ leaf = ring[1].leaves[r.slot - 1]
         /\ "sk" \in DOMAIN enrolled[r.slot]
         /\ \A f \in DOMAIN enrolled[r.slot] : enrolled[r.slot][f] = Supplies(r)[f]
<1> DEFINE p == Supplies(r)
           h == EpochOf(cfg)
           k == EpochKeyOf(p["sk"], r.epoch)
           node == LeafNode(h, k)
           siblings == path.epoch_siblings
           w == Walk(h, node, siblings, r.epoch)
           e == enrolled[r.slot]
<1>1. /\ \A f \in Fields : p[f] \in People
      /\ r.who \in People /\ r.epoch \in setup.epochs /\ r.epoch \in Epochs
      /\ cfg.depth_e \in Nat /\ cfg.depth_e >= 1 /\ h.mark \in Nat
  BY SuppliedBy, SetupTypes, SetupFacts DEF Requested, V6
<1>2. siblings \in Seq(Seq(Nat)) /\ Len(siblings) = cfg.depth_e
  BY EpochPathTyped
<1>3. k \in Seq(Nat)
  BY <1>1, PeopleAssumption DEF Fields
<1> HIDE DEF p, k, h
<1>4. node \in Seq(Nat)
  BY <1>1, <1>3, LeafLong
<1> HIDE DEF siblings, node
<1>5. w \in Seq(Nat)
  BY <1>1, <1>2, <1>4, WalkHeaded DEF Headed
<1>6. leaf = EpochLeaf(w, p, r.who)
  BY DEF p, h, k, node, siblings
<1>7. leaf = EpochLeaf(Walk(EpochOf(cfg), LeafNode(EpochOf(cfg), EpochKeyOf(p["sk"], r.epoch)),
                            siblings, r.epoch), p, r.who)
  BY DEF p, siblings
<1> HIDE DEF w
<1>8. leaf \in Seq(Nat)
  BY <1>1, <1>5, <1>6, EpochLeafTyped
<1>9. Enrolled(ring[1].leaves[r.slot - 1], e) /\ ring[1] = RingOf(cfg, ring[1].leaves)
  BY DEF NamedInv
<1> HIDE DEF e
<1>10. leaf = ring[1].leaves[r.slot - 1]
  BY <1>8, <1>9, PubParts, ReachesSlot
<1>11. Enrolled(leaf, e)
  BY <1>9, <1>10
<1>12. "sk" \in DOMAIN e /\ \A f \in DOMAIN e : e[f] = p[f]
  BY <1>1, <1>2, <1>7, <1>11, EpochLeafBinds
<1> QED
  BY <1>10, <1>12 DEF e, p

LEMMA OwnPlainLeaf ==
  ASSUME setup \in Setups, ~ setup.v1, ~ V6(cfg), cfg.sk > 0, LayInv, NamedInv, ring # <<>>,
         NEW r, Requested(r), r.slot \in Slots, NEW pub, pub = PubOf(r), NEW path, path = PathOf(r, pub),
         NEW leaf, Meets(leaf, path, pub),
         leaf = LeafNode(OwfOf(cfg), SkOf(Supplies(r)["sk"]) \o AttrPart(Supplies(r)["attrs"])
                                     \o IdPart(Supplies(r)["id"]))
  PROVE  /\ leaf = ring[1].leaves[r.slot - 1]
         /\ "sk" \in DOMAIN enrolled[r.slot]
         /\ \A f \in DOMAIN enrolled[r.slot] : enrolled[r.slot][f] = Supplies(r)[f]
<1> DEFINE p == Supplies(r)
           h == OwfOf(cfg)
           a == SkOf(p["sk"])
           b == AttrPart(p["attrs"])
           c == IdPart(p["id"])
           pre == a \o b \o c
           e == enrolled[r.slot]
<1>1. \A f \in Fields : p[f] \in People
  BY SuppliedBy DEF Requested
<1>2. p["sk"] \in People /\ p["attrs"] \in People /\ p["id"] \in People
  BY <1>1 DEF Fields
<1>3. a \in Seq(Nat) /\ b \in Seq(Nat) /\ c \in Seq(Nat) /\ h.mark \in Nat
  BY <1>2, PartFacts, SetupTypes
<1>4. leaf = LeafNode(h, pre)
  OBVIOUS
<1>5. leaf = LeafNode(OwfOf(cfg), SkOf(p["sk"]) \o AttrPart(p["attrs"]) \o IdPart(p["id"]))
  OBVIOUS
<1> HIDE DEF p, a, b, c, h
<1>6. pre \in Seq(Nat)
  BY <1>3, ThreeParts
<1> HIDE DEF pre
<1>7. leaf \in Seq(Nat)
  BY <1>3, <1>4, <1>6, LeafLong
<1>8. Enrolled(ring[1].leaves[r.slot - 1], e) /\ ring[1] = RingOf(cfg, ring[1].leaves)
  BY DEF NamedInv
<1> HIDE DEF e
<1>9. leaf = ring[1].leaves[r.slot - 1]
  BY <1>7, <1>8, PubParts, ReachesSlot
<1>10. Enrolled(leaf, e)
  BY <1>8, <1>9
<1>11. "sk" \in DOMAIN e /\ \A f \in DOMAIN e : e[f] = p[f]
  BY <1>1, <1>5, <1>10, PlainLeafBinds
<1> QED
  BY <1>9, <1>11 DEF e, p

\* What is known of a signature that was made.
MadeFor(r, path, pub) ==
  /\ \E leaf : leaf = ring[1].leaves[r.slot - 1] /\ Meets(leaf, path, pub)
  /\ "sk" \in DOMAIN enrolled[r.slot]
  /\ \A f \in DOMAIN enrolled[r.slot] : enrolled[r.slot][f] = Supplies(r)[f]

LEMMA LeafIsOwn ==
  ASSUME setup \in Setups, ~ setup.v1, LayInv, NamedInv, ring # <<>>,
         NEW r, Requested(r), r.dev \in setup.devs, r.slot \in Slots, NEW pub, pub = PubOf(r),
         NEW path, path = PathOf(r, pub), SignRequest(r, pub, path) # <<>>
  PROVE  /\ MadeFor(r, path, pub) /\ Validate(cfg)
         /\ cfg.depth_s > 0 => cfg.scope > 0 /\ NonMember(cfg.tree, pub.T, path.spent, pub.spent)
         /\ BoundsTotal(cfg) > 0 => Len(pub.bounds) = BoundsTotal(cfg)
         /\ PredicatesHold(cfg, [attrs |-> On(cfg.schema # <<>>, AttrsOf(Supplies(r)["attrs"]))],
                           [bounds |-> IF BoundsTotal(cfg) > 0 THEN pub.bounds ELSE <<>>])
<1> DEFINE p == Supplies(r)
           sk == On(cfg.sk > 0, SkOf(p["sk"]))
           attrs == On(cfg.schema # <<>>, AttrsOf(p["attrs"]))
           id == IdOf(p["id"])
           m == "m"
           leaf == SignedLeaf(sk, attrs, path, id, pub)
<1>1. Sign(cfg, Params, sk, attrs, path, id, RandOf(r.who), pub, m) # <<>>
  BY DEF SignRequest
<1>2. "epoch" \in DOMAIN path
  BY PathParts
<1>3. pub.epoch = r.epoch
  BY PubParts
<1>4. leaf = SignedLeaf(On(cfg.sk > 0, SkOf(p["sk"])), On(cfg.schema # <<>>, AttrsOf(p["attrs"])),
                        path, IdOf(p["id"]), pub)
  OBVIOUS
<1> HIDE DEF sk, attrs, id, m
<1>5. /\ Validate(cfg)
      /\ V6(cfg) => ~ pub.epoch >= 2 ^ cfg.depth_e
      /\ Meets(leaf, path, pub)
      /\ cfg.depth_s > 0 => cfg.scope > 0 /\ NonMember(cfg.tree, pub.T, path.spent, pub.spent)
      /\ BoundsTotal(cfg) > 0 => Len(pub.bounds) = BoundsTotal(cfg)
      /\ PredicatesHold(cfg, [attrs |-> attrs],
                        [bounds |-> IF BoundsTotal(cfg) > 0 THEN pub.bounds ELSE <<>>])
  BY <1>1, <1>2, SignMeets
<1>6. PICK q : q = p
  OBVIOUS
<1> HIDE DEF leaf
<1>7. /\ V6(cfg) =>
           leaf = EpochLeaf(Walk(EpochOf(cfg), LeafNode(EpochOf(cfg), EpochKeyOf(q["sk"], r.epoch)),
                                 path.epoch_siblings, r.epoch), q, r.who)
      /\ ~ V6(cfg) =>
           /\ cfg.sk > 0
           /\ leaf = LeafNode(OwfOf(cfg), SkOf(q["sk"]) \o AttrPart(q["attrs"]) \o IdPart(q["id"]))
  BY <1>3, <1>4, <1>5, <1>6, LeafOfRequest
<1>8. MadeFor(r, path, pub)
  <2>1. CASE V6(cfg)
    <3>1. r.epoch \in Nat /\ 2 ^ cfg.depth_e \in Nat
      BY SetupTypes, PowerPositive DEF Requested
    <3>2. r.epoch < 2 ^ cfg.depth_e
      BY <1>3, <1>5, <2>1, <3>1
    <3>3. /\ leaf = ring[1].leaves[r.slot - 1]
          /\ "sk" \in DOMAIN enrolled[r.slot]
          /\ \A f \in DOMAIN enrolled[r.slot] : enrolled[r.slot][f] = Supplies(r)[f]
      BY <1>5, <1>6, <1>7, <2>1, <3>2, OwnEpochLeaf
    <3> QED
      BY <1>5, <3>3 DEF MadeFor
  <2>2. CASE ~ V6(cfg)
    <3>1. /\ leaf = ring[1].leaves[r.slot - 1]
          /\ "sk" \in DOMAIN enrolled[r.slot]
          /\ \A f \in DOMAIN enrolled[r.slot] : enrolled[r.slot][f] = Supplies(r)[f]
      BY <1>5, <1>6, <1>7, <2>2, OwnPlainLeaf
    <3> QED
      BY <1>5, <3>1 DEF MadeFor
  <2> QED
    BY <2>1, <2>2
<1> QED
  BY <1>5, <1>8 DEF attrs, p

-----------------------------------------------------------------------------
(* What else a signature that was made says.                                *)

LEMMA PassesOnly ==
  ASSUME setup \in Setups, NEW r, NEW pub, pub = PubOf(r), NEW p \in People,
         BoundsTotal(cfg) > 0 => Len(pub.bounds) = BoundsTotal(cfg),
         PredicatesHold(cfg, [attrs |-> AttrsOf(p)],
                        [bounds |-> IF BoundsTotal(cfg) > 0 THEN pub.bounds ELSE <<>>])
  PROVE  p \in setup.passes
<1> DEFINE b == setup.bounds
           n == BoundsTotal(cfg)
           zero == <<0>>
           longer == b \o zero
           asked == pub.bounds
<1>1. b \in Seq(Nat) /\ zero \in Seq(Nat) /\ Len(zero) = 1 /\ Len(b) = n
  BY SetupTypes
<1>2. asked = b \/ asked = longer
  BY PubParts
<1>3. n > 0 => Len(asked) = n
  OBVIOUS
<1> HIDE DEF b, n, zero, asked
<1>4. ConcatOf(longer, b, zero)
  BY <1>1, ConcatCells
<1> HIDE DEF longer
<1>5. Len(b) \in Nat /\ Len(longer) = Len(b) + 1
  BY <1>1, <1>4 DEF ConcatOf
<1>6. n \in Nat /\ Len(longer) # n
  BY <1>1, <1>5
<1>7. (IF n > 0 THEN asked ELSE <<>>) = b
  <2>1. CASE n > 0
    BY <1>2, <1>3, <1>6, <2>1
  <2>2. CASE ~ n > 0
    <3>1. Len(b) = 0
      BY <1>1, <1>6, <2>2
    <3>2. b = <<>>
      BY <1>1, <3>1
    <3> QED
      BY <2>2, <3>2
  <2> QED
    BY <2>1, <2>2
<1>8. PredicatesHold(cfg, [attrs |-> AttrsOf(p)], [bounds |-> b])
  BY <1>7 DEF n, asked
<1>9. PredicatesHold(setup.cfg, [attrs |-> setup.attrs[p]], [bounds |-> setup.bounds])
  BY <1>8 DEF cfg, AttrsOf, b
<1> QED
  BY <1>9, PassesAssumption

\* Members enrolled with the same fields have the same leaf.
LEMMA SameLeaf ==
  ASSUME setup \in Setups, ~ setup.v1 /\ V6(cfg) => cfg.sk = 0,
         NEW e, NEW x, Enrolled(x, e), NEW y, Enrolled(y, e)
  PROVE  x = y
<1> DEFINE Filed(z) == DOMAIN e = Wanted(cfg) /\ z = EndLeaf(Filled(e))
           Laid1(z) == ~ setup.v1 /\ V6(cfg) /\ \E p \in People : e = Alone(p) /\ z = MemberLeaf(p)
<1>1. Filed(x) \/ Laid1(x)
  BY DEF Enrolled
<1>2. Filed(y) \/ Laid1(y)
  BY DEF Enrolled
<1>3. ASSUME NEW z, NEW w, Filed(z), Laid1(w) PROVE FALSE
  <2>1. cfg.sk = 0 /\ DOMAIN e = Wanted(cfg)
    BY <1>3
  <2>2. "sk" \in DOMAIN e
    BY <1>3 DEF Alone
  <2> QED
    BY <2>1, <2>2, WantedFacts
<1>4. Laid1(x) /\ Laid1(y) => x = y
  <2> SUFFICES ASSUME Laid1(x), Laid1(y) PROVE x = y
    OBVIOUS
  <2>1. PICK p \in People : e = Alone(p) /\ x = MemberLeaf(p)
    OBVIOUS
  <2>2. PICK q \in People : e = Alone(q) /\ y = MemberLeaf(q)
    OBVIOUS
  <2>3. e["sk"] = p /\ e["sk"] = q
    BY <2>1, <2>2 DEF Alone
  <2> QED
    BY <2>1, <2>2, <2>3
<1>5. Filed(x) /\ Filed(y) => x = y
  OBVIOUS
<1> HIDE DEF Filed, Laid1
<1> QED
  BY <1>1, <1>2, <1>3, <1>4, <1>5

\* Nobody enrolled as the signer is in the revocation tree.
LEMMA NotRevoked ==
  ASSUME setup \in Setups, ~ setup.v1 /\ V6(cfg) => cfg.sk = 0, LayInv, NamedInv, ring # <<>>,
         cfg.depth_r > 0, NEW r, r.slot \in Slots, NEW pub, pub = PubOf(r), NEW path, path = PathOf(r, pub),
         MadeFor(r, path, pub)
  PROVE  RevOf(r) \cap SameAs(r.slot) = {}
<1> DEFINE h == cfg.tree
           d == cfg.depth_r
           vb == cfg.tree.node
           values == RevValues(RevOf(r))
           adj == path.rev
           leaf == ring[1].leaves[r.slot - 1]
<1>1. h.mark \in Nat /\ d \in Nat
  BY SetupTypes
<1>2. values \in SUBSET Seq(Nat) /\ IsFiniteSet(values)
  <2>1. RevOf(r) \in {{}, revoked}
    BY DEF RevOf
  <2> QED
    BY <2>1, RevTyped
<1>3. TypedAdjacent(adj, d)
  <2>1. adj = RevRecord(r)
    BY PathParts
  <2> QED
    BY <2>1, RevRecordAdjacent
<1>4. NonMember(h, leaf, adj, Given(ImtRoot(h, RecordsOf(values, d), d, vb)))
  <2>1. NonMember(h, leaf, adj, pub.rev)
    BY DEF MadeFor, Meets
  <2>2. pub.rev = RevRoot(RevOf(r))
    BY PubParts
  <2>3. RevRoot(RevOf(r)) = Given(ImtRoot(h, RecordsOf(values, d), d, vb))
    BY DEF RevRoot, RootOf, On
  <2> HIDE DEF leaf, adj, values
  <2> QED
    BY <2>1, <2>2, <2>3
<1> HIDE DEF h, d, vb, adj, values
<1>5. leaf \notin values
  <2> HIDE DEF leaf
  <2> QED
    BY <1>1, <1>2, <1>3, <1>4, AbsenceSound
<1>6. ASSUME NEW i \in RevOf(r) \cap SameAs(r.slot) PROVE FALSE
  <2>1. i \in Slots /\ enrolled[i] = enrolled[r.slot]
    BY <1>6 DEF SameAs
  <2>2. Enrolled(ring[1].leaves[i - 1], enrolled[i]) /\ Enrolled(leaf, enrolled[r.slot])
    BY <2>1 DEF NamedInv
  <2>3. ring[1].leaves[i - 1] = leaf
    <3>1. PICK x, y, e : x = ring[1].leaves[i - 1] /\ y = leaf /\ e = enrolled[i]
      OBVIOUS
    <3>2. Enrolled(x, e) /\ Enrolled(y, e)
      BY <2>1, <2>2, <3>1
    <3>3. x = y
      BY <3>2, SameLeaf
    <3> QED
      BY <3>1, <3>3
  <2>4. ring[1].leaves[i - 1] \in values
    BY <1>6 DEF values, RevValues
  <2> QED
    BY <1>5, <2>3, <2>4
<1> QED
  BY <1>6

\* What is shown was not shown before.
LEMMA NotShown ==
  ASSUME setup \in Setups, NullifierInv, ring # <<>>, cfg.depth_s > 0, cfg.scope > 0,
         NEW r, Requested(r), NEW pub, pub = PubOf(r), NEW path, path = PathOf(r, pub),
         SignRequest(r, pub, path) # <<>>,
         NonMember(cfg.tree, pub.T, path.spent, pub.spent)
  PROVE  ShowOf(r) \notin (IF r.dev = "stale" THEN {} ELSE {a.show : a \in accepted})
<1> DEFINE h == cfg.tree
           d == cfg.depth_s
           vb == NullifierBytes(cfg)
           values == SpentOf(r)
           adj == path.spent
           target == pub.T
           s == [proof |-> SignRequest(r, pub, path)[1], pub |-> pub]
<1>1. h.mark \in Nat /\ d \in Nat
  BY SetupTypes
<1>2. values \in SUBSET Seq(Nat) /\ IsFiniteSet(values)
  BY SpentTyped, FS_EmptySet DEF SpentOf
<1>3. adj = Adjacent(values, d, vb, target)
  BY PathParts
<1>4. target = NullifierOf(ShowOf(r))
  <2>1. BoundTo(s, r)
    BY SignedIsBound
  <2>2. s.pub = pub
    OBVIOUS
  <2> HIDE DEF s
  <2> QED
    BY <2>1, <2>2 DEF BoundTo
<1>5. NonMember(h, target, adj, Given(ImtRoot(h, RecordsOf(values, d), d, vb)))
  <2>1. pub.spent = SpentRoot(SpentOf(r))
    BY PubParts
  <2>2. SpentRoot(SpentOf(r)) = Given(ImtRoot(h, RecordsOf(values, d), d, vb))
    BY DEF SpentRoot, RootOf, On
  <2> HIDE DEF values, adj, target
  <2>3. NonMember(h, target, adj, pub.spent)
    BY DEF adj, target
  <2> QED
    BY <2>1, <2>2, <2>3
<1> HIDE DEF values, adj, target, vb, s
<1>6. TypedAdjacent(adj, d)
  BY <1>1, <1>2, <1>3, AdjacentTyped
<1> HIDE DEF h, d
<1>7. target \notin values
  BY <1>1, <1>2, <1>5, <1>6, AbsenceSound
<1>8. ASSUME r.dev # "stale", NEW a \in accepted, a.show = ShowOf(r) PROVE FALSE
  <2>1. a.T = NullifierOf(a.show)
    BY DEF NullifierInv
  <2>2. a.T \in values
    BY <1>8 DEF values, SpentOf, SpentValues
  <2> QED
    BY <1>4, <1>7, <1>8, <2>1, <2>2
<1> QED
  BY <1>8

\* A signature that was made was made for one entitled to it.
LEMMA MadeIsEntitled ==
  ASSUME setup \in Setups, LayInv, NullifierInv, NamedInv, ring # <<>>,
         NEW r, Requested(r), r.dev \in setup.devs, r.slot \in Slots, NEW pub, pub = PubOf(r),
         NEW path, path = PathOf(r, pub), SignRequest(r, pub, path) # <<>>,
         NEW t, t.req = r, t.revoked = RevOf(r),
         t.shows = IF r.dev = "stale" THEN {} ELSE {a.show : a \in accepted}
  PROVE  Entitled(t)
<1> DEFINE p == Supplies(r)
<1>1. p["attrs"] \in People
  BY SuppliedBy DEF Requested, Fields
<1>2. CASE setup.v1
  <2>1. MadeFor(r, path, pub)
    BY <1>2, LeafIsOwnV1 DEF MadeFor
  <2>2. cfg.depth_r > 0 => t.revoked \cap SameAs(r.slot) = {}
    BY <1>2, <2>1, NotRevoked
  <2>3. cfg.schema = <<>> /\ cfg.depth_s = 0
    BY <1>2, WidthAssumption, SetupTypes DEF cfg
  <2>4. ~ cfg.depth_s > 0
    BY <2>3
  <2> QED
    BY <2>1, <2>2, <2>3, <2>4 DEF Entitled, MadeFor
<1>3. CASE ~ setup.v1
  <2>1. /\ MadeFor(r, path, pub) /\ Validate(cfg)
        /\ cfg.depth_s > 0 => cfg.scope > 0 /\ NonMember(cfg.tree, pub.T, path.spent, pub.spent)
        /\ BoundsTotal(cfg) > 0 => Len(pub.bounds) = BoundsTotal(cfg)
        /\ PredicatesHold(cfg, [attrs |-> On(cfg.schema # <<>>, AttrsOf(p["attrs"]))],
                          [bounds |-> IF BoundsTotal(cfg) > 0 THEN pub.bounds ELSE <<>>])
    BY <1>3, LeafIsOwn
  <2>2. cfg.schema # <<>> => p["attrs"] \in setup.passes
    <3> SUFFICES ASSUME cfg.schema # <<>> PROVE p["attrs"] \in setup.passes
      OBVIOUS
    <3>1. PICK q \in People : q = p["attrs"]
      BY <1>1
    <3>2. On(cfg.schema # <<>>, AttrsOf(q)) = AttrsOf(q)
      BY DEF On
    <3>3. PredicatesHold(cfg, [attrs |-> AttrsOf(q)],
                         [bounds |-> IF BoundsTotal(cfg) > 0 THEN pub.bounds ELSE <<>>])
      BY <2>1, <3>1, <3>2
    <3>4. q \in setup.passes
      BY <2>1, <3>3, PassesOnly
    <3> QED
      BY <3>1, <3>4
  <2>3. V6(cfg) => cfg.sk = 0
    BY <2>1, SetupTypes DEF V6, Validate
  <2>4. cfg.depth_r > 0 => t.revoked \cap SameAs(r.slot) = {}
    BY <2>1, <2>3, NotRevoked
  <2>5. cfg.depth_s > 0 => ShowOf(r) \notin t.shows
    BY <2>1, NotShown
  <2> QED
    BY <2>1, <2>2, <2>4, <2>5 DEF Entitled, MadeFor
<1> QED
  BY <1>2, <1>3

LEMMA TryEntitled ==
  ASSUME Control, LayInv, NullifierInv, NamedInv, Try
  PROVE  SignsOnlyEntitled'
<1>1. PICK who \in People, slot \in Slots, dev \in Devs, scope \in setup.scopes, epoch \in setup.epochs :
        LET r == [who |-> who, slot |-> slot, dev |-> dev, scope |-> scope, epoch |-> epoch]
        IN  \E pub \in {PubOf(r)} : \E proof \in {SignRequest(r, pub, PathOf(r, pub))} :
              /\ sig' = IF proof = <<>> THEN <<>> ELSE <<[proof |-> proof[1], pub |-> pub]>>
              /\ tried' = <<[req |-> r, made |-> proof # <<>>, revoked |-> RevOf(r),
                             shows |-> IF dev = "stale" THEN {} ELSE {a.show : a \in accepted}]>>
  BY DEF Try
<1> DEFINE r == [who |-> who, slot |-> slot, dev |-> dev, scope |-> scope, epoch |-> epoch]
           pub == PubOf(r)
           path == PathOf(r, pub)
           proof == SignRequest(r, pub, path)
           shows == IF dev = "stale" THEN {} ELSE {a.show : a \in accepted}
           t == [req |-> r, made |-> proof # <<>>, revoked |-> RevOf(r), shows |-> shows]
<1>2. r.who = who /\ r.slot = slot /\ r.scope = scope /\ r.epoch = epoch /\ r.dev = dev
  OBVIOUS
<1>3. tried' = <<t>>
  BY <1>1
<1>4. ring # <<>> /\ UNCHANGED <<setup, enrolled, ring, revoked, accepted>> /\ setup \in Setups
  BY DEF Try, Control
<1> HIDE DEF r
<1>5. Requested(r) /\ r.dev \in setup.devs /\ r.slot \in Slots
  BY <1>2 DEF Requested, Devs
<1>6. t.req = r /\ t.revoked = RevOf(r) /\ t.shows = shows /\ (t.made <=> proof # <<>>)
  OBVIOUS
<1>7. pub = PubOf(r) /\ path = PathOf(r, pub) /\ proof = SignRequest(r, pub, path)
  OBVIOUS
<1>8. shows = IF r.dev = "stale" THEN {} ELSE {a.show : a \in accepted}
  BY <1>2
<1> HIDE DEF pub, path, proof, shows, t
<1>9. proof # <<>> => Entitled(t)
  <2> SUFFICES ASSUME proof # <<>> PROVE Entitled(t)
    OBVIOUS
  <2>1. SignRequest(r, pub, path) # <<>>
    BY <1>7
  <2>2. t.shows = IF r.dev = "stale" THEN {} ELSE {a.show : a \in accepted}
    BY <1>6, <1>8
  <2> QED
    BY <1>4, <1>5, <1>6, <1>7, <2>1, <2>2, MadeIsEntitled
<1>10. \A x : Entitled(x)' <=> Entitled(x)
  BY <1>4 DEF Entitled, SameAs, Slots, cfg, ShowOf, V6
<1>11. PICK w : w = t
  OBVIOUS
<1>12. tried' = <<w>> /\ (w.made => Entitled(w)')
  BY <1>3, <1>6, <1>9, <1>10, <1>11
<1> QED
  BY <1>12 DEF SignsOnlyEntitled

-----------------------------------------------------------------------------
(* The issuer enrols whom it says it enrols.                                *)

\* A builder says what it holds.
LEMMA BuildingParts ==
  ASSUME NEW b, NEW c, NEW m, NEW st, NEW lv, Building(b, c, m, st, lv)
  PROVE  /\ b = <<BuilderOf(c, m, st, lv)>> /\ b[1] = BuilderOf(c, m, st, lv) /\ b # <<>>
         /\ b[1].cursor = c /\ b[1].in_member = m /\ b[1].staged = st /\ b[1].leaves = lv
<1>1. b = <<BuilderOf(c, m, st, lv)>>
  BY DEF Building
<1> DEFINE x == BuilderOf(c, m, st, lv)
<1>2. x.cursor = c /\ x.in_member = m /\ x.staged = st /\ x.leaves = lv
  BY DEF BuilderOf
<1> HIDE DEF x
<1>3. b = <<x>>
  BY <1>1 DEF x
<1>4. b[1] = x /\ b # <<>>
  BY <1>3
<1> QED
  BY <1>1, <1>2, <1>4 DEF x

LEMMA BeginExactly ==
  ASSUME NEW b, NEW c, NEW m, NEW st, NEW lv, Building(b, c, m, st, lv), MemberBegin(b[1]) # <<>>
  PROVE  Building(MemberBegin(b[1]), c, Yes, Unset, lv)
<1>1. PICK st2 : Building(MemberBegin(b[1]), c, Yes, st2, lv)
  BY BeginBuilds
<1>2. MemberBegin(b[1]) = <<BuilderOf(c, Yes, Unset, lv)>>
  BY BeginMakes, BuildingParts
<1>3. PICK x : x = MemberBegin(b[1])
  OBVIOUS
<1>4. x[1].staged = st2
  BY <1>1, <1>3, BuildingParts
<1>5. x[1].staged = Unset
  BY <1>2, <1>3 DEF BuilderOf
<1> QED
  BY <1>1, <1>4, <1>5

LEMMA SetExactly ==
  ASSUME NEW b, NEW c, NEW m, NEW st, NEW lv, Building(b, c, m, st, lv),
         NEW f, NEW data \in Seq(Nat), NEW ok, MemberSet(b[1], f, data, ok) # <<>>
  PROVE  Building(MemberSet(b[1], f, data, ok), c, m, With(st, f, data), lv)
<1>1. PICK st2 : Building(MemberSet(b[1], f, data, ok), c, m, st2, lv)
  BY SetBuilds
<1>2. PICK st3 : st3 = With(st, f, data)
  OBVIOUS
<1>3. MemberSet(b[1], f, data, ok) = <<BuilderOf(c, m, st3, lv)>>
  BY <1>2, SetMakes, BuildingParts
<1>4. PICK x : x = MemberSet(b[1], f, data, ok)
  OBVIOUS
<1>5. x[1].staged = st2
  BY <1>1, <1>4, BuildingParts
<1>6. x[1].staged = st3
  BY <1>3, <1>4 DEF BuilderOf
<1> QED
  BY <1>1, <1>2, <1>5, <1>6

LEMMA EndExactly ==
  ASSUME setup \in Setups, NEW b, NEW c, NEW m, NEW st, NEW lv, Building(b, c, m, st, lv),
         MemberEnd(b[1]) # <<>>
  PROVE  /\ m = Yes /\ DOMAIN st = Wanted(cfg) /\ EndFits
         /\ Building(MemberEnd(b[1]), c + 1, No, st, [lv EXCEPT ![c] = EndLeaf(st)])
         /\ c \in Recs(cfg.depth_m)
<1>1. PICK lv2 : Building(MemberEnd(b[1]), c + 1, No, st, lv2)
  BY EndBuilds
<1>2. PICK lv3 : lv3 = [lv EXCEPT ![c] = EndLeaf(st)]
  OBVIOUS
<1>3. m # No /\ DOMAIN st = Wanted(cfg) /\ MemberEnd(b[1]) = <<BuilderOf(c + 1, No, st, lv3)>>
  <2>1. PICK y : y = b[1]
    OBVIOUS
  <2>2. y = BuilderOf(c, m, st, lv) /\ MemberEnd(y) # <<>>
    BY <2>1, BuildingParts
  <2>3. /\ m # No /\ DOMAIN st = Wanted(cfg)
        /\ MemberEnd(y) = <<BuilderOf(c + 1, No, st, [lv EXCEPT ![c] = EndLeaf(st)])>>
    BY <2>2, EndMakes
  <2> QED
    BY <1>2, <2>1, <2>3
<1>4. PICK x : x = MemberEnd(b[1])
  OBVIOUS
<1>5. x[1].leaves = lv2
  BY <1>1, <1>4, BuildingParts
<1>6. x[1].leaves = lv3
  BY <1>3, <1>4 DEF BuilderOf
<1>7. EndFits
  <2>1. PICK y : y = b[1]
    OBVIOUS
  <2>2. y = BuilderOf(c, m, st, lv) /\ MemberEnd(y) # <<>>
    BY <2>1, BuildingParts
  <2>3. y.cfg = cfg
    BY <2>2 DEF BuilderOf
  <2> QED
    BY <2>2, <2>3 DEF MemberEnd, EndFits
<1>8. m = Yes
  BY <1>3 DEF Building
<1>9. c \in Recs(cfg.depth_m)
  <2>1. c \in Nat /\ c < Len(setup.offers) /\ Len(setup.offers) <= Capacity(cfg)
    BY <1>8 DEF Building
  <2>2. Len(setup.offers) \in Nat /\ Capacity(cfg) \in Nat /\ Capacity(cfg) = 2 ^ cfg.depth_m
    BY SetupTypes, PowerPositive DEF Capacity
  <2> QED
    BY <2>1, <2>2 DEF Recs
<1> QED
  BY <1>1, <1>2, <1>3, <1>5, <1>6, <1>7, <1>8, <1>9

\* A member whose fields were given is enrolled with them.
LEMMA EndedLeaf ==
  ASSUME NEW st, DOMAIN st = Wanted(cfg), EndFits, NEW e, DOMAIN e = Wanted(cfg),
         \A f \in DOMAIN e : e[f] \in People /\ st[f] = Data(f, e[f])
  PROVE  Enrolled(EndLeaf(st), e)
<1>1. \A f : EndPart(st, f) = EndPart(Filled(e), f)
  BY DEF EndPart, Filled
<1>2. EndLeaf(st) = EndLeaf(Filled(e))
  BY <1>1 DEF EndLeaf
<1> QED
  BY <1>2 DEF Enrolled

\* A member enrolled in one call: begun, given its key and attributes, ended.
LEMMA EnrolExactly ==
  ASSUME setup \in Setups, cfg.sk > 0, NEW b, NEW c, NEW st, NEW lv, Building(b, c, No, st, lv),
         c < Len(setup.offers), NEW sks, NEW attrs, NEW i, NEW q \in People,
         sks[i] = SkOf(q), AttrTotal(cfg) > 0 => attrs[i] = AttrsOf(q),
         Enrol(cfg, b[1], sks, attrs, i) # <<>>
  PROVE  /\ c \in Recs(cfg.depth_m)
         /\ \E st2, x : /\ Building(Enrol(cfg, b[1], sks, attrs, i), c + 1, No, st2, [lv EXCEPT ![c] = x])
                        /\ Enrolled(x, Alone(q))
<1> DEFINE begun == MemberBegin(b[1])
           keyed == MemberSet(begun[1], "sk", sks[i], TRUE)
           full == IF AttrTotal(cfg) > 0 THEN MemberSet(keyed[1], "attrs", attrs[i], TRUE) ELSE keyed
           Own1(s) == \A f \in DOMAIN s : f \in Fields /\ s[f] = Data(f, q)
<1>0. Enrol(cfg, b[1], sks, attrs, i) = MemberEnd(full[1])
  BY DEF Enrol
<1>1. Building(begun, c, Yes, Unset, lv)
  BY BeginGoes, BeginExactly
<1> HIDE DEF begun
<1>2. \E s : Building(keyed, c, Yes, s, lv) /\ Own1(s)
  <2>1. "sk" \in Wanted(cfg) /\ sks[i] \in Seq(Nat)
    BY PeopleTypes DEF Wanted, Fields
  <2> DEFINE s == With(Unset, "sk", sks[i])
  <2>2. Building(keyed, c, Yes, s, lv)
    BY <1>1, <2>1, SetGoes, SetExactly
  <2>3. Own1(s)
    BY DEF With, Unset, Data, Fields
  <2> QED
    BY <2>2, <2>3
<1> HIDE DEF keyed
<1>3. \E s : Building(full, c, Yes, s, lv) /\ Own1(s)
  <2>1. CASE AttrTotal(cfg) > 0
    <3>1. PICK s1 : Building(keyed, c, Yes, s1, lv) /\ Own1(s1)
      BY <1>2
    <3>2. "attrs" \in Wanted(cfg) /\ attrs[i] \in Seq(Nat) /\ attrs[i] = AttrsOf(q)
      BY <2>1, PeopleTypes DEF Wanted, Fields
    <3> DEFINE s == With(s1, "attrs", attrs[i])
    <3>3. Building(full, c, Yes, s, lv)
      BY <2>1, <3>1, <3>2, SetGoes, SetExactly
    <3>4. Own1(s)
      BY <3>1, <3>2 DEF With, Data, Fields
    <3> QED
      BY <3>3, <3>4
  <2> QED
    BY <1>2, <2>1
<1> HIDE DEF full
<1>4. PICK s : Building(full, c, Yes, s, lv) /\ Own1(s)
  BY <1>3
<1>5. MemberEnd(full[1]) # <<>>
  BY <1>0
<1>6. /\ DOMAIN s = Wanted(cfg) /\ EndFits /\ c \in Recs(cfg.depth_m)
      /\ Building(MemberEnd(full[1]), c + 1, No, s, [lv EXCEPT ![c] = EndLeaf(s)])
  BY <1>4, <1>5, EndExactly
<1>7. Enrolled(EndLeaf(s), Alone(q))
  <2>1. "sk" \in Wanted(cfg)
    BY WantedFacts
  <2>2. DOMAIN Alone(q) = Wanted(cfg) /\ \A f \in DOMAIN Alone(q) : Alone(q)[f] = q
    BY <2>1 DEF Alone
  <2> QED
    BY <1>4, <1>6, <2>2, EndedLeaf
<1> QED
  BY <1>0, <1>6, <1>7

\* The same for all of them.
LEMMA EnrolAllExactly ==
  ASSUME setup \in Setups, cfg.sk > 0, NEW b0, NEW st0, NEW lv0, Building(b0, 0, No, st0, lv0),
         NEW sks, NEW attrs, NEW n, n = Len(setup.offers), NEW who, \A i \in 1..n : who[i] \in People,
         \A i \in 1..n : sks[i] = SkOf(who[i]) /\ (AttrTotal(cfg) > 0 => attrs[i] = AttrsOf(who[i])),
         EnrolAll(cfg, b0, sks, attrs, n) # <<>>
  PROVE  \E st, lv : /\ Building(EnrolAll(cfg, b0, sks, attrs, n), n, No, st, lv)
                     /\ \A i \in 1..n : Enrolled(lv[i - 1], Alone(who[i]))
<1>0. n \in Nat
  BY SetupTypes
<1>1. PICK f : Stepped(f, b0, n, sks, attrs) /\ EnrolAll(cfg, b0, sks, attrs, n) = f[n]
  BY <1>0, EnrolAllUnfold
<1> DEFINE Named(lv, k) == \A i \in 1..k : Enrolled(lv[i - 1], Alone(who[i]))
           Is(k) == f[k] # <<>> => \E st, lv : Building(f[k], k, No, st, lv) /\ Named(lv, k)
           T == {k \in Nat : k <= n => Is(k)}
<1>2. f[0] = b0
  BY <1>0, <1>1 DEF Stepped
<1>3. 0 \in T
  BY <1>2
<1>4. ASSUME NEW k \in Nat, k \in T PROVE k + 1 \in T
  <2> SUFFICES ASSUME k + 1 <= n, f[k + 1] # <<>>
               PROVE  \E st, lv : Building(f[k + 1], k + 1, No, st, lv) /\ Named(lv, k + 1)
    OBVIOUS
  <2>1. k + 1 \in 0..n /\ k + 1 \in 1..n /\ k + 1 # 0 /\ (k + 1) - 1 = k /\ k <= n /\ k < n
    BY <1>0
  <2>2. f[k + 1] = IF f[k] = <<>> THEN <<>> ELSE Enrol(cfg, f[k][1], sks, attrs, k + 1)
    BY <1>1, <2>1 DEF Stepped
  <2>3. f[k] # <<>> /\ f[k + 1] = Enrol(cfg, f[k][1], sks, attrs, k + 1)
    BY <2>2
  <2>4. PICK st, lv : Building(f[k], k, No, st, lv) /\ Named(lv, k)
    BY <1>4, <2>1, <2>3
  <2> DEFINE b == f[k]
             x == f[k + 1]
             i == k + 1
             q == who[i]
  <2>5. /\ Building(b, k, No, st, lv) /\ k < Len(setup.offers) /\ i \in 1..n
        /\ x = Enrol(cfg, b[1], sks, attrs, i) /\ x # <<>>
    BY <2>1, <2>3, <2>4
  <2> HIDE DEF b, x, i
  <2>6. q \in People /\ sks[i] = SkOf(q) /\ (AttrTotal(cfg) > 0 => attrs[i] = AttrsOf(q))
    BY <2>5
  <2> HIDE DEF q
  <2>7. PICK st2, y : /\ k \in Recs(cfg.depth_m)
                      /\ Building(x, k + 1, No, st2, [lv EXCEPT ![k] = y])
                      /\ Enrolled(y, Alone(q))
    <3>1. Enrol(cfg, b[1], sks, attrs, i) # <<>>
      BY <2>5
    <3>2. /\ k \in Recs(cfg.depth_m)
          /\ \E st2, y : /\ Building(Enrol(cfg, b[1], sks, attrs, i), k + 1, No, st2, [lv EXCEPT ![k] = y])
                         /\ Enrolled(y, Alone(q))
      BY <2>5, <2>6, <3>1, EnrolExactly
    <3> QED
      BY <2>5, <3>2
  <2>8. PICK lv2 : lv2 = [lv EXCEPT ![k] = y]
    OBVIOUS
  <2>9. lv \in Nodes(cfg.depth_m) /\ cfg.depth_m \in Nat
    BY <2>5, SetupTypes DEF Building, Laid
  <2>10. lv2[k] = y /\ \A j \in 1..k : lv2[j - 1] = lv[j - 1]
    <3>1. PICK d \in Nat : d = cfg.depth_m
      BY <2>9
    <3>2. k \in Recs(d) /\ lv \in Nodes(d)
      BY <2>7, <2>9, <3>1
    <3>3. k \in DOMAIN lv /\ \A j \in 1..k : j - 1 # k
      BY <3>2 DEF Nodes, Recs
    <3>4. lv2[k] = y
      BY <2>8, <3>3
    <3>5. \A j \in 1..k : j - 1 \in DOMAIN lv
      BY <3>2, PowerPositive DEF Nodes, Recs
    <3>6. \A j \in 1..k : lv2[j - 1] = lv[j - 1]
      BY <2>8, <3>3, <3>5
    <3> QED
      BY <3>4, <3>6
  <2>11. Named(lv2, k + 1)
    <3> SUFFICES ASSUME NEW j \in 1..(k + 1) PROVE Enrolled(lv2[j - 1], Alone(who[j]))
      OBVIOUS
    <3>1. CASE j \in 1..k
      BY <2>4, <2>10, <3>1
    <3>2. CASE j = k + 1
      BY <2>1, <2>7, <2>10, <3>2 DEF q, i
    <3> QED
      BY <3>1, <3>2
  <2> HIDE DEF Named
  <2> QED
    BY <2>7, <2>8, <2>11 DEF x
<1> HIDE DEF T
<1>5. n \in T
  BY <1>0, <1>3, <1>4, NatSetInduction
<1> QED
  BY <1>0, <1>1, <1>5 DEF T

-----------------------------------------------------------------------------
(* A ring built at once.                                                    *)

Names(lv, who, n) == \A i \in 1..n : Enrolled(lv[i - 1], Alone(who[i]))

LEMMA RingBuildNames ==
  ASSUME setup \in Setups, ~ V6(cfg), NEW sks, NEW attrs, NEW n, n = Len(setup.offers),
         NEW who, \A i \in 1..n : who[i] \in People,
         \A i \in 1..n : sks[i] = SkOf(who[i]) /\ (AttrTotal(cfg) > 0 => attrs[i] = AttrsOf(who[i])),
         RingBuild(cfg, sks, attrs, n) # <<>>
  PROVE  \E lv : RingBuild(cfg, sks, attrs, n) = <<RingOf(cfg, lv)>> /\ Names(lv, who, n)
<1> DEFINE b0 == BuildInit(cfg, n)
           b == EnrolAll(cfg, b0, sks, attrs, n)
<1>1. b0 # <<>> /\ b # <<>> /\ RingBuild(cfg, sks, attrs, n) = BuildFinal(b[1]) /\ BuildFinal(b[1]) # <<>>
  BY DEF RingBuild
<1>2. PICK st0, lv0 : Building(b0, 0, No, st0, lv0)
  BY <1>1, InitBuilds
<1>3. cfg.sk > 0
  <2>1. Validate(cfg)
    BY <1>1 DEF BuildInit
  <2> QED
    BY <2>1 DEF Validate, Structural
<1> HIDE DEF b0
<1>4. PICK st, lv : Building(b, n, No, st, lv) /\ \A i \in 1..n : Enrolled(lv[i - 1], Alone(who[i]))
  BY <1>1, <1>2, <1>3, EnrolAllExactly
<1> HIDE DEF b
<1>5. BuildFinal(b[1]) = <<RingOf(cfg, lv)>>
  <2>1. PICK y : y = b[1]
    OBVIOUS
  <2>2. y.leaves = lv /\ y = BuilderOf(n, No, st, lv)
    BY <1>4, <2>1, BuildingParts
  <2>3. y.cfg = cfg
    BY <2>2 DEF BuilderOf
  <2>4. BuildFinal(y) # <<>>
    BY <1>1, <2>1
  <2>5. BuildFinal(y) = <<RingOf(cfg, lv)>>
    BY <2>2, <2>3, <2>4 DEF BuildFinal
  <2> QED
    BY <2>1, <2>5
<1> QED
  BY <1>1, <1>4, <1>5 DEF Names

\* A leaf of the key alone is that of a member of version 1.
LEMMA LeafV1 ==
  ASSUME setup \in Setups, setup.v1, cfg.sk > 0, NEW q \in People
  PROVE  Enrolled(LeafNode(OwfOf(cfg), SkOf(q)), Alone(q))
<1> DEFINE e == Alone(q)
           sk == SkOf(q)
<1>1. cfg.schema = <<>> /\ ~ V6(cfg) /\ cfg.opener # 1
  <2>1. cfg.schema = <<>> /\ cfg.depth_e = 0 /\ cfg.opener = 0
    BY WidthAssumption, SetupTypes DEF cfg
  <2> QED
    BY <2>1 DEF V6
<1>2. "sk" \in Wanted(cfg)
  BY WantedFacts
<1>3. DOMAIN e = Wanted(cfg) /\ \A f \in DOMAIN e : e[f] = q
  BY <1>2 DEF Alone
<1>4. e["sk"] = q
  BY <1>2, <1>3
<1>5. AttrPart(e["attrs"]) = <<>> /\ IdPart(e["id"]) = <<>>
  BY <1>1 DEF AttrPart, IdPart
<1>6. sk \in Seq(Nat)
  BY PeopleTypes
<1> HIDE DEF e
<1>7. EndLeaf(Filled(e)) = LeafNode(OwfOf(cfg), SkOf(e["sk"]) \o AttrPart(e["attrs"]) \o IdPart(e["id"]))
  BY FilledLeaf
<1>8. EndLeaf(Filled(e)) = LeafNode(OwfOf(cfg), sk \o <<>> \o <<>>)
  BY <1>4, <1>5, <1>7
<1> HIDE DEF sk
<1>9. sk \o <<>> = sk
  BY <1>6, NothingAdded
<1>10. LeafNode(OwfOf(cfg), sk) = EndLeaf(Filled(e))
  BY <1>8, <1>9
<1>11. Enrolled(LeafNode(OwfOf(cfg), sk), e)
  BY <1>1, <1>3, <1>10 DEF Enrolled
<1> QED
  BY <1>11 DEF e, sk

LEMMA AtOnceNames ==
  ASSUME setup \in Setups, NEW who \in [1..Len(setup.offers) -> People], RingAtOnce(who) # <<>>
  PROVE  \E lv : RingAtOnce(who) = <<RingOf(cfg, lv)>> /\ Names(lv, who, Len(who))
<1> DEFINE n == Len(who)
           sks == [i \in 1..n |-> SkOf(who[i])]
           attrs == IF AttrTotal(cfg) > 0 THEN [i \in 1..n |-> AttrsOf(who[i])] ELSE Absent
           d == cfg.depth_m
<1>1. n = Len(setup.offers) /\ n \in Nat /\ n <= Capacity(cfg) /\ d \in Nat
  <2>1. Len(setup.offers) \in Nat
    BY SetupTypes
  <2> QED
    BY <2>1, AtOnceStands, SetupTypes
<1>2. \A i \in 1..n : who[i] \in People
  BY <1>1
<1>3. Capacity(cfg) = 2 ^ d
  BY DEF Capacity
<1>4. CASE setup.v1
  <2> DEFINE lv == [i \in 0..(2 ^ d - 1) |-> IF i < n THEN LeafNode(OwfOf(cfg), sks[i + 1]) ELSE Vacant]
  <2>1. RingAtOnce(who) = RingBuildV1(cfg, sks, n)
    BY <1>4 DEF RingAtOnce
  <2>2. ValidateV1(cfg) /\ RingBuildV1(cfg, sks, n) = <<RingOf(cfg, lv)>>
    <3> HIDE DEF sks, n
    <3> QED
      BY <1>3, <2>1 DEF RingBuildV1
  <2>3. cfg.sk > 0
    BY <2>2 DEF ValidateV1, Structural
  <2>4. \A i \in 1..n : lv[i - 1] = LeafNode(OwfOf(cfg), SkOf(who[i]))
    <3> SUFFICES ASSUME NEW i \in 1..n PROVE lv[i - 1] = LeafNode(OwfOf(cfg), SkOf(who[i]))
      OBVIOUS
    <3>1. 2 ^ d \in Nat
      BY <1>1, PowerPositive
    <3> HIDE DEF n, d
    <3>2. i - 1 \in 0..(2 ^ d - 1) /\ i - 1 < n /\ (i - 1) + 1 = i
      BY <1>1, <1>3, <3>1
    <3> QED
      BY <3>2
  <2> HIDE DEF lv
  <2>5. ASSUME NEW i \in 1..n PROVE Enrolled(lv[i - 1], Alone(who[i]))
    <3>1. PICK q \in People : q = who[i]
      BY <1>2
    <3>2. Enrolled(LeafNode(OwfOf(cfg), SkOf(q)), Alone(q))
      BY <1>4, <2>3, LeafV1
    <3> QED
      BY <2>4, <3>1, <3>2
  <2> QED
    BY <2>1, <2>2, <2>5 DEF Names
<1>5. CASE ~ setup.v1 /\ ~ V6(cfg)
  <2>1. RingAtOnce(who) = RingBuild(cfg, sks, attrs, n)
    BY <1>5 DEF RingAtOnce
  <2>2. \A i \in 1..n : sks[i] = SkOf(who[i]) /\ (AttrTotal(cfg) > 0 => attrs[i] = AttrsOf(who[i]))
    OBVIOUS
  <2> HIDE DEF n, sks, attrs
  <2> QED
    BY <1>1, <1>2, <1>5, <2>1, <2>2, RingBuildNames DEF n
<1>6. CASE ~ setup.v1 /\ V6(cfg)
  <2> DEFINE lv == [i \in 0..(2 ^ d - 1) |-> IF i < n THEN MemberLeaf(who[i + 1]) ELSE Vacant]
  <2>1. RingAtOnce(who) = <<RingOf(cfg, lv)>>
    BY <1>3, <1>6 DEF RingAtOnce
  <2>2. \A i \in 1..n : lv[i - 1] = MemberLeaf(who[i])
    <3> SUFFICES ASSUME NEW i \in 1..n PROVE lv[i - 1] = MemberLeaf(who[i])
      OBVIOUS
    <3>1. 2 ^ d \in Nat
      BY <1>1, PowerPositive
    <3> HIDE DEF n, d
    <3>2. i - 1 \in 0..(2 ^ d - 1) /\ i - 1 < n /\ (i - 1) + 1 = i
      BY <1>1, <1>3, <3>1
    <3> QED
      BY <3>2
  <2> HIDE DEF lv
  <2>3. ASSUME NEW i \in 1..n PROVE Enrolled(lv[i - 1], Alone(who[i]))
    <3>1. PICK q \in People : q = who[i]
      BY <1>2
    <3>2. lv[i - 1] = MemberLeaf(q)
      BY <2>2, <3>1
    <3>3. Enrolled(lv[i - 1], Alone(q))
      <4>1. \A f \in DOMAIN Alone(q) : Alone(q)[f] = q
        BY DEF Alone
      <4> QED
        BY <1>6, <3>2, <4>1 DEF Enrolled
    <3> QED
      BY <3>1, <3>3
  <2> QED
    BY <2>1, <2>3 DEF Names
<1> QED
  BY <1>4, <1>5, <1>6

-----------------------------------------------------------------------------
(* The names are kept.                                                      *)

LEMMA SameNames ==
  ASSUME setup' = setup
  PROVE  /\ cfg' = cfg
         /\ \A x, e : Enrolled(x, e)' <=> Enrolled(x, e)
         /\ \A st, who : Given1(st, who)' <=> Given1(st, who)
         /\ \A leaves : RingOf(cfg, leaves)' = RingOf(cfg, leaves)
<1>1. cfg' = cfg
  BY DEF cfg
<1>2. \A f, p : Data(f, p)' = Data(f, p)
  BY DEF Data, AttrsOf
<1>3. \A e : Filled(e)' = Filled(e)
  BY <1>1, <1>2 DEF Filled
<1>4. \A st : EndLeaf(st)' = EndLeaf(st)
  BY <1>1 DEF EndLeaf, EndPart
<1>5. EndFits' <=> EndFits
  BY <1>1 DEF EndFits
<1>6. \A p : Alone(p)' = Alone(p)
  BY <1>1 DEF Alone
<1>7. \A p : MemberLeaf(p)' = MemberLeaf(p)
  BY <1>1 DEF MemberLeaf, EpochLeaves, AttrsOf
<1>8. \A x, e : Enrolled(x, e)' <=> Enrolled(x, e)
  <2> TAKE x, e
  <2>1. EndLeaf(Filled(e))' = EndLeaf(Filled(e))
    BY <1>3, <1>4
  <2> QED
    BY <1>1, <1>5, <1>6, <1>7, <2>1 DEF Enrolled
<1>9. \A st, who : Given1(st, who)' <=> Given1(st, who)
  BY <1>2 DEF Given1
<1> QED
  BY <1>1, <1>8, <1>9

\* A builder that goes on.
LEMMA NamedBuilder ==
  ASSUME ~ setup.v1, setup' = setup, ring' = <<>>,
         NEW b, b = builder', NEW c, NEW m, NEW st, NEW lv, Building(b, c, m, st, lv),
         NEW w, w = said', m = Yes => Given1(st, w),
         NEW en, en = enrolled', \A i \in 1..Len(en) : Enrolled(lv[i - 1], en[i])
  PROVE  NamedInv'
<1>1. /\ b[1].in_member = m /\ b[1].staged = st /\ b[1].leaves = lv
  BY BuildingParts
<1>2. b[1].in_member => Given1(b[1].staged, w)
  <2>1. m \in {Yes, No}
    BY DEF Building
  <2> QED
    BY <1>1, <2>1 DEF Yes, No
<1>3. \A i \in 1..Len(en) : Enrolled(b[1].leaves[i - 1], en[i])
  BY <1>1
<1>4. /\ b[1].in_member => Given1(b[1].staged, w)'
      /\ \A i \in 1..Len(en) : Enrolled(b[1].leaves[i - 1], en[i])'
  BY <1>2, <1>3, SameNames
<1>5. Slots' = 1..Len(en)
  BY DEF Slots
<1> QED
  BY <1>4, <1>5 DEF NamedInv

\* A ring that was handed out.
LEMMA NamedRing ==
  ASSUME setup' = setup, builder' = <<>>, NEW lv, NEW en, en = enrolled',
         ring' = <<RingOf(cfg, lv)>>, \A i \in 1..Len(en) : Enrolled(lv[i - 1], en[i])
  PROVE  NamedInv'
<1>1. RingOf(cfg, lv).leaves = lv
  BY DEF RingOf
<1>2. PICK x : x = RingOf(cfg, lv)
  OBVIOUS
<1>3. ring' = <<x>> /\ x.leaves = lv /\ x = RingOf(cfg, x.leaves)
  BY <1>1, <1>2
<1>4. ring'[1] = x
  BY <1>3
<1>5. x = RingOf(cfg, x.leaves)'
  BY <1>3, SameNames
<1>6. \A i \in 1..Len(en) : Enrolled(x.leaves[i - 1], en[i])'
  BY <1>3, SameNames
<1>7. Slots' = 1..Len(en)
  BY DEF Slots
<1> QED
  BY <1>4, <1>5, <1>6, <1>7 DEF NamedInv

LEMMA NamedKeeps ==
  ASSUME NamedInv, UNCHANGED <<setup, builder, said, enrolled, ring>>
  PROVE  NamedInv'
<1>1. Slots' = Slots
  BY DEF Slots
<1>2. PICK b, r, w, en : b = builder /\ r = ring /\ w = said /\ en = enrolled
  OBVIOUS
<1>3. /\ b # <<>> =>
           /\ ~ setup.v1
           /\ b[1].in_member => Given1(b[1].staged, w)
           /\ \A i \in Slots : Enrolled(b[1].leaves[i - 1], en[i])
      /\ r # <<>> =>
           /\ r[1] = RingOf(cfg, r[1].leaves)
           /\ \A i \in Slots : Enrolled(r[1].leaves[i - 1], en[i])
  BY <1>2 DEF NamedInv
<1>4. /\ b # <<>> =>
           /\ ~ setup'.v1
           /\ b[1].in_member => Given1(b[1].staged, w)'
           /\ \A i \in Slots : Enrolled(b[1].leaves[i - 1], en[i])'
      /\ r # <<>> =>
           /\ r[1] = RingOf(cfg, r[1].leaves)'
           /\ \A i \in Slots : Enrolled(r[1].leaves[i - 1], en[i])'
  BY <1>3, SameNames
<1>5. b = builder' /\ r = ring' /\ w = said' /\ en = enrolled'
  BY <1>2
<1> QED
  BY <1>1, <1>4, <1>5 DEF NamedInv

LEMMA NamedInit == Init => NamedInv
<1> SUFFICES ASSUME Init PROVE NamedInv
  OBVIOUS
<1>1. enrolled = <<>> /\ ring = <<>> /\ setup \in Setups
      /\ builder = IF setup.v1 THEN <<>> ELSE BuildInit(setup.cfg, Len(setup.offers))
  BY DEF Init
<1>2. Slots = {}
  <2>1. Len(enrolled) = 0
    BY <1>1
  <2> QED
    BY <2>1 DEF Slots
<1>3. builder # <<>> => ~ setup.v1 /\ ~ builder[1].in_member
  <2> SUFFICES ASSUME builder # <<>> PROVE ~ setup.v1 /\ ~ builder[1].in_member
    OBVIOUS
  <2>1. ~ setup.v1
    BY <1>1
  <2>2. builder = BuildInit(cfg, Len(setup.offers))
    BY <1>1, <2>1 DEF cfg
  <2>3. PICK st, lv : Building(builder, 0, No, st, lv)
    BY <1>1, <2>2, InitBuilds
  <2>4. builder[1].in_member = No
    BY <2>3, BuildingParts
  <2> QED
    BY <2>1, <2>4 DEF No
<1> QED
  BY <1>1, <1>2, <1>3 DEF NamedInv

LEMMA NamedBegin == ASSUME LayInv, NamedInv, Begin PROVE NamedInv'
<1>1. /\ builder # <<>> /\ MemberBegin(builder[1]) # <<>> /\ builder' = MemberBegin(builder[1])
      /\ said' = <<>> /\ UNCHANGED <<setup, ring, enrolled>>
  BY DEF Begin
<1>2. PICK c, m, st, lv : Building(builder, c, m, st, lv) /\ Len(enrolled) = c
  BY <1>1 DEF LayInv, BuilderInv
<1>3. Building(builder', c, Yes, Unset, lv)
  BY <1>1, <1>2, BeginExactly
<1>4. ring' = <<>>
  BY <1>1 DEF LayInv, RingInv
<1>5. ~ setup.v1 /\ \A i \in 1..Len(enrolled) : Enrolled(lv[i - 1], enrolled[i])
  <2>1. builder[1].leaves = lv
    BY <1>2, BuildingParts
  <2> QED
    BY <1>1, <2>1 DEF NamedInv, Slots
<1>6. Given1(Unset, <<>>)
  BY DEF Given1, Unset
<1>7. PICK b, w, en : b = builder' /\ w = said' /\ en = enrolled'
  OBVIOUS
<1>8. /\ Building(b, c, Yes, Unset, lv) /\ Given1(Unset, w)
      /\ \A i \in 1..Len(en) : Enrolled(lv[i - 1], en[i])
  BY <1>1, <1>3, <1>5, <1>6, <1>7
<1> QED
  BY <1>1, <1>4, <1>5, <1>7, <1>8, NamedBuilder

LEMMA NamedSet == ASSUME setup \in Setups, LayInv, NamedInv, Set PROVE NamedInv'
<1>1. /\ builder # <<>> /\ builder[1].in_member /\ UNCHANGED <<setup, ring, enrolled>>
  BY DEF Set
<1>2. PICK f \in Fields, p \in setup.offers[builder[1].cursor + 1], ok \in BOOLEAN :
        /\ MemberSet(builder[1], f, Data(f, p), ok) # <<>>
        /\ builder' = MemberSet(builder[1], f, Data(f, p), ok) /\ said' = With(said, f, p)
  BY DEF Set
<1>3. PICK c, m, st, lv : Building(builder, c, m, st, lv) /\ Len(enrolled) = c
  BY <1>1 DEF LayInv, BuilderInv
<1>4. /\ builder[1].in_member = m /\ builder[1].cursor = c /\ builder[1].staged = st
      /\ builder[1].leaves = lv
  BY <1>3, BuildingParts
<1>5. m = Yes /\ c \in Nat /\ c < Len(setup.offers)
  <2>1. m \in {Yes, No} /\ (m = Yes => c \in Nat /\ c < Len(setup.offers))
    BY <1>3 DEF Building
  <2>2. m # No
    BY <1>1, <1>4 DEF No
  <2> QED
    BY <2>1, <2>2
<1>6. p \in People
  <2>1. setup.offers \in Seq(SUBSET People) /\ c + 1 \in 1..Len(setup.offers)
    BY <1>5, SetupTypes
  <2>2. setup.offers[c + 1] \subseteq People
    BY <2>1
  <2> QED
    BY <1>2, <1>4, <2>2
<1> DEFINE data == Data(f, p)
           staged == With(st, f, data)
           who == With(said, f, p)
<1>7. data \in Seq(Nat)
  BY <1>6, PeopleTypes
<1>8. Building(builder', c, m, staged, lv)
  <2> HIDE DEF data
  <2> QED
    BY <1>2, <1>3, <1>7, SetExactly DEF data
<1>9. Given1(st, said)
  BY <1>1, <1>4 DEF NamedInv
<1>10. Given1(staged, who)
  BY <1>6, <1>9 DEF Given1, With
<1>11. ring' = <<>>
  BY <1>1 DEF LayInv, RingInv
<1>12. ~ setup.v1 /\ \A i \in 1..Len(enrolled) : Enrolled(lv[i - 1], enrolled[i])
  BY <1>1, <1>4 DEF NamedInv, Slots
<1> HIDE DEF staged, who
<1>13. PICK b, w, en, s : b = builder' /\ w = said' /\ en = enrolled' /\ s = staged
  OBVIOUS
<1>14. /\ Building(b, c, m, s, lv) /\ Given1(s, w)
       /\ \A i \in 1..Len(en) : Enrolled(lv[i - 1], en[i])
  BY <1>1, <1>2, <1>8, <1>10, <1>12, <1>13 DEF who
<1> QED
  BY <1>1, <1>11, <1>12, <1>13, <1>14, NamedBuilder

LEMMA NamedEnd == ASSUME setup \in Setups, LayInv, NamedInv, End PROVE NamedInv'
<1>1. /\ builder # <<>> /\ MemberEnd(builder[1]) # <<>> /\ builder' = MemberEnd(builder[1])
      /\ enrolled' = Append(enrolled, said) /\ UNCHANGED <<setup, ring>>
  BY DEF End
<1>2. PICK c, m, st, lv : Building(builder, c, m, st, lv) /\ Len(enrolled) = c
  BY <1>1 DEF LayInv, BuilderInv
<1> DEFINE leaf == EndLeaf(st)
           lv2 == [lv EXCEPT ![c] = leaf]
<1>3. /\ m = Yes /\ DOMAIN st = Wanted(cfg) /\ EndFits /\ Building(builder', c + 1, No, st, lv2)
      /\ c \in Recs(cfg.depth_m)
  BY <1>1, <1>2, EndExactly
<1>4. /\ builder[1].in_member = m /\ builder[1].staged = st /\ builder[1].leaves = lv
  BY <1>2, BuildingParts
<1>5. Given1(st, said) /\ ~ setup.v1 /\ \A i \in 1..Len(enrolled) : Enrolled(lv[i - 1], enrolled[i])
  BY <1>1, <1>3, <1>4 DEF NamedInv, Slots, Yes
<1>6. Enrolled(leaf, said)
  BY <1>3, <1>5, EndedLeaf DEF Given1
<1>7. ring' = <<>>
  BY <1>1 DEF LayInv, RingInv
<1> HIDE DEF leaf
<1>8. lv2[c] = leaf /\ \A i \in 1..c : lv2[i - 1] = lv[i - 1]
  <2>1. lv \in Nodes(cfg.depth_m) /\ cfg.depth_m \in Nat
    BY <1>2, SetupTypes DEF Building, Laid
  <2>2. PICK d \in Nat : d = cfg.depth_m
    BY <2>1
  <2>3. c \in Recs(d) /\ lv \in Nodes(d)
    BY <1>3, <2>1, <2>2
  <2>4. c \in DOMAIN lv /\ \A i \in 1..c : i - 1 # c
    BY <2>3 DEF Nodes, Recs
  <2>5. \A i \in 1..c : i - 1 \in DOMAIN lv
    BY <2>3, PowerPositive DEF Nodes, Recs
  <2> QED
    BY <2>4, <2>5
<1> HIDE DEF lv2
<1>9. PICK S : enrolled \in Seq(S)
  BY DEF LayInv, RingInv
<1>10. /\ Len(enrolled') = c + 1 /\ enrolled'[c + 1] = said /\ c \in Nat
       /\ \A i \in 1..c : enrolled'[i] = enrolled[i]
  <2>1. enrolled \in Seq(S \cup {said})
    BY <1>9
  <2> QED
    BY <1>1, <1>2, <2>1
<1>11. ASSUME NEW i \in 1..Len(enrolled') PROVE Enrolled(lv2[i - 1], enrolled'[i])
  <2>1. CASE i = c + 1
    <3>1. i - 1 = c /\ lv2[i - 1] = leaf /\ enrolled'[i] = said
      BY <1>8, <1>10, <2>1
    <3>2. PICK x, y : x = lv2[i - 1] /\ y = enrolled'[i]
      OBVIOUS
    <3>3. x = leaf /\ y = said
      BY <3>1, <3>2
    <3>4. Enrolled(x, y)
      BY <1>6, <3>3
    <3> QED
      BY <3>2, <3>4
  <2>2. CASE i # c + 1
    <3>1. i \in 1..c
      BY <1>10, <2>2
    <3>2. lv2[i - 1] = lv[i - 1] /\ enrolled'[i] = enrolled[i] /\ i \in 1..Len(enrolled)
      BY <1>2, <1>8, <1>10, <3>1
    <3>3. Enrolled(lv[i - 1], enrolled[i])
      BY <1>5, <3>2
    <3> QED
      BY <3>2, <3>3
  <2> QED
    BY <2>1, <2>2
<1>12. PICK b, w, en, s : b = builder' /\ w = said' /\ en = enrolled' /\ s = lv2
  OBVIOUS
<1>13. Building(b, c + 1, No, st, s) /\ \A i \in 1..Len(en) : Enrolled(s[i - 1], en[i])
  BY <1>3, <1>11, <1>12 DEF lv2
<1>14. No # Yes
  BY DEF No, Yes
<1>15. PICK c2, no : c2 = c + 1 /\ no = No
  OBVIOUS
<1>16. Building(b, c2, no, st, s) /\ (no = Yes => Given1(st, w))
  BY <1>13, <1>14, <1>15
<1>17. setup' = setup /\ ~ setup.v1 /\ b = builder' /\ w = said' /\ en = enrolled'
  BY <1>1, <1>5, <1>12
<1>18. \A i \in 1..Len(en) : Enrolled(s[i - 1], en[i])
  BY <1>13
<1> QED
  BY ONLY <1>7, <1>16, <1>17, <1>18, NamedBuilder

LEMMA NamedFinal == ASSUME setup \in Setups, LayInv, NamedInv, Final PROVE NamedInv'
<1>1. /\ builder # <<>> /\ ring' = BuildFinal(builder[1]) /\ builder' = <<>>
      /\ enrolled' = IF ring' = <<>> THEN <<>> ELSE enrolled
      /\ UNCHANGED setup
  BY DEF Final
<1>2. CASE ring' = <<>>
  BY <1>1, <1>2 DEF NamedInv
<1>3. CASE ring' # <<>>
  <2>1. PICK c, m, st, lv : Building(builder, c, m, st, lv) /\ Len(enrolled) = c
    BY <1>1 DEF LayInv, BuilderInv
  <2>2. PICK y : y = builder[1]
    OBVIOUS
  <2>3. y = BuilderOf(c, m, st, lv) /\ y.leaves = lv
    BY <2>1, <2>2, BuildingParts
  <2>4. y.cfg = cfg
    BY <2>3 DEF BuilderOf
  <2>5. ring' = <<RingOf(cfg, lv)>>
    BY <1>1, <1>3, <2>2, <2>3, <2>4 DEF BuildFinal
  <2>6. \A i \in 1..Len(enrolled) : Enrolled(lv[i - 1], enrolled[i])
    BY <1>1, <2>2, <2>3 DEF NamedInv, Slots
  <2>7. PICK en : en = enrolled' /\ en = enrolled
    BY <1>1, <1>3
  <2> QED
    BY <1>1, <2>5, <2>6, <2>7, NamedRing
<1> QED
  BY <1>2, <1>3

LEMMA NamedAtOnce == ASSUME setup \in Setups, BuildAtOnce PROVE NamedInv'
<1>1. builder' = <<>> /\ UNCHANGED setup
  BY DEF BuildAtOnce
<1>2. PICK who \in [1..Len(setup.offers) -> People] :
        /\ RingAtOnce(who) # <<>> /\ ring' = RingAtOnce(who)
        /\ enrolled' = [i \in 1..Len(who) |-> [f \in {"sk"} \cup (Wanted(cfg) \ {"sk"}) |-> who[i]]]
  BY DEF BuildAtOnce
<1> DEFINE n == Len(who)
<1>3. n \in Nat
  BY <1>2, AtOnceStands, SetupTypes
<1>4. PICK lv : RingAtOnce(who) = <<RingOf(cfg, lv)>> /\ Names(lv, who, n)
  BY <1>2, AtOnceNames
<1>5. enrolled' = [i \in 1..n |-> Alone(who[i])]
  BY <1>2 DEF Alone
<1> HIDE DEF n
<1>6. PICK en : en = enrolled'
  OBVIOUS
<1>7. Len(en) = n /\ \A i \in 1..n : en[i] = Alone(who[i])
  BY <1>3, <1>5, <1>6
<1>8. \A i \in 1..Len(en) : Enrolled(lv[i - 1], en[i])
  BY <1>4, <1>7 DEF Names
<1> QED
  BY <1>1, <1>2, <1>4, <1>6, <1>8, NamedRing

LEMMA NamedNext == ASSUME Control, LayInv, NamedInv, [Next]_vars PROVE NamedInv'
<1>0. setup \in Setups
  BY DEF Control
<1>1. CASE Begin
  BY <1>1, NamedBegin
<1>2. CASE Set
  BY <1>0, <1>2, NamedSet
<1>3. CASE End
  BY <1>0, <1>3, NamedEnd
<1>4. CASE Final
  BY <1>0, <1>4, NamedFinal
<1>5. CASE BuildAtOnce
  BY <1>0, <1>5, NamedAtOnce
<1>6. CASE \/ UNCHANGED vars \/ Revoke \/ Try \/ SendBare \/ OpenPacker \/ Pack \/ Close \/ Spoil
           \/ Receive \/ Settle
  <2>1. UNCHANGED <<setup, builder, said, enrolled, ring>>
    BY <1>6 DEF vars, Revoke, Try, SendBare, OpenPacker, Pack, Close, Spoil, Receive, Settle
  <2> QED
    BY <2>1, NamedKeeps
<1> QED
  BY <1>1, <1>2, <1>3, <1>4, <1>5, <1>6 DEF Next

\* A verdict stands while the members stay who they are.
LEMMA EntitledKeeps ==
  ASSUME SignsOnlyEntitled, UNCHANGED <<setup, enrolled>>, tried' = tried \/ tried' = <<>>
  PROVE  SignsOnlyEntitled'
<1>1. CASE tried' = <<>>
  BY <1>1 DEF SignsOnlyEntitled
<1>2. CASE tried' = tried
  <2>1. \A x : Entitled(x)' <=> Entitled(x)
    BY DEF Entitled, SameAs, Slots, cfg, ShowOf, V6
  <2>2. ASSUME NEW i \in DOMAIN tried', tried'[i].made PROVE Entitled(tried[i])'
    <3>1. PICK x : x = tried[i]
      OBVIOUS
    <3>2. Entitled(x)
      BY <1>2, <2>2, <3>1 DEF SignsOnlyEntitled
    <3>3. Entitled(x)' /\ tried'[i] = x
      BY <1>2, <2>1, <3>1, <3>2
    <3> QED
      BY <3>3
  <2> QED
    BY <2>2 DEF SignsOnlyEntitled
<1> QED
  BY <1>1, <1>2

LEMMA EntitledNext ==
  ASSUME Control, LayInv, NullifierInv, NamedInv, SignsOnlyEntitled, [Next]_vars
  PROVE  SignsOnlyEntitled'
<1> USE DEF After
<1>0. (ring = <<>> => tried = <<>>) /\ (ring # <<>> => builder = <<>>)
  BY DEF LayInv, RingInv
<1>1. CASE End \/ Final \/ BuildAtOnce
  <2>1. tried' = tried
    BY <1>1 DEF End, Final, BuildAtOnce
  <2>2. tried = <<>>
    BY <1>0, <1>1 DEF End, Final, BuildAtOnce
  <2>3. DOMAIN tried' = {}
    BY <2>1, <2>2
  <2> QED
    BY <2>3 DEF SignsOnlyEntitled
<1>2. CASE Try
  BY <1>2, TryEntitled
<1>3. CASE \/ UNCHANGED vars \/ Begin \/ Set \/ Revoke \/ SendBare \/ OpenPacker \/ Pack \/ Close \/ Spoil
           \/ Receive \/ Settle
  <2>1. UNCHANGED <<setup, enrolled>> /\ (tried' = tried \/ tried' = <<>>)
    BY <1>3 DEF vars, Begin, Set, Revoke, SendBare, OpenPacker, Pack, Close, Spoil, Receive, Settle
  <2> QED
    BY <2>1, EntitledKeeps
<1> QED
  BY <1>1, <1>2, <1>3 DEF Next

MembersInv == LayInv /\ NamedInv /\ SignsOnlyEntitled

\* No signature is made but by the people whose fields were enrolled in the
\* slot, in whatever order and however often they were given, who satisfy the
\* predicates, are not in the revocation tree and have not shown in this scope,
\* whatever is wrong with the request: not for a neighbour's slot, not with
\* another's key, attributes or id, not over another epoch's path, not with an
\* index, bounds or a record that do not fit
\* (voleith_rs_ring_member_end, voleith_rs_ring_build, voleith_rs_sign,
\* voleith_rsv1_sign).
THEOREM SignsForMembersOnly == Spec => []SignsOnlyEntitled
<1>1. Init => MembersInv
  <2> SUFFICES ASSUME Init PROVE MembersInv
    OBVIOUS
  <2>1. DOMAIN tried = {}
    BY DEF Init
  <2>2. SignsOnlyEntitled
    BY <2>1 DEF SignsOnlyEntitled
  <2> QED
    BY <2>2, LayInit, NamedInit DEF MembersInv
<1>2. IInv /\ MembersInv /\ [Next]_vars => MembersInv'
  BY LayNext, NamedNext, EntitledNext DEF MembersInv, IInv
<1>3. MembersInv => SignsOnlyEntitled
  BY DEF MembersInv
<1> QED
  BY <1>1, <1>2, <1>3, RingInvariant, PTL DEF Spec
=============================================================================
