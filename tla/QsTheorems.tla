----------------------------- MODULE QsTheorems -----------------------------
(***************************************************************************)
(* Theorems of QsProof, for every set of programs, every table size and    *)
(* every ring of characteristic two.  The invariant says that the circuit  *)
(* is well formed and, as long as no allocation failed, the one circuit    *)
(* that the program has; so two circuits that agree in fingerprint are     *)
(* equal as records, and the completeness of QuickSilver, shown first of   *)
(* one circuit, applies to prover and verifier together.  The last part    *)
(* adds that such a circuit renders its calls: each gate, each constraint  *)
(* and each number of an input is a call's, so evaluating it evaluates the *)
(* program.                                                                *)
(***************************************************************************)
EXTENDS QsProof, LoopsProofs

-----------------------------------------------------------------------------
(***************************************************************************)
(* QuickSilver is complete over every ring of characteristic two and for   *)
(* every circuit: first the loops that append (wire by wire, check by      *)
(* check), then the numbering of the slots, then the key relation, then    *)
(* the linearity of the hashes and the verification equation.              *)
(***************************************************************************)

\* F appends one element of S to every sequence shorter than N.
Appends(F, S, N) ==
  \A s \in Seq(S) : Len(s) < N => \E x \in S : F[s] = Append(s, x)

\* A loop that appends has n elements after n steps, and keeps those it had.
LEMMA AppendLoop ==
  ASSUME NEW F, NEW S, NEW N \in Nat, Appends(F, S, N)
  PROVE  \A n \in 0..N :
           /\ Iterate(F, <<>>)[n] \in Seq(S) /\ Len(Iterate(F, <<>>)[n]) = n
           /\ \A i \in 1..n : Iterate(F, <<>>)[n][i] = Iterate(F, <<>>)[i][i]
<1> DEFINE f == Iterate(F, <<>>)
           Good(n) == /\ f[n] \in Seq(S) /\ Len(f[n]) = n
                      /\ \A i \in 1..n : f[n][i] = f[i][i]
           T == {n \in Nat : n <= N => Good(n)}
<1>0. f[0] = <<>> /\ \A n \in Nat : f[n + 1] = F[f[n]]
  BY IterateStep
<1> HIDE DEF f
<1>1. 0 \in T
  <2> DEFINE e == f[0]
  <2>1. e = <<>>
    BY <1>0
  <2> HIDE DEF e
  <2>2. e \in Seq(S) /\ Len(e) = 0
    BY <2>1
  <2>3. Good(0)
    BY <2>2 DEF e
  <2> QED
    BY <2>3
<1>2. ASSUME NEW n \in Nat, n \in T PROVE n + 1 \in T
  <2> SUFFICES ASSUME n + 1 <= N PROVE Good(n + 1)
    OBVIOUS
  <2>1. Good(n) /\ n < N
    BY <1>2
  <2>2. PICK x \in S : f[n + 1] = Append(f[n], x)
    BY <1>0, <2>1, ZenonT(60) DEF Appends
  <2> DEFINE a == f[n]
             b == f[n + 1]
  <2>3. a \in Seq(S) /\ Len(a) = n /\ b = Append(a, x)
    BY <2>1, <2>2
  <2>4. \A i \in 1..n : a[i] = f[i][i]
    BY <2>1
  <2>4a. b = f[n + 1]
    OBVIOUS
  <2> HIDE DEF a, b
  <2>5. b \in Seq(S) /\ Len(b) = n + 1
    BY <2>3
  <2>6. \A i \in 1..n : b[i] = a[i]
    BY <2>3
  <2>7. \A i \in 1..(n + 1) : b[i] = f[i][i]
    <3> TAKE i \in 1..(n + 1)
    <3>1. CASE i = n + 1
      BY <2>4a, <3>1
    <3>2. CASE i \in 1..n
      BY <2>4, <2>6, <3>2
    <3> QED
      BY <3>1, <3>2
  <2> QED
    BY <2>4a, <2>5, <2>7
<1> HIDE DEF T
<1>3. Nat \subseteq T
  BY <1>1, <1>2, NatSetInduction
<1> QED
  BY <1>3 DEF T, f

\* What was appended is determined by the result.
LEMMA LastOfAppend ==
  ASSUME NEW S, NEW s \in Seq(S), NEW x \in S, NEW y \in S, Append(s, x) = Append(s, y)
  PROVE  x = y
<1>1. Append(s, x)[Len(s) + 1] = x /\ Append(s, y)[Len(s) + 1] = y
  OBVIOUS
<1> QED
  BY <1>1

\* Element n + 1 of the result is what the step appended to the first n.
LEMMA AppendLoopStep ==
  ASSUME NEW F, NEW S, NEW N \in Nat, Appends(F, S, N), NEW n \in 0..(N - 1)
  PROVE  LET s == Iterate(F, <<>>)[n]
             r == Iterate(F, <<>>)[N]
         IN  /\ s \in Seq(S) /\ Len(s) = n /\ r \in Seq(S) /\ Len(r) = N
             /\ \A i \in 1..n : s[i] = r[i]
             /\ \E x \in S : F[s] = Append(s, x) /\ r[n + 1] = x
<1> DEFINE f == Iterate(F, <<>>)
<1>1. \A m \in 0..N : /\ f[m] \in Seq(S) /\ Len(f[m]) = m
                      /\ \A i \in 1..m : f[m][i] = f[i][i]
  BY AppendLoop
<1>2. f[n + 1] = F[f[n]]
  BY IterateStep
<1> HIDE DEF f
<1>3. n \in 0..N /\ n + 1 \in 1..N /\ N \in 0..N /\ n + 1 \in 0..N
  OBVIOUS
<1>4. PICK x \in S : F[f[n]] = Append(f[n], x)
  <2>1. f[n] \in Seq(S) /\ Len(f[n]) = n /\ n < N
    BY <1>1, <1>3
  <2>2. Len(f[n]) < N
    BY <2>1, Zenon
  <2> QED
    BY <2>1, <2>2, Zenon DEF Appends
<1>5. f[n + 1][n + 1] = x
  <2>1. f[n] \in Seq(S) /\ Len(f[n]) = n
    BY <1>1, <1>3
  <2> DEFINE a == f[n]
  <2>2. a \in Seq(S) /\ Len(a) = n
    BY <2>1
  <2>3. f[n + 1] = Append(a, x)
    BY <1>2, <1>4
  <2> HIDE DEF a
  <2> QED
    BY <2>2, <2>3
<1>6. f[N][n + 1] = x
  BY <1>1, <1>3, <1>5
<1>7. \A i \in 1..n : f[n][i] = f[N][i]
  BY <1>1, <1>3
<1> QED
  BY <1>1, <1>3, <1>4, <1>6, <1>7 DEF f

-----------------------------------------------------------------------------
(* The numbering of inputs, gates and slots.                               *)

\* What the builder guarantees of a circuit.
WellFormed(c) ==
  /\ c.wires \in Seq(WireEntries) /\ c.cons \in Seq(Nat)
  /\ c.nWitness = Nth(c, "witness", Len(c.wires))
  /\ c.nInstance = Nth(c, "instance", Len(c.wires))
  /\ c.nAnd = Nth(c, "and", Len(c.wires))

\* Counting the wires of a kind, one wire at a time.
LEMMA NthStep ==
  ASSUME NEW c, NEW kind, NEW w \in Nat
  PROVE  /\ Nth(c, kind, w) \in Nat /\ Nth(c, kind, 0) = 0
         /\ Nth(c, kind, w + 1) =
              IF c.wires[w + 1].kind = kind THEN Nth(c, kind, w) + 1 ELSE Nth(c, kind, w)
<1> DEFINE N(x) == {v \in 0..(x - 1) : c.wires[v + 1].kind = kind}
<1>1. \A x \in Nat : IsFiniteSet(N(x)) /\ Cardinality(N(x)) \in Nat
  <2> TAKE x \in Nat
  <2>1. N(x) \in SUBSET (0..(x - 1))
    OBVIOUS
  <2>2. IsFiniteSet(0..(x - 1))
    BY FS_Interval
  <2> HIDE DEF N
  <2> QED
    BY <2>1, <2>2, FS_Subset, FS_CardinalityType
<1>2. N(0) = {}
  OBVIOUS
<1>3. N(w + 1) = IF c.wires[w + 1].kind = kind THEN N(w) \cup {w} ELSE N(w)
  OBVIOUS
<1>4. w \notin N(w)
  OBVIOUS
<1>5. Nth(c, kind, w) = Cardinality(N(w)) /\ Nth(c, kind, 0) = Cardinality(N(0))
      /\ Nth(c, kind, w + 1) = Cardinality(N(w + 1))
  BY DEF Nth
<1> HIDE DEF N
<1>6. Cardinality(N(w) \cup {w}) = Cardinality(N(w)) + 1
  BY <1>1, <1>4, FS_AddElement
<1>7. Cardinality(N(0)) = 0
  BY <1>2, FS_EmptySet
<1> QED
  BY <1>1, <1>3, <1>5, <1>6, <1>7

\* A wire of a kind comes before what is counted up to any later wire.
LEMMA NthLess ==
  ASSUME NEW c, NEW kind, NEW w \in Nat, NEW x \in Nat, w < x, c.wires[w + 1].kind = kind
  PROVE  Nth(c, kind, w) < Nth(c, kind, x)
<1> DEFINE T == {n \in Nat : Nth(c, kind, w) < Nth(c, kind, w + 1 + n)}
<1>1. 0 \in T
  BY NthStep
<1>2. ASSUME NEW n \in Nat, n \in T PROVE n + 1 \in T
  <2>1. w + 1 + n \in Nat /\ w + 1 + (n + 1) = (w + 1 + n) + 1
    OBVIOUS
  <2> DEFINE y == w + 1 + n
  <2>2. y \in Nat /\ w + 1 + (n + 1) = y + 1 /\ Nth(c, kind, w) < Nth(c, kind, y)
    BY <1>2
  <2> HIDE DEF y
  <2>3. Nth(c, kind, y + 1) >= Nth(c, kind, y) /\ Nth(c, kind, y) \in Nat /\ Nth(c, kind, w) \in Nat
        /\ Nth(c, kind, y + 1) \in Nat
    BY <2>2, NthStep
  <2> QED
    BY <2>2, <2>3
<1> HIDE DEF T
<1>3. Nat \subseteq T
  BY <1>1, <1>2, NatSetInduction
<1>4. x - w - 1 \in Nat /\ w + 1 + (x - w - 1) = x
  OBVIOUS
<1>5. x - w - 1 \in T
  BY <1>3, <1>4
<1> QED
  BY <1>4, <1>5 DEF T

\* Wires that hold a column of the correlation.
Slotted(c) == {w \in 0..(Len(c.wires) - 1) : c.wires[w + 1].kind \in {"witness", "and"}}

\* Slots stay below Ell, and no two wires share one.
LEMMA Slots ==
  ASSUME NEW c, WellFormed(c)
  PROVE  /\ Ell(c) \in Nat
         /\ \A w \in Slotted(c) : Slot(c, w) \in 0..(Ell(c) - 1)
         /\ \A w, x \in Slotted(c) : Slot(c, w) = Slot(c, x) => w = x
<1> DEFINE L == Len(c.wires)
<1>0. L \in Nat
  BY DEF WellFormed
<1> HIDE DEF L
<1>1. c.nWitness = Nth(c, "witness", L) /\ c.nAnd = Nth(c, "and", L)
      /\ c.nWitness \in Nat /\ c.nAnd \in Nat
  BY <1>0, NthStep DEF WellFormed, L
<1>2. ASSUME NEW w \in Slotted(c)
      PROVE  /\ w \in Nat /\ w < L
             /\ \/ /\ c.wires[w + 1].kind = "witness" /\ Slot(c, w) = Nth(c, "witness", w)
                   /\ Nth(c, "witness", w) \in Nat /\ Nth(c, "witness", w) < c.nWitness
                \/ /\ c.wires[w + 1].kind = "and" /\ Slot(c, w) = c.nWitness + Nth(c, "and", w)
                   /\ Nth(c, "and", w) \in Nat /\ Nth(c, "and", w) < c.nAnd
  <2>1. w \in Nat /\ w < L /\ c.wires[w + 1].kind \in {"witness", "and"}
    BY <1>0 DEF Slotted, L
  <2>2. CASE c.wires[w + 1].kind = "witness"
    BY <1>0, <1>1, <2>1, <2>2, NthStep, NthLess DEF Slot
  <2>3. CASE c.wires[w + 1].kind = "and"
    BY <1>0, <1>1, <2>1, <2>3, NthStep, NthLess DEF Slot
  <2> QED
    BY <2>1, <2>2, <2>3
<1>3. \A w \in Slotted(c) : Slot(c, w) \in 0..(Ell(c) - 1)
  BY <1>1, <1>2 DEF Ell
<1>4. ASSUME NEW w \in Slotted(c), NEW x \in Slotted(c), Slot(c, w) = Slot(c, x), w < x
      PROVE  FALSE
  <2>1. c.wires[w + 1].kind = c.wires[x + 1].kind
    BY <1>1, <1>2, <1>4
  <2>2. w \in Nat /\ x \in Nat
    BY <1>2
  <2>3. Nth(c, c.wires[w + 1].kind, w) < Nth(c, c.wires[w + 1].kind, x)
    BY <1>4, <2>2, NthLess
  <2> QED
    BY <1>1, <1>2, <1>4, <2>1, <2>3
<1>5. \A w, x \in Slotted(c) : Slot(c, w) = Slot(c, x) => w = x
  <2> SUFFICES ASSUME NEW w \in Slotted(c), NEW x \in Slotted(c), Slot(c, w) = Slot(c, x)
               PROVE  w = x
    OBVIOUS
  <2>1. ~ (w < x) /\ ~ (x < w)
    BY <1>4
  <2> QED
    BY <1>2, <2>1
<1> QED
  BY <1>1, <1>3, <1>5 DEF Ell

\* The correction of a wire's slot is the wire's own.
LEMMA Correction ==
  ASSUME NEW c, WellFormed(c), NEW bits, NEW u, NEW w \in Slotted(c)
  PROVE  ComputeD(c, bits, u)[Slot(c, w)] = Plus(BitElem(bits[w + 1]), u[Slot(c, w)])
<1> DEFINE k == Slot(c, w)
           P(x) == c.wires[x + 1].kind \in {"witness", "and"} /\ Slot(c, x) = k
           y == CHOOSE x \in 0..(Len(c.wires) - 1) : P(x)
<1>1. k \in 0..(Ell(c) - 1)
  BY Slots
<1>2. w \in 0..(Len(c.wires) - 1) /\ P(w)
  BY DEF Slotted
<1>3. y \in 0..(Len(c.wires) - 1) /\ P(y)
  <2> HIDE DEF P
  <2> QED
    BY <1>2
<1>4. y \in Slotted(c)
  BY <1>3 DEF Slotted
<1>5. y = w
  BY <1>3, <1>4, Slots
<1>6. ComputeD(c, bits, u)[k] = Plus(BitElem(bits[y + 1]), u[k])
  BY <1>1 DEF ComputeD
<1> QED
  BY <1>5, <1>6
-----------------------------------------------------------------------------
(* Every wire is computed from the wires before it.                        *)

InputsTyped(c, witness, instance) ==
  /\ \A k \in 0..(c.nWitness - 1) : witness[k] \in {0, 1}
  /\ \A k \in 0..(c.nInstance - 1) : instance[k] \in {0, 1}

Agree(s, r, w) == \A i \in 1..w : s[i] = r[i]

\* An input gate reads an input that the circuit counted.
LEMMA InputNumber ==
  ASSUME NEW c, WellFormed(c), NEW w \in 0..(Len(c.wires) - 1)
  PROVE  /\ c.wires[w + 1].kind = "witness" => Nth(c, "witness", w) \in 0..(c.nWitness - 1)
         /\ c.wires[w + 1].kind = "instance" => Nth(c, "instance", w) \in 0..(c.nInstance - 1)
<1> DEFINE L == Len(c.wires)
<1>1. L \in Nat /\ w \in Nat /\ w < L
  BY DEF WellFormed
<1>2. c.nWitness = Nth(c, "witness", L) /\ c.nInstance = Nth(c, "instance", L)
  BY DEF WellFormed
<1> HIDE DEF L
<1>3. Nth(c, "witness", w) \in Nat /\ Nth(c, "witness", L) \in Nat
      /\ Nth(c, "instance", w) \in Nat /\ Nth(c, "instance", L) \in Nat
  BY <1>1, NthStep
<1>4. c.wires[w + 1].kind = "witness" => Nth(c, "witness", w) < Nth(c, "witness", L)
  BY <1>1, NthLess
<1>5. c.wires[w + 1].kind = "instance" => Nth(c, "instance", w) < Nth(c, "instance", L)
  BY <1>1, NthLess
<1> QED
  BY <1>2, <1>3, <1>4, <1>5

\* The operands of a gate of a validated circuit are earlier elements.
LEMMA GateTyped ==
  ASSUME NEW c, WellFormed(c), Valid(c), NEW w \in 0..(Len(c.wires) - 1)
  PROVE  LET e == c.wires[w + 1] IN
         /\ e \in WireEntries
         /\ e.kind \in {"xor", "and"} => e.a + 1 \in 1..w /\ e.b + 1 \in 1..w
         /\ e.kind = "not" => e.a + 1 \in 1..w
<1> DEFINE L == Len(c.wires)
           e == c.wires[w + 1]
<1>1. L \in Nat /\ w + 1 \in 1..L /\ c.wires \in Seq(WireEntries)
  BY DEF WellFormed
<1>2. e \in WireEntries
  BY <1>1
<1>3. \A x \in Operands(e) : x < (w + 1) - 1
  BY <1>1 DEF Valid
<1> HIDE DEF e
<1>4. e.a \in Nat /\ e.b \in Nat
  BY <1>2 DEF WireEntries
<1>5. e.kind \in {"xor", "and"} => e.a \in Operands(e) /\ e.b \in Operands(e)
  BY DEF Operands
<1>6. e.kind = "not" => e.a \in Operands(e)
  BY DEF Operands
<1>7. e.kind \in {"xor", "and"} => e.a + 1 \in 1..w /\ e.b + 1 \in 1..w
  BY <1>3, <1>4, <1>5
<1>8. e.kind = "not" => e.a + 1 \in 1..w
  BY <1>3, <1>4, <1>6
<1> QED
  BY <1>2, <1>7, <1>8 DEF e

\* The bit of a wire is a bit, and depends on earlier wires only.
LEMMA WireBitTyped ==
  ASSUME NEW c, WellFormed(c), Valid(c), NEW witness, NEW instance,
         InputsTyped(c, witness, instance), NEW w \in 0..(Len(c.wires) - 1),
         NEW s, \A i \in 1..w : s[i] \in {0, 1}
  PROVE  /\ WireBit(c, witness, instance, s, w) \in {0, 1}
         /\ \A r : Agree(s, r, w) =>
              WireBit(c, witness, instance, s, w) = WireBit(c, witness, instance, r, w)
<1> DEFINE e == c.wires[w + 1]
<1>1. /\ e \in WireEntries
      /\ e.kind \in {"xor", "and"} => e.a + 1 \in 1..w /\ e.b + 1 \in 1..w
      /\ e.kind = "not" => e.a + 1 \in 1..w
  BY GateTyped
<1>2. /\ e.kind = "witness" => Nth(c, "witness", w) \in 0..(c.nWitness - 1)
      /\ e.kind = "instance" => Nth(c, "instance", w) \in 0..(c.nInstance - 1)
  BY InputNumber
<1>3. \A r : WireBit(c, witness, instance, r, w) =
        CASE e.kind = "witness"  -> witness[Nth(c, "witness", w)]
          [] e.kind = "instance" -> instance[Nth(c, "instance", w)]
          [] e.kind = "const"    -> e.bit
          [] e.kind = "xor"      -> (r[e.a + 1] + r[e.b + 1]) % 2
          [] e.kind = "and"      -> r[e.a + 1] * r[e.b + 1]
          [] e.kind = "not"      -> 1 - r[e.a + 1]
  BY DEF WireBit
<1> HIDE DEF e
<1>4. e.kind \in {"witness", "instance", "const", "xor", "and", "not"} /\ e.bit \in {0, 1}
  BY <1>1 DEF WireEntries, Kinds
<1>5. e.kind \in {"xor", "and"} => s[e.a + 1] \in {0, 1} /\ s[e.b + 1] \in {0, 1}
  BY <1>1
<1>6. e.kind = "not" => s[e.a + 1] \in {0, 1}
  BY <1>1
<1>7. WireBit(c, witness, instance, s, w) \in {0, 1}
  <2>1. CASE e.kind \in {"witness", "instance", "const"}
    BY <1>2, <1>3, <1>4, <2>1 DEF InputsTyped
  <2>2. CASE e.kind = "xor"
    BY <1>3, <1>5, <2>2
  <2>3. CASE e.kind = "and"
    BY <1>3, <1>5, <2>3
  <2>4. CASE e.kind = "not"
    BY <1>3, <1>6, <2>4
  <2> QED
    BY <1>4, <2>1, <2>2, <2>3, <2>4
<1>8. ASSUME NEW r, Agree(s, r, w)
      PROVE  WireBit(c, witness, instance, s, w) = WireBit(c, witness, instance, r, w)
  <2>1. e.kind \in {"xor", "and"} => s[e.a + 1] = r[e.a + 1] /\ s[e.b + 1] = r[e.b + 1]
    BY <1>1, <1>8 DEF Agree
  <2>2. e.kind = "not" => s[e.a + 1] = r[e.a + 1]
    BY <1>1, <1>8 DEF Agree
  <2>3. CASE e.kind \in {"witness", "instance", "const"}
    BY <1>3, <2>3
  <2>4. CASE e.kind \in {"xor", "and", "not"}
    BY <1>3, <2>1, <2>2, <2>4
  <2> QED
    BY <1>4, <2>3, <2>4
<1> QED
  BY <1>7, <1>8

\* The bits of a circuit, wire by wire.
LEMMA BitsUnfold ==
  ASSUME NEW c, WellFormed(c), Valid(c), NEW witness, NEW instance,
         InputsTyped(c, witness, instance)
  PROVE  LET bits == Bits(c, witness, instance) IN
         /\ bits \in Seq({0, 1}) /\ Len(bits) = Len(c.wires)
         /\ \A w \in 0..(Len(c.wires) - 1) :
              bits[w + 1] = WireBit(c, witness, instance, bits, w)
<1> DEFINE N == Len(c.wires)
           F == EvalStep(c, witness, instance)
           f == Iterate(F, <<>>)
           bits == Bits(c, witness, instance)
<1>0. N \in Nat /\ bits = f[N]
  BY DEF WellFormed, Bits
<1>1. \A s \in Seq({0, 1}) : F[s] = Append(s, WireBit(c, witness, instance, s, Len(s)))
  BY DEF EvalStep
<1> HIDE DEF F, N, bits
<1>2. ASSUME NEW s \in Seq({0, 1}), Len(s) < N
      PROVE  WireBit(c, witness, instance, s, Len(s)) \in {0, 1}
  <2>1. Len(s) \in 0..(Len(c.wires) - 1) /\ \A i \in 1..Len(s) : s[i] \in {0, 1}
    BY <1>0, <1>2 DEF N
  <2> QED
    BY <2>1, WireBitTyped
<1>3. Appends(F, {0, 1}, N)
  BY <1>1, <1>2 DEF Appends
<1>4. /\ \A n \in 0..N : f[n] \in Seq({0, 1}) /\ Len(f[n]) = n
  BY <1>0, <1>3, AppendLoop
<1> HIDE DEF f
<1>5. ASSUME NEW w \in 0..(N - 1)
      PROVE  bits[w + 1] = WireBit(c, witness, instance, bits, w)
  <2> DEFINE s == f[w]
  <2>1. /\ s \in Seq({0, 1}) /\ Len(s) = w /\ Agree(s, bits, w)
        /\ \E x \in {0, 1} : F[s] = Append(s, x) /\ bits[w + 1] = x
    BY <1>0, <1>3, AppendLoopStep DEF Agree, f
  <2> HIDE DEF s
  <2>2. F[s] = Append(s, WireBit(c, witness, instance, s, w))
    BY <1>1, <2>1
  <2>3. PICK x \in {0, 1} : F[s] = Append(s, x) /\ bits[w + 1] = x
    BY <2>1
  <2>4. w \in 0..(Len(c.wires) - 1) /\ \A i \in 1..w : s[i] \in {0, 1}
    BY <1>0, <2>1 DEF N
  <2>5. WireBit(c, witness, instance, s, w) \in {0, 1}
        /\ WireBit(c, witness, instance, s, w) = WireBit(c, witness, instance, bits, w)
    BY <2>1, <2>4, WireBitTyped
  <2>6. x = WireBit(c, witness, instance, s, w)
    BY <2>1, <2>2, <2>3, <2>5, LastOfAppend
  <2> QED
    BY <2>3, <2>5, <2>6
<1>6. bits \in Seq({0, 1}) /\ Len(bits) = N
  BY <1>0, <1>4
<1> QED
  BY <1>5, <1>6 DEF bits, N

-----------------------------------------------------------------------------
(* Tags and keys.                                                          *)

\* GF(2^lambda) is a ring of characteristic two.
IsRing ==
  /\ Zero \in Elem /\ One \in Elem
  /\ \A x, y \in Elem : Plus(x, y) \in Elem /\ Times(x, y) \in Elem
  /\ RingLaws(Elem)

\* The columns a circuit uses hold field elements.
ColumnsTyped(c, X) == \A k \in Columns(c) : X[k] \in Elem

CorrectionTyped(c, d) == \A k \in 0..(Ell(c) - 1) : d[k] \in Elem

\* A slot is a column.
LEMMA SlotIsColumn ==
  ASSUME NEW c, WellFormed(c)
  PROVE  \A w \in Slotted(c) : Slot(c, w) \in 0..(Ell(c) - 1) /\ Slot(c, w) \in Columns(c)
<1>1. Ell(c) \in Nat /\ \A w \in Slotted(c) : Slot(c, w) \in 0..(Ell(c) - 1)
  BY Slots
<1> QED
  BY <1>1, LambdaAssumption DEF Columns

\* The tag of a wire is a field element, and depends on earlier wires only.
LEMMA WireTagTyped ==
  ASSUME NEW c, WellFormed(c), Valid(c), IsRing, NEW vcol, ColumnsTyped(c, vcol),
         NEW w \in 0..(Len(c.wires) - 1), NEW s, \A i \in 1..w : s[i] \in Elem
  PROVE  /\ WireTag(c, vcol, s, w) \in Elem
         /\ \A r : Agree(s, r, w) => WireTag(c, vcol, s, w) = WireTag(c, vcol, r, w)
<1> DEFINE e == c.wires[w + 1]
<1>1. /\ e \in WireEntries
      /\ e.kind \in {"xor", "and"} => e.a + 1 \in 1..w /\ e.b + 1 \in 1..w
      /\ e.kind = "not" => e.a + 1 \in 1..w
  BY GateTyped
<1>2. e.kind \in {"witness", "and"} => vcol[Slot(c, w)] \in Elem
  BY SlotIsColumn DEF Slotted, ColumnsTyped
<1>3. \A r : WireTag(c, vcol, r, w) =
        CASE e.kind \in {"witness", "and"}    -> vcol[Slot(c, w)]
          [] e.kind \in {"instance", "const"} -> Zero
          [] e.kind = "xor" -> Plus(r[e.a + 1], r[e.b + 1])
          [] e.kind = "not" -> r[e.a + 1]
  BY DEF WireTag
<1> HIDE DEF e
<1>4. e.kind \in {"witness", "instance", "const", "xor", "and", "not"}
  BY <1>1 DEF WireEntries, Kinds
<1>5. Zero \in Elem /\ \A x, y \in Elem : Plus(x, y) \in Elem
  BY DEF IsRing
<1>6. WireTag(c, vcol, s, w) \in Elem
  <2>1. CASE e.kind \in {"witness", "instance", "const", "and"}
    BY <1>2, <1>3, <1>5, <2>1
  <2>2. CASE e.kind = "xor"
    <3>1. WireTag(c, vcol, s, w) = Plus(s[e.a + 1], s[e.b + 1])
      BY <1>3, <2>2
    <3> QED
      BY <1>1, <1>5, <2>2, <3>1
  <2>3. CASE e.kind = "not"
    BY <1>1, <1>3, <2>3
  <2> QED
    BY <1>4, <2>1, <2>2, <2>3
<1>7. ASSUME NEW r, Agree(s, r, w)
      PROVE  WireTag(c, vcol, s, w) = WireTag(c, vcol, r, w)
  <2>1. e.kind = "xor" => s[e.a + 1] = r[e.a + 1] /\ s[e.b + 1] = r[e.b + 1]
    BY <1>1, <1>7 DEF Agree
  <2>2. e.kind = "not" => s[e.a + 1] = r[e.a + 1]
    BY <1>1, <1>7 DEF Agree
  <2>3. CASE e.kind \in {"witness", "instance", "const", "and"}
    BY <1>3, <2>3
  <2>4. CASE e.kind \in {"xor", "not"}
    BY <1>3, <2>1, <2>2, <2>4
  <2> QED
    BY <1>4, <2>3, <2>4
<1> QED
  BY <1>6, <1>7

\* The tags of a circuit, wire by wire.
LEMMA TagsUnfold ==
  ASSUME NEW c, WellFormed(c), Valid(c), IsRing, NEW vcol, ColumnsTyped(c, vcol)
  PROVE  LET tags == Tags(c, vcol) IN
         /\ tags \in Seq(Elem) /\ Len(tags) = Len(c.wires)
         /\ \A w \in 0..(Len(c.wires) - 1) : tags[w + 1] = WireTag(c, vcol, tags, w)
<1> DEFINE N == Len(c.wires)
           F == TagStep(c, vcol)
           f == Iterate(F, <<>>)
           tags == Tags(c, vcol)
<1>0. N \in Nat /\ tags = f[N]
  BY DEF WellFormed, Tags
<1>1. \A s \in Seq(Elem) : F[s] = Append(s, WireTag(c, vcol, s, Len(s)))
  BY DEF TagStep
<1> HIDE DEF F, N, tags
<1>2. ASSUME NEW s \in Seq(Elem), Len(s) < N
      PROVE  WireTag(c, vcol, s, Len(s)) \in Elem
  <2>1. Len(s) \in 0..(Len(c.wires) - 1) /\ \A i \in 1..Len(s) : s[i] \in Elem
    BY <1>0, <1>2 DEF N
  <2> QED
    BY <2>1, WireTagTyped
<1>3. Appends(F, Elem, N)
  BY <1>1, <1>2 DEF Appends
<1>4. \A n \in 0..N : f[n] \in Seq(Elem) /\ Len(f[n]) = n
  BY <1>0, <1>3, AppendLoop
<1> HIDE DEF f
<1>5. ASSUME NEW w \in 0..(N - 1)
      PROVE  tags[w + 1] = WireTag(c, vcol, tags, w)
  <2> DEFINE s == f[w]
  <2>1. /\ s \in Seq(Elem) /\ Len(s) = w /\ Agree(s, tags, w)
        /\ \E x \in Elem : F[s] = Append(s, x) /\ tags[w + 1] = x
    BY <1>0, <1>3, AppendLoopStep DEF Agree, f
  <2> HIDE DEF s
  <2>2. F[s] = Append(s, WireTag(c, vcol, s, w))
    BY <1>1, <2>1
  <2>3. PICK x \in Elem : F[s] = Append(s, x) /\ tags[w + 1] = x
    BY <2>1
  <2>4. w \in 0..(Len(c.wires) - 1) /\ \A i \in 1..w : s[i] \in Elem
    BY <1>0, <2>1 DEF N
  <2>5. WireTag(c, vcol, s, w) \in Elem /\ WireTag(c, vcol, s, w) = WireTag(c, vcol, tags, w)
    BY <2>1, <2>4, WireTagTyped
  <2>6. x = WireTag(c, vcol, s, w)
    BY <2>1, <2>2, <2>3, <2>5, LastOfAppend, ZenonT(60)
  <2> QED
    BY <2>3, <2>5, <2>6
<1>6. tags \in Seq(Elem) /\ Len(tags) = N
  BY <1>0, <1>4
<1> QED
  BY <1>5, <1>6 DEF tags, N

\* The key of a wire is a field element, and depends on earlier wires only.
LEMMA WireKeyTyped ==
  ASSUME NEW c, WellFormed(c), Valid(c), IsRing, NEW instance, NEW qcol, ColumnsTyped(c, qcol),
         NEW d, CorrectionTyped(c, d), NEW delta \in Elem,
         NEW w \in 0..(Len(c.wires) - 1), NEW s, \A i \in 1..w : s[i] \in Elem
  PROVE  /\ WireKey(c, instance, qcol, d, delta, s, w) \in Elem
         /\ \A r : Agree(s, r, w) =>
              WireKey(c, instance, qcol, d, delta, s, w) = WireKey(c, instance, qcol, d, delta, r, w)
<1> DEFINE e == c.wires[w + 1]
           K(r) == WireKey(c, instance, qcol, d, delta, r, w)
<1>1. /\ e \in WireEntries
      /\ e.kind \in {"xor", "and"} => e.a + 1 \in 1..w /\ e.b + 1 \in 1..w
      /\ e.kind = "not" => e.a + 1 \in 1..w
  BY GateTyped
<1>2. e.kind \in {"witness", "and"} => qcol[Slot(c, w)] \in Elem /\ d[Slot(c, w)] \in Elem
  BY SlotIsColumn DEF Slotted, ColumnsTyped, CorrectionTyped
<1>3. \A r : K(r) =
        CASE e.kind \in {"witness", "and"} -> Plus(qcol[Slot(c, w)], Times(delta, d[Slot(c, w)]))
          [] e.kind = "instance" -> Times(delta, BitElem(instance[Nth(c, "instance", w)]))
          [] e.kind = "const" -> Times(delta, BitElem(e.bit))
          [] e.kind = "xor" -> Plus(r[e.a + 1], r[e.b + 1])
          [] e.kind = "not" -> Plus(r[e.a + 1], delta)
  BY DEF WireKey
<1> HIDE DEF e, K
<1>4. e.kind \in {"witness", "instance", "const", "xor", "and", "not"}
  BY <1>1 DEF WireEntries, Kinds
<1>5. \A x, y \in Elem : Plus(x, y) \in Elem /\ Times(x, y) \in Elem
  BY DEF IsRing
<1>5a. \A b : BitElem(b) \in Elem
  BY DEF IsRing, BitElem
<1>6. K(s) \in Elem
  <2>1. CASE e.kind \in {"witness", "and"}
    <3>1. K(s) = Plus(qcol[Slot(c, w)], Times(delta, d[Slot(c, w)]))
      BY <1>3, <2>1
    <3> QED
      BY <1>2, <1>5, <2>1, <3>1
  <2>2. CASE e.kind = "instance"
    <3>1. K(s) = Times(delta, BitElem(instance[Nth(c, "instance", w)]))
      BY <1>3, <2>2
    <3> QED
      BY <1>5, <1>5a, <3>1
  <2>3. CASE e.kind = "const"
    <3>1. K(s) = Times(delta, BitElem(e.bit))
      BY <1>3, <2>3
    <3> QED
      BY <1>5, <1>5a, <3>1
  <2>4. CASE e.kind = "xor"
    <3>1. K(s) = Plus(s[e.a + 1], s[e.b + 1])
      BY <1>3, <2>4
    <3> QED
      BY <1>1, <1>5, <2>4, <3>1
  <2>5. CASE e.kind = "not"
    <3>1. K(s) = Plus(s[e.a + 1], delta)
      BY <1>3, <2>5
    <3> QED
      BY <1>1, <1>5, <2>5, <3>1
  <2> QED
    BY <1>4, <2>1, <2>2, <2>3, <2>4, <2>5
<1>7. ASSUME NEW r, Agree(s, r, w)
      PROVE  K(s) = K(r)
  <2>1. e.kind = "xor" => s[e.a + 1] = r[e.a + 1] /\ s[e.b + 1] = r[e.b + 1]
    BY <1>1, <1>7 DEF Agree
  <2>2. e.kind = "not" => s[e.a + 1] = r[e.a + 1]
    BY <1>1, <1>7 DEF Agree
  <2>3. CASE e.kind \in {"witness", "instance", "const", "and"}
    BY <1>3, <2>3
  <2>4. CASE e.kind \in {"xor", "not"}
    BY <1>3, <2>1, <2>2, <2>4
  <2> QED
    BY <1>4, <2>3, <2>4
<1> QED
  BY <1>6, <1>7 DEF K

\* The keys of a circuit, wire by wire.
LEMMA KeysUnfold ==
  ASSUME NEW c, WellFormed(c), Valid(c), IsRing, NEW instance, NEW qcol, ColumnsTyped(c, qcol),
         NEW d, CorrectionTyped(c, d), NEW delta \in Elem
  PROVE  LET keys == Keys(c, instance, qcol, d, delta) IN
         /\ keys \in Seq(Elem) /\ Len(keys) = Len(c.wires)
         /\ \A w \in 0..(Len(c.wires) - 1) :
              keys[w + 1] = WireKey(c, instance, qcol, d, delta, keys, w)
<1> DEFINE N == Len(c.wires)
           F == KeyStep(c, instance, qcol, d, delta)
           f == Iterate(F, <<>>)
           keys == Keys(c, instance, qcol, d, delta)
           K(s, w) == WireKey(c, instance, qcol, d, delta, s, w)
<1>0. N \in Nat /\ keys = f[N]
  BY DEF WellFormed, Keys
<1>1. \A s \in Seq(Elem) : F[s] = Append(s, K(s, Len(s)))
  BY DEF KeyStep
<1>t. ASSUME NEW w \in 0..(N - 1), NEW s, \A i \in 1..w : s[i] \in Elem
      PROVE  K(s, w) \in Elem /\ \A r : Agree(s, r, w) => K(s, w) = K(r, w)
  BY <1>t, WireKeyTyped
<1> HIDE DEF F, N, keys, K
<1>2. ASSUME NEW s \in Seq(Elem), Len(s) < N
      PROVE  K(s, Len(s)) \in Elem
  <2>1. Len(s) \in 0..(N - 1) /\ \A i \in 1..Len(s) : s[i] \in Elem
    BY <1>0, <1>2
  <2> QED
    BY <2>1, <1>t
<1>3. Appends(F, Elem, N)
  BY <1>1, <1>2 DEF Appends
<1>4. \A n \in 0..N : f[n] \in Seq(Elem) /\ Len(f[n]) = n
  BY <1>0, <1>3, AppendLoop
<1> HIDE DEF f
<1>5. ASSUME NEW w \in 0..(N - 1)
      PROVE  keys[w + 1] = K(keys, w)
  <2> DEFINE s == f[w]
  <2>1. /\ s \in Seq(Elem) /\ Len(s) = w /\ Agree(s, keys, w)
        /\ \E x \in Elem : F[s] = Append(s, x) /\ keys[w + 1] = x
    BY <1>0, <1>3, AppendLoopStep DEF Agree, f
  <2> HIDE DEF s
  <2>2. F[s] = Append(s, K(s, w))
    BY <1>1, <2>1
  <2>3. PICK x \in Elem : F[s] = Append(s, x) /\ keys[w + 1] = x
    BY <2>1
  <2>4. \A i \in 1..w : s[i] \in Elem
    BY <2>1
  <2>5. K(s, w) \in Elem /\ K(s, w) = K(keys, w)
    BY <2>1, <2>4, <1>t
  <2>6. x = K(s, w)
    BY <2>1, <2>2, <2>3, <2>5, LastOfAppend, ZenonT(60)
  <2> QED
    BY <2>3, <2>5, <2>6
<1>6. keys \in Seq(Elem) /\ Len(keys) = N
  BY <1>0, <1>4
<1> QED
  BY <1>5, <1>6 DEF keys, N, K

-----------------------------------------------------------------------------
(* Arithmetic of the ring.                                                 *)

\* Sums of two sums rearrange, and what is added twice is gone.
LEMMA Sums ==
  ASSUME IsRing
  PROVE  /\ \A x, y, z, t \in Elem : Plus(Plus(x, y), Plus(z, t)) = Plus(Plus(x, z), Plus(y, t))
         /\ \A x, y \in Elem : Plus(Plus(x, y), y) = x
         /\ \A x \in Elem : Plus(Zero, x) = x
<1>1. \A x, y, z \in Elem : Plus(Plus(x, y), z) = Plus(x, Plus(y, z))
  BY DEF IsRing, RingLaws
<1>2. \A x, y \in Elem : Plus(x, y) = Plus(y, x) /\ Plus(x, y) \in Elem
  BY DEF IsRing, RingLaws
<1>3. \A x \in Elem : Plus(x, Zero) = x /\ Plus(x, x) = Zero /\ Zero \in Elem
  BY DEF IsRing, RingLaws
<1>4. ASSUME NEW x \in Elem, NEW y \in Elem, NEW z \in Elem, NEW t \in Elem
      PROVE  Plus(Plus(x, y), Plus(z, t)) = Plus(Plus(x, z), Plus(y, t))
  <2>1. Plus(Plus(x, y), Plus(z, t)) = Plus(x, Plus(y, Plus(z, t)))
    BY <1>1, <1>2
  <2>2. Plus(y, Plus(z, t)) = Plus(Plus(y, z), t) /\ Plus(y, z) = Plus(z, y)
    BY <1>1, <1>2
  <2>3. Plus(Plus(z, y), t) = Plus(z, Plus(y, t))
    BY <1>1
  <2>4. Plus(Plus(x, z), Plus(y, t)) = Plus(x, Plus(z, Plus(y, t)))
    BY <1>1, <1>2
  <2> QED
    BY <2>1, <2>2, <2>3, <2>4
<1>5. ASSUME NEW x \in Elem, NEW y \in Elem PROVE Plus(Plus(x, y), y) = x
  BY <1>1, <1>3
<1> QED
  BY <1>2, <1>3, <1>4, <1>5

\* Products with a bit, and of sums.
LEMMA Products ==
  ASSUME IsRing
  PROVE  /\ \A b : BitElem(b) \in Elem
         /\ \A x, y, z \in Elem : Times(x, Plus(y, z)) = Plus(Times(x, y), Times(x, z))
         /\ \A x, y, z \in Elem : Times(Plus(x, y), z) = Plus(Times(x, z), Times(y, z))
         /\ \A a, b \in {0, 1} : /\ BitElem((a + b) % 2) = Plus(BitElem(a), BitElem(b))
                                 /\ BitElem(a * b) = Times(BitElem(a), BitElem(b))
         /\ \A b \in {0, 1} : BitElem(1 - b) = Plus(BitElem(b), One)
         /\ \A x \in Elem : /\ Times(x, Zero) = Zero /\ Times(Zero, x) = Zero
                            /\ Times(x, One) = x
<1>1. \A b : BitElem(b) \in Elem
  BY DEF IsRing, BitElem
<1>2. \A x, y, z \in Elem : Times(x, Plus(y, z)) = Plus(Times(x, y), Times(x, z))
  BY DEF IsRing, RingLaws
<1>3. \A x, y \in Elem : /\ Plus(x, y) \in Elem /\ Times(x, y) \in Elem
                         /\ Times(x, y) = Times(y, x) /\ Plus(x, y) = Plus(y, x)
  BY DEF IsRing, RingLaws
<1>4. ASSUME NEW x \in Elem, NEW y \in Elem, NEW z \in Elem
      PROVE  Times(Plus(x, y), z) = Plus(Times(x, z), Times(y, z))
  <2>1. Times(Plus(x, y), z) = Times(z, Plus(x, y))
    BY <1>3
  <2> QED
    BY <1>2, <1>3, <2>1
<1>5. /\ Zero \in Elem /\ One \in Elem
      /\ \A x \in Elem : /\ Times(x, Zero) = Zero /\ Times(Zero, x) = Zero /\ Times(x, One) = x
                         /\ Plus(x, Zero) = x /\ Plus(Zero, x) = x /\ Plus(x, x) = Zero
  BY <1>3 DEF IsRing, RingLaws
<1>6. BitElem(0) = Zero /\ BitElem(1) = One
  BY DEF BitElem
<1>7. ASSUME NEW a \in {0, 1}, NEW b \in {0, 1}
      PROVE  /\ BitElem((a + b) % 2) = Plus(BitElem(a), BitElem(b))
             /\ BitElem(a * b) = Times(BitElem(a), BitElem(b))
  <2>1. CASE a = 0 /\ b = 0
    BY <1>5, <1>6, <2>1
  <2>2. CASE a = 0 /\ b = 1
    BY <1>5, <1>6, <2>2
  <2>3. CASE a = 1 /\ b = 0
    BY <1>5, <1>6, <2>3
  <2>4. CASE a = 1 /\ b = 1
    BY <1>5, <1>6, <2>4
  <2> QED
    BY <2>1, <2>2, <2>3, <2>4
<1>8. ASSUME NEW b \in {0, 1} PROVE BitElem(1 - b) = Plus(BitElem(b), One)
  <2>1. CASE b = 0
    BY <1>5, <1>6, <2>1
  <2>2. CASE b = 1
    BY <1>5, <1>6, <2>2
  <2> QED
    BY <2>1, <2>2
<1> QED
  BY <1>1, <1>2, <1>4, <1>5, <1>7, <1>8

-----------------------------------------------------------------------------
(* The key relation.                                                       *)

\* The VOLE correlation of the two sides (VoleProof!VoleCorrelation).
Correlated(c, u, vcol, qcol, delta) ==
  /\ ColumnsTyped(c, u) /\ ColumnsTyped(c, vcol) /\ delta \in Elem
  /\ \A k \in Columns(c) : qcol[k] = Plus(vcol[k], Times(delta, u[k]))

\* The corrections are field elements, and the verifier's columns are.
LEMMA CorrelatedTyped ==
  ASSUME NEW c, WellFormed(c), IsRing, NEW bits, NEW u, NEW vcol, NEW qcol, NEW delta,
         Correlated(c, u, vcol, qcol, delta)
  PROVE  ColumnsTyped(c, qcol) /\ CorrectionTyped(c, ComputeD(c, bits, u))
<1>1. \A x, y \in Elem : Plus(x, y) \in Elem /\ Times(x, y) \in Elem
  BY DEF IsRing
<1>2. ColumnsTyped(c, qcol)
  BY <1>1 DEF Correlated, ColumnsTyped
<1>3. ASSUME NEW k \in 0..(Ell(c) - 1) PROVE ComputeD(c, bits, u)[k] \in Elem
  <2>1. k \in Columns(c)
    BY Slots, LambdaAssumption DEF Columns
  <2>2. u[k] \in Elem
    BY <2>1 DEF Correlated, ColumnsTyped
  <2>3. \A b : BitElem(b) \in Elem
    BY Products
  <2> QED
    BY <1>1, <2>2, <2>3 DEF ComputeD
<1> QED
  BY <1>2, <1>3 DEF CorrectionTyped

\* The key of every wire is its tag plus delta times its bit.
KeysRelate(c, witness, instance, u, vcol, qcol, delta) ==
  LET bits == Bits(c, witness, instance)
      keys == Keys(c, instance, qcol, ComputeD(c, bits, u), delta)
      tags == Tags(c, vcol)
  IN  \A i \in 1..Len(c.wires) : keys[i] = Plus(tags[i], Times(delta, BitElem(bits[i])))

\* For every circuit and every field: on each wire the verifier's key is the
\* prover's tag plus Delta times the wire's bit, for whatever mask u.
THEOREM KeyOfEveryWire ==
  ASSUME NEW c, WellFormed(c), Valid(c), IsRing,
         NEW witness, NEW instance, InputsTyped(c, witness, instance),
         NEW u, NEW vcol, NEW qcol, NEW delta, Correlated(c, u, vcol, qcol, delta)
  PROVE  KeysRelate(c, witness, instance, u, vcol, qcol, delta)
<1> DEFINE N == Len(c.wires)
           bits == Bits(c, witness, instance)
           d == ComputeD(c, bits, u)
           keys == Keys(c, instance, qcol, d, delta)
           tags == Tags(c, vcol)
           Rel(i) == keys[i] = Plus(tags[i], Times(delta, BitElem(bits[i])))
<1>0. N \in Nat /\ delta \in Elem /\ ColumnsTyped(c, vcol) /\ ColumnsTyped(c, qcol)
      /\ CorrectionTyped(c, d)
  BY CorrelatedTyped DEF WellFormed, Correlated
<1>1. /\ bits \in Seq({0, 1}) /\ Len(bits) = N
      /\ \A w \in 0..(N - 1) : bits[w + 1] = WireBit(c, witness, instance, bits, w)
  BY BitsUnfold
<1>2. /\ tags \in Seq(Elem) /\ Len(tags) = N
      /\ \A w \in 0..(N - 1) : tags[w + 1] = WireTag(c, vcol, tags, w)
  BY <1>0, TagsUnfold
<1>c. \A w \in Slotted(c) : d[Slot(c, w)] = Plus(BitElem(bits[w + 1]), u[Slot(c, w)])
  BY Correction
<1>s. \A w \in Slotted(c) :
        LET k == Slot(c, w)
        IN  vcol[k] \in Elem /\ u[k] \in Elem /\ qcol[k] = Plus(vcol[k], Times(delta, u[k]))
  BY SlotIsColumn DEF Correlated, ColumnsTyped
<1>d. \A w \in 0..(N - 1) : c.wires[w + 1].kind \in {"witness", "and"} => w \in Slotted(c)
  BY DEF Slotted
<1>g. \A w \in 0..(N - 1) :
        LET e == c.wires[w + 1] IN
        /\ e.kind \in Kinds
        /\ e.kind \in {"xor", "and"} => e.a + 1 \in 1..w /\ e.b + 1 \in 1..w
        /\ e.kind = "not" => e.a + 1 \in 1..w
  BY GateTyped DEF WireEntries
<1> HIDE DEF d
<1>3. /\ keys \in Seq(Elem) /\ Len(keys) = N
      /\ \A w \in 0..(N - 1) : keys[w + 1] = WireKey(c, instance, qcol, d, delta, keys, w)
  BY <1>0, KeysUnfold
<1> HIDE DEF bits, keys, tags, N
<1>e. \A x, y \in Elem : Plus(x, y) \in Elem /\ Times(x, y) \in Elem
  BY DEF IsRing
<1>a. \A x, y, z \in Elem : Plus(Plus(x, y), z) = Plus(x, Plus(y, z))
  BY DEF IsRing, RingLaws
<1>4. ASSUME NEW w \in 0..(N - 1), \A i \in 1..w : Rel(i)
      PROVE  Rel(w + 1)
  <2> DEFINE e == c.wires[w + 1]
  <2>0. e.kind \in {"witness", "instance", "const", "xor", "and", "not"}
    BY <1>g DEF Kinds
  <2>t. \A i \in 1..w : keys[i] \in Elem /\ tags[i] \in Elem /\ bits[i] \in {0, 1}
    BY <1>0, <1>1, <1>2, <1>3
  <2>1. CASE e.kind \in {"witness", "and"}
    <3> DEFINE k == Slot(c, w)
               b == BitElem(bits[w + 1])
    <3>1. keys[w + 1] = Plus(qcol[k], Times(delta, d[k])) /\ tags[w + 1] = vcol[k]
      BY <1>2, <1>3, <2>1 DEF WireKey, WireTag
    <3>2. /\ w \in Slotted(c) /\ vcol[k] \in Elem /\ u[k] \in Elem
          /\ qcol[k] = Plus(vcol[k], Times(delta, u[k])) /\ d[k] = Plus(b, u[k])
      BY <1>c, <1>s, <1>d, <2>1
    <3>3. b \in Elem
      BY Products
    <3>4. Times(delta, Plus(b, u[k])) = Plus(Times(delta, b), Times(delta, u[k]))
      BY <1>0, <3>2, <3>3, Products
    <3> DEFINE v == vcol[k]
               x == Times(delta, u[k])
               y == Times(delta, b)
    <3>5. v \in Elem /\ x \in Elem /\ y \in Elem
      BY <1>0, <1>e, <3>2, <3>3
    <3>6. keys[w + 1] = Plus(Plus(v, x), Plus(y, x)) /\ tags[w + 1] = v
      BY <3>1, <3>2, <3>4
    <3>g. Rel(w + 1) <=> keys[w + 1] = Plus(tags[w + 1], y)
      OBVIOUS
    <3> HIDE DEF v, x, y
    <3>7. Plus(Plus(v, x), Plus(y, x)) = Plus(Plus(v, y), Plus(x, x))
      BY <3>5, Sums
    <3>8. /\ \A z \in Elem : Plus(z, z) = Zero
          /\ \A z \in Elem : Plus(z, Zero) = z
      BY DEF IsRing, RingLaws
    <3>9. Plus(x, x) = Zero /\ Plus(Plus(v, y), Zero) = Plus(v, y)
      <4>1. Plus(v, y) \in Elem
        BY <1>e, <3>5
      <4> QED
        BY <3>5, <3>8, <4>1
    <3> QED
      BY <3>6, <3>g, <3>7, <3>9
  <2>2. CASE e.kind = "instance"
    <3>1. /\ keys[w + 1] = Times(delta, BitElem(instance[Nth(c, "instance", w)]))
          /\ tags[w + 1] = Zero /\ bits[w + 1] = instance[Nth(c, "instance", w)]
      BY <1>1, <1>2, <1>3, <2>2 DEF WireKey, WireTag, WireBit
    <3>2. Times(delta, BitElem(bits[w + 1])) \in Elem
      BY <1>0, <1>e, Products
    <3> QED
      BY <3>1, <3>2, Sums
  <2>3. CASE e.kind = "const"
    <3>1. /\ keys[w + 1] = Times(delta, BitElem(e.bit))
          /\ tags[w + 1] = Zero /\ bits[w + 1] = e.bit
      BY <1>1, <1>2, <1>3, <2>3 DEF WireKey, WireTag, WireBit
    <3>2. Times(delta, BitElem(bits[w + 1])) \in Elem
      BY <1>0, <1>e, Products
    <3> QED
      BY <3>1, <3>2, Sums
  <2>4. CASE e.kind = "xor"
    <3> DEFINE i == e.a + 1
               j == e.b + 1
               x == Times(delta, BitElem(bits[i]))
               y == Times(delta, BitElem(bits[j]))
    <3>1. /\ keys[w + 1] = Plus(keys[i], keys[j]) /\ tags[w + 1] = Plus(tags[i], tags[j])
          /\ bits[w + 1] = (bits[i] + bits[j]) % 2
      BY <1>1, <1>2, <1>3, <2>4 DEF WireKey, WireTag, WireBit
    <3>2. i \in 1..w /\ j \in 1..w
      BY <1>g, <2>4
    <3>3. keys[i] = Plus(tags[i], x) /\ keys[j] = Plus(tags[j], y)
      BY <1>4, <3>2
    <3>4. Times(delta, BitElem(bits[w + 1])) = Plus(x, y)
      <4>1. BitElem(bits[w + 1]) = Plus(BitElem(bits[i]), BitElem(bits[j]))
        BY <2>t, <3>1, <3>2, Products
      <4> QED
        BY <1>0, <4>1, Products
    <3>5. x \in Elem /\ y \in Elem /\ tags[i] \in Elem /\ tags[j] \in Elem
      BY <1>0, <1>e, <2>t, <3>2, Products
    <3> HIDE DEF x, y, i, j
    <3>6. Plus(Plus(tags[i], x), Plus(tags[j], y)) = Plus(Plus(tags[i], tags[j]), Plus(x, y))
      BY <3>5, Sums
    <3> QED
      BY <3>1, <3>3, <3>4, <3>6
  <2>5. CASE e.kind = "not"
    <3> DEFINE i == e.a + 1
               x == Times(delta, BitElem(bits[i]))
    <3>1. /\ keys[w + 1] = Plus(keys[i], delta) /\ tags[w + 1] = tags[i]
          /\ bits[w + 1] = 1 - bits[i]
      BY <1>1, <1>2, <1>3, <2>5 DEF WireKey, WireTag, WireBit
    <3>2. i \in 1..w
      BY <1>g, <2>5
    <3>3. keys[i] = Plus(tags[i], x)
      BY <1>4, <3>2
    <3>4. Times(delta, BitElem(bits[w + 1])) = Plus(x, delta)
      <4>1. BitElem(bits[w + 1]) = Plus(BitElem(bits[i]), One) /\ BitElem(bits[i]) \in Elem
        BY <2>t, <3>1, <3>2, Products
      <4>2. One \in Elem /\ Times(delta, One) = delta
        BY <1>0, Products DEF IsRing
      <4> QED
        BY <1>0, <4>1, <4>2, Products
    <3>5. x \in Elem /\ tags[i] \in Elem
      BY <1>0, <1>e, <2>t, <3>2, Products
    <3> HIDE DEF x, i
    <3>6. Plus(Plus(tags[i], x), delta) = Plus(tags[i], Plus(x, delta))
      BY <1>0, <1>a, <3>5
    <3> QED
      BY <3>1, <3>3, <3>4, <3>6
  <2> QED
    BY <2>0, <2>1, <2>2, <2>3, <2>4, <2>5
<1> DEFINE T == {n \in Nat : n <= N => \A i \in 1..n : Rel(i)}
<1>5. 0 \in T
  OBVIOUS
<1>6. ASSUME NEW n \in Nat, n \in T PROVE n + 1 \in T
  <2> SUFFICES ASSUME n + 1 <= N PROVE \A i \in 1..(n + 1) : Rel(i)
    OBVIOUS
  <2>1. n \in 0..(N - 1) /\ \A i \in 1..n : Rel(i)
    BY <1>0, <1>6
  <2> HIDE DEF Rel
  <2>2. Rel(n + 1)
    BY <1>4, <2>1
  <2> QED
    BY <2>1, <2>2
<1> HIDE DEF T
<1>7. Nat \subseteq T
  BY <1>5, <1>6, NatSetInduction
<1>8. \A i \in 1..N : Rel(i)
  BY <1>0, <1>7 DEF T
<1> QED
  BY <1>8 DEF KeysRelate, bits, keys, tags, d, N

-----------------------------------------------------------------------------
(* The hashes are linear.                                                  *)

\* x + Delta * y
Line(delta, x, y) == Plus(x, Times(delta, y))

\* Sums and multiples of such values have that form again.
LEMMA Lines ==
  ASSUME IsRing, NEW delta \in Elem
  PROVE  /\ \A x, y \in Elem : Line(delta, x, y) \in Elem
         /\ \A x, y, z, t \in Elem : Plus(Line(delta, x, y), Line(delta, z, t)) =
                                       Line(delta, Plus(x, z), Plus(y, t))
         /\ \A k, x, y \in Elem : /\ Times(k, Line(delta, x, y)) = Line(delta, Times(k, x), Times(k, y))
                                  /\ Times(Line(delta, x, y), k) = Line(delta, Times(x, k), Times(y, k))
<1>1. \A x, y \in Elem : Plus(x, y) \in Elem /\ Times(x, y) \in Elem
  BY DEF IsRing
<1>2. \A x, y \in Elem : Times(x, y) = Times(y, x)
  BY DEF IsRing, RingLaws
<1>3. \A x, y, z \in Elem : Times(Times(x, y), z) = Times(x, Times(y, z))
  BY DEF IsRing, RingLaws
<1>4. ASSUME NEW x \in Elem, NEW y \in Elem, NEW z \in Elem, NEW t \in Elem
      PROVE  Plus(Line(delta, x, y), Line(delta, z, t)) = Line(delta, Plus(x, z), Plus(y, t))
  <2>1. Times(delta, Plus(y, t)) = Plus(Times(delta, y), Times(delta, t))
    BY Products
  <2>2. Times(delta, y) \in Elem /\ Times(delta, t) \in Elem
    BY <1>1
  <2>3. Plus(Plus(x, Times(delta, y)), Plus(z, Times(delta, t))) =
          Plus(Plus(x, z), Plus(Times(delta, y), Times(delta, t)))
    BY <2>2, Sums
  <2> QED
    BY <2>1, <2>3 DEF Line
<1>5. ASSUME NEW k \in Elem, NEW x \in Elem, NEW y \in Elem
      PROVE  Times(k, Line(delta, x, y)) = Line(delta, Times(k, x), Times(k, y))
  <2>1. Times(k, Plus(x, Times(delta, y))) = Plus(Times(k, x), Times(k, Times(delta, y)))
    BY <1>1, Products
  <2>2. Times(k, Times(delta, y)) = Times(Times(k, delta), y)
    BY <1>3
  <2>3. Times(Times(k, delta), y) = Times(Times(delta, k), y)
    BY <1>2
  <2>4. Times(Times(delta, k), y) = Times(delta, Times(k, y))
    BY <1>3
  <2> QED
    BY <2>1, <2>2, <2>3, <2>4 DEF Line
<1>6. ASSUME NEW k \in Elem, NEW x \in Elem, NEW y \in Elem
      PROVE  Times(Line(delta, x, y), k) = Line(delta, Times(x, k), Times(y, k))
  <2>1. Line(delta, x, y) \in Elem
    BY <1>1 DEF Line
  <2>2. Times(Line(delta, x, y), k) = Line(delta, Times(k, x), Times(k, y))
    BY <1>2, <1>5, <2>1
  <2>3. Times(k, x) = Times(x, k) /\ Times(k, y) = Times(y, k)
    BY <1>2
  <2> QED
    BY <2>2, <2>3
<1>7. \A x, y \in Elem : Line(delta, x, y) \in Elem
  BY <1>1 DEF Line
<1> QED
  BY <1>4, <1>5, <1>6, <1>7

\* Horner's loop, element by element.
LEMMA HornerLoop ==
  ASSUME IsRing, NEW key \in Elem, NEW xs \in Seq(Elem), NEW N \in Nat, Len(xs) = N
  PROVE  \E h \in [0..N -> Elem] :
           /\ h[0] = Zero /\ Horner(key, xs) = h[N]
           /\ \A n \in 0..(N - 1) : h[n + 1] = Plus(Times(h[n], key), xs[n + 1])
<1> DEFINE R == [n : Nat, h : Elem]
           Step == [s \in R |-> [n |-> s.n + 1, h |-> Plus(Times(s.h, key), xs[s.n + 1])]]
           start == [n |-> 0, h |-> Zero]
           f == Iterate(Step, start)
<1>1. f[0] = start /\ \A n \in Nat : f[n + 1] = Step[f[n]]
  <2> HIDE DEF Step, start
  <2> QED
    BY IterateStep
<1>2. Horner(key, xs) = f[N].h
  BY DEF Horner
<1>3. N \in Nat /\ Zero \in Elem /\ \A n \in 0..(N - 1) : xs[n + 1] \in Elem
  BY DEF IsRing
<1>4. \A x, y \in Elem : Plus(x, y) \in Elem /\ Times(x, y) \in Elem
  BY DEF IsRing
<1> HIDE DEF f
<1> DEFINE T == {n \in Nat : n <= N => f[n] \in R /\ f[n].n = n}
<1>5. 0 \in T
  BY <1>1, <1>3
<1>6. ASSUME NEW n \in Nat, f[n] \in R, f[n].n = n, n < N
      PROVE  /\ f[n + 1] \in R /\ f[n + 1].n = n + 1
             /\ f[n + 1].h = Plus(Times(f[n].h, key), xs[n + 1])
  <2>1. f[n + 1] = [n |-> n + 1, h |-> Plus(Times(f[n].h, key), xs[n + 1])]
    BY <1>1, <1>6
  <2>2. Plus(Times(f[n].h, key), xs[n + 1]) \in Elem
    BY <1>3, <1>4, <1>6
  <2> QED
    BY <2>1, <2>2
<1>7. ASSUME NEW n \in Nat, n \in T PROVE n + 1 \in T
  BY <1>3, <1>6, <1>7
<1> HIDE DEF T
<1>8. Nat \subseteq T
  BY <1>5, <1>7, NatSetInduction
<1>9. \A n \in 0..N : f[n] \in R /\ f[n].n = n
  BY <1>3, <1>8 DEF T
<1> DEFINE h == [n \in 0..N |-> f[n].h]
<1>10. h \in [0..N -> Elem]
  BY <1>9
<1>11. h[0] = Zero /\ h[N] = Horner(key, xs)
  BY <1>1, <1>2, <1>3
<1>12. \A n \in 0..(N - 1) : h[n + 1] = Plus(Times(h[n], key), xs[n + 1])
  BY <1>3, <1>6, <1>9
<1> HIDE DEF h
<1> QED
  BY <1>10, <1>11, <1>12

\* The hash of a sequence is a field element, and the hash of a linear
\* combination is the combination of the hashes.
LEMMA HornerLinear ==
  ASSUME IsRing, NEW key \in Elem, NEW delta \in Elem,
         NEW xs \in Seq(Elem), NEW ys \in Seq(Elem), NEW zs \in Seq(Elem),
         Len(xs) = Len(zs), Len(ys) = Len(zs),
         \A i \in 1..Len(zs) : zs[i] = Line(delta, xs[i], ys[i])
  PROVE  /\ Horner(key, xs) \in Elem /\ Horner(key, ys) \in Elem
         /\ Horner(key, zs) = Line(delta, Horner(key, xs), Horner(key, ys))
<1> DEFINE N == Len(zs)
<1>0. N \in Nat /\ Len(xs) = N /\ Len(ys) = N
      /\ \A i \in 1..N : xs[i] \in Elem /\ ys[i] \in Elem /\ zs[i] = Line(delta, xs[i], ys[i])
  OBVIOUS
<1>1. PICK f \in [0..N -> Elem] :
        /\ f[0] = Zero /\ Horner(key, xs) = f[N]
        /\ \A n \in 0..(N - 1) : f[n + 1] = Plus(Times(f[n], key), xs[n + 1])
  BY <1>0, HornerLoop
<1>2. PICK g \in [0..N -> Elem] :
        /\ g[0] = Zero /\ Horner(key, ys) = g[N]
        /\ \A n \in 0..(N - 1) : g[n + 1] = Plus(Times(g[n], key), ys[n + 1])
  BY <1>0, HornerLoop
<1>3. PICK h \in [0..N -> Elem] :
        /\ h[0] = Zero /\ Horner(key, zs) = h[N]
        /\ \A n \in 0..(N - 1) : h[n + 1] = Plus(Times(h[n], key), zs[n + 1])
  BY <1>0, HornerLoop
<1> HIDE DEF N
<1> DEFINE T == {n \in Nat : n <= N => h[n] = Line(delta, f[n], g[n])}
<1>4. 0 \in T
  <2>1. Times(delta, Zero) = Zero /\ Plus(Zero, Zero) = Zero
    BY Products, Sums DEF IsRing
  <2> QED
    BY <1>1, <1>2, <1>3, <2>1 DEF Line
<1>5. ASSUME NEW n \in Nat, n \in T PROVE n + 1 \in T
  <2> SUFFICES ASSUME n + 1 <= N PROVE h[n + 1] = Line(delta, f[n + 1], g[n + 1])
    OBVIOUS
  <2>1. n \in 0..(N - 1) /\ n \in 0..N /\ n + 1 \in 1..N /\ h[n] = Line(delta, f[n], g[n])
    BY <1>0, <1>5
  <2> DEFINE a == f[n]
             b == g[n]
             x == xs[n + 1]
             y == ys[n + 1]
  <2>2. a \in Elem /\ b \in Elem /\ x \in Elem /\ y \in Elem
    BY <1>0, <2>1
  <2>3. h[n + 1] = Plus(Times(Line(delta, a, b), key), Line(delta, x, y))
    BY <1>0, <1>3, <2>1
  <2>4. f[n + 1] = Plus(Times(a, key), x) /\ g[n + 1] = Plus(Times(b, key), y)
    BY <1>1, <1>2, <2>1
  <2> HIDE DEF a, b, x, y
  <2>5. Times(Line(delta, a, b), key) = Line(delta, Times(a, key), Times(b, key))
    BY <2>2, Lines
  <2>6. Times(a, key) \in Elem /\ Times(b, key) \in Elem
    BY <2>2 DEF IsRing
  <2>7. Plus(Line(delta, Times(a, key), Times(b, key)), Line(delta, x, y)) =
          Line(delta, Plus(Times(a, key), x), Plus(Times(b, key), y))
    BY <2>2, <2>6, Lines, SMTT(40)
  <2> QED
    BY <2>3, <2>4, <2>5, <2>7
<1> HIDE DEF T
<1>6. Nat \subseteq T
  BY <1>4, <1>5, NatSetInduction
<1>7. h[N] = Line(delta, f[N], g[N]) /\ f[N] \in Elem /\ g[N] \in Elem
  BY <1>0, <1>6 DEF T
<1> QED
  BY <1>1, <1>2, <1>3, <1>7

\* The mask block of the key columns is that of the tags plus Delta times that of u.
LEMMA SumPolyLinear ==
  ASSUME IsRing, Alpha \in Elem, NEW delta \in Elem, NEW u, NEW vcol, NEW qcol, NEW from \in Nat,
         \A k \in from..(from + Lambda - 1) :
           u[k] \in Elem /\ vcol[k] \in Elem /\ qcol[k] = Line(delta, vcol[k], u[k])
  PROVE  /\ SumPoly(vcol, from) \in Elem /\ SumPoly(u, from) \in Elem
         /\ SumPoly(qcol, from) = Line(delta, SumPoly(vcol, from), SumPoly(u, from))
<1>0. ASSUME NEW xs \in Seq(Elem), NEW ys \in Seq(Elem), NEW zs \in Seq(Elem),
             Len(xs) = Len(zs), Len(ys) = Len(zs),
             \A i \in 1..Len(zs) : zs[i] = Line(delta, xs[i], ys[i])
      PROVE  /\ Horner(Alpha, xs) \in Elem /\ Horner(Alpha, ys) \in Elem
             /\ Horner(Alpha, zs) = Line(delta, Horner(Alpha, xs), Horner(Alpha, ys))
  BY <1>0, HornerLinear
<1> DEFINE X(col) == [n \in 1..Lambda |-> col[from + Lambda - n]]
<1>1. Lambda \in Nat /\ \A n \in 1..Lambda : from + Lambda - n \in from..(from + Lambda - 1)
  BY LambdaAssumption
<1>2. \A x, y \in Elem : Line(delta, x, y) \in Elem
  BY Lines
<1> DEFINE xs == X(vcol)
           ys == X(u)
           zs == X(qcol)
<1>3. /\ xs \in Seq(Elem) /\ ys \in Seq(Elem) /\ zs \in Seq(Elem)
      /\ Len(xs) = Lambda /\ Len(ys) = Lambda /\ Len(zs) = Lambda
  <2>1. ASSUME NEW col, \A n \in 1..Lambda : col[from + Lambda - n] \in Elem
        PROVE  X(col) \in Seq(Elem) /\ Len(X(col)) = Lambda
    <3> DEFINE c == X(col)
    <3>1. c \in [1..Lambda -> Elem]
      BY <2>1
    <3> HIDE DEF c
    <3>2. c \in Seq(Elem) /\ Len(c) = Lambda
      BY <1>1, <3>1
    <3> QED
      BY <3>2 DEF c
  <2>2. \A n \in 1..Lambda : /\ u[from + Lambda - n] \in Elem
                            /\ vcol[from + Lambda - n] \in Elem
                            /\ qcol[from + Lambda - n] \in Elem
    <3> TAKE n \in 1..Lambda
    <3> DEFINE k == from + Lambda - n
    <3>1. k \in from..(from + Lambda - 1)
      BY <1>1
    <3> HIDE DEF k
    <3>2. u[k] \in Elem /\ vcol[k] \in Elem /\ qcol[k] \in Elem
      BY <3>1, <1>2
    <3> QED
      BY <3>2 DEF k
  <2> QED
    BY <2>1, <2>2
<1>4. \A i \in 1..Lambda : zs[i] = Line(delta, xs[i], ys[i])
  BY <1>1
<1>5. /\ SumPoly(vcol, from) = Horner(Alpha, xs) /\ SumPoly(u, from) = Horner(Alpha, ys)
      /\ SumPoly(qcol, from) = Horner(Alpha, zs)
  BY DEF SumPoly
<1> HIDE DEF xs, ys, zs
<1>6. Len(xs) = Len(zs) /\ Len(ys) = Len(zs)
      /\ \A i \in 1..Len(zs) : zs[i] = Line(delta, xs[i], ys[i])
  BY <1>3, <1>4
<1>7. /\ Horner(Alpha, xs) \in Elem /\ Horner(Alpha, ys) \in Elem
      /\ Horner(Alpha, zs) = Line(delta, Horner(Alpha, xs), Horner(Alpha, ys))
  BY <1>0, <1>3, <1>6
<1> QED
  BY <1>5, <1>7

ChallengeTyped(chall) == chall \in [r0 : Elem, r1 : Elem, s : Elem, t : Elem]

\* zs is xs + Delta * ys, element by element.
Combines(delta, zs, xs, ys) ==
  /\ xs \in Seq(Elem) /\ ys \in Seq(Elem) /\ zs \in Seq(Elem)
  /\ Len(xs) = Len(zs) /\ Len(ys) = Len(zs)
  /\ \A i \in 1..Len(zs) : zs[i] = Line(delta, xs[i], ys[i])

\* And so are their hashes, masked by m, by n and by m + Delta * n.
HashesCombine(chall, delta, zs, xs, ys, m, n) ==
  /\ ZkHash(chall, xs, m) \in Elem /\ ZkHash(chall, ys, n) \in Elem
  /\ ZkHash(chall, zs, Line(delta, m, n)) =
       Line(delta, ZkHash(chall, xs, m), ZkHash(chall, ys, n))

\* The two hashes under chall_2, masked, of a linear combination.
LEMMA ZkHashLinear ==
  ASSUME IsRing, NEW chall, ChallengeTyped(chall), NEW delta \in Elem,
         NEW zs, NEW xs, NEW ys, Combines(delta, zs, xs, ys), NEW m \in Elem, NEW n \in Elem
  PROVE  HashesCombine(chall, delta, zs, xs, ys, m, n)
<1>0. ASSUME NEW key \in Elem
      PROVE  /\ Horner(key, xs) \in Elem /\ Horner(key, ys) \in Elem
             /\ Horner(key, zs) = Line(delta, Horner(key, xs), Horner(key, ys))
  BY HornerLinear DEF Combines
<1> DEFINE r0 == chall.r0
           r1 == chall.r1
<1>1. r0 \in Elem /\ r1 \in Elem /\ chall.s \in Elem /\ chall.t \in Elem
  BY DEF ChallengeTyped
<1> DEFINE a == Horner(chall.s, xs)
           b == Horner(chall.s, ys)
           e == Horner(chall.t, xs)
           g == Horner(chall.t, ys)
<1>2. a \in Elem /\ b \in Elem /\ Horner(chall.s, zs) = Line(delta, a, b)
  BY <1>0, <1>1
<1>3. e \in Elem /\ g \in Elem /\ Horner(chall.t, zs) = Line(delta, e, g)
  BY <1>0, <1>1
<1> DEFINE p == Times(r0, a)
           q == Times(r0, b)
           v == Times(r1, e)
           w == Times(r1, g)
<1>4. ZkHash(chall, xs, m) = Plus(Plus(p, v), m) /\ ZkHash(chall, ys, n) = Plus(Plus(q, w), n)
  BY DEF ZkHash
<1>5. ZkHash(chall, zs, Line(delta, m, n)) =
        Plus(Plus(Times(r0, Line(delta, a, b)), Times(r1, Line(delta, e, g))),
             Line(delta, m, n))
  BY <1>2, <1>3 DEF ZkHash
<1> HIDE DEF a, b, e, g, r0, r1
<1>6. Times(r0, Line(delta, a, b)) = Line(delta, p, q)
  BY <1>1, <1>2, Lines
<1>7. Times(r1, Line(delta, e, g)) = Line(delta, v, w)
  BY <1>1, <1>3, Lines
<1>8. p \in Elem /\ q \in Elem /\ v \in Elem /\ w \in Elem
  BY <1>1, <1>2, <1>3 DEF IsRing
<1> HIDE DEF p, q, v, w
<1>9. /\ Plus(p, v) \in Elem /\ Plus(q, w) \in Elem
      /\ Plus(Plus(p, v), m) \in Elem /\ Plus(Plus(q, w), n) \in Elem
  BY <1>8 DEF IsRing
<1>10. Plus(Line(delta, p, q), Line(delta, v, w)) = Line(delta, Plus(p, v), Plus(q, w))
  BY <1>8, Lines
<1>11. Plus(Line(delta, Plus(p, v), Plus(q, w)), Line(delta, m, n)) =
         Line(delta, Plus(Plus(p, v), m), Plus(Plus(q, w), n))
  BY <1>9, Lines
<1> QED
  BY <1>4, <1>5, <1>6, <1>7, <1>9, <1>10, <1>11 DEF HashesCombine

-----------------------------------------------------------------------------
(* The checks.                                                             *)

\* Every number below the count of a kind is the number of a wire of it.
LEMMA NthOnto ==
  ASSUME NEW c, NEW kind, NEW N \in Nat
  PROVE  \A m \in 0..(Nth(c, kind, N) - 1) :
           \E w \in 0..(N - 1) : c.wires[w + 1].kind = kind /\ Nth(c, kind, w) = m
<1> DEFINE Found(n) == \A m \in 0..(Nth(c, kind, n) - 1) :
             \E w \in 0..(n - 1) : c.wires[w + 1].kind = kind /\ Nth(c, kind, w) = m
           T == {n \in Nat : Found(n)}
<1>1. 0 \in T
  BY NthStep
<1>2. ASSUME NEW n \in Nat, n \in T PROVE n + 1 \in T
  <2> SUFFICES ASSUME NEW m \in 0..(Nth(c, kind, n + 1) - 1)
               PROVE  \E w \in 0..((n + 1) - 1) :
                        c.wires[w + 1].kind = kind /\ Nth(c, kind, w) = m
    OBVIOUS
  <2>1. /\ Nth(c, kind, n) \in Nat
        /\ Nth(c, kind, n + 1) =
             IF c.wires[n + 1].kind = kind THEN Nth(c, kind, n) + 1 ELSE Nth(c, kind, n)
    BY NthStep
  <2>2. CASE m \in 0..(Nth(c, kind, n) - 1)
    <3>1. PICK w \in 0..(n - 1) : c.wires[w + 1].kind = kind /\ Nth(c, kind, w) = m
      BY <1>2, <2>2
    <3> QED
      BY <3>1
  <2>3. CASE m \notin 0..(Nth(c, kind, n) - 1)
    <3>1. c.wires[n + 1].kind = kind /\ m = Nth(c, kind, n)
      BY <2>1, <2>3
    <3> QED
      BY <3>1
  <2> QED
    BY <2>2, <2>3
<1> HIDE DEF T
<1>3. Nat \subseteq T
  BY <1>1, <1>2, NatSetInduction
<1> QED
  BY <1>3 DEF T

\* The checks of a circuit are of its AND gates.
LEMMA AndGatesAre ==
  ASSUME NEW c, WellFormed(c)
  PROVE  /\ AndGates(c) \in Seq(0..(Len(c.wires) - 1))
         /\ \A n \in 1..Len(AndGates(c)) : /\ AndGates(c)[n] \in 0..(Len(c.wires) - 1)
                                           /\ c.wires[AndGates(c)[n] + 1].kind = "and"
<1> DEFINE N == Len(c.wires)
           M == Nth(c, "and", N)
           P(n, w) == c.wires[w + 1].kind = "and" /\ Nth(c, "and", w) = n - 1
<1>1. N \in Nat /\ M \in Nat
  BY NthStep DEF WellFormed
<1>2. AndGates(c) = [n \in 1..M |-> CHOOSE w \in 0..(N - 1) : P(n, w)]
  BY DEF AndGates
<1>3. ASSUME NEW n \in 1..M
      PROVE  AndGates(c)[n] \in 0..(N - 1) /\ P(n, AndGates(c)[n])
  <2>1. n - 1 \in 0..(M - 1)
    BY <1>1
  <2>2. \E w \in 0..(N - 1) : P(n, w)
    BY <1>1, <2>1, NthOnto
  <2>3. AndGates(c)[n] = CHOOSE w \in 0..(N - 1) : P(n, w)
    BY <1>2
  <2> HIDE DEF P
  <2> QED
    BY <2>2, <2>3
<1> DEFINE g == AndGates(c)
<1>4. g \in Seq(0..(N - 1)) /\ Len(g) = M
  <2>1. g = [n \in 1..M |-> g[n]] /\ \A n \in 1..M : g[n] \in 0..(N - 1)
    BY <1>2, <1>3
  <2> HIDE DEF g, M, N
  <2> QED
    BY <1>1, <2>1
<1> HIDE DEF M, N
<1> QED
  BY <1>3, <1>4 DEF N

\* The key relation at element i.
Related(delta, bits, tags, keys, i) ==
  /\ bits[i] \in {0, 1} /\ tags[i] \in Elem
  /\ keys[i] = Line(delta, tags[i], BitElem(bits[i]))

\* What the verifier computes of AND gate w is the polynomial that the
\* prover computes of it, at Delta.
GateChecks(delta, c, bits, tags, keys, w) ==
  LET A == AndCoefficients(c, bits, tags, w)
      k == Plus(Times(keys[c.wires[w + 1].a + 1], keys[c.wires[w + 1].b + 1]), keys[w + 1])
  IN  /\ A[1] \in Elem /\ A[2] \in Elem /\ A[3] \in Elem /\ k \in Elem
      /\ k = Line(delta, A[1], Line(delta, A[2], A[3]))

\* It is, when the key relation holds of the gate and of its operands.
LEMMA GateCheck ==
  ASSUME IsRing, NEW delta \in Elem, NEW c, NEW bits, NEW tags, NEW keys, NEW w,
         Related(delta, bits, tags, keys, c.wires[w + 1].a + 1),
         Related(delta, bits, tags, keys, c.wires[w + 1].b + 1),
         Related(delta, bits, tags, keys, w + 1)
  PROVE  GateChecks(delta, c, bits, tags, keys, w)
<1> DEFINE a == c.wires[w + 1].a + 1
           b == c.wires[w + 1].b + 1
           x == BitElem(bits[a])
           y == BitElem(bits[b])
           z == BitElem(bits[w + 1])
           ta == tags[a]
           tb == tags[b]
           tc == tags[w + 1]
           A == AndCoefficients(c, bits, tags, w)
           k == Plus(Times(keys[a], keys[b]), keys[w + 1])
<1>1. /\ bits[a] \in {0, 1} /\ bits[b] \in {0, 1}
      /\ ta \in Elem /\ tb \in Elem /\ tc \in Elem
      /\ keys[a] = Line(delta, ta, x) /\ keys[b] = Line(delta, tb, y)
      /\ keys[w + 1] = Line(delta, tc, z)
  BY DEF Related
<1>2. /\ A[1] = Plus(Times(ta, tb), tc)
      /\ A[2] = Plus(Plus(Times(ta, y), Times(tb, x)), z)
      /\ A[3] = BitElem(bits[a] * bits[b])
  BY DEF AndCoefficients
<1>3. k = Plus(Times(Line(delta, ta, x), Line(delta, tb, y)), Line(delta, tc, z))
  BY <1>1
<1> HIDE DEF a, b, A, k
<1>4. BitElem(bits[a] * bits[b]) = Times(x, y) /\ x \in Elem /\ y \in Elem /\ z \in Elem
  BY <1>1, Products
<1>5. A[3] = Times(x, y)
  BY <1>2, <1>4
<1> HIDE DEF x, y, z, ta, tb, tc
<1>6. /\ x \in Elem /\ y \in Elem /\ z \in Elem
      /\ ta \in Elem /\ tb \in Elem /\ tc \in Elem
  BY <1>1, <1>4
<1> DEFINE L == Line(delta, tb, y)
           p == Times(ta, tb)
           q == Times(ta, y)
           r == Times(tb, x)
           t == Times(x, y)
<1>7. L \in Elem /\ p \in Elem /\ q \in Elem /\ r \in Elem /\ t \in Elem
  BY <1>6, Lines DEF IsRing
<1>8. Times(Line(delta, ta, x), L) = Line(delta, Times(ta, L), Times(x, L))
  BY <1>6, <1>7, Lines
<1>9. Times(ta, L) = Line(delta, p, q)
  BY <1>6, Lines
<1>10. Times(x, L) = Line(delta, r, t)
  <2>1. Times(x, L) = Line(delta, Times(x, tb), t)
    BY <1>6, Lines
  <2>2. Times(x, tb) = r
    BY <1>6 DEF IsRing, RingLaws
  <2> QED
    BY <2>1, <2>2
<1> HIDE DEF L, p, q, r, t
<1> DEFINE m == Times(delta, q)
           n == Line(delta, r, t)
<1>11. m \in Elem /\ n \in Elem /\ Times(delta, n) \in Elem /\ Plus(q, r) \in Elem
  BY <1>7, Lines DEF IsRing
<1>12. Line(delta, Line(delta, p, q), n) = Plus(p, Times(delta, Plus(q, n)))
  <2>1. Plus(Plus(p, m), Times(delta, n)) = Plus(p, Plus(m, Times(delta, n)))
    BY <1>7, <1>11 DEF IsRing, RingLaws
  <2>2. Plus(m, Times(delta, n)) = Times(delta, Plus(q, n))
    BY <1>7, <1>11, Products
  <2> QED
    BY <2>1, <2>2 DEF Line
<1>13. \A v \in Elem : Plus(v, n) = Line(delta, Plus(v, r), t)
  <2> TAKE v \in Elem
  <2>1. Times(delta, t) \in Elem
    BY <1>7 DEF IsRing
  <2>2. Plus(v, Plus(r, Times(delta, t))) = Plus(Plus(v, r), Times(delta, t))
    BY <1>7, <2>1 DEF IsRing, RingLaws
  <2> QED
    BY <2>2 DEF Line
<1>14. Times(Line(delta, ta, x), L) = Line(delta, p, Line(delta, Plus(q, r), t))
  BY <1>7, <1>8, <1>9, <1>10, <1>12, <1>13 DEF Line
<1> DEFINE o == Line(delta, Plus(q, r), t)
<1>15. o \in Elem
  BY <1>7, <1>11, Lines
<1>16. Plus(o, z) = Line(delta, Plus(Plus(q, r), z), t)
  <2> DEFINE g == Plus(q, r)
             h == Times(delta, t)
  <2>1. g \in Elem /\ h \in Elem /\ Zero \in Elem
    BY <1>7, <1>11 DEF IsRing
  <2>2. Plus(Plus(g, h), Plus(z, Zero)) = Plus(Plus(g, z), Plus(h, Zero))
    BY <1>6, <2>1, Sums
  <2>3. Plus(z, Zero) = z /\ Plus(h, Zero) = h
    BY <1>6, <2>1 DEF IsRing, RingLaws
  <2> QED
    BY <2>2, <2>3 DEF Line
<1> HIDE DEF o
<1>17. Plus(Line(delta, p, o), Line(delta, tc, z)) = Line(delta, Plus(p, tc), Plus(o, z))
  <2>1. \A d, e, f, g \in Elem : Plus(Line(delta, d, e), Line(delta, f, g)) =
                                   Line(delta, Plus(d, f), Plus(e, g))
    BY Lines
  <2> QED
    BY <1>6, <1>7, <1>15, <2>1
<1>18. Times(Line(delta, ta, x), L) = Line(delta, p, o)
  BY <1>14 DEF o
<1>19. k = Line(delta, Plus(Times(ta, tb), tc),
               Line(delta, Plus(Plus(Times(ta, y), Times(tb, x)), z), Times(x, y)))
  BY <1>3, <1>16, <1>17, <1>18 DEF L, p, q, r, t
<1>20. \A d, e \in Elem : Plus(d, e) \in Elem /\ Times(d, e) \in Elem
  BY DEF IsRing
<1>21. A[1] \in Elem /\ A[2] \in Elem /\ A[3] \in Elem
  BY <1>1, <1>2, <1>4, <1>5, <1>20
<1>22. k \in Elem
  BY <1>2, <1>5, <1>19, <1>21, Lines, ZenonT(60)
<1> QED
  BY <1>2, <1>5, <1>19, <1>21, <1>22 DEF A, k, a, b, GateChecks

\* A function on 1..n is a sequence.
LEMMA FunctionIsSeq ==
  ASSUME NEW S, NEW n \in Nat, NEW f, f = [i \in 1..n |-> f[i]], \A i \in 1..n : f[i] \in S
  PROVE  f \in Seq(S) /\ Len(f) = n
OBVIOUS

\* r is s followed by t.
Joined(r, S, s, t) ==
  /\ r \in Seq(S) /\ Len(r) = Len(s) + Len(t)
  /\ \A i \in 1..Len(s) : r[i] = s[i]
  /\ \A i \in (Len(s) + 1)..(Len(s) + Len(t)) : r[i] = t[i - Len(s)]

\* Two sequences, one after the other.
LEMMA Concatenated ==
  ASSUME NEW S, NEW s \in Seq(S), NEW t \in Seq(S)
  PROVE  Joined(s \o t, S, s, t)
BY DEF Joined

\* Every check is the polynomial of the prover's three coefficients, at
\* Delta, once the constraints hold.
LEMMA Checks ==
  ASSUME NEW c, WellFormed(c), Valid(c), IsRing, NEW delta \in Elem,
         NEW bits \in Seq({0, 1}), NEW tags \in Seq(Elem), NEW keys \in Seq(Elem),
         Len(bits) = Len(c.wires), Len(tags) = Len(c.wires), Len(keys) = Len(c.wires),
         \A i \in 1..Len(c.wires) : Related(delta, bits, tags, keys, i),
         Satisfied(c, bits)
  PROVE  LET A(i) == Coefficients(c, bits, tags, i)
             K == VerifierChecks(c, keys)
         IN  /\ K \in Seq(Elem)
             /\ \A i \in 0..2 : A(i) \in Seq(Elem) /\ Len(A(i)) = Len(K)
             /\ \A n \in 1..Len(K) : K[n] = Line(delta, A(0)[n], Line(delta, A(1)[n], A(2)[n]))
<1> DEFINE N == Len(c.wires)
           gates == AndGates(c)
           G == Len(gates)
           C == Len(c.cons)
           first(i) == [n \in 1..G |-> AndCoefficients(c, bits, tags, gates[n])[i + 1]]
           second(i) == [n \in 1..C |-> IF i = 0 THEN tags[c.cons[n] + 1] ELSE Zero]
           firstK == [n \in 1..G |-> LET w == gates[n]
                                         e == c.wires[w + 1]
                                     IN  Plus(Times(keys[e.a + 1], keys[e.b + 1]), keys[w + 1])]
           secondK == [n \in 1..C |-> keys[c.cons[n] + 1]]
<1>0. N \in Nat
  BY DEF WellFormed
<1>1. N \in Nat /\ gates \in Seq(0..(N - 1))
      /\ \A n \in 1..G : gates[n] \in 0..(N - 1) /\ c.wires[gates[n] + 1].kind = "and"
  BY <1>0, AndGatesAre
<1>2. C \in Nat /\ \A n \in 1..C : c.cons[n] + 1 \in 1..N /\ bits[c.cons[n] + 1] = 0
  <2>1. C \in Nat /\ \A n \in 1..C : c.cons[n] \in Nat
    BY DEF WellFormed
  <2>2. \A n \in 1..C : c.cons[n] < N
    BY DEF Valid
  <2>3. \A n \in 1..C : bits[c.cons[n] + 1] = 0
    BY DEF Satisfied
  <2> HIDE DEF N, C
  <2> QED
    BY <1>0, <2>1, <2>2, <2>3
<1>3. \A i \in 1..N : /\ bits[i] \in {0, 1} /\ tags[i] \in Elem /\ keys[i] \in Elem
                      /\ BitElem(bits[i]) \in Elem
                      /\ keys[i] = Line(delta, tags[i], BitElem(bits[i]))
  BY Products DEF Related
<1>4. \A i \in 0..2 : Coefficients(c, bits, tags, i) = first(i) \o second(i)
  BY DEF Coefficients
<1>5. VerifierChecks(c, keys) = firstK \o secondK
  BY DEF VerifierChecks
<1>e. Zero \in Elem /\ \A x, y \in Elem : Plus(x, y) \in Elem /\ Times(x, y) \in Elem
  BY DEF IsRing
<1> HIDE DEF gates
<1>6. ASSUME NEW n \in 1..G
      PROVE  /\ \A i \in 0..2 : first(i)[n] \in Elem
             /\ firstK[n] \in Elem
             /\ firstK[n] = Line(delta, first(0)[n], Line(delta, first(1)[n], first(2)[n]))
  <2> DEFINE w == gates[n]
             a == c.wires[w + 1].a + 1
             b == c.wires[w + 1].b + 1
  <2>1. w \in 0..(N - 1) /\ c.wires[w + 1].kind = "and"
    BY <1>1
  <2>2. a \in 1..w /\ b \in 1..w
    BY <2>1, GateTyped
  <2>3. a \in 1..N /\ b \in 1..N /\ w + 1 \in 1..N
    <3> HIDE DEF a, b, w, N
    <3> QED
      BY <1>0, <2>1, <2>2
  <2>4. /\ Related(delta, bits, tags, keys, a) /\ Related(delta, bits, tags, keys, b)
        /\ Related(delta, bits, tags, keys, w + 1)
    BY <2>3
  <2> DEFINE A == AndCoefficients(c, bits, tags, w)
             k == Plus(Times(keys[a], keys[b]), keys[w + 1])
  <2>c. GateChecks(delta, c, bits, tags, keys, w)
    BY <2>4, GateCheck, Zenon
  <2>5. /\ A[1] \in Elem /\ A[2] \in Elem /\ A[3] \in Elem /\ k \in Elem
        /\ k = Line(delta, A[1], Line(delta, A[2], A[3]))
    BY <2>c DEF GateChecks
  <2>6. first(0)[n] = A[1] /\ first(1)[n] = A[2] /\ first(2)[n] = A[3] /\ firstK[n] = k
    OBVIOUS
  <2>7. \A i \in 0..2 : i = 0 \/ i = 1 \/ i = 2
    OBVIOUS
  <2> HIDE DEF first, firstK, A, k, G
  <2> QED
    BY <2>5, <2>6, <2>7
<1>7. ASSUME NEW n \in 1..C
      PROVE  /\ \A i \in 0..2 : second(i)[n] \in Elem
             /\ secondK[n] \in Elem
             /\ secondK[n] = Line(delta, second(0)[n], Line(delta, second(1)[n], second(2)[n]))
  <2> DEFINE j == c.cons[n] + 1
  <2>1. j \in 1..N /\ bits[j] = 0
    BY <1>2
  <2>2. secondK[n] = keys[j] /\ second(0)[n] = tags[j] /\ second(1)[n] = Zero
        /\ second(2)[n] = Zero
    OBVIOUS
  <2>3. tags[j] \in Elem /\ keys[j] = Line(delta, tags[j], Zero) /\ keys[j] \in Elem
    BY <1>3, <2>1 DEF BitElem
  <2>4. Line(delta, Zero, Zero) = Zero
    BY <1>e, Products, Sums DEF Line
  <2>5. \A i \in 0..2 : second(i)[n] \in {tags[j], Zero}
    OBVIOUS
  <2> HIDE DEF j, second, secondK
  <2> QED
    BY <1>e, <2>2, <2>3, <2>4, <2>5
<1>8. G \in Nat
  BY <1>1 DEF gates
<1>9. firstK \in Seq(Elem) /\ Len(firstK) = G /\ secondK \in Seq(Elem) /\ Len(secondK) = C
  <2>1. firstK = [n \in 1..G |-> firstK[n]] /\ secondK = [n \in 1..C |-> secondK[n]]
    OBVIOUS
  <2>2. \A n \in 1..G : firstK[n] \in Elem
    BY <1>6
  <2>3. \A n \in 1..C : secondK[n] \in Elem
    BY <1>7
  <2> HIDE DEF firstK, secondK, G, C
  <2> QED
    BY <1>2, <1>8, <2>1, <2>2, <2>3, FunctionIsSeq
<1>10. ASSUME NEW i \in 0..2
       PROVE  first(i) \in Seq(Elem) /\ Len(first(i)) = G
              /\ second(i) \in Seq(Elem) /\ Len(second(i)) = C
  <2> DEFINE f == first(i)
             g == second(i)
  <2>1. f = [n \in 1..G |-> f[n]] /\ g = [n \in 1..C |-> g[n]]
    OBVIOUS
  <2>2. \A n \in 1..G : f[n] \in Elem
    BY <1>6
  <2>3. \A n \in 1..C : g[n] \in Elem
    BY <1>7
  <2> HIDE DEF f, g, G, C
  <2>4. f \in Seq(Elem) /\ Len(f) = G /\ g \in Seq(Elem) /\ Len(g) = C
    BY <1>2, <1>8, <2>1, <2>2, <2>3, FunctionIsSeq
  <2> QED
    BY <2>4 DEF f, g
<1> DEFINE K == VerifierChecks(c, keys)
           A(i) == Coefficients(c, bits, tags, i)
<1> HIDE DEF first, second, firstK, secondK, G, C, N
<1>11. /\ K \in Seq(Elem) /\ Len(K) = G + C
       /\ \A n \in 1..G : K[n] = firstK[n]
       /\ \A n \in (G + 1)..(G + C) : K[n] = secondK[n - G]
  <2>1. Joined(firstK \o secondK, Elem, firstK, secondK)
    BY <1>9, Concatenated
  <2>2. Joined(K, Elem, firstK, secondK)
    BY <1>5, <2>1
  <2> HIDE DEF K
  <2> QED
    BY <1>9, <2>2 DEF Joined
<1>12. ASSUME NEW i \in 0..2
       PROVE  /\ A(i) \in Seq(Elem) /\ Len(A(i)) = G + C
              /\ \A n \in 1..G : A(i)[n] = first(i)[n]
              /\ \A n \in (G + 1)..(G + C) : A(i)[n] = second(i)[n - G]
  <2> DEFINE f == first(i)
             g == second(i)
             a == A(i)
  <2>1. f \in Seq(Elem) /\ g \in Seq(Elem) /\ Len(f) = G /\ Len(g) = C
    BY <1>10
  <2>2. a = f \o g
    BY <1>4
  <2> HIDE DEF a, f, g
  <2>3. Joined(f \o g, Elem, f, g)
    BY <2>1, Concatenated
  <2>4. Joined(a, Elem, f, g)
    BY <2>2, <2>3
  <2>5. /\ a \in Seq(Elem) /\ Len(a) = G + C
        /\ \A n \in 1..G : a[n] = f[n]
        /\ \A n \in (G + 1)..(G + C) : a[n] = g[n - G]
    BY <2>1, <2>4 DEF Joined
  <2> QED
    BY <2>5 DEF a, f, g
<1> HIDE DEF K, A
<1>13. ASSUME NEW n \in 1..Len(K)
       PROVE  K[n] = Line(delta, A(0)[n], Line(delta, A(1)[n], A(2)[n]))
  <2>0. 0 \in 0..2 /\ 1 \in 0..2 /\ 2 \in 0..2
    OBVIOUS
  <2>1. CASE n \in 1..G
    BY <1>6, <1>11, <1>12, <2>0, <2>1
  <2>2. CASE n \in (G + 1)..(G + C)
    <3>1. n - G \in 1..C
      BY <1>2, <1>8, <2>2
    <3> QED
      BY <1>7, <1>11, <1>12, <2>0, <2>2, <3>1
  <2> QED
    BY <1>2, <1>8, <1>11, <2>1, <2>2
<1> QED
  BY <1>11, <1>12, <1>13 DEF K, A

-----------------------------------------------------------------------------
(* The verification equation.                                              *)

\* The verifier's mask is the polynomial of the prover's three, at Delta.
LEMMA Masks ==
  ASSUME NEW c, WellFormed(c), IsRing, Alpha \in Elem,
         NEW u, NEW vcol, NEW qcol, NEW delta, Correlated(c, u, vcol, qcol, delta)
  PROVE  LET M(i) == ProverMask(c, u, vcol, i)
         IN  /\ M(0) \in Elem /\ M(1) \in Elem /\ M(2) \in Elem
             /\ VerifierMask(c, qcol, delta) = Line(delta, M(0), Line(delta, M(1), M(2)))
<1> DEFINE l == Ell(c)
           v0 == SumPoly(vcol, l)
           v1 == SumPoly(vcol, l + Lambda)
           u0 == SumPoly(u, l)
           u1 == SumPoly(u, l + Lambda)
<1>1. l \in Nat /\ l + Lambda \in Nat /\ Lambda \in Nat /\ delta \in Elem
  BY Slots, LambdaAssumption DEF Correlated
<1>2. \A k \in Columns(c) : u[k] \in Elem /\ vcol[k] \in Elem /\ qcol[k] = Line(delta, vcol[k], u[k])
  BY DEF Correlated, ColumnsTyped, Line
<1>3. Columns(c) = 0..(l + 2 * Lambda - 1)
  BY DEF Columns
<1> HIDE DEF l
<1>4. v0 \in Elem /\ u0 \in Elem /\ SumPoly(qcol, l) = Line(delta, v0, u0)
  <2>1. \A k \in l..(l + Lambda - 1) : k \in Columns(c)
    BY <1>1, <1>3
  <2>2. \A k \in l..(l + Lambda - 1) :
          u[k] \in Elem /\ vcol[k] \in Elem /\ qcol[k] = Line(delta, vcol[k], u[k])
    BY <1>2, <2>1
  <2>3. l \in Nat /\ delta \in Elem
    BY <1>1
  <2> QED
    BY <2>2, <2>3, SumPolyLinear
<1>5. v1 \in Elem /\ u1 \in Elem /\ SumPoly(qcol, l + Lambda) = Line(delta, v1, u1)
  <2> DEFINE from == l + Lambda
  <2>1. \A k \in from..(from + Lambda - 1) : k \in Columns(c)
    BY <1>1, <1>3
  <2>2. from \in Nat
    BY <1>1
  <2>3. \A k \in from..(from + Lambda - 1) :
          u[k] \in Elem /\ vcol[k] \in Elem /\ qcol[k] = Line(delta, vcol[k], u[k])
    BY <1>2, <2>1
  <2> HIDE DEF from
  <2>4. SumPoly(vcol, from) \in Elem /\ SumPoly(u, from) \in Elem
        /\ SumPoly(qcol, from) = Line(delta, SumPoly(vcol, from), SumPoly(u, from))
    BY <1>1, <2>2, <2>3, SumPolyLinear
  <2> QED
    BY <2>4 DEF from
<1>6. /\ ProverMask(c, u, vcol, 0) = v0 /\ ProverMask(c, u, vcol, 1) = Plus(v1, u0)
      /\ ProverMask(c, u, vcol, 2) = u1
  BY DEF ProverMask, l
<1>7. VerifierMask(c, qcol, delta) = Plus(Line(delta, v0, u0), Times(delta, Line(delta, v1, u1)))
  BY <1>4, <1>5 DEF VerifierMask, l
<1> HIDE DEF v0, v1, u0, u1
<1> DEFINE x == Times(delta, u1)
<1>8. x \in Elem /\ \A y, z \in Elem : Plus(y, z) \in Elem /\ Times(y, z) \in Elem
  BY <1>1, <1>5 DEF IsRing
<1>9. Line(delta, v1, u1) = Plus(v1, x)
  BY DEF Line
<1> HIDE DEF x
<1>10. Plus(Plus(v0, Times(delta, u0)), Times(delta, Plus(v1, x))) =
         Plus(v0, Times(delta, Plus(Plus(v1, u0), x)))
  <2> DEFINE y == Plus(v1, x)
  <2>1. y \in Elem /\ Times(delta, u0) \in Elem /\ Times(delta, y) \in Elem
    BY <1>1, <1>4, <1>5, <1>8
  <2>2. Plus(u0, y) = Plus(Plus(v1, u0), x)
    <3>1. Plus(u0, Plus(v1, x)) = Plus(Plus(u0, v1), x)
      BY <1>4, <1>5, <1>8 DEF IsRing, RingLaws
    <3>2. Plus(u0, v1) = Plus(v1, u0)
      BY <1>4, <1>5 DEF IsRing, RingLaws
    <3> QED
      BY <3>1, <3>2
  <2> HIDE DEF y
  <2>3. Plus(Plus(v0, Times(delta, u0)), Times(delta, y)) =
          Plus(v0, Plus(Times(delta, u0), Times(delta, y)))
    BY <1>4, <2>1 DEF IsRing, RingLaws
  <2>4. Plus(Times(delta, u0), Times(delta, y)) = Times(delta, Plus(u0, y))
    BY <1>1, <1>4, <2>1, Products
  <2>5. Plus(Plus(v0, Times(delta, u0)), Times(delta, y)) =
          Plus(v0, Times(delta, Plus(Plus(v1, u0), x)))
    BY <2>2, <2>3, <2>4
  <2> QED
    BY <2>5 DEF y
<1>11. VerifierMask(c, qcol, delta) = Line(delta, v0, Line(delta, Plus(v1, u0), u1))
  <2>1. VerifierMask(c, qcol, delta) = Plus(Plus(v0, Times(delta, u0)), Times(delta, Plus(v1, x)))
    BY <1>7, <1>9 DEF Line
  <2>2. Line(delta, v0, Line(delta, Plus(v1, u0), u1)) =
          Plus(v0, Times(delta, Plus(Plus(v1, u0), x)))
    BY DEF Line, x
  <2> QED
    BY <1>10, <2>1, <2>2
<1> QED
  BY <1>4, <1>5, <1>6, <1>8, <1>11

\* What is left when a_1 and a_2 are taken off.
LEMMA TakenOff ==
  ASSUME IsRing, NEW delta \in Elem, NEW a0 \in Elem, NEW a1 \in Elem, NEW a2 \in Elem
  PROVE  Plus(Plus(Line(delta, a0, Line(delta, a1, a2)), Times(delta, a1)),
              Times(Times(delta, delta), a2)) = a0
<1> DEFINE x == Times(delta, a1)
           y == Times(Times(delta, delta), a2)
<1>1. x \in Elem /\ y \in Elem /\ Times(delta, a2) \in Elem
  BY DEF IsRing
<1>2. Times(delta, Line(delta, a1, a2)) = Plus(x, y)
  <2>1. Times(delta, Plus(a1, Times(delta, a2))) = Plus(x, Times(delta, Times(delta, a2)))
    BY <1>1, Products
  <2>2. Times(delta, Times(delta, a2)) = y
    BY DEF IsRing, RingLaws
  <2> QED
    BY <2>1, <2>2 DEF Line
<1>3. Line(delta, a0, Line(delta, a1, a2)) = Plus(a0, Plus(x, y))
  BY <1>2 DEF Line
<1> HIDE DEF x, y
<1>4. Plus(a0, Plus(x, y)) = Plus(Plus(a0, y), x)
  <2>1. Plus(x, y) = Plus(y, x)
    BY <1>1 DEF IsRing, RingLaws
  <2>2. Plus(a0, Plus(y, x)) = Plus(Plus(a0, y), x)
    BY <1>1 DEF IsRing, RingLaws
  <2> QED
    BY <2>1, <2>2
<1>5. Plus(a0, y) \in Elem
  BY <1>1 DEF IsRing
<1>6. Plus(Plus(Plus(a0, y), x), x) = Plus(a0, y)
  BY <1>1, <1>5, Sums
<1>7. Plus(Plus(a0, y), y) = a0
  BY <1>1, Sums
<1> QED
  BY <1>3, <1>4, <1>6, <1>7 DEF x, y

\* The verifier recomputes a_0.
Recomputes(c, witness, instance, u, vcol, qcol, delta, chall) ==
  LET bits == Bits(c, witness, instance)
      a == QsProve(c, bits, u, vcol, chall)
  IN  QsVerify(c, instance, qcol, ComputeD(c, bits, u), delta, chall, a[1], a[2]) = a[0]

\* For every circuit and every field: of inputs that satisfy the
\* constraints the verifier recomputes the a_0 of an honest prover, whatever
\* the masks and the challenges.
THEOREM HonestProofVerifies ==
  ASSUME NEW c, WellFormed(c), Valid(c), IsRing, Alpha \in Elem,
         NEW witness, NEW instance, InputsTyped(c, witness, instance),
         NEW u, NEW vcol, NEW qcol, NEW delta, Correlated(c, u, vcol, qcol, delta),
         NEW chall, ChallengeTyped(chall), Satisfied(c, Bits(c, witness, instance))
  PROVE  Recomputes(c, witness, instance, u, vcol, qcol, delta, chall)
<1> DEFINE bits == Bits(c, witness, instance)
           d == ComputeD(c, bits, u)
           keys == Keys(c, instance, qcol, d, delta)
           tags == Tags(c, vcol)
           A(i) == Coefficients(c, bits, tags, i)
           K == VerifierChecks(c, keys)
           M(i) == ProverMask(c, u, vcol, i)
           a == QsProve(c, bits, u, vcol, chall)
<1>0. delta \in Elem /\ ColumnsTyped(c, vcol) /\ ColumnsTyped(c, qcol) /\ CorrectionTyped(c, d)
  BY CorrelatedTyped DEF Correlated
<1>1. bits \in Seq({0, 1}) /\ Len(bits) = Len(c.wires)
  BY BitsUnfold
<1>2. tags \in Seq(Elem) /\ Len(tags) = Len(c.wires)
  BY <1>0, TagsUnfold
<1>3. keys \in Seq(Elem) /\ Len(keys) = Len(c.wires)
  <2> HIDE DEF d
  <2> QED
    BY <1>0, KeysUnfold
<1>4. \A i \in 1..Len(c.wires) : Related(delta, bits, tags, keys, i)
  <2>1. \A i \in 1..Len(c.wires) : keys[i] = Plus(tags[i], Times(delta, BitElem(bits[i])))
    BY KeyOfEveryWire DEF KeysRelate
  <2> HIDE DEF bits, tags, keys
  <2> QED
    BY <1>1, <1>2, <2>1 DEF Related, Line
<1>5. Satisfied(c, bits)
  OBVIOUS
<1>6. /\ a[0] = ZkHash(chall, A(0), M(0)) /\ a[1] = ZkHash(chall, A(1), M(1))
      /\ a[2] = ZkHash(chall, A(2), M(2))
  BY DEF QsProve
<1>7. QsVerify(c, instance, qcol, d, delta, chall, a[1], a[2]) =
        Plus(Plus(ZkHash(chall, K, VerifierMask(c, qcol, delta)), Times(delta, a[1])),
             Times(Times(delta, delta), a[2]))
  BY DEF QsVerify
<1>8. Recomputes(c, witness, instance, u, vcol, qcol, delta, chall) <=>
        QsVerify(c, instance, qcol, d, delta, chall, a[1], a[2]) = a[0]
  BY DEF Recomputes
<1> HIDE DEF bits, d, keys, tags
<1>9. /\ K \in Seq(Elem)
      /\ \A i \in 0..2 : A(i) \in Seq(Elem) /\ Len(A(i)) = Len(K)
      /\ \A n \in 1..Len(K) : K[n] = Line(delta, A(0)[n], Line(delta, A(1)[n], A(2)[n]))
  BY <1>0, <1>1, <1>2, <1>3, <1>4, <1>5, Checks
<1>10. /\ M(0) \in Elem /\ M(1) \in Elem /\ M(2) \in Elem
       /\ VerifierMask(c, qcol, delta) = Line(delta, M(0), Line(delta, M(1), M(2)))
  BY Masks
<1> DEFINE A0 == A(0)
           A1 == A(1)
           A2 == A(2)
           M0 == M(0)
           M1 == M(1)
           M2 == M(2)
           W == [n \in 1..Len(K) |-> Line(delta, A1[n], A2[n])]
<1>11. /\ A0 \in Seq(Elem) /\ A1 \in Seq(Elem) /\ A2 \in Seq(Elem)
       /\ Len(A0) = Len(K) /\ Len(A1) = Len(K) /\ Len(A2) = Len(K)
  BY <1>9
<1> HIDE DEF K, A, M, a, A0, A1, A2, M0, M1, M2
<1>12. Len(K) \in Nat /\ \A n \in 1..Len(K) : A1[n] \in Elem /\ A2[n] \in Elem
  BY <1>9, <1>11
<1>13. \A x, y \in Elem : Line(delta, x, y) \in Elem
  BY <1>0, Lines
<1>14. W \in Seq(Elem) /\ Len(W) = Len(K)
  BY <1>12, <1>13
<1>15. /\ \A n \in 1..Len(W) : W[n] = Line(delta, A1[n], A2[n])
       /\ \A n \in 1..Len(K) : K[n] = Line(delta, A0[n], W[n])
  BY <1>9, <1>14 DEF A0, A1, A2
<1> HIDE DEF W
<1>16. Combines(delta, W, A1, A2) /\ Combines(delta, K, A0, W)
  <2>1. Combines(delta, W, A1, A2)
    BY <1>11, <1>14, <1>15 DEF Combines
  <2>2. Combines(delta, K, A0, W)
    BY <1>9, <1>11, <1>14, <1>15 DEF Combines
  <2> QED
    BY <2>1, <2>2
<1>17. M0 \in Elem /\ M1 \in Elem /\ M2 \in Elem /\ Line(delta, M1, M2) \in Elem
  BY <1>10, <1>13 DEF M0, M1, M2
<1> DEFINE a0 == ZkHash(chall, A0, M0)
           a1 == ZkHash(chall, A1, M1)
           a2 == ZkHash(chall, A2, M2)
           w == ZkHash(chall, W, Line(delta, M1, M2))
<1>18. a1 \in Elem /\ a2 \in Elem /\ w = Line(delta, a1, a2)
  <2>1. HashesCombine(chall, delta, W, A1, A2, M1, M2)
    BY <1>0, <1>16, <1>17, ZkHashLinear, Zenon
  <2> QED
    BY <2>1 DEF HashesCombine
<1>19. a0 \in Elem /\ ZkHash(chall, K, Line(delta, M0, Line(delta, M1, M2))) = Line(delta, a0, w)
  <2>1. HashesCombine(chall, delta, K, A0, W, M0, Line(delta, M1, M2))
    BY <1>0, <1>16, <1>17, ZkHashLinear, Zenon
  <2> QED
    BY <2>1 DEF HashesCombine
<1>20. a[0] = a0 /\ a[1] = a1 /\ a[2] = a2
  BY <1>6 DEF A0, A1, A2, M0, M1, M2
<1>21. VerifierMask(c, qcol, delta) = Line(delta, M0, Line(delta, M1, M2))
  BY <1>10 DEF M0, M1, M2
<1> HIDE DEF a0, a1, a2, w
<1>22. Plus(Plus(Line(delta, a0, Line(delta, a1, a2)), Times(delta, a1)),
            Times(Times(delta, delta), a2)) = a0
  BY <1>0, <1>18, <1>19, TakenOff
<1> QED
  BY <1>7, <1>8, <1>18, <1>19, <1>20, <1>21, <1>22

-----------------------------------------------------------------------------
(* Two applications.                                                       *)

Circuits ==
  [wires : Seq(WireEntries), cons : Seq(Nat), capW : Nat, capC : Nat,
   nWitness : Nat, nInstance : Nat, nAnd : Nat, ok : BOOLEAN]

\* The capacity of a table that doubles when it is full, after n entries.
GrowStep == [s \in [n : Nat, cap : Nat] |->
               [n |-> s.n + 1, cap |-> IF s.n = s.cap THEN 2 * s.cap ELSE s.cap]]
Grown(initial) == Iterate(GrowStep, [n |-> 0, cap |-> initial])

\* A table with n entries has the capacity cap, and they fit.
Room(initial, n, cap) ==
  /\ n \in Nat /\ cap \in Nat /\ cap > 0 /\ n <= cap
  /\ Grown(initial)[n] = [n |-> n, cap |-> cap]

\* Operands that a gate does not have are absent.
Shaped(e) ==
  /\ e.kind \in {"witness", "instance", "const"} => e.a = InvalidId /\ e.b = InvalidId
  /\ e.kind = "not" => e.b = InvalidId

GoodCircuit(c) ==
  /\ c \in Circuits /\ WellFormed(c)
  /\ \A i \in 1..Len(c.wires) : Shaped(c.wires[i])
  /\ Room(InitialWires, Len(c.wires), c.capW)
  /\ Room(InitialConstraints, Len(c.cons), c.capC)

-----------------------------------------------------------------------------
(* Appending keeps a circuit good.                                         *)

Doubled(n, cap) == IF n = cap THEN 2 * cap ELSE cap

\* An empty table has room.
LEMMA EmptyHasRoom ==
  ASSUME NEW initial \in Nat \ {0}
  PROVE  Room(initial, 0, initial)
<1> DEFINE start == [n |-> 0, cap |-> initial]
<1>1. Iterate(GrowStep, start)[0] = start
  <2> HIDE DEF start
  <2> QED
    BY IterateStep
<1> QED
  BY <1>1 DEF Room, Grown

\* A table that is grown when it is full has room.
LEMMA GrowthKeepsRoom ==
  ASSUME NEW initial, NEW n, NEW cap, Room(initial, n, cap)
  PROVE  Room(initial, n + 1, Doubled(n, cap))
<1> DEFINE start == [n |-> 0, cap |-> initial]
           s == [n |-> n, cap |-> cap]
<1>0. n \in Nat /\ cap \in Nat /\ cap > 0 /\ n <= cap
  BY DEF Room
<1>1. Grown(initial)[n + 1] = GrowStep[Grown(initial)[n]]
  <2>1. Iterate(GrowStep, start)[n + 1] = GrowStep[Iterate(GrowStep, start)[n]]
    <3> HIDE DEF start
    <3> QED
      BY <1>0, IterateStep
  <2> QED
    BY <2>1 DEF Grown
<1>2. s \in [n : Nat, cap : Nat] /\ s.n = n /\ s.cap = cap
  BY <1>0
<1>3. Grown(initial)[n] = s
  BY DEF Room
<1> HIDE DEF s
<1>4. GrowStep[s] = [n |-> n + 1, cap |-> Doubled(n, cap)]
  BY <1>2 DEF GrowStep, Doubled
<1>5. Doubled(n, cap) \in Nat /\ Doubled(n, cap) > 0 /\ n + 1 <= Doubled(n, cap)
  BY <1>0 DEF Doubled
<1> QED
  BY <1>0, <1>1, <1>3, <1>4, <1>5 DEF Room

\* Circuit d is c with entry e as wire n.
Longer(c, d, e, n) ==
  /\ n \in Nat /\ d.wires[n + 1] = e
  /\ \A v \in 0..(n - 1) : d.wires[v + 1] = c.wires[v + 1]

\* Appending a wire counts it, and those before it as before.
LEMMA NthAppend ==
  ASSUME NEW c, NEW d, NEW e, NEW n, Longer(c, d, e, n), NEW kind
  PROVE  Nth(d, kind, n + 1) = Counted(Nth(c, kind, n), kind, e)
<1>0. n \in Nat /\ d.wires[n + 1] = e
  BY DEF Longer
<1>1. {v \in 0..(n - 1) : d.wires[v + 1].kind = kind} =
        {v \in 0..(n - 1) : c.wires[v + 1].kind = kind}
  BY DEF Longer
<1>2. Nth(d, kind, n) = Nth(c, kind, n)
  BY <1>1 DEF Nth
<1>3. Nth(d, kind, n + 1) =
        IF d.wires[n + 1].kind = kind THEN Nth(d, kind, n) + 1 ELSE Nth(d, kind, n)
  BY <1>0, NthStep
<1> QED
  BY <1>0, <1>2, <1>3 DEF Counted

\* A wire that was appended.
LEMMA PushedGood ==
  ASSUME NEW c, GoodCircuit(c), NEW e \in WireEntries, Shaped(e)
  PROVE  /\ GoodCircuit(Pushed(c, e)) /\ Pushed(c, e).ok = c.ok
         /\ Len(c.wires) \in Nat /\ Len(Pushed(c, e).wires) = Len(c.wires) + 1
<1> DEFINE d == Pushed(c, e)
           ws == c.wires
           ns == Append(ws, e)
           n == Len(ws)
           capD == Doubled(n, c.capW)
<1>1. /\ c \in Circuits /\ WellFormed(c) /\ ws \in Seq(WireEntries) /\ n \in Nat
      /\ c.capC \in Nat /\ c.cons \in Seq(Nat) /\ c.ok \in BOOLEAN
  BY DEF GoodCircuit, Circuits
<1>2. /\ d.wires = ns /\ d.cons = c.cons /\ d.capC = c.capC /\ d.ok = c.ok
      /\ d.capW = capD
      /\ d.nWitness = Counted(c.nWitness, "witness", e)
      /\ d.nInstance = Counted(c.nInstance, "instance", e)
      /\ d.nAnd = Counted(c.nAnd, "and", e)
  BY DEF Pushed, FullW, Doubled
<1>3. /\ c.nWitness = Nth(c, "witness", n) /\ c.nInstance = Nth(c, "instance", n)
      /\ c.nAnd = Nth(c, "and", n)
      /\ c.nWitness \in Nat /\ c.nInstance \in Nat /\ c.nAnd \in Nat
  BY <1>1 DEF WellFormed, Circuits
<1>4. ns \in Seq(WireEntries) /\ Len(ns) = n + 1
      /\ (\A i \in 1..n : ns[i] = ws[i]) /\ ns[n + 1] = e
  <2> HIDE DEF ws
  <2> QED
    BY <1>1
<1>5. Longer(c, d, e, n)
  BY <1>1, <1>2, <1>4 DEF Longer
<1>6. \A kind : Nth(d, kind, n + 1) = Counted(Nth(c, kind, n), kind, e)
  <2> HIDE DEF d, n
  <2> TAKE kind
  <2> QED
    BY <1>5, NthAppend
<1>7. WellFormed(d)
  BY <1>1, <1>2, <1>3, <1>4, <1>6 DEF WellFormed
<1>8. Room(InitialWires, n + 1, capD)
  <2>1. Room(InitialWires, n, c.capW)
    BY DEF GoodCircuit
  <2> HIDE DEF n
  <2> QED
    BY <2>1, GrowthKeepsRoom
<1>9. d \in Circuits
  <2>1. capD \in Nat
    BY <1>8 DEF Room
  <2>2. \A k \in Nat : \A kind : Counted(k, kind, e) \in Nat
    BY DEF Counted
  <2>3. /\ Counted(c.nWitness, "witness", e) \in Nat /\ Counted(c.nAnd, "and", e) \in Nat
        /\ Counted(c.nInstance, "instance", e) \in Nat
    BY <1>3, <2>2
  <2> HIDE DEF ns, capD
  <2>4. d = [wires |-> ns, cons |-> c.cons, capW |-> capD, capC |-> c.capC,
             nWitness |-> Counted(c.nWitness, "witness", e),
             nInstance |-> Counted(c.nInstance, "instance", e),
             nAnd |-> Counted(c.nAnd, "and", e), ok |-> c.ok]
    BY DEF Pushed, FullW, Doubled, ns, capD
  <2> QED
    BY <1>1, <1>4, <2>1, <2>3, <2>4 DEF Circuits
<1>10. \A i \in 1..(n + 1) : Shaped(ns[i])
  <2> TAKE i \in 1..(n + 1)
  <2>1. CASE i = n + 1
    BY <1>4, <2>1
  <2>2. CASE i \in 1..n
    BY <1>4, <2>2 DEF GoodCircuit
  <2> QED
    BY <1>1, <2>1, <2>2
<1>11. Room(InitialConstraints, Len(d.cons), d.capC)
  BY <1>2 DEF GoodCircuit
<1> HIDE DEF d, ns, n, capD
<1> QED
  BY <1>1, <1>2, <1>4, <1>7, <1>8, <1>9, <1>10, <1>11 DEF GoodCircuit, d, n

\* A failed append leaves the tables alone.
Marked(c) == [c EXCEPT !.ok = FALSE]

LEMMA MarkedGood ==
  ASSUME NEW c, GoodCircuit(c)
  PROVE  /\ GoodCircuit(Marked(c)) /\ ~ Marked(c).ok
         /\ Marked(c).wires = c.wires /\ Len(c.wires) \in Nat
<1> DEFINE d == Marked(c)
<1>1. c \in Circuits
  BY DEF GoodCircuit
<1>2. /\ d \in Circuits /\ d.ok = FALSE
      /\ d.wires = c.wires /\ d.cons = c.cons /\ d.capW = c.capW /\ d.capC = c.capC
      /\ d.nWitness = c.nWitness /\ d.nInstance = c.nInstance /\ d.nAnd = c.nAnd
      /\ Len(c.wires) \in Nat
  <2> DEFINE Any(W, K) == [wires : W, cons : K, capW : Nat, capC : Nat, nWitness : Nat,
                           nInstance : Nat, nAnd : Nat, ok : BOOLEAN]
  <2>1. Len(c.wires) \in Nat
    BY <1>1 DEF Circuits
  <2>2. ASSUME NEW W, NEW K, c \in Any(W, K)
        PROVE  /\ d \in Any(W, K) /\ d.ok = FALSE
               /\ d.wires = c.wires /\ d.cons = c.cons /\ d.capW = c.capW /\ d.capC = c.capC
               /\ d.nWitness = c.nWitness /\ d.nInstance = c.nInstance /\ d.nAnd = c.nAnd
    BY <2>2 DEF Marked
  <2> QED
    BY <1>1, <2>1, <2>2 DEF Circuits
<1> HIDE DEF d
<1>3. \A kind, w : Nth(d, kind, w) = Nth(c, kind, w)
  BY <1>2 DEF Nth
<1>4. WellFormed(d)
  BY <1>2, <1>3 DEF WellFormed, GoodCircuit
<1>5. GoodCircuit(d)
  BY <1>2, <1>4 DEF GoodCircuit
<1> QED
  BY <1>2, <1>5 DEF d

\* What a builder call leaves: a good circuit with at most one wire more.
Grew(c, r) ==
  /\ GoodCircuit(r.c) /\ r.id \in Nat /\ (r.id = InvalidId \/ r.id < Len(r.c.wires))
  /\ Len(c.wires) \in Nat /\ Len(r.c.wires) \in Nat
  /\ Len(c.wires) <= Len(r.c.wires) /\ Len(r.c.wires) <= Len(c.wires) + 1

\* A wire, appended or not.
LEMMA AppendWireGrows ==
  ASSUME NEW c, GoodCircuit(c), NEW e \in WireEntries, Shaped(e), NEW mem \in BOOLEAN
  PROVE  /\ Grew(c, AppendWire(c, e, mem))
         /\ AppendWire(c, e, mem).c.ok =>
              c.ok /\ AppendWire(c, e, mem) = AppendWire(c, e, TRUE)
<1> DEFINE r == AppendWire(c, e, mem)
<1>0. InvalidId \in Nat
  BY CircuitAssumption
<1>1. CASE FullW(c) /\ ~ mem
  <2>1. r.c = Marked(c) /\ r.id = InvalidId
    BY <1>1 DEF AppendWire, Marked
  <2>2. /\ GoodCircuit(Marked(c)) /\ ~ Marked(c).ok
        /\ Marked(c).wires = c.wires /\ Len(c.wires) \in Nat
    BY MarkedGood
  <2> HIDE DEF r
  <2>3. Grew(c, r) /\ ~ r.c.ok
    BY <1>0, <2>1, <2>2 DEF Grew
  <2> QED
    BY <2>3 DEF r
<1>2. CASE ~ (FullW(c) /\ ~ mem)
  <2>1. r.c = Pushed(c, e) /\ r.id = Len(c.wires)
    BY <1>2 DEF AppendWire
  <2>2. r = AppendWire(c, e, TRUE)
    BY <1>2 DEF AppendWire
  <2>3. /\ GoodCircuit(Pushed(c, e)) /\ Pushed(c, e).ok = c.ok
        /\ Len(c.wires) \in Nat /\ Len(Pushed(c, e).wires) = Len(c.wires) + 1
    BY PushedGood
  <2> HIDE DEF r
  <2>4. Grew(c, r) /\ r.c.ok = c.ok
    BY <2>1, <2>3 DEF Grew
  <2> QED
    BY <2>2, <2>4 DEF r
<1> QED
  BY <1>1, <1>2

\* A constraint that was appended.
LEMMA ConstrainedGood ==
  ASSUME NEW c, GoodCircuit(c), NEW w \in Nat
  PROVE  /\ GoodCircuit(Constrained(c, w)) /\ Constrained(c, w).ok = c.ok
         /\ Constrained(c, w).wires = c.wires
<1> DEFINE d == Constrained(c, w)
           ks == c.cons
           ns == Append(ks, w)
           n == Len(ks)
           capD == Doubled(n, c.capC)
<1>1. /\ c \in Circuits /\ ks \in Seq(Nat) /\ n \in Nat
  BY DEF GoodCircuit, Circuits
<1>2. /\ d.wires = c.wires /\ d.cons = ns /\ d.capC = capD /\ d.ok = c.ok
      /\ d.capW = c.capW /\ d.nWitness = c.nWitness /\ d.nInstance = c.nInstance
      /\ d.nAnd = c.nAnd
  BY DEF Constrained, FullC, Doubled
<1>3. ns \in Seq(Nat) /\ Len(ns) = n + 1
  <2> HIDE DEF ks
  <2> QED
    BY <1>1
<1>4. WellFormed(d)
  <2>1. \A kind, v : Nth(d, kind, v) = Nth(c, kind, v)
    BY <1>2 DEF Nth
  <2> QED
    BY <1>2, <1>3, <2>1 DEF WellFormed, GoodCircuit
<1>5. Room(InitialConstraints, n + 1, capD)
  <2>1. Room(InitialConstraints, n, c.capC)
    BY DEF GoodCircuit
  <2> HIDE DEF n
  <2> QED
    BY <2>1, GrowthKeepsRoom
<1>6. d \in Circuits
  <2>1. capD \in Nat
    BY <1>5 DEF Room
  <2> HIDE DEF ns, capD
  <2>2. d = [wires |-> c.wires, cons |-> ns, capW |-> c.capW, capC |-> capD,
             nWitness |-> c.nWitness, nInstance |-> c.nInstance, nAnd |-> c.nAnd,
             ok |-> c.ok]
    BY DEF Constrained, FullC, Doubled, ns, capD
  <2> QED
    BY <1>1, <1>3, <2>1, <2>2 DEF Circuits
<1>7. /\ \A i \in 1..Len(d.wires) : Shaped(d.wires[i])
      /\ Room(InitialWires, Len(d.wires), d.capW)
  BY <1>2 DEF GoodCircuit
<1> HIDE DEF d, ns, n, capD
<1> QED
  BY <1>2, <1>3, <1>4, <1>5, <1>6, <1>7 DEF GoodCircuit, d

\* A constraint, appended or not.
LEMMA AppendConstraintKeeps ==
  ASSUME NEW c, GoodCircuit(c), NEW w \in Nat, NEW mem \in BOOLEAN
  PROVE  LET d == AppendConstraint(c, w, mem)
         IN  /\ GoodCircuit(d) /\ d.wires = c.wires
             /\ d.ok => c.ok /\ d = AppendConstraint(c, w, TRUE)
<1> DEFINE d == AppendConstraint(c, w, mem)
<1>1. CASE FullC(c) /\ ~ mem
  <2>1. d = Marked(c)
    BY <1>1 DEF AppendConstraint, Marked
  <2> QED
    BY <2>1, MarkedGood
<1>2. CASE ~ (FullC(c) /\ ~ mem)
  <2>1. d = Constrained(c, w)
    BY <1>2 DEF AppendConstraint
  <2>2. d = AppendConstraint(c, w, TRUE)
    BY <1>2 DEF AppendConstraint
  <2> QED
    BY <2>1, <2>2, ConstrainedGood
<1> QED
  BY <1>1, <1>2

\* Half of an assert_equal may fail, and all that is left is a good circuit.
LEMMA AssertEqualGrows ==
  ASSUME NEW c, GoodCircuit(c), NEW a \in Nat, NEW b \in Nat,
         NEW memW \in BOOLEAN, NEW memC \in BOOLEAN
  PROVE  LET r == AssertEqual(c, a, b, memW, memC)
         IN  Grew(c, r) /\ (r.c.ok => c.ok /\ r = AssertEqual(c, a, b, TRUE, TRUE))
<1> DEFINE e == Entry("xor", a, b, 0)
           x == AppendWire(c, e, memW)
           d == AppendConstraint(x.c, x.id, memC)
           r == AssertEqual(c, a, b, memW, memC)
<1>1. e \in WireEntries /\ Shaped(e)
  BY DEF Entry, WireEntries, Kinds, Shaped
<1>2. r = [c |-> d, id |-> InvalidId] /\ InvalidId \in Nat
  BY CircuitAssumption DEF AssertEqual
<1>2a. AssertEqual(c, a, b, TRUE, TRUE) =
         [c |-> AppendConstraint(AppendWire(c, e, TRUE).c, AppendWire(c, e, TRUE).id, TRUE),
          id |-> InvalidId]
  BY DEF AssertEqual
<1> HIDE DEF r, e
<1>3. Grew(c, x) /\ (x.c.ok => c.ok /\ x = AppendWire(c, e, TRUE))
  BY <1>1, AppendWireGrows
<1> HIDE DEF x
<1>4. GoodCircuit(x.c) /\ x.id \in Nat
  BY <1>3 DEF Grew
<1>5. GoodCircuit(d) /\ d.wires = x.c.wires
      /\ (d.ok => x.c.ok /\ d = AppendConstraint(x.c, x.id, TRUE))
  BY <1>4, AppendConstraintKeeps
<1> HIDE DEF d
<1>6. r.c = d /\ r.id = InvalidId
  BY <1>2
<1>7. Grew(c, r)
  BY <1>2, <1>3, <1>5, <1>6 DEF Grew
<1>8. r.c.ok => c.ok /\ r = AssertEqual(c, a, b, TRUE, TRUE)
  BY <1>2, <1>2a, <1>3, <1>5, <1>6
<1> QED
  BY <1>7, <1>8 DEF r

-----------------------------------------------------------------------------
(* The calls of a program.                                                 *)

\* The operands of a call, and the gate it asks for.
LEMMA CallTyped ==
  ASSUME NEW p \in Programs, NEW s \in Seq(Nat), Len(s) < Len(p)
  PROVE  LET call == p[Len(s) + 1]
             a == Arg(s, call.x)
             b == Arg(s, call.y)
             e == Entry(call.op, a, b, call.bit)
         IN  /\ call.op \in CallNames /\ a \in Nat /\ b \in Nat
             /\ call.op \in Kinds => e \in WireEntries /\ Shaped(e)
<1> DEFINE n == Len(s) + 1
           call == p[n]
           a == Arg(s, call.x)
           b == Arg(s, call.y)
           e == Entry(call.op, a, b, call.bit)
<1>1. n \in 1..Len(p) /\ Len(s) \in Nat
  BY ProgramAssumption
<1>2. call \in [op : CallNames, x : Nat, y : Nat, bit : {0, 1}]
  <2> DEFINE S == [op : CallNames, x : Nat, y : Nat, bit : {0, 1}]
  <2>1. p \in Seq(S)
    BY ProgramAssumption
  <2> HIDE DEF S
  <2>2. p[n] \in S
    BY <1>1, <2>1
  <2> QED
    BY <2>2 DEF S
<1>3. /\ IF Arity(call.op) >= 1 THEN call.x \in 1..(n - 1) ELSE call.x = 0
      /\ IF Arity(call.op) = 2 THEN call.y \in 1..(n - 1) ELSE call.y = 0
  BY <1>1, ProgramAssumption
<1> HIDE DEF call
<1>4. /\ call.op \in CallNames /\ call.x \in Nat /\ call.y \in Nat /\ call.bit \in {0, 1}
      /\ (call.x = 0 \/ call.x \in 1..Len(s)) /\ (call.y = 0 \/ call.y \in 1..Len(s))
  BY <1>1, <1>2, <1>3
<1>5. \A i \in Nat : i = 0 \/ i \in 1..Len(s) => Arg(s, i) \in Nat
  BY CircuitAssumption DEF Arg
<1>6. a \in Nat /\ b \in Nat
  BY <1>4, <1>5
<1>7. call.op \in {"witness", "instance", "const"} => call.x = 0 /\ call.y = 0
  BY <1>3 DEF Arity
<1>8. call.op = "not" => call.y = 0
  BY <1>3 DEF Arity
<1>9. /\ call.op \in {"witness", "instance", "const"} => a = InvalidId /\ b = InvalidId
      /\ call.op = "not" => b = InvalidId
  BY <1>7, <1>8 DEF Arg
<1> HIDE DEF a, b
<1>10. call.op \in Kinds => e \in WireEntries
  BY <1>4, <1>6 DEF Entry, WireEntries
<1>11. Shaped(e)
  BY <1>9 DEF Entry, Shaped
<1> QED
  BY <1>4, <1>6, <1>10, <1>11 DEF call, a, b

\* A call leaves a good circuit, and if no allocation ever failed it is the
\* one that the call leaves when none fails.
LEMMA PerformGrows ==
  ASSUME NEW p \in Programs, NEW s \in Seq(Nat), Len(s) < Len(p), NEW c, GoodCircuit(c),
         NEW memW \in BOOLEAN, NEW memC \in BOOLEAN
  PROVE  LET call == p[Len(s) + 1]
             r == Perform(c, s, call, memW, memC)
         IN  Grew(c, r) /\ (r.c.ok => c.ok /\ r = Perform(c, s, call, TRUE, TRUE))
<1> DEFINE call == p[Len(s) + 1]
           a == Arg(s, call.x)
           b == Arg(s, call.y)
           e == Entry(call.op, a, b, call.bit)
           P(W, C) == Perform(c, s, call, W, C)
           r == P(memW, memC)
<1>1. /\ call.op \in CallNames /\ a \in Nat /\ b \in Nat
      /\ call.op \in Kinds => e \in WireEntries /\ Shaped(e)
  BY CallTyped
<1>2. ASSUME call.op \in Kinds, NEW W, NEW C PROVE P(W, C) = AppendWire(c, e, W)
  <2> HIDE DEF call
  <2>1. call.op # "assert_zero" /\ call.op # "assert_equal"
    BY <1>2 DEF Kinds
  <2> QED
    BY <1>2, <2>1 DEF Perform
<1>3. call.op = "assert_zero" =>
        \A W, C : P(W, C) = [c |-> AppendConstraint(c, a, C), id |-> InvalidId]
  BY DEF Perform, Kinds
<1>4. call.op = "assert_equal" => \A W, C : P(W, C) = AssertEqual(c, a, b, W, C)
  BY DEF Perform, Kinds
<1>5. call.op \in Kinds \/ call.op = "assert_zero" \/ call.op = "assert_equal"
  BY <1>1 DEF CallNames
<1> HIDE DEF call, a, b, e, P
<1>6. CASE call.op \in Kinds
  <2>1. r = AppendWire(c, e, memW) /\ P(TRUE, TRUE) = AppendWire(c, e, TRUE)
    BY <1>2, <1>6
  <2> HIDE DEF r
  <2>2. Grew(c, r) /\ (r.c.ok => c.ok /\ r = P(TRUE, TRUE))
    BY <1>1, <1>6, <2>1, AppendWireGrows
  <2> QED
    BY <2>2 DEF r, P, call
<1>7. CASE call.op = "assert_zero"
  <2> DEFINE d == AppendConstraint(c, a, memC)
  <2>1. r = [c |-> d, id |-> InvalidId]
        /\ P(TRUE, TRUE) = [c |-> AppendConstraint(c, a, TRUE), id |-> InvalidId]
    BY <1>3, <1>7
  <2>2. GoodCircuit(d) /\ d.wires = c.wires
        /\ (d.ok => c.ok /\ d = AppendConstraint(c, a, TRUE))
    BY <1>1, AppendConstraintKeeps
  <2>3. Len(c.wires) \in Nat /\ InvalidId \in Nat
    BY MarkedGood, CircuitAssumption
  <2> HIDE DEF d, r
  <2>4. r.c = d /\ r.id = InvalidId
    BY <2>1
  <2>5. Grew(c, r)
    BY <2>2, <2>3, <2>4 DEF Grew
  <2>6. r.c.ok => c.ok /\ r = P(TRUE, TRUE)
    BY <2>1, <2>2, <2>4
  <2> QED
    BY <2>5, <2>6 DEF r, P, call
<1>8. CASE call.op = "assert_equal"
  <2>1. r = AssertEqual(c, a, b, memW, memC) /\ P(TRUE, TRUE) = AssertEqual(c, a, b, TRUE, TRUE)
    BY <1>4, <1>8
  <2> HIDE DEF r
  <2>2. Grew(c, r) /\ (r.c.ok => c.ok /\ r = P(TRUE, TRUE))
    BY <1>1, <2>1, AssertEqualGrows
  <2> QED
    BY <2>2 DEF r, P, call
<1> QED
  BY <1>5, <1>6, <1>7, <1>8

-----------------------------------------------------------------------------
(* The circuit of a program is the one it builds when no allocation fails. *)

IdealStep(p) ==
  [s \in [c : Circuits, ids : Seq(Nat)] |->
     LET r == Perform(s.c, s.ids, p[Len(s.ids) + 1], TRUE, TRUE)
     IN  [c |-> r.c, ids |-> Append(s.ids, r.id)]]

\* After n calls.
Ideal(p, n) == Iterate(IdealStep(p), [c |-> NewCircuit, ids |-> <<>>])[n]

\* Circuit c and ids s, some calls into program p.
BuildOK(c, s, p) ==
  /\ s \in Seq(Nat) /\ Len(s) \in Nat /\ Len(s) <= Len(p)
  /\ GoodCircuit(c) /\ Len(c.wires) \in Nat /\ Len(c.wires) <= Len(s)
  /\ \A n \in 1..Len(s) : s[n] = InvalidId \/ s[n] < Len(c.wires)
  /\ c.ok => Ideal(p, Len(s)) = [c |-> c, ids |-> s]

\* voleith_circuit_new
LEMMA NewCircuitGood == GoodCircuit(NewCircuit)
<1> DEFINE c == NewCircuit
           e == c.wires
<1>1. /\ c.wires = <<>> /\ c.cons = <<>> /\ c.capW = InitialWires /\ c.capC = InitialConstraints
      /\ c.nWitness = 0 /\ c.nInstance = 0 /\ c.nAnd = 0 /\ c.ok = TRUE
  BY DEF NewCircuit
<1>2. /\ InitialWires \in Nat \ {0} /\ InitialConstraints \in Nat \ {0}
      /\ InitialWires \in Nat /\ InitialConstraints \in Nat
  BY CircuitAssumption
<1>3. <<>> \in Seq(WireEntries) /\ <<>> \in Seq(Nat) /\ Len(<<>>) = 0
  OBVIOUS
<1>4. c \in Circuits
  BY <1>2, <1>3 DEF NewCircuit, Circuits
<1> HIDE DEF c
<1>5. \A kind : Nth(c, kind, 0) = 0
  BY NthStep
<1>6. WellFormed(c)
  BY <1>1, <1>3, <1>5 DEF WellFormed
<1>7. Room(InitialWires, 0, InitialWires) /\ Room(InitialConstraints, 0, InitialConstraints)
  BY <1>2, EmptyHasRoom
<1>8. \A i \in 1..Len(c.wires) : Shaped(c.wires[i])
  BY <1>1, <1>3
<1> QED
  BY <1>1, <1>3, <1>4, <1>6, <1>7, <1>8 DEF GoodCircuit, c

LEMMA NewBuild ==
  ASSUME NEW p, Len(p) \in Nat
  PROVE  BuildOK(NewCircuit, <<>>, p)
<1> DEFINE none == <<>>
           start == [c |-> NewCircuit, ids |-> none]
<1>1. none \in Seq(Nat) /\ Len(none) = 0 /\ NewCircuit.wires = none
  BY DEF NewCircuit
<1>2. Ideal(p, 0) = start
  <2>1. Iterate(IdealStep(p), start)[0] = start
    <3> HIDE DEF start
    <3> QED
      BY IterateStep
  <2> QED
    BY <2>1 DEF Ideal
<1> HIDE DEF none
<1>3. BuildOK(NewCircuit, none, p)
  BY <1>1, <1>2, NewCircuitGood DEF BuildOK
<1> QED
  BY <1>3 DEF none

\* A call.
LEMMA CallBuild ==
  ASSUME NEW p \in Programs, NEW c, NEW s, BuildOK(c, s, p), Len(s) < Len(p),
         NEW memW \in BOOLEAN, NEW memC \in BOOLEAN
  PROVE  LET r == Perform(c, s, p[Len(s) + 1], memW, memC)
         IN  BuildOK(r.c, Append(s, r.id), p)
<1> DEFINE P(W, C) == Perform(c, s, p[Len(s) + 1], W, C)
           r == P(memW, memC)
           t == Append(s, r.id)
<1>1. s \in Seq(Nat) /\ Len(s) \in Nat /\ Len(p) \in Nat
  BY ProgramAssumption DEF BuildOK
<1>2. Grew(c, r) /\ (r.c.ok => c.ok /\ r = P(TRUE, TRUE))
  <2>1. GoodCircuit(c)
    BY DEF BuildOK
  <2> QED
    BY <1>1, <2>1, PerformGrows
<1> HIDE DEF P, r
<1>3. /\ t \in Seq(Nat) /\ Len(t) = Len(s) + 1 /\ t[Len(s) + 1] = r.id
      /\ \A n \in 1..Len(s) : t[n] = s[n]
  BY <1>1, <1>2 DEF Grew
<1> HIDE DEF t
<1>4. /\ GoodCircuit(r.c) /\ Len(r.c.wires) \in Nat /\ Len(r.c.wires) <= Len(t)
      /\ Len(c.wires) <= Len(r.c.wires) /\ Len(c.wires) \in Nat
      /\ r.id = InvalidId \/ r.id < Len(r.c.wires)
  BY <1>1, <1>2, <1>3 DEF Grew, BuildOK
<1>5. \A n \in 1..Len(t) : t[n] = InvalidId \/ t[n] < Len(r.c.wires)
  <2> TAKE n \in 1..Len(t)
  <2>1. CASE n = Len(s) + 1
    BY <1>3, <1>4, <2>1
  <2>2. CASE n \in 1..Len(s)
    <3>1. t[n] = s[n] /\ s[n] \in Nat
      BY <1>1, <1>3, <2>2
    <3>2. s[n] = InvalidId \/ s[n] < Len(c.wires)
      BY <2>2 DEF BuildOK
    <3> QED
      BY <1>4, <3>1, <3>2
  <2> QED
    BY <1>1, <1>3, <2>1, <2>2
<1>6. ASSUME r.c.ok PROVE Ideal(p, Len(t)) = [c |-> r.c, ids |-> t]
  <2> DEFINE start == [c |-> NewCircuit, ids |-> <<>>]
             now == [c |-> c, ids |-> s]
  <2>1. r = P(TRUE, TRUE) /\ Ideal(p, Len(s)) = now
    BY <1>2, <1>6 DEF BuildOK
  <2>2. Ideal(p, Len(s) + 1) = IdealStep(p)[Ideal(p, Len(s))]
    <3>1. Iterate(IdealStep(p), start)[Len(s) + 1] =
            IdealStep(p)[Iterate(IdealStep(p), start)[Len(s)]]
      <4> HIDE DEF start
      <4> QED
        BY <1>1, IterateStep
    <3> QED
      BY <3>1 DEF Ideal
  <2>3. now \in [c : Circuits, ids : Seq(Nat)] /\ now.c = c /\ now.ids = s
    BY <1>1 DEF BuildOK, GoodCircuit
  <2> HIDE DEF now
  <2>4. IdealStep(p)[now] = [c |-> P(TRUE, TRUE).c, ids |-> Append(s, P(TRUE, TRUE).id)]
    BY <2>3 DEF IdealStep, P
  <2> QED
    BY <1>3, <2>1, <2>2, <2>4 DEF t
<1>7. Len(t) \in Nat /\ Len(t) <= Len(p)
  BY <1>1, <1>3
<1>8. BuildOK(r.c, t, p)
  BY <1>3, <1>4, <1>5, <1>6, <1>7 DEF BuildOK
<1> QED
  BY <1>8 DEF t, r, P

-----------------------------------------------------------------------------
(* A fingerprint determines the circuit.                                   *)

\* What of entry e is hashed; operand 0 and an absent one give the same.
Hashed(e) == <<e.kind, Normalized(e.a), Normalized(e.b), e.bit>>

\* An entry can be read off what is hashed of it: its kind says which
\* operands are there, and validation that these are no InvalidId.
LEMMA SameEntry ==
  ASSUME NEW e \in WireEntries, NEW f \in WireEntries, Shaped(e), Shaped(f),
         \A x \in Operands(e) \cup Operands(f) : x # InvalidId,
         Hashed(e) = Hashed(f)
  PROVE  e = f
<1>1. /\ e.kind = f.kind /\ e.bit = f.bit
      /\ Normalized(e.a) = Normalized(f.a) /\ Normalized(e.b) = Normalized(f.b)
  BY DEF Hashed
<1>2. /\ e = [kind |-> e.kind, a |-> e.a, b |-> e.b, bit |-> e.bit]
      /\ f = [kind |-> f.kind, a |-> f.a, b |-> f.b, bit |-> f.bit]
      /\ e.kind \in Kinds
  BY DEF WireEntries
<1>3. CASE e.kind \in {"xor", "and"}
  <2>1. e.a # InvalidId /\ e.b # InvalidId /\ f.a # InvalidId /\ f.b # InvalidId
    BY <1>1, <1>3 DEF Operands
  <2> QED
    BY <1>1, <1>2, <2>1 DEF Normalized
<1>4. CASE e.kind = "not"
  <2>1. e.a # InvalidId /\ f.a # InvalidId
    BY <1>1, <1>4 DEF Operands
  <2>2. e.b = f.b
    BY <1>1, <1>4 DEF Shaped
  <2> QED
    BY <1>1, <1>2, <2>1, <2>2 DEF Normalized
<1>5. CASE e.kind \in {"witness", "instance", "const"}
  BY <1>1, <1>2, <1>5 DEF Shaped
<1> QED
  BY <1>2, <1>3, <1>4, <1>5 DEF Kinds

\* Wire ids are smaller than InvalidId.
Admissible(c) == GoodCircuit(c) /\ Valid(c) /\ Len(c.wires) <= InvalidId

\* The entries of an admissible circuit.
LEMMA EntriesAdmissible ==
  ASSUME NEW c, Admissible(c), NEW i \in 1..Len(c.wires)
  PROVE  /\ c.wires[i] \in WireEntries /\ Shaped(c.wires[i])
         /\ \A x \in Operands(c.wires[i]) : x # InvalidId
<1> DEFINE ws == c.wires
           e == ws[i]
<1>1. /\ ws \in Seq(WireEntries) /\ Len(ws) \in Nat /\ i \in 1..Len(ws)
      /\ Len(ws) <= InvalidId /\ InvalidId \in Nat
  BY CircuitAssumption DEF Admissible, GoodCircuit, Circuits
<1>2. e \in WireEntries
  <2> HIDE DEF ws
  <2> QED
    BY <1>1
<1>3. \A x \in Operands(e) : x < i - 1
  BY DEF Admissible, Valid
<1>4. \A x \in Operands(e) : x \in Nat
  BY <1>2 DEF Operands, WireEntries
<1>5. Shaped(e)
  BY DEF Admissible, GoodCircuit
<1> HIDE DEF ws, e
<1>6. \A x \in Operands(e) : x # InvalidId
  BY <1>1, <1>3, <1>4 DEF ws
<1> QED
  BY <1>2, <1>5, <1>6 DEF e, ws

\* Equal fingerprints, equal tables.
LEMMA FingerprintInjective ==
  ASSUME NEW c, NEW d, Admissible(c), Admissible(d), Fingerprint(c) = Fingerprint(d)
  PROVE  c.wires = d.wires /\ c.cons = d.cons
<1> DEFINE G(x) == [i \in 1..Len(x.wires) |-> Hashed(x.wires[i])]
           K(x) == [i \in 1..Len(x.cons) |-> Normalized(x.cons[i])]
           F(x) == <<Len(x.wires), x.nWitness, x.nInstance, x.nAnd, Len(x.cons), G(x), K(x)>>
           n == Len(c.wires)
           m == Len(c.cons)
<1>1. n = Len(d.wires) /\ m = Len(d.cons) /\ G(c) = G(d) /\ K(c) = K(d)
  <2>1. F(c) = F(d)
    BY DEF Fingerprint, Hashed
  <2> HIDE DEF G, K
  <2>2. F(c)[1] = F(d)[1] /\ F(c)[5] = F(d)[5] /\ F(c)[6] = F(d)[6] /\ F(c)[7] = F(d)[7]
    BY <2>1
  <2> QED
    BY <2>2
<1>2. ASSUME NEW x, Admissible(x)
      PROVE  /\ x.wires \in Seq(WireEntries) /\ x.cons \in Seq(Nat)
             /\ Len(x.wires) \in Nat /\ Len(x.cons) \in Nat
             /\ Len(x.wires) <= InvalidId /\ InvalidId \in Nat
             /\ \A i \in 1..Len(x.cons) : x.cons[i] < Len(x.wires)
  <2>1. x \in Circuits /\ Len(x.wires) <= InvalidId /\ InvalidId \in Nat
    BY <1>2, CircuitAssumption DEF Admissible, GoodCircuit
  <2>2. \A i \in 1..Len(x.cons) : x.cons[i] < Len(x.wires)
    BY <1>2 DEF Admissible, Valid
  <2>3. x.wires \in Seq(WireEntries) /\ x.cons \in Seq(Nat)
    BY <2>1 DEF Circuits
  <2>4. Len(x.wires) \in Nat /\ Len(x.cons) \in Nat
    BY <2>3
  <2> QED
    BY <2>1, <2>2, <2>3, <2>4
<1>3. \A i \in 1..n : c.wires[i] = d.wires[i]
  <2> TAKE i \in 1..n
  <2>1. G(c)[i] = Hashed(c.wires[i]) /\ G(d)[i] = Hashed(d.wires[i])
    BY <1>1
  <2>2. Hashed(c.wires[i]) = Hashed(d.wires[i])
    BY <1>1, <2>1
  <2>3. /\ c.wires[i] \in WireEntries /\ Shaped(c.wires[i])
        /\ \A x \in Operands(c.wires[i]) : x # InvalidId
    BY EntriesAdmissible
  <2>4. /\ d.wires[i] \in WireEntries /\ Shaped(d.wires[i])
        /\ \A x \in Operands(d.wires[i]) : x # InvalidId
    BY <1>1, EntriesAdmissible
  <2> QED
    BY <2>2, <2>3, <2>4, SameEntry
<1>4. \A i \in 1..m : c.cons[i] = d.cons[i]
  <2> TAKE i \in 1..m
  <2>1. K(c)[i] = Normalized(c.cons[i]) /\ K(d)[i] = Normalized(d.cons[i])
    BY <1>1
  <2>2. c.cons[i] \in Nat /\ c.cons[i] < Len(c.wires) /\ d.cons[i] \in Nat /\ d.cons[i] < Len(d.wires)
    BY <1>1, <1>2, SMTT(40)
  <2>3. c.cons[i] # InvalidId /\ d.cons[i] # InvalidId
    BY <1>2, <2>2, SMTT(40)
  <2> QED
    BY <1>1, <2>1, <2>3 DEF Normalized
<1>5. ASSUME NEW S, NEW s \in Seq(S), NEW t \in Seq(S), Len(s) = Len(t),
             \A i \in 1..Len(s) : s[i] = t[i]
      PROVE  s = t
  BY <1>5
<1>6. /\ c.wires \in Seq(WireEntries) /\ d.wires \in Seq(WireEntries)
      /\ c.cons \in Seq(Nat) /\ d.cons \in Seq(Nat)
  BY <1>2
<1>7. Len(c.wires) = Len(d.wires) /\ Len(c.cons) = Len(d.cons)
  BY <1>1
<1>8. c.wires = d.wires
  BY <1>3, <1>5, <1>6, <1>7
<1>9. c.cons = d.cons
  BY <1>4, <1>5, <1>6, <1>7
<1> QED
  BY <1>8, <1>9

\* A capacity is determined by the number of entries, so circuits without a
\* failed allocation that agree in their tables are equal.
LEMMA SameTables ==
  ASSUME NEW c, NEW d, GoodCircuit(c), GoodCircuit(d), c.ok, d.ok,
         c.wires = d.wires, c.cons = d.cons
  PROVE  c = d
<1>1. c \in Circuits /\ d \in Circuits
  BY DEF GoodCircuit
<1>2. \A kind, w : Nth(c, kind, w) = Nth(d, kind, w)
  BY DEF Nth
<1>3. c.nWitness = d.nWitness /\ c.nInstance = d.nInstance /\ c.nAnd = d.nAnd
  BY <1>2 DEF GoodCircuit, WellFormed
<1>4. ASSUME NEW initial, NEW n, NEW x, NEW y, Room(initial, n, x), Room(initial, n, y)
      PROVE  x = y
  <2>1. [n |-> n, cap |-> x] = [n |-> n, cap |-> y]
    BY <1>4 DEF Room
  <2>2. [n |-> n, cap |-> x].cap = [n |-> n, cap |-> y].cap
    BY <2>1
  <2> QED
    BY <2>2
<1>5. c.capW = d.capW /\ c.capC = d.capC
  <2>1. /\ Room(InitialWires, Len(c.wires), c.capW) /\ Room(InitialWires, Len(c.wires), d.capW)
        /\ Room(InitialConstraints, Len(c.cons), c.capC)
        /\ Room(InitialConstraints, Len(c.cons), d.capC)
    BY DEF GoodCircuit
  <2> QED
    BY <1>4, <2>1
<1>6. ASSUME NEW W, NEW K,
             c \in [wires : W, cons : K, capW : Nat, capC : Nat, nWitness : Nat,
                    nInstance : Nat, nAnd : Nat, ok : BOOLEAN],
             d \in [wires : W, cons : K, capW : Nat, capC : Nat, nWitness : Nat,
                    nInstance : Nat, nAnd : Nat, ok : BOOLEAN]
      PROVE  c = d
  <2>1. c.ok = TRUE /\ d.ok = TRUE
    BY <1>6
  <2> QED
    BY <1>3, <1>5, <1>6, <2>1
<1> QED
  BY <1>1, <1>6 DEF Circuits

-----------------------------------------------------------------------------
(* Inputs and columns suffice for the circuit of a program.                *)

\* No more slots than wires, and no more inputs.
LEMMA SlotsFit ==
  ASSUME NEW c, NEW n \in Nat
  PROVE  /\ Nth(c, "witness", n) \in Nat /\ Nth(c, "instance", n) \in Nat
         /\ Nth(c, "and", n) \in Nat /\ Nth(c, "instance", n) <= n
         /\ Nth(c, "witness", n) + Nth(c, "and", n) <= n
<1> DEFINE w(k) == Nth(c, "witness", k)
           x(k) == Nth(c, "instance", k)
           a(k) == Nth(c, "and", k)
           T == {k \in Nat : w(k) + a(k) <= k /\ x(k) <= k}
<1>1. /\ w(0) = 0 /\ x(0) = 0 /\ a(0) = 0
      /\ \A k \in Nat : w(k) \in Nat /\ x(k) \in Nat /\ a(k) \in Nat
  BY NthStep
<1>2. \A k \in Nat :
        /\ w(k + 1) = IF c.wires[k + 1].kind = "witness" THEN w(k) + 1 ELSE w(k)
        /\ x(k + 1) = IF c.wires[k + 1].kind = "instance" THEN x(k) + 1 ELSE x(k)
        /\ a(k + 1) = IF c.wires[k + 1].kind = "and" THEN a(k) + 1 ELSE a(k)
  BY NthStep
<1> HIDE DEF w, x, a
<1>3. 0 \in T
  BY <1>1
<1>4. ASSUME NEW k \in Nat, k \in T PROVE k + 1 \in T
  <2>1. w(k) + a(k) <= k /\ x(k) <= k /\ w(k) \in Nat /\ x(k) \in Nat /\ a(k) \in Nat
    BY <1>1, <1>4
  <2>2. w(k + 1) \in Nat /\ x(k + 1) \in Nat /\ a(k + 1) \in Nat
    BY <1>1
  <2>3. x(k + 1) <= x(k) + 1
    BY <1>2, <2>1, <2>2
  <2>4. w(k + 1) + a(k + 1) <= w(k) + a(k) + 1
    <3> DEFINE kind == c.wires[k + 1].kind
    <3>1. /\ w(k + 1) = IF kind = "witness" THEN w(k) + 1 ELSE w(k)
          /\ a(k + 1) = IF kind = "and" THEN a(k) + 1 ELSE a(k)
      BY <1>2
    <3> HIDE DEF kind
    <3> QED
      BY <2>1, <3>1
  <2> QED
    BY <2>1, <2>2, <2>3, <2>4
<1> HIDE DEF T
<1>5. n \in T
  BY <1>3, <1>4, NatSetInduction
<1> QED
  BY <1>1, <1>5 DEF T, w, x, a

\* The inputs of c are bits, and its columns are correlated.
Supplied(c, w, x) == InputsTyped(c, w, x) /\ Correlated(c, U, V, Q, Delta)

LEMMA InputsSuffice ==
  ASSUME NEW p \in Programs, NEW c, GoodCircuit(c), Len(c.wires) <= Len(p),
         NEW w \in Witnesses, NEW x \in Instances
  PROVE  Supplied(c, w, x)
<1> DEFINE n == Len(c.wires)
           m == Len(p)
<1>1. n \in Nat /\ m \in Nat /\ n <= m
  <2>1. c.wires \in Seq(WireEntries)
    BY DEF GoodCircuit, WellFormed
  <2>2. Len(p) \in Nat
    BY ProgramAssumption
  <2> QED
    BY <2>1, <2>2
<1>2. /\ c.nWitness = Nth(c, "witness", n) /\ c.nInstance = Nth(c, "instance", n)
      /\ c.nAnd = Nth(c, "and", n)
  BY DEF GoodCircuit, WellFormed
<1>3. /\ \A k \in 0..(m - 1) : w[k] \in {0, 1} /\ x[k] \in {0, 1}
      /\ \A k \in 0..(m + 2 * Lambda - 1) : k \in DOMAIN V /\ U[k] \in Elem /\ V[k] \in Elem
  BY InputAssumption
<1> HIDE DEF n, m
<1>4. /\ c.nWitness \in Nat /\ c.nInstance \in Nat /\ c.nAnd \in Nat
      /\ c.nInstance <= m /\ c.nWitness + c.nAnd <= m
  BY <1>1, <1>2, SlotsFit
<1>5. InputsTyped(c, w, x)
  BY <1>1, <1>3, <1>4 DEF InputsTyped
<1>6. Columns(c) \subseteq 0..(m + 2 * Lambda - 1)
  BY <1>1, <1>4, LambdaAssumption DEF Columns, Ell
<1>7. ASSUME NEW k \in Columns(c)
      PROVE  U[k] \in Elem /\ V[k] \in Elem /\ Q[k] = Plus(V[k], Times(Delta, U[k]))
  BY <1>3, <1>6, <1>7 DEF Q
<1>8. Correlated(c, U, V, Q, Delta)
  BY <1>7, ChallengeAssumption DEF Correlated, ColumnsTyped
<1> QED
  BY <1>5, <1>8 DEF Supplied

LEMMA KeysOfProgram ==
  ASSUME IsRing, NEW p \in Programs, NEW c, GoodCircuit(c), Valid(c), Len(c.wires) <= Len(p),
         NEW w \in Witnesses, NEW x \in Instances
  PROVE  KeysRelate(c, w, x, U, V, Q, Delta)
<1>1. WellFormed(c)
  BY DEF GoodCircuit
<1>2. InputsTyped(c, w, x) /\ Correlated(c, U, V, Q, Delta)
  BY InputsSuffice DEF Supplied
<1> QED
  BY <1>1, <1>2, KeyOfEveryWire, Zenon

LEMMA ProofOfProgram ==
  ASSUME IsRing, NEW p \in Programs, NEW c, GoodCircuit(c), Valid(c), Len(c.wires) <= Len(p),
         NEW w \in Witnesses, NEW x \in Instances, Satisfied(c, Bits(c, w, x))
  PROVE  Recomputes(c, w, x, U, V, Q, Delta, Chall)
<1>1. WellFormed(c)
  BY DEF GoodCircuit
<1>2. InputsTyped(c, w, x) /\ Correlated(c, U, V, Q, Delta)
  BY InputsSuffice DEF Supplied
<1>3. Alpha \in Elem /\ ChallengeTyped(Chall)
  BY ChallengeAssumption DEF ChallengeTyped
<1> QED
  BY <1>1, <1>2, <1>3, HonestProofVerifies, Zenon

-----------------------------------------------------------------------------
(* The invariant.                                                          *)

\* What was released comes from the circuit of a program, whole.
ProofOK(q) ==
  /\ q.of \in Programs /\ GoodCircuit(q.circuit) /\ Admitted(q.circuit)
  /\ Len(q.circuit.wires) <= Len(q.of) /\ Ideal(q.of, Len(q.of)).c = q.circuit
  /\ q.witness \in Witnesses /\ q.instance \in Instances
  /\ q.bits = Bits(q.circuit, q.witness, q.instance) /\ Satisfied(q.circuit, q.bits)
  /\ q.fp = Fingerprint(q.circuit) /\ q.d = ComputeD(q.circuit, q.bits, U)
  /\ q.a = QsProve(q.circuit, q.bits, U, V, Chall)

\* What Verify decides.
Accepts(instance) ==
  /\ Compared(instance)
  /\ QsVerify(circuit, instance, Q, proof.d, Delta, Chall, proof.a[1], proof.a[2]) = proof.a[0]

\* The verdict is that on the circuit which is still there.
Answered ==
  /\ role = "verifier" /\ Built
  /\ verdict.is = IF Accepts(verdict.instance) THEN "accepted" ELSE "refused"

IInv ==
  /\ role \in {"prover", "verifier"}
  /\ program = NoProgram \/ program \in Programs
  /\ BuildOK(circuit, ids, program)
  /\ role = "verifier" => ProofOK(proof)
  /\ verdict = NoVerdict \/ Answered

LEMMA ProgramLength ==
  ASSUME NEW p, p = NoProgram \/ p \in Programs
  PROVE  Len(p) \in Nat /\ Len(p) <= InvalidId
<1>1. ASSUME p \in Programs PROVE Len(p) \in Nat /\ Len(p) <= InvalidId
  BY <1>1, ProgramAssumption
<1>2. ASSUME p = NoProgram PROVE Len(p) \in Nat /\ Len(p) <= InvalidId
  BY <1>2, CircuitAssumption DEF NoProgram
<1> QED
  BY <1>1, <1>2

LEMMA InitIInv == Init => IInv
<1> SUFFICES ASSUME Init PROVE IInv
  OBVIOUS
<1>1. /\ role = "prover" /\ program = NoProgram /\ ids = <<>> /\ circuit = NewCircuit
      /\ verdict = NoVerdict
  BY DEF Init
<1>2. Len(NoProgram) \in Nat
  BY ProgramLength
<1>3. BuildOK(NewCircuit, <<>>, NoProgram)
  BY <1>2, NewBuild
<1> QED
  BY <1>1, <1>3 DEF IInv

\* Every call, proof and verification keeps the invariant.
LEMMA StepIInv == IInv /\ [Next]_vars => IInv'
<1> SUFFICES ASSUME IInv, [Next]_vars PROVE IInv'
  OBVIOUS
<1>0. /\ role \in {"prover", "verifier"} /\ (program = NoProgram \/ program \in Programs)
      /\ BuildOK(circuit, ids, program) /\ (role = "verifier" => ProofOK(proof))
      /\ verdict = NoVerdict \/ Answered
  BY DEF IInv
<1>1. ASSUME NEW p \in Programs, Start(p) PROVE IInv'
  <2>1. /\ program' = p /\ ids' = <<>> /\ circuit' = NewCircuit /\ ~ Running
        /\ role' = role /\ proof' = proof /\ verdict' = verdict
    BY <1>1 DEF Start
  <2>2. BuildOK(NewCircuit, <<>>, p)
    BY ProgramLength, NewBuild
  <2>3. verdict = NoVerdict
    BY <1>0, <2>1 DEF Answered, Built
  <2> QED
    BY <1>0, <2>1, <2>2, <2>3 DEF IInv, NoVerdict
<1>2. ASSUME NEW memW \in BOOLEAN, NEW memC \in BOOLEAN, Call(memW, memC) PROVE IInv'
  <2> DEFINE r == Perform(circuit, ids, program[Len(ids) + 1], memW, memC)
  <2>1. /\ Running /\ ~ Built /\ circuit' = r.c /\ ids' = Append(ids, r.id)
        /\ role' = role /\ program' = program /\ proof' = proof /\ verdict' = verdict
    BY <1>2 DEF Call
  <2>2. program \in Programs /\ Len(ids) < Len(program)
    <3>1. program \in Programs /\ Len(ids) # Len(program)
      BY <1>0, <2>1 DEF Running, Built
    <3>2. Len(program) \in Nat /\ Len(ids) \in Nat /\ Len(ids) <= Len(program)
      BY <1>0, ProgramLength DEF BuildOK
    <3> QED
      BY <3>1, <3>2
  <2>3. BuildOK(r.c, Append(ids, r.id), program)
    BY <1>0, <2>2, CallBuild
  <2>4. verdict = NoVerdict
    BY <1>0, <2>1 DEF Answered
  <2> HIDE DEF r
  <2> QED
    BY <1>0, <2>1, <2>3, <2>4 DEF IInv, NoVerdict, NoProgram
<1>3. ASSUME NEW w \in Witnesses, NEW x \in Instances, Prove(w, x) PROVE IInv'
  <2> DEFINE bits == Bits(circuit, w, x)
             q == [of |-> program, circuit |-> circuit, bits |-> bits, witness |-> w,
                   instance |-> x, fp |-> Fingerprint(circuit),
                   d |-> ComputeD(circuit, bits, U), a |-> QsProve(circuit, bits, U, V, Chall)]
  <2>1. /\ role = "prover" /\ Built /\ Admitted(circuit) /\ Satisfied(circuit, bits)
        /\ proof' = q /\ role' = "verifier" /\ program' = NoProgram /\ ids' = <<>>
        /\ circuit' = NewCircuit /\ verdict' = verdict
    BY <1>3 DEF Prove
  <2>2. program \in Programs /\ Len(ids) = Len(program)
    BY <1>0, <2>1 DEF Running, Built
  <2>3. /\ GoodCircuit(circuit) /\ Len(circuit.wires) <= Len(program)
        /\ Ideal(program, Len(program)).c = circuit
    BY <1>0, <2>1, <2>2 DEF BuildOK, Admitted
  <2>4. /\ q.of = program /\ q.circuit = circuit /\ q.bits = bits /\ q.witness = w
        /\ q.instance = x /\ q.fp = Fingerprint(circuit)
        /\ q.d = ComputeD(circuit, bits, U) /\ q.a = QsProve(circuit, bits, U, V, Chall)
    OBVIOUS
  <2> HIDE DEF q
  <2>5. ProofOK(q)
    BY <2>1, <2>2, <2>3, <2>4 DEF ProofOK, bits
  <2>6. BuildOK(NewCircuit, <<>>, NoProgram)
    BY ProgramLength, NewBuild
  <2>7. verdict = NoVerdict
    BY <1>0, <2>1 DEF Answered
  <2> QED
    BY <2>1, <2>5, <2>6, <2>7 DEF IInv, NoVerdict, NoProgram
<1>4. ASSUME NEW w \in Witnesses, NEW x \in Instances, ProveRefused(w, x) PROVE IInv'
  <2>1. /\ role = "prover" /\ program' = NoProgram /\ ids' = <<>> /\ circuit' = NewCircuit
        /\ role' = role /\ proof' = proof /\ verdict' = verdict
    BY <1>4 DEF ProveRefused
  <2>2. BuildOK(NewCircuit, <<>>, NoProgram)
    BY ProgramLength, NewBuild
  <2>3. verdict = NoVerdict
    BY <1>0, <2>1 DEF Answered
  <2> QED
    BY <2>1, <2>2, <2>3 DEF IInv, NoVerdict, NoProgram
<1>5. ASSUME NEW x \in Instances, Verify(x) PROVE IInv'
  <2>1. /\ role = "verifier" /\ Built
        /\ verdict' = [instance |-> x, is |-> IF Accepts(x) THEN "accepted" ELSE "refused"]
        /\ role' = role /\ program' = program /\ ids' = ids /\ circuit' = circuit
        /\ proof' = proof
    BY <1>5 DEF Verify, Accepts
  <2>2. verdict'.instance = x /\ verdict'.is = IF Accepts(x) THEN "accepted" ELSE "refused"
    BY <2>1
  <2>3. Accepts(verdict.instance)' = Accepts(x)
    BY <2>1, <2>2 DEF Accepts, Compared
  <2>4. Answered'
    BY <2>1, <2>2, <2>3 DEF Answered, Built, Running
  <2> QED
    BY <1>0, <2>1, <2>4 DEF IInv
<1>6. ASSUME UNCHANGED vars PROVE IInv'
  <2>1. /\ role' = role /\ program' = program /\ ids' = ids /\ circuit' = circuit
        /\ proof' = proof /\ verdict' = verdict
    BY <1>6 DEF vars
  <2>2. Answered' = Answered
    BY <2>1 DEF Answered, Built, Running, Accepts, Compared
  <2> QED
    BY <1>0, <2>1, <2>2 DEF IInv
<1> QED
  BY <1>1, <1>2, <1>3, <1>4, <1>5, <1>6 DEF Next

\* The invariant holds in every reachable state.
THEOREM Invariant == Spec => []IInv
  BY InitIInv, StepIInv, PTL DEF Spec

-----------------------------------------------------------------------------
(* The properties.                                                         *)

\* The counters and capacities are those of the tables, and every id that a
\* call returned is the number of a wire.
THEOREM TypeCorrect == Spec => []TypeOK
<1>1. IInv => TypeOK
  <2> SUFFICES ASSUME IInv PROVE TypeOK
    OBVIOUS
  <2>1. /\ GoodCircuit(circuit) /\ role \in {"prover", "verifier"}
        /\ \A n \in 1..Len(ids) : ids[n] = InvalidId \/ ids[n] < Len(circuit.wires)
    BY DEF IInv, BuildOK
  <2>2. /\ circuit.nWitness = Nth(circuit, "witness", Len(circuit.wires))
        /\ circuit.nInstance = Nth(circuit, "instance", Len(circuit.wires))
        /\ circuit.nAnd = Nth(circuit, "and", Len(circuit.wires))
    BY <2>1 DEF GoodCircuit, WellFormed
  <2>3. Len(circuit.wires) <= circuit.capW /\ Len(circuit.cons) <= circuit.capC
    BY <2>1 DEF GoodCircuit, Room
  <2>4. verdict.is \in {"none", "accepted", "refused"}
    BY DEF IInv, Answered, NoVerdict
  <2> QED
    BY <2>1, <2>2, <2>3, <2>4 DEF TypeOK
<1> QED
  BY Invariant, <1>1, PTL

\* The circuit under construction is admissible once it is valid.
LEMMA CircuitAdmissible ==
  ASSUME IInv, Admitted(circuit)
  PROVE  Admissible(circuit) /\ circuit.ok
<1>1. /\ GoodCircuit(circuit) /\ Len(circuit.wires) \in Nat /\ Len(ids) \in Nat
      /\ Len(circuit.wires) <= Len(ids) /\ Len(ids) <= Len(program)
  BY DEF IInv, BuildOK
<1>2. Len(program) \in Nat /\ Len(program) <= InvalidId
  BY ProgramLength DEF IInv
<1>3. Len(circuit.wires) <= InvalidId
  BY <1>1, <1>2, CircuitAssumption
<1> QED
  BY <1>1, <1>3 DEF Admissible, Admitted

\* So is the circuit of a proof.
LEMMA ProofAdmissible ==
  ASSUME ProofOK(proof)
  PROVE  Admissible(proof.circuit) /\ proof.circuit.ok
<1>1. /\ GoodCircuit(proof.circuit) /\ Admitted(proof.circuit)
      /\ proof.of \in Programs /\ Len(proof.circuit.wires) <= Len(proof.of)
  BY DEF ProofOK
<1>2. Len(proof.of) \in Nat /\ Len(proof.of) <= InvalidId /\ InvalidId \in Nat
  BY <1>1, ProgramLength, CircuitAssumption
<1>3. Len(proof.circuit.wires) \in Nat
  BY <1>1, MarkedGood
<1>4. Len(proof.circuit.wires) <= InvalidId
  BY <1>1, <1>2, <1>3
<1> QED
  BY <1>1, <1>4 DEF Admissible, Admitted

\* A circuit that is let through and has the fingerprint of the proof is the
\* circuit the proof was made for, with its counters and capacities.
LEMMA SameCircuit ==
  ASSUME IInv, role = "verifier", Admitted(circuit), Fingerprint(circuit) = proof.fp
  PROVE  circuit = proof.circuit
<1>1. ProofOK(proof)
  BY DEF IInv
<1>2. Admissible(circuit) /\ circuit.ok
  BY CircuitAdmissible
<1>3. Admissible(proof.circuit) /\ proof.circuit.ok
  BY <1>1, ProofAdmissible
<1>4. Fingerprint(circuit) = Fingerprint(proof.circuit)
  BY <1>1 DEF ProofOK
<1>5. circuit.wires = proof.circuit.wires /\ circuit.cons = proof.circuit.cons
  BY <1>2, <1>3, <1>4, FingerprintInjective
<1> QED
  BY <1>2, <1>3, <1>5, SameTables DEF Admissible

\* A verifier whose circuit has the prover's fingerprint checks the prover's
\* gates and constraints.
THEOREM FingerprintsBind == Spec => []FingerprintBinds
<1>1. IInv => FingerprintBinds
  BY SameCircuit, Zenon DEF FingerprintBinds
<1> QED
  BY Invariant, <1>1, PTL

\* Wherever a verifier gets past the comparisons, every wire's key is the
\* prover's tag plus Delta times the wire's bit.
THEOREM KeysAndTags ==
  ASSUME IsRing
  PROVE  Spec => []KeyRelation
<1>1. IInv => KeyRelation
  <2> SUFFICES ASSUME IInv, verdict # NoVerdict, Compared(proof.instance)
               PROVE  LET keys == Keys(circuit, proof.instance, Q, proof.d, Delta)
                          tags == Tags(proof.circuit, V)
                      IN  \A i \in 1..Len(circuit.wires) :
                            keys[i] = Plus(tags[i], Times(Delta, BitElem(proof.bits[i])))
    BY DEF KeyRelation
  <2>1. role = "verifier" /\ ProofOK(proof)
    BY DEF IInv, Answered
  <2>2. circuit = proof.circuit
    BY <2>1, SameCircuit DEF Compared
  <2>3. /\ proof.of \in Programs /\ GoodCircuit(circuit) /\ Valid(circuit)
        /\ Len(circuit.wires) <= Len(proof.of)
        /\ proof.witness \in Witnesses /\ proof.instance \in Instances
        /\ proof.bits = Bits(circuit, proof.witness, proof.instance)
        /\ proof.d = ComputeD(circuit, proof.bits, U)
    BY <2>1, <2>2 DEF ProofOK, Admitted
  <2>4. KeysRelate(circuit, proof.witness, proof.instance, U, V, Q, Delta)
    BY <2>3, KeysOfProgram
  <2> QED
    BY <2>2, <2>3, <2>4 DEF KeysRelate
<1> QED
  BY Invariant, <1>1, PTL

\* A verifier whose application made the prover's calls, all of which went
\* through, accepts the prover's proof for the prover's instance.
THEOREM Completeness ==
  ASSUME IsRing
  PROVE  Spec => []Complete
<1>1. IInv => Complete
  <2> SUFFICES ASSUME IInv, verdict # NoVerdict, verdict.instance = proof.instance,
                      program = proof.of, Admitted(circuit)
               PROVE  verdict.is = "accepted"
    BY DEF Complete
  <2>1. /\ role = "verifier" /\ ProofOK(proof) /\ Len(ids) = Len(program)
        /\ verdict.is = IF Accepts(proof.instance) THEN "accepted" ELSE "refused"
    BY DEF IInv, Answered, Built
  <2>2. circuit = proof.circuit
    <3>1. Ideal(program, Len(program)) = [c |-> circuit, ids |-> ids]
      BY <2>1 DEF IInv, BuildOK, Admitted
    <3>2. Ideal(program, Len(program)).c = proof.circuit
      BY <2>1 DEF ProofOK
    <3> QED
      BY <3>1, <3>2
  <2>3. /\ proof.of \in Programs /\ GoodCircuit(circuit) /\ Valid(circuit)
        /\ Len(circuit.wires) <= Len(proof.of)
        /\ proof.witness \in Witnesses /\ proof.instance \in Instances
        /\ proof.bits = Bits(circuit, proof.witness, proof.instance)
        /\ proof.d = ComputeD(circuit, proof.bits, U)
        /\ proof.a = QsProve(circuit, proof.bits, U, V, Chall)
        /\ Satisfied(circuit, Bits(circuit, proof.witness, proof.instance))
        /\ Fingerprint(circuit) = proof.fp
    BY <2>1, <2>2 DEF ProofOK, Admitted
  <2>4. Recomputes(circuit, proof.witness, proof.instance, U, V, Q, Delta, Chall)
    BY <2>3, ProofOfProgram
  <2>5. QsVerify(circuit, proof.instance, Q, proof.d, Delta, Chall, proof.a[1], proof.a[2])
          = proof.a[0]
    BY <2>3, <2>4, Zenon DEF Recomputes
  <2>6. Accepts(proof.instance)
    BY <2>3, <2>5 DEF Accepts, Compared
  <2> QED
    BY <2>1, <2>6
<1> QED
  BY Invariant, <1>1, PTL

-----------------------------------------------------------------------------
(* What a program says.                                                    *)

\* A call of a program and its operands.
LEMMA CallShape ==
  ASSUME NEW p \in Programs, NEW n \in 1..Len(p)
  PROVE  /\ Len(p) \in Nat /\ p[n].op \in CallNames /\ p[n].bit \in {0, 1}
         /\ p[n].op \in {"xor", "and", "assert_equal"} =>
              p[n].x \in 1..(n - 1) /\ p[n].y \in 1..(n - 1)
         /\ p[n].op \in {"not", "assert_zero"} => p[n].x \in 1..(n - 1)
         /\ p[n].x \in 0..(n - 1) /\ p[n].y \in 0..(n - 1)
<1> DEFINE call == p[n]
           S == [op : CallNames, x : Nat, y : Nat, bit : {0, 1}]
<1>1. p \in Seq(S)
  BY ProgramAssumption
<1>2. /\ IF Arity(call.op) >= 1 THEN call.x \in 1..(n - 1) ELSE call.x = 0
      /\ IF Arity(call.op) = 2 THEN call.y \in 1..(n - 1) ELSE call.y = 0
  BY ProgramAssumption
<1>3. call \in S /\ Len(p) \in Nat /\ n \in Nat /\ 0 \in 0..(n - 1)
  <2> HIDE DEF S
  <2> QED
    BY <1>1
<1>4. call.op \in CallNames /\ call.bit \in {0, 1}
  BY <1>3
<1> HIDE DEF call
<1>5. call.op \in {"xor", "and", "assert_equal"} => Arity(call.op) = 2
  BY DEF Arity
<1>6. call.op \in {"not", "assert_zero"} => Arity(call.op) = 1
  BY DEF Arity
<1>7. 1..(n - 1) \subseteq 0..(n - 1)
  BY <1>3
<1>8. call.x \in 0..(n - 1) /\ call.y \in 0..(n - 1)
  BY <1>2, <1>3, <1>7
<1> QED
  BY <1>2, <1>3, <1>4, <1>5, <1>6, <1>8 DEF call

\* Counting the calls of a kind, one call at a time.
LEMMA CallsBeforeStep ==
  ASSUME NEW p, NEW op, NEW n \in Nat \ {0}
  PROVE  /\ CallsBefore(p, n, op) \in Nat /\ CallsBefore(p, 1, op) = 0
         /\ CallsBefore(p, n, op) <= n - 1
         /\ CallsBefore(p, n + 1, op) =
              IF p[n].op = op THEN CallsBefore(p, n, op) + 1 ELSE CallsBefore(p, n, op)
<1> DEFINE N(k) == {m \in 1..(k - 1) : p[m].op = op}
<1>1. IsFiniteSet(N(n)) /\ Cardinality(N(n)) \in Nat /\ Cardinality(N(n)) <= n - 1
  <2>1. N(n) \in SUBSET (1..(n - 1))
    OBVIOUS
  <2>2. IsFiniteSet(1..(n - 1)) /\ Cardinality(1..(n - 1)) = n - 1
    <3>1. n - 1 \in Nat
      OBVIOUS
    <3> DEFINE k == n - 1
    <3> HIDE DEF k
    <3>2. IsFiniteSet(1..k) /\ Cardinality(1..k) = IF 1 > k THEN 0 ELSE k - 1 + 1
      BY <3>1, FS_Interval DEF k
    <3> QED
      BY <3>1, <3>2 DEF k
  <2> HIDE DEF N
  <2> QED
    BY <2>1, <2>2, FS_Subset, FS_CardinalityType
<1>2. N(1) = {}
  OBVIOUS
<1>3. N(n + 1) = IF p[n].op = op THEN N(n) \cup {n} ELSE N(n)
  OBVIOUS
<1>4. n \notin N(n)
  OBVIOUS
<1>5. /\ CallsBefore(p, n, op) = Cardinality(N(n)) /\ CallsBefore(p, 1, op) = Cardinality(N(1))
      /\ CallsBefore(p, n + 1, op) = Cardinality(N(n + 1))
  BY DEF CallsBefore
<1> HIDE DEF N
<1>6. Cardinality(N(n) \cup {n}) = Cardinality(N(n)) + 1
  BY <1>1, <1>4, FS_AddElement
<1>7. Cardinality(N(1)) = 0
  BY <1>2, FS_EmptySet
<1> QED
  BY <1>1, <1>3, <1>5, <1>6, <1>7

\* The value of a call is a bit and depends on the calls before it only.
LEMMA CallBitTyped ==
  ASSUME NEW p \in Programs, NEW w \in Witnesses, NEW x \in Instances, NEW n \in 1..Len(p),
         NEW s, NEW r, \A m \in 1..(n - 1) : s[m] = r[m]
  PROVE  /\ CallBit(p, w, x, s, n) \in {0, 1}
         /\ CallBit(p, w, x, s, n) = CallBit(p, w, x, r, n)
<1> DEFINE call == p[n]
<1>1. /\ Len(p) \in Nat /\ call.op \in CallNames /\ call.bit \in {0, 1}
      /\ call.op \in {"xor", "and", "assert_equal"} =>
           call.x \in 1..(n - 1) /\ call.y \in 1..(n - 1)
      /\ call.op \in {"not", "assert_zero"} => call.x \in 1..(n - 1)
  BY CallShape
<1>2. w[CallsBefore(p, n, "witness")] \in {0, 1} /\ x[CallsBefore(p, n, "instance")] \in {0, 1}
  <2>1. \A op : CallsBefore(p, n, op) \in 0..(Len(p) - 1)
    <3> TAKE op
    <3>1. n \in Nat \ {0} /\ n <= Len(p)
      BY <1>1
    <3>2. CallsBefore(p, n, op) \in Nat /\ CallsBefore(p, n, op) <= n - 1
      BY <3>1, CallsBeforeStep
    <3> QED
      BY <1>1, <3>1, <3>2
  <2>2. \A k \in 0..(Len(p) - 1) : w[k] \in {0, 1} /\ x[k] \in {0, 1}
    BY InputAssumption
  <2> QED
    BY <2>1, <2>2
<1>3. \A f : CallBit(p, w, x, f, n) =
        CASE call.op = "witness"  -> w[CallsBefore(p, n, "witness")]
          [] call.op = "instance" -> x[CallsBefore(p, n, "instance")]
          [] call.op = "const"    -> call.bit
          [] call.op = "xor"      -> IF f[call.x] = f[call.y] THEN 0 ELSE 1
          [] call.op = "and"      -> IF {f[call.x], f[call.y]} = {1} THEN 1 ELSE 0
          [] call.op = "not"      -> IF f[call.x] = 0 THEN 1 ELSE 0
          [] OTHER -> 0
  BY DEF CallBit
<1> HIDE DEF call
<1>4. call.op = "witness" => \A f : CallBit(p, w, x, f, n) = w[CallsBefore(p, n, "witness")]
  BY <1>3
<1>5. call.op = "instance" => \A f : CallBit(p, w, x, f, n) = x[CallsBefore(p, n, "instance")]
  BY <1>3
<1>6. call.op = "const" => \A f : CallBit(p, w, x, f, n) = call.bit
  BY <1>3
<1>7. call.op = "xor" => \A f : CallBit(p, w, x, f, n) = IF f[call.x] = f[call.y] THEN 0 ELSE 1
  BY <1>3
<1>8. call.op = "and" =>
        \A f : CallBit(p, w, x, f, n) = IF {f[call.x], f[call.y]} = {1} THEN 1 ELSE 0
  BY <1>3
<1>9. call.op = "not" => \A f : CallBit(p, w, x, f, n) = IF f[call.x] = 0 THEN 1 ELSE 0
  BY <1>3
<1>10. call.op \in {"assert_zero", "assert_equal"} => \A f : CallBit(p, w, x, f, n) = 0
  BY <1>3
<1>11. CASE call.op \in {"witness", "instance", "const"}
  BY <1>1, <1>2, <1>4, <1>5, <1>6, <1>11
<1>12. CASE call.op \in {"assert_zero", "assert_equal"}
  BY <1>10, <1>12
<1>13. CASE call.op = "xor"
  BY <1>1, <1>7, <1>13
<1>14. CASE call.op = "and"
  BY <1>1, <1>8, <1>14
<1>15. CASE call.op = "not"
  BY <1>1, <1>9, <1>15
<1> QED
  BY <1>1, <1>11, <1>12, <1>13, <1>14, <1>15 DEF CallNames, Kinds

ValStep(p, witness, instance) ==
  [s \in Seq({0, 1}) |-> Append(s, CallBit(p, witness, instance, s, Len(s) + 1))]

\* The values exist: they are computed call by call.
LEMMA ValuesUnfold ==
  ASSUME NEW p \in Programs, NEW w \in Witnesses, NEW x \in Instances
  PROVE  \A n \in 1..Len(p) :
           /\ Values(p, w, x)[n] = CallBit(p, w, x, Values(p, w, x), n)
           /\ Values(p, w, x)[n] \in {0, 1}
<1> DEFINE N == Len(p)
           F == ValStep(p, w, x)
           g == Iterate(F, <<>>)[N]
           Body(f) == [n \in 1..Len(p) |-> CallBit(p, w, x, f, n)]
           v == Values(p, w, x)
<1>1. N \in Nat
  BY ProgramLength
<1>2. \A s \in Seq({0, 1}) : F[s] = Append(s, CallBit(p, w, x, s, Len(s) + 1))
  BY DEF ValStep
<1>3. ASSUME NEW s \in Seq({0, 1}), Len(s) < N
      PROVE  CallBit(p, w, x, s, Len(s) + 1) \in {0, 1}
  <2>1. Len(s) + 1 \in 1..Len(p)
    BY <1>1, <1>3
  <2> QED
    BY <2>1, CallBitTyped
<1>4. Appends(F, {0, 1}, N)
  <2> HIDE DEF F, N
  <2> QED
    BY <1>2, <1>3 DEF Appends
<1>5. g = Body(g)
  <2>1. \A n \in 0..(N - 1) : /\ g \in Seq({0, 1}) /\ Len(g) = N
                              /\ g[n + 1] = CallBit(p, w, x, g, n + 1)
    <3> TAKE n \in 0..(N - 1)
    <3> DEFINE s == Iterate(F, <<>>)[n]
    <3>1. /\ s \in Seq({0, 1}) /\ Len(s) = n /\ g \in Seq({0, 1}) /\ Len(g) = N
          /\ \A i \in 1..n : s[i] = g[i]
          /\ \E b \in {0, 1} : F[s] = Append(s, b) /\ g[n + 1] = b
      <4> HIDE DEF F, N
      <4> QED
        BY <1>1, <1>4, AppendLoopStep
    <3> HIDE DEF s, g, F
    <3>2. PICK b \in {0, 1} : F[s] = Append(s, b) /\ g[n + 1] = b
      BY <3>1
    <3>3. F[s] = Append(s, CallBit(p, w, x, s, n + 1))
      BY <1>2, <3>1
    <3>4. n + 1 \in 1..Len(p) /\ (n + 1) - 1 = n
      BY <1>1
    <3>5. CallBit(p, w, x, s, n + 1) \in {0, 1}
          /\ CallBit(p, w, x, s, n + 1) = CallBit(p, w, x, g, n + 1)
      <4>1. \A m \in 1..((n + 1) - 1) : s[m] = g[m]
        BY <3>1, <3>4
      <4> QED
        BY <3>4, <4>1, CallBitTyped
    <3>6. b = CallBit(p, w, x, s, n + 1)
      BY <3>1, <3>2, <3>3, <3>5, LastOfAppend, ZenonT(60)
    <3> QED
      BY <3>1, <3>2, <3>5, <3>6
  <2>2. g \in Seq({0, 1}) /\ Len(g) = N
    <3>1. Iterate(F, <<>>)[N] \in Seq({0, 1}) /\ Len(Iterate(F, <<>>)[N]) = N
      <4> HIDE DEF F, N
      <4> QED
        BY <1>1, <1>4, AppendLoop
    <3> QED
      BY <3>1
  <2> HIDE DEF g
  <2>3. g = [n \in 1..N |-> g[n]]
    BY <1>1, <2>2
  <2>4. ASSUME NEW n \in 1..N PROVE g[n] = CallBit(p, w, x, g, n)
    <3>1. n - 1 \in 0..(N - 1) /\ (n - 1) + 1 = n
      BY <1>1
    <3> QED
      BY <2>1, <3>1
  <2> QED
    BY <2>3, <2>4
<1> HIDE DEF g
<1>6. v = CHOOSE f : f = Body(f)
  BY DEF Values
<1>7. v = Body(v)
  <2> HIDE DEF Body, v
  <2> QED
    BY <1>5, <1>6
<1>8. \A n \in 1..Len(p) : v[n] = CallBit(p, w, x, v, n)
  <2> HIDE DEF v
  <2> QED
    BY <1>7
<1> HIDE DEF v
<1>9. \A n \in 1..Len(p) : CallBit(p, w, x, v, n) \in {0, 1}
  BY CallBitTyped
<1> QED
  BY <1>8, <1>9 DEF v

-----------------------------------------------------------------------------
(* A circuit that lost nothing says what the calls said.                   *)

\* The wire of call m: its gate, its operands, its number among the inputs.
WireOf(c, s, p, m) ==
  /\ s[m] \in 0..(Len(c.wires) - 1)
  /\ c.wires[s[m] + 1] = Entry(p[m].op, Arg(s, p[m].x), Arg(s, p[m].y), p[m].bit)
  /\ \A kind \in {"witness", "instance"} :
       p[m].op = kind => Nth(c, kind, s[m]) = CallsBefore(p, m, kind)

\* Constraint k is that of call m, an assertion.
AssertedBy(c, s, p, m, k) ==
  \/ p[m].op = "assert_zero" /\ c.cons[k] = Arg(s, p[m].x)
  \/ /\ p[m].op = "assert_equal" /\ c.cons[k] \in 0..(Len(c.wires) - 1)
     /\ c.wires[c.cons[k] + 1] = Entry("xor", Arg(s, p[m].x), Arg(s, p[m].y), 0)

CallRendered(c, s, p, m) ==
  IF p[m].op \in Kinds THEN WireOf(c, s, p, m)
  ELSE s[m] = InvalidId /\ \E k \in 1..Len(c.cons) : AssertedBy(c, s, p, m, k)

ConstraintMeant(c, s, p, k) == \E m \in 1..Len(s) : AssertedBy(c, s, p, m, k)

InputsCounted(c, s, p) ==
  \A kind \in {"witness", "instance"} :
    Nth(c, kind, Len(c.wires)) = CallsBefore(p, Len(s) + 1, kind)

\* Circuit c and ids s say what the first Len(s) calls of p said.
Renders(c, s, p) ==
  /\ \A m \in 1..Len(s) : CallRendered(c, s, p, m)
  /\ \A k \in 1..Len(c.cons) : ConstraintMeant(c, s, p, k)
  /\ InputsCounted(c, s, p)

\* Circuit d and ids t continue circuit c and ids s.
Continues(c, s, d, t) ==
  /\ Len(c.wires) \in Nat /\ Len(d.wires) \in Nat /\ Len(c.wires) <= Len(d.wires)
  /\ \A i \in 1..Len(c.wires) : d.wires[i] = c.wires[i]
  /\ Len(c.cons) \in Nat /\ Len(d.cons) \in Nat /\ Len(c.cons) <= Len(d.cons)
  /\ \A k \in 1..Len(c.cons) : d.cons[k] = c.cons[k]
  /\ Len(s) \in Nat /\ Len(t) \in Nat /\ Len(s) <= Len(t)
  /\ \A m \in 1..Len(s) : t[m] = s[m]

\* What an assertion left is still there.
LEMMA StillAsserted ==
  ASSUME NEW p \in Programs, NEW c, NEW s, NEW d, NEW t, Continues(c, s, d, t), Len(s) <= Len(p),
         NEW m \in 1..Len(s), NEW k \in 1..Len(c.cons), AssertedBy(c, s, p, m, k)
  PROVE  AssertedBy(d, t, p, m, k)
<1>0. Len(s) \in Nat /\ Len(c.wires) \in Nat /\ Len(d.wires) \in Nat /\ Len(c.wires) <= Len(d.wires)
  BY DEF Continues
<1>1. Arg(t, p[m].x) = Arg(s, p[m].x) /\ Arg(t, p[m].y) = Arg(s, p[m].y)
  <2>1. m \in 1..Len(p)
    BY <1>0, ProgramLength
  <2>2. p[m].x \in 0..(m - 1) /\ p[m].y \in 0..(m - 1)
    BY <2>1, CallShape
  <2>3. \A i \in 0..(m - 1) : i = 0 \/ t[i] = s[i]
    BY <1>0 DEF Continues
  <2> QED
    BY <2>2, <2>3 DEF Arg
<1>2. d.cons[k] = c.cons[k]
  BY DEF Continues
<1>3. CASE p[m].op = "assert_zero" /\ c.cons[k] = Arg(s, p[m].x)
  BY <1>1, <1>2, <1>3 DEF AssertedBy
<1>4. CASE /\ p[m].op = "assert_equal" /\ c.cons[k] \in 0..(Len(c.wires) - 1)
           /\ c.wires[c.cons[k] + 1] = Entry("xor", Arg(s, p[m].x), Arg(s, p[m].y), 0)
  <2> DEFINE w == c.cons[k]
  <2> HIDE DEF w
  <2>1. w \in 0..(Len(c.wires) - 1) /\ d.cons[k] = w
    BY <1>2, <1>4 DEF w
  <2>2. w \in 0..(Len(d.wires) - 1) /\ w + 1 \in 1..Len(c.wires)
    BY <1>0, <2>1
  <2>3. d.wires[w + 1] = c.wires[w + 1]
    BY <2>2 DEF Continues
  <2>4. d.wires[w + 1] = Entry("xor", Arg(t, p[m].x), Arg(t, p[m].y), 0)
    BY <1>1, <1>4, <2>3 DEF w
  <2> QED
    BY <1>4, <2>1, <2>2, <2>4 DEF AssertedBy
<1> QED
  BY <1>3, <1>4 DEF AssertedBy

\* So is the wire of a gate.
LEMMA StillRendered ==
  ASSUME NEW p \in Programs, NEW c, NEW s, NEW d, NEW t, Continues(c, s, d, t), Len(s) <= Len(p),
         NEW m \in 1..Len(s), CallRendered(c, s, p, m)
  PROVE  CallRendered(d, t, p, m)
<1>0. /\ Len(s) \in Nat /\ Len(c.wires) \in Nat /\ Len(d.wires) \in Nat
      /\ Len(c.wires) <= Len(d.wires) /\ t[m] = s[m]
      /\ Len(c.cons) \in Nat /\ Len(d.cons) \in Nat /\ Len(c.cons) <= Len(d.cons)
  BY DEF Continues
<1>1. CASE p[m].op \notin Kinds
  <2>1. s[m] = InvalidId
    BY <1>1 DEF CallRendered
  <2>2. PICK k \in 1..Len(c.cons) : AssertedBy(c, s, p, m, k)
    BY <1>1 DEF CallRendered
  <2>3. AssertedBy(d, t, p, m, k) /\ k \in 1..Len(d.cons)
    BY <1>0, <2>2, StillAsserted
  <2> QED
    BY <1>0, <1>1, <2>1, <2>3 DEF CallRendered
<1>2. CASE p[m].op \in Kinds
  <2> DEFINE w == s[m]
             call == p[m]
  <2>1. /\ w \in 0..(Len(c.wires) - 1)
        /\ c.wires[w + 1] = Entry(call.op, Arg(s, call.x), Arg(s, call.y), call.bit)
        /\ \A kind \in {"witness", "instance"} :
             call.op = kind => Nth(c, kind, w) = CallsBefore(p, m, kind)
    BY <1>2 DEF CallRendered, WireOf
  <2>2. Arg(t, call.x) = Arg(s, call.x) /\ Arg(t, call.y) = Arg(s, call.y)
    <3>1. m \in 1..Len(p)
      BY <1>0, ProgramLength
    <3>2. call.x \in 0..(m - 1) /\ call.y \in 0..(m - 1)
      BY <3>1, CallShape
    <3>3. \A i \in 0..(m - 1) : i = 0 \/ t[i] = s[i]
      BY <1>0 DEF Continues
    <3> QED
      BY <3>2, <3>3 DEF Arg
  <2> HIDE DEF w, call
  <2>3. w \in 0..(Len(d.wires) - 1) /\ w + 1 \in 1..Len(c.wires)
    BY <1>0, <2>1
  <2>4. d.wires[w + 1] = c.wires[w + 1]
    BY <2>3 DEF Continues
  <2>5. \A kind : Nth(d, kind, w) = Nth(c, kind, w)
    <3> TAKE kind
    <3>1. \A v \in 0..(w - 1) : v + 1 \in 1..Len(c.wires)
      BY <1>0, <2>1
    <3>2. \A v \in 0..(w - 1) : d.wires[v + 1] = c.wires[v + 1]
      BY <3>1 DEF Continues
    <3>3. {v \in 0..(w - 1) : d.wires[v + 1].kind = kind} =
            {v \in 0..(w - 1) : c.wires[v + 1].kind = kind}
      BY <3>2
    <3> QED
      BY <3>3 DEF Nth
  <2>6. /\ t[m] = w /\ w \in 0..(Len(d.wires) - 1)
        /\ d.wires[w + 1] = Entry(call.op, Arg(t, call.x), Arg(t, call.y), call.bit)
        /\ \A kind \in {"witness", "instance"} :
             call.op = kind => Nth(d, kind, w) = CallsBefore(p, m, kind)
    BY <1>0, <2>1, <2>2, <2>3, <2>4, <2>5 DEF w
  <2>7. WireOf(d, t, p, m)
    BY <2>6 DEF WireOf, call
  <2> QED
    BY <1>2, <2>7 DEF CallRendered
<1> QED
  BY <1>1, <1>2

\* One call more.
LEMMA OneMoreRendered ==
  ASSUME NEW p \in Programs, NEW c, NEW s, NEW d, NEW t, Continues(c, s, d, t),
         Len(t) = Len(s) + 1, Len(s) < Len(p), Renders(c, s, p),
         CallRendered(d, t, p, Len(s) + 1),
         \A k \in 1..Len(d.cons) : k > Len(c.cons) => AssertedBy(d, t, p, Len(s) + 1, k),
         \A kind \in {"witness", "instance"} :
           Nth(d, kind, Len(d.wires)) =
             IF p[Len(s) + 1].op = kind THEN Nth(c, kind, Len(c.wires)) + 1
             ELSE Nth(c, kind, Len(c.wires))
  PROVE  Renders(d, t, p)
<1> DEFINE n == Len(s)
<1>0. n \in Nat /\ Len(t) = n + 1 /\ Len(c.cons) \in Nat /\ n <= Len(p) /\ Len(p) \in Nat
  BY ProgramLength DEF Continues
<1> HIDE DEF n
<1>1. \A m \in 1..(n + 1) : CallRendered(d, t, p, m)
  <2> TAKE m \in 1..(n + 1)
  <2>1. CASE m = n + 1
    BY <2>1 DEF n
  <2>2. CASE m \in 1..n
    <3>1. CallRendered(c, s, p, m)
      BY <2>2 DEF Renders, n
    <3>2. Len(s) <= Len(p) /\ m \in 1..Len(s)
      BY <1>0, <2>2 DEF n
    <3> QED
      BY <3>1, <3>2, StillRendered
  <2> QED
    BY <1>0, <2>1, <2>2
<1>2. \A k \in 1..Len(d.cons) : ConstraintMeant(d, t, p, k)
  <2> TAKE k \in 1..Len(d.cons)
  <2>0. k \in Nat /\ 1 <= k
    BY DEF Continues
  <2>1. CASE k > Len(c.cons)
    <3>1. AssertedBy(d, t, p, n + 1, k) /\ n + 1 \in 1..Len(t)
      BY <1>0, <2>1 DEF n
    <3> QED
      BY <3>1 DEF ConstraintMeant
  <2>2. CASE k <= Len(c.cons)
    <3>1. k \in 1..Len(c.cons)
      BY <1>0, <2>0, <2>2
    <3>2. PICK m \in 1..Len(s) : AssertedBy(c, s, p, m, k)
      BY <3>1 DEF Renders, ConstraintMeant
    <3>3. Len(s) <= Len(p)
      BY <1>0 DEF n
    <3>4. AssertedBy(d, t, p, m, k)
      BY <3>1, <3>2, <3>3, StillAsserted
    <3>5. m \in 1..Len(t)
      BY <1>0, <3>2 DEF n
    <3> QED
      BY <3>4, <3>5 DEF ConstraintMeant
  <2> QED
    BY <1>0, <2>0, <2>1, <2>2
<1>3. InputsCounted(d, t, p)
  <2> SUFFICES ASSUME NEW kind \in {"witness", "instance"}
               PROVE  Nth(d, kind, Len(d.wires)) = CallsBefore(p, Len(t) + 1, kind)
    BY DEF InputsCounted
  <2>1. Nth(c, kind, Len(c.wires)) = CallsBefore(p, n + 1, kind)
    BY DEF Renders, InputsCounted, n
  <2>2. n + 1 \in Nat \ {0}
    BY <1>0
  <2>3. CallsBefore(p, (n + 1) + 1, kind) =
          IF p[n + 1].op = kind THEN CallsBefore(p, n + 1, kind) + 1
          ELSE CallsBefore(p, n + 1, kind)
    BY <2>2, CallsBeforeStep
  <2> QED
    BY <1>0, <2>1, <2>3 DEF n
<1> QED
  BY <1>0, <1>1, <1>2, <1>3 DEF Renders

\* Circuit d is circuit c with wire e at its end.
WireMore(c, d, e) ==
  /\ Len(c.wires) \in Nat /\ Len(d.wires) = Len(c.wires) + 1
  /\ \A i \in 1..Len(c.wires) : d.wires[i] = c.wires[i]
  /\ d.wires[Len(c.wires) + 1] = e
  /\ Len(c.cons) \in Nat /\ d.cons = c.cons
  /\ \A kind : /\ Nth(d, kind, Len(d.wires)) = Counted(Nth(c, kind, Len(c.wires)), kind, e)
               /\ Nth(d, kind, Len(c.wires)) = Nth(c, kind, Len(c.wires))

LEMMA PushedTables ==
  ASSUME NEW c, GoodCircuit(c), NEW e \in WireEntries, NEW d, d = Pushed(c, e)
  PROVE  WireMore(c, d, e)
<1> DEFINE ws == c.wires
           ns == Append(ws, e)
           n == Len(ws)
<1>1. ws \in Seq(WireEntries) /\ n \in Nat /\ c.cons \in Seq(Nat) /\ Len(c.cons) \in Nat
  BY DEF GoodCircuit, Circuits
<1>2. d.wires = ns /\ d.cons = c.cons
  BY DEF Pushed
<1>3. Len(ns) = n + 1 /\ (\A i \in 1..n : ns[i] = ws[i]) /\ ns[n + 1] = e
  <2> HIDE DEF ws
  <2> QED
    BY <1>1
<1>4. Longer(c, d, e, n)
  BY <1>1, <1>2, <1>3 DEF Longer
<1>5. \A kind : Nth(d, kind, n + 1) = Counted(Nth(c, kind, n), kind, e)
  <2> HIDE DEF n
  <2> QED
    BY <1>4, NthAppend
<1>6. \A kind : Nth(d, kind, n) = Nth(c, kind, n)
  <2> TAKE kind
  <2>1. {v \in 0..(n - 1) : d.wires[v + 1].kind = kind} =
          {v \in 0..(n - 1) : c.wires[v + 1].kind = kind}
    BY <1>4 DEF Longer
  <2> QED
    BY <2>1 DEF Nth
<1> QED
  BY <1>1, <1>2, <1>3, <1>5, <1>6 DEF WireMore

\* Circuit d is circuit c with a constraint on w at its end.
ConstraintMore(c, d, w) ==
  /\ d.wires = c.wires
  /\ Len(c.cons) \in Nat /\ Len(d.cons) = Len(c.cons) + 1
  /\ \A k \in 1..Len(c.cons) : d.cons[k] = c.cons[k]
  /\ d.cons[Len(c.cons) + 1] = w
  /\ \A kind, v : Nth(d, kind, v) = Nth(c, kind, v)

LEMMA ConstrainedTables ==
  ASSUME NEW c, GoodCircuit(c), NEW w \in Nat, NEW d, d = Constrained(c, w)
  PROVE  ConstraintMore(c, d, w)
<1> DEFINE ks == c.cons
           ns == Append(ks, w)
<1>1. ks \in Seq(Nat) /\ Len(ks) \in Nat
  BY DEF GoodCircuit, Circuits
<1>2. d.wires = c.wires /\ d.cons = ns
  BY DEF Constrained
<1>3. /\ Len(ns) = Len(ks) + 1 /\ (\A k \in 1..Len(ks) : ns[k] = ks[k])
      /\ ns[Len(ks) + 1] = w
  <2> HIDE DEF ks
  <2> QED
    BY <1>1
<1> QED
  BY <1>1, <1>2, <1>3 DEF Nth, ConstraintMore

\* A call for which there is memory, on a circuit that renders those before.
LEMMA CallRenders ==
  ASSUME NEW p \in Programs, NEW c, GoodCircuit(c), NEW s \in Seq(Nat), Len(s) < Len(p),
         Renders(c, s, p)
  PROVE  LET r == Perform(c, s, p[Len(s) + 1], TRUE, TRUE)
         IN  Renders(r.c, Append(s, r.id), p)
<1> DEFINE r == Perform(c, s, p[Len(s) + 1], TRUE, TRUE)
           t == Append(s, r.id)
           n == Len(s)
           call == p[n + 1]
           a == Arg(s, call.x)
           b == Arg(s, call.y)
           e == Entry(call.op, a, b, call.bit)
           L == Len(c.wires)
           C == Len(c.cons)
           d == r.c
<1>1. /\ call.op \in CallNames /\ a \in Nat /\ b \in Nat
      /\ call.op \in Kinds => e \in WireEntries /\ Shaped(e)
  BY CallTyped
<1>2. n \in Nat /\ n + 1 \in 1..Len(p) /\ Len(p) \in Nat
  BY ProgramLength
<1>3. r.id \in Nat
  <2>1. Grew(c, r)
    BY PerformGrows
  <2> HIDE DEF r
  <2> QED
    BY <2>1 DEF Grew
<1>4. /\ Len(t) = n + 1 /\ t[n + 1] = r.id
      /\ \A m \in 1..n : t[m] = s[m]
  <2> DEFINE id == r.id
  <2>1. id \in Nat /\ t = Append(s, id) /\ s \in Seq(Nat)
    BY <1>3
  <2> HIDE DEF id, t
  <2>2. Len(t) = Len(s) + 1 /\ t[Len(s) + 1] = id /\ \A m \in 1..Len(s) : t[m] = s[m]
    BY <2>1
  <2> QED
    BY <2>2 DEF id
<1>5. Arg(t, call.x) = a /\ Arg(t, call.y) = b
  <2>1. call.x \in 0..((n + 1) - 1) /\ call.y \in 0..((n + 1) - 1)
    BY <1>2, CallShape
  <2>2. \A i \in 0..((n + 1) - 1) : i = 0 \/ t[i] = s[i]
    <3> HIDE DEF n, t
    <3> QED
      BY <1>2, <1>4
  <2> QED
    BY <2>1, <2>2 DEF Arg
<1>6. call.op \in Kinds => r.c = Pushed(c, e) /\ r.id = L
  <2> SUFFICES ASSUME call.op \in Kinds PROVE r.c = Pushed(c, e) /\ r.id = L
    OBVIOUS
  <2>1. r = AppendWire(c, e, TRUE)
    BY DEF Perform, Kinds
  <2> HIDE DEF e
  <2>2. r = [c |-> Pushed(c, e), id |-> L]
    BY <2>1 DEF AppendWire
  <2> HIDE DEF r
  <2> QED
    BY <2>2
<1>7. call.op = "assert_zero" => r.c = Constrained(c, a) /\ r.id = InvalidId
  <2> SUFFICES ASSUME call.op = "assert_zero"
               PROVE  r.c = Constrained(c, a) /\ r.id = InvalidId
    OBVIOUS
  <2>1. r = [c |-> AppendConstraint(c, a, TRUE), id |-> InvalidId]
    BY DEF Perform, Kinds
  <2> HIDE DEF a
  <2>2. AppendConstraint(c, a, TRUE) = Constrained(c, a)
    BY DEF AppendConstraint
  <2> HIDE DEF r
  <2> QED
    BY <2>1, <2>2
<1>8. call.op = "assert_equal" =>
        r.c = Constrained(Pushed(c, Entry("xor", a, b, 0)), L) /\ r.id = InvalidId
  <2> SUFFICES ASSUME call.op = "assert_equal"
               PROVE  r.c = Constrained(Pushed(c, Entry("xor", a, b, 0)), L) /\ r.id = InvalidId
    OBVIOUS
  <2>1. r = AssertEqual(c, a, b, TRUE, TRUE)
    BY DEF Perform, Kinds
  <2> DEFINE f == Entry("xor", a, b, 0)
             x == AppendWire(c, f, TRUE)
  <2>2. r = [c |-> AppendConstraint(x.c, x.id, TRUE), id |-> InvalidId]
    BY <2>1 DEF AssertEqual
  <2> HIDE DEF f
  <2>3. x.c = Pushed(c, f) /\ x.id = L
    BY DEF AppendWire
  <2> HIDE DEF x
  <2>4. AppendConstraint(x.c, x.id, TRUE) = Constrained(Pushed(c, f), L)
    BY <2>3 DEF AppendConstraint
  <2> HIDE DEF r
  <2> QED
    BY <2>2, <2>4 DEF f
<1>9. InputsCounted(c, s, p)
  BY DEF Renders
<1> HIDE DEF r, t, n, call, a, b, e, L, C, d
<1>10. CASE call.op \in Kinds
  <2>1. d = Pushed(c, e) /\ t[n + 1] = L /\ e \in WireEntries /\ e.kind = call.op
    BY <1>1, <1>4, <1>6, <1>10 DEF d, e, Entry
  <2>2. /\ L \in Nat /\ Len(d.wires) = L + 1
        /\ \A i \in 1..L : d.wires[i] = c.wires[i]
        /\ d.wires[L + 1] = e
        /\ C \in Nat /\ d.cons = c.cons
        /\ \A kind : /\ Nth(d, kind, Len(d.wires)) = Counted(Nth(c, kind, L), kind, e)
                     /\ Nth(d, kind, L) = Nth(c, kind, L)
    <3>1. WireMore(c, d, e)
      BY <2>1, PushedTables
    <3> QED
      BY <3>1 DEF WireMore, L, C
  <2>3. Continues(c, s, d, t)
    BY <1>2, <1>4, <2>2 DEF Continues, n, L, C
  <2>4. WireOf(d, t, p, n + 1)
    <3>1. L \in 0..(Len(d.wires) - 1)
      BY <2>2
    <3>2. \A kind \in {"witness", "instance"} : Nth(d, kind, L) = CallsBefore(p, n + 1, kind)
      BY <1>9, <2>2 DEF InputsCounted, L, n
    <3>3. d.wires[L + 1] = Entry(call.op, Arg(t, call.x), Arg(t, call.y), call.bit)
      BY <1>5, <2>2 DEF e
    <3> QED
      BY <2>1, <3>1, <3>2, <3>3 DEF WireOf, call
  <2>5. CallRendered(d, t, p, n + 1)
    BY <1>10, <2>4 DEF CallRendered, call
  <2>6. \A k \in 1..Len(d.cons) : k > Len(c.cons) => AssertedBy(d, t, p, n + 1, k)
    BY <2>2 DEF C
  <2>7. \A kind \in {"witness", "instance"} :
          Nth(d, kind, Len(d.wires)) =
            IF call.op = kind THEN Nth(c, kind, L) + 1 ELSE Nth(c, kind, L)
    BY <2>1, <2>2 DEF Counted
  <2>8. Renders(d, t, p)
    BY <1>2, <1>4, <2>3, <2>5, <2>6, <2>7, OneMoreRendered DEF n, call, L
  <2> QED
    BY <2>8 DEF d, t, r
<1>11. CASE call.op = "assert_zero"
  <2>0. call.op \notin Kinds
    BY <1>11 DEF Kinds
  <2>1. d = Constrained(c, a) /\ t[n + 1] = InvalidId
    BY <1>4, <1>7, <1>11 DEF d
  <2>2. /\ d.wires = c.wires /\ C \in Nat /\ Len(d.cons) = C + 1
        /\ \A k \in 1..C : d.cons[k] = c.cons[k]
        /\ d.cons[C + 1] = a
        /\ \A kind, v : Nth(d, kind, v) = Nth(c, kind, v)
    BY <1>1, <2>1, ConstrainedTables DEF ConstraintMore, C
  <2>3. L \in Nat
    BY MarkedGood DEF L
  <2>4. Continues(c, s, d, t)
    BY <1>2, <1>4, <2>2, <2>3 DEF Continues, n, L, C
  <2>5. AssertedBy(d, t, p, n + 1, C + 1)
    BY <1>5, <1>11, <2>2 DEF AssertedBy, call
  <2>6. CallRendered(d, t, p, n + 1)
    <3>1. C + 1 \in 1..Len(d.cons)
      BY <2>2
    <3> QED
      BY <2>0, <2>1, <2>5, <3>1 DEF CallRendered, call
  <2>7. \A k \in 1..Len(d.cons) : k > Len(c.cons) => AssertedBy(d, t, p, n + 1, k)
    <3> TAKE k \in 1..Len(d.cons)
    <3>1. k > C => k = C + 1
      BY <2>2
    <3> QED
      BY <2>5, <3>1 DEF C
  <2>8. \A kind \in {"witness", "instance"} :
          Nth(d, kind, Len(d.wires)) =
            IF call.op = kind THEN Nth(c, kind, L) + 1 ELSE Nth(c, kind, L)
    BY <1>11, <2>2 DEF L
  <2>9. Renders(d, t, p)
    BY <1>2, <1>4, <2>4, <2>6, <2>7, <2>8, OneMoreRendered DEF n, call, L
  <2> QED
    BY <2>9 DEF d, t, r
<1>12. CASE call.op = "assert_equal"
  <2> DEFINE f == Entry("xor", a, b, 0)
             m == Pushed(c, f)
  <2>0. call.op \notin Kinds /\ f \in WireEntries /\ Shaped(f) /\ f.kind = "xor"
    BY <1>1, <1>12 DEF Kinds, Entry, WireEntries, Shaped
  <2>1. d = Constrained(m, L) /\ t[n + 1] = InvalidId
    BY <1>4, <1>8, <1>12 DEF d
  <2>f. f = Entry("xor", Arg(t, call.x), Arg(t, call.y), 0)
    BY <1>5
  <2> HIDE DEF f
  <2>m. m = Pushed(c, f)
    OBVIOUS
  <2> HIDE DEF m
  <2>2. /\ L \in Nat /\ Len(m.wires) = L + 1
        /\ \A i \in 1..L : m.wires[i] = c.wires[i]
        /\ m.wires[L + 1] = f
        /\ C \in Nat /\ m.cons = c.cons
        /\ \A kind : Nth(m, kind, Len(m.wires)) = Counted(Nth(c, kind, L), kind, f)
    <3>1. WireMore(c, m, f)
      BY <2>0, <2>m, PushedTables
    <3> QED
      BY <3>1 DEF WireMore, L, C
  <2>3. GoodCircuit(m)
    BY <2>0, <2>m, PushedGood
  <2>4. /\ d.wires = m.wires /\ Len(d.cons) = C + 1
        /\ \A k \in 1..C : d.cons[k] = c.cons[k]
        /\ d.cons[C + 1] = L
        /\ \A kind, v : Nth(d, kind, v) = Nth(m, kind, v)
    <3>1. /\ d.wires = m.wires /\ Len(d.cons) = Len(m.cons) + 1
          /\ \A k \in 1..Len(m.cons) : d.cons[k] = m.cons[k]
          /\ d.cons[Len(m.cons) + 1] = L
          /\ \A kind, v : Nth(d, kind, v) = Nth(m, kind, v)
      <4>1. L \in Nat
        BY <2>2
      <4>2. ConstraintMore(m, d, L)
        BY <2>1, <2>3, <4>1, ConstrainedTables
      <4> QED
        BY <4>2 DEF ConstraintMore
    <3> QED
      BY <2>2, <3>1 DEF C
  <2>5. Continues(c, s, d, t)
    BY <1>2, <1>4, <2>2, <2>4, SMTT(40) DEF Continues, n, L, C
  <2>6. AssertedBy(d, t, p, n + 1, C + 1)
    <3>1. L \in 0..(Len(d.wires) - 1) /\ d.wires[L + 1] = f
      BY <2>2, <2>4
    <3> QED
      BY <1>12, <2>4, <2>f, <3>1 DEF AssertedBy, call
  <2>7. CallRendered(d, t, p, n + 1)
    <3>1. C + 1 \in 1..Len(d.cons)
      BY <2>2, <2>4
    <3> QED
      BY <2>0, <2>1, <2>6, <3>1 DEF CallRendered, call
  <2>8. \A k \in 1..Len(d.cons) : k > Len(c.cons) => AssertedBy(d, t, p, n + 1, k)
    <3> TAKE k \in 1..Len(d.cons)
    <3>1. k > C => k = C + 1
      BY <2>2, <2>4
    <3> QED
      BY <2>6, <3>1 DEF C
  <2>9. \A kind \in {"witness", "instance"} :
          Nth(d, kind, Len(d.wires)) =
            IF call.op = kind THEN Nth(c, kind, L) + 1 ELSE Nth(c, kind, L)
    BY <1>12, <2>0, <2>2, <2>4 DEF Counted
  <2>10. Renders(d, t, p)
    BY <1>2, <1>4, <2>5, <2>7, <2>8, <2>9, OneMoreRendered DEF n, call, L
  <2> QED
    BY <2>10 DEF d, t, r
<1> QED
  BY <1>1, <1>10, <1>11, <1>12 DEF CallNames

\* Without any call.
LEMMA NothingRendered == ASSUME NEW p PROVE Renders(NewCircuit, <<>>, p)
<1> DEFINE none == <<>>
<1>1. NewCircuit.wires = none /\ NewCircuit.cons = none /\ Len(none) = 0
  BY DEF NewCircuit
<1>2. \A kind : Nth(NewCircuit, kind, 0) = 0 /\ CallsBefore(p, 1, kind) = 0
  BY NthStep, CallsBeforeStep
<1> HIDE DEF none
<1>3. Renders(NewCircuit, none, p)
  BY <1>1, <1>2 DEF Renders, InputsCounted
<1> QED
  BY <1>3 DEF none

-----------------------------------------------------------------------------
(* The bits of the wires are the values of the calls.                      *)

\* A circuit some calls into program p that lost nothing and is valid.
Faithful(c, s, p) == BuildOK(c, s, p) /\ Valid(c) /\ Renders(c, s, p)

\* A wire that is referred to is that of a call which made one.
LEMMA OperandIsWire ==
  ASSUME NEW p \in Programs, NEW c, NEW s, Faithful(c, s, p),
         NEW i \in 1..Len(s), s[i] < Len(c.wires)
  PROVE  p[i].op \in Kinds /\ s[i] \in 0..(Len(c.wires) - 1)
<1>1. /\ Len(s) <= Len(p) /\ Len(c.wires) <= Len(s) /\ Len(s) \in Nat /\ Len(c.wires) \in Nat
      /\ s \in Seq(Nat)
  BY DEF Faithful, BuildOK
<1>2. Len(p) \in Nat /\ Len(p) <= InvalidId /\ InvalidId \in Nat
  BY ProgramLength, CircuitAssumption
<1>3. s[i] \in Nat
  BY <1>1
<1>4. s[i] # InvalidId
  BY <1>1, <1>2, <1>3
<1>5. CallRendered(c, s, p, i)
  BY DEF Faithful, Renders
<1> QED
  BY <1>1, <1>3, <1>4, <1>5 DEF CallRendered

\* Boolean arithmetic.
LEMMA BitLaws ==
  ASSUME NEW u \in {0, 1}, NEW v \in {0, 1}
  PROVE  /\ (u + v) % 2 = IF u = v THEN 0 ELSE 1
         /\ u * v = IF {u, v} = {1} THEN 1 ELSE 0
         /\ 1 - u = IF u = 0 THEN 1 ELSE 0
<1>1. u = 0 \/ u = 1
  OBVIOUS
<1>2. v = 0 \/ v = 1
  OBVIOUS
<1>3. (0 + 0) % 2 = 0 /\ (0 + 1) % 2 = 1 /\ (1 + 0) % 2 = 1 /\ (1 + 1) % 2 = 0
  OBVIOUS
<1>4. {u, v} = {1} <=> u = 1 /\ v = 1
  <2>1. ASSUME {u, v} = {1} PROVE u = 1 /\ v = 1
    <3>1. u \in {1} /\ v \in {1}
      BY <2>1
    <3> QED
      BY <3>1
  <2>2. ASSUME u = 1, v = 1 PROVE {u, v} = {1}
    BY <2>2
  <2> QED
    BY <2>1, <2>2
<1>5. (u + v) % 2 = IF u = v THEN 0 ELSE 1
  BY <1>1, <1>2, <1>3
<1>6. u * v = (IF u = 1 /\ v = 1 THEN 1 ELSE 0) /\ 1 - u = IF u = 0 THEN 1 ELSE 0
  BY <1>1, <1>2
<1> QED
  BY <1>4, <1>5, <1>6

\* The wire of a call has the call's value, if those of its operands do.
LEMMA WireHasValue ==
  ASSUME NEW p \in Programs, NEW c, NEW s, Faithful(c, s, p),
         NEW w \in Witnesses, NEW x \in Instances,
         NEW m \in 1..Len(s), p[m].op \in Kinds,
         NEW bits, bits = Bits(c, w, x), NEW val, val = Values(p, w, x),
         \A i \in 1..(m - 1) : p[i].op \in Kinds => bits[s[i] + 1] = val[i]
  PROVE  bits[s[m] + 1] = val[m]
<1> DEFINE call == p[m]
           v == s[m]
           e == c.wires[v + 1]
<1>1. /\ GoodCircuit(c) /\ Valid(c) /\ Len(s) \in Nat /\ Len(s) <= Len(p)
      /\ Len(c.wires) \in Nat /\ Len(c.wires) <= Len(s) /\ Len(c.wires) <= Len(p)
      /\ Renders(c, s, p) /\ WellFormed(c)
  <2>1. Len(p) \in Nat
    BY ProgramLength
  <2> QED
    BY <2>1 DEF Faithful, BuildOK, GoodCircuit
<1>2. m \in 1..Len(p)
  BY <1>1, ProgramLength
<1>3. /\ v \in 0..(Len(c.wires) - 1)
      /\ e = Entry(call.op, Arg(s, call.x), Arg(s, call.y), call.bit)
      /\ \A kind \in {"witness", "instance"} :
           call.op = kind => Nth(c, kind, v) = CallsBefore(p, m, kind)
  <2>1. CallRendered(c, s, p, m)
    BY <1>1 DEF Renders
  <2> QED
    BY <2>1 DEF CallRendered, WireOf
<1>4. InputsTyped(c, w, x)
  BY <1>1, InputsSuffice DEF Supplied
<1>5. bits[v + 1] = WireBit(c, w, x, bits, v)
  BY <1>1, <1>3, <1>4, BitsUnfold
<1>6. val[m] = CallBit(p, w, x, val, m) /\ \A i \in 1..Len(p) : val[i] \in {0, 1}
  BY <1>2, ValuesUnfold
<1>7. /\ call.op \in CallNames
      /\ call.op \in {"xor", "and", "assert_equal"} =>
           call.x \in 1..(m - 1) /\ call.y \in 1..(m - 1)
      /\ call.op \in {"not", "assert_zero"} => call.x \in 1..(m - 1)
  BY <1>2, CallShape
<1>8. WireBit(c, w, x, bits, v) =
        CASE e.kind = "witness"  -> w[Nth(c, "witness", v)]
          [] e.kind = "instance" -> x[Nth(c, "instance", v)]
          [] e.kind = "const"    -> e.bit
          [] e.kind = "xor"      -> (bits[e.a + 1] + bits[e.b + 1]) % 2
          [] e.kind = "and"      -> bits[e.a + 1] * bits[e.b + 1]
          [] e.kind = "not"      -> 1 - bits[e.a + 1]
  BY DEF WireBit
<1>9. CallBit(p, w, x, val, m) =
        CASE call.op = "witness"  -> w[CallsBefore(p, m, "witness")]
          [] call.op = "instance" -> x[CallsBefore(p, m, "instance")]
          [] call.op = "const"    -> call.bit
          [] call.op = "xor"      -> IF val[call.x] = val[call.y] THEN 0 ELSE 1
          [] call.op = "and"      -> IF {val[call.x], val[call.y]} = {1} THEN 1 ELSE 0
          [] call.op = "not"      -> IF val[call.x] = 0 THEN 1 ELSE 0
          [] OTHER -> 0
  BY DEF CallBit
<1>10. \A y \in Operands(e) : y < v
  <2>1. v + 1 \in 1..Len(c.wires) /\ (v + 1) - 1 = v
    BY <1>1, <1>3
  <2> HIDE DEF v
  <2>2. \A y \in Operands(e) : y < (v + 1) - 1
    BY <1>1, <2>1 DEF Valid
  <2> QED
    BY <2>1, <2>2
<1>11. e.kind = call.op /\ e.a = Arg(s, call.x) /\ e.b = Arg(s, call.y) /\ e.bit = call.bit
  <2> HIDE DEF e, call
  <2> QED
    BY <1>3 DEF Entry
<1>12. ASSUME NEW i \in 1..(m - 1), Arg(s, i) \in Operands(e)
       PROVE  bits[Arg(s, i) + 1] = val[i] /\ val[i] \in {0, 1}
  <2>1. i \in 1..Len(s) /\ i \in 1..Len(p) /\ Arg(s, i) = s[i]
    BY <1>1, <1>2 DEF Arg
  <2>2. s[i] \in Nat /\ s \in Seq(Nat)
    <3>1. s \in Seq(Nat)
      BY DEF Faithful, BuildOK
    <3> QED
      BY <2>1, <3>1
  <2>3. s[i] < v /\ v < Len(c.wires) /\ v \in Nat
    BY <1>1, <1>3, <1>10, <1>12, <2>1
  <2>4. s[i] < Len(c.wires)
    BY <1>1, <2>2, <2>3
  <2>5. p[i].op \in Kinds
    BY <2>1, <2>4, OperandIsWire
  <2> QED
    BY <1>6, <2>1, <2>5
<1> HIDE DEF e, v, call
<1>13. CASE call.op = "witness"
  <2>1. WireBit(c, w, x, bits, v) = w[Nth(c, "witness", v)]
    BY <1>8, <1>11, <1>13
  <2>2. CallBit(p, w, x, val, m) = w[CallsBefore(p, m, "witness")]
    BY <1>9, <1>13
  <2> QED
    BY <1>3, <1>5, <1>6, <1>13, <2>1, <2>2 DEF v, call
<1>14. CASE call.op = "instance"
  <2>1. WireBit(c, w, x, bits, v) = x[Nth(c, "instance", v)]
    BY <1>8, <1>11, <1>14
  <2>2. CallBit(p, w, x, val, m) = x[CallsBefore(p, m, "instance")]
    BY <1>9, <1>14
  <2> QED
    BY <1>3, <1>5, <1>6, <1>14, <2>1, <2>2 DEF v, call
<1>15. CASE call.op = "const"
  BY <1>5, <1>6, <1>8, <1>9, <1>11, <1>15 DEF v
<1>16. CASE call.op \in {"xor", "and"}
  <2> DEFINE a == Arg(s, call.x)
             b == Arg(s, call.y)
  <2>1. call.x \in 1..(m - 1) /\ call.y \in 1..(m - 1)
    BY <1>7, <1>16
  <2>2. a \in Operands(e) /\ b \in Operands(e)
    BY <1>11, <1>16 DEF Operands
  <2>3. bits[a + 1] = val[call.x] /\ bits[b + 1] = val[call.y]
        /\ val[call.x] \in {0, 1} /\ val[call.y] \in {0, 1}
    BY <1>12, <2>1, <2>2
  <2>4. e.a = a /\ e.b = b
    BY <1>11
  <2> HIDE DEF a, b
  <2>5. CASE call.op = "xor"
    <3>1. WireBit(c, w, x, bits, v) = (val[call.x] + val[call.y]) % 2
      BY <1>8, <1>11, <2>3, <2>4, <2>5
    <3>2. CallBit(p, w, x, val, m) = IF val[call.x] = val[call.y] THEN 0 ELSE 1
      BY <1>9, <2>5
    <3> QED
      BY <1>5, <1>6, <2>3, <3>1, <3>2, BitLaws DEF v
  <2>6. CASE call.op = "and"
    <3>1. WireBit(c, w, x, bits, v) = val[call.x] * val[call.y]
      BY <1>8, <1>11, <2>3, <2>4, <2>6
    <3>2. CallBit(p, w, x, val, m) = IF {val[call.x], val[call.y]} = {1} THEN 1 ELSE 0
      BY <1>9, <2>6
    <3> QED
      BY <1>5, <1>6, <2>3, <3>1, <3>2, BitLaws DEF v
  <2> QED
    BY <1>16, <2>5, <2>6
<1>17. CASE call.op = "not"
  <2> DEFINE a == Arg(s, call.x)
  <2>1. call.x \in 1..(m - 1)
    BY <1>7, <1>17
  <2>2. a \in Operands(e)
    BY <1>11, <1>17 DEF Operands
  <2>3. bits[a + 1] = val[call.x] /\ val[call.x] \in {0, 1}
    BY <1>12, <2>1, <2>2
  <2>4. e.a = a
    BY <1>11
  <2> HIDE DEF a
  <2>5. WireBit(c, w, x, bits, v) = 1 - val[call.x]
    BY <1>8, <1>11, <1>17, <2>3, <2>4
  <2>6. CallBit(p, w, x, val, m) = IF val[call.x] = 0 THEN 1 ELSE 0
    BY <1>9, <1>17
  <2> QED
    BY <1>5, <1>6, <2>3, <2>5, <2>6, BitLaws DEF v
<1> QED
  BY <1>13, <1>14, <1>15, <1>16, <1>17 DEF Kinds, call

\* Every wire of a call has the call's value.
LEMMA WiresHaveValues ==
  ASSUME NEW p \in Programs, NEW c, NEW s, Faithful(c, s, p),
         NEW w \in Witnesses, NEW x \in Instances
  PROVE  \A m \in 1..Len(s) : p[m].op \in Kinds =>
           Bits(c, w, x)[s[m] + 1] = Values(p, w, x)[m]
<1> DEFINE bits == Bits(c, w, x)
           val == Values(p, w, x)
           T == {j \in Nat : \A m \in 1..j :
                   m <= Len(s) /\ p[m].op \in Kinds => bits[s[m] + 1] = val[m]}
<1>0. Len(s) \in Nat
  BY DEF Faithful, BuildOK
<1>1. 0 \in T
  OBVIOUS
<1>2. ASSUME NEW j \in Nat, j \in T PROVE j + 1 \in T
  <2>1. \A i \in 1..j : i <= Len(s) /\ p[i].op \in Kinds => bits[s[i] + 1] = val[i]
    BY <1>2
  <2>2. ASSUME j + 1 <= Len(s), p[j + 1].op \in Kinds
        PROVE  bits[s[j + 1] + 1] = val[j + 1]
    <3> DEFINE m == j + 1
    <3>1. m \in 1..Len(s) /\ p[m].op \in Kinds
      BY <1>0, <2>2
    <3>2. \A i \in 1..(m - 1) : p[i].op \in Kinds => bits[s[i] + 1] = val[i]
      BY <1>0, <2>1, <2>2
    <3> HIDE DEF m, bits, val
    <3>3. bits[s[m] + 1] = val[m]
      BY <3>1, <3>2, WireHasValue DEF bits, val
    <3> QED
      BY <3>3 DEF m
  <2> HIDE DEF bits, val
  <2>3. ASSUME NEW m \in 1..(j + 1), m <= Len(s), p[m].op \in Kinds
        PROVE  bits[s[m] + 1] = val[m]
    <3>1. CASE m = j + 1
      BY <2>2, <2>3, <3>1
    <3>2. CASE m \in 1..j
      BY <2>1, <2>3, <3>2
    <3> QED
      BY <3>1, <3>2
  <2> QED
    BY <2>3
<1> HIDE DEF T
<1>3. Len(s) \in T
  BY <1>0, <1>1, <1>2, NatSetInduction
<1> QED
  BY <1>0, <1>3 DEF T

\* What call m asserts, if anything, is so.
CallHolds(p, val, m) ==
  /\ p[m].op = "assert_zero" => val[p[m].x] = 0
  /\ p[m].op = "assert_equal" => val[p[m].x] = val[p[m].y]

\* The wire that constraint k puts at zero is zero exactly if the call that
\* asked for it holds.
LEMMA ConstraintSays ==
  ASSUME NEW p \in Programs, NEW c, NEW s, Faithful(c, s, p),
         NEW w \in Witnesses, NEW x \in Instances,
         NEW m \in 1..Len(s), NEW k \in 1..Len(c.cons), AssertedBy(c, s, p, m, k)
  PROVE  Bits(c, w, x)[c.cons[k] + 1] = 0 <=> CallHolds(p, Values(p, w, x), m)
<1> DEFINE bits == Bits(c, w, x)
           val == Values(p, w, x)
           call == p[m]
           v == c.cons[k]
           e == c.wires[v + 1]
<1>1. /\ GoodCircuit(c) /\ Valid(c) /\ Len(s) \in Nat /\ Len(s) <= Len(p)
      /\ Len(c.wires) \in Nat /\ Len(c.wires) <= Len(s) /\ Len(c.wires) <= Len(p)
      /\ WellFormed(c) /\ Len(p) \in Nat /\ s \in Seq(Nat)
  <2>1. Len(p) \in Nat
    BY ProgramLength
  <2> QED
    BY <2>1 DEF Faithful, BuildOK, GoodCircuit
<1>2. m \in 1..Len(p)
  BY <1>1
<1>3. /\ call.op \in {"xor", "and", "assert_equal"} =>
           call.x \in 1..(m - 1) /\ call.y \in 1..(m - 1)
      /\ call.op \in {"not", "assert_zero"} => call.x \in 1..(m - 1)
  BY <1>2, CallShape
<1>4. \A i \in 1..Len(s) : s[i] < Len(c.wires) =>
        bits[s[i] + 1] = val[i] /\ val[i] \in {0, 1}
  <2> TAKE i \in 1..Len(s)
  <2> HAVE s[i] < Len(c.wires)
  <2>1. p[i].op \in Kinds
    BY OperandIsWire
  <2>2. bits[s[i] + 1] = val[i]
    BY <2>1, WiresHaveValues
  <2>3. i \in 1..Len(p)
    BY <1>1
  <2>4. val[i] \in {0, 1}
    BY <2>3, ValuesUnfold
  <2> QED
    BY <2>2, <2>4
<1>5. v < Len(c.wires)
  BY <1>1 DEF Valid
<1>6. \/ call.op = "assert_zero" /\ v = Arg(s, call.x)
      \/ /\ call.op = "assert_equal" /\ v \in 0..(Len(c.wires) - 1)
         /\ e = Entry("xor", Arg(s, call.x), Arg(s, call.y), 0)
  BY DEF AssertedBy
<1>7. CallHolds(p, val, m) <=>
        /\ call.op = "assert_zero" => val[call.x] = 0
        /\ call.op = "assert_equal" => val[call.x] = val[call.y]
  BY DEF CallHolds
<1>8. InputsTyped(c, w, x)
  BY <1>1, InputsSuffice DEF Supplied
<1>9. v \in 0..(Len(c.wires) - 1) => bits[v + 1] = WireBit(c, w, x, bits, v)
  <2>1. WellFormed(c) /\ Valid(c)
    BY <1>1
  <2>2. \A u \in 0..(Len(c.wires) - 1) : bits[u + 1] = WireBit(c, w, x, bits, u)
    BY <2>1, <1>8, BitsUnfold
  <2> HIDE DEF v
  <2> QED
    BY <2>2
<1>10. WireBit(c, w, x, bits, v) =
         CASE e.kind = "witness"  -> w[Nth(c, "witness", v)]
           [] e.kind = "instance" -> x[Nth(c, "instance", v)]
           [] e.kind = "const"    -> e.bit
           [] e.kind = "xor"      -> (bits[e.a + 1] + bits[e.b + 1]) % 2
           [] e.kind = "and"      -> bits[e.a + 1] * bits[e.b + 1]
           [] e.kind = "not"      -> 1 - bits[e.a + 1]
  BY DEF WireBit
<1>11. v \in 0..(Len(c.wires) - 1) => \A y \in Operands(e) : y < v
  <2> SUFFICES ASSUME v \in 0..(Len(c.wires) - 1) PROVE \A y \in Operands(e) : y < v
    OBVIOUS
  <2> HIDE DEF v
  <2>1. v + 1 \in 1..Len(c.wires) /\ (v + 1) - 1 = v
    BY <1>1
  <2>2. \A y \in Operands(e) : y < (v + 1) - 1
    BY <1>1, <2>1 DEF Valid
  <2> QED
    BY <2>1, <2>2
<1> HIDE DEF bits, val, e, v, call
<1>12. CASE call.op = "assert_zero" /\ v = Arg(s, call.x)
  <2>1. call.x \in 1..(m - 1)
    BY <1>3, <1>12
  <2>2. call.x \in 1..Len(s) /\ v = s[call.x]
    BY <1>1, <1>12, <2>1 DEF Arg
  <2>3. bits[v + 1] = val[call.x]
    BY <1>4, <1>5, <2>2
  <2> QED
    BY <1>7, <1>12, <2>3 DEF bits, val, v
<1>13. CASE /\ call.op = "assert_equal" /\ v \in 0..(Len(c.wires) - 1)
            /\ e = Entry("xor", Arg(s, call.x), Arg(s, call.y), 0)
  <2> DEFINE i == call.x
             j == call.y
  <2>1. i \in 1..(m - 1) /\ j \in 1..(m - 1)
    BY <1>3, <1>13
  <2>2. i \in 1..Len(s) /\ j \in 1..Len(s) /\ Arg(s, i) = s[i] /\ Arg(s, j) = s[j]
    BY <1>1, <2>1, SMTT(40) DEF Arg
  <2> HIDE DEF i, j
  <2>3. e.kind = "xor" /\ e.a = s[i] /\ e.b = s[j]
    BY <1>13, <2>2 DEF Entry, i, j
  <2>4. s[i] < v /\ s[j] < v
    BY <1>11, <1>13, <2>3 DEF Operands
  <2>5. s[i] < Len(c.wires) /\ s[j] < Len(c.wires)
    <3>1. s[i] \in Nat /\ s[j] \in Nat
      BY <1>1, <2>2, SMTT(40)
    <3>2. v \in Nat /\ v < Len(c.wires)
      BY <1>1, <1>13
    <3>3. \A a, b, z \in Nat : a < b /\ b < z => a < z
      OBVIOUS
    <3>4. Len(c.wires) \in Nat
      BY <1>1
    <3> QED
      BY <2>4, <3>1, <3>2, <3>3, <3>4
  <2>6. /\ bits[s[i] + 1] = val[i] /\ bits[s[j] + 1] = val[j]
        /\ val[i] \in {0, 1} /\ val[j] \in {0, 1}
    BY <1>4, <2>2, <2>5
  <2>7. bits[v + 1] = (val[i] + val[j]) % 2
    BY <1>9, <1>10, <1>13, <2>3, <2>6
  <2>8. bits[v + 1] = IF val[i] = val[j] THEN 0 ELSE 1
    BY <2>6, <2>7, BitLaws
  <2> QED
    BY <1>7, <1>13, <2>8 DEF bits, val, v, i, j
<1> QED
  BY <1>6, <1>12, <1>13

\* The constraints are satisfied exactly if the assertions hold.
LEMMA SatisfiedMeansHolds ==
  ASSUME NEW p \in Programs, NEW c, NEW s, Faithful(c, s, p),
         NEW w \in Witnesses, NEW x \in Instances
  PROVE  Satisfied(c, Bits(c, w, x)) <=> Holds(p, Len(s), w, x)
<1> DEFINE val == Values(p, w, x)
           bits == Bits(c, w, x)
<1>1. Holds(p, Len(s), w, x) <=> \A m \in 1..Len(s) : CallHolds(p, val, m)
  BY DEF Holds, CallHolds
<1>2. Satisfied(c, bits) <=> \A k \in 1..Len(c.cons) : bits[c.cons[k] + 1] = 0
  BY DEF Satisfied
<1>3. \A m \in 1..Len(s), k \in 1..Len(c.cons) : AssertedBy(c, s, p, m, k) =>
        (bits[c.cons[k] + 1] = 0 <=> CallHolds(p, val, m))
  BY ConstraintSays
<1> HIDE DEF val, bits
<1>4. ASSUME \A k \in 1..Len(c.cons) : bits[c.cons[k] + 1] = 0, NEW m \in 1..Len(s)
      PROVE  CallHolds(p, val, m)
  <2>1. CallRendered(c, s, p, m)
    BY DEF Faithful, Renders
  <2>2. CASE p[m].op \in Kinds
    BY <2>2 DEF CallHolds, Kinds
  <2>3. CASE p[m].op \notin Kinds
    <3>1. PICK k \in 1..Len(c.cons) : AssertedBy(c, s, p, m, k)
      BY <2>1, <2>3 DEF CallRendered
    <3> QED
      BY <1>3, <1>4, <3>1
  <2> QED
    BY <2>2, <2>3
<1>5. ASSUME \A m \in 1..Len(s) : CallHolds(p, val, m), NEW k \in 1..Len(c.cons)
      PROVE  bits[c.cons[k] + 1] = 0
  <2>1. PICK m \in 1..Len(s) : AssertedBy(c, s, p, m, k)
    BY DEF Faithful, Renders, ConstraintMeant
  <2> QED
    BY <1>3, <1>5, <2>1
<1> QED
  BY <1>1, <1>2, <1>4, <1>5 DEF bits

-----------------------------------------------------------------------------
(* The invariant of the meaning.                                           *)

Meant == circuit.ok => Renders(circuit, ids, program)

LEMMA StepMeant == IInv /\ Meant /\ [Next]_vars => Meant'
<1> SUFFICES ASSUME IInv, Meant, [Next]_vars PROVE Meant'
  OBVIOUS
<1>1. ASSUME circuit' = NewCircuit, ids' = <<>> PROVE Meant'
  BY <1>1, NothingRendered DEF Meant
<1>2. ASSUME NEW p \in Programs, Start(p) PROVE Meant'
  BY <1>1, <1>2 DEF Start
<1>3. ASSUME NEW memW \in BOOLEAN, NEW memC \in BOOLEAN, Call(memW, memC) PROVE Meant'
  <2> DEFINE P(W, C) == Perform(circuit, ids, program[Len(ids) + 1], W, C)
             r == P(memW, memC)
  <2>1. circuit' = r.c /\ ids' = Append(ids, r.id) /\ program' = program /\ Running /\ ~ Built
    BY <1>3 DEF Call
  <2>2. program \in Programs /\ Len(ids) < Len(program) /\ ids \in Seq(Nat) /\ GoodCircuit(circuit)
    <3>1. program \in Programs /\ Len(ids) # Len(program)
      BY <2>1 DEF IInv, Running, Built
    <3>2. Len(program) \in Nat /\ Len(ids) \in Nat /\ Len(ids) <= Len(program)
          /\ ids \in Seq(Nat) /\ GoodCircuit(circuit)
      BY ProgramLength DEF IInv, BuildOK
    <3> QED
      BY <3>1, <3>2
  <2>3. r.c.ok => circuit.ok /\ r = P(TRUE, TRUE)
    BY <2>2, PerformGrows
  <2>4. ASSUME r.c.ok PROVE Renders(r.c, Append(ids, r.id), program)
    <3>1. circuit.ok /\ r = P(TRUE, TRUE)
      BY <2>3, <2>4
    <3>2. Renders(circuit, ids, program)
      BY <3>1 DEF Meant
    <3>3. Renders(P(TRUE, TRUE).c, Append(ids, P(TRUE, TRUE).id), program)
      BY <2>2, <3>2, CallRenders
    <3> HIDE DEF r, P
    <3> QED
      BY <3>1, <3>3
  <2> HIDE DEF r, P
  <2> QED
    BY <2>1, <2>4 DEF Meant
<1>4. ASSUME NEW w \in Witnesses, NEW x \in Instances, Prove(w, x) PROVE Meant'
  BY <1>1, <1>4 DEF Prove
<1>5. ASSUME NEW w \in Witnesses, NEW x \in Instances, ProveRefused(w, x) PROVE Meant'
  BY <1>1, <1>5 DEF ProveRefused
<1>6. ASSUME NEW x \in Instances, Verify(x) PROVE Meant'
  BY <1>6 DEF Verify, Meant
<1>7. ASSUME UNCHANGED vars PROVE Meant'
  BY <1>7 DEF vars, Meant
<1> QED
  BY <1>2, <1>3, <1>4, <1>5, <1>6, <1>7 DEF Next

LEMMA InitMeant == Init => Meant
  BY NothingRendered DEF Init, Meant

\* The circuit of an application that lost nothing renders its calls.
THEOREM Rendering == Spec => [](IInv /\ Meant)
  BY InitIInv, StepIInv, InitMeant, StepMeant, PTL DEF Spec

LEMMA AdmittedFaithful ==
  ASSUME IInv, Meant, Running, Admitted(circuit)
  PROVE  program \in Programs /\ Faithful(circuit, ids, program)
  BY DEF IInv, Meant, Running, Admitted, Faithful

\* Whatever allocation failed between two calls, a circuit that is let
\* through is satisfied by exactly the inputs that the calls accept.
THEOREM AcceptsWhatWasAsked == Spec => []AcceptedMeansAsked
<1>1. IInv /\ Meant => AcceptedMeansAsked
  BY AdmittedFaithful, SatisfiedMeansHolds DEF AcceptedMeansAsked
<1> QED
  BY Rendering, <1>1, PTL

\* What a verifier accepts holds: the prover's witness satisfies every
\* assertion that the verifier's application made.
THEOREM AcceptanceIsMeaningful == Spec => []Meaningful
<1>1. IInv /\ Meant => Meaningful
  <2> SUFFICES ASSUME IInv, Meant, verdict.is = "accepted"
               PROVE  Holds(program, Len(program), proof.witness, verdict.instance)
    BY DEF Meaningful
  <2>1. verdict # NoVerdict
    BY DEF NoVerdict
  <2>2. /\ role = "verifier" /\ Built /\ ProofOK(proof) /\ Accepts(verdict.instance)
    BY <2>1 DEF IInv, Answered
  <2>3. /\ Running /\ Len(ids) = Len(program) /\ Admitted(circuit)
        /\ Fingerprint(circuit) = proof.fp /\ verdict.instance = proof.instance
    BY <2>2 DEF Built, Accepts, Compared
  <2>4. circuit = proof.circuit
    BY <2>2, <2>3, SameCircuit
  <2>5. /\ proof.witness \in Witnesses /\ proof.instance \in Instances
        /\ Satisfied(circuit, Bits(circuit, proof.witness, proof.instance))
    BY <2>2, <2>4 DEF ProofOK
  <2>6. program \in Programs /\ Faithful(circuit, ids, program)
    BY <2>3, AdmittedFaithful
  <2>7. Holds(program, Len(ids), proof.witness, proof.instance)
    BY <2>5, <2>6, SatisfiedMeansHolds
  <2> QED
    BY <2>3, <2>7
<1> QED
  BY Rendering, <1>1, PTL
=============================================================================
