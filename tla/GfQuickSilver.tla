--------------------------- MODULE GfQuickSilver ---------------------------
(***************************************************************************)
(* QuickSilver over words (proof/gf8_prover.c, proof/gf8_verifier.c).      *)
(* Every wire has a tag and a key per bit, tied by key = tag + Delta * bit;*)
(* combined with the powers of the root of the words' modulus they are the *)
(* tag and the key of the word.  A check of degree k is a polynomial in    *)
(* Delta of degree k: the prover sends its coefficients, the verifier      *)
(* evaluates it on the keys.  GF(2^lambda) is a parameter.                 *)
(***************************************************************************)
EXTENDS GfCircuit, SequencesExt

CONSTANTS Elem, Zero, One, Plus(_, _), Times(_, _),   \* GF(2^lambda)
          Alpha,                                      \* its generator
          Root,                                       \* the image of x: alpha_8
          Lambda                                      \* columns of a mask block

BitElem(b) == IF b THEN One ELSE Zero

\* The sum of f over S.
Total(f, S) == FoldSet(LAMBDA i, sum : Plus(sum, f[i]), Zero, S)

\* h -> h * key + x, over a sequence
Horner(key, xs) ==
  LET Step == [s \in [n : Nat, h : Elem] |->
                 [n |-> s.n + 1, h |-> Plus(Times(s.h, key), xs[s.n + 1])]]
  IN  Iterate(Step, [n |-> 0, h |-> Zero])[Len(xs)].h

Power(x, n) == Iterate([y \in Elem |-> Times(y, x)], One)[n]

SumPoly(col, from) == Horner(Alpha, [n \in 1..Lambda |-> col[from + Lambda - n]])

ZkHash(chall, xs, mask) ==
  Plus(Plus(Times(chall.r0, Horner(chall.s, xs)), Times(chall.r1, Horner(chall.t, xs))), mask)

\* byte_combine: bit i has weight Root^i.
Combine(bits) == Horner(Root, [n \in 1..WordBits |-> bits[WordBits - n]])

\* embed: a word as an element
Embed(word) == Combine([i \in 0..(WordBits - 1) |-> BitElem(i \in word)])

\* A matrix applied to the tags or keys of a word's bits.
ApplyToBits(m, bits) == [i \in 0..(WordBits - 1) |-> Total(bits, m[i])]

Slotted == {"witness", "mul"}
Slot(c, w) ==
  IF c.wires[w + 1].kind = "witness" THEN Nth(c, "witness", w) ELSE c.nWitness + Nth(c, "mul", w)

\* Column i of the word in slot k; where the mask blocks start.
Column(k, i) == k * WordBits + i
MaskStart(c) == Ell(c) * WordBits

-----------------------------------------------------------------------------
(* Polynomials in Delta: functions from 0..degree.                         *)

Degree(p) == Cardinality(DOMAIN p) - 1
Line(c0, c1) == [k \in 0..1 |-> IF k = 0 THEN c0 ELSE c1]
Constant(x) == [k \in {0} |-> x]
Coefficient(p, k) == IF k \in DOMAIN p THEN p[k] ELSE Zero

\* poly_mul
PolyTimes(p, q) ==
  [k \in 0..(Degree(p) + Degree(q)) |->
     Total([i \in DOMAIN p |-> Times(p[i], Coefficient(q, k - i))], DOMAIN p)]

PolyPlus(p, q) ==
  [k \in 0..Max({Degree(p), Degree(q)}) |-> Plus(Coefficient(p, k), Coefficient(q, k))]

\* Aligned to the top: multiplied by X^s.
PolyShift(p, s) == [k \in 0..(Degree(p) + s) |-> Coefficient(p, k - s)]

PolyProduct(ps) == FoldLeftDomain(LAMBDA prod, i : PolyTimes(prod, ps[i]), Constant(One), ps)
PolySum(ps) == FoldLeftDomain(LAMBDA sum, i : PolyPlus(sum, ps[i]), Constant(Zero), ps)

\* All but the last coefficient: what is pushed of a check whose value is zero.
ButLast(p) == [k \in 0..(Degree(p) - 1) |-> p[k]]

\* The weight of column g in the collapsed syndrome: the sum of s^j over the
\* rows j that have a one in it.
Weight(sy, s, g) ==
  LET rows == IF g \div sy.p = sy.n0 - 1 THEN {g % sy.p}
              ELSE {(g + a) % sy.p : a \in sy.m[g \div sy.p]}
  IN  Total([j \in rows |-> Power(s, j)], rows)

\* Bit b (from the highest) of column number g.
IndexBit(sy, g, b) == (g \div 2 ^ (sy.idxBits - b)) % 2 = 1

\* The columns of M, and those with a one in row j.
ColumnsOf(sy) == 0..(sy.n0 * sy.p - 1)
InRow(sy, j) == {g \in ColumnsOf(sy) : InColumn(sy, j, g)}

-----------------------------------------------------------------------------
(* The prover.                                                             *)

WireTags(c, vals, V, s, w) ==
  LET e == c.wires[w + 1]
  IN  CASE e.kind \in Slotted -> [i \in 0..(WordBits - 1) |-> V[Column(Slot(c, w), i)]]
        [] e.kind \in {"instance", "const"} -> [i \in 0..(WordBits - 1) |-> Zero]
        [] e.kind = "xor" ->
             [i \in 0..(WordBits - 1) |-> Plus(s[e.a + 1][i], s[e.b + 1][i])]
        [] e.kind = "xor_const" -> s[e.a + 1]
        [] e.kind = "linear_map" -> ApplyToBits(e.matrix, s[e.a + 1])
        [] e.kind = "square" -> ApplyToBits(SquareMatrix, s[e.a + 1])
        [] e.kind = "scale_instance" -> ApplyToBits(MulMatrix(vals[e.b + 1]), s[e.a + 1])

BitsOf == [0..(WordBits - 1) -> Elem]
TagStep(c, vals, V) == [s \in Seq(BitsOf) |-> Append(s, WireTags(c, vals, V, s, Len(s)))]
Tags(c, vals, V) == Iterate(TagStep(c, vals, V), <<>>)[Len(c.wires)]

\* d: the word of every slot, masked by its columns of u.
ComputeD(c, vals, u) ==
  [k \in 0..(Ell(c) - 1) |->
     LET w == CHOOSE w \in 0..(Len(c.wires) - 1) :
                c.wires[w + 1].kind \in Slotted /\ Slot(c, w) = k
     IN  [i \in 0..(WordBits - 1) |-> Plus(BitElem(i \in vals[w + 1]), u[Column(k, i)])]]

TagLine(tags, vals, w) == Line(Combine(tags[w + 1]), Embed(vals[w + 1]))

\* 1 + b, for a bit wire
Complement(line) == Line(line[0], Plus(One, line[1]))

\* key_a * key_b + key_c * Delta's coefficients, the last being claimed.
Product(x, y, z, claimed) ==
  [k \in 0..2 |-> CASE k = 0 -> Plus(Times(x[0], y[0]), z[0])
                    [] k = 1 -> Plus(Plus(Times(x[0], y[1]), Times(y[0], x[1])), z[1])
                    [] k = 2 -> claimed]

MulWires(c) ==
  [n \in 1..c.nMul |-> CHOOSE w \in 0..(Len(c.wires) - 1) :
                         c.wires[w + 1].kind = "mul" /\ Nth(c, "mul", w) = n - 1]

MulCheck(c, vals, tags, w) ==
  LET e == c.wires[w + 1]
  IN  Product(TagLine(tags, vals, e.a), TagLine(tags, vals, e.b), TagLine(tags, vals, w),
              Embed(GfMul(vals[e.a + 1], vals[e.b + 1])))

ConstraintCheck(k, vals, tags) ==
  CASE k.kind = "product" ->
         Product(TagLine(tags, vals, k.a), TagLine(tags, vals, k.b), TagLine(tags, vals, k.c),
                 Embed(vals[k.c + 1]))
    [] k.kind = "zero"  -> Constant(Combine(tags[k.a + 1]))
    [] k.kind = "equal" -> Constant(Plus(Combine(tags[k.a + 1]), Combine(tags[k.b + 1])))

\* not (A < B): the first bits that differ are 1 and 0, or none differs.
\* Term i has degree i + 1 and is aligned to width + 1.
LtCheck(c, lt, vals, tags) ==
  LET A(i) == TagLine(tags, vals, LtSide(c, lt, 0)[i])
      B(i) == TagLine(tags, vals, LtSide(c, lt, 1)[i])
      same == [i \in 1..lt.width |-> Complement(PolyPlus(A(i), B(i)))]
      above == [i \in 1..lt.width |->
                  PolyShift(PolyTimes(PolyTimes(A(i), Complement(B(i))),
                                      PolyProduct(SubSeq(same, 1, i - 1))),
                            lt.width - i)]
  IN  ButLast(PolyPlus(PolySum(above), PolyShift(PolyProduct(same), 1)))

\* Index k equals g: the product over its bits.
Selects(c, sy, k, g, vals, tags) ==
  PolyProduct([b \in 1..sy.idxBits |->
                 LET bit == TagLine(tags, vals, IndexBits(c, sy, k)[b])
                 IN  IF IndexBit(sy, g, b) THEN bit ELSE Complement(bit)])

PolyScale(x, p) == [i \in DOMAIN p |-> Times(x, p[i])]

\* The sum over the columns of their weight times the indices that select
\* them; the syndrome itself has no tag.
SyndromeCheck(c, sy, chall, vals, tags) ==
  ButLast(PolySum(
    [n \in 1..(sy.t * sy.n0 * sy.p) |->
       LET k == (n - 1) \div (sy.n0 * sy.p)
           g == (n - 1) % (sy.n0 * sy.p)
       IN  PolyScale(Weight(sy, chall.s, g), Selects(c, sy, k, g, vals, tags))]))

\* accumulate_syndrome_ref: a check per row
SyndromeRefChecks(c, sy, vals, tags) ==
  [r \in 1..sy.p |->
     LET ones == SetToSeq(InRow(sy, r - 1) \X (0..(sy.t - 1)))
     IN  [i \in 0..(sy.idxBits - 1) |->
            Coefficient(PolySum([n \in 1..Len(ones) |->
                                   Selects(c, sy, ones[n][2], ones[n][1], vals, tags)]), i)]]

\* Every check, in the order in which it is hashed.
Checks(c, vals, tags, chall, refMode) ==
  [n \in 1..c.nMul |-> MulCheck(c, vals, tags, MulWires(c)[n])]
    \o [n \in 1..Len(c.cons) |-> ConstraintCheck(c.cons[n], vals, tags)]
    \o [n \in 1..Len(c.lts) |-> LtCheck(c, c.lts[n], vals, tags)]
    \o FlattenSeq([n \in 1..Len(c.syns) |->
         IF refMode THEN SyndromeRefChecks(c, c.syns[n], vals, tags)
         ELSE <<SyndromeCheck(c, c.syns[n], chall, vals, tags)>>])

\* Mutant of ProverMask: the staircase of degree two, whatever the degree.
ProverMaskDegreeTwo(c, u, V, i) ==
  Plus(IF i < 2 THEN SumPoly(V, MaskStart(c) + i * Lambda) ELSE Zero,
       IF i \in 1..2 THEN SumPoly(u, MaskStart(c) + (i - 1) * Lambda) ELSE Zero)

\* x1: block j of v masks coefficient j, block j of u coefficient j + 1.
ProverMask(c, u, V, i) ==
  Plus(IF i < QsDegree(c) THEN SumPoly(V, MaskStart(c) + i * Lambda) ELSE Zero,
       IF i > 0 THEN SumPoly(u, MaskStart(c) + (i - 1) * Lambda) ELSE Zero)

\* voleith_gf8_qs_prove: a_0 .. a_d, one hash per coefficient
QsProve(c, vals, u, V, chall, refMode) ==
  LET checks == Checks(c, vals, Tags(c, vals, V), chall, refMode)
  IN  [i \in 0..QsDegree(c) |->
         ZkHash(chall, [n \in 1..Len(checks) |-> Coefficient(checks[n], i)],
                ProverMask(c, u, V, i))]

-----------------------------------------------------------------------------
(* The verifier.                                                           *)

Public(word, delta) ==
  [i \in 0..(WordBits - 1) |-> Times(delta, BitElem(i \in word))]

\* Mutant of WireKeys: the constant of an xor_const does not move the key.
WireKeysNoConst(c, instance, Q, d, delta, s, w) ==
  LET e == c.wires[w + 1]
      k == Slot(c, w)
      Masked(i) == Plus(Q[Column(k, i)], Times(delta, d[k][i]))
  IN  CASE e.kind \in Slotted -> [i \in 0..(WordBits - 1) |-> Masked(i)]
        [] e.kind = "instance" -> Public(instance[Nth(c, "instance", w)], delta)
        [] e.kind = "const" -> Public(e.val, delta)
        [] e.kind = "xor" ->
             [i \in 0..(WordBits - 1) |-> Plus(s[e.a + 1][i], s[e.b + 1][i])]
        [] e.kind = "xor_const" -> s[e.a + 1]
        [] e.kind = "linear_map" -> ApplyToBits(e.matrix, s[e.a + 1])
        [] e.kind = "square" -> ApplyToBits(SquareMatrix, s[e.a + 1])
        [] e.kind = "scale_instance" ->
             ApplyToBits(MulMatrix(instance[Nth(c, "instance", e.b)]), s[e.a + 1])

WireKeys(c, instance, Q, d, delta, s, w) ==
  LET e == c.wires[w + 1]
      k == Slot(c, w)
      Masked(i) == Plus(Q[Column(k, i)], Times(delta, d[k][i]))
  IN  CASE e.kind \in Slotted -> [i \in 0..(WordBits - 1) |-> Masked(i)]
        [] e.kind = "instance" -> Public(instance[Nth(c, "instance", w)], delta)
        [] e.kind = "const" -> Public(e.val, delta)
        [] e.kind = "xor" ->
             [i \in 0..(WordBits - 1) |-> Plus(s[e.a + 1][i], s[e.b + 1][i])]
        [] e.kind = "xor_const" ->
             [i \in 0..(WordBits - 1) |-> Plus(s[e.a + 1][i], Public(e.val, delta)[i])]
        [] e.kind = "linear_map" -> ApplyToBits(e.matrix, s[e.a + 1])
        [] e.kind = "square" -> ApplyToBits(SquareMatrix, s[e.a + 1])
        [] e.kind = "scale_instance" ->
             ApplyToBits(MulMatrix(instance[Nth(c, "instance", e.b)]), s[e.a + 1])

KeyStep(c, instance, Q, d, delta) ==
  [s \in Seq(BitsOf) |-> Append(s, WireKeys(c, instance, Q, d, delta, s, Len(s)))]
Keys(c, instance, Q, d, delta) ==
  Iterate(KeyStep(c, instance, Q, d, delta), <<>>)[Len(c.wires)]

Key(keys, w) == Combine(keys[w + 1])

ProductKey(keys, a, b, x) == Plus(Times(Key(keys, a), Key(keys, b)), Key(keys, x))

ConstraintKey(k, keys) ==
  CASE k.kind = "product" -> ProductKey(keys, k.a, k.b, k.c)
    [] k.kind = "zero"  -> Key(keys, k.a)
    [] k.kind = "equal" -> Plus(Key(keys, k.a), Key(keys, k.b))

KeyProduct(xs) == FoldLeftDomain(LAMBDA prod, i : Times(prod, xs[i]), One, xs)

\* sum_i delta^(width - 1 - i) key_a (key_b + delta) prefix_i + delta prefix_width
LtKey(c, lt, keys, delta) ==
  LET A(i) == Key(keys, LtSide(c, lt, 0)[i])
      B(i) == Key(keys, LtSide(c, lt, 1)[i])
      same == [i \in 1..lt.width |-> Plus(Plus(A(i), B(i)), delta)]
      above == [i \in 1..lt.width |->
                  Times(Power(delta, lt.width - i),
                        Times(Times(A(i), Plus(B(i), delta)), KeyProduct(SubSeq(same, 1, i - 1))))]
  IN  Plus(Total(above, 1..lt.width), Times(KeyProduct(same), delta))

SelectsKey(c, sy, k, g, keys, delta) ==
  KeyProduct([b \in 1..sy.idxBits |->
              LET key == Key(keys, IndexBits(c, sy, k)[b])
              IN  IF IndexBit(sy, g, b) THEN key ELSE Plus(key, delta)])

\* The public syndrome enters at the place of the value: delta^(w - 1) * key.
SyndromeKey(c, sy, chall, keys, delta) ==
  LET chosen == ColumnsOf(sy) \X (0..(sy.t - 1))
      sum == [n \in chosen |-> Times(Weight(sy, chall.s, n[1]),
                                     SelectsKey(c, sy, n[2], n[1], keys, delta))]
      public == [j \in 0..(sy.p - 1) |->
                   Times(Power(chall.s, j), Key(keys, SyndromeWires(c, sy)[j]))]
  IN  Plus(Total(sum, chosen),
           Times(Power(delta, sy.idxBits - 1), Total(public, 0..(sy.p - 1))))

SyndromeRefKeys(c, sy, keys, delta) ==
  [r \in 1..sy.p |->
     LET chosen == InRow(sy, r - 1) \X (0..(sy.t - 1))
         sum == [n \in chosen |-> SelectsKey(c, sy, n[2], n[1], keys, delta)]
     IN  Plus(Total(sum, chosen),
              Times(Key(keys, SyndromeWires(c, sy)[r - 1]), Power(delta, sy.idxBits - 1)))]

CheckKeys(c, keys, delta, chall, refMode) ==
  [n \in 1..c.nMul |->
     LET w == MulWires(c)[n] IN ProductKey(keys, c.wires[w + 1].a, c.wires[w + 1].b, w)]
    \o [n \in 1..Len(c.cons) |-> ConstraintKey(c.cons[n], keys)]
    \o [n \in 1..Len(c.lts) |-> LtKey(c, c.lts[n], keys, delta)]
    \o FlattenSeq([n \in 1..Len(c.syns) |->
         IF refMode THEN SyndromeRefKeys(c, c.syns[n], keys, delta)
         ELSE <<SyndromeKey(c, c.syns[n], chall, keys, delta)>>])

\* q*: the sum over the mask blocks of delta^j * q*_j
VerifierMask(c, Q, delta) ==
  Total([j \in 0..(QsDegree(c) - 1) |->
           Times(Power(delta, j), SumPoly(Q, MaskStart(c) + j * Lambda))],
        0..(QsDegree(c) - 1))

\* voleith_gf8_qs_verify: a_0 = q~ + the sum of delta^i * a_i
QsVerify(c, instance, Q, d, delta, chall, a, refMode) ==
  LET keys == Keys(c, instance, Q, d, delta)
      q == ZkHash(chall, CheckKeys(c, keys, delta, chall, refMode), VerifierMask(c, Q, delta))
  IN  Plus(q, Total([i \in 1..QsDegree(c) |-> Times(Power(delta, i), a[i])], 1..QsDegree(c)))
=============================================================================
