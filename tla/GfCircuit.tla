----------------------------- MODULE GfCircuit -----------------------------
(***************************************************************************)
(* The circuit builder over words (proof/gf8_circuit.c, whose GF(2^16)     *)
(* twin is gf16_circuit.c) and the fingerprint of such a circuit.  Beside  *)
(* wires and constraints a circuit has two tables of high-degree           *)
(* assertions, less-than and syndrome, whose operands live in two pools.   *)
(* A word is the set of its bits, so that XOR is symmetric difference.     *)
(***************************************************************************)
EXTENDS Loops, Integers, Sequences, FiniteSets, FiniteSetsExt

CONSTANTS WordBits,             \* bits of a word: 8 or 16
          Modulus,              \* the terms below x^WordBits of the field's modulus
          InitialWires, InitialConstraints,   \* INITIAL_*_CAP
          InitialLtBits, InitialLts,          \* first sizes of the less-than tables
          InitialSynBits, InitialSyns,        \* and of the syndrome tables
          InvalidId                           \* GF8_WIRE_ID_INVALID

ASSUME GfAssumption ==
  /\ WordBits \in Nat \ {0} /\ Modulus \subseteq 0..(WordBits - 1)
  /\ {InitialWires, InitialConstraints, InitialLtBits, InitialLts, InitialSynBits, InitialSyns}
       \subseteq Nat \ {0}
  /\ InvalidId \in Nat

Word == SUBSET (0..(WordBits - 1))
Xor(a, b) == (a \ b) \cup (b \ a)
Odd(S) == Cardinality(S) % 2 = 1

\* x * a
ShiftWord(a) ==
  LET up == {i + 1 : i \in a} IN IF WordBits \in up THEN Xor(up \ {WordBits}, Modulus) ELSE up

\* voleith_gf8_mul: a is doubled while the bits of b are read from the lowest.
GfMul(a, b) ==
  LET Step == [s \in [n : Nat, a : Word, p : Word] |->
                 [n |-> s.n + 1, a |-> ShiftWord(s.a),
                  p |-> IF s.n \in b THEN Xor(s.p, s.a) ELSE s.p]]
  IN  Iterate(Step, [n |-> 0, a |-> a, p |-> {}])[WordBits].p

\* A matrix: for each row, the set of columns that hold a one.
NoMatrix == [i \in 0..(WordBits - 1) |-> {}]
ApplyLinearMap(m, a) == {i \in 0..(WordBits - 1) : Odd(m[i] \cap a)}

\* voleith_gf8_mul_matrix: column j is c * x^j.
MulMatrix(c) == [i \in 0..(WordBits - 1) |-> {j \in 0..(WordBits - 1) : i \in GfMul(c, {j})}]

\* GF8_SQUARE_MATRIX: column j is x^j squared.
SquareMatrix == [i \in 0..(WordBits - 1) |-> {j \in 0..(WordBits - 1) : i \in GfMul({j}, {j})}]

-----------------------------------------------------------------------------
Inputs == {"witness", "instance", "const"}
Binary == {"xor", "mul", "scale_instance"}
Unary == {"xor_const", "linear_map", "square"}

Entry(kind, a, b, val, matrix) == [kind |-> kind, a |-> a, b |-> b, val |-> val, matrix |-> matrix]
Gate(kind, a, b) == Entry(kind, a, b, {}, NoMatrix)

NewCircuit ==
  [wires |-> <<>>, cons |-> <<>>, lts |-> <<>>, ltBits |-> <<>>, syns |-> <<>>, synBits |-> <<>>,
   capW |-> InitialWires, capC |-> InitialConstraints, capLt |-> 0, capLtBits |-> 0,
   capSyn |-> 0, capSynBits |-> 0, wireCap |-> 0, gateCap |-> 0,
   nWitness |-> 0, nInstance |-> 0, nConst |-> 0, nMul |-> 0, nProduct |-> 0,
   maxLt |-> 0, maxSyn |-> 0, ok |-> TRUE]

SetLimits(c, maxWires, maxGates) == [c EXCEPT !.wireCap = maxWires, !.gateCap = maxGates]

Failed(c) == [c EXCEPT !.ok = FALSE]

\* The limits of set_limits, where 0 is none; a gate is not an input.
Refused(c, kind) ==
  \/ c.wireCap # 0 /\ Len(c.wires) >= c.wireCap
  \/ /\ c.gateCap # 0 /\ kind \notin Inputs
     /\ Len(c.wires) - c.nWitness - c.nInstance - c.nConst >= c.gateCap

Pushed(c, e) ==
  [c EXCEPT !.wires = Append(@, e),
            !.capW = IF Len(c.wires) = @ THEN 2 * @ ELSE @,
            !.nWitness = IF e.kind = "witness" THEN @ + 1 ELSE @,
            !.nInstance = IF e.kind = "instance" THEN @ + 1 ELSE @,
            !.nConst = IF e.kind = "const" THEN @ + 1 ELSE @,
            !.nMul = IF e.kind = "mul" THEN @ + 1 ELSE @]

\* Mutant of AppendWire: a wire past the limit or without memory leaves no trace.
AppendWireTrustsId(c, e, mem) ==
  IF Refused(c, e.kind) \/ (Len(c.wires) = c.capW /\ ~ mem)
  THEN [c |-> c, id |-> InvalidId]
  ELSE [c |-> Pushed(c, e), id |-> Len(c.wires)]

\* append_wire and its caller; mem tells whether a realloc would succeed.
AppendWire(c, e, mem) ==
  IF Refused(c, e.kind) \/ (Len(c.wires) = c.capW /\ ~ mem)
  THEN [c |-> Failed(c), id |-> InvalidId]
  ELSE [c |-> Pushed(c, e), id |-> Len(c.wires)]

\* The public operand must be an instance wire that is there already.
AddScaleInstance(c, a, b, mem) ==
  IF b < Len(c.wires) /\ c.wires[b + 1].kind = "instance"
  THEN AppendWire(c, Gate("scale_instance", a, b), mem)
  ELSE [c |-> Failed(c), id |-> InvalidId]

\* a + sel * (b + a), where the product is a gate of the given kind; it stops
\* at the first wire that is not there.
Mux(kind, c, a, b, sel, mem) ==
  LET diff == AppendWire(c, Gate("xor", b, a), mem[1])
      prod == IF kind = "mul" THEN AppendWire(diff.c, Gate("mul", sel, diff.id), mem[2])
              ELSE AddScaleInstance(diff.c, diff.id, sel, mem[2])
  IN  IF diff.id = InvalidId THEN diff
      ELSE IF prod.id = InvalidId THEN prod
      ELSE AppendWire(prod.c, Gate("xor", a, prod.id), mem[3])

-----------------------------------------------------------------------------
(* Assertions.                                                             *)

AppendConstraint(c, k, mem) ==
  IF Len(c.cons) = c.capC /\ ~ mem THEN Failed(c)
  ELSE [c EXCEPT !.cons = Append(@, k), !.capC = IF Len(c.cons) = @ THEN 2 * @ ELSE @]

\* assert_zero, assert_equal, assert_product
AddConstraint(c, kind, a, b, x, mem) ==
  LET r == AppendConstraint(c, [kind |-> kind, a |-> a, b |-> b, c |-> x], mem)
  IN  [r EXCEPT !.nProduct = IF kind = "product" /\ r.ok THEN @ + 1 ELSE @]

\* The size a pool is given to hold need entries: doubled until it fits.
Grown(cap, initial, need) ==
  LET start == IF cap = 0 THEN initial ELSE cap
      enough == CHOOSE k \in 0..need : /\ start * 2 ^ k >= need
                                       /\ \A j \in 0..(k - 1) : start * 2 ^ j < need
  IN  IF need <= cap THEN cap ELSE start * 2 ^ enough

\* Mutant of AssertLt: without memory for the table the comparison is lost.
AssertLtSilently(c, a, b, mem) ==
  LET width == Len(a)
      need == Len(c.ltBits) + 2 * width
      pool == [c EXCEPT !.capLtBits = Grown(@, InitialLtBits, need)]
  IN  IF width = 0 \/ (need > c.capLtBits /\ ~ mem[1]) THEN Failed(c)
      ELSE IF Len(c.lts) = c.capLt /\ ~ mem[2] THEN pool
      ELSE [pool EXCEPT !.capLt = Grown(@, InitialLts, Len(c.lts) + 1),
                        !.lts = Append(@, [off |-> Len(c.ltBits), width |-> width]),
                        !.ltBits = @ \o a \o b,
                        !.maxLt = Max({@, width + 1})]

\* A pool of operands and a table of entries grow one after the other; the
\* pool keeps its size when the table fails.
AssertLt(c, a, b, mem) ==
  LET width == Len(a)
      need == Len(c.ltBits) + 2 * width
      pool == [c EXCEPT !.capLtBits = Grown(@, InitialLtBits, need)]
  IN  IF width = 0 \/ (need > c.capLtBits /\ ~ mem[1]) THEN Failed(c)
      ELSE IF Len(c.lts) = c.capLt /\ ~ mem[2] THEN Failed(pool)
      ELSE [pool EXCEPT !.capLt = Grown(@, InitialLts, Len(c.lts) + 1),
                        !.lts = Append(@, [off |-> Len(c.ltBits), width |-> width]),
                        !.ltBits = @ \o a \o b,
                        !.maxLt = Max({@, width + 1})]

\* idx: t indices of idxBits wires, the highest bit first; s: the p bits of
\* the syndrome; m: the blocks of M but the last, which is the identity.
AssertSyndrome(c, idx, s, t, idxBits, p, n0, m, mem) ==
  LET need == Len(c.synBits) + t * idxBits + p
      pool == [c EXCEPT !.capSynBits = Grown(@, InitialSynBits, need)]
      table == [pool EXCEPT !.capSyn = Grown(@, InitialSyns, Len(c.syns) + 1)]
  IN  IF 0 \in {t, idxBits, p, n0} \/ (need > c.capSynBits /\ ~ mem[1]) THEN Failed(c)
      ELSE IF Len(c.syns) = c.capSyn /\ ~ mem[2] THEN Failed(pool)
      ELSE IF n0 > 1 /\ ~ mem[3] THEN Failed(table)
      ELSE [table EXCEPT !.synBits = @ \o idx \o s,
                         !.syns = Append(@, [off |-> Len(c.synBits), t |-> t, idxBits |-> idxBits,
                                             p |-> p, n0 |-> n0, m |-> m]),
                         !.maxSyn = Max({@, idxBits})]

\* The wires of a less-than (0 for a, 1 for b), of an index, of the syndrome.
LtSide(c, lt, side) == [i \in 1..lt.width |-> c.ltBits[lt.off + side * lt.width + i]]
IndexBits(c, sy, k) == [i \in 1..sy.idxBits |-> c.synBits[sy.off + k * sy.idxBits + i]]
SyndromeWires(c, sy) == [j \in 0..(sy.p - 1) |-> c.synBits[sy.off + sy.t * sy.idxBits + j + 1]]

QsDegree(c) == Max({2, c.maxLt, c.maxSyn})
Ell(c) == c.nWitness + c.nMul

-----------------------------------------------------------------------------
\* voleith_gf8_circuit_validate
Valid(c) ==
  /\ \A i \in 1..Len(c.wires) :
       LET e == c.wires[i]
       IN  /\ e.kind \in Binary \cup Unary => e.a < i - 1
           /\ e.kind \in Binary => e.b < i - 1
           /\ e.kind = "scale_instance" => c.wires[e.b + 1].kind = "instance"
  /\ \A n \in 1..Len(c.cons) :
       /\ c.cons[n].a < Len(c.wires)
       /\ c.cons[n].kind \in {"equal", "product"} => c.cons[n].b < Len(c.wires)
       /\ c.cons[n].kind = "product" => c.cons[n].c < Len(c.wires)
  /\ \A n \in 1..Len(c.ltBits) : c.ltBits[n] < Len(c.wires)
  /\ \A n \in 1..Len(c.synBits) : c.synBits[n] < Len(c.wires)

Admitted(c) == c.ok /\ Valid(c)

-----------------------------------------------------------------------------
(* Evaluation.                                                             *)

Nth(c, kind, w) == Cardinality({v \in 0..(w - 1) : c.wires[v + 1].kind = kind})

\* The word of wire w, given those before it.
WireWord(c, witness, instance, s, w) ==
  LET e == c.wires[w + 1]
  IN  CASE e.kind = "witness"    -> witness[Nth(c, "witness", w)]
        [] e.kind = "instance"   -> instance[Nth(c, "instance", w)]
        [] e.kind = "const"      -> e.val
        [] e.kind = "xor"        -> Xor(s[e.a + 1], s[e.b + 1])
        [] e.kind = "xor_const"  -> Xor(s[e.a + 1], e.val)
        [] e.kind = "linear_map" -> ApplyLinearMap(e.matrix, s[e.a + 1])
        [] e.kind = "square"     -> ApplyLinearMap(SquareMatrix, s[e.a + 1])
        [] e.kind \in {"mul", "scale_instance"} -> GfMul(s[e.a + 1], s[e.b + 1])

EvalStep(c, witness, instance) ==
  [s \in Seq(Word) |-> Append(s, WireWord(c, witness, instance, s, Len(s)))]

\* F applied n times, half of them after the other half.
Repeated(F, n) ==
  LET times[k \in Nat] ==
        CASE k = 0 -> [s \in DOMAIN F |-> s]
          [] k = 1 -> F
          [] OTHER -> [s \in DOMAIN F |-> times[k - (k \div 2)][times[k \div 2][s]]]
  IN  times[n]

\* voleith_gf8_circuit_eval of a valid circuit
Vals(c, witness, instance) == Repeated(EvalStep(c, witness, instance), Len(c.wires))[<<>>]

\* Of a bit wire only the lowest bit is read.
Low(vals, w) == IF 0 \in vals[w + 1] THEN 1 ELSE 0

HoldsConstraint(k, vals) ==
  CASE k.kind = "zero"    -> vals[k.a + 1] = {}
    [] k.kind = "equal"   -> vals[k.a + 1] = vals[k.b + 1]
    [] k.kind = "product" -> GfMul(vals[k.a + 1], vals[k.b + 1]) = vals[k.c + 1]

\* The first bits that differ are 0 and 1.
HoldsLt(c, lt, vals) ==
  LET a == LtSide(c, lt, 0)
      b == LtSide(c, lt, 1)
  IN  \E i \in 1..lt.width : /\ Low(vals, a[i]) = 0 /\ Low(vals, b[i]) = 1
                             /\ \A j \in 1..(i - 1) : Low(vals, a[j]) = Low(vals, b[j])

\* g << 1 | bit, over the bits of index k
IndexValue(c, sy, k, vals) ==
  LET bits == IndexBits(c, sy, k)
      Step == [s \in [n : Nat, g : Nat] |->
                 [n |-> s.n + 1, g |-> 2 * s.g + Low(vals, bits[s.n + 1])]]
  IN  Iterate(Step, [n |-> 0, g |-> 0])[sy.idxBits].g

\* Row j of M has a one in column g: m_b shifted by the column within its
\* block, the identity in the last.
InColumn(sy, j, g) ==
  IF g \div sy.p = sy.n0 - 1 THEN g % sy.p = j
  ELSE ((j + sy.p) - (g % sy.p)) % sy.p \in sy.m[g \div sy.p]

\* s_j is the sum over the indices of row j.  An index past the last column
\* is outside M: circuits bound their indices by a less-than, checked before.
HoldsSyndrome(c, sy, vals) ==
  \A j \in 0..(sy.p - 1) :
    (Low(vals, SyndromeWires(c, sy)[j]) = 1)
      <=> Odd({k \in 0..(sy.t - 1) : InColumn(sy, j, IndexValue(c, sy, k, vals))})

\* voleith_gf8_circuit_check_constraints
Satisfied(c, vals) ==
  /\ \A n \in 1..Len(c.cons) : HoldsConstraint(c.cons[n], vals)
  /\ \A n \in 1..Len(c.lts) : HoldsLt(c, c.lts[n], vals)
  /\ \A n \in 1..Len(c.syns) : HoldsSyndrome(c, c.syns[n], vals)

-----------------------------------------------------------------------------
\* The counts and the two first tables; less-than and syndrome are not hashed.
Normalized(x) == IF x = InvalidId THEN 0 ELSE x

Fingerprint(c) ==
  <<Len(c.wires), c.nWitness, c.nInstance, c.nMul, Len(c.cons),
    [i \in 1..Len(c.wires) |-> [c.wires[i] EXCEPT !.a = Normalized(@), !.b = Normalized(@)]],
    [n \in 1..Len(c.cons) |->
       [c.cons[n] EXCEPT !.a = Normalized(@), !.b = Normalized(@), !.c = Normalized(@)]]>>
=============================================================================
