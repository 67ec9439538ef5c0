---------------------------- MODULE QuickSilver ----------------------------
(***************************************************************************)
(* QuickSilver over GF(2) (proof/prover.c, proof/verifier.c).  The prover  *)
(* holds a bit and a tag per wire, the verifier a key, and                 *)
(*     key = tag + Delta * bit                                             *)
(* on every wire, so the verifier evaluates at Delta the polynomials whose *)
(* coefficients the prover sends.  GF(2^lambda) is a parameter: a ring of  *)
(* characteristic two.                                                     *)
(***************************************************************************)
EXTENDS Circuit

CONSTANTS Elem, Zero, One, Plus(_, _), Times(_, _),   \* GF(2^lambda)
          Alpha,                                      \* its generator
          Lambda                                      \* columns of a mask block

ASSUME LambdaAssumption == Lambda \in Nat \ {0}

\* What is used of GF(2^lambda).
RingLaws(S) ==
  /\ \A x \in S : /\ Plus(x, Zero) = x /\ Plus(x, x) = Zero
                  /\ Times(x, One) = x /\ Times(x, Zero) = Zero
  /\ \A x, y \in S : Plus(x, y) = Plus(y, x) /\ Times(x, y) = Times(y, x)
  /\ \A x, y, z \in S : /\ Plus(Plus(x, y), z) = Plus(x, Plus(y, z))
                        /\ Times(Times(x, y), z) = Times(x, Times(y, z))
                        /\ Times(x, Plus(y, z)) = Plus(Times(x, y), Times(x, z))

BitElem(b) == IF b = 1 THEN One ELSE Zero

\* The VOLE slot of a witness wire or an AND gate.
Slot(c, w) ==
  IF c.wires[w + 1].kind = "witness" THEN Nth(c, "witness", w)
  ELSE c.nWitness + Nth(c, "and", w)

Ell(c) == c.nWitness + c.nAnd
Columns(c) == 0..(Ell(c) + 2 * Lambda - 1)

\* h -> h * key + x, over a sequence
Horner(key, xs) ==
  LET Step == [s \in [n : Nat, h : Elem] |->
                 [n |-> s.n + 1, h |-> Plus(Times(s.h, key), xs[s.n + 1])]]
  IN  Iterate(Step, [n |-> 0, h |-> Zero])[Len(xs)].h

\* sum_poly: column `from` has coefficient 1, the last one alpha^(Lambda - 1).
SumPoly(col, from) == Horner(Alpha, [n \in 1..Lambda |-> col[from + Lambda - n]])

\* The two Horner hashes under chall_2, and the correction of the masks.
ZkHash(chall, xs, mask) ==
  Plus(Plus(Times(chall.r0, Horner(chall.s, xs)), Times(chall.r1, Horner(chall.t, xs))), mask)

\* The sequence of checks: AND gates in table order, then the constraints.
AndGates(c) ==
  [n \in 1..Nth(c, "and", Len(c.wires)) |->
     CHOOSE w \in 0..(Len(c.wires) - 1) :
       c.wires[w + 1].kind = "and" /\ Nth(c, "and", w) = n - 1]

-----------------------------------------------------------------------------
(* The prover.                                                             *)

WireTag(c, V, s, w) ==
  LET e == c.wires[w + 1]
  IN  CASE e.kind \in {"witness", "and"}    -> V[Slot(c, w)]
        [] e.kind \in {"instance", "const"} -> Zero
        [] e.kind = "xor" -> Plus(s[e.a + 1], s[e.b + 1])
        [] e.kind = "not" -> s[e.a + 1]

TagStep(c, V) == [s \in Seq(Elem) |-> Append(s, WireTag(c, V, s, Len(s)))]

Tags(c, V) == Iterate(TagStep(c, V), <<>>)[Len(c.wires)]

\* voleith_qs_compute_d: every slotted wire, masked.
ComputeD(c, bits, u) ==
  [k \in 0..(Ell(c) - 1) |->
     LET w == CHOOSE w \in 0..(Len(c.wires) - 1) :
                c.wires[w + 1].kind \in {"witness", "and"} /\ Slot(c, w) = k
     IN  Plus(BitElem(bits[w + 1]), u[k])]

\* Mutant of AndCoefficients: the output's bit is forgotten.
AndCoefficientsNoOutput(c, bits, tags, w) ==
  LET e == c.wires[w + 1]
      a == e.a + 1
      b == e.b + 1
  IN  <<Plus(Times(tags[a], tags[b]), tags[w + 1]),
        Plus(Times(tags[a], BitElem(bits[b])), Times(tags[b], BitElem(bits[a]))),
        BitElem(bits[a] * bits[b])>>

\* The coefficients of key_a * key_b + key_c in Delta.
AndCoefficients(c, bits, tags, w) ==
  LET e == c.wires[w + 1]
      a == e.a + 1
      b == e.b + 1
  IN  <<Plus(Times(tags[a], tags[b]), tags[w + 1]),
        Plus(Plus(Times(tags[a], BitElem(bits[b])), Times(tags[b], BitElem(bits[a]))),
             BitElem(bits[w + 1])),
        BitElem(bits[a] * bits[b])>>

\* Coefficient i of every check; a zero wire has its tag and no more.
Coefficients(c, bits, tags, i) ==
  [n \in 1..Len(AndGates(c)) |-> AndCoefficients(c, bits, tags, AndGates(c)[n])[i + 1]]
    \o [n \in 1..Len(c.cons) |-> IF i = 0 THEN tags[c.cons[n] + 1] ELSE Zero]

\* Mutant of ProverMask: the second block of masks is the first again.
ProverMaskOneBlock(c, u, V, i) ==
  CASE i = 0 -> SumPoly(V, Ell(c))
    [] i = 1 -> Plus(SumPoly(V, Ell(c)), SumPoly(u, Ell(c)))
    [] i = 2 -> SumPoly(u, Ell(c))

\* x1_i = v*_i + u*_(i-1), over the blocks past the slots.
ProverMask(c, u, V, i) ==
  CASE i = 0 -> SumPoly(V, Ell(c))
    [] i = 1 -> Plus(SumPoly(V, Ell(c) + Lambda), SumPoly(u, Ell(c)))
    [] i = 2 -> SumPoly(u, Ell(c) + Lambda)

\* voleith_qs_prove: a_0, a_1, a_2
QsProve(c, bits, u, V, chall) ==
  LET tags == Tags(c, V)
  IN  [i \in 0..2 |-> ZkHash(chall, Coefficients(c, bits, tags, i), ProverMask(c, u, V, i))]

-----------------------------------------------------------------------------
(* The verifier.                                                           *)

\* Mutant of WireKey: a NOT keeps the key of its operand.
WireKeyNotFree(c, instance, Q, d, delta, s, w) ==
  LET e == c.wires[w + 1]
  IN  CASE e.kind \in {"witness", "and"} -> Plus(Q[Slot(c, w)], Times(delta, d[Slot(c, w)]))
        [] e.kind = "instance" -> Times(delta, BitElem(instance[Nth(c, "instance", w)]))
        [] e.kind = "const" -> Times(delta, BitElem(e.bit))
        [] e.kind = "xor" -> Plus(s[e.a + 1], s[e.b + 1])
        [] e.kind = "not" -> s[e.a + 1]

WireKey(c, instance, Q, d, delta, s, w) ==
  LET e == c.wires[w + 1]
  IN  CASE e.kind \in {"witness", "and"} -> Plus(Q[Slot(c, w)], Times(delta, d[Slot(c, w)]))
        [] e.kind = "instance" -> Times(delta, BitElem(instance[Nth(c, "instance", w)]))
        [] e.kind = "const" -> Times(delta, BitElem(e.bit))
        [] e.kind = "xor" -> Plus(s[e.a + 1], s[e.b + 1])
        [] e.kind = "not" -> Plus(s[e.a + 1], delta)

KeyStep(c, instance, Q, d, delta) ==
  [s \in Seq(Elem) |-> Append(s, WireKey(c, instance, Q, d, delta, s, Len(s)))]

Keys(c, instance, Q, d, delta) ==
  Iterate(KeyStep(c, instance, Q, d, delta), <<>>)[Len(c.wires)]

\* key_a * key_b + key_c for an AND gate; the key of a zero wire.
VerifierChecks(c, keys) ==
  [n \in 1..Len(AndGates(c)) |->
     LET w == AndGates(c)[n]
         e == c.wires[w + 1]
     IN  Plus(Times(keys[e.a + 1], keys[e.b + 1]), keys[w + 1])]
    \o [n \in 1..Len(c.cons) |-> keys[c.cons[n] + 1]]

\* q*_0 + Delta * q*_1
VerifierMask(c, Q, delta) ==
  Plus(SumPoly(Q, Ell(c)), Times(delta, SumPoly(Q, Ell(c) + Lambda)))

\* voleith_qs_verify: q~ + Delta * a_1 + Delta^2 * a_2
QsVerify(c, instance, Q, d, delta, chall, a1, a2) ==
  LET q == ZkHash(chall, VerifierChecks(c, Keys(c, instance, Q, d, delta)),
                  VerifierMask(c, Q, delta))
  IN  Plus(Plus(q, Times(delta, a1)), Times(Times(delta, delta), a2))
=============================================================================
