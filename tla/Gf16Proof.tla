----------------------------- MODULE Gf16Proof -----------------------------
(***************************************************************************)
(* The GF(2^16) proof system (gf16_circuit.c, gf16_prover.c,               *)
(* gf16_verifier.c, gf16_proof.c).  The code writes the GF(2^8) system out *)
(* a second time over words of twice the width: so its parts are here      *)
(* those of GfProof (G!), put together again.  It has no product by an     *)
(* instance wire, and squares words by multiplying.                        *)
(***************************************************************************)
EXTENDS Integers, Sequences, SequencesExt

CONSTANTS WordBits, Modulus, InitialWires, InitialConstraints, InitialLtBits, InitialLts,
          InitialSynBits, InitialSyns, InvalidId,
          Elem, Zero, One, Plus(_, _), Times(_, _), Alpha, Root, Lambda,
          Programs, Witnesses, Instances, U, V, Delta, Chall

VARIABLES refMode, role, program, ids, circuit, ctx, proof, verdict

G == INSTANCE GfProof

-----------------------------------------------------------------------------
(* gf16_circuit.c                                                          *)

AppendWire(c, e, mem) == G!AppendWire(c, e, mem)
Mux(c, a, b, sel, mem) == G!Mux("mul", c, a, b, sel, mem)
AddConstraint(c, kind, a, b, x, mem) == G!AddConstraint(c, kind, a, b, x, mem)
AssertLt(c, a, b, mem) == G!AssertLt(c, a, b, mem)
AssertSyndrome(c, idx, s, x, mem) ==
  G!AssertSyndrome(c, idx, s, x.t, x.idxBits, x.p, x.n0, x.m, mem)

Perform(c, s, call, mem) ==
  LET a == G!Args(s, call)
      x == call.extra
      Wire(kind, l, r, word, matrix) == AppendWire(c, G!Entry(kind, l, r, word, matrix), mem[1])
      Done(r) == [c |-> r, id |-> InvalidId]
      Half(side) == SubSeq(a, 1 + side * (Len(a) \div 2), (1 + side) * (Len(a) \div 2))
      Relation(kind) ==
        AddConstraint(c, kind, a[1], IF Len(a) > 1 THEN a[2] ELSE InvalidId,
                      IF Len(a) > 2 THEN a[3] ELSE InvalidId, mem[1])
  IN  CASE call.op \in G!Inputs -> Wire(call.op, InvalidId, InvalidId, call.word, G!NoMatrix)
        [] call.op \in {"xor", "mul"} -> Wire(call.op, a[1], a[2], {}, G!NoMatrix)
        [] call.op \in {"square", "xor_const"} ->
             Wire(call.op, a[1], InvalidId, call.word, G!NoMatrix)
        [] call.op = "linear_map" ->
             Wire("linear_map", a[1], InvalidId, {}, G!MulMatrix(call.word))
        [] call.op = "mux" -> Mux(c, a[1], a[2], a[3], mem)
        [] call.op = "limits" -> Done(G!SetLimits(c, x.wires, x.gates))
        [] call.op = "assert_zero" -> Done(Relation("zero"))
        [] call.op = "assert_equal" -> Done(Relation("equal"))
        [] call.op = "assert_product" -> Done(Relation("product"))
        [] call.op = "assert_lt" -> Done(AssertLt(c, Half(0), Half(1), mem))
        [] call.op = "assert_syndrome" ->
             Done(AssertSyndrome(c, SubSeq(a, 1, x.t * x.idxBits),
                                 SubSeq(a, x.t * x.idxBits + 1, Len(a)), x, mem))

Valid(c) == G!Valid(c)
Admitted(c) == c.ok /\ Valid(c)

\* The word of wire w: a square is the product of a word by itself.
WireWord(c, witness, instance, s, w) ==
  LET e == c.wires[w + 1]
  IN  IF e.kind = "square" THEN G!GfMul(s[e.a + 1], s[e.a + 1])
      ELSE G!WireWord(c, witness, instance, s, w)

Vals(c, witness, instance) ==
  G!Iterate([s \in Seq(G!Word) |-> Append(s, WireWord(c, witness, instance, s, Len(s)))],
            <<>>)[Len(c.wires)]

HoldsConstraint(k, vals) == G!HoldsConstraint(k, vals)
HoldsLt(c, lt, vals) == G!HoldsLt(c, lt, vals)
HoldsSyndrome(c, sy, vals) == G!HoldsSyndrome(c, sy, vals)

Satisfied(c, vals) ==
  /\ \A n \in 1..Len(c.cons) : HoldsConstraint(c.cons[n], vals)
  /\ \A n \in 1..Len(c.lts) : HoldsLt(c, c.lts[n], vals)
  /\ \A n \in 1..Len(c.syns) : HoldsSyndrome(c, c.syns[n], vals)

Fingerprint(c) == G!Fingerprint(c)

-----------------------------------------------------------------------------
(* gf16_prover.c                                                           *)

Tags(c, vals) == G!Tags(c, vals, V)
ComputeD(c, vals) == G!ComputeD(c, vals, U)
MulCheck(c, vals, tags, w) == G!MulCheck(c, vals, tags, w)
ConstraintCheck(k, vals, tags) == G!ConstraintCheck(k, vals, tags)
LtCheck(c, lt, vals, tags) == G!LtCheck(c, lt, vals, tags)
SyndromeCheck(c, sy, vals, tags) == G!SyndromeCheck(c, sy, Chall, vals, tags)
SyndromeRefChecks(c, sy, vals, tags) == G!SyndromeRefChecks(c, sy, vals, tags)

Checks(c, vals) ==
  LET tags == Tags(c, vals)
  IN  [n \in 1..c.nMul |-> MulCheck(c, vals, tags, G!MulWires(c)[n])]
        \o [n \in 1..Len(c.cons) |-> ConstraintCheck(c.cons[n], vals, tags)]
        \o [n \in 1..Len(c.lts) |-> LtCheck(c, c.lts[n], vals, tags)]
        \o FlattenSeq([n \in 1..Len(c.syns) |->
             IF refMode THEN SyndromeRefChecks(c, c.syns[n], vals, tags)
             ELSE <<SyndromeCheck(c, c.syns[n], vals, tags)>>])

ProverMask(c, i) == G!ProverMask(c, U, V, i)

\* voleith_gf16_qs_prove
QsProve(c, vals) ==
  LET checks == Checks(c, vals)
  IN  [i \in 0..G!QsDegree(c) |->
         G!ZkHash(Chall, [n \in 1..Len(checks) |-> G!Coefficient(checks[n], i)],
                  ProverMask(c, i))]

-----------------------------------------------------------------------------
(* gf16_verifier.c                                                         *)

Keys(c, instance, d) == G!Keys(c, instance, G!Q, d, Delta)
ConstraintKey(k, keys) == G!ConstraintKey(k, keys)
LtKey(c, lt, keys) == G!LtKey(c, lt, keys, Delta)
SyndromeKey(c, sy, keys) == G!SyndromeKey(c, sy, Chall, keys, Delta)
SyndromeRefKeys(c, sy, keys) == G!SyndromeRefKeys(c, sy, keys, Delta)

CheckKeys(c, instance, d) ==
  LET keys == Keys(c, instance, d)
  IN  [n \in 1..c.nMul |->
         LET e == c.wires[G!MulWires(c)[n] + 1]
         IN  G!ProductKey(keys, e.a, e.b, G!MulWires(c)[n])]
        \o [n \in 1..Len(c.cons) |-> ConstraintKey(c.cons[n], keys)]
        \o [n \in 1..Len(c.lts) |-> LtKey(c, c.lts[n], keys)]
        \o FlattenSeq([n \in 1..Len(c.syns) |->
             IF refMode THEN SyndromeRefKeys(c, c.syns[n], keys)
             ELSE <<SyndromeKey(c, c.syns[n], keys)>>])

VerifierMask(c) == G!VerifierMask(c, G!Q, Delta)

\* voleith_gf16_qs_verify
QsVerify(c, instance, d, a) ==
  Plus(G!ZkHash(Chall, CheckKeys(c, instance, d), VerifierMask(c)),
         G!Total([i \in 1..G!QsDegree(c) |-> Times(G!Power(Delta, i), a[i])], 1..G!QsDegree(c)))

-----------------------------------------------------------------------------
(* gf16_proof.c                                                            *)

Start(p) == G!Start(p)

Call(mem) ==
  /\ G!Running /\ ~ G!Built
  /\ LET r == Perform(circuit, ids, Programs[program][Len(ids) + 1], mem)
     IN  circuit' = r.c /\ ids' = Append(ids, r.id)
  /\ UNCHANGED <<refMode, role, program, ctx, proof, verdict>>

\* voleith_gf16_prove_commit
Commit ==
  /\ role = "prover" /\ G!Built /\ ctx = G!NoContext
  /\ Admitted(circuit)
  /\ ctx' = [is |-> "committed", ell |-> G!Ell(circuit), degree |-> G!QsDegree(circuit),
             fp |-> Fingerprint(circuit)]
  /\ UNCHANGED <<refMode, role, program, ids, circuit, proof, verdict>>

CommitRefused ==
  /\ role = "prover" /\ G!Built /\ ctx = G!NoContext
  /\ ~ Admitted(circuit)
  /\ G!Dropped
  /\ UNCHANGED <<refMode, role, ctx, proof, verdict>>

\* voleith_gf16_prove_respond
Respond(witness, instance, checked) ==
  /\ role = "prover" /\ G!Built /\ ctx # G!NoContext
  /\ LET vals == Vals(circuit, witness, instance)
     IN  /\ checked => Satisfied(circuit, vals)
         /\ proof' = [of |-> program, circuit |-> circuit, vals |-> vals, witness |-> witness,
                      instance |-> instance, fp |-> ctx.fp, ell |-> ctx.ell,
                      degree |-> ctx.degree,
                      d |-> ComputeD(circuit, vals), a |-> QsProve(circuit, vals)]
  /\ role' = "verifier" /\ ctx' = G!NoContext
  /\ G!Dropped
  /\ UNCHANGED <<refMode, verdict>>

RespondRefused(witness, instance) ==
  /\ role = "prover" /\ G!Built /\ ctx # G!NoContext
  /\ ~ Satisfied(circuit, Vals(circuit, witness, instance))
  /\ ctx' = G!NoContext
  /\ G!Dropped
  /\ UNCHANGED <<refMode, role, proof, verdict>>

\* voleith_gf16_verify_reconstruct
Reconstruct ==
  /\ role = "verifier" /\ G!Built /\ ctx = G!NoContext /\ verdict = G!NoVerdict
  /\ IF /\ Admitted(circuit) /\ Fingerprint(circuit) = proof.fp
        /\ G!Ell(circuit) = proof.ell /\ G!QsDegree(circuit) = proof.degree
     THEN /\ ctx' = [is |-> "reconstructed", degree |-> G!QsDegree(circuit)]
          /\ UNCHANGED verdict
     ELSE /\ verdict' = [is |-> "unread"]
          /\ UNCHANGED ctx
  /\ UNCHANGED <<refMode, role, program, ids, circuit, proof>>

\* voleith_gf16_verify_respond
VerifyRespond(instance) ==
  /\ role = "verifier" /\ ctx # G!NoContext
  /\ verdict' = [instance |-> instance, is |->
       IF instance = proof.instance
          /\ QsVerify(circuit, instance, proof.d, proof.a) = proof.a[0]
       THEN "accepted" ELSE "refused"]
  /\ ctx' = G!NoContext
  /\ UNCHANGED <<refMode, role, program, ids, circuit, proof>>

Init == G!Init

Next ==
  \/ \E p \in DOMAIN Programs : Start(p)
  \/ \E mem \in [1..3 -> BOOLEAN] : Call(mem)
  \/ Commit \/ CommitRefused
  \/ \E w \in Witnesses, x \in Instances, checked \in BOOLEAN : Respond(w, x, checked)
  \/ \E w \in Witnesses, x \in Instances : RespondRefused(w, x)
  \/ Reconstruct
  \/ \E x \in Instances : VerifyRespond(x)

-----------------------------------------------------------------------------
\* What a circuit that is let through says is what its calls say.
AcceptedMeansAsked ==
  G!Running /\ Admitted(circuit) =>
    \A w \in Witnesses, x \in Instances :
      Satisfied(circuit, Vals(circuit, w, x)) <=> G!Holds(Programs[program], Len(ids), w, x)

\* Check by check, the verifier's value is the prover's polynomial at Delta.
ChecksMeet ==
  /\ ctx # G!NoContext /\ role = "verifier" /\ circuit = proof.circuit
  /\ Satisfied(circuit, proof.vals)
  => LET keys == CheckKeys(circuit, proof.instance, proof.d)
         checks == Checks(circuit, proof.vals)
     IN  /\ Len(keys) = Len(checks)
         /\ \A n \in 1..Len(checks) :
              keys[n] = G!Total([i \in DOMAIN checks[n] |->
                                   Times(G!Power(Delta, i), checks[n][i])], DOMAIN checks[n])

\* An honest proof of the statement the verifier built is accepted.
Complete ==
  /\ verdict # G!NoVerdict /\ program = proof.of /\ Admitted(circuit)
  /\ Satisfied(proof.circuit, proof.vals)
  => verdict.is # "unread" /\ (verdict.instance = proof.instance => verdict.is = "accepted")

\* What is accepted holds, even when the prover did not look at its witness.
Meaningful ==
  verdict.is = "accepted" =>
    G!Holds(Programs[program], Len(ids), proof.witness, verdict.instance)
=============================================================================
