------------------------------ MODULE GfProof ------------------------------
(***************************************************************************)
(* A statement over words and its proof (proof/gf8_proof.c), end to end:   *)
(* an application builds a circuit call by call, commits to it and         *)
(* responds to the challenge; the verifier's application builds its own,   *)
(* reconstructs and checks.  Neither looks at the ids that come back.      *)
(* prove and verify are the two phases in a row.  The VOLE correlation is  *)
(* given: Q = V + Delta * u on every column.                               *)
(***************************************************************************)
EXTENDS GfQuickSilver

CONSTANTS Programs,             \* from names to sequences of builder calls
          Witnesses, Instances, \* functions from the numbers of inputs to words
          U, V, Delta,          \* the correlation: columns of u and V, the key
          Chall                 \* chall_2, as [r0, r1, s, t]

VARIABLES
  refMode,  \* voleith_gf8_syndrome_ref_mode, a switch of the tests
  role,     \* whose application runs: "prover", then "verifier"
  program,  \* the name of the calls it makes, or NoProgram before it starts
  ids,      \* the wire ids its calls returned
  circuit,  \* voleith_gf8_circuit_t
  ctx,      \* what the prover's commit, or the verifier's reconstruct, keeps
  proof,    \* what was released, and from what; or NoProof
  verdict   \* what verify_respond returned, and for which instance

vars == <<refMode, role, program, ids, circuit, ctx, proof, verdict>>

NoProgram == "none"
NoContext == [is |-> "none"]
NoProof == [of |-> NoProgram]
NoVerdict == [is |-> "none"]

Running == program # NoProgram
Calls == IF Running THEN Programs[program] ELSE <<>>
Built == Running /\ Len(ids) = Len(Calls)

-----------------------------------------------------------------------------
(* A call has a name, the numbers of the calls that gave its operands, a   *)
(* word and what else the name wants.                                      *)

Args(s, call) == [i \in 1..Len(call.args) |-> s[call.args[i]]]

\* One call on circuit c after calls that returned s; mem tells which of its
\* allocations would succeed.
Perform(c, s, call, mem) ==
  LET a == Args(s, call)
      None(r) == [c |-> r, id |-> InvalidId]
      Half(side) == SubSeq(a, 1 + side * (Len(a) \div 2), (1 + side) * (Len(a) \div 2))
  IN  CASE call.op \in {"witness", "instance"} ->
             AppendWire(c, Gate(call.op, InvalidId, InvalidId), mem[1])
        [] call.op = "const" -> AppendWire(c, Entry("const", InvalidId, InvalidId, call.word, NoMatrix), mem[1])
        [] call.op \in {"xor", "mul"} -> AppendWire(c, Gate(call.op, a[1], a[2]), mem[1])
        [] call.op = "square" -> AppendWire(c, Gate("square", a[1], InvalidId), mem[1])
        [] call.op = "xor_const" ->
             AppendWire(c, Entry("xor_const", a[1], InvalidId, call.word, NoMatrix), mem[1])
        [] call.op = "linear_map" ->
             AppendWire(c, Entry("linear_map", a[1], InvalidId, {}, MulMatrix(call.word)), mem[1])
        [] call.op = "scale_instance" -> AddScaleInstance(c, a[1], a[2], mem[1])
        [] call.op = "mux" -> Mux("mul", c, a[1], a[2], a[3], mem)
        [] call.op = "mux_instance" -> Mux("scale_instance", c, a[1], a[2], a[3], mem)
        [] call.op = "limits" -> None(SetLimits(c, call.extra.wires, call.extra.gates))
        [] call.op = "assert_zero" ->
             None(AddConstraint(c, "zero", a[1], InvalidId, InvalidId, mem[1]))
        [] call.op = "assert_equal" ->
             None(AddConstraint(c, "equal", a[1], a[2], InvalidId, mem[1]))
        [] call.op = "assert_product" ->
             None(AddConstraint(c, "product", a[1], a[2], a[3], mem[1]))
        [] call.op = "assert_lt" -> None(AssertLt(c, Half(0), Half(1), mem))
        [] call.op = "assert_syndrome" ->
             LET x == call.extra
             IN  None(AssertSyndrome(c, SubSeq(a, 1, x.t * x.idxBits),
                                     SubSeq(a, x.t * x.idxBits + 1, Len(a)),
                                     x.t, x.idxBits, x.p, x.n0, x.m, mem))

\* The application starts over with voleith_gf8_circuit_new.
Start(p) ==
  /\ ~ Running /\ ctx = NoContext
  /\ program' = p /\ ids' = <<>> /\ circuit' = NewCircuit
  /\ UNCHANGED <<refMode, role, ctx, proof, verdict>>

Call(mem) ==
  /\ Running /\ ~ Built
  /\ LET r == Perform(circuit, ids, Calls[Len(ids) + 1], mem)
     IN  circuit' = r.c /\ ids' = Append(ids, r.id)
  /\ UNCHANGED <<refMode, role, program, ctx, proof, verdict>>

Dropped == program' = NoProgram /\ ids' = <<>> /\ circuit' = NewCircuit

-----------------------------------------------------------------------------
\* voleith_gf8_prove_commit: nothing is said of the witness yet.
Commit ==
  /\ role = "prover" /\ Built /\ ctx = NoContext
  /\ Admitted(circuit)
  /\ ctx' = [is |-> "committed", ell |-> Ell(circuit), degree |-> QsDegree(circuit),
             fp |-> Fingerprint(circuit)]
  /\ UNCHANGED <<refMode, role, program, ids, circuit, proof, verdict>>

CommitRefused ==
  /\ role = "prover" /\ Built /\ ctx = NoContext
  /\ ~ Admitted(circuit)
  /\ Dropped
  /\ UNCHANGED <<refMode, role, ctx, proof, verdict>>

\* compute_d and qs_prove stop at a witness that does not satisfy; their
\* unchecked variants, which only tests reach, go on.
LetsThrough(vals, checked) == checked => Satisfied(circuit, vals)

\* voleith_gf8_prove_respond
Respond(witness, instance, checked) ==
  /\ role = "prover" /\ Built /\ ctx # NoContext
  /\ LET vals == Vals(circuit, witness, instance)
     IN  /\ LetsThrough(vals, checked)
         /\ proof' = [of |-> program, circuit |-> circuit, vals |-> vals, witness |-> witness,
                      instance |-> instance,
                      fp |-> ctx.fp, ell |-> ctx.ell, degree |-> ctx.degree,
                      d |-> ComputeD(circuit, vals, U),
                      a |-> QsProve(circuit, vals, U, V, Chall, refMode)]
  /\ role' = "verifier" /\ ctx' = NoContext
  /\ Dropped
  /\ UNCHANGED <<refMode, verdict>>

\* It returns -1; the context is freed and the application gives up.
RespondRefused(witness, instance) ==
  /\ role = "prover" /\ Built /\ ctx # NoContext
  /\ ~ LetsThrough(Vals(circuit, witness, instance), TRUE)
  /\ ctx' = NoContext
  /\ Dropped
  /\ UNCHANGED <<refMode, role, proof, verdict>>

-----------------------------------------------------------------------------
Q == [k \in DOMAIN V |-> Plus(V[k], Times(Delta, U[k]))]

\* The circuit is whole, the header names it and the body has its size.
Reconstructs ==
  /\ Admitted(circuit)
  /\ Fingerprint(circuit) = proof.fp
  /\ Ell(circuit) = proof.ell /\ QsDegree(circuit) = proof.degree

\* voleith_gf8_verify_reconstruct
Reconstruct ==
  /\ role = "verifier" /\ Built /\ ctx = NoContext /\ verdict = NoVerdict
  /\ IF Reconstructs
     THEN /\ ctx' = [is |-> "reconstructed", degree |-> QsDegree(circuit)]
          /\ UNCHANGED verdict
     ELSE /\ verdict' = [is |-> "unread"]
          /\ UNCHANGED ctx
  /\ UNCHANGED <<refMode, role, program, ids, circuit, proof>>

\* voleith_gf8_verify_respond, whose chall_1 has absorbed the instance
VerifyRespond(instance) ==
  /\ role = "verifier" /\ ctx # NoContext
  /\ verdict' = [instance |-> instance, is |->
       IF /\ instance = proof.instance
          /\ QsVerify(circuit, instance, Q, proof.d, Delta, Chall, proof.a, refMode) = proof.a[0]
       THEN "accepted" ELSE "refused"]
  /\ ctx' = NoContext
  /\ UNCHANGED <<refMode, role, program, ids, circuit, proof>>

-----------------------------------------------------------------------------
Init ==
  /\ refMode \in BOOLEAN
  /\ role = "prover" /\ program = NoProgram /\ ids = <<>> /\ circuit = NewCircuit
  /\ ctx = NoContext /\ proof = NoProof /\ verdict = NoVerdict

Next ==
  \/ \E p \in DOMAIN Programs : Start(p)
  \/ \E mem \in [1..3 -> BOOLEAN] : Call(mem)
  \/ Commit \/ CommitRefused
  \/ \E w \in Witnesses, x \in Instances, checked \in BOOLEAN : Respond(w, x, checked)
  \/ \E w \in Witnesses, x \in Instances : RespondRefused(w, x)
  \/ Reconstruct
  \/ \E x \in Instances : VerifyRespond(x)

-----------------------------------------------------------------------------
(* What a program says, whatever its circuit is: the product of two words  *)
(* is that of their logarithms, a bit is a word, an index is a number.     *)

PowerOfX(n) == Iterate([a \in Word |-> ShiftWord(a)], {0})[n]
Log(a) == CHOOSE n \in 0..(2 ^ WordBits - 2) : PowerOfX(n) = a
ProductOf(a, b) ==
  IF {} \in {a, b} THEN {} ELSE PowerOfX((Log(a) + Log(b)) % (2 ^ WordBits - 1))

\* The words of the calls, as a function of the call's number.
Meaning(p, witness, instance) ==
  LET Before(n, op) == Cardinality({m \in 1..(n - 1) : p[m].op = op})
      val[n \in 1..Len(p)] ==
        LET a(i) == val[p[n].args[i]]
        IN  CASE p[n].op = "witness"   -> witness[Before(n, "witness")]
              [] p[n].op = "instance"  -> instance[Before(n, "instance")]
              [] p[n].op = "const"     -> p[n].word
              [] p[n].op = "xor"       -> Xor(a(1), a(2))
              [] p[n].op = "xor_const" -> Xor(a(1), p[n].word)
              [] p[n].op = "linear_map" -> ProductOf(a(1), p[n].word)
              [] p[n].op = "square"    -> ProductOf(a(1), a(1))
              [] p[n].op \in {"mul", "scale_instance"} -> ProductOf(a(1), a(2))
              [] p[n].op \in {"mux", "mux_instance"} -> IF a(3) = {0} THEN a(2) ELSE a(1)
              [] OTHER -> {}
  IN  val

\* A number by its bits, the highest first.
Number(bits) ==
  MapThenSumSet(LAMBDA i : IF bits[i] = {} THEN 0 ELSE 2 ^ (Len(bits) - i), 1..Len(bits))

\* Entry (j, g) of the matrix of circulant blocks: the coefficient of x^j in
\* x^l * m_b modulo x^p - 1, for column l of block b.
Entries(x) ==
  LET block(b) == IF b = x.n0 - 1 THEN {0} ELSE x.m[b]
  IN  {e \in (0..(x.p - 1)) \X (0..(x.n0 * x.p - 1)) :
         \E a \in block(e[2] \div x.p) : ((e[2] % x.p) + a) % x.p = e[1]}

\* The assertion that call n of p makes, given the words of the calls.
Says(p, n, val) ==
  LET a == [i \in 1..Len(p[n].args) |-> val[p[n].args[i]]]
      half == Len(a) \div 2
      x == p[n].extra
      index == [k \in 0..(x.t - 1) |->
                  Number(SubSeq(a, k * x.idxBits + 1, (k + 1) * x.idxBits))]
  IN  CASE p[n].op = "assert_zero" -> a[1] = {}
        [] p[n].op = "assert_equal" -> a[1] = a[2]
        [] p[n].op = "assert_product" -> ProductOf(a[1], a[2]) = a[3]
        [] p[n].op = "assert_lt" ->
             Number(SubSeq(a, 1, half)) < Number(SubSeq(a, half + 1, Len(a)))
        [] p[n].op = "assert_syndrome" ->
             \A j \in 0..(x.p - 1) :
               (a[x.t * x.idxBits + j + 1] # {})
                 <=> Odd({k \in 0..(x.t - 1) : <<j, index[k]>> \in Entries(x)})
        [] OTHER -> TRUE

\* The assertions among the first n calls of p hold.
Holds(p, n, witness, instance) ==
  LET val == Meaning(p, witness, instance) IN \A m \in 1..n : Says(p, m, val)

-----------------------------------------------------------------------------
\* Whatever limit or allocation stopped a call half way (a mux without its
\* last wire, an assertion whose pool grew and whose table did not), a
\* circuit that is let through is satisfied by what satisfies its calls.
AcceptedMeansAsked ==
  Running /\ Admitted(circuit) =>
    \A w \in Witnesses, x \in Instances :
      Satisfied(circuit, Vals(circuit, w, x)) <=> Holds(Calls, Len(ids), w, x)

\* Check by check, the verifier's value is the prover's polynomial at Delta,
\* provided that the check's value, whose coefficient is left out, is zero.
ChecksMeet ==
  ctx # NoContext /\ role = "verifier" /\ circuit = proof.circuit
    /\ Satisfied(circuit, proof.vals) =>
    LET keys == CheckKeys(circuit, Keys(circuit, proof.instance, Q, proof.d, Delta),
                          Delta, Chall, refMode)
        checks == Checks(circuit, proof.vals, Tags(circuit, proof.vals, V), Chall, refMode)
    IN  /\ Len(keys) = Len(checks)
        /\ \A n \in 1..Len(checks) :
             keys[n] = Total([i \in DOMAIN checks[n] |-> Times(Power(Delta, i), checks[n][i])],
                             DOMAIN checks[n])

\* A proof is accepted wherever the same calls were made, all of them went
\* through and the instance is the prover's, whatever the degree and in both
\* modes of the syndrome.
Complete ==
  /\ verdict # NoVerdict /\ program = proof.of /\ Admitted(circuit)
  /\ Satisfied(proof.circuit, proof.vals)
  => verdict.is # "unread" /\ (verdict.instance = proof.instance => verdict.is = "accepted")

\* What is accepted holds, even when the prover did not look at its witness:
\* a product, a comparison or a syndrome that is wrong survives no check.
Meaningful ==
  verdict.is = "accepted" =>
    Holds(Calls, Len(Calls), proof.witness, verdict.instance)
=============================================================================
