------------------------------ MODULE QsProof ------------------------------
(***************************************************************************)
(* A statement and its proof, end to end: an application builds a circuit  *)
(* call by call, under a realloc that may fail whenever a table is full,   *)
(* and hands it to voleith_prove; the verifier's application builds its    *)
(* own and hands it to voleith_verify.  Neither looks at the ids that come *)
(* back.  The VOLE correlation (VoleProof!VoleCorrelation) is given:       *)
(* Q = V + Delta * u on every column.                                      *)
(***************************************************************************)
EXTENDS QuickSilver

CONSTANTS Programs,             \* sequences of builder calls
          Witnesses, Instances, \* functions from the numbers of inputs to {0, 1}
          U, V, Delta,          \* the correlation: columns of u and V, the key
          Chall                 \* chall_2, as [r0, r1, s, t]

\* A call: its name, the calls that gave its operands, the constant's bit.
CallNames == Kinds \cup {"assert_zero", "assert_equal"}

\* How many operands a call has.
Arity(op) ==
  CASE op \in {"xor", "and", "assert_equal"} -> 2
    [] op \in {"not", "assert_zero"} -> 1
    [] OTHER -> 0

ASSUME ProgramAssumption ==
  \A p \in Programs :
    /\ Len(p) <= InvalidId
    /\ p \in Seq([op : CallNames, x : Nat, y : Nat, bit : {0, 1}])
    /\ \A n \in 1..Len(p) :
         /\ IF Arity(p[n].op) >= 1 THEN p[n].x \in 1..(n - 1) ELSE p[n].x = 0
         /\ IF Arity(p[n].op) = 2 THEN p[n].y \in 1..(n - 1) ELSE p[n].y = 0
         /\ p[n].op # "const" => p[n].bit = 0

\* The inputs and the columns suffice for every program.
ASSUME InputAssumption ==
  \A p \in Programs :
    /\ \A x \in Witnesses \cup Instances : \A k \in 0..(Len(p) - 1) : x[k] \in {0, 1}
    /\ \A k \in 0..(Len(p) + 2 * Lambda - 1) : k \in DOMAIN V /\ U[k] \in Elem /\ V[k] \in Elem

ASSUME ChallengeAssumption ==
  /\ Delta \in Elem /\ Alpha \in Elem
  /\ Chall \in [r0 : Elem, r1 : Elem, s : Elem, t : Elem]

VARIABLES
  role,     \* whose application runs: "prover", then "verifier"
  program,  \* the calls it makes, or NoProgram before it starts
  ids,      \* the wire ids its calls returned
  circuit,  \* voleith_circuit_t
  proof,    \* what was released, and from what; or NoProof
  verdict   \* what voleith_verify returned, and for which instance; or NoVerdict

vars == <<role, program, ids, circuit, proof, verdict>>

NoProgram == <<>>
NoProof == [of |-> NoProgram]
NoVerdict == [is |-> "none"]

Running == program # NoProgram
Built == Running /\ Len(ids) = Len(program)

-----------------------------------------------------------------------------
(* The builder calls.  One that returns nothing yields InvalidId.          *)

Arg(s, i) == IF i = 0 THEN InvalidId ELSE s[i]

\* One call on circuit c after calls that returned s.
Perform(c, s, call, memW, memC) ==
  CASE call.op \in Kinds ->
         AppendWire(c, Entry(call.op, Arg(s, call.x), Arg(s, call.y), call.bit), memW)
    [] call.op = "assert_zero" ->
         [c |-> AppendConstraint(c, Arg(s, call.x), memC), id |-> InvalidId]
    [] call.op = "assert_equal" ->
         AssertEqual(c, Arg(s, call.x), Arg(s, call.y), memW, memC)

\* The application starts over with voleith_circuit_new.
Start(p) ==
  /\ ~ Running
  /\ program' = p /\ ids' = <<>> /\ circuit' = NewCircuit
  /\ UNCHANGED <<role, proof, verdict>>

Call(memW, memC) ==
  /\ Running /\ ~ Built
  /\ LET r == Perform(circuit, ids, program[Len(ids) + 1], memW, memC)
     IN  circuit' = r.c /\ ids' = Append(ids, r.id)
  /\ UNCHANGED <<role, program, proof, verdict>>

-----------------------------------------------------------------------------
\* voleith_prove: the circuit was built whole, is valid and is satisfied.
Prove(witness, instance) ==
  /\ role = "prover" /\ Built
  /\ Admitted(circuit)
  /\ LET bits == Bits(circuit, witness, instance)
     IN  /\ Satisfied(circuit, bits)
         /\ proof' = [of |-> program, circuit |-> circuit, bits |-> bits,
                      witness |-> witness, instance |-> instance,
                      fp |-> Fingerprint(circuit), d |-> ComputeD(circuit, bits, U),
                      a |-> QsProve(circuit, bits, U, V, Chall)]
  /\ role' = "verifier" /\ program' = NoProgram /\ ids' = <<>> /\ circuit' = NewCircuit
  /\ UNCHANGED verdict

\* It returns -1, and the application drops its circuit.
ProveRefused(witness, instance) ==
  /\ role = "prover" /\ Built
  /\ Admitted(circuit) => ~ Satisfied(circuit, Bits(circuit, witness, instance))
  /\ program' = NoProgram /\ ids' = <<>> /\ circuit' = NewCircuit
  /\ UNCHANGED <<role, proof, verdict>>

Q == [k \in DOMAIN V |-> Plus(V[k], Times(Delta, U[k]))]

\* Past the header: the same circuit, and (chall_1) the same instance.
Compared(instance) ==
  Admitted(circuit) /\ Fingerprint(circuit) = proof.fp /\ instance = proof.instance

\* voleith_verify: a0 is recomputed and hashed with the prover's a1 and a2.
Verify(instance) ==
  /\ role = "verifier" /\ Built /\ verdict = NoVerdict
  /\ verdict' = [instance |-> instance, is |->
       IF /\ Compared(instance)
          /\ QsVerify(circuit, instance, Q, proof.d, Delta, Chall, proof.a[1], proof.a[2])
               = proof.a[0]
       THEN "accepted" ELSE "refused"]
  /\ UNCHANGED <<role, program, ids, circuit, proof>>

-----------------------------------------------------------------------------
Init ==
  /\ role = "prover" /\ program = NoProgram /\ ids = <<>> /\ circuit = NewCircuit
  /\ proof = NoProof /\ verdict = NoVerdict

Next ==
  \/ \E p \in Programs : Start(p)
  \/ \E memW, memC \in BOOLEAN : Call(memW, memC)
  \/ \E w \in Witnesses, x \in Instances : Prove(w, x)
  \/ \E w \in Witnesses, x \in Instances : ProveRefused(w, x)
  \/ \E x \in Instances : Verify(x)

Spec == Init /\ [][Next]_vars

-----------------------------------------------------------------------------
(* What a program says, whatever its circuit is.                           *)

\* The calls of a kind before call n.
CallsBefore(p, n, op) == Cardinality({m \in 1..(n - 1) : p[m].op = op})

\* Value of call n, by the meaning of its name, given those of the calls
\* before it; inputs are numbered in the order of the calls.
CallBit(p, witness, instance, val, n) ==
  CASE p[n].op = "witness"  -> witness[CallsBefore(p, n, "witness")]
    [] p[n].op = "instance" -> instance[CallsBefore(p, n, "instance")]
    [] p[n].op = "const"    -> p[n].bit
    [] p[n].op = "xor"      -> IF val[p[n].x] = val[p[n].y] THEN 0 ELSE 1
    [] p[n].op = "and"      -> IF {val[p[n].x], val[p[n].y]} = {1} THEN 1 ELSE 0
    [] p[n].op = "not"      -> IF val[p[n].x] = 0 THEN 1 ELSE 0
    [] OTHER -> 0

Values(p, witness, instance) ==
  LET val[n \in 1..Len(p)] == CallBit(p, witness, instance, val, n) IN val

\* The assertions among the first n calls hold.
Holds(p, n, witness, instance) ==
  LET val == Values(p, witness, instance)
  IN  \A m \in 1..n : /\ p[m].op = "assert_zero" => val[p[m].x] = 0
                      /\ p[m].op = "assert_equal" => val[p[m].x] = val[p[m].y]

\* The counters are those of the table, the tables fit what was allocated,
\* and a wire id is the number of a wire.
TypeOK ==
  /\ circuit.nWitness = Nth(circuit, "witness", Len(circuit.wires))
  /\ circuit.nInstance = Nth(circuit, "instance", Len(circuit.wires))
  /\ circuit.nAnd = Nth(circuit, "and", Len(circuit.wires))
  /\ Len(circuit.wires) <= circuit.capW /\ Len(circuit.cons) <= circuit.capC
  /\ \A n \in 1..Len(ids) : ids[n] = InvalidId \/ ids[n] < Len(circuit.wires)
  /\ role \in {"prover", "verifier"} /\ verdict.is \in {"none", "accepted", "refused"}

\* Whatever allocation failed between two calls (a wire that is dropped, and
\* with it the numbering of the later inputs; a constraint; half of an
\* assert_equal), a circuit that is let through says what the calls said.
AcceptedMeansAsked ==
  Running /\ Admitted(circuit) =>
    \A w \in Witnesses, x \in Instances :
      Satisfied(circuit, Bits(circuit, w, x)) <=> Holds(program, Len(ids), w, x)

\* Circuits that agree in fingerprint agree in every gate, though operands
\* that are not there and operand 0 are hashed alike.
FingerprintBinds ==
  role = "verifier" /\ Admitted(circuit) /\ Fingerprint(circuit) = proof.fp =>
    circuit.wires = proof.circuit.wires /\ circuit.cons = proof.circuit.cons

\* On every wire the verifier's key is the prover's tag plus Delta times the
\* wire's bit, though one numbers the slots of inputs and AND gates from the
\* witness and the other from the proof.
KeyRelation ==
  verdict # NoVerdict /\ Compared(proof.instance) =>
    LET keys == Keys(circuit, proof.instance, Q, proof.d, Delta)
        tags == Tags(proof.circuit, V)
    IN  \A i \in 1..Len(circuit.wires) :
          keys[i] = Plus(tags[i], Times(Delta, BitElem(proof.bits[i])))

\* A proof is accepted wherever the same calls were made, all of them went
\* through, and the instance is the prover's: the two sides walk the table
\* separately and meet in every check, every slot and every mask block.
Complete ==
  /\ verdict # NoVerdict /\ verdict.instance = proof.instance
  /\ program = proof.of /\ Admitted(circuit)
  => verdict.is = "accepted"

\* What is accepted holds: the witness of an honest prover satisfies every
\* assertion the verifier's application made, though each side may have
\* lost wires or constraints on the way.
Meaningful ==
  verdict.is = "accepted" =>
    Holds(program, Len(program), proof.witness, verdict.instance)
=============================================================================
