------------------------------ MODULE Circuit ------------------------------
(***************************************************************************)
(* The Boolean circuit builder (proof/circuit.c) and the fingerprint of a  *)
(* circuit (proof/circuit_fingerprint.c).  A circuit is a table of wires   *)
(* and a table of constraints that double when they are full; a table that *)
(* cannot grow drops the entry, hands out WIRE_ID_INVALID and says so only *)
(* in alloc_ok.                                                            *)
(***************************************************************************)
EXTENDS Loops, Integers, Sequences, FiniteSets

CONSTANTS InitialWires,         \* INITIAL_WIRE_CAP
          InitialConstraints,   \* INITIAL_CONSTRAINT_CAP
          InvalidId             \* WIRE_ID_INVALID, larger than any wire id

ASSUME CircuitAssumption ==
  /\ InitialWires \in Nat \ {0} /\ InitialConstraints \in Nat \ {0}
  /\ InvalidId \in Nat

Kinds == {"witness", "instance", "const", "xor", "and", "not"}

WireEntries == [kind : Kinds, a : Nat, b : Nat, bit : {0, 1}]

Entry(kind, a, b, bit) == [kind |-> kind, a |-> a, b |-> b, bit |-> bit]

NewCircuit ==
  [wires |-> <<>>, cons |-> <<>>, capW |-> InitialWires, capC |-> InitialConstraints,
   nWitness |-> 0, nInstance |-> 0, nAnd |-> 0, ok |-> TRUE]

-----------------------------------------------------------------------------
(* Appending.  mem tells whether a realloc would succeed.                  *)

FullW(c) == Len(c.wires) = c.capW
FullC(c) == Len(c.cons) = c.capC

\* The counter of the add_* function that appended entry e.
Counted(n, kind, e) == IF e.kind = kind THEN n + 1 ELSE n

Pushed(c, e) ==
  [wires |-> Append(c.wires, e), cons |-> c.cons,
   capW |-> IF FullW(c) THEN 2 * c.capW ELSE c.capW, capC |-> c.capC,
   nWitness |-> Counted(c.nWitness, "witness", e),
   nInstance |-> Counted(c.nInstance, "instance", e),
   nAnd |-> Counted(c.nAnd, "and", e), ok |-> c.ok]

\* Mutant of AppendWire: leaves it to the caller to notice the id.
AppendWireTrustsId(c, e, mem) ==
  IF FullW(c) /\ ~ mem THEN [c |-> c, id |-> InvalidId]
  ELSE [c |-> Pushed(c, e), id |-> Len(c.wires)]

\* append_wire and its caller
AppendWire(c, e, mem) ==
  IF FullW(c) /\ ~ mem THEN [c |-> [c EXCEPT !.ok = FALSE], id |-> InvalidId]
  ELSE [c |-> Pushed(c, e), id |-> Len(c.wires)]

Constrained(c, w) ==
  [wires |-> c.wires, cons |-> Append(c.cons, w),
   capW |-> c.capW, capC |-> IF FullC(c) THEN 2 * c.capC ELSE c.capC,
   nWitness |-> c.nWitness, nInstance |-> c.nInstance, nAnd |-> c.nAnd, ok |-> c.ok]

\* Mutant of AppendConstraint: a constraint is dropped without a trace.
AppendConstraintSilently(c, w, mem) ==
  IF FullC(c) /\ ~ mem THEN c ELSE Constrained(c, w)

\* Every constraint is "wire w is zero".
AppendConstraint(c, w, mem) ==
  IF FullC(c) /\ ~ mem THEN [c EXCEPT !.ok = FALSE] ELSE Constrained(c, w)

\* assert_equal: the XOR may fail and the constraint may fail.
AssertEqual(c, a, b, memW, memC) ==
  LET xw == AppendWire(c, Entry("xor", a, b, 0), memW)
  IN  [c |-> AppendConstraint(xw.c, xw.id, memC), id |-> InvalidId]

-----------------------------------------------------------------------------
(* voleith_circuit_validate: operands precede their gate.                  *)

Operands(e) ==
  CASE e.kind \in {"xor", "and"} -> {e.a, e.b}
    [] e.kind = "not" -> {e.a}
    [] OTHER -> {}

Valid(c) ==
  /\ \A i \in 1..Len(c.wires) : \A x \in Operands(c.wires[i]) : x < i - 1
  /\ \A n \in 1..Len(c.cons) : c.cons[n] < Len(c.wires)

\* What the entry points of prove and verify let through.
Admitted(c) == c.ok /\ Valid(c)

-----------------------------------------------------------------------------
(* Evaluation, in the order of the table.                                  *)

\* How many wires of a kind come before wire w.
Nth(c, kind, w) == Cardinality({v \in 0..(w - 1) : c.wires[v + 1].kind = kind})

\* The bit of wire w, given those before it; wire w is element w + 1.
WireBit(c, witness, instance, s, w) ==
  LET e == c.wires[w + 1]
  IN  CASE e.kind = "witness"  -> witness[Nth(c, "witness", w)]
        [] e.kind = "instance" -> instance[Nth(c, "instance", w)]
        [] e.kind = "const"    -> e.bit
        [] e.kind = "xor"      -> (s[e.a + 1] + s[e.b + 1]) % 2
        [] e.kind = "and"      -> s[e.a + 1] * s[e.b + 1]
        [] e.kind = "not"      -> 1 - s[e.a + 1]

EvalStep(c, witness, instance) ==
  [s \in Seq({0, 1}) |-> Append(s, WireBit(c, witness, instance, s, Len(s)))]

\* voleith_circuit_eval of a valid circuit
Bits(c, witness, instance) ==
  Iterate(EvalStep(c, witness, instance), <<>>)[Len(c.wires)]

\* voleith_circuit_check_constraints
Satisfied(c, bits) == \A n \in 1..Len(c.cons) : bits[c.cons[n] + 1] = 0

-----------------------------------------------------------------------------
(* The fingerprint hashes the counts and both tables, operands normalized. *)

Normalized(x) == IF x = InvalidId THEN 0 ELSE x

\* Mutant of Fingerprint: the constant's bit is left out.
FingerprintWithoutBit(c) ==
  <<Len(c.wires), c.nWitness, c.nInstance, c.nAnd, Len(c.cons),
    [i \in 1..Len(c.wires) |->
       <<c.wires[i].kind, Normalized(c.wires[i].a), Normalized(c.wires[i].b)>>],
    [n \in 1..Len(c.cons) |-> Normalized(c.cons[n])]>>

Fingerprint(c) ==
  <<Len(c.wires), c.nWitness, c.nInstance, c.nAnd, Len(c.cons),
    [i \in 1..Len(c.wires) |->
       <<c.wires[i].kind, Normalized(c.wires[i].a), Normalized(c.wires[i].b), c.wires[i].bit>>],
    [n \in 1..Len(c.cons) |-> Normalized(c.cons[n])]>>
=============================================================================
