------------------------------ MODULE Bristol ------------------------------
(***************************************************************************)
(* The parser of Bristol Fashion circuits (parsers/bristol.c): a header of *)
(* three lines, then one line per gate.  Wires of the file are numbered by *)
(* their use, those of the circuit by their place; slots maps one to the   *)
(* other.                                                                  *)
(*                                                                         *)
(* A line of the file is the integers it starts with and, after them, a    *)
(* word ("" for none, or none that fits).                                  *)
(***************************************************************************)
EXTENDS Circuit, SequencesExt

CONSTANTS Files,     \* [counts, roles, inputs, outputs, gates]: what may be parsed
          SizeMax    \* UINT32_MAX

VARIABLES file, verdict,   \* verdict: "new", "parsing", "accepted" or the error
          netlist,         \* the circuit under construction
          slots,           \* for each wire of the file, the wire of the circuit
          line,            \* the gate line that is next
          delivered        \* what the caller gets: [circuit, inputs, outputs]

bristolVars == <<file, verdict, netlist, slots, line, delivered>>

Undelivered == [circuit |-> NewCircuit, inputs |-> <<>>, outputs |-> <<>>]
BristolInit ==
  /\ file \in Files /\ verdict = "new" /\ netlist = NewCircuit /\ slots = <<>>
  /\ line = 1 /\ delivered = Undelivered

\* The first of two checks that fails gives the error.
e ?? f == IF e # "none" THEN e ELSE f
Err(cond, code) == IF cond THEN code ELSE "none"

Quit(code) ==
  /\ verdict' = code /\ netlist' = NewCircuit /\ slots' = <<>> /\ UNCHANGED <<file, line, delivered>>

-----------------------------------------------------------------------------
(* The header.  Sums of sizes are kept within SizeMax.                     *)

GatesDeclared == file.counts[1]
WiresDeclared == file.counts[2]
Sizes(values) == SubSeq(values, 2, values[1] + 1)
Total(values) == FoldLeft(LAMBDA s, bits : s + bits, 0, Sizes(values))

CountsError ==
  Err(Len(file.counts) < 2, "HEADER") ?? Err(Len(file.counts) > 2, "OLD_FORMAT")

\* A count and as many sizes; mem: the array of the sizes is there.
SizesError(values, mem) ==
  Err(values[1] > 0 /\ ~ mem, "ALLOC") ?? Err(Len(values) - 1 < values[1], "HEADER")
    ?? Err(Total(values) > SizeMax, "HEADER")
InputsError(mem) ==
  Err(file.inputs = <<>>, "HEADER")
    ?? Err(file.inputs[1] > 0 /\ Len(file.inputs) = 1, "OLD_FORMAT")
    ?? Err(file.inputs[1] # Len(file.roles), "ROLE_MISMATCH") ?? SizesError(file.inputs, mem)
OutputsError(mem) == Err(file.outputs = <<>>, "HEADER") ?? SizesError(file.outputs, mem)

\* Whose wire b (from 1) of the inputs is.
RoleOf(b) ==
  LET upto(i) == Total(<<i>> \o SubSeq(Sizes(file.inputs), 1, i))
  IN  file.roles[CHOOSE i \in 1..Len(file.roles) : upto(i - 1) < b /\ b <= upto(i)]

\* Inputs take the first slots; short names the allocation that fails.
ParseHeader ==
  /\ verdict = "new"
  /\ \E short \in {"none", "inputs", "outputs", "circuit", "wires"} :
       LET code == CountsError ?? InputsError(short # "inputs") ?? OutputsError(short # "outputs")
                     ?? Err(\/ Total(file.inputs) > WiresDeclared
                            \/ Total(file.outputs) > WiresDeclared, "HEADER")
                     ?? Err(short = "circuit", "ALLOC")
           AddInput(c, b) == AppendWire(c, Entry(RoleOf(b), InvalidId, InvalidId, 0),
                                        short # "wires").c
           c == FoldLeft(AddInput, NewCircuit, [b \in 1..Total(file.inputs) |-> b])
       IN  IF code # "none" THEN Quit(code)
           ELSE IF ~ c.ok THEN Quit("ALLOC")
           ELSE /\ verdict' = "parsing" /\ netlist' = c
                /\ slots' = [w \in 1..WiresDeclared |->
                               IF w <= Total(file.inputs) THEN w - 1 ELSE InvalidId]
                /\ UNCHANGED <<file, line, delivered>>

-----------------------------------------------------------------------------
(* Gates.  The order is that of the lines, not of the wires' numbers.      *)

Reading == verdict = "parsing" /\ line <= GatesDeclared
Fields == IF line > Len(file.gates) THEN <<>> ELSE file.gates[line].ints
Arity == Fields[1]
Operand(i) == Fields[2 + i]
Target == Fields[3 + Arity]
Name == IF Len(Fields) > 3 + Arity THEN "number" ELSE file.gates[line].word

Defined(w) == w < WiresDeclared /\ slots[w + 1] # InvalidId
TakesOne == {"INV", "EQ", "EQW"}
TakesTwo == {"XOR", "AND"}

\* The wire is assigned before the name of the gate is looked at.  The operand
\* of EQ is a bit, not a wire.
GateError ==
  Err(Len(Fields) < 2, "GATE_SYNTAX") ?? Err(Arity \notin {1, 2} \/ Fields[2] # 1, "GATE_SYNTAX")
    ?? Err(Len(Fields) < 3 + Arity, "GATE_SYNTAX") ?? Err(Name = "", "GATE_SYNTAX")
    ?? Err(Target >= WiresDeclared, "WIRE_ORDER") ?? Err(Defined(Target), "WIRE_REDEF")
    ?? Err(Name \notin TakesOne \cup TakesTwo, "UNKNOWN_GATE")
    ?? Err(Arity # (IF Name \in TakesTwo THEN 2 ELSE 1), "GATE_SYNTAX")
    ?? (IF Name = "EQ" THEN Err(Operand(1) > 1, "GATE_SYNTAX")
        ELSE Err(\E i \in 1..Arity : ~ Defined(Operand(i)), "WIRE_ORDER"))

Assign(c, id) ==
  /\ netlist' = c /\ slots' = [slots EXCEPT ![Target + 1] = id] /\ line' = line + 1
  /\ UNCHANGED <<file, verdict, delivered>>

RefuseGate == Reading /\ GateError # "none" /\ Quit(GateError)

Add(e) ==
  \E mem \in BOOLEAN :
    LET w == AppendWire(netlist, e, mem)
    IN  IF w.id = InvalidId THEN Quit("ALLOC") ELSE Assign(w.c, w.id)

Slot(i) == slots[Operand(i) + 1]
Reads(names) == Reading /\ GateError = "none" /\ Name \in names

AddXor == Reads({"XOR"}) /\ Add(Entry("xor", Slot(1), Slot(2), 0))
AddAnd == Reads({"AND"}) /\ Add(Entry("and", Slot(1), Slot(2), 0))
AddNot == Reads({"INV"}) /\ Add(Entry("not", Slot(1), InvalidId, 0))
AddConst == Reads({"EQ"}) /\ Add(Entry("const", InvalidId, InvalidId, Operand(1)))

\* Mutant of Alias: the name is given to the wire made last.
AliasOfLast == Reads({"EQW"}) /\ Assign(netlist, Len(netlist.wires) - 1)

\* A second name of a wire; no gate.
Alias == Reads({"EQW"}) /\ Assign(netlist, Slot(1))

\* Inputs are the first slots, outputs the last.  Lines past the count are not read.
Deliver ==
  /\ verdict = "parsing" /\ line > GatesDeclared
  /\ \E mem \in BOOLEAN :
       LET ins == Total(file.inputs)
           outs == Total(file.outputs)
           code == Err(InvalidId \in Range(slots), "WIRE_COUNT")
                     ?? Err(ins + outs > 0 /\ ~ mem, "ALLOC")
       IN  IF code # "none" THEN Quit(code)
           ELSE /\ verdict' = "accepted"
                /\ delivered' = [circuit |-> netlist, inputs |-> SubSeq(slots, 1, ins),
                                 outputs |-> SubSeq(slots, WiresDeclared - outs + 1, WiresDeclared)]
                /\ UNCHANGED <<file, netlist, slots, line>>

BristolStep ==
  \/ ParseHeader \/ RefuseGate \/ AddXor \/ AddAnd \/ AddNot \/ AddConst \/ Alias \/ Deliver
=============================================================================
