----------------------------- MODULE ShipShape -----------------------------
(***************************************************************************)
(* The parser of Shipshape programs (parsers/shipshape.c): one pass over   *)
(* the lines of a text that lowers each statement into a circuit over      *)
(* words, inlines the subcircuits it calls and stops at the first error.   *)
(*                                                                         *)
(* A line comes as its words, which the header reads, and as its tokens,   *)
(* which the body reads; how characters make them is left out.  Where the  *)
(* scanner refuses a character there is a token of kind "refused" that     *)
(* names its error.  Any allocation may fail.                              *)
(***************************************************************************)
EXTENDS ShipRegistry

CONSTANTS Texts,                    \* what the parser may be given
          MaxVectorLen, MaxInlineDepth, MaxBlocks,   \* VOLEITH_SHIPSHAPE_MAX_*
          ByteCeiling, LineCeiling, WireCeiling, GateCeiling,   \* ... of limits
          LeafMax,                  \* MERKLE_VT_LEAF_DATA_MAX_BYTES
          MaxMinor, ScaleMinor      \* SS_FORMAT_MAX_MINOR, SS_MINOR_SCALE_INSTANCE

VARIABLES text,       \* the request: [given, from, io, bytes, limits, lines]
          result,     \* "new", "read", "parsing", "accepted" or the error
          version,    \* what the header declares: [minor, stdlib]
          circuit,
          defs,       \* subcircuits: [name, params, outs, first, last]
          regions,    \* of each call: [name, hash, params, first, count, inputs]
          frames,     \* the file and the bodies being inlined in it, the innermost last
          selectors,  \* history: the wires that have selected in a MUX
          parsed      \* what the caller gets: [circuit, decls, regions]

shipVars == <<text, result, version, circuit, defs, regions, frames, selectors, parsed>>

NoVersion == [minor |-> 0, stdlib |-> 0]
Nothing == [circuit |-> NewCircuit, decls |-> <<>>, regions |-> <<>>]
TopLevel == [def |-> 0, region |-> 0, outs |-> <<>>]

ShipInit ==
  /\ text \in Texts
  /\ result = "new" /\ version = NoVersion /\ circuit = NewCircuit /\ defs = <<>>
  /\ regions = <<>> /\ frames = <<>> /\ selectors = {} /\ parsed = Nothing

-----------------------------------------------------------------------------
\* The first of the checks that fails gives the error.
e ?? f == IF e # "none" THEN e ELSE f
Err(cond, code) == IF cond THEN code ELSE "none"
FirstOf(es) == FoldLeft(LAMBDA e, f : e ?? f, "none", es)

\* Nothing of a refused text is kept.
Stop(code) ==
  /\ result' = code /\ version' = NoVersion /\ circuit' = NewCircuit /\ defs' = <<>>
  /\ regions' = <<>> /\ frames' = <<>> /\ selectors' = {} /\ UNCHANGED <<text, parsed>>

ClampLimit(asked, ceiling) == IF asked = 0 \/ asked > ceiling THEN ceiling ELSE asked

\* stray: the place of the first character outside the character set, 0 if none is
LineError(l) ==
  LET cap == ClampLimit(text.limits.line, LineCeiling)
  IN  IF l.stray \in 1..(cap + 1) THEN "CHARSET" ELSE Err(l.bytes > cap, "LINE_TOO_LONG")

-----------------------------------------------------------------------------
(* The header: three lines of words, with blank lines anywhere.  The parts *)
(* of a word are what its first dot separates, each a number or Malformed. *)

Malformed == -1
ContentFrom(i) ==
  Min({Len(text.lines) + 1}
        \cup {j \in i..Len(text.lines) : LineError(text.lines[j]) # "none" \/ text.lines[j].words # <<>>})
MissingOrRefused(i) ==
  IF i > Len(text.lines) THEN "HEADER" ELSE LineError(text.lines[i])
Spelling(i) == [k \in 1..Len(text.lines[i].words) |-> text.lines[i].words[k].spell]

VersionLine == ContentFrom(1)
FieldLine == ContentFrom(VersionLine + 1)
StdlibLine == ContentFrom(FieldLine + 1)

Minor(parts) == IF Len(parts) = 1 THEN 0 ELSE parts[2]
VersionError ==
  LET words == text.lines[VersionLine].words
  IN  Err(words[1].spell # ".shipshape" \/ Len(words) # 2, "HEADER")
        ?? Err(Malformed \in Range(words[2].parts) \/ words[2].parts[1] # 1
                 \/ Minor(words[2].parts) > MaxMinor, "HEADER")
MatchHeaderLine(i, expect) == Err(Spelling(i) # expect, "HEADER")
StdlibOf == [v \in 1..2 |-> <<"stdlib", IF v = 1 THEN "crypto-v1" ELSE "crypto-v2">>]

HeaderError ==
  MissingOrRefused(VersionLine) ?? VersionError
    ?? MissingOrRefused(FieldLine)
    ?? MatchHeaderLine(FieldLine, <<"field", "GF(2^8)", "irreducible", "0x11B">>)
    ?? MissingOrRefused(StdlibLine) ?? Err(Spelling(StdlibLine) \notin Range(StdlibOf), "HEADER")

TooBig == Err(text.bytes > ClampLimit(text.limits.bytes, ByteCeiling), "FILE_TOO_BIG")

\* voleith_shipshape_parse_file: the whole file is read before it is parsed.
ParseFile ==
  /\ result = "new" /\ text.from = "file"
  /\ LET opened == Err(text.given # "all", "NULL_ARG") ?? Err(text.io = "open", "IO") ?? TooBig
         code == opened ?? Err(text.io = "read" /\ text.bytes > 0, "IO")
     IN  \/ opened = "none" /\ Stop("ALLOC")
         \/ code # "none" /\ Stop(code)
         \/ /\ code = "none" /\ result' = "read"
            /\ UNCHANGED <<text, version, circuit, defs, regions, frames, selectors, parsed>>

\* voleith_shipshape_parse_buffer up to the first line of the body
ParseBuffer ==
  /\ \/ result = "new" /\ text.from = "buffer"
     \/ result = "read"
  /\ LET request == Err(text.given # "all", "NULL_ARG") ?? Err(text.bytes = 0, "EMPTY") ?? TooBig
         code == request ?? HeaderError
     IN  \/ request = "none" /\ Stop("ALLOC")
         \/ code # "none" /\ Stop(code)
         \/ /\ code = "none" /\ result' = "parsing"
            /\ version' = [minor |-> Minor(text.lines[VersionLine].words[2].parts),
                           stdlib |-> CHOOSE v \in 1..2 : StdlibOf[v] = Spelling(StdlibLine)]
            /\ circuit' = SetLimits(NewCircuit, ClampLimit(text.limits.wires, WireCeiling),
                                    ClampLimit(text.limits.gates, GateCeiling))
            /\ frames' = <<[next |-> StdlibLine + 1, last |-> Len(text.lines), syms |-> <<>>,
                            call |-> TopLevel]>>
            /\ UNCHANGED <<text, defs, regions, selectors, parsed>>

-----------------------------------------------------------------------------
(* The current line and its scope.                                         *)

Frame == Last(frames)
InBody == Len(frames) > 1
AtEnd == Frame.next > Frame.last
Line == text.lines[Frame.next]

Eol == [kind |-> "EOL", name |-> "", space |-> "", word |-> {}, int |-> 0]
TokenOf(l, k) == IF k > Len(l.tokens) THEN Eol ELSE l.tokens[k]
HeadError(l) ==
  LineError(l) ?? Err(TokenOf(l, 1).kind = "refused", TokenOf(l, 1).name)

Opening == TokenOf(Line, 1)
Statement == result = "parsing" /\ ~ AtEnd /\ HeadError(Line) = "none"
Reading(op) == Statement /\ Opening.kind = "WORD" /\ Opening.name = op

Symbol(name, wires, type, decl) ==
  [name |-> name, wires |-> wires, vector |-> type.vector, bit |-> type.bit, decl |-> decl]
ScalarType(bit) == [bit |-> bit, vector |-> FALSE, length |-> 1]

Named(name) == {i \in DOMAIN Frame.syms : Frame.syms[i].name = name}
SymOf(name) == Frame.syms[Min(Named(name))]

-----------------------------------------------------------------------------
(* A line is parsed from its second token on with one token of lookahead:  *)
(* p.at is the token that is looked at, p.err the first error, p.wrong the *)
(* error of a token of another kind, p.grew whether memory was asked for.  *)
(* The rest is what has been read and made so far.                         *)

Tok(p) == TokenOf(Line, p.at)
Check(p, cond, code) == IF p.err = "none" /\ ~ cond THEN [p EXCEPT !.err = code] ELSE p
Looked(p) == Check(p, Tok(p).kind # "refused", Tok(p).name)
Start(wrong) ==
  Looked([at |-> 2, err |-> "none", wrong |-> wrong, grew |-> FALSE, tok |-> Eol,
          type |-> ScalarType(FALSE), sym |-> Symbol("", <<>>, ScalarType(FALSE), "none"),
          wires |-> <<>>, args |-> <<>>, list |-> <<>>, c |-> circuit, id |-> InvalidId,
          syms |-> <<>>, chosen |-> {}])

Advance(p) == IF p.err # "none" THEN p ELSE Looked([p EXCEPT !.at = @ + 1])
Expect(p, kind) == Check(p, Tok(p).kind = kind, p.wrong)
Take(p, kind) == Advance([Expect(p, kind) EXCEPT !.tok = Tok(p)])
End(p) == Expect(p, "EOL")
Grow(p) == [p EXCEPT !.grew = @ \/ p.err = "none"]

\* An item and, after every separator, one more.
List(p, separator, Item(_)) ==
  Over(LAMBDA q, t : IF Tok(q).kind = separator THEN Item(Advance(q)) ELSE q, Item(p), Line.tokens)

\* A length in brackets makes a vector.
Sized(p) == [p EXCEPT !.type.vector = TRUE, !.type.length = p.tok.int]
Length(p) ==
  IF Tok(p).kind # "LBRACKET" THEN p ELSE Take(Sized(Take(Advance(p), "INT")), "RBRACKET")
Type(p) ==
  LET known == Check(p, Tok(p).kind = "WORD" /\ Tok(p).name \in {"byte", "bit"}, "TYPE")
  IN  Length(Advance([known EXCEPT !.type = ScalarType(Tok(p).name = "bit")]))

\* The wires of a name, or of one element of a vector, come after those of p.
Found(p) == Check(p, Named(p.tok.name) # {}, "UNDEF")
Resolved(p) == IF p.err # "none" THEN p ELSE [p EXCEPT !.sym = SymOf(p.tok.name)]
Entire(p) == IF p.err # "none" THEN p ELSE [p EXCEPT !.wires = @ \o p.sym.wires]
Inside(p) == Check(p, p.tok.int < Len(p.sym.wires), "TYPE")
Element(p) ==
  IF p.err # "none" THEN p ELSE [p EXCEPT !.wires = Append(@, p.sym.wires[p.tok.int + 1])]
Indexed(p) ==
  Take(Element(Inside(Take(Advance(Check(p, p.sym.vector, "TYPE")), "INT"))), "RBRACKET")
Chosen(p) == IF Tok(p).kind = "LBRACKET" THEN Indexed(p) ELSE Entire(p)
Reference(p) == Chosen(Resolved(Found(Take(p, "WIRE"))))

\* One wire: a vector has an index.
ScalarSince(p, start) == Check(p, p.at - start > 1 \/ ~ p.sym.vector, "TYPE")
Operand(p) == ScalarSince(Reference([p EXCEPT !.wires = <<>>]), p.at)
Wire(p) == p.wires[1]

GateCount(c) == Len(c.wires) - c.nWitness - c.nInstance - c.nConst
BudgetWires(p, n) == Check(p, n <= p.c.wireCap - Len(p.c.wires), "LIMIT")
Budget(p, wires, gates) ==
  Check(BudgetWires(p, wires), gates <= p.c.gateCap - GateCount(p.c), "LIMIT")

\* w: a circuit with the wire it has got
Emitted(p, w) == IF p.err # "none" THEN p ELSE [p EXCEPT !.c = w.c, !.id = w.id, !.grew = TRUE]
Asserted(p, c) == IF p.err # "none" THEN p ELSE [p EXCEPT !.c = c, !.grew = TRUE]

OutName(p) == Take(Take(p, "ARROW"), "WIRE")
Fresh(p, name) == Check(p, Named(name) = {}, "REDEF")
Bound(p, sym) == IF p.err # "none" THEN p ELSE Grow([p EXCEPT !.syms = Append(@, sym)])
BoundScalar(p, name, wire, bit) == Bound(p, Symbol(name, <<wire>>, ScalarType(bit), "none"))
Bind(p) ==
  LET w == OutName(p) IN BoundScalar(Fresh(End(w), w.tok.name), w.tok.name, p.id, FALSE)

\* A statement is refused, fails for want of memory, or gives what p says.
Refuse(p) == (p.grew /\ Stop("ALLOC")) \/ (p.err # "none" /\ Stop(p.err))
Conclude(statement) ==
  \E p \in {statement} :
    \/ Refuse(p)
    \/ /\ p.err = "none" /\ circuit' = p.c
       /\ frames' = Append(Front(frames), [Frame EXCEPT !.next = @ + 1, !.syms = @ \o p.syms])
       /\ selectors' = selectors \cup p.chosen
       /\ UNCHANGED <<text, result, version, defs, regions, parsed>>

BlankLine == Statement /\ Opening.kind = "EOL" /\ Conclude(Start("GATE"))

\* The line or its first token.
RefusedLine ==
  result = "parsing" /\ ~ AtEnd /\ HeadError(Line) # "none" /\ Stop(HeadError(Line))

Opcodes ==
  {"ADD", "ADD_CONST", "LINEAR_MAP", "SQUARE", "MUL", "SCALE_INSTANCE", "MUX", "INV", "SUM",
   "FROBENIUS_K", "ASSERT_ZERO", "ASSERT_EQUAL", "ASSERT_PRODUCT", "ASSERT_BIT", "ASSERT_CONST"}
Keywords == {"WITNESS", "INSTANCE", "CONST", "CONST_BIT", "subcircuit"}

\* Whatever follows.
NoStatement ==
  /\ Statement /\ Opening.kind \notin {"EOL", "PATH"}
  /\ Opening.kind # "WORD" \/ Opening.name \notin Opcodes \cup Keywords
  /\ Stop("GATE")

-----------------------------------------------------------------------------
(* Declarations.                                                           *)

\* Only those of the file are public.
DeclKind(kind) == IF InBody THEN "none" ELSE kind

AddInputs(c, kind, type) ==
  LET AddInput(b, k) ==
        LET w == Put(b, Gate(kind, InvalidId, InvalidId))
        IN  IF kind = "witness" /\ type.bit
            THEN [w EXCEPT !.c = AddConstraint(@, "product", Last(w.out), Last(w.out),
                                               Last(w.out), TRUE)]
            ELSE w
  IN  Over(AddInput, Ready(c), [k \in 1..type.length |-> k])

\* Permitted: what a declaration of this kind asks of its type and its place
InputDecl(kind, Permitted(_)) ==
  LET name == OutName(Start("DECL"))
      typed == Permitted(End(Type(Take(name, "COLON"))))
      fresh == Fresh(typed, name.tok.name)
      sized == Check(fresh, fresh.type.length <= MaxVectorLen, "LIMIT")
      r == AddInputs(circuit, kind, typed.type)
  IN  Bound(Asserted(BudgetWires(sized, typed.type.length), r.c),
            Symbol(name.tok.name, r.out, typed.type, DeclKind(kind)))

DeclareWitness ==
  Reading("WITNESS") /\ Conclude(InputDecl("witness", LAMBDA p : p))
DeclareInstance ==
  /\ Reading("INSTANCE")
  /\ Conclude(InputDecl("instance", LAMBDA p : Check(Check(p, ~ p.type.bit, "TYPE"), ~ InBody, "DECL")))

ConstDecl(value, val, bit) ==
  LET name == OutName(value)
      fresh == Fresh(End(name), name.tok.name)
      p == Emitted(BudgetWires(fresh, 1), AppendWire(circuit, ConstWire(val), TRUE))
  IN  Bound(p, Symbol(name.tok.name, <<p.id>>, ScalarType(bit), DeclKind("const")))

DeclareConst ==
  /\ Reading("CONST")
  /\ Conclude(LET v == Take(Start("DECL"), "BYTE") IN ConstDecl(v, v.tok.word, FALSE))

\* The value is looked at before the next token.
DeclareConstBit ==
  /\ Reading("CONST_BIT")
  /\ Conclude(LET v == Expect(Start("DECL"), "INT")
                  zeroOrOne == Check(v, Tok(v).int <= 1, "DECL")
              IN  ConstDecl(Advance(zeroOrOne), IF Tok(v).int = 0 THEN {} ELSE One, TRUE))

-----------------------------------------------------------------------------
(* Gates.  Operands are resolved from the left, the budget is looked at,   *)
(* the wires are emitted and the name is bound.                            *)

\* size wires within the budget, of which w is the last, and its name
Produce(p, size, w) == Bind(Emitted(Budget(p, size, size), w))
Single(p, gate) == Produce(p, 1, AppendWire(circuit, gate, TRUE))

GateAdd ==
  /\ Reading("ADD")
  /\ Conclude(LET a == Operand(Start("GATE"))
                  b == Operand(a)
              IN  Single(b, Gate("xor", Wire(a), Wire(b))))

GateAddConst ==
  /\ Reading("ADD_CONST")
  /\ Conclude(LET a == Operand(Start("GATE"))
                  k == Take(a, "BYTE")
              IN  Single(k, XorConstGate(Wire(a), k.tok.word)))

\* The squaring matrix becomes a square.
GateLinearMap ==
  /\ Reading("LINEAR_MAP")
  /\ Conclude(LET Row(q) == LET b == Take(q, "BYTE") IN [b EXCEPT !.list = Append(@, b.tok.word)]
                  rows == Over(LAMBDA q, i : Row(q), Take(Start("GATE"), "LBRACKET"),
                               [i \in 1..WordBits |-> i])
                  matrix == [i \in 0..(WordBits - 1) |-> rows.list[i + 1]]
                  a == Operand(Take(rows, "RBRACKET"))
              IN  Single(a, IF matrix = SquareMatrix THEN SquareGate(Wire(a))
                          ELSE MapGate(Wire(a), matrix)))

GateSquare ==
  /\ Reading("SQUARE")
  /\ Conclude(LET a == Operand(Start("GATE")) IN Single(a, SquareGate(Wire(a))))

GateMul ==
  /\ Reading("MUL")
  /\ Conclude(LET a == Operand(Start("GATE"))
                  b == Operand(a)
              IN  Single(b, Gate("mul", Wire(a), Wire(b))))

\* The version is looked at before anything else; the multiplier must be public.
GateScaleInstance ==
  /\ Reading("SCALE_INSTANCE")
  /\ IF version.minor < ScaleMinor THEN Stop("OPCODE_VERSION")
     ELSE Conclude(LET a == Operand(Start("GATE"))
                       b == Operand(a)
                       public == Check(b, circuit.wires[Wire(b) + 1].kind = "instance", "TYPE")
                   IN  Produce(public, 1, AddScaleInstance(circuit, Wire(a), Wire(b), TRUE)))

\* The selector, first in the text, must be a bit.
Selector(p) == LET s == Operand(p) IN Check(s, s.sym.bit, "TYPE")
GateMux ==
  /\ Reading("MUX")
  /\ Conclude(LET sel == Selector(Start("GATE"))
                  a == Operand(sel)
                  b == Operand(a)
              IN  Produce([b EXCEPT !.chosen = Range(sel.wires)], 3,
                          Mux("mul", circuit, Wire(a), Wire(b), Wire(sel), <<TRUE, TRUE, TRUE>>)))

\* c is a witness word with a^2 c = a and a c^2 = c.
InvGadget(c, a) ==
  LET w == AppendWire(c, WitnessWire, TRUE)
      a2 == AppendWire(w.c, SquareGate(a), TRUE)
      fwd == AddConstraint(a2.c, "product", a2.id, w.id, a, TRUE)
      c2 == AppendWire(fwd, SquareGate(w.id), TRUE)
  IN  [c |-> AddConstraint(c2.c, "product", a, c2.id, w.id, TRUE), id |-> w.id]
GateInv ==
  /\ Reading("INV")
  /\ Conclude(LET a == Operand(Start("GATE"))
                  w == OutName(a)
                  fresh == Fresh(End(w), w.tok.name)
                  inv == Emitted(Budget(fresh, 3, 2), InvGadget(circuit, Wire(a)))
              IN  BoundScalar(inv, w.tok.name, inv.id, FALSE))

\* One addition after another, each within the budget.
GateSum ==
  /\ Reading("SUM")
  /\ Conclude(LET first == Operand(Start("GATE"))
                  Add(q) ==
                    LET next == Operand(q)
                    IN  Emitted(Budget(next, 1, 1),
                                AppendWire(q.c, Gate("xor", q.id, Wire(next)), TRUE))
                  sum == Over(LAMBDA q, t : IF Tok(q).kind = "WIRE" THEN Add(q) ELSE q,
                              IF first.err # "none" THEN first ELSE [first EXCEPT !.id = Wire(first)],
                              Line.tokens)
              IN  Bind(Check(sum, sum.c # circuit, "GATE")))

\* k squares, one after the other.
GateFrobenius ==
  /\ Reading("FROBENIUS_K")
  /\ Conclude(LET k == Take(Start("GATE"), "INT")
                  a == Operand(Check(k, k.tok.int >= 1, "GATE"))
              IN  Produce(a, k.tok.int,
                          Over(LAMBDA b, i : AppendWire(b.c, SquareGate(b.id), TRUE),
                               [c |-> circuit, id |-> Wire(a)], [i \in 1..k.tok.int |-> i])))

-----------------------------------------------------------------------------
(* Assertions.                                                             *)

AssertZero ==
  /\ Reading("ASSERT_ZERO")
  /\ Conclude(LET a == Operand(Start("GATE"))
              IN  Asserted(End(a), AddConstraint(circuit, "zero", Wire(a), InvalidId, InvalidId, TRUE)))

AssertEqual ==
  /\ Reading("ASSERT_EQUAL")
  /\ Conclude(LET a == Operand(Start("GATE"))
                  b == Operand(a)
              IN  Asserted(End(b), AddConstraint(circuit, "equal", Wire(a), Wire(b), InvalidId, TRUE)))

AssertProduct ==
  /\ Reading("ASSERT_PRODUCT")
  /\ Conclude(LET a == Operand(Start("GATE"))
                  b == Operand(a)
                  c == Operand(b)
              IN  Asserted(End(c), AddConstraint(circuit, "product", Wire(a), Wire(b), Wire(c), TRUE)))

\* A second name, of type bit, for the same wire.
AssertBit ==
  /\ Reading("ASSERT_BIT")
  /\ Conclude(LET a == Operand(Start("GATE"))
                  w == OutName(a)
                  colon == Take(w, "COLON")
                  bit == Check(colon, Tok(colon).kind = "WORD" /\ Tok(colon).name = "bit", "TYPE")
                  fresh == Fresh(End(Advance(bit)), w.tok.name)
              IN  BoundScalar(Asserted(fresh, AddConstraint(circuit, "product", Wire(a), Wire(a),
                                                            Wire(a), TRUE)),
                              w.tok.name, Wire(a), TRUE))

AssertConst ==
  /\ Reading("ASSERT_CONST")
  /\ Conclude(LET a == Operand(Start("GATE"))
                  k == Take(a, "BYTE")
                  t == Emitted(Budget(End(k), 1, 1),
                               AppendWire(circuit, XorConstGate(Wire(a), k.tok.word), TRUE))
              IN  Asserted(t, AddConstraint(t.c, "zero", t.id, InvalidId, InvalidId, TRUE)))

-----------------------------------------------------------------------------
(* Subcircuits.  A definition takes the lines up to the closing brace; they *)
(* are read as statements at every call, and only then.                    *)

DefOf(name) == {i \in DOMAIN defs : defs[i].name = name}

\* Parameters, or none, in parentheses.
ParamSince(p, name) ==
  LET sized == Check(p, p.type.length <= MaxVectorLen, "LIMIT")
  IN  Grow([sized EXCEPT !.list = Append(@, [name |-> name, type |-> p.type])])
Parameter(p) == ParamSince(Type(Take(Take(p, "WIRE"), "COLON")), Tok(p).name)
ParamList(p) == Take(IF Tok(p).kind = "RPAREN" THEN p ELSE List(p, "COMMA", Parameter), "RPAREN")
Parameters(p) == ParamList(Take([p EXCEPT !.list = <<>>], "LPAREN"))

\* The first line that closes the body, or that is refused.
Closing == {j \in (Frame.next + 1)..Frame.last :
              HeadError(text.lines[j]) # "none" \/ TokenOf(text.lines[j], 1).kind = "RBRACE"}
CaptureError ==
  IF Closing = {} THEN "SUBCIRCUIT"
  ELSE LET l == text.lines[Min(Closing)]
           after == TokenOf(l, 2)
       IN  HeadError(l) ?? Err(after.kind = "refused", after.name)
             ?? Err(after.kind # "EOL", "SUBCIRCUIT")

\* args: the parameters; list: the outputs
Definition ==
  LET path == Take(Start("GATE"), "PATH")
      user == Check(path, path.tok.space = "user", "SUBCIRCUIT")
      params == Parameters(Check(user, DefOf(path.tok.name) = {}, "REDEF"))
      outs == IF Tok(params).kind = "ARROW" THEN Parameters(Advance(params))
              ELSE [params EXCEPT !.list = <<>>]
      open == Grow(End(Take(outs, "LBRACE")))
  IN  [Check(open, CaptureError = "none", CaptureError) EXCEPT !.args = params.list, !.tok = path.tok]

Define ==
  /\ Reading("subcircuit")
  /\ IF InBody THEN Stop("SUBCIRCUIT")
     ELSE \E p \in {Definition} :
            \/ Refuse(p)
            \/ /\ p.err = "none"
               /\ defs' = Append(defs, [name |-> p.tok.name, params |-> p.args, outs |-> p.list,
                                        first |-> Frame.next + 1, last |-> Min(Closing) - 1])
               /\ frames' = Append(Front(frames), [Frame EXCEPT !.next = Min(Closing) + 1])
               /\ UNCHANGED <<text, result, version, circuit, regions, selectors, parsed>>

\* An argument is a chain of operands, vectors in full.
Filed(p) == [p EXCEPT !.list = Append(@, p.wires)]
Argument(p) == Filed(List([Grow(p) EXCEPT !.wires = <<>>], "PLUSPLUS", Reference))
Output(p) == Grow([Take(p, "WIRE") EXCEPT !.list = Append(@, Tok(p).name)])

\* What comes after the path and its bracket.  args: of each argument its
\* wires; list: the names of the outputs
ArgList(p) == Take(IF Tok(p).kind = "RPAREN" THEN p ELSE List(p, "COMMA", Argument), "RPAREN")
Collected(p) == [p EXCEPT !.args = p.list, !.list = <<>>]
Outputs(p) == IF Tok(p).kind = "ARROW" THEN List(Advance(p), "COMMA", Output) ELSE p
CallRest(p) == End(Outputs(Collected(ArgList(Take(p, "LPAREN")))))

Calling(space) == Statement /\ Opening.kind = "PATH" /\ Opening.space = space
Region(name, hash, params) ==
  [name |-> name, hash |-> hash, params |-> params, first |-> circuit.nWitness, count |-> 0,
   inputs |-> <<>>]

\* The lengths of the arguments are compared, their refinement is not.
InlineCall(def) ==
  LET p == CallRest(Start("GATE"))
      shallow == Check(p, Len(frames) - 1 < MaxInlineDepth, "INLINE_DEPTH")
      arity == Check(shallow, Len(p.args) = Len(def.params) /\ Len(p.list) = Len(def.outs), "SUBCIRCUIT")
  IN  Grow(Check(arity, \A i \in 1..Len(def.params) : Len(p.args[i]) = def.params[i].type.length, "TYPE"))
CallUser ==
  /\ Calling("user")
  /\ LET found == DefOf(Opening.name)
         def == defs[Min(found)]
         Argued(p, i) == Symbol(def.params[i].name, p.args[i], def.params[i].type, "none")
     IN  IF found = {} THEN Stop("SUBCIRCUIT")
         ELSE \E p \in {InlineCall(def)} :
                \/ Refuse(p)
                \/ /\ p.err = "none"
                   /\ regions' = Append(regions, Region(Opening.name, "none", <<>>))
                   /\ frames' = Front(frames) \o
                        <<[Frame EXCEPT !.next = @ + 1],
                          [next |-> def.first, last |-> def.last,
                           syms |-> [i \in 1..Len(def.params) |-> Argued(p, i)],
                           call |-> [def |-> Min(found), region |-> Len(regions) + 1, outs |-> p.list]]>>
                   /\ UNCHANGED <<text, result, version, circuit, defs, selectors, parsed>>

\* The end of a body: its outputs are looked up, its scope is dropped.
Return ==
  LET call == Frame.call
      outs == defs[call.def].outs
      caller == frames[Len(frames) - 1]
      OutError(p) ==
        Err(Named(p.name) = {}, "SUBCIRCUIT")
          ?? Err(SymOf(p.name).vector # p.type.vector
                   \/ Len(SymOf(p.name).wires) # p.type.length, "TYPE")
          ?? Err(p.type.bit /\ ~ SymOf(p.name).bit, "TYPE")
      taken == {s.name : s \in Range(caller.syms)}
      code == FirstOf([j \in 1..Len(outs) |-> OutError(outs[j])])
                ?? Err(\/ taken \cap Range(call.outs) # {}
                       \/ Cardinality(Range(call.outs)) # Len(call.outs), "REDEF")
  IN  /\ result = "parsing" /\ AtEnd /\ InBody
      /\ \/ outs # <<>> /\ Stop("ALLOC")
         \/ code # "none" /\ Stop(code)
         \/ /\ code = "none"
            /\ regions' = [regions EXCEPT ![call.region].count =
                                         circuit.nWitness - regions[call.region].first]
            /\ frames' = Append(SubSeq(frames, 1, Len(frames) - 2),
                 [caller EXCEPT !.syms = @ \o
                    [j \in 1..Len(outs) |->
                       Symbol(call.outs[j], SymOf(outs[j].name).wires, outs[j].type, "none")]])
            /\ UNCHANGED <<text, result, version, circuit, defs, selectors, parsed>>

-----------------------------------------------------------------------------
(* Calls of the registry.  The caps of the circuit bound what a gadget     *)
(* emits; a circuit that failed at a cap is over the limit.                *)

CapError(c) ==
  IF c.ok THEN "none"
  ELSE IF Len(c.wires) >= c.wireCap \/ GateCount(c) >= c.gateCap THEN "LIMIT" ELSE "ALLOC"

\* p: what was read and checked; type: of the output, if there is one;
\* Gadget: what is emitted over the wires of the arguments.
Inlined(p, type, Gadget(_)) ==
  LET r == Gadget(FlattenSeq(p.args))
      made == IF p.err # "none" THEN p ELSE Check(Asserted(p, r.c), r.c.ok, CapError(r.c))
  IN  IF p.list = <<>> THEN made
      ELSE Bound(Fresh(made, p.list[1]), Symbol(p.list[1], r.out, type, "none"))

InlineInto(region, statement) ==
  \E p \in {statement} :
    \/ Refuse(p)
    \/ /\ p.err = "none" /\ circuit' = p.c
       /\ regions' = Append(regions, [region EXCEPT !.inputs = FlattenSeq(p.args),
                                                   !.count = p.c.nWitness - circuit.nWitness])
       /\ frames' = Append(Front(frames), [Frame EXCEPT !.next = @ + 1, !.syms = @ \o p.syms])
       /\ UNCHANGED <<text, result, version, defs, selectors, parsed>>

\* A bracket after an entry of the first version is refused.
RegistryCall(e) ==
  LET start == Start("GATE")
      p == CallRest(Check(start, Tok(start).kind # "LBRACKET", "REGISTRY"))
      lens == InLens(e)
      arity == Check(p, Len(p.args) = Len(lens) /\ Len(p.list) = 1, "SUBCIRCUIT")
      Fits(q, i) == IF lens[i] = Inferred THEN Check(q, Len(p.args[i]) <= ParamMax, "LIMIT")
                    ELSE Check(q, Len(p.args[i]) = lens[i], "TYPE")
      fit == Over(Fits, arity, [i \in 1..Len(lens) |-> i])
      cost == Cost(e, IF Parametric(e) THEN Len(p.args[2]) ELSE 0)
  IN  Grow(BudgetWires(Check(fit, cost.blocks <= MaxBlocks, "LIMIT"), cost.invs))

CallRegistry ==
  /\ Calling("crypto") /\ Opening.name \in DOMAIN Registry
  /\ LET e == Registry[Opening.name]
         type == [ScalarType(FALSE) EXCEPT !.vector = OutIsVector(e)]
     IN  InlineInto(Region(Opening.name, "none", <<>>),
                    Inlined(RegistryCall(e), type, LAMBDA in : InlineEntry(circuit, e, in)))

\* The hash in brackets: one, of stdlib crypto-v2, by name.
HashSelector ==
  LET start == Start("GATE")
      bracket == IF version.stdlib # 2 \/ Tok(start).kind # "LBRACKET"
                 THEN [start EXCEPT !.err = "REGISTRY"] ELSE Advance(start)
      hash == Take(bracket, "WORD")
      known == Check(hash, hash.tok.name \in HashTypes, "REGISTRY")
      one == Check(known, Tok(known).kind # "COMMA", "REGISTRY")
  IN  [Take(one, "RBRACKET") EXCEPT !.tok = hash.tok]

\* The parameters of a hash entry are the lengths of its arguments; where two
\* arguments share one the first binds it.
Binds(e, i) == e.ins[i].kind = "param" /\ \A j \in 1..(i - 1) : e.ins[j] # e.ins[i]
HashParams(e, args) ==
  [k \in 1..Len(e.mins) |-> Len(args[CHOOSE i \in 1..Len(e.ins) : e.ins[i] = Param(k) /\ Binds(e, i)])]

\* First the lengths that are parameters, then those in nodes.
HashCall(e, selector) ==
  LET p == CallRest(selector)
      h == selector.tok.name
      n == Len(e.ins)
      arity == Check(p, Len(p.args) = n /\ Len(p.list) = (IF e.out THEN 1 ELSE 0), "SUBCIRCUIT")
      params == HashParams(e, p.args)
      Lengths(q, i) ==
        LET k == e.ins[i].value
        IN  IF e.ins[i].kind # "param" THEN q
            ELSE IF Binds(e, i) THEN Check(q, params[k] \in e.mins[k]..e.maxs[k], "LIMIT")
            ELSE Check(q, Len(p.args[i]) = params[k], "TYPE")
      Nodes(q, i) ==
        Check(q, e.ins[i].kind = "param" \/ Len(p.args[i]) = ArgLen(e, h, params, i), "TYPE")
      pass1 == Over(Lengths, arity, [i \in 1..n |-> i])
      pass2 == Over(Nodes, pass1, [i \in 1..n |-> i])
      leaf == Check(pass2, LeafAdmitted(e, h, params), "TYPE")
      cost == HashCost(e, h, params)
      paid == BudgetWires(Check(leaf, cost.blocks <= MaxBlocks, "LIMIT"), cost.invs)
  IN  Check(Grow(paid), Len(e.mins) = 3 => LeafWidth(e, params) <= LeafMax, "ALLOC")

CallHash ==
  /\ Calling("crypto") /\ Opening.name \in DOMAIN HashRegistry
  /\ LET name == Opening.name
         e == HashRegistry[name]
         type == [ScalarType(FALSE) EXCEPT !.vector = TRUE]
     IN  \E s \in {HashSelector} : \E p \in {HashCall(e, s)} :
           LET h == s.tok.name
               params == HashParams(e, p.args)
           IN  InlineInto(Region(name, h, params),
                          Inlined(p, type, LAMBDA in : InlineHash(circuit, name, h, params, in)))

\* A name of the registry's space that no table has; another space.
CallUnknown ==
  \/ /\ Calling("crypto") /\ Opening.name \notin DOMAIN Registry \cup DOMAIN HashRegistry
     /\ Stop("REGISTRY")
  \/ /\ Statement /\ Opening.kind = "PATH" /\ Opening.space \notin {"user", "crypto"}
     /\ Stop("SUBCIRCUIT")

-----------------------------------------------------------------------------
\* finalize_decls: what the file declared, in its order.
Finish ==
  LET decls == SelectSeq(Frame.syms, LAMBDA s : s.decl # "none")
  IN  /\ result = "parsing" /\ AtEnd /\ ~ InBody
      /\ \/ decls # <<>> /\ Stop("ALLOC")
         \/ /\ result' = "accepted"
            /\ parsed' = [circuit |-> circuit, regions |-> regions, decls |-> decls]
            /\ frames' = <<>> /\ defs' = <<>>
            /\ UNCHANGED <<text, version, circuit, regions, selectors>>

ShipStep ==
  \/ ParseFile \/ ParseBuffer \/ BlankLine \/ RefusedLine \/ NoStatement
  \/ DeclareWitness \/ DeclareInstance \/ DeclareConst \/ DeclareConstBit
  \/ GateAdd \/ GateAddConst \/ GateLinearMap \/ GateSquare \/ GateMul \/ GateScaleInstance
  \/ GateMux \/ GateInv \/ GateSum \/ GateFrobenius
  \/ AssertZero \/ AssertEqual \/ AssertProduct \/ AssertBit \/ AssertConst
  \/ Define \/ CallUser \/ Return \/ CallRegistry \/ CallHash \/ CallUnknown
  \/ Finish
=============================================================================
