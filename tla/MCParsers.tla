----------------------------- MODULE MCParsers -----------------------------
(***************************************************************************)
(* The two parsers and the generation of witnesses on small programs.  A   *)
(* program means what Means says: values are computed in the order of the    *)
(* text, a MUX is a choice, an INV an inverse, a call of the registry the  *)
(* bytes of its primitive.  A file of gates means, for each of its wires,  *)
(* the gate that names it.                                                 *)
(***************************************************************************)
EXTENDS ShipWitness

CONSTANTS Files, SizeMax
VARIABLES file, verdict, netlist, slots, line, delivered

brVars == <<file, verdict, netlist, slots, line, delivered>>
Br == INSTANCE Bristol WITH InitialWires <- 2, InitialConstraints <- 1

-----------------------------------------------------------------------------
(* Lines.                                                                  *)

Scal(bit) == [bit |-> bit, vector |-> FALSE, length |-> 1]
Byte == Scal(FALSE)
Bit == Scal(TRUE)
Vec(n) == [bit |-> FALSE, vector |-> TRUE, length |-> n]

\* What can be wrong with the text of a line: a character outside the set, its
\* length, a token that is refused, left out, or preceded by a colon.
Blank == [stray |-> 0, bytes |-> 0, refused |-> 0, gap |-> 0, extra |-> 0,
          op |-> "BLANK", args |-> <<>>, outs |-> <<>>,
          type |-> Byte, val |-> {1}, k |-> 2, matrix |-> SquareMatrix,
          path |-> [space |-> "user", name |-> "-"], selector |-> "none",
          params |-> <<>>, results |-> <<>>]

Whole == -1
At(name, index) == [name |-> name, index |-> index]
All(name) == At(name, Whole)
Singly(operands) == [i \in 1..Len(operands) |-> <<operands[i]>>]

Do(op, names, outs) ==
  [Blank EXCEPT !.op = op, !.args = Singly([i \in 1..Len(names) |-> All(names[i])]), !.outs = outs]
Decl(op, name, type) == [Blank EXCEPT !.op = op, !.outs = <<name>>, !.type = type]
Pair(name, type) == [name |-> name, type |-> type]
Sub(name, params, results) ==
  [Blank EXCEPT !.op = "subcircuit", !.path.name = name, !.params = params, !.results = results]
Brace == [Blank EXCEPT !.op = "END"]
CallOf(space, name, selector, args, outs) ==
  [Blank EXCEPT !.op = "CALL", !.path = [space |-> space, name |-> name], !.selector = selector,
                !.args = args, !.outs = outs]
Call(name, names, outs) ==
  CallOf("user", name, "none", Singly([i \in 1..Len(names) |-> All(names[i])]), outs)
Crypto(name, selector, args, outs) == CallOf("crypto", name, selector, args, outs)

NoLimits == [bytes |-> 0, line |-> 0, wires |-> 0, gates |-> 0]

\* Of the three lines of the header one, or all, may be left out, one may have a
\* word too many or a character outside the set; there may be blank lines.
Header == [magic |-> ".shipshape", version |-> <<1, MaxMinor>>, field |-> "0x11B", stdlib |-> 2,
           omitted |-> 0, longer |-> 0, stray |-> 0, spaced |-> FALSE]

\* ask: what its caller asks the generator; fill: whether backends are registered
Text(source) == [given |-> "all", from |-> "buffer", io |-> "ok", limits |-> NoLimits,
                 header |-> Header, source |-> source, ask |-> {}, fill |-> FALSE]

Prologue == <<Decl("WITNESS", "a", Byte), Decl("WITNESS", "b", Bit), Decl("INSTANCE", "x", Byte)>>

-----------------------------------------------------------------------------
(* The words and the tokens of a line.                                     *)

Sign(kind) == <<[Eol EXCEPT !.kind = kind]>>
Spelt(kind, name) == <<[Eol EXCEPT !.kind = kind, !.name = name]>>
IntLit(k) == <<[Eol EXCEPT !.kind = "INT", !.int = k]>>
ByteLit(w) == <<[Eol EXCEPT !.kind = "BYTE", !.word = w]>>
PathOf(path) == <<[Eol EXCEPT !.kind = "PATH", !.name = path.name, !.space = path.space]>>
Joins(parts, separator) ==
  FlattenSeq([i \in 1..Len(parts) |-> (IF i = 1 THEN <<>> ELSE Sign(separator)) \o parts[i]])
InParens(tokens) == (Sign("LPAREN") \o tokens) \o Sign("RPAREN")
InBrackets(tokens) == (Sign("LBRACKET") \o tokens) \o Sign("RBRACKET")

OperandOf(o) ==
  Spelt("WIRE", o.name) \o (IF o.index = Whole THEN <<>> ELSE InBrackets(IntLit(o.index)))
WiresOf(names) == [i \in 1..Len(names) |-> Spelt("WIRE", names[i])]
TypeOf(type) ==
  Spelt("WORD", IF type.bit THEN "bit" ELSE "byte")
    \o (IF type.vector THEN InBrackets(IntLit(type.length)) ELSE <<>>)
ParamsOf(params) ==
  InParens(Joins([i \in 1..Len(params) |-> (Spelt("WIRE", params[i].name) \o Sign("COLON"))
                                               \o TypeOf(params[i].type)], "COMMA"))
ArgOf(operands) == Joins([i \in 1..Len(operands) |-> OperandOf(operands[i])], "PLUSPLUS")
Yields(tokens) == IF tokens = <<>> THEN <<>> ELSE Sign("ARROW") \o tokens

StatementOf(l) ==
  LET operands == FlattenSeq([i \in 1..Len(l.args) |-> OperandOf(l.args[i][1])])
      outs == Yields(FlattenSeq(WiresOf(l.outs)))
      rows == FlattenSeq([i \in 1..WordBits |-> ByteLit(l.matrix[i - 1])])
      rest == CASE l.op \in {"ADD_CONST", "ASSERT_CONST"} -> (operands \o ByteLit(l.val)) \o outs
                [] l.op = "LINEAR_MAP" -> (InBrackets(rows) \o operands) \o outs
                [] l.op = "FROBENIUS_K" -> (IntLit(l.k) \o operands) \o outs
                [] l.op \in {"ASSERT_BIT", "WITNESS", "INSTANCE"} ->
                     ((operands \o outs) \o Sign("COLON")) \o TypeOf(l.type)
                [] l.op = "CONST" -> ByteLit(l.val) \o outs
                [] l.op = "CONST_BIT" -> IntLit(l.k) \o outs
                [] OTHER -> operands \o outs
  IN  Spelt("WORD", l.op) \o rest
TokensOf(l) ==
  CASE l.op = "BLANK" -> <<>>
    [] l.op = "END" -> Sign("RBRACE") \o FlattenSeq([i \in 1..Len(l.args) |-> ArgOf(l.args[i])])
    [] l.op = "subcircuit" ->
         (((Spelt("WORD", l.op) \o PathOf(l.path)) \o ParamsOf(l.params))
            \o (IF l.results = <<>> THEN <<>> ELSE Yields(ParamsOf(l.results)))) \o Sign("LBRACE")
    [] l.op = "CALL" ->
         ((PathOf(l.path) \o (IF l.selector = "none" THEN <<>> ELSE InBrackets(Spelt("WORD", l.selector))))
            \o InParens(Joins([i \in 1..Len(l.args) |-> ArgOf(l.args[i])], "COMMA")))
           \o Yields(Joins(WiresOf(l.outs), "COMMA"))
    [] OTHER -> StatementOf(l)

WithColon(tokens, k) ==
  IF k = 0 THEN tokens ELSE (SubSeq(tokens, 1, k - 1) \o Sign("COLON")) \o SubSeq(tokens, k, Len(tokens))
WithGap(tokens, k) ==
  IF k = 0 THEN tokens ELSE SubSeq(tokens, 1, k - 1) \o SubSeq(tokens, k + 1, Len(tokens))
RefusedAt(tokens, k) ==
  IF k = 0 THEN tokens ELSE SubSeq(tokens, 1, k - 1) \o Spelt("refused", "TOKEN")
Written(l) == RefusedAt(WithGap(WithColon(TokensOf(l), l.extra), l.gap), l.refused)
Word1(spell) == [spell |-> spell, parts |-> <<Malformed>>]
LineOf(l) ==
  Then(Written(l), LAMBDA tokens :
    [stray |-> l.stray, tokens |-> tokens, words |-> IF tokens = <<>> THEN <<>> ELSE <<Word1(l.op)>>,
     bytes |-> IF l.bytes # 0 THEN l.bytes ELSE Len(tokens) + 1])

HeaderOf(h) ==
  LET words == << <<Word1(h.magic), [spell |-> "version", parts |-> h.version]>>,
                  <<Word1("field"), Word1("GF(2^8)"), Word1("irreducible"), Word1(h.field)>>,
                  <<Word1("stdlib"), Word1(IF h.stdlib = 1 THEN "crypto-v1" ELSE
                                           IF h.stdlib = 2 THEN "crypto-v2" ELSE "crypto-v3")>> >>
      Of(k) == [stray |-> IF h.stray = k THEN 1 ELSE 0, bytes |-> Len(words[k]) + 1,
                tokens |-> Spelt("refused", "TOKEN"),
                words |-> words[k] \o (IF h.longer = k THEN <<Word1("more")>> ELSE <<>>)]
      Kept(k) == (IF h.spaced THEN <<[stray |-> 0, bytes |-> 1, tokens |-> <<>>, words |-> <<>>]>> ELSE <<>>)
                   \o (IF h.omitted \in {k, 4} THEN <<>> ELSE <<Of(k)>>)
  IN  (Kept(1) \o Kept(2)) \o Kept(3)

Rendered(t) ==
  Then([i \in 1..Len(t.source) |-> LineOf(t.source[i])], LAMBDA body :
    Then(HeaderOf(t.header) \o body, LAMBDA lines :
      [lines |-> lines, bytes |-> FoldLeft(LAMBDA n, l : (n + l.bytes) + 1, 0, lines),
       source |-> [i \in 1..Len(body) |-> [t.source[i] EXCEPT !.bytes = body[i].bytes]]] @@ t))

-----------------------------------------------------------------------------
(* Every gate, every pair of gates, and every gate damaged.                *)

GateOps == [ADD |-> <<"a">>, ADD_CONST |-> <<>>, LINEAR_MAP |-> <<>>, SQUARE |-> <<>>,
            MUL |-> <<"b">>, SCALE_INSTANCE |-> <<"x">>, INV |-> <<>>, SUM |-> <<"a", "x">>,
            FROBENIUS_K |-> <<>>, ASSERT_BIT |-> <<>>]
Gates(u, out) ==
  {[Do(op, <<u>> \o GateOps[op], <<out>>) EXCEPT !.type = Bit] : op \in DOMAIN GateOps}
    \cup {Do("MUX", <<"b", u, "x">>, <<out>>), [Do("LINEAR_MAP", <<u>>, <<out>>) EXCEPT
                                                  !.matrix = [i \in 0..1 |-> {1 - i}]]}
Assertions(u) ==
  {Do("ASSERT_ZERO", <<u>>, <<>>), Do("ASSERT_EQUAL", <<u, "x">>, <<>>),
   Do("ASSERT_PRODUCT", <<u, "a", "x">>, <<>>), Do("ASSERT_CONST", <<u>>, <<>>)}

Pairs ==
  UNION {{Text(Prologue \o <<g, h, Do("ASSERT_EQUAL", <<"z", "x">>, <<>>)>>) : h \in Gates("y", "z")} :
           g \in Gates("a", "y")}
AssertTexts == {Text(Prologue \o <<g, s>>) : g \in Gates("a", "y"), s \in Assertions("y")}

\* A line with an operand less or more, an unbound one, an index where there is
\* no vector, an output less, more, or bound before.
Damaged(l) ==
  LET As(operand) == [l EXCEPT !.args[1] = <<operand>>]
  IN  {[l EXCEPT !.args = Front(@)], [l EXCEPT !.args = Append(@, <<All("a")>>)],
       [l EXCEPT !.outs = <<>>], [l EXCEPT !.outs = Append(@, "w")], [l EXCEPT !.outs = <<"a">>],
       As(All("nope")), As(At("a", 0)), As(At("v", 0)), As(At("v", 2)), As(All("v")),
       As(All("x"))}
BitOne == [Blank EXCEPT !.op = "CONST_BIT", !.k = 1, !.outs = <<"b">>]
Damages ==
  {Text(<<Decl("WITNESS", "a", Byte), Decl("INSTANCE", "x", Byte), Decl("INSTANCE", "v", Vec(2)),
          BitOne, d>>) :
     d \in UNION {Damaged(l) : l \in Gates("a", "y") \cup Assertions("a")}}

-----------------------------------------------------------------------------
(* Declarations, names and what the scanner refuses.                       *)

Singles == {
  <<>>, <<Blank, Blank>>, <<Brace>>, <<Do("UNKNOWN", <<>>, <<>>)>>,
  <<Decl("WITNESS", "e", Vec(0)), Decl("WITNESS", "a", Byte)>>,
  <<Decl("WITNESS", "w", Vec(MaxVectorLen + 1))>>,
  <<Decl("INSTANCE", "w", Vec(MaxVectorLen))>>,
  <<Decl("INSTANCE", "i", Bit)>>,
  <<Decl("WITNESS", "a", Byte), Decl("CONST", "a", Byte)>>,
  <<Decl("CONST", "c", Byte), Do("ASSERT_ZERO", <<"c">>, <<>>)>>,
  <<BitOne, [BitOne EXCEPT !.k = 2, !.outs = <<"d">>]>>,
  <<[BitOne EXCEPT !.k = 0], Do("ASSERT_ZERO", <<"b">>, <<>>)>>,
  <<Decl("WITNESS", "p", [bit |-> TRUE, vector |-> TRUE, length |-> 2]),
    [Do("MUX", <<"p", "q", "q">>, <<"r">>) EXCEPT !.args[1] = <<At("p", 1)>>,
                                                  !.args[2] = <<At("p", 0)>>,
                                                  !.args[3] = <<At("p", 1)>>]>>,
  <<Decl("WITNESS", "a", Byte), Do("MUX", <<"a", "a", "a">>, <<"y">>)>>,
  <<Decl("WITNESS", "a", Byte), [Do("FROBENIUS_K", <<"a">>, <<"y">>) EXCEPT !.k = 0]>>,
  <<Decl("WITNESS", "a", Byte), Do("SUM", <<"a">>, <<"y">>)>>,
  <<Decl("WITNESS", "a", Byte), [Do("ASSERT_BIT", <<"a">>, <<"y">>) EXCEPT !.type = Bit],
    Do("MUX", <<"y", "a", "y">>, <<"z">>), Do("ASSERT_ZERO", <<"z">>, <<>>)>> }
Declarations == {Text(l) : l \in Singles}

\* The line of the declaration has 6 bytes, all of the text 24.
Headers ==
  LET t == Text(<<Decl("WITNESS", "a", Byte)>>)
      wide == [Blank EXCEPT !.bytes = LineCeiling]
  IN  {[t EXCEPT !.given = "none"], [t EXCEPT !.limits.bytes = 24], [t EXCEPT !.limits.bytes = 23],
       [t EXCEPT !.limits.bytes = ByteCeiling + 1, !.source = [i \in 1..12 |-> wide]],
       [t EXCEPT !.limits.line = 6], [t EXCEPT !.limits.line = 5],
       [t EXCEPT !.header.magic = ".shape"], [t EXCEPT !.header.field = "0x11D"],
       [t EXCEPT !.header.spaced = TRUE]}
        \cup {[t EXCEPT !.from = "file", !.io = o] : o \in {"ok", "open", "read"}}
        \cup {[Text(<<>>) EXCEPT !.from = f, !.header.omitted = 4] : f \in {"buffer", "file"}}
        \cup {[t EXCEPT !.header.version = v] :
                 v \in {<<1>>, <<1, MaxMinor + 1>>, <<2>>, <<1, Malformed>>}}
        \cup {[t EXCEPT !.header.stdlib = v] : v \in {1, 3}}
        \cup UNION {{[t EXCEPT !.header.omitted = k], [t EXCEPT !.header.longer = k],
                     [t EXCEPT !.header.stray = k]} : k \in 1..3}

Scale == Do("SCALE_INSTANCE", <<"a", "x">>, <<"y">>)
Old(lines, v) == [Text(lines) EXCEPT !.header.version = v]
Faults ==
  {Old(Append(Prologue, [Scale EXCEPT !.refused = k]), v) : k \in 0..2, v \in {<<1>>, <<1, ScaleMinor - 1>>}}
    \cup {Text(Append(Prologue, l)) :
             l \in {[Blank EXCEPT !.stray = 1, !.bytes = 1], [Blank EXCEPT !.bytes = LineCeiling + 1],
                   [Blank EXCEPT !.stray = LineCeiling + 1, !.bytes = LineCeiling + 2]}}

-----------------------------------------------------------------------------
(* Subcircuits.                                                            *)

Twice == Sub("twice", <<Pair("p", Byte)>>, <<Pair("r", Byte)>>)
Doubling == <<Do("SQUARE", <<"p">>, <<"r">>)>>
Body(head, lines) == (<<head>> \o lines) \o <<Brace>>
Hides == Body(Twice, <<Decl("WITNESS", "h", Byte), Do("MUL", <<"h", "p">>, <<"r">>)>>)
Chooses == Body(Sub("pick", <<Pair("s", Bit), Pair("p", Vec(2))>>, <<Pair("r", Byte), Pair("u", Bit)>>),
                <<[Do("MUX", <<"s", "p", "p">>, <<"r">>) EXCEPT !.args[2] = <<At("p", 0)>>,
                                                             !.args[3] = <<At("p", 1)>>],
                  [BitOne EXCEPT !.outs = <<"u">>]>>)
Outer == Body(Sub("outer", <<Pair("p", Byte)>>, <<Pair("r", Byte)>>),
              <<Call("twice", <<"p">>, <<"t">>), Call("twice", <<"t">>, <<"r">>)>>)
Self == Body(Twice, <<Call("twice", <<"p">>, <<"r">>)>>)
Never == Body(Sub("never", <<>>, <<>>), <<Do("UNKNOWN", <<>>, <<>>)>>)
Use(name) == <<Call(name, <<"a">>, <<"y">>), Do("ASSERT_EQUAL", <<"y", "x">>, <<>>)>>
Joined == CallOf("user", "pick", "none", <<<<All("b")>>, <<All("a"), All("x")>>>>, <<"y", "u">>)

Bodies == {
  Body(Twice, Doubling) \o Use("twice"), Hides \o Use("twice"),
  (Body(Twice, Doubling) \o Outer) \o Use("outer"), Body(Twice, Doubling) \o Outer,
  (Body(Twice, Doubling) \o Body(Twice, Doubling)) \o Use("twice"),
  Outer \o Use("outer"), Self \o Use("twice"), Never \o <<Call("never", <<>>, <<>>)>>,
  Chooses \o <<Joined, Do("MUX", <<"u", "x", "y">>, <<"z">>), Do("ASSERT_ZERO", <<"z">>, <<>>)>>,
  Chooses \o <<[Joined EXCEPT !.outs = <<"y", "b">>]>>,
  Chooses \o <<[Joined EXCEPT !.outs = <<"y", "y">>]>>,
  Chooses \o <<[Joined EXCEPT !.outs = <<"y">>]>>,
  Chooses \o <<[Joined EXCEPT !.args[2] = <<All("a")>>]>>,
  Chooses \o <<[Joined EXCEPT !.selector = "aes_dm"]>>,
  Chooses \o <<[Joined EXCEPT !.args = <<Head(@)>>]>>,
  <<Twice>> \o Doubling, (<<Twice>> \o Doubling) \o <<[Brace EXCEPT !.args = <<<<All("a")>>>>]>>,
  (<<Twice>> \o Doubling) \o <<[Blank EXCEPT !.stray = 1, !.bytes = 1], Brace>>,
  (<<Twice>> \o Doubling) \o <<[Brace EXCEPT !.refused = 1]>>,
  (<<Twice>> \o Doubling) \o <<[Brace EXCEPT !.extra = 2]>>,
  Body(Twice, <<[Doubling[1] EXCEPT !.refused = 2]>>) \o Use("twice"),
  Body([Twice EXCEPT !.path.space = "crypto"], Doubling),
  Body([Twice EXCEPT !.params[1].type = Vec(MaxVectorLen + 1)], Doubling),
  Body(Sub("deep", <<>>, <<>>), <<Twice>> \o Doubling) \o <<Call("deep", <<>>, <<>>), Brace>>,
  Body(Twice, <<>>) \o Use("twice"),
  Body([Twice EXCEPT !.results[1].type = Vec(1)], Doubling) \o Use("twice"),
  Body([Twice EXCEPT !.results[1].type = Bit], Doubling) \o Use("twice"),
  Body(Twice, <<Decl("INSTANCE", "i", Byte)>> \o Doubling) \o Use("twice"),
  Body(Twice, Append(Prologue, Do("SQUARE", <<"p">>, <<"r">>))) \o Use("twice"),
  Body(Twice, <<Do("SCALE_INSTANCE", <<"p", "p">>, <<"r">>)>>)
    \o <<Call("twice", <<"x">>, <<"y">>), Do("ASSERT_EQUAL", <<"y", "a">>, <<>>)>>,
  <<CallOf("other", "twice", "none", <<>>, <<>>)>>, <<Call("missing", <<"a">>, <<"y">>)>> }
Subcircuits == {Text(Prologue \o l) : l \in Bodies}

\* Every token but a wire left out, a colon before every token, every token refused.
Misspelt(l) ==
  LET n == Len(TokensOf(l))
  IN  {[l EXCEPT !.gap = k] : k \in {k \in 1..n : TokensOf(l)[k].kind # "WIRE"}}
        \cup {[l EXCEPT !.extra = k] : k \in 1..(n + 1)} \cup {[l EXCEPT !.refused = k] : k \in 1..n}
Spelling1 ==
  {Text(Prologue \o <<Decl("WITNESS", "v", Vec(2)), m>>) :
     m \in UNION {Misspelt(l) : l \in {[Do("LINEAR_MAP", <<"v">>, <<"y">>) EXCEPT !.args[1] = <<At("v", 1)>>],
                                       [Do("ASSERT_BIT", <<"a">>, <<"y">>) EXCEPT !.type = Bit],
                                       Decl("WITNESS", "w", Vec(1)), Decl("CONST", "c", Byte), BitOne,
                                       Crypto("path_secret", "aes_dm",
                                              <<<<All("a"), All("v")>>, <<All("v")>>>>, <<"y">>)}}}
    \cup {Text((Prologue \o <<m>>) \o Doubling) : m \in Misspelt(Chooses[1])}

\* The depth of nesting: f1 squares, f2 calls f1, ...; the last is used or not.
Nest(n) ==
  LET At1(i) == Sub("f" \o ToString(i), <<Pair("p", Byte)>>, <<Pair("r", Byte)>>)
      Level(i) == Body(At1(i), IF i = 1 THEN Doubling
                               ELSE <<Call("f" \o ToString(i - 1), <<"p">>, <<"r">>)>>)
  IN  FlattenSeq([i \in 1..n |-> Level(i)])
Nested ==
  UNION {{Text((Prologue \o Nest(n)) \o end) : end \in {<<>>} \cup {Use("f" \o ToString(k)) : k \in 1..n}} :
           n \in 1..(MaxInlineDepth + 1)}

-----------------------------------------------------------------------------
(* Limits: each of a few texts under every limit up to what it needs.      *)

Costly ==
  Prologue \o <<Do("INV", <<"a">>, <<"i">>), Do("MUX", <<"b", "a", "i">>, <<"m">>),
                Do("SUM", <<"a", "i", "x">>, <<"s">>), Do("FROBENIUS_K", <<"s">>, <<"f">>)>>
Tails == {<<Do("ASSERT_CONST", <<"a">>, <<>>)>>, <<Crypto("sbox", "none", <<<<All("a")>>>>, <<"y">>)>>,
          <<Do("INV", <<"b">>, <<"j">>)>>, Hides \o <<Call("twice", <<"a">>, <<"y">>)>>}
Limits ==
  LET T == {Text(Costly \o l) : l \in Tails}
  IN  {[Text(Costly) EXCEPT !.limits.wires = n] : n \in 1..13}
        \cup {[t EXCEPT !.limits.wires = n] : t \in T, n \in 13..18}
        \cup {[t EXCEPT !.limits.gates = n] : t \in T, n \in 1..13}
        \cup {[t EXCEPT !.limits.wires = WireCeiling + 1, !.limits.gates = GateCeiling + 1] : t \in T}

-----------------------------------------------------------------------------
(* Calls of the registry, and what is asked of the programs that make them. *)

\* n words that differ with seed.
Mixed(n, seed) ==
  [k \in 1..n |-> {b \in 0..(WordBits - 1) : (((k * k * 7 + seed * k) + seed) \div (b + 2)) % 2 = 1}]
Words(n) == {[k \in 1..n |-> f[k]] : f \in [1..n -> Word]}

Ask(exts, insts) ==
  {[given |-> TRUE, ext |-> e, inst |-> i, check |-> c] : e \in exts, i \in insts, c \in BOOLEAN}
Asking(t, requests) == [t EXCEPT !.ask = requests]
Refusals == {[given |-> FALSE, ext |-> <<>>, inst |-> <<>>, check |-> TRUE],
             [given |-> TRUE, ext |-> <<>>, inst |-> <<{}>>, check |-> TRUE],
             [given |-> TRUE, ext |-> <<{}, {}>>, inst |-> <<>>, check |-> TRUE]}

W(name, n) == Decl("WITNESS", name, Vec(n))
Names(names) == [i \in 1..Len(names) |-> <<All(names[i])>>]
LastIs(name, index) ==
  [Do("ASSERT_EQUAL", <<"x", "x">>, <<>>) EXCEPT !.args[1] = <<At(name, index)>>]
\* Inputs of the given lengths, a call, its last output byte compared with x.
CallText(name, selector, lens, outBytes) ==
  LET arg(i) == "in" \o ToString(i)
  IN  Text(([i \in 1..Len(lens) |-> W(arg(i), lens[i])]
              \o <<Decl("INSTANCE", "x", Byte)>>)
             \o <<Crypto(name, selector, Names([i \in 1..Len(lens) |-> arg(i)]), <<"y">>),
                  LastIs("y", outBytes - 1)>>)
Sampled(t, n) == Asking(t, Ask({Mixed(n, 3)}, Words(1)))

Schedule == Len(Zeros(ScheduleWords(BlockBytes) * AesRows))
Rk == <<W("r1", 8), W("r2", Schedule - 8), W("p", BlockBytes), Decl("INSTANCE", "x", Byte),
        Crypto("encrypt_rounds_128", "none", <<<<All("r1"), All("r2")>>, <<All("p")>>>>, <<"y">>),
        LastIs("y", 0)>>

Primitives ==
  { Sampled(CallText("keyschedule_128", "none", <<4>>, Schedule), 4),
    Sampled(CallText("encrypt_128", "none", <<4, 4>>, 4), 8),
    Sampled(CallText("encrypt_256", "none", <<8, 4>>, 4), 12),
    Sampled(CallText("cmac_aes_128", "none", <<4, 0>>, 4), 4),
    Sampled(CallText("cmac_aes_128", "none", <<4, 4>>, 4), 8),
    Sampled(CallText("cmac_aes_128", "none", <<4, 5>>, 4), 9),
    Sampled(Text(Rk), Schedule + 4),
    Asking(Text(Prologue \o Use("never")), {}),
    Asking(Text(<<Decl("WITNESS", "a", Byte), Decl("INSTANCE", "x", Byte),
                  Crypto("sbox", "none", Names(<<"a">>), <<"y">>),
                  Do("ASSERT_EQUAL", <<"y", "x">>, <<>>)>>), Ask(Words(1), Words(1)) \cup Refusals) }

\* Lengths, counts, names and brackets that the registry does not take.
Misused ==
  { CallText("sbox", "none", <<2>>, 1), CallText("encrypt_128", "none", <<4>>, 1),
    CallText("encrypt_128", "none", <<4, 5>>, 1), CallText("encrypt_128", "aes_dm", <<4, 4>>, 1),
    CallText("sha", "none", <<4>>, 1), CallText("cmac_aes_128", "none", <<4, ParamMax + 1>>, 1),
    CallText("cmac_aes_128", "none", <<4, ParamMax>>, 1),
    [CallText("encrypt_128", "none", <<4, 4>>, 4) EXCEPT !.limits.wires = 80],
    CallText("path_secret", "none", <<2, 4, 1>>, 4), CallText("path_secret", "sha", <<2, 4, 1>>, 4),
    [CallText("path_secret", "aes_dm", <<2, 4, 1>>, 4) EXCEPT !.header.stdlib = 1],
    CallText("path_secret", "aes_dm", <<2, 4>>, 4), CallText("path_secret", "aes_dm", <<2, 5, 1>>, 4),
    CallText("path_secret", "aes_dm", <<2, 0, 0>>, 4),
    CallText("path_secret", "hirose_fixed_32", <<7, 8, 1>>, 4),
    CallText("ring_sig", "aes_dm", <<2, 1, 4, 4>>, 4),
    CallText("path_secret", "aes_dm", <<2, 8, 2>>, 4),
    CallText("path_secret", "aes_dm", <<2, 4 * (DepthMax + 1), DepthMax + 1>>, 4) }

\* The arguments of a hash entry as witnesses, its root, where it takes one, as
\* an instance; dir: the words of the directions, of which {1} is no bit.
Arguments(name, h, params) ==
  LET e == HashRegistry[name]
  IN  [i \in 1..Len(e.ins) |-> ArgLen(e, h, params, i)]
PathRoot(name, h, a) ==
  LET path == CASE name = "path_secret" -> <<a[1], a[2], a[3]>>
                [] name = "nonmember_secret" -> <<(a[2] \o a[3]) \o a[4], a[5], a[6]>>
                [] name = "ring_sig" -> <<a[1], a[3], a[2]>>
  IN  ComposeLeafInodes(h, path[1], path[2], path[3]).out
RootOf(name, h, params, ext) ==
  PathRoot(name, h, Parts(HashRegistry[name], h, params, ext \o Zeros(NodeBytes(h))))
Proving(name, h, params, exts) ==
  LET n == Len(Arguments(name, h, params))
      arg(i) == "in" \o ToString(i)
      t == Text([i \in 1..n |-> IF i = n THEN Decl("INSTANCE", arg(i), Vec(NodeBytes(h)))
                                ELSE W(arg(i), Arguments(name, h, params)[i])]
                  \o <<Crypto(name, h, Names([i \in 1..n |-> arg(i)]), <<>>)>>)
  IN  Asking(t, UNION {Ask({x}, {RootOf(name, h, params, x), Mixed(NodeBytes(h), 5)}) : x \in exts})

\* path_secret: leaf, siblings, directions
PathText(h, leaf, depth) ==
  CallText("path_secret", h, <<leaf, depth * NodeBytes(h), depth>>, NodeBytes(h))
PathAsk(h, leaf, depth) ==
  LET fixed == Mixed(leaf + depth * NodeBytes(h), 2)
  IN  UNION {Ask({fixed \o d}, {<<Last(RootOf("path_secret", h, <<depth, leaf>>, fixed \o d))>>, <<{}>>}) :
               d \in {[k \in 1..depth |-> v] : v \in {{}, One, {1}}}}

\* nonmember_secret: target, low, hi, index, siblings, direction
Absent(target, low, hi) == (<<target, low, hi>> \o Mixed(1 + BlockBytes, 4)) \o <<One>>

\* ring_sig: key, direction, siblings
Signed(n, dir) == (Mixed(n, 3) \o <<dir>>) \o Mixed(BlockBytes, 6)

Paths == {<<"aes_dm", 3, 1>>, <<"aes_dm", 5, 2>>, <<"hirose_fixed_32", 8, 1>>}
Proofs ==
  { [name |-> "nonmember_secret", params |-> <<1, 1, 1>>,
     exts |-> {Absent({0}, {}, {0, 1}), Absent({0}, {0}, {1}), Absent({1}, {0}, {1})}],
    [name |-> "nonmember_secret", params |-> <<4, 1, 1>>, exts |-> {}],
    [name |-> "ring_sig", params |-> <<2, 1>>, exts |-> {Signed(2, d) : d \in {{}, {1}}}],
    [name |-> "ring_sig", params |-> <<1, 1>>, exts |-> {Signed(1, One)}] }

\* A table is filled beside the last, and beside a cipher.
Constructions ==
  {Asking(PathText(q[1], q[2], q[3]), PathAsk(q[1], q[2], q[3])) : q \in Paths}
    \cup {[Proving(q.name, "aes_dm", q.params, q.exts) EXCEPT !.fill = (q.params = <<1, 1>>)] :
            q \in Proofs}
Filling == {[Sampled(CallText("encrypt_128", "none", <<4, 4>>, 4), 8) EXCEPT !.fill = TRUE]}

\* Words nobody supplies: a body's own, and one a product asks for.
Unsupplied ==
  { Asking(Text(Prologue \o (Hides \o <<Call("twice", <<"a">>, <<"y">>)>>)), Ask({<<One, One>>}, {<<One>>})),
    Asking(Text(Costly), Ask(Words(2), Words(1))) }

MCTexts ==
  {Rendered(t) : t \in UNION {Pairs, AssertTexts, Damages, Declarations, Headers, Spelling1, Faults, Subcircuits, Nested,
                             Limits, Primitives, Misused, Constructions, Filling, Unsupplied}}
MCRequests(t, p) == t.ask
MCRegistering(t, tab) == t.fill /\ Len(tab) \in {0, 1, 7}
MCBackends ==
  { Backend("hash", "encrypt_128", "none", "faulty"), Backend("hash", "encrypt_128", "none", "sbox"),
    [Backend("hash", "encrypt_128", "none", "faulty") EXCEPT !.hash = FALSE],
    Backend("name", "encrypt_128", "none", "encrypt_128"),
    Backend("construction", "ring_sig", "aes_dm", "faulty"),
    Backend("construction", "ring_sig", "aes_dm", "ring_sig") }

-----------------------------------------------------------------------------
(* What a text means in a world: ext and inst hold the words of the file's *)
(* inputs, hid those its bodies declare.  ok: the text is well formed.  A  *)
(* call names a definition that precedes it, from a body too, and the body *)
(* of a definition is well formed whether anything calls it or not         *)
(* (docs/specs/SHIPSHAPE_SPEC.md:846, 1664, 1750).                         *)

Limit(asked, ceiling) == IF asked \in 1..ceiling THEN asked ELSE ceiling

RECURSIVE Means(_, _, _, _, _)

BoundIn(s, name) == {d \in Range(s.env) : d.name = name}
The(s, name) == CHOOSE d \in BoundIn(s, name) : TRUE
Readable(s, o) ==
  BoundIn(s, o.name) # {} /\ (o.index # Whole => The(s, o.name).vector
                                                 /\ o.index < Len(The(s, o.name).vals))
Read(s, o) == IF o.index = Whole THEN The(s, o.name).vals ELSE <<The(s, o.name).vals[o.index + 1]>>
OneWord(s, o) == Readable(s, o) /\ (The(s, o.name).vector => o.index # Whole)

Value(v, pub) == [v |-> v, pub |-> pub]
Binding(name, vals, type, decl) ==
  [name |-> name, vals |-> vals, vector |-> type.vector, bit |-> type.bit, decl |-> decl]
Require(s, cond) == [s EXCEPT !.ok = @ /\ cond]
Hold(s, cond) == [s EXCEPT !.holds = @ /\ cond]
BindTo(s, name, vals, type, decl) ==
  [s EXCEPT !.ok = @ /\ BoundIn(s, name) = {}, !.env = Append(@, Binding(name, vals, type, decl))]

\* The wires an operation takes, with those that are gates.
Takes(l) ==
  CASE l.op \in {"ADD", "ADD_CONST", "LINEAR_MAP", "SQUARE", "MUL", "SCALE_INSTANCE",
                 "ASSERT_CONST"} -> [wires |-> 1, gates |-> 1]
    [] l.op = "MUX" -> [wires |-> 3, gates |-> 3]
    [] l.op = "INV" -> [wires |-> 3, gates |-> 2]
    [] l.op = "SUM" -> [wires |-> Len(l.args) - 1, gates |-> Len(l.args) - 1]
    [] l.op = "FROBENIUS_K" -> [wires |-> l.k, gates |-> l.k]
    [] l.op \in {"CONST", "CONST_BIT"} -> [wires |-> 1, gates |-> 0]
    [] l.op \in {"WITNESS", "INSTANCE"} -> [wires |-> l.type.length, gates |-> 0]
    [] OTHER -> [wires |-> 0, gates |-> 0]
Pay(s, cost) == [s EXCEPT !.wires = @ + cost.wires, !.gates = @ + cost.gates]

Operands == [ADD |-> 2, ADD_CONST |-> 1, LINEAR_MAP |-> 1, SQUARE |-> 1, MUL |-> 2,
             SCALE_INSTANCE |-> 2, MUX |-> 3, INV |-> 1, FROBENIUS_K |-> 1, ASSERT_BIT |-> 1]
Checks == [ASSERT_ZERO |-> 1, ASSERT_EQUAL |-> 2, ASSERT_PRODUCT |-> 3, ASSERT_CONST |-> 1]

Power(x, n) == FoldLeft(LAMBDA p, i : GfMul(p, p), x, [i \in 1..n |-> i])
Added(xs) == FoldLeft(Xor, {}, xs)

\* The word an operation gives on the words xs.
Gives(l, xs) ==
  CASE l.op \in {"ADD", "SUM"} -> Added(xs)
    [] l.op = "ADD_CONST" -> Xor(xs[1], l.val)
    [] l.op = "LINEAR_MAP" -> Added([j \in 1..WordBits |-> IF j - 1 \in xs[1]
                                       THEN {i \in 0..(WordBits - 1) : j - 1 \in l.matrix[i]} ELSE {}])
    [] l.op = "SQUARE" -> GfMul(xs[1], xs[1])
    [] l.op \in {"MUL", "SCALE_INSTANCE"} -> GfMul(xs[1], xs[2])
    [] l.op = "MUX" -> IF xs[1] = {} THEN xs[2] ELSE xs[3]
    [] l.op = "INV" -> FieldInverse(xs[1])
    [] l.op = "FROBENIUS_K" -> Power(xs[1], l.k)
    [] l.op = "ASSERT_BIT" -> xs[1]
Claims(l, xs) ==
  CASE l.op = "ASSERT_ZERO" -> xs[1] = {}
    [] l.op = "ASSERT_EQUAL" -> xs[1] = xs[2]
    [] l.op = "ASSERT_PRODUCT" -> GfMul(xs[1], xs[2]) = xs[3]
    [] l.op = "ASSERT_CONST" -> xs[1] = l.val
    [] l.op = "ASSERT_BIT" -> xs[1] \in {{}, One}
    [] OTHER -> TRUE

\* What an operation asks besides the number and the form of its operands.
Typed(t, s, l) ==
  CASE l.op = "MUX" -> The(s, l.args[1][1].name).bit
    [] l.op = "SCALE_INSTANCE" -> Minor(t.header.version) >= ScaleMinor /\ Read(s, l.args[2][1])[1].pub
    [] l.op = "SUM" -> Len(l.args) >= 2
    [] l.op = "FROBENIUS_K" -> l.k >= 1
    [] l.op = "ASSERT_BIT" -> l.type.bit
    [] OTHER -> TRUE

Operation(t, s, l) ==
  LET n == IF l.op = "SUM" THEN Len(l.args)
           ELSE IF l.op \in DOMAIN Operands THEN Operands[l.op] ELSE Checks[l.op]
      formed == /\ Len(l.args) = n /\ (\A i \in 1..n : OneWord(s, l.args[i][1])) /\ Typed(t, s, l)
                /\ Len(l.outs) = IF l.op \in DOMAIN Checks THEN 0 ELSE 1
      xs == [i \in 1..n |-> Read(s, l.args[i][1])[1].v]
      claimed == Hold(Pay(s, Takes(l)), Claims(l, xs))
      \* A narrowed name is the same word, public if that is.
      out == Value(Gives(l, xs), l.op = "ASSERT_BIT" /\ Read(s, l.args[1][1])[1].pub)
  IN  IF ~ formed THEN Require(s, FALSE)
      ELSE IF l.op \in DOMAIN Checks THEN claimed
      ELSE BindTo(claimed, l.outs[1], <<out>>, Scal(l.op = "ASSERT_BIT"), "none")

Declaration(t, w, s, l, inBody) ==
  LET n == l.type.length
      own == IF inBody THEN w.hid ELSE w.ext
      used == IF inBody THEN s.hidden ELSE s.given
      Word0(xs, k) == IF k <= Len(xs) THEN xs[k] ELSE {}
      vals == CASE l.op = "WITNESS" -> [k \in 1..n |-> Value(Word0(own, used + k), FALSE)]
                [] l.op = "INSTANCE" -> [k \in 1..n |-> Value(Word0(w.inst, s.public + k), TRUE)]
                [] l.op = "CONST" -> <<Value(l.val, FALSE)>>
                [] l.op = "CONST_BIT" -> <<Value(IF l.k = 1 THEN One ELSE {}, FALSE)>>
      type == IF l.op = "CONST_BIT" THEN Bit ELSE IF l.op = "CONST" THEN Byte ELSE l.type
      formed == CASE l.op = "INSTANCE" -> ~ l.type.bit /\ ~ inBody /\ n <= MaxVectorLen
                  [] l.op = "WITNESS" -> n <= MaxVectorLen
                  [] l.op = "CONST_BIT" -> l.k \in {0, 1}
                  [] OTHER -> TRUE
      bits == l.op = "WITNESS" /\ l.type.bit => \A k \in 1..n : vals[k].v \in {{}, One}
      counted == CASE l.op = "INSTANCE" -> [s EXCEPT !.public = @ + n]
                   [] l.op = "WITNESS" /\ inBody -> [s EXCEPT !.hidden = @ + n]
                   [] l.op = "WITNESS" -> [s EXCEPT !.given = @ + n]
                   [] OTHER -> s
  IN  IF ~ formed THEN Require(s, FALSE)
      ELSE BindTo(Hold(Pay(counted, Takes(l)), bits), l.outs[1], vals, type,
                  IF inBody THEN "none" ELSE IF l.op = "CONST_BIT" THEN "const"
                  ELSE CASE l.op = "CONST" -> "const" [] l.op = "WITNESS" -> "witness"
                         [] l.op = "INSTANCE" -> "instance")

\* A line that cannot be read at all, and one that can but is no statement.
Unreadable(t, l) ==
  LET cap == Limit(t.limits.line, LineCeiling)
  IN  (l.stray \in 1..(cap + 1)) \/ l.bytes > cap \/ l.refused = 1
Garbled(l) == l.refused > 1 \/ l.gap # 0 \/ l.extra # 0

\* The definition that starts at line i: it ends at the first brace.
Ends(t, i, to) ==
  LET ends == {j \in (i + 1)..to :
                 Unreadable(t, t.source[j]) \/ (t.source[j].op = "END" /\ t.source[j].gap = 0)}
  IN  IF ends = {} THEN to + 1 ELSE Min(ends)

\* The body of d in a scope that holds its parameters only, among the
\* definitions that precede it.
Precede(s, d) == SelectSeq(s.subs, LAMBDA e : e.last < d.first)
BodyOf(t, w, s, d, args, depth) ==
  LET scope == [i \in 1..Len(args) |->
                  Binding(d.head.params[i].name, args[i], d.head.params[i].type, "none")]
  IN  Means(t, w, [s EXCEPT !.env = scope, !.subs = Precede(s, d), !.from = d.first], d.last, depth)
ResultFits(body, p) ==
  /\ BoundIn(body, p.name) # {}
  /\ The(body, p.name).vector = p.type.vector
  /\ Len(The(body, p.name).vals) = p.type.length
  /\ p.type.bit => The(body, p.name).bit
Delivers(body, d) == body.ok /\ \A p \in Range(d.head.results) : ResultFits(body, p)

\* Words that stand for any.
Whatever(p) == [k \in 1..p.type.length |-> Value({}, TRUE)]
AnyOf(params) == [i \in 1..Len(params) |-> Whatever(params[i])]
Distinct(params) == \A i, j \in 1..Len(params) : i # j => params[i].name # params[j].name

\* Its calls are read by the heads of what they call.
BodyFormed(t, w, s, d) ==
  Delivers(BodyOf(t, w, [s EXCEPT !.byHead = TRUE], d, AnyOf(d.head.params), 1), d)

DefineIn(t, w, s, i, to, inBody) ==
  LET l == t.source[i]
      j == Ends(t, i, to)
      d == [name |-> l.path.name, head |-> l, first |-> i + 1, last |-> j - 1]
      formed == /\ ~ inBody /\ l.path.space = "user"
                /\ j <= to /\ t.source[j].op = "END" /\ t.source[j].args = <<>>
                /\ ~ Unreadable(t, t.source[j]) /\ ~ Garbled(t.source[j])
                /\ \A e \in Range(s.subs) : e.name # l.path.name
                /\ \A p \in Range(l.params) \cup Range(l.results) : p.type.length <= MaxVectorLen
                /\ Distinct(l.params) /\ Distinct(l.results)
                /\ BodyFormed(t, w, s, d)
  IN  [Require(s, formed) EXCEPT !.subs = Append(@, d), !.from = j + 1]

\* The words of each argument.
ArgsReadable(s, l) == \A i \in DOMAIN l.args : \A k \in DOMAIN l.args[i] : Readable(s, l.args[i][k])
ArgVals(s, l) ==
  [i \in 1..Len(l.args) |-> FlattenSeq([k \in 1..Len(l.args[i]) |-> Read(s, l.args[i][k])])]
Plain(vals) == [k \in 1..Len(vals) |-> vals[k].v]

\* An argument of a bit is made of bits.
UserCall(t, w, s, l, depth) ==
  LET found == {d \in Range(s.subs) : d.name = l.path.name}
      d == CHOOSE d \in found : TRUE
      args == ArgVals(s, l)
      formed == /\ found # {} /\ l.selector = "none" /\ ArgsReadable(s, l)
                /\ Len(l.args) = Len(d.head.params) /\ Len(l.outs) = Len(d.head.results)
                /\ \A i \in 1..Len(args) :
                     /\ Len(args[i]) = d.head.params[i].type.length
                     /\ d.head.params[i].type.bit => \A o \in Range(l.args[i]) : The(s, o.name).bit
      body == BodyOf(t, w, s, d, args, depth + 1)
      back == [body EXCEPT !.env = s.env, !.subs = s.subs, !.from = s.from]
      Bind1(r, j, vals) == BindTo(r, l.outs[j], vals, d.head.results[j].type, "none")
      Give(r, j) == Bind1(r, j, The(body, d.head.results[j].name).vals)
      GiveAny(r, j) == Bind1(r, j, Whatever(d.head.results[j]))
      outs == [j \in 1..Len(l.outs) |-> j]
  IN  IF ~ formed THEN Require(s, FALSE)
      ELSE IF s.byHead THEN Over(GiveAny, s, outs)
      ELSE IF depth >= MaxInlineDepth \/ ~ Delivers(body, d) THEN Require(s, FALSE)
      ELSE Over(Give, back, outs)

\* The constructions, on words: holds is what they assert.
Number(xs) ==
  FoldLeft(LAMBDA n, k : 2 * n + (IF (WordBits - 1) - ((k - 1) % WordBits)
                                       \in xs[Len(xs) - ((k - 1) \div WordBits)] THEN 1 ELSE 0),
           0, [k \in 1..(Len(xs) * WordBits) |-> k])
Binary01(xs) == \A k \in DOMAIN xs : xs[k] \in {{}, One}
Construction(name, a, root) ==
  CASE name = "path_secret" -> [holds |-> Binary01(a[3]), out |-> root]
    [] name = "nonmember_secret" ->
         [holds |-> /\ Binary01(a[6]) /\ Number(a[2]) < Number(a[1]) /\ Number(a[1]) < Number(a[3])
                    /\ root = a[7], out |-> <<>>]
    [] name = "ring_sig" -> [holds |-> Binary01(a[2]) /\ root = a[4], out |-> <<>>]

Private(xs) == [k \in 1..Len(xs) |-> Value(xs[k], FALSE)]
MeansRegistry(s, l) ==
  LET e == Registry[l.path.name]
      args == ArgVals(s, l)
      formed == /\ l.selector = "none" /\ ArgsReadable(s, l) /\ Len(l.outs) = 1
                /\ Len(args) = Len(InLens(e))
                /\ \A i \in 1..Len(args) : IF InLens(e)[i] = Inferred THEN Len(args[i]) <= ParamMax
                                           ELSE Len(args[i]) = InLens(e)[i]
                /\ Cost(e, Len(Last(args))).blocks <= MaxBlocks
      out == Private(Compute(Gadgets[e.kernel], EntryArgs(e, Plain(FlattenSeq(args)))).out)
      called == [s EXCEPT !.calls = Append(@, [name |-> l.path.name, hash |-> "none",
                                               params |-> <<Len(Last(args))>>])]
  IN  IF ~ formed THEN Require(s, FALSE)
      ELSE BindTo(called, l.outs[1], out, [bit |-> FALSE, vector |-> e.kernel # "sbox"], "none")

\* Some parameters give each argument its length.
MeansHash(t, s, l) ==
  LET e == HashRegistry[l.path.name]
      h == l.selector
      args == ArgVals(s, l)
      Fits(p) ==
        /\ \A i \in 1..Len(args) : Len(args[i]) = ArgLen(e, h, p, i)
        /\ \A k \in DOMAIN p : p[k] \in e.mins[k]..e.maxs[k]
        /\ LeafAdmitted(e, h, p)
        /\ HashCost(e, h, p).blocks <= MaxBlocks
        /\ Len(p) = 3 => LeafWidth(e, p) <= LeafMax
      fit == {p \in [1..Len(e.mins) -> 0..MaxVectorLen] : Fits(p)}
      formed == /\ t.header.stdlib = 2 /\ h \in HashTypes /\ ArgsReadable(s, l)
                /\ Len(l.args) = Len(e.ins) /\ Len(l.outs) = IF e.out THEN 1 ELSE 0
                /\ fit # {}
      Called(r) == Hold([s EXCEPT !.calls = Append(@, [name |-> l.path.name, hash |-> h,
                                                       params |-> CHOOSE p \in fit : TRUE])], r.holds)
      Outcome(r) == IF e.out THEN BindTo(Called(r), l.outs[1], Private(r.out), Vec(0), "none")
                    ELSE Called(r)
  IN  IF ~ formed THEN Require(s, FALSE)
      ELSE Then(Then([i \in 1..Len(args) |-> Plain(args[i])],
                     LAMBDA a : Construction(l.path.name, a, PathRoot(l.path.name, h, a))), Outcome)

\* Line i of the lines up to to; a definition skips to its end.
MeansLine(t, w, s, i, to, depth) ==
  LET l == t.source[i]
      at == [s EXCEPT !.from = i + 1]
  IN  IF ~ s.ok \/ s.from # i THEN s
      ELSE IF Unreadable(t, l) \/ Garbled(l) \/ l.op \in {"END", "UNKNOWN"} THEN Require(s, FALSE)
      ELSE CASE l.op = "BLANK" -> at
             [] l.op \in {"WITNESS", "INSTANCE", "CONST", "CONST_BIT"} ->
                  Declaration(t, w, at, l, depth > 0)
             [] l.op \in DOMAIN Checks \cup DOMAIN Operands \cup {"SUM"} -> Operation(t, at, l)
             [] l.op = "subcircuit" -> DefineIn(t, w, s, i, to, depth > 0)
             [] l.op = "CALL" ->
                  CASE l.path.space = "user" -> UserCall(t, w, at, l, depth)
                    [] l.path.space = "crypto" /\ l.path.name \in DOMAIN Registry ->
                         MeansRegistry(at, l)
                    [] l.path.space = "crypto" /\ l.path.name \in DOMAIN HashRegistry ->
                         MeansHash(t, at, l)
                    [] OTHER -> Require(s, FALSE)

Means(t, w, s, to, depth) ==
  Over(LAMBDA r, i : MeansLine(t, w, r, i, to, depth), s,
       [k \in 1..Max({0, (to - s.from) + 1}) |-> (s.from + k) - 1])

Unread == [ok |-> TRUE, holds |-> TRUE, env |-> <<>>, subs |-> <<>>, calls |-> <<>>, from |-> 1,
           byHead |-> FALSE, wires |-> 0, gates |-> 0, given |-> 0, public |-> 0, hidden |-> 0]
World(ext, inst, hid) == [ext |-> ext, inst |-> inst, hid |-> hid]
Meaning(t, w) == Means(t, w, Unread, Len(t.source), 0)

-----------------------------------------------------------------------------
(* What each parser promises.                                              *)

Emission(g) ==
  LET lens == IF g.hash = "none" THEN InLens(Registry[g.name]) ELSE Arguments(g.name, g.hash, g.params)
      own == FoldLeft(LAMBDA n, len : n + (IF len = Inferred THEN g.params[1] ELSE len), 0, lens)
      in == [k \in 1..own |-> k - 1]
  IN  Then(Emit(IF g.hash = "none" THEN Gadgets[Registry[g.name].kernel] ELSE g.name,
                Layer(NewCircuit, [k \in 1..own |-> WitnessWire]).c,
                IF g.hash = "none" THEN EntryArgs(Registry[g.name], in)
                ELSE <<g.hash>> \o Parts(HashRegistry[g.name], g.hash, g.params, in)).c, LAMBDA c : [wires |-> Len(c.wires) - own,
                               gates |-> (Len(c.wires) - c.nWitness) - c.nConst])

WellHeaded(t) ==
  /\ t.given = "all" /\ t.bytes \in 1..Limit(t.limits.bytes, ByteCeiling)
  /\ t.from = "file" => t.io = "ok"
  /\ t.header.magic = ".shipshape" /\ t.header.field = "0x11B" /\ t.header.stdlib \in {1, 2}
  /\ t.header.version \in {<<1>>} \cup {<<1, m>> : m \in 0..MaxMinor}
  /\ t.header.omitted = 0 /\ t.header.longer = 0 /\ t.header.stray = 0

\* Well formed and within its limits.
Within(t, s) ==
  \E all \in {Over(LAMBDA r, g : Pay(r, Emission(g)), s, s.calls)} :
    /\ all.wires <= Limit(t.limits.wires, WireCeiling)
    /\ all.gates <= Limit(t.limits.gates, GateCeiling)
Legal(t, s) == WellHeaded(t) /\ s.ok /\ Within(t, s)

\* The words of the caller in the slots of their wires, others in the rest.
ExternalSlots(p) == {Nth(p.circuit, "witness", w) : w \in ExternalWires(p)}
OtherSlots(p) == (0..(p.circuit.nWitness - 1)) \ ExternalSlots(p)
Assembled(p, ext, others) ==
  [k \in 0..(p.circuit.nWitness - 1) |->
     IF k \in DOMAIN others THEN others[k]
     ELSE ext[Cardinality({j \in ExternalSlots(p) : j <= k})]]
FromZero(xs) == [k \in 0..(Len(xs) - 1) |-> xs[k + 1]]
Holds(p, witness, inst) == Satisfied(p.circuit, Vals(p.circuit, witness, FromZero(inst)))

\* The circuit has a witness for these inputs; a large one is tried on the
\* words its generator gives.
Satisfiable(p, small, ext, inst) ==
  IF small THEN \E others \in [OtherSlots(p) -> Word] : Holds(p, Assembled(p, ext, others), inst)
  ELSE \E w \in {WitnessGen(p, <<>>, [given |-> TRUE, ext |-> ext, inst |-> inst, check |-> FALSE])} :
         w.code = "ok" /\ Holds(p, FromZero(w.out), inst)

Shaped(s, q) == q.given /\ Len(q.ext) = s.given /\ Len(q.inst) = s.public
Small(p, s) == s.given + s.public <= 4 /\ Cardinality(OtherSlots(p)) <= 2
Declared(s) == [k \in 1..Len(s) |-> [name |-> s[k].name, decl |-> s[k].decl]]
IsDecl(d) == d.decl # "none"

\* The inputs on which p is tried.
Trials(t, p, s) ==
  IF Small(p, s) THEN (IF t.limits = NoLimits THEN Words(s.given) \X Words(s.public) ELSE {})
  ELSE {<<q.ext, q.inst>> : q \in {q \in t.ask : Shaped(s, q)}}

\* The program holds of the inputs, for some words of its bodies, just if its
\* circuit has a witness.
AcceptedAsMeant(t, p, s) ==
  /\ Declared(p.decls) = Declared(SelectSeq(s.env, IsDecl))
  /\ Cardinality(ExternalWires(p)) = s.given /\ p.circuit.nInstance = s.public
  /\ \A trial \in Trials(t, p, s) :
       (\E h \in IF Small(p, s) THEN Words(s.hidden) ELSE {<<>>} :
          Meaning(t, World(trial[1], trial[2], h)).holds)
         <=> Satisfiable(p, Small(p, s), trial[1], trial[2])

-----------------------------------------------------------------------------
(* Files of gates: each wire is an input or the target of one gate.        *)

GateLine(ints, word) == [ints |-> ints, word |-> word]
GatesAt(w, u) ==
  {GateLine(<<2, 1, 0, u, w>>, "XOR"), GateLine(<<2, 1, u, 2, w>>, "AND"), GateLine(<<1, 1, u, w>>, "INV"),
   GateLine(<<1, 1, 1, w>>, "EQ"), GateLine(<<1, 1, u, w>>, "EQW")}
File(gates) == [counts |-> <<2, 5>>, roles |-> <<"witness", "instance">>, inputs |-> <<2, 2, 1>>,
                outputs |-> <<1, 2>>, gates |-> gates]
Sound == <<GateLine(<<2, 1, 0, 1, 3>>, "AND"), GateLine(<<1, 1, 3, 4>>, "EQW")>>

\* In the order of the wires, then against it.
Ordered == {File(<<g, h>>) : g \in GatesAt(3, 1), h \in GatesAt(4, 3)}
Reversed == {File(<<g, h>>) : g \in GatesAt(4, 1), h \in GatesAt(3, 4)}
Renamed ==
  LET f == File(Sound)
      second(l) == File(<<Head(Sound), l>>)
  IN  {second(GateLine(ints, word)) :
         ints \in {<<2, 1, 0, 1, 4>>, <<1, 1, 3, 4>>, <<1, 1, 3, 3>>, <<1, 1, 4, 4>>, <<1, 1, 5, 4>>,
                   <<1, 1, 2, 5>>, <<2, 1, 3, 4>>, <<1, 1, 3>>, <<1, 2, 3, 4>>, <<3, 1, 0, 1, 2, 4>>,
                   <<1, 1, 0, 4, 7>>, <<1>>},
         word \in {"XOR", "INV", "EQ", "EQW", "OR", ""}}
        \cup {[f EXCEPT !.counts = <<1, 5>>], [f EXCEPT !.counts = <<3, 5>>],
              [f EXCEPT !.counts = <<2, 6>>], [f EXCEPT !.counts = <<2>>],
              [f EXCEPT !.counts = <<2, 5, 1>>], [f EXCEPT !.inputs = <<>>],
              [f EXCEPT !.inputs = <<2>>], [f EXCEPT !.inputs = <<2, 2>>],
              [f EXCEPT !.inputs = <<1, 3>>], [f EXCEPT !.inputs = <<2, 3, 3>>],
              [f EXCEPT !.inputs = <<2, 3, 5>>], [f EXCEPT !.inputs = <<2, 0, 3, 4>>],
              [f EXCEPT !.outputs = <<>>], [f EXCEPT !.outputs = <<1>>],
              [f EXCEPT !.outputs = <<2, 1, 4>>], [f EXCEPT !.outputs = <<1, 6>>],
              [f EXCEPT !.outputs = <<2, 5, 4>>], [f EXCEPT !.outputs = <<0>>],
              [File(<<>>) EXCEPT !.counts = <<0, 0>>, !.roles = <<>>, !.inputs = <<0>>, !.outputs = <<0>>]}
NoFile == [File(<<>>) EXCEPT !.counts = <<>>]
MCFiles == UNION {Ordered, Reversed, Renamed}
NoText == [lines |-> <<>>, bytes |-> 0] @@ [Text(<<>>) EXCEPT !.given = "none"]

TotalOf(values) == FoldLeft(LAMBDA n, k : n + k, 0, Tail(values))
Announced(values) == /\ values # <<>> /\ Len(values) - 1 >= values[1]
                     /\ TotalOf(SubSeq(values, 1, values[1] + 1)) <= SizeMax
InputsOf(f) == TotalOf(SubSeq(f.inputs, 1, f.inputs[1] + 1))
OutputsOf(f) == TotalOf(SubSeq(f.outputs, 1, f.outputs[1] + 1))
TargetOf(l) == Last(l.ints)
ReadBy(l) == IF l.word = "EQ" THEN {} ELSE Range(SubSeq(l.ints, 3, Len(l.ints) - 1))

FormedGate(f, l) ==
  /\ Len(l.ints) = (IF l.word \in {"XOR", "AND"} THEN 5 ELSE 4)
  /\ l.word \in {"XOR", "AND", "INV", "EQ", "EQW"}
  /\ l.ints[1] = Len(l.ints) - 3 /\ l.ints[2] = 1
  /\ l.word = "EQ" => l.ints[3] \in {0, 1}
  /\ TargetOf(l) \in InputsOf(f)..(f.counts[2] - 1)

LegalFile(f) ==
  /\ Len(f.counts) = 2 /\ Announced(f.inputs) /\ Announced(f.outputs)
  /\ f.inputs[1] = Len(f.roles)
  /\ InputsOf(f) <= f.counts[2] /\ OutputsOf(f) <= f.counts[2] /\ f.counts[1] <= Len(f.gates)
  /\ \A k \in 1..f.counts[1] :
       /\ FormedGate(f, f.gates[k])
       /\ \A u \in ReadBy(f.gates[k]) :
            u < InputsOf(f) \/ \E j \in 1..(k - 1) : TargetOf(f.gates[j]) = u
  /\ \A u \in InputsOf(f)..(f.counts[2] - 1) :
       Cardinality({k \in 1..f.counts[1] : TargetOf(f.gates[k]) = u}) = 1

RECURSIVE BitOf(_, _, _)
BitOf(f, bits, u) ==
  IF u < InputsOf(f) THEN bits[u + 1]
  ELSE LET l == f.gates[CHOOSE k \in 1..f.counts[1] : TargetOf(f.gates[k]) = u]
           In(i) == BitOf(f, bits, l.ints[2 + i])
       IN  CASE l.word = "XOR" -> IF In(1) = In(2) THEN 0 ELSE 1
             [] l.word = "AND" -> IF In(1) = 1 THEN In(2) ELSE 0
             [] l.word = "INV" -> IF In(1) = 1 THEN 0 ELSE 1
             [] l.word = "EQ" -> l.ints[3]
             [] l.word = "EQW" -> In(1)

\* The outputs of the circuit are the last wires of the file.
Netlist(f, d) ==
  LET kinds == FlattenSeq([i \in 1..Len(f.roles) |-> [b \in 1..f.inputs[i + 1] |-> f.roles[i]]])
      Given(kind, bits) ==
        [k \in 0..(Cardinality({b \in DOMAIN kinds : kinds[b] = kind}) - 1) |->
           bits[CHOOSE b \in DOMAIN bits :
                  /\ d.circuit.wires[d.inputs[b] + 1].kind = kind
                  /\ Br!Nth(d.circuit, kind, d.inputs[b]) = k]]
  IN  /\ [b \in 1..Len(d.inputs) |-> d.circuit.wires[d.inputs[b] + 1].kind] = kinds
      /\ Len(d.outputs) = OutputsOf(f)
      /\ \A bits \in [1..Len(kinds) -> {0, 1}] :
           LET v == Br!Bits(d.circuit, Given("witness", bits), Given("instance", bits))
           IN  \A k \in 1..Len(d.outputs) :
                 v[d.outputs[k] + 1] = BitOf(f, bits, (f.counts[2] - Len(d.outputs)) + k - 1)

-----------------------------------------------------------------------------
Init ==
  /\ ShipInit /\ WitInit /\ Br!BristolInit
  /\ (text = NoText) # (file = NoFile)

\* A text or a file is parsed; the parsers share nothing.
Next ==
  \/ text # NoText /\ ShipStep /\ UNCHANGED <<witVars, brVars>>
  \/ text # NoText /\ WitStep /\ UNCHANGED brVars
  \/ file # NoFile /\ Br!BristolStep /\ UNCHANGED <<shipVars, witVars>>
vars == <<shipVars, witVars, brVars>>
Spec == Init /\ [][Next]_vars

Unasked == request = NoRequest /\ table = <<>> /\ outcome = "none"

\* A parser accepts what is well formed and within the limits, and nothing
\* else, and the circuit it gives has a witness for just the inputs of which
\* the program holds (shipshape.c:3101, bristol.c:257).
ParsesAsMeant ==
  /\ result \notin {"new", "read", "parsing", "ALLOC"} /\ Unasked =>
       \E s \in {Meaning(text, World(<<>>, <<>>, <<>>))} :
         /\ (result = "accepted") <=> Legal(text, s)
         /\ result = "accepted" => AcceptedAsMeant(text, parsed, s)
  /\ verdict \notin {"new", "parsing", "accepted", "ALLOC"} => ~ LegalFile(file)
  /\ verdict = "accepted" => LegalFile(file) /\ Netlist(file, delivered)

Honest(t) == \A b \in Range(t) : b.fn = b.name.entry

\* Spans are within the witness, and nest or are disjoint; a primitive's holds
\* as many words as its cost says.
RegionsFit(p) ==
  LET Span(g) == g.first..(g.first + g.count - 1)
      Cost1(g) == IF g.hash = "none" THEN Cost(Registry[g.name], IF Parametric(Registry[g.name])
                         THEN Len(g.inputs) - Registry[g.name].keyLen ELSE 0).invs
                  ELSE HashCost(HashRegistry[g.name], g.hash, g.params).invs
  IN  \A g \in Range(p.regions) :
        /\ Span(g) \subseteq 0..(p.circuit.nWitness - 1)
        /\ \A k \in Range(p.regions) : \/ Span(g) \subseteq Span(k) \/ Span(k) \subseteq Span(g)
                                       \/ Span(g) \cap Span(k) = {}
        /\ g.inputs # <<>> => g.count = Cost1(g)

\* A caller who asks for a check gets a witness just when the program holds of
\* the inputs, and the same one whichever correct backends are registered; a
\* faulty backend cannot make the check pass (shipshape_witness.c:82).
WitnessCompletes ==
  /\ result = "accepted" /\ Unasked => RegionsFit(parsed)
  /\ generated.code # "none" =>
       \E s \in {Meaning(text, World(request.ext, request.inst, <<>>))} :
         LET passes == generated.code = "ok"
             sure == Honest(table) /\ s.holds
         IN  /\ ~ Shaped(s, request) => ~ passes
             /\ passes /\ (request.check \/ sure) =>
                  Holds(parsed, FromZero(generated.out), request.inst)
             /\ passes /\ request.check /\ s.hidden = 0 => s.holds
             /\ Shaped(s, request) /\ sure /\ s.hidden = 0 => passes
             /\ passes /\ sure => generated.out = WitnessGen(parsed, <<>>, request).out

\* The selector of a MUX is a bit in every witness (docs/specs/SHIPSHAPE_SPEC.md:203).
SelectorsAreBits ==
  result = "accepted" /\ Unasked =>
    \A ext \in Words(Cardinality(ExternalWires(parsed))), inst \in Words(parsed.circuit.nInstance) :
      \A others \in [OtherSlots(parsed) -> Word] :
        \E v \in {Vals(parsed.circuit, Assembled(parsed, ext, others), FromZero(inst))} :
          Satisfied(parsed.circuit, v) => \A w \in selectors : v[w + 1] \in {{}, One}

\* "A file matching Appendix A is well-formed iff all of the following hold.
\* Violations are parse errors" (docs/specs/SHIPSHAPE_SPEC.md:1750): what is
\* accepted is well formed, in the bodies that nothing calls too.
AcceptsOnlyWellFormed ==
  result = "accepted" /\ Unasked => Legal(text, Meaning(text, World(<<>>, <<>>, <<>>)))

-----------------------------------------------------------------------------
\* Constants of the gadgets, over GF(4).
MCAffine == [i \in 0..1 |-> IF i = 0 THEN {0, 1} ELSE {1}]
MCLeafDomain == <<{0}, {1}, {}, {0, 1}>>
MCInodeDomain == <<{1}, {1}, {0}, {}>>
MCHiroseIv == <<{0}, {0, 1}, {1}, {}, {1}, {1}, {0}, {0}>>
MCLeafTweak == <<{0}, {}, {}, {}>>
MCInodeTweak == <<{}, {0}, {}, {}>>

\* A body asks for a bit and is given a word.
BitTexts == {Rendered(Text(Prologue \o (Chooses \o <<[Joined EXCEPT !.args[1] = <<All("a")>>],
                                            Do("ASSERT_EQUAL", <<"y", "x">>, <<>>)>>)))}

\* One text with a definition of each kind that the specification rules out:
\* a call of what follows, a call of itself, a body that is no statement, and a
\* name that is two parameters.
Loop == Body(Sub("loop", <<Pair("p", Byte)>>, <<Pair("r", Byte)>>), <<Call("loop", <<"p">>, <<"r">>)>>)
Same == Body(Sub("same", <<Pair("p", Byte), Pair("p", Byte)>>, <<Pair("r", Byte)>>), Doubling)
UnreadTexts ==
  {Rendered(Text(FlattenSeq(<<Prologue, Never, Loop, Outer, Body(Twice, Doubling), Same,
                              <<Call("same", <<"a", "x">>, <<"z">>)>>, Use("outer")>>)))}

\* One text or one file; the other is empty.
AllTexts == {NoText} \cup MCTexts
AllFiles == {NoFile} \cup MCFiles
UnreadTextsOnly == {NoText} \cup UnreadTexts
BitTextsOnly == {NoText} \cup BitTexts
NoFiles == {NoFile}
=============================================================================
