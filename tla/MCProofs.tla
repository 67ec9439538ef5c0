------------------------------ MODULE MCProofs ------------------------------
(* The three proof systems: of bits (MCQsProof), and of words, both sizes,  *)
(* over formal polynomials of characteristic two, so that what is equal    *)
(* here is equal in every field that holds the words: words have two bits  *)
(* for gf8 and three for gf16.  A polynomial is the set of its monomials,  *)
(* here a monomial is the exponents of the variables that occur.  A         *)
(* behaviour is one of one system, the others at rest.                     *)
EXTENDS MCQsProof, TLC

CONSTANTS InitialLtBits, InitialLts, InitialSynBits, InitialSyns

VARIABLES sys, refMode, wRole, wProgram, wIds, wCircuit, ctx, wProof, wVerdict
wordVars == <<refMode, wRole, wProgram, wIds, wCircuit, ctx, wProof, wVerdict>>

Modulus == {0, 1}  \* x^2 + x + 1, x^3 + x + 1
WordColumns == 24   \* four slots of three columns, a product, three blocks of masks

\* Variables: Delta, Alpha, r0, r1, s, t, then V and U, column by column; of
\* a monomial, x is the exponent of Root and of those of the others.
Symbols == 1..(6 + 2 * WordColumns)
Polynomial == SUBSET [x : Nat, of : SUBSET (Symbols \X Nat)]
Mono(x, of) == [x |-> x, of |-> of]
Symbol(n) == {Mono(0, {<<n, 1>>})}

Exponents(a, b) ==
  LET shared == {e[1] : e \in a} \cap {e[1] : e \in b}
      Other(c) == {e \in c : e[1] \notin shared}
  IN  Other(a) \cup Other(b)
        \cup {<<e[1][1], e[1][2] + e[2][2]>> : e \in {f \in a \X b : f[1][1] = f[2][1]}}

MonoTimes(m, q) == {Mono(m.x + n.x, Exponents(m.of, n.of)) : n \in q}

\* Root^bits = Root + 1, until no power of Root reaches bits.
Reduced(bits, p) ==
  LET Step[q \in Polynomial] ==
        LET high == {m \in q : m.x >= bits}
            Lower(by) == {Mono(m.x - by, m.of) : m \in high}
        IN  IF high = {} THEN q
            ELSE Step[MCPlus(MCPlus(q \ high, Lower(bits)), Lower(bits - 1))]
  IN  Step[p]

TimesMod(bits, p, q) ==
  Reduced(bits, FoldSet(LAMBDA m, sum : MCPlus(sum, MonoTimes(m, q)), {}, p))

Times2(p, q) == IF Cardinality(p) <= Cardinality(q) THEN TimesMod(2, p, q) ELSE TimesMod(2, q, p)
Times3(p, q) == IF Cardinality(p) <= Cardinality(q) THEN TimesMod(3, p, q) ELSE TimesMod(3, q, p)

UnitPoly == {Mono(0, {})}
RootPoly == {Mono(1, {})}
WordChall == [r0 |-> Symbol(3), r1 |-> Symbol(4), s |-> Symbol(5), t |-> Symbol(6)]
WordV == [k \in 0..(WordColumns - 1) |-> Symbol(7 + k)]
WordU == [k \in 0..(WordColumns - 1) |-> Symbol(7 + WordColumns + k)]

-----------------------------------------------------------------------------
\* A call; its operands are the numbers of the calls that gave them.
Ask(op, args, word, extra) == [op |-> op, args |-> args, word |-> word, extra |-> extra]
Do(op, args) == Ask(op, args, {}, [t |-> 0])
W == Do("witness", <<>>)
I == Do("instance", <<>>)
ConstCall(word) == Ask("const", <<>>, word, [t |-> 0])
Bit(n) == Do("assert_product", <<n, n, n>>)
Syndrome(args, t, idxBits, p, n0, m) ==
  Ask("assert_syndrome", args, {}, [t |-> t, idxBits |-> idxBits, p |-> p, n0 |-> n0, m |-> m])

\* The first two public inputs are bits, the third is a word.
Shared ==
  [product |-> <<W, W, Do("mul", <<1, 2>>), I, I, I, Do("assert_equal", <<3, 6>>)>>,
   linear |-> <<W, Ask("linear_map", <<1>>, {1}, [t |-> 0]), Do("square", <<2>>),
                Ask("xor_const", <<3>>, {0, 1}, [t |-> 0]), W, Do("xor", <<4, 5>>),
                Do("assert_zero", <<6>>)>>,
   \* its twin, with another matrix
   linear2 |-> <<W, Ask("linear_map", <<1>>, {0, 1}, [t |-> 0]), Do("square", <<2>>),
                 Ask("xor_const", <<3>>, {0, 1}, [t |-> 0]), W, Do("xor", <<4, 5>>),
                 Do("assert_zero", <<6>>)>>,
   \* inputs nobody reads where the table grows, and a gate past the limit
   unread |-> <<W, W, W, W, Do("assert_zero", <<4>>)>>,
   limited |-> <<Ask("limits", <<>>, {}, [t |-> 0, wires |-> 3, gates |-> 1]), W,
                 Do("square", <<2>>), Do("square", <<3>>), W, Do("assert_zero", <<2>>)>>,
   mux |-> <<ConstCall({1}), W, W, Bit(3), Do("mux", <<1, 2, 3>>), Do("assert_zero", <<5>>)>>,
   less |-> <<W, W, W, W, Bit(1), Bit(2), Bit(3), Bit(4), Do("assert_lt", <<1, 2, 3, 4>>)>>,
   \* two comparisons: the tables grow; and the same wires without them
   between |-> <<W, W, Bit(1), Bit(2), ConstCall({0}), Do("assert_lt", <<1, 2>>),
                 Do("assert_lt", <<1, 5>>)>>,
   bits |-> <<W, W, Bit(1), Bit(2), ConstCall({0})>>,
   syndrome |-> <<W, W, Bit(1), Bit(2), I, I, Syndrome(<<1, 2, 5, 6>>, 1, 2, 2, 2, [b \in {0} |-> {0, 1}])>>,
   \* two indices, whose columns may cancel
   trace |-> <<W, W, Bit(1), Bit(2), I, I, Syndrome(<<1, 2, 5, 6>>, 2, 1, 2, 1, <<>>)>>,
   \* three columns under indices of two bits, bounded by a comparison
   guarded |-> <<W, W, Bit(1), Bit(2), ConstCall({0}), Do("assert_lt", <<1, 2, 5, 5>>), I, I,
                 Syndrome(<<1, 2, 7, 8, 8>>, 1, 2, 3, 1, <<>>)>>]

Scaled ==
  [scale |-> <<W, I, I, I, Do("scale_instance", <<1, 4>>), Do("xor", <<5, 1>>),
               Do("assert_zero", <<6>>)>>,
   \* by a wire that is no public input
   misscale |-> <<W, Do("scale_instance", <<1, 1>>), Do("assert_zero", <<1>>)>>,
   muxinst |-> <<W, ConstCall({0}), I, Do("mux_instance", <<1, 2, 3>>), Do("assert_zero", <<4>>)>>]

WordWitnesses ==
  {[i \in 0..3 |-> IF i < Len(w) THEN w[i + 1] ELSE {}] :
     w \in {<<{1}, {0, 1}>>, <<{}, {0}>>, <<{0}, {}>>, <<{}, {0}, {0}, {}>>}}
WordInstances ==
  {[i \in 0..2 |-> x[i + 1]] : x \in {<<{}, {0}, {0}>>, <<{0}, {}, {1}>>}}

P8 == INSTANCE GfProof WITH
        role <- wRole, program <- wProgram, ids <- wIds, circuit <- wCircuit, proof <- wProof,
        verdict <- wVerdict, WordBits <- 2, Elem <- Polynomial, Zero <- MCZero, One <- UnitPoly, Plus <- MCPlus,
        Times <- Times2, Alpha <- Symbol(2), Root <- RootPoly, Programs <- Shared @@ Scaled,
        Witnesses <- WordWitnesses, Instances <- WordInstances, U <- WordU, V <- WordV,
        Delta <- Symbol(1), Chall <- WordChall

P16 == INSTANCE Gf16Proof WITH
         role <- wRole, program <- wProgram, ids <- wIds, circuit <- wCircuit, proof <- wProof,
         verdict <- wVerdict, WordBits <- 3, Elem <- Polynomial, Zero <- MCZero, One <- UnitPoly, Plus <- MCPlus,
         Times <- Times3, Alpha <- Symbol(2), Root <- RootPoly, Programs <- Shared,
         Witnesses <- WordWitnesses, Instances <- WordInstances, U <- WordU, V <- WordV,
         Delta <- Symbol(1), Chall <- WordChall

ProofsInit ==
  /\ Init /\ P8!Init
  /\ \/ sys \in {"gf8", "gf16"}
     \/ sys = "gf2" /\ ~ refMode

ProofsNext ==
  /\ sys' = sys
  /\ \/ sys = "gf2" /\ Next /\ UNCHANGED wordVars
     \/ sys = "gf8" /\ P8!Next /\ UNCHANGED vars
     \/ sys = "gf16" /\ P16!Next /\ UNCHANGED vars

ProofsSpec == ProofsInit /\ [][ProofsNext]_<<sys, vars, wordVars>>

\* A circuit of words that is let through is satisfied by what satisfies its
\* calls (gf8_circuit.c, gf16_circuit.c).
WordsMeanWhatWasAsked ==
  IF sys = "gf16" THEN P16!AcceptedMeansAsked ELSE P8!AcceptedMeansAsked

\* Each check of the verifier is the prover's polynomial at Delta
\* (gf8_prover.c and gf8_verifier.c; gf16_prover.c and gf16_verifier.c).
ChecksMeet == IF sys = "gf16" THEN P16!ChecksMeet ELSE P8!ChecksMeet

\* An honest proof is accepted by whoever made the same calls (gf8_proof.c,
\* gf16_proof.c).
WordsComplete == IF sys = "gf16" THEN P16!Complete ELSE P8!Complete

\* What is accepted holds (gf8_proof.c, gf16_proof.c).
WordsMeaningful == IF sys = "gf16" THEN P16!Meaningful ELSE P8!Meaningful
=============================================================================
