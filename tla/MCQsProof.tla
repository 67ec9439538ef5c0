----------------------------- MODULE MCQsProof -----------------------------
(* QsProof over formal polynomials of characteristic two, so that what is  *)
(* equal here is equal in every field: a polynomial is the set of its      *)
(* monomials, a monomial the tuple of its exponents.                       *)
EXTENDS QsProof, FiniteSetsExt

MaxColumns == 11  \* a slot per call and two blocks of two masks

\* Variables: Delta, alpha, r0, r1, s, t, then v and u, column by column.
Vars == 1..(6 + 2 * MaxColumns)
Var(n) == {[x \in Vars |-> IF x = n THEN 1 ELSE 0]}

MCZero == {}
MCOne == {[x \in Vars |-> 0]}
MCPlus(p, q) == (p \ q) \cup (q \ p)
MCTimes(p, q) ==
  FoldSet(LAMBDA m, sum : MCPlus(sum, {[x \in Vars |-> m[x] + n[x]] : n \in q}), {}, p)

MCElem == SUBSET [Vars -> Nat]
MCDelta == Var(1)
MCAlpha == Var(2)
MCChall == [r0 |-> Var(3), r1 |-> Var(4), s |-> Var(5), t |-> Var(6)]
MCV == [k \in 0..(MaxColumns - 1) |-> Var(7 + k)]
MCU == [k \in 0..(MaxColumns - 1) |-> Var(7 + MaxColumns + k)]

ASSUME MCRing ==
  RingLaws({MCZero, MCOne, Var(1), Var(7), MCPlus(Var(1), Var(7)), MCPlus(MCOne, Var(2))})

C(op, x, y, bit) == [op |-> op, x |-> x, y |-> y, bit |-> bit]
In(op) == C(op, 0, 0, 0)
Un(op, x) == C(op, x, 0, 0)
Bi(op, x, y) == C(op, x, y, 0)
Const(b) == C("const", 0, 0, b)

MCPrograms ==
  {\* a product, public
   <<In("witness"), In("witness"), Bi("and", 1, 2), In("instance"), Bi("assert_equal", 3, 4)>>,
   \* the same without the assertion
   <<In("witness"), In("witness"), Bi("and", 1, 2), In("instance")>>,
   \* a constant, one or zero
   <<In("witness"), Un("not", 1), Const(1), Bi("xor", 2, 3), Un("assert_zero", 4)>>,
   <<In("witness"), Un("not", 1), Const(0), Bi("xor", 2, 3), Un("assert_zero", 4)>>,
   \* an input nobody reads where the table grows
   <<In("witness"), In("witness"), In("witness"), In("witness"), Un("assert_zero", 4)>>,
   \* chained gates, two assertions
   <<In("witness"), In("witness"), Bi("and", 1, 2), Un("not", 3), Bi("and", 4, 1),
     Un("assert_zero", 3), Bi("assert_equal", 5, 2)>>}

MCWitnesses ==
  {[i \in 0..6 |-> IF i \in ones THEN 1 ELSE 0] : ones \in {{}, {0}, {0, 1}, {2}, {3}, {1, 2, 3}}}
MCInstances == {[i \in 0..6 |-> IF i = 0 THEN b ELSE 0] : b \in {0, 1}}

\* The variables of a released value that occur in no other.
Occurs(x, p) == \E m \in p : m[x] > 0
Released ==
  [n \in (DOMAIN proof.d) \cup {-1, -2} |-> IF n < 0 THEN proof.a[-n] ELSE proof.d[n]]

\* Nothing the prover releases is bare: every correction and both
\* coefficients have a column of u of their own, so without u they are
\* independent and uniform.
Masked ==
  proof # NoProof =>
    \A n \in DOMAIN Released :
      \E k \in DOMAIN U :
        /\ Occurs(7 + MaxColumns + k, Released[n])
        /\ \A m \in DOMAIN Released \ {n} : ~ Occurs(7 + MaxColumns + k, Released[m])
=============================================================================
