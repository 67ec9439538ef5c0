------------------------------- MODULE Loops -------------------------------
(***************************************************************************)
(* Counted loops, and the bits of a number.  A C loop whose body maps one *)
(* value of its local variables to the next is the iteration of a FUNCTION *)
(* on those values, so that one lemma (LoopsProofs!IterateStep) unfolds    *)
(* every loop of the project.                                              *)
(***************************************************************************)
EXTENDS Naturals

\* The local variables after n executions of the loop body F, from s.
Iterate(F, s) == LET g[n \in Nat] == IF n = 0 THEN s ELSE F[g[n - 1]] IN g

\* (x >> k) & 1
BitAt(x, k) == (x \div 2^k) % 2
=============================================================================
