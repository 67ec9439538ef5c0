------------------------------ MODULE VcBounds ------------------------------
(***************************************************************************)
(* The depth bound on parameters a caller sets by hand.  What the library  *)
(* accepts reaches voleith_vole_reconstruct, which sizes its buffer of     *)
(* leaf seeds by shifting an int by k.                                     *)
(***************************************************************************)
EXTENDS Bavc

CONSTANT Custom       \* parameters callers try, as [lambda, tau, w, T]

VARIABLES asked,      \* the parameters in hand, or NoParams
          shift       \* by what reconstruct shifts an int, or NoShift

NoParams == [lambda |-> 0]
NoShift == -1
IntBits == 32

K(p) == (p.lambda - p.w) \div p.tau + 1

Init == asked = NoParams /\ shift = NoShift

\* voleith_params_validate returns 0.
Validate(p) ==
  /\ asked = NoParams /\ Acceptable(p.lambda, p.tau, p.w, p.T)
  /\ asked' = p /\ UNCHANGED shift

\* calloc((size_t)(1 << k), ...)
AllocateSeeds ==
  /\ asked # NoParams /\ shift = NoShift
  /\ shift' = K(asked) /\ UNCHANGED asked

Free == shift # NoShift /\ asked' = NoParams /\ shift' = NoShift

Next == (\E p \in Custom : Validate(p)) \/ AllocateSeeds \/ Free

Spec == Init /\ [][Next]_<<asked, shift>>

\* vc.h:40-43: the bound is there because the shift becomes undefined
\* behaviour at k >= 32; whatever is accepted never shifts that far.
ShiftDefined == shift < IntBits

-----------------------------------------------------------------------------
(* VcBounds on the supported security levels with every tau.               *)

MCCustom == [lambda : Lambdas, tau : 1..32, w : {0, 4, 8}, T : {112}]
=============================================================================
