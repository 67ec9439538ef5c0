---------------------------- MODULE MCVoleProof ----------------------------
(* VoleProof on small parameter sets: five, five and two index bits over   *)
(* two, three and one vectors, with long and short ones; T_open is short   *)
(* enough that some challenges open too many seeds.                        *)
EXTENDS VoleProof, TLC

CONSTANTS c1, c2, good, bad, i1, i2, s1, s2

MCParams == {ParamsInit(6, 2, 1, 4), ParamsInit(4, 3, 0, 3), ParamsInit(2, 1, 0, 2)}
MCSatisfies == {c1, c2} \X {good} \X {i1, i2}

\* The model never tells two circuits, instances or seeds apart.
Symmetry == Permutations({c1, c2}) \cup Permutations({i1, i2}) \cup Permutations({s1, s2})
=============================================================================
