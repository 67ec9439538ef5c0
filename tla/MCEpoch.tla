------------------------------ MODULE MCEpoch ------------------------------
(* Epoch on small trees: what TLC checks.                                  *)
EXTENDS Epoch

CONSTANTS shallow, deep

MCDepth == [c \in {shallow, deep} |-> IF c = deep THEN MaxDepth ELSE MaxDepth - 1]
=============================================================================
