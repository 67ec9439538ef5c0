----------------------------- MODULE ConfBuild -----------------------------
(***************************************************************************)
(* Building the circuit of a confidential packet when memory runs out       *)
(* (circuits/rlnc_confidential_gf16_circuit.c with build_block of           *)
(* circuits/permutation_gf16_circuit.c over proof/gf16_circuit.c).          *)
(***************************************************************************)
EXTENDS Integers, Sequences

CONSTANT Grid     \* parts in the grid: m l t

VARIABLES
  todo,      \* the work left: "grid", block sizes to build, gates to emit
  ok,        \* alloc_ok of the circuit
  gates,     \* how many gates and assertions the circuit got
  failed     \* whether an allocation was refused

vars == <<todo, ok, gates, failed>>

\* A piece of work is a block of n wires or some gates to add.
Block(n) == [kind |-> "block", n |-> n]
Gates(n) == [kind |-> "gates", n |-> n]

Init ==
  /\ todo = <<[kind |-> "grid", n |-> Grid]>>
  /\ ok = TRUE /\ gates = 0 /\ failed = FALSE

Refused == failed' = TRUE
Granted == UNCHANGED failed

\* voleith_rlnc_confidential_gf16_circuit: grid and permuted, or nothing.
StartGrid ==
  /\ todo # <<>> /\ Head(todo).kind = "grid"
  /\ \/ /\ Refused
        /\ todo' = <<>>
     \/ /\ Granted
        /\ todo' = <<Gates(Grid), Block(Grid), Gates(Grid)>>
  /\ UNCHANGED <<ok, gates>>

\* build_block: the buffers of both halves, or nothing of this block.
StartBlock ==
  /\ todo # <<>> /\ Head(todo).kind = "block"
  /\ LET n == Head(todo).n
     IN  \/ /\ n = 1
            /\ Granted
            /\ todo' = Tail(todo)
         \/ /\ n = 2
            /\ Granted
            /\ todo' = <<Gates(1)>> \o Tail(todo)
         \/ /\ n > 2
            /\ Refused
            /\ todo' = Tail(todo)
         \/ /\ n > 2
            /\ Granted
            /\ todo' = <<Gates(n \div 2), Block((n + 1) \div 2), Block(n \div 2),
                         Gates(IF n % 2 = 1 THEN n \div 2 ELSE n \div 2 - 1)>> \o Tail(todo)
  /\ UNCHANGED <<ok, gates>>

\* voleith_gf16_add_*, assert_*: a gate that gets no memory is dropped, and
\* the circuit remembers it.
Emit ==
  /\ todo # <<>> /\ Head(todo).kind = "gates"
  /\ todo' = IF Head(todo).n <= 1 THEN Tail(todo)
             ELSE [todo EXCEPT ![1].n = @ - 1]
  /\ \/ /\ Granted
        /\ gates' = gates + 1
        /\ UNCHANGED ok
     \/ /\ Refused
        /\ ok' = FALSE
        /\ UNCHANGED gates

Next == StartGrid \/ StartBlock \/ Emit
Spec == Init /\ [][Next]_vars

\* FailureSurfaces: an allocation that failed while the circuit was built
\* shows in circuit_ok(), as the header says (rlnc_confidential_gf16_circuit.h,
\* "Errors (allocation / limits) surface via voleith_gf16_circuit_ok()").
FailureSurfaces == todo = <<>> /\ failed => ~ ok
=============================================================================
