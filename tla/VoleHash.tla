------------------------------ MODULE VoleHash ------------------------------
(***************************************************************************)
(* The bytes voleith_vole_hash reads (proof/vole_hash.c) of the vectors    *)
(* that its callers commit to: in proof.c a slot is one bit wide, in       *)
(* gf8_proof.c and gf16_proof.c a word.  All pass the number of slots.     *)
(***************************************************************************)
EXTENDS Integers

CONSTANTS Lambdas, Slots, Degrees, Widths   \* bits of a slot: 1, 8, 16

VARIABLES vector,     \* [width, ell, degree, lambda], or NoVector
          chunks,     \* lambda-bit chunks absorbed by the Horner loop
          read        \* the bytes read, by the loop and in the blinding tail

NoVector == [width |-> 0]
HashB == 2            \* VOLEITH_VOLE_HASH_B
Nb == vector.lambda \div 8

\* voleith_qs_ellhat, voleith_gf8_qs_ellhat, voleith_gf16_qs_ellhat, in bytes
EllhatBytes(v) == (v.ell * v.width + (v.degree + 1) * v.lambda + 8 * HashB + 7) \div 8

X0Bits == vector.ell + 2 * vector.lambda
NChunks == (X0Bits + vector.lambda - 1) \div vector.lambda
LastBytes == IF X0Bits % vector.lambda = 0 THEN Nb ELSE (X0Bits % vector.lambda) \div 8

Init == vector = NoVector /\ chunks = 0 /\ read = {}

\* prove_commit
Commit(v) ==
  /\ vector = NoVector
  /\ vector' = v /\ chunks' = 0 /\ read' = {}

\* One turn of the loop.
Absorb ==
  /\ vector # NoVector /\ chunks < NChunks
  /\ LET nbytes == IF chunks + 1 < NChunks THEN Nb ELSE LastBytes
     IN  read' = read \cup (chunks * Nb)..(chunks * Nb + nbytes - 1)
  /\ chunks' = chunks + 1 /\ UNCHANGED vector

\* h_out = (h2 || h3) xor x1
Blind ==
  /\ vector # NoVector /\ chunks = NChunks
  /\ read' = read \cup (X0Bits \div 8)..(X0Bits \div 8 + Nb + HashB - 1)
  /\ chunks' = NChunks + 1 /\ UNCHANGED vector

Release ==
  /\ vector # NoVector /\ chunks = NChunks + 1
  /\ vector' = NoVector /\ chunks' = 0 /\ read' = {}

Vectors == [width : Widths, ell : Slots, degree : Degrees, lambda : Lambdas]
Next == (\E v \in Vectors : Commit(v)) \/ Absorb \/ Blind \/ Release
Spec == Init /\ [][Next]_<<vector, chunks, read>>

\* vole_hash.h:16-18: the input is the full VOLE vector, split in a data part
\* and a blinding part: once it is hashed, every byte has been read.
ReadsWholeVector ==
  vector # NoVector /\ chunks = NChunks + 1 => read = 0..(EllhatBytes(vector) - 1)
=============================================================================
