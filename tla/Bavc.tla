-------------------------------- MODULE Bavc --------------------------------
(***************************************************************************)
(* The batched all-but-one vector commitment (vole/vc.c): tau vectors of   *)
(* seeds, the leaves of one GGM tree, interleaved.  Committing hashes all  *)
(* leaves; opening at one index per vector reveals every other leaf and    *)
(* only the commitment of that one; reconstructing rebuilds the hash.      *)
(*                                                                         *)
(* The PRG and the hash are free: an output is the term that made it.  A   *)
(* seed is the path of PRG calls from the root it was drawn from, so two   *)
(* seeds are equal only when the code computes them in the same way.       *)
(***************************************************************************)
EXTENDS Loops, Integers, Sequences, FiniteSets

CONSTANT Lambdas      \* the security parameters the library supports

ASSUME LambdaAssumption == Lambdas \subseteq Nat \ {0}

MaxK == 32

-----------------------------------------------------------------------------
(* Parameters.                                                             *)

\* Each vector has 2^k or 2^(k-1) leaves, lambda - w_grind index bits in all.
ParamsInit(lambda, tau, wGrind, tOpen) ==
  LET effective == lambda - wGrind
      k == effective \div tau + 1
      tau1 == effective % tau
      tau0 == tau - tau1
  IN  [lambda |-> lambda, tau |-> tau, w |-> wGrind, T |-> tOpen, k |-> k,
       tau1 |-> tau1, tau0 |-> tau0, L |-> tau1 * 2^k + tau0 * 2^(k - 1)]

\* voleith_params_validate / voleith_vc_params_init accept the numbers.
Acceptable(lambda, tau, wGrind, tOpen) ==
  /\ lambda \in Lambdas
  /\ tau \in 1..32
  /\ wGrind \in 0..(lambda - 1)
  /\ tOpen \in Nat \ {0}
  /\ (lambda - wGrind) \div tau + 1 <= MaxK

\* What voleith_vc_params_init makes of numbers it accepts.
Legal(p) ==
  /\ Acceptable(p.lambda, p.tau, p.w, p.T)
  /\ p = ParamsInit(p.lambda, p.tau, p.w, p.T)

Vectors(p) == 0..(p.tau - 1)
Depth(p, i) == IF i < p.tau1 THEN p.k ELSE p.k - 1
VcN(p, i) == IF i < p.tau1 THEN 2^p.k ELSE 2^(p.k - 1)
Positions(p, i) == 0..(VcN(p, i) - 1)

\* The leaves of the vectors interleave: first every vector's lower half,
\* then the upper halves of the tau1 long ones.
PosInTree(p, i, j) ==
  LET half == 2^(p.k - 1)
  IN  IF j < half THEN p.L - 1 + p.tau * j + i
      ELSE p.L - 1 + p.tau * half + p.tau1 * (j % half) + i

-----------------------------------------------------------------------------
(* The tree: node a has children 2a+1 and 2a+2; the leaves are L-1..2L-2.  *)

TreeNodes(p) == 0..(2 * p.L - 2)
Parent(a) == (a - 1) \div 2

ZeroSeed == <<>>

\* PRG(seed, iv, tweak): its left (b = 0) or right (b = 1) half.
Prg(seed, iv, tweak, b) == Append(seed, <<iv, 2 * tweak + 1 + b>>)

\* The seed of node a, from those above it.
ExpandNode(root, iv, node, a) ==
  IF a = 0 THEN root ELSE Prg(node[Parent(a)], iv, Parent(a), (a + 1) % 2)

\* voleith_ggm_tree_expand
Expand(p, root, iv) ==
  LET node[a \in TreeNodes(p)] == ExpandNode(root, iv, node, a) IN node

\* One tweak serves all leaves of a vector.
LeafCommit(p, seed, iv, i) == [seed |-> seed, iv |-> iv, tweak |-> i + p.L - 1]

LeafSeed(p, tree, i, j) == tree[PosInTree(p, i, j)]

\* The hash of the vectors' hashes is the leaf commitments themselves.
BavcCommit(p, root, iv) ==
  LET tree == Expand(p, root, iv)
      Com(i, j) == LeafCommit(p, LeafSeed(p, tree, i, j), iv, i)
  IN  [tree |-> tree,
       com |-> [i \in Vectors(p) |-> [j \in Positions(p, i) |-> Com(i, j)]]]

-----------------------------------------------------------------------------
(* Opening.                                                                *)

IndexInRange(p, delta) == \A i \in Vectors(p) : delta[i] < VcN(p, i)

\* Walk up from a leaf, marking, until the parent is already marked; n
\* counts the marks made.
Climb(S, up, a) ==
  IF a = 0 \/ Parent(a) \in S THEN {a} ELSE {a} \cup up[Parent(a)]

MarkUp(m, leaf) ==
  LET up[a \in Nat] == Climb(m.S, up, a)
  IN  [S |-> m.S \cup up[leaf], n |-> m.n + Cardinality(up[leaf])]

MarkTurn(p, delta, mark, i) ==
  IF i = 0 THEN [S |-> {}, n |-> 0]
  ELSE MarkUp(mark[i - 1], PosInTree(p, i - 1, delta[i - 1]))

MarkHidden(p, delta) ==
  LET mark[i \in 0..p.tau] == MarkTurn(p, delta, mark, i) IN mark[p.tau]

\* The walk of both sides, bottom-up over the internal nodes: a mark goes up
\* from either child; where exactly one child is marked, the other's seed is
\* written, or read.
WalkNode(w, a) ==
  LET left == 2 * a + 1 \in w.S
      right == 2 * a + 2 \in w.S
  IN  [S |-> IF left \/ right THEN w.S \cup {a} ELSE w.S,
       out |-> IF left /\ ~ right THEN Append(w.out, 2 * a + 2)
               ELSE IF right /\ ~ left THEN Append(w.out, 2 * a + 1) ELSE w.out]

WalkTurn(p, S, walk, n) ==
  IF n = 0 THEN [S |-> S, out |-> <<>>] ELSE WalkNode(walk[n - 1], p.L - 1 - n)

Walk(p, S) ==
  LET walk[n \in 0..(p.L - 1)] == WalkTurn(p, S, walk, n) IN walk[p.L - 1]

\* The check that the seeds to reveal fit in the T_open slots of the buffer.
Revealed(p, delta) == MarkHidden(p, delta).n - 2 * p.tau + 1

\* Mutant of Openable: the seeds are not counted against T_open.
OpenableAnySize(p, delta) == IndexInRange(p, delta) /\ MarkHidden(p, delta).n >= 2 * p.tau

Openable(p, delta) ==
  /\ IndexInRange(p, delta)
  /\ MarkHidden(p, delta).n >= 2 * p.tau
  /\ Revealed(p, delta) <= p.T

BavcOpen(p, tree, iv, delta) ==
  LET nodes == Walk(p, MarkHidden(p, delta).S).out
  IN  [coms  |-> [i \in Vectors(p) |-> LeafCommit(p, LeafSeed(p, tree, i, delta[i]), iv, i)],
       seeds |-> [n \in 1..p.T |-> IF n <= Len(nodes) THEN tree[nodes[n]] ELSE ZeroSeed]]

-----------------------------------------------------------------------------
(* Reconstruction.                                                         *)

HiddenLeaves(p, delta) == {PosInTree(p, i, delta[i]) : i \in Vectors(p)}

\* Marks propagate bottom-up from the hidden leaves.
WalkHidden(p, delta) == Walk(p, HiddenLeaves(p, delta))

\* Mutant of Rebuildable: the padding is not looked at.
RebuildableAnyPadding(p, opening, delta) ==
  /\ Len(opening.seeds) = p.T
  /\ IndexInRange(p, delta)
  /\ Len(WalkHidden(p, delta).out) <= p.T

\* The buffer's length, the indices, the seeds it must hold, the padding.
Rebuildable(p, opening, delta) ==
  /\ Len(opening.seeds) = p.T
  /\ IndexInRange(p, delta)
  /\ LET used == Len(WalkHidden(p, delta).out)
     IN  used <= p.T /\ \A n \in (used + 1)..p.T : opening.seeds[n] = ZeroSeed

\* Seeds read from the opening, then everything unmarked expanded top-down.
RebuildNode(w, seeds, iv, key, a) ==
  IF a \in w.S THEN ZeroSeed
  ELSE IF a > 0 /\ Parent(a) \notin w.S
       THEN Prg(key[Parent(a)], iv, Parent(a), (a + 1) % 2)
       ELSE seeds[CHOOSE n \in 1..Len(w.out) : w.out[n] = a]

RebuildTree(p, seeds, delta, iv) ==
  LET w == WalkHidden(p, delta)
      key[a \in TreeNodes(p)] == RebuildNode(w, seeds, iv, key, a)
  IN  key

Rebuild(p, opening, delta, iv) ==
  LET tree == RebuildTree(p, opening.seeds, delta, iv)
      Com(i, j) == IF j = delta[i] THEN opening.coms[i]
                   ELSE LeafCommit(p, LeafSeed(p, tree, i, j), iv, i)
  IN  [tree |-> tree,
       com |-> [i \in Vectors(p) |-> [j \in Positions(p, i) |-> Com(i, j)]]]

-----------------------------------------------------------------------------
(***************************************************************************)
(* From vector commitments to VOLE correlations (vole/convert.c): the      *)
(* prover turns its leaf seeds into u and the rows of V, the verifier its  *)
(* all-but-one seeds into the rows of Q, and Q = V + Delta * u.            *)
(*                                                                         *)
(* A bit vector is a formal sum over GF(2): the set of the PRG outputs     *)
(* that are XORed together.                                                *)
(***************************************************************************)

Xor(a, b) == (a \ b) \cup (b \ a)

\* a XOR (b & mask)
MaskedXor(a, b, bit) == IF bit = 1 THEN Xor(a, b) ELSE a

\* The XOR of a family of vectors: what an odd number of them contain.
XorSum(f) ==
  {x \in UNION {f[n] : n \in DOMAIN f} : Cardinality({n \in DOMAIN f : x \in f[n]}) % 2 = 1}

\* PRG(sd, iv, i ^ 2^31): the vector that seed sd stands for.
PrgOut(sd, iv, i) == {[sd |-> sd, iv |-> iv, vec |-> i]}

\* j ^ delta, for numbers of `bits` bits
XorNumber(bits, j, delta) ==
  CHOOSE x \in 0..(2^bits - 1) :
    \A d \in 0..(bits - 1) : BitAt(x, d) = (BitAt(j, d) + BitAt(delta, d)) % 2

\* The butterfly: row j+1 adds neighbouring columns of row j; v[j] is the
\* sum of row j's odd columns, u the single column of the last row.
AddNeighbours(depth, row0, row, j) ==
  IF j = 0 THEN row0
  ELSE [c \in 0..(2^(depth - j) - 1) |-> Xor(row[j - 1][2 * c], row[j - 1][2 * c + 1])]

Butterfly(depth, row0) ==
  LET row[j \in 0..depth] == AddNeighbours(depth, row0, row, j)
  IN  [u |-> row[depth][0],
       v |-> [j \in 0..(depth - 1) |->
                XorSum([c \in 0..(2^(depth - j - 1) - 1) |-> row[j][2 * c + 1]])]]

\* voleith_convert_to_vole: sd0Bot leaves the first column zero.
ConvertToVole(p, sd, iv, sd0Bot, i) ==
  Butterfly(Depth(p, i),
            [j \in Positions(p, i) |-> IF j = 0 /\ sd0Bot THEN {} ELSE PrgOut(sd[j], iv, i)])

-----------------------------------------------------------------------------
(* Row r of V and Q is bit d of vector i, vectors in order; rows past the  *)
(* lambda - w_grind index bits are zero.                                   *)

Rows(p) == 0..(p.lambda - 1)
IndexBits(p) == p.lambda - p.w
VectorOf(p, r) == IF r < p.tau1 * p.k THEN r \div p.k
                  ELSE p.tau1 + (r - p.tau1 * p.k) \div (p.k - 1)
BitOf(p, r) == IF r < p.tau1 * p.k THEN r % p.k ELSE (r - p.tau1 * p.k) % (p.k - 1)

RowOf(p, i, d) == IF i < p.tau1 THEN i * p.k + d
                  ELSE p.tau1 * p.k + (i - p.tau1) * (p.k - 1) + d

\* voleith_decode_challenge: consecutive groups of k or k-1 bits.
DecodeChallenge(p, chall) ==
  [i \in Vectors(p) |-> (chall \div 2^RowOf(p, i, 0)) % 2^Depth(p, i)]

LeafSeeds(p, tree, i) == [j \in Positions(p, i) |-> LeafSeed(p, tree, i, j)]

VoleCommit(p, root, iv) ==
  LET bavc == BavcCommit(p, root, iv)
      vole == [i \in Vectors(p) |->
                 ConvertToVole(p, LeafSeeds(p, bavc.tree, i), iv, FALSE, i)]
  IN  [bavc |-> bavc,
       u |-> vole[0].u,
       v |-> [r \in Rows(p) |-> IF r < IndexBits(p)
                                THEN vole[VectorOf(p, r)].v[BitOf(p, r)] ELSE {}],
       c |-> [i \in 1..(p.tau - 1) |-> Xor(vole[0].u, vole[i].u)]]

\* Column m of vector i holds the seed of position m ^ delta[i], so that the
\* hidden one falls on the skipped column 0.
MovedSeeds(p, tree, delta, i) ==
  [m \in Positions(p, i) |-> LeafSeed(p, tree, i, XorNumber(Depth(p, i), m, delta[i]))]

\* The rows of every vector but the first are corrected to the first one's u.
CorrectedRow(vole, delta, c, i, d) ==
  IF i = 0 THEN vole[0].v[d] ELSE MaskedXor(vole[i].v[d], c[i], BitAt(delta[i], d))

CorrectedRows(p, vole, delta, c) ==
  [r \in Rows(p) |-> IF r < IndexBits(p)
                     THEN CorrectedRow(vole, delta, c, VectorOf(p, r), BitOf(p, r)) ELSE {}]

\* Mutant of VoleReconstruct: the seeds are not moved to their offset from delta.
VoleReconstructUnmoved(p, opening, delta, iv, c) ==
  LET rec == Rebuild(p, opening, delta, iv)
      vole == [i \in Vectors(p) |-> ConvertToVole(p, LeafSeeds(p, rec.tree, i), iv, TRUE, i)]
  IN  [com |-> rec.com, q |-> CorrectedRows(p, vole, delta, c)]

VoleReconstruct(p, opening, delta, iv, c) ==
  LET rec == Rebuild(p, opening, delta, iv)
      vole == [i \in Vectors(p) |->
                 ConvertToVole(p, MovedSeeds(p, rec.tree, delta, i), iv, TRUE, i)]
  IN  [com |-> rec.com, q |-> CorrectedRows(p, vole, delta, c)]
=============================================================================
