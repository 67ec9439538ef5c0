------------------------------- MODULE Opener -------------------------------
(***************************************************************************)
(* What the ring circuits are made of beside gates: the node hashes and    *)
(* their trees, and the designated opener.                                 *)
(***************************************************************************)
EXTENDS Integers, Sequences, FiniteSets, SequencesExt

-----------------------------------------------------------------------------
(***************************************************************************)
(* The node hashes of the ring (node_hash_*_gf8.c), the binary trees over   *)
(* them (merkle_vt_gf8_helpers.c), the indexed trees that prove absence     *)
(* (indexed_merkle_vt_gf8_helpers.c), and the paths their circuits walk     *)
(* (merkle_vt_gf8_circuit.c, indexed_merkle_vt_gf8_circuit.c).              *)
(*                                                                          *)
(* A value is a sequence of cells, most significant first; its width in     *)
(* bytes is kept apart from it.  A hash is injective: its value starts with *)
(* a mark for the hash and says how long its input was.  A result that may  *)
(* be missing is <<>> or <<result>>.                                        *)
(***************************************************************************)

\* A hash table entry: width of a node, collision strength, the input width
\* of its fixed leaf and the capacity of that leaf (0 when leaves are free).
Hash(mark, node, cr, fixed, block) ==
  [mark |-> mark, node |-> node, cr |-> cr, fixed |-> fixed, block |-> block]
AesDm         == Hash(10, 16, 64, 0, 0)
Hirose        == Hash(20, 32, 128, 0, 0)
HiroseFixed32 == Hash(30, 32, 128, 32, 32)
HiroseFixed96 == Hash(40, 32, 128, 32, 96)
Grostl512     == Hash(50, 64, 256, 0, 0)
NoHash        == Hash(0, 0, 0, 0, 0)

Vacant == <<0>>      \* an all-zero node, below every hash
Top    == <<99>>     \* the all-ones end of an indexed tree

Digest(mark, data) == <<mark, Len(data)>> \o data

\* Zero padding up to the block: what trailing zeros leave unsaid.
Unpadded(data) ==
  SubSeq(data, 1, Max({0} \cup {i \in 1..Len(data) : data[i] # 0}))

FixedLeaf(h, data)    == Digest(h.mark, Unpadded(data))
VariableLeaf(h, data) == Digest(h.mark, data \o <<98>>)

LeafNode(h, data) == IF h.block # 0 THEN FixedLeaf(h, data) ELSE VariableLeaf(h, data)

\* A fixed leaf refuses data wider than its block, when hashed and when its
\* witness is built.
LeafFits(h, width) == h.block = 0 \/ width <= h.block
LeafHash(h, width, data) == IF LeafFits(h, width) THEN <<LeafNode(h, data)>> ELSE <<>>

\* All fixed leaves of a family have the inner hash of that family.
Inode(h, l, r) ==
  Digest((IF h.mark \in {20, 30, 40} THEN 20 ELSE h.mark) + 1, <<Len(l)>> \o l \o r)

-----------------------------------------------------------------------------
(* Trees.  Leaves and levels are indexed from 0. *)

Bit(i, k)  == (i \div 2 ^ k) % 2
Flip(i)    == IF i % 2 = 0 THEN i + 1 ELSE i - 1

\* Level k of a tree of depth d over leaves.
Levels(h, leaves, d) ==
  LET lev[k \in 0..d] ==
        IF k = 0 THEN leaves
        ELSE [j \in 0..(2 ^ (d - k) - 1) |->
                Inode(h, lev[k - 1][2 * j], lev[k - 1][2 * j + 1])]
  IN  lev

Root(h, leaves, d) == Levels(h, leaves, d)[d][0]

\* The siblings of leaf i, from the leaf up.
Path(h, leaves, d, i) ==
  LET lev == Levels(h, leaves, d)
  IN  [k \in 1..d |-> lev[k - 1][Flip(i \div 2 ^ (k - 1))]]

\* From node up a path, turning at each level as the bits of i say: the
\* witness packers, and the circuits whose directions are secret.
Walk(h, node, siblings, i) ==
  LET up[k \in 0..Len(siblings)] ==
        IF k = 0 THEN node
        ELSE IF Bit(i, k - 1) = 1 THEN Inode(h, siblings[k], up[k - 1])
             ELSE Inode(h, up[k - 1], siblings[k])
  IN  up[Len(siblings)]

\* The circuit whose directions are public, on instance wires.
WalkPublic(h, node, siblings, dirs) ==
  LET Left(k, x)  == IF dirs[k] = 0 THEN x ELSE siblings[k]
      Right(k, x) == IF dirs[k] = 0 THEN siblings[k] ELSE x
      up[k \in 0..Len(siblings)] ==
        IF k = 0 THEN node ELSE Inode(h, Left(k, up[k - 1]), Right(k, up[k - 1]))
  IN  up[Len(siblings)]

-----------------------------------------------------------------------------
(* Indexed trees: sorted records of a value and the next one. *)

Cmp(a, b) ==
  LET differ == {i \in 1..Max({Len(a), Len(b)}) :
                   i > Len(a) \/ i > Len(b) \/ a[i] # b[i]}
      at == Min(differ)
  IN  IF differ = {} THEN 0
      ELSE IF at > Len(a) \/ (at <= Len(b) /\ a[at] < b[at]) THEN -1 ELSE 1
Less(a, b) == Cmp(a, b) = -1

\* The values in ascending order: the i-th has i - 1 below it.
Below(values, v)  == {x \in values : Less(x, v)}
Ascending(values) ==
  [i \in 1..Cardinality(values) |-> CHOOSE v \in values : Cardinality(Below(values, v)) = i - 1]

\* The records an issuer lays over the sorted values, up to 2^d of them.
RecordsOf(values, d) ==
  LET order == Ascending(values)
      m == Len(order)
      At(i) == IF i = 0 THEN Vacant ELSE IF i <= m THEN order[i] ELSE Top
  IN  [i \in 0..(2 ^ d - 1) |->
         [value |-> At(i), next |-> At(i + 1), index |-> <<IF i < m THEN i + 1 ELSE 0>>]]

RecordData(r)   == <<Len(r.value)>> \o r.value \o <<Len(r.next)>> \o r.next \o r.index
IndexBytes      == 8
RecordBytes(vb) == 2 * vb + IndexBytes

ValidRecords(recs, d) ==
  \A i \in 0..(2 ^ d - 1) :
    /\ ~ Less(recs[i].next, recs[i].value)
    /\ i + 1 < 2 ^ d =>
         /\ ~ Less(recs[i + 1].value, recs[i].value)
         /\ Less(recs[i].value, recs[i].next) => ~ Less(recs[i + 1].value, recs[i].next)

RecordLeaves(h, recs, d) == [i \in 0..(2 ^ d - 1) |-> LeafNode(h, RecordData(recs[i]))]

\* Fails on records out of order, or wider than a fixed leaf.
ImtRoot(h, recs, d, vb) ==
  IF ValidRecords(recs, d) /\ LeafFits(h, RecordBytes(vb))
  THEN <<Root(h, RecordLeaves(h, recs, d), d)>> ELSE <<>>

\* The record that straddles target, when target is not in the tree.
LookupNonmember(h, recs, d, vb, target) ==
  LET straddling == {i \in 0..(2 ^ d - 1) :
                       Less(recs[i].value, target) /\ Less(target, recs[i].next)}
  IN  IF \/ ~ ValidRecords(recs, d)
         \/ \E i \in 0..(2 ^ d - 1) : recs[i].value = target
         \/ straddling = {}
         \/ ~ LeafFits(h, RecordBytes(vb))
      THEN <<>> ELSE <<Min(straddling)>>

\* Mutant of NonMember: the upper end counts as absent.
NonMemberClosed(h, target, adj, root) ==
  /\ Walk(h, LeafNode(h, RecordData(adj)), adj.siblings, adj.at) = root
  /\ Less(adj.value, target)
  /\ ~ Less(adj.next, target)

\* What the non-membership circuit asserts of an adjacent record.
NonMember(h, target, adj, root) ==
  /\ Walk(h, LeafNode(h, RecordData(adj)), adj.siblings, adj.at) = root
  /\ Less(adj.value, target)
  /\ Less(target, adj.next)

-----------------------------------------------------------------------------
(***************************************************************************)
(* The designated opener of ring signatures: the Argus parameter sets, the  *)
(* seal a signer makes of its id, the check that a trace is right           *)
(* (rs_opener_argus_gf8.c), the registry of schemes (rs_opener_gf8.c) and   *)
(* the constraints of the circuit (rs_opener_gf8_circuit.c).                *)
(*                                                                          *)
(* A support is a list of t positions, a matrix a list of n0 - 1 circulant  *)
(* blocks given as sets of positions, a syndrome its packed bytes.  The     *)
(* one-time pad is symbolic: x under a pad is x followed by the pad.        *)
(***************************************************************************)

CONSTANT ArgusSets   \* the sets this build ships, each with its parameters

\* A set that is reserved has no parameters.
HasParams(set) == set \in DOMAIN ArgusSets
ArgusParams(set) == ArgusSets[set]

BlockBytes(op) == (op.p + 7) \div 8
Positions(op)  == op.n0 * op.p

\* Does position i of the error reach bit j of the syndrome?  The last block
\* of the matrix is the identity.
Reaches(op, M, i, j) ==
  LET b == i \div op.p
      o == i % op.p
  IN  IF b = op.n0 - 1 THEN o = j
      ELSE \E m \in M[b + 1] : (m + o) % op.p = j

SyndromeBits(op, M, support) ==
  [j \in 0..(op.p - 1) |->
     Cardinality({k \in 1..op.t : Reaches(op, M, support[k], j)}) % 2]

PackBits(op, bits) ==
  [c \in 1..BlockBytes(op) |->
     FoldFunction(+, 0, [j \in {x \in 0..(op.p - 1) : x \div 8 = c - 1} |-> bits[j] * 2 ^ (j % 8)])]
UnpackBits(op, s) == [j \in 0..(op.p - 1) |-> Bit(s[(j \div 8) + 1], j % 8)]

\* Fails on a position outside the code.
Syndrome(op, M, support) ==
  IF \E k \in 1..op.t : support[k] >= Positions(op) THEN <<>>
  ELSE <<PackBits(op, SyndromeBits(op, M, support))>>

\* The pad bits of the last byte must be clear.
SCanonical(op, s) == op.p % 8 = 0 \/ s[BlockBytes(op)] \div 2 ^ (op.p % 8) = 0

\* Positions packed at idx bits each, low bit first.
Bitpack(op, support) ==
  [q \in 1..(op.t * op.idx) |-> Bit(support[((q - 1) \div op.idx) + 1], (q - 1) % op.idx)]
\* The circuit reads them back, high bit first.
Extracted(op, bits, k) ==
  FoldFunction(+, 0, [b \in 0..(op.idx - 1) |-> bits[(k - 1) * op.idx + b + 1] * 2 ^ b])

\* Only the set's own primitive is compiled in.
Kdf(op, hash_id, support) ==
  IF hash_id # op.prim THEN <<>> ELSE <<Digest(60 + op.prim, Bitpack(op, support))>>

DemPad(op, pad_len, K) ==
  IF pad_len = 0 \/ pad_len > op.id_max THEN <<>>
  ELSE IF pad_len <= op.key THEN <<K>> ELSE <<Digest(70, K)>>

Xor(x, pad)   == x \o pad
Unxor(ct, pad) ==
  IF Len(ct) >= Len(pad) /\ SubSeq(ct, Len(ct) - Len(pad) + 1, Len(ct)) = pad
  THEN SubSeq(ct, 1, Len(ct) - Len(pad)) ELSE <<97>>

-----------------------------------------------------------------------------
\* voleith_rs_opener_seal: drawn is what the sampler drew, in its order; the
\* support is put in ascending order before it is hashed.
Seal(cfg, drawn, id, id_len) ==
  IF cfg.opener = 0 \/ cfg.pk = <<>> \/ ~ HasParams(cfg.set) THEN <<>>
  ELSE LET op == ArgusParams(cfg.set)
           support == SortSeq(drawn, <)
           s == Syndrome(op, cfg.pk, support)
           K == Kdf(op, op.prim, support)
       IN  IF id_len # op.key \/ Len(cfg.pk) # op.n0 - 1 \/ s = <<>> THEN <<>>
           ELSE <<[support |-> support, s |-> s[1],
                   ct |-> Xor(id, DemPad(op, id_len, K[1])[1])]>>

\* The section an envelope carries: primitive, syndrome, sealed id.
Tag(op, s, ct) == <<op.prim>> \o s \o ct
TagLen(op) == 1 + BlockBytes(op) + (1 + 2 + op.t * op.idx)

TagParse(op, tag) ==
  IF Len(tag) # TagLen(op) THEN <<>>
  ELSE <<[hash_id |-> tag[1], s |-> SubSeq(tag, 2, 1 + BlockBytes(op)),
          ct |-> SubSeq(tag, 2 + BlockBytes(op), Len(tag))]>>

\* Does the support open the sealed id to this id?  The first test that fails
\* is the answer.
OpenVerify(op, M, s, ct, hash_id, support, id, id_len) ==
  LET s1 == Syndrome(op, M, support)
      K  == Kdf(op, hash_id, support)
      pad == DemPad(op, id_len, K[1])
  IN  CASE id_len = 0 \/ id_len > op.id_max -> "args"
        [] s1 = <<>> -> "args"
        [] s1[1] # s -> "syndrome"
        [] K = <<>>  -> "unsupported"
        [] OTHER -> IF Unxor(ct, pad[1]) = id THEN "ok" ELSE "identity"

\* The registry: the witness must be of the scheme, the set shipped, the tag
\* of the right length.
Schemes == {1}
SchemeVerify(scheme, set, M, tag, witness, id, id_len) ==
  IF scheme \notin Schemes \/ M = <<>> THEN "args"
  ELSE IF witness.scheme # scheme THEN "scheme"
  ELSE IF ~ HasParams(set) THEN "set"
  ELSE LET op == ArgusParams(set)
           parsed == TagParse(op, tag)
       IN  IF parsed = <<>> THEN "args"
           ELSE OpenVerify(op, M, parsed[1].s, parsed[1].ct, parsed[1].hash_id,
                           witness.data, id, id_len)

-----------------------------------------------------------------------------
(* What the circuit asserts of the packed support. *)

SyndromeCircuit(op, M, packed, bits) ==
  LET at(k) == Extracted(op, packed, k)
  IN  /\ SyndromeBits(op, M, [k \in 1..op.t |-> at(k)]) = bits
      /\ \A k \in 1..(op.t - 1) : at(k) < at(k + 1)
      /\ at(op.t) < Positions(op)

\* The gadgets of the two primitives give keys of one width each.
KdfGadget(op, packed) == Digest(60 + op.prim, packed)
KeyWidth(op) == IF op.prim = 1 THEN 16 ELSE 32
\* Mutant of DemCircuit: the sealed id is not tied to the one in the leaf.
DemCircuitUnbound(op, packed, id, ct) == op.key = KeyWidth(op)

DemCircuit(op, packed, id, ct) == op.key = KeyWidth(op) /\ ct = Xor(id, KdfGadget(op, packed))
=============================================================================
