------------------------------ MODULE Dataset ------------------------------
(***************************************************************************)
(* The bytes of an erasure-coded dataset: metadata, the root R that commits *)
(* to them, the descriptor that carries them (erasure/rs_dataset.c) and the *)
(* header of a chunk packet (erasure/rs_wire.c).  Each multi-byte number of *)
(* the layout is one byte here and a digest is Width[cr] bytes; the second  *)
(* width still exceeds the first by more than the fixed head.               *)
(***************************************************************************)
EXTENDS Integers, Sequences, FiniteSetsExt, SequencesExt

CONSTANTS Width,            \* from a CR profile (1 or 2) to its digest width
          FileHash(_, _)    \* profile and bytes to digest bytes, without collisions

ASSUME WidthAssumption ==
  /\ DOMAIN Width = {1, 2}
  /\ \A cr \in {1, 2} : Width[cr] \in Nat \ {0}
  /\ Width[2] > Width[1] + 7

MetaVersion == 1
HeadBytes == 7        \* version, profile, chunk size, file length, n, k, flags
Absent == <<>>   \* the NULL pointer of an optional field
Has(flags, mask) == (flags \div mask) % 2 = 1
From(buf, n) == SubSeq(buf, n + 1, Len(buf))

Flags(meta) == (IF meta.wfd # Absent THEN 1 ELSE 0) + (IF meta.attr # Absent THEN 2 ELSE 0)
                 + (IF meta.por # Absent THEN 4 ELSE 0)

Serializable(meta) == meta.cr \in DOMAIN Width /\ meta.k # 0 /\ meta.k <= meta.n

Prefixed(field) == IF field = Absent THEN <<>> ELSE <<Len(field)>> \o field
Serialize(meta) ==
  <<MetaVersion, meta.cr, meta.chunkSize, meta.fileLen, meta.n, meta.k, Flags(meta)>>
    \o meta.wfd \o Prefixed(meta.attr) \o Prefixed(meta.por)

\* voleith_rs_metadata_parse: the optional fields are read in order, each
\* checked against what is left; n and k are taken as they come.
Taken(s, present, width, buf) ==
  IF ~ s.ok \/ ~ present THEN [s EXCEPT !.field = Absent]
  ELSE IF Len(buf) - s.off < width THEN [s EXCEPT !.ok = FALSE]
  ELSE [ok |-> TRUE, off |-> s.off + width, field |-> SubSeq(buf, s.off + 1, s.off + width)]
TakenPrefixed(s, present, buf) ==
  LET l == IF s.ok /\ present /\ Len(buf) > s.off THEN buf[s.off + 1] ELSE 0
  IN  IF s.ok /\ present /\ l = 0 THEN [s EXCEPT !.ok = FALSE]
      ELSE Taken([s EXCEPT !.off = IF present THEN @ + 1 ELSE @], present, l, buf)

Malformed == [ok |-> FALSE]
MetadataParse(buf) ==
  IF Len(buf) < HeadBytes \/ buf[1] # MetaVersion \/ buf[2] \notin DOMAIN Width \/ buf[7] > 7
  THEN Malformed
  ELSE LET wfd == Taken([ok |-> TRUE, off |-> HeadBytes, field |-> Absent],
                        Has(buf[7], 1), Width[buf[2]], buf)
           attr == TakenPrefixed(wfd, Has(buf[7], 2), buf)
           por == TakenPrefixed(attr, Has(buf[7], 4), buf)
       IN  IF ~ por.ok THEN Malformed
           ELSE [ok |-> TRUE, consumed |-> por.off,
                 meta |-> [cr |-> buf[2], chunkSize |-> buf[3], fileLen |-> buf[4],
                           n |-> buf[5], k |-> buf[6], wfd |-> wfd.field,
                           attr |-> attr.field, por |-> por.field]]

-----------------------------------------------------------------------------
\* R = H(root || H(metadata)), or NoR where the code returns an error.
NoR == [cr |-> 0, root |-> <<>>, meta |-> <<>>]
ComputeR(root, meta) ==
  IF meta.cr \in DOMAIN Width /\ Len(root) = Width[meta.cr] /\ Serializable(meta)
  THEN [cr |-> meta.cr, root |-> root, meta |-> Serialize(meta)]
  ELSE NoR

\* voleith_rs_verify_R; a digest of a profile has the width of that profile.
VerifyR(R, root, meta) ==
  /\ meta.cr \in DOMAIN Width
  /\ R.cr = meta.cr
  /\ ComputeR(root, meta) # NoR
  /\ ComputeR(root, meta) = R

DescriptorSerialize(root, meta) == root \o Serialize(meta)

\* Mutant of Fits: what follows the metadata is not looked at.
FitsPrefix(buf, w) ==
  /\ Len(buf) > w
  /\ LET p == MetadataParse(From(buf, w))
     IN  p.ok /\ Width[p.meta.cr] = w

\* Both widths are tried; exactly one must fit.
Fits(buf, w) ==
  /\ Len(buf) > w
  /\ LET p == MetadataParse(From(buf, w))
     IN  p.ok /\ p.consumed = Len(buf) - w /\ Width[p.meta.cr] = w

DescriptorParse(buf) ==
  LET widths == {w \in {Width[1], Width[2]} : Fits(buf, w)}
  IN  IF Cardinality(widths) # 1 THEN Malformed
      ELSE LET w == CHOOSE x \in widths : TRUE
           IN  [ok |-> TRUE, root |-> SubSeq(buf, 1, w),
                meta |-> MetadataParse(From(buf, w)).meta]

ParseComputeR(buf) ==
  LET d == DescriptorParse(buf) IN IF d.ok THEN ComputeR(d.root, d.meta) ELSE NoR

-----------------------------------------------------------------------------
\* A chunk packet: the fields of its header, the chunk, and how many bytes of
\* it arrived.  A possession tag is present when its flag is set.
HeaderLen(cr, certLen, possLen) ==
  2 + Width[cr] + 4 + certLen + (IF possLen # 0 THEN 2 + possLen ELSE 0)

HeaderSerialize(cr, R, cert, certLen, possLen, chunk) ==
  [version |-> 1, flags |-> IF possLen # 0 THEN 1 ELSE 0, R |-> R, cert |-> cert,
   certLen |-> certLen, possLen |-> possLen, chunk |-> chunk,
   len |-> HeaderLen(cr, certLen, possLen) + Len(chunk)]

\* voleith_rs_chunk_header_parse: zero where it fails, else what it consumed.
HeaderParse(cr, p) ==
  IF /\ p.len >= 2 + Width[cr] + 4
     /\ p.version = 1
     /\ p.flags \in {0, 1}
     /\ p.len >= HeaderLen(cr, p.certLen, 0)
     /\ p.flags = 1 => p.possLen # 0 /\ p.len >= HeaderLen(cr, p.certLen, p.possLen)
  THEN HeaderLen(cr, p.certLen, IF p.flags = 1 THEN p.possLen ELSE 0)
  ELSE 0

-----------------------------------------------------------------------------
(***************************************************************************)
(* The Merkle tree over the chunks of a dataset (erasure/rs_membership.c,  *)
(* circuits/merkle_vt_gf8_helpers.c) and the certificate that a chunk is   *)
(* in it (circuits/rs_chunk_cert_circuit.c, proof/rs_chunk_cert_proof.c).  *)
(* A hash is a term, equal only to a hash of the same kind and arguments.  *)
(***************************************************************************)

CONSTANT Reaches(_, _)   \* whether a node term is the one whose bytes are the root

DepthForN(n) == CHOOSE d \in 0..8 : 2 ^ d >= n /\ \A e \in 0..(d - 1) : 2 ^ e < n
CapacityForN(n) == 2 ^ DepthForN(n)

Vacant == <<"vacant">>
Node(l, r) == <<"node", l, r>>
ChunkDigest(cr, chunk) == [cr |-> cr, of |-> chunk]
LeafHash(fwk, digest, index) == <<"leaf", fwk, digest, index>>

\* build_leaf_nodes: slots past the last chunk stay zero.
Leaves(fwk, digests, n) ==
  [i \in 0..(CapacityForN(n) - 1) |->
     IF i < n THEN LeafHash(fwk, digests[i], i) ELSE Vacant]

\* walk_tree: the levels from the leaves, which come first, to the root.
Above(level) ==
  [j \in 0..(Cardinality(DOMAIN level) \div 2 - 1) |-> Node(level[2 * j], level[2 * j + 1])]
Levels(leaves, depth) ==
  FoldLeft(LAMBDA levels, h : Append(levels, Above(Last(levels))), <<leaves>>,
           [h \in 1..depth |-> h])

TreeRoot(fwk, digests, n) == Last(Levels(Leaves(fwk, digests, n), DepthForN(n)))[0]

Sibling(i) == IF i % 2 = 0 THEN i + 1 ELSE i - 1
SiblingPath(fwk, digests, n, index) ==
  LET levels == Levels(Leaves(fwk, digests, n), DepthForN(n))
  IN  [h \in 1..DepthForN(n) |-> levels[h][Sibling(index \div 2 ^ (h - 1))]]

\* voleith_rs_index_dirs, lowest bit first.
IndexDirs(index, depth) == [h \in 1..depth |-> (index \div 2 ^ (h - 1)) % 2]

\* The walk from a leaf along directions; the wires of the secret variant may
\* hold any field element, and a selector that is no bit blends both nodes.
Step(node, sib, dir) ==
  CASE dir = 0 -> Node(node, sib) [] dir = 1 -> Node(sib, node)
    [] OTHER -> <<"blend", node, sib, dir>>
WalkUp(leaf, siblings, dirs) ==
  FoldLeftDomain(LAMBDA node, h : Step(node, siblings[h], dirs[h]), leaf, dirs)

-----------------------------------------------------------------------------
(* The certificate circuits, as what they accept.                          *)

\* Public index: it is a constant of the circuit and gives the directions.
CertCircuit(n, index, w, digest, root) ==
  /\ index < n
  /\ Len(w.siblings) = DepthForN(n)
  /\ Reaches(WalkUp(LeafHash(w.fwk, digest, index), w.siblings,
                    IndexDirs(index, DepthForN(n))), root)

\* Secret index: the committed index is a witness byte whose bits below the
\* depth equal the direction wires and whose other bits are zero.
CertCircuitSecret(n, w, digest, root) ==
  LET depth == DepthForN(n)
  IN  /\ Len(w.siblings) = depth
      /\ \A h \in 1..depth : w.dirs[h] = (w.index \div 2 ^ (h - 1)) % 2
      /\ \A h \in 1..depth : w.dirs[h] \in {0, 1}
      /\ w.index < 2 ^ depth
      /\ Reaches(WalkUp(LeafHash(w.fwk, digest, w.index), w.siblings, w.dirs), root)

\* chunk_cert_pack_core and its secret wrapper.
Witness(n, index, fwk, siblings) ==
  [fwk |-> fwk, siblings |-> siblings, index |-> index,
   dirs |-> IndexDirs(index, DepthForN(n))]

\* cert_compute_fs_seed: the index is bound only where it is public.
Seed(cr, n, secret, index, R, digest) ==
  [cr |-> cr, n |-> n, secret |-> secret, index |-> IF secret THEN 0 ELSE index,
   R |-> R, digest |-> digest]

\* What a proof is of: the seed, the circuit that was built and its instance.
Statement(cr, n, secret, index, R, digest, root) ==
  [seed |-> Seed(cr, n, secret, index, R, digest),
   circuit |-> <<cr, n, secret, IF secret THEN 0 ELSE index>>,
   instance |-> [root |-> root, digest |-> digest]]

\* cert_prove_impl: proves when the circuit accepts the witness.
CertProves(n, secret, index, w, digest, root, meta) ==
  /\ ComputeR(root, meta) # NoR
  /\ IF secret THEN CertCircuitSecret(n, w, digest, root)
     ELSE CertCircuit(n, index, w, digest, root)

\* Mutant of CertVerify: R is recomputed from what was sent, never compared.
CertVerifyAnyR(cert, cr, n, secret, index, digest, root, meta, R) ==
  /\ meta.cr = cr
  /\ ComputeR(root, meta) # NoR
  /\ secret \/ index < n
  /\ cert = Statement(cr, n, secret, index, ComputeR(root, meta), digest, root)

\* cert_verify_impl: a proof verifies for the statement it was made for.
CertVerify(cert, cr, n, secret, index, digest, root, meta, R) ==
  /\ meta.cr = cr
  /\ VerifyR(R, root, meta)
  /\ secret \/ index < n
  /\ cert = Statement(cr, n, secret, index, R, digest, root)

\* voleith_rs_recover_index: the first index whose leaf walks to the root.
NoIndex == -1
RecoverIndex(fwk, root, n, digest, siblings) ==
  LET depth == DepthForN(n)
      hits == {c \in 0..(n - 1) :
                 /\ Len(siblings) = depth
                 /\ Reaches(WalkUp(LeafHash(fwk, digest, c), siblings, IndexDirs(c, depth)),
                            root)}
  IN  IF hits = {} THEN NoIndex ELSE Min(hits)
=============================================================================
