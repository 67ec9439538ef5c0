---------------------------- MODULE RingBuilder -----------------------------
(***************************************************************************)
(* The streaming ring builder of rs_gf8.c: a member is begun, its fields    *)
(* set in any order, and ended; the last call lays the tree and hands out a *)
(* path for each member.  An operation that fails gives <<>> and leaves the *)
(* builder as it was.                                                       *)
(***************************************************************************)
EXTENDS RingRelation

Fields == {"sk", "attrs", "id"}

Capacity(cfg) == 2 ^ cfg.depth_m

\* Which fields the configuration puts into a leaf.  The widths are those of
\* a ring without epochs, and nothing refuses one with them.
Wanted(cfg) ==
  {f \in Fields : CASE f = "sk"    -> cfg.sk > 0
                    [] f = "attrs" -> AttrTotal(cfg) > 0
                    [] f = "id"    -> cfg.opener = 1}

BuildInit(cfg, n_members) ==
  IF Validate(cfg) /\ n_members > 0 /\ n_members <= Capacity(cfg)
  THEN <<[cfg |-> cfg, n_members |-> n_members, cursor |-> 0, in_member |-> FALSE,
          staged |-> <<>>, leaves |-> [i \in 0..(Capacity(cfg) - 1) |-> Vacant]]>>
  ELSE <<>>

\* Mutant of MemberBegin: what was set for the member before is still there.
MemberBeginKeeps(b) ==
  IF b.in_member \/ b.cursor >= b.n_members THEN <<>> ELSE <<[b EXCEPT !.in_member = TRUE]>>

MemberBegin(b) ==
  IF b.in_member \/ b.cursor >= b.n_members THEN <<>>
  ELSE <<[b EXCEPT !.in_member = TRUE, !.staged = <<>>]>>

\* staged with one field more, or with another value of it.
With(staged, field, data) ==
  [f \in DOMAIN staged \cup {field} |-> IF f = field THEN data ELSE staged[f]]

\* Mutant of MemberSet: a field given again is ignored.
MemberSetOnce(b, field, data, len_ok) ==
  IF b.in_member /\ field \in Wanted(b.cfg) /\ len_ok
  THEN <<[b EXCEPT !.staged = IF field \in DOMAIN @ THEN @ ELSE With(@, field, data)]>> ELSE <<>>

\* A field given again replaces what was given before; one the configuration
\* does not want, or of the wrong width, is refused.
MemberSet(b, field, data, len_ok) ==
  IF b.in_member /\ field \in Wanted(b.cfg) /\ len_ok
  THEN <<[b EXCEPT !.staged = With(@, field, data)]>> ELSE <<>>

\* Every wanted field must have been set; the leaf is their hash in the order
\* of the configuration.  A leaf that cannot be hashed leaves the member open.
MemberEnd(b) ==
  LET part(f) == IF f \in Wanted(b.cfg) THEN b.staged[f] ELSE <<>>
      pre == part("sk") \o part("attrs") \o part("id")
      bytes == b.cfg.sk + AttrTotal(b.cfg) + OpenerIdBytes(b.cfg)
  IN  IF \/ ~ b.in_member
         \/ DOMAIN b.staged # Wanted(b.cfg)
         \/ bytes = 0
         \/ ~ LeafFits(OwfOf(b.cfg), bytes)
      THEN <<>>
      ELSE <<[b EXCEPT !.leaves[b.cursor] = LeafNode(OwfOf(b.cfg), pre),
                       !.cursor = @ + 1, !.in_member = FALSE]>>

\* The ring of a finished builder; the builder is gone either way.
RingOf(cfg, leaves) ==
  [root |-> Root(cfg.tree, leaves, cfg.depth_m), leaves |-> leaves,
   siblings |-> [i \in DOMAIN leaves |-> Path(cfg.tree, leaves, cfg.depth_m, i)]]

BuildFinal(b) ==
  IF b.in_member \/ b.cursor # b.n_members THEN <<>> ELSE <<RingOf(b.cfg, b.leaves)>>

\* A member begun, given its key and its attributes, and ended.
Enrol(cfg, b, sks, attrs, i) ==
  LET begun == MemberBegin(b)
      keyed == IF cfg.sk > 0 THEN MemberSet(begun[1], "sk", sks[i], TRUE) ELSE begun
      full == IF AttrTotal(cfg) > 0 THEN MemberSet(keyed[1], "attrs", attrs[i], TRUE) ELSE keyed
  IN  MemberEnd(full[1])

\* The whole ring in one call: secret keys and attributes only, so a ring
\* whose leaves hold an id cannot be built with it.
EnrolAll(cfg, b0, sks, attrs, n_members) ==
  LET after[i \in 0..n_members] ==
        IF i = 0 THEN b0
        ELSE IF after[i - 1] = <<>> THEN <<>> ELSE Enrol(cfg, after[i - 1][1], sks, attrs, i)
  IN  after[n_members]
RingBuild(cfg, sks, attrs, n_members) ==
  LET b0 == BuildInit(cfg, n_members)
      b == EnrolAll(cfg, b0, sks, attrs, n_members)
  IN  IF b0 = <<>> \/ (AttrTotal(cfg) > 0) # (attrs # Absent) \/ b = <<>>
      THEN <<>> ELSE BuildFinal(b[1])

-----------------------------------------------------------------------------
(***************************************************************************)
(* Version 1 of ring signatures: membership, and absence from one           *)
(* revocation tree, over the membership circuit (ring_sig_v1_gf8.c,         *)
(* rs_membership_gf8.c, rs_membership_gf8_circuit.c).  A configuration uses *)
(* the fields tree, owf, sk, depth_m and depth_r of a composable one.       *)
(***************************************************************************)

MagicV1 == "VRS1"

\* A fixed leaf must be filled exactly by the key.
ValidateV1(cfg) ==
  /\ Structural(cfg, cfg.sk)
  /\ OwfOf(cfg).fixed # 0 => cfg.sk = OwfOf(cfg).fixed

FingerprintV1(cfg) == <<"v1", AbsorbCanonical(cfg)>>

\* The whole ring in one call.
RingBuildV1(cfg, sks, n_members) ==
  LET leaves == [i \in 0..(Capacity(cfg) - 1) |->
                   IF i < n_members THEN LeafNode(OwfOf(cfg), sks[i + 1]) ELSE Vacant]
  IN  IF \/ ~ ValidateV1(cfg) \/ n_members \notin 1..Capacity(cfg)
         \/ ~ LeafFits(OwfOf(cfg), cfg.sk)
      THEN <<>> ELSE <<RingOf(cfg, leaves)>>

\* Here the index of the adjacent record must be one of the tree.
PackWitnessV1(cfg, sk, path) ==
  IF \/ ~ ValidateV1(cfg)
     \/ path.index >= 2 ^ cfg.depth_m
     \/ cfg.depth_r > 0 /\ (path.rev = Absent \/ path.rev.at >= 2 ^ cfg.depth_r)
     \/ ~ LeafFits(OwfOf(cfg), cfg.sk)
     \/ cfg.depth_r > 0 /\ ~ LeafFits(cfg.tree, RecordBytes(cfg.tree.node))
  THEN <<>>
  ELSE <<[sk |-> sk, index |-> path.index, siblings |-> path.siblings, rev |-> path.rev]>>

FsSeedV1(cfg, root, rev, m) ==
  [protocol |-> "RSv1", fp |-> FingerprintV1(cfg), root |-> root,
   rev |-> IF rev = Absent THEN Vacant ELSE rev, m |-> m]

InstanceV1(cfg, root, rev) == <<root, IF cfg.depth_r > 0 THEN rev ELSE <<>>>>

RelationV1(cfg, wit, root, rev) ==
  LET leaf == LeafNode(OwfOf(cfg), wit.sk)
  IN  /\ Walk(cfg.tree, leaf, wit.siblings, wit.index) = root
      /\ cfg.depth_r > 0 => NonMember(cfg.tree, leaf, wit.rev, rev)

\* A revocation root is required with a revocation tree and refused without.
RevArg(cfg, rev) == (cfg.depth_r > 0) = (rev # Absent)

SignV1(cfg, params, sk, root, path, rev, m) ==
  LET wit == PackWitnessV1(cfg, sk, path)
  IN  IF \/ ~ ValidateV1(cfg) \/ ~ RevArg(cfg, rev) \/ wit = <<>>
         \/ ~ RelationV1(cfg, wit[1], root, rev)
      THEN <<>>
      ELSE <<[params |-> params, shape |-> ShapeOf(cfg), fs |-> FsSeedV1(cfg, root, rev, m),
              inst |-> InstanceV1(cfg, root, rev), wit |-> wit[1]]>>

VerifyV1(proof, cfg, params, root, rev, m) ==
  /\ ValidateV1(cfg) /\ RevArg(cfg, rev)
  /\ proof.params = params
  /\ proof.shape = ShapeOf(cfg)
  /\ proof.fs = FsSeedV1(cfg, root, rev, m)
  /\ proof.inst = InstanceV1(cfg, root, rev)
  /\ RelationV1(cfg, proof.wit, root, rev)

\* The envelope: one framing, one section.
PackV1(proof, cfg, params) ==
  [magic |-> MagicV1, version |-> 1, cfg_fp |-> FingerprintV1(cfg), params_fp |-> params,
   len |-> Len(proof), body |-> proof]
UnpackV1(wire, cfg, params) ==
  IF \/ wire.magic # MagicV1 \/ wire.version # 1
     \/ wire.cfg_fp # FingerprintV1(cfg) \/ wire.params_fp # params
     \/ Len(wire.body) # wire.len
  THEN <<>> ELSE <<wire.body>>
=============================================================================
