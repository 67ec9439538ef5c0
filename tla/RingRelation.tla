---------------------------- MODULE RingRelation ----------------------------
(***************************************************************************)
(* What a composable ring signature proves: the witness a signer packs, the *)
(* instance both sides fill, the seed that binds the statement and the      *)
(* message, the constraints of the circuit, and signing and verification    *)
(* over them (rs_gf8.c, rs_gf8_circuit.c).                                  *)
(*                                                                          *)
(* pub, the public inputs: root, rev, commitment, scope, T, bounds, spent,  *)
(* s, ct, each <<>> when absent, and epoch.  path, the prover's inputs:     *)
(* index, siblings, rev and spent (the adjacent records, <<>> when absent), *)
(* scope, epoch, epoch_sk, epoch_siblings, salt, support.  Attributes and   *)
(* bounds are one number a field, the two ends of a range one after the     *)
(* other.  The proof itself is what it fixes: the statement it was made for *)
(* and the witness it was made from.                                        *)
(***************************************************************************)
EXTENDS RingConfig

CONSTANT CustomPredicate(_)   \* the caller's constraint on the attributes

Absent == <<>>

\* The nullifier: a bare CMAC where 16 bytes are enough, a KDF where not.
Prf(cfg, key, scope) ==
  Digest(IF NullifierBytes(cfg) = 16 THEN 80 ELSE 81, key \o scope)

BoundsOf(field) == IF field.pred = Eq THEN 1 ELSE IF field.pred = InRange THEN 2 ELSE 0
BoundsTotal(cfg) == FoldSeq(LAMBDA field, sum : sum + BoundsOf(field), 0, cfg.schema)
BoundAt(cfg, i) ==
  FoldSeq(LAMBDA field, sum : sum + BoundsOf(field), 1, SubSeq(cfg.schema, 1, i - 1))

\* The hash of the leaf, over what the modules put into it, in this order.
LeafOf(cfg, head, attrs, salt, id) ==
  IF OwfUsed(cfg)
  THEN LeafNode(OwfOf(cfg),
         head \o attrs \o (IF SaltBytes(cfg) > 0 THEN salt ELSE <<>>)
              \o (IF cfg.opener = 1 THEN id ELSE <<>>))
  ELSE head

-----------------------------------------------------------------------------
(* The witness. *)

\* Every record the tree's leaf hash runs over must fit a fixed leaf.
RecordsFit(cfg) ==
  /\ cfg.commit = 1   => LeafFits(cfg.tree, cfg.id_w + cfg.rand_w)
  /\ cfg.depth_r > 0 => LeafFits(cfg.tree, RecordBytes(cfg.tree.node))
  /\ cfg.depth_s > 0 => LeafFits(cfg.tree, RecordBytes(NullifierBytes(cfg)))

Supplied(cfg, sk, attrs, path, id, rand) ==
  /\ cfg.sk > 0         => sk # Absent
  /\ cfg.schema # <<>>  => attrs # Absent
  /\ V6(cfg)            => path.epoch_sk # Absent
  /\ SaltBytes(cfg) > 0 => path.salt # Absent
  /\ cfg.commit = 1     => id # Absent /\ rand # Absent
  /\ cfg.opener = 1     => id # Absent /\ path.support # Absent
  /\ cfg.scope > 0      => path.scope # Absent
  /\ cfg.depth_r > 0    => path.rev # Absent
  /\ cfg.depth_s > 0    => path.spent # Absent

\* The epoch root is the one the packer walks to, from the epoch in the path;
\* the hints of the epoch's path and of the leaf are those of this root.  Of
\* the index of an adjacent record only the low bits are kept.
PackWitness(cfg, sk, attrs, path, id, rand) ==
  IF \/ ~ Validate(cfg)
     \/ ~ Supplied(cfg, sk, attrs, path, id, rand)
     \/ V6(cfg) /\ path.epoch >= 2 ^ cfg.depth_e
     \/ path.index >= 2 ^ cfg.depth_m
     \/ ~ RecordsFit(cfg)
  THEN <<>>
  ELSE LET epoch == EpochOf(cfg)
           packed == IF cfg.opener = 1 THEN Bitpack(ArgusParams(cfg.set), path.support) ELSE <<>>
           head == IF V6(cfg)
                   THEN Walk(epoch, LeafNode(epoch, path.epoch_sk), path.epoch_siblings, path.epoch)
                   ELSE sk
       IN  <<[sk |-> sk, attrs |-> attrs, index |-> path.index, siblings |-> path.siblings,
              id |-> id, rand |-> rand, epoch_sk |-> path.epoch_sk, salt |-> path.salt,
              epoch_siblings |-> path.epoch_siblings, hints |-> head, prf_scope |-> path.scope,
              rev |-> path.rev, spent |-> path.spent, support |-> packed]>>

-----------------------------------------------------------------------------
(* The instance and the seed. *)

FillInstance(cfg, pub) ==
  LET needs(on, x) == on => x # Absent
      section(on, x) == IF on THEN x ELSE <<>>
      op == ArgusParams(cfg.set)
  IN  IF /\ needs(cfg.commit = 1, pub.commitment)
         /\ needs(cfg.scope > 0, pub.scope) /\ needs(cfg.scope > 0, pub.T)
         /\ BoundsTotal(cfg) > 0 => Len(pub.bounds) = BoundsTotal(cfg)
         /\ needs(cfg.depth_r > 0, pub.rev)
         /\ needs(cfg.depth_s > 0, pub.spent)
         /\ needs(cfg.opener = 1, pub.s) /\ needs(cfg.opener = 1, pub.ct)
      THEN <<[dirs   |-> [k \in 1..cfg.depth_e |-> Bit(pub.epoch, k - 1)],
              root   |-> pub.root,
              commitment |-> section(cfg.commit = 1, pub.commitment),
              scope  |-> section(cfg.scope > 0, pub.scope),
              T      |-> section(cfg.scope > 0, pub.T),
              bounds |-> section(BoundsTotal(cfg) > 0, pub.bounds),
              rev    |-> section(cfg.depth_r > 0, pub.rev),
              spent  |-> section(cfg.depth_s > 0, pub.spent),
              s      |-> IF cfg.opener = 1 THEN UnpackBits(op, pub.s) ELSE <<>>,
              ct     |-> section(cfg.opener = 1, pub.ct)]>>
      ELSE <<>>

\* The revocation root goes in whether or not the module is on.
FsSeed(cfg, pub, m) ==
  LET on(module, section) == IF module \in Bitmap(cfg) THEN section ELSE <<>>
      bound(i) == <<i, cfg.schema[i].pred, cfg.schema[i].width,
                    SubSeq(pub.bounds, BoundAt(cfg, i), BoundAt(cfg, i) + BoundsOf(cfg.schema[i]) - 1)>>
  IN  IF \/ "epoch" \in Bitmap(cfg) /\ pub.epoch >= 2 ^ cfg.depth_e
         \/ "pred" \in Bitmap(cfg) /\ Len(pub.bounds) # BoundsTotal(cfg)
      THEN <<>>
      ELSE <<[protocol |-> "RS", fp |-> Fingerprint(cfg), bitmap |-> Bitmap(cfg),
              root |-> pub.root, rev |-> IF pub.rev = Absent THEN Vacant ELSE pub.rev,
              com |-> on("com", pub.commitment), nul |-> on("nul", <<pub.scope, pub.T>>),
              spent |-> on("spent", pub.spent),
              pred |-> on("pred", {bound(i) : i \in {k \in DOMAIN cfg.schema : cfg.schema[k].pred # None}}),
              epoch |-> on("epoch", <<pub.epoch>>),
              opener |-> on("opener", <<pub.s, pub.ct>>),
              m |-> m]>>

-----------------------------------------------------------------------------
(* The circuit, section by section. *)

EpochRoot(cfg, wit, inst) ==
  WalkPublic(EpochOf(cfg), LeafNode(EpochOf(cfg), wit.epoch_sk), wit.epoch_siblings, inst.dirs)

LeafWires(cfg, wit, inst) ==
  LeafOf(cfg, IF V6(cfg) THEN EpochRoot(cfg, wit, inst) ELSE wit.sk, wit.attrs, wit.salt, wit.id)

InRing(cfg, wit, inst) ==
  Walk(cfg.tree, LeafWires(cfg, wit, inst), wit.siblings, wit.index) = inst.root

Committed(cfg, wit, inst) ==
  LeafNode(cfg.tree, wit.id \o wit.rand) = inst.commitment

\* The hints were made for the scope in the path.
NullifierOk(cfg, wit, inst) ==
  LET key == IF V6(cfg) THEN wit.epoch_sk ELSE wit.sk
  IN  inst.T = Prf(cfg, key, inst.scope) /\ wit.prf_scope = inst.scope

PredicatesHold(cfg, wit, inst) ==
  /\ \A i \in DOMAIN cfg.schema :
       LET at == BoundAt(cfg, i)
       IN  CASE cfg.schema[i].pred = Eq -> wit.attrs[i] = inst.bounds[at]
             [] cfg.schema[i].pred = InRange ->
                  ~ wit.attrs[i] < inst.bounds[at] /\ ~ inst.bounds[at + 1] < wit.attrs[i]
             [] cfg.schema[i].pred = None -> TRUE
  /\ cfg.custom = 1 /\ cfg.schema # <<>> => CustomPredicate(wit.attrs)

Sealed(cfg, wit, inst) ==
  LET op == ArgusParams(cfg.set)
  IN  SyndromeCircuit(op, cfg.pk, wit.support, inst.s) /\ DemCircuit(op, wit.support, wit.id, inst.ct)

Relation(cfg, wit, inst) ==
  /\ V6(cfg) => wit.hints = EpochRoot(cfg, wit, inst)
  /\ InRing(cfg, wit, inst)
  /\ cfg.commit = 1  => Committed(cfg, wit, inst)
  /\ cfg.scope > 0   => NullifierOk(cfg, wit, inst)
  /\ PredicatesHold(cfg, wit, inst)
  /\ cfg.depth_r > 0 => NonMember(cfg.tree, LeafWires(cfg, wit, inst), wit.rev, inst.rev)
  /\ cfg.depth_s > 0 => NonMember(cfg.tree, inst.T, wit.spent, inst.spent)
  /\ cfg.opener = 1  => Sealed(cfg, wit, inst)

-----------------------------------------------------------------------------
(* Signing and verifying. *)

\* The proof refuses a witness that does not satisfy the circuit.
Prove(params, cfg, fs, wit, inst) ==
  IF Relation(cfg, wit, inst)
  THEN <<[params |-> params, shape |-> ShapeOf(cfg), fs |-> fs, inst |-> inst, wit |-> wit]>>
  ELSE <<>>

\* Mutant of VerifyProof: the circuit in the header is not compared.
VerifyProofAnyShape(proof, params, cfg, fs, inst) ==
  /\ proof.params = params
  /\ proof.fs = fs
  /\ proof.inst = inst
  /\ Relation(cfg, proof.wit, inst)

\* The header of the proof names the parameters and the circuit; a sound proof
\* of another statement convinces nobody.
VerifyProof(proof, params, cfg, fs, inst) ==
  /\ proof.params = params
  /\ proof.shape = ShapeOf(cfg)
  /\ proof.fs = fs
  /\ proof.inst = inst
  /\ Relation(cfg, proof.wit, inst)

\* The epoch of the statement is pinned in the path.
Sign(cfg, params, sk, attrs, path, id, rand, pub, m) ==
  IF ~ Builds(cfg) THEN <<>>
  ELSE LET wit == PackWitness(cfg, sk, attrs, [path EXCEPT !.epoch = pub.epoch], id, rand)
           inst == FillInstance(cfg, pub)
           fs == FsSeed(cfg, pub, m)
       IN  IF wit = <<>> \/ inst = <<>> \/ fs = <<>> THEN <<>>
           ELSE Prove(params, cfg, fs[1], wit[1], inst[1])

Verify(proof, cfg, params, pub, m) ==
  /\ Builds(cfg)
  /\ cfg.opener = 1 => pub.s # Absent /\ SCanonical(ArgusParams(cfg.set), pub.s)
  /\ LET inst == FillInstance(cfg, pub)
         fs == FsSeed(cfg, pub, m)
     IN  inst # <<>> /\ fs # <<>> /\ VerifyProof(proof, params, cfg, fs[1], inst[1])

-----------------------------------------------------------------------------
(* The opening of a commitment: a claim. *)

ClaimBytesMax == 2 * 64 + 64
Commitment(cfg, id, rand) ==
  IF /\ cfg.commit = 1 /\ Validate(cfg)
     /\ cfg.id_w + cfg.rand_w <= ClaimBytesMax
     /\ LeafFits(cfg.tree, cfg.id_w + cfg.rand_w)
  THEN <<LeafNode(cfg.tree, id \o rand)>> ELSE <<>>
ClaimVerify(cfg, C, id, rand) == Commitment(cfg, id, rand) = <<C>>
=============================================================================
