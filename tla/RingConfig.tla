----------------------------- MODULE RingConfig -----------------------------
(***************************************************************************)
(* The configuration of composable ring signatures: which modules are on,   *)
(* which combinations are refused, and the two fingerprints that bind a     *)
(* signature to it, of the configuration and of the circuit (rs_gf8.c,      *)
(* rs_membership_gf8.c, rs_gf8_circuit.c).                                  *)
(*                                                                          *)
(* A configuration is a record; NoHash stands for a NULL hash, <<>> for a   *)
(* NULL schema or matrix.  Widths are in bytes.                             *)
(***************************************************************************)
EXTENDS Opener

MaxDepth      == 64
EpochMaxDepth == 24
AttrTotalMax  == 4096

None == "none"
Eq   == "eq"
InRange == "range"
Preds == {None, Eq, InRange}
Field(width, pred) == [width |-> width, pred |-> pred]

OwfOf(cfg)   == IF cfg.owf = NoHash THEN cfg.tree ELSE cfg.owf
EpochOf(cfg) == IF cfg.epoch_hash = NoHash THEN cfg.tree ELSE cfg.epoch_hash
V6(cfg)      == cfg.depth_e > 0
Widths(schema) == [i \in DOMAIN schema |-> schema[i].width]
AttrTotal(cfg) == FoldSeq(+, 0, Widths(cfg.schema))
OpenerIdBytes(cfg) == IF cfg.opener = 1 THEN ArgusParams(cfg.set).key ELSE 0

\* The key of the nullifier: the epoch's key when there are epochs.
PrfKeyBytes(cfg) == IF V6(cfg) THEN cfg.epoch_sk ELSE cfg.sk

\* As wide as the tree is strong, in whole CMAC blocks.
NullifierBytes(cfg) == 16 * ((Max({16, (cfg.tree.cr + 7) \div 8}) + 15) \div 16)

\* No hash runs over the leaf when it is the root of the epoch tree itself.
OwfUsed(cfg) == ~ V6(cfg) \/ cfg.schema # <<>> \/ cfg.opener = 1
HeadBytes(cfg) == IF V6(cfg) THEN cfg.tree.node ELSE cfg.sk
SaltBytes(cfg) == IF V6(cfg) THEN cfg.salt ELSE 0
LeafBytes(cfg) == HeadBytes(cfg) + AttrTotal(cfg) + SaltBytes(cfg) + OpenerIdBytes(cfg)

Bitmap(cfg) ==
  {m \in {"rev", "nul", "pred", "com", "spent", "epoch", "opener"} :
     CASE m = "rev"    -> cfg.depth_r > 0
       [] m = "nul"    -> cfg.scope > 0
       [] m = "pred"   -> \E i \in DOMAIN cfg.schema : cfg.schema[i].pred # None
       [] m = "com"    -> cfg.commit = 1
       [] m = "spent"  -> cfg.depth_s > 0
       [] m = "epoch"  -> V6(cfg)
       [] m = "opener" -> cfg.opener = 1}

-----------------------------------------------------------------------------
(* Validation. *)

Structural(cfg, sk) ==
  /\ cfg.tree # NoHash
  /\ cfg.depth_m \in 1..MaxDepth
  /\ cfg.depth_r <= MaxDepth
  /\ sk > 0
  /\ cfg.owf # NoHash => cfg.owf.node = cfg.tree.node /\ cfg.owf.cr >= cfg.tree.cr

ValidSchema(cfg) ==
  /\ \A i \in DOMAIN cfg.schema : cfg.schema[i].width > 0 /\ cfg.schema[i].pred \in Preds
  /\ AttrTotal(cfg) <= AttrTotalMax

ValidEpoch(cfg) ==
  LET e == EpochOf(cfg)
  IN  IF V6(cfg)
      THEN /\ cfg.depth_e <= EpochMaxDepth
           /\ e.node = cfg.tree.node
           /\ cfg.epoch_sk \in {16, 32}
           /\ IF e.block # 0 THEN cfg.epoch_sk <= e.block
              ELSE e.fixed # 0 => cfg.epoch_sk = e.fixed
           /\ (IF cfg.pre_ok = 1 THEN 2 * e.cr ELSE e.cr) >= cfg.tree.cr
           /\ cfg.salt > 0 => cfg.schema # <<>>
      ELSE cfg.epoch_hash = NoHash /\ cfg.epoch_sk = 0 /\ cfg.salt = 0 /\ cfg.pre_ok = 0

ValidOpener(cfg) ==
  IF cfg.opener = 1
  THEN /\ HasParams(cfg.set)
       /\ cfg.pk # <<>>
       /\ Len(cfg.pk) = ArgusParams(cfg.set).n0 - 1
       /\ cfg.commit = 1 => cfg.id_w = OpenerIdBytes(cfg)
  ELSE cfg.pk = <<>>

ValidLeaf(cfg) ==
  LET o == OwfOf(cfg)
  IN  OwfUsed(cfg) =>
        IF o.block # 0 THEN LeafBytes(cfg) <= o.block
        ELSE o.fixed # 0 => LeafBytes(cfg) = o.fixed

Validate(cfg) ==
  /\ V6(cfg) => cfg.sk = 0
  /\ Structural(cfg, IF V6(cfg) THEN cfg.epoch_sk ELSE cfg.sk)
  /\ ValidSchema(cfg)
  /\ ValidEpoch(cfg)
  /\ ValidOpener(cfg)
  /\ ValidLeaf(cfg)
  /\ cfg.depth_s > 0 => cfg.scope > 0 /\ cfg.depth_s <= MaxDepth
  /\ cfg.commit = 1 => cfg.id_w > 0 /\ cfg.rand_w > 0

-----------------------------------------------------------------------------
(* Fingerprints. *)

AbsorbCanonical(cfg) == <<OwfOf(cfg).mark, cfg.tree.mark, cfg.sk, cfg.depth_m, cfg.depth_r>>

Fingerprint(cfg) ==
  LET on(m, section) == IF m \in Bitmap(cfg) THEN section ELSE <<>>
  IN  [membership |-> AbsorbCanonical(cfg),
       bitmap |-> Bitmap(cfg),
       nul    |-> on("nul", <<cfg.scope, cfg.depth_s>>),
       com    |-> on("com", <<cfg.id_w, cfg.rand_w>>),
       pred   |-> on("pred", cfg.schema),
       epoch  |-> on("epoch", <<cfg.depth_e, EpochOf(cfg).mark, cfg.epoch_sk, cfg.salt, cfg.pre_ok>>),
       set    |-> on("opener", <<cfg.set>>),
       M      |-> on("opener", cfg.pk)]

\* What the proof's own header says of the circuit: its gates and wires.  The
\* matrix of the opener and the tables of its constraints are not in it.
ShapeOf(cfg) ==
  LET offsets(i) == FoldSeq(+, 0, SubSeq(Widths(cfg.schema), 1, i - 1))
      op == ArgusParams(cfg.set)
  IN  [leaf  |-> <<cfg.sk, AttrTotal(cfg), SaltBytes(cfg), OpenerIdBytes(cfg),
                   IF OwfUsed(cfg) THEN OwfOf(cfg).mark ELSE 0>>,
       tree  |-> <<cfg.tree.mark, cfg.depth_m, cfg.depth_r, cfg.depth_s>>,
       epoch |-> IF V6(cfg) THEN <<EpochOf(cfg).mark, cfg.depth_e, cfg.epoch_sk>> ELSE <<>>,
       nul   |-> IF cfg.scope > 0 THEN <<cfg.scope, NullifierBytes(cfg)>> ELSE <<>>,
       com   |-> IF cfg.commit = 1 THEN <<cfg.id_w + cfg.rand_w>> ELSE <<>>,
       preds |-> {<<offsets(i), cfg.schema[i]>> : i \in {k \in DOMAIN cfg.schema : cfg.schema[k].pred # None}},
       custom |-> cfg.custom = 1 /\ cfg.schema # <<>>,
       opener |-> IF cfg.opener = 1 THEN <<op.t, op.idx, op.p, op.prim>> ELSE <<>>]

\* The circuit needs an AES key for the nullifier.
Builds(cfg) == Validate(cfg) /\ (cfg.scope > 0 => PrfKeyBytes(cfg) \in {16, 32})
=============================================================================
