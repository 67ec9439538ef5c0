------------------------------- MODULE MCRing -------------------------------
(***************************************************************************)
(* Rings of two or three members.  Alice passes the predicates, Bob does   *)
(* not; the first member may be enrolled with fields of both.  The toy      *)
(* opener has an 18-bit code in which two errors are decoded uniquely.      *)
(***************************************************************************)
EXTENDS Ring

MCArgusSets == ("toy" :> [p |-> 9, n0 |-> 2, t |-> 2, idx |-> 5, key |-> 16, id_max |-> 48, prim |-> 1])
MCMatrix == <<{0, 1, 2, 4}>>
MCDrawn == <<7, 2>>
MCOtherDrawn == <<2, 9>>
MCPeople == {"alice", "bob"}
Nr(p) == IF p = "alice" THEN 1 ELSE 2
MCSkOf(p)   == <<Nr(p)>>
MCIdOf(p)   == <<10 + Nr(p)>>
MCRandOf(p) == <<20 + Nr(p)>>
MCSaltOf(p) == <<30 + Nr(p)>>
MCEpochKeyOf(p, e) == <<40 + Nr(p), e + 1>>
MCCustom(attrs) == attrs[1] # 6

Plain(tree, sk) ==
  [tree |-> tree, owf |-> NoHash, sk |-> sk, depth_m |-> 1, depth_r |-> 0, schema |-> <<>>, custom |-> 0,
   scope |-> 0, depth_s |-> 0, commit |-> 0, id_w |-> 0, rand_w |-> 0, depth_e |-> 0, epoch_hash |-> NoHash,
   epoch_sk |-> 0, salt |-> 0, pre_ok |-> 0, opener |-> 0, set |-> "none", pk |-> <<>>]
WithOpener(c) == [c EXCEPT !.opener = 1, !.set = "toy", !.pk = MCMatrix]
WithEpochs(c) == [c EXCEPT !.sk = 0, !.depth_e = 1, !.epoch_sk = 16]

Both == [alice |-> <<5, 0>>, bob |-> <<8, 3>>]
First == [alice |-> <<5>>, bob |-> <<6>>]
Nil == [alice |-> <<>>, bob |-> <<>>]

SignDevs == {"none", "sk", "index", "range", "stale"}
Asks == {"none", "message", "root", "rev", "params", "protocol"}
Scenario(c) ==
  [cfg |-> c, v1 |-> FALSE, offers |-> <<MCPeople, {"bob"}>>, attrs |-> Nil, bounds |-> <<>>, passes |-> MCPeople,
   usable |-> TRUE, devs |-> SignDevs, scopes |-> {1}, epochs |-> {0}, asks |-> Asks, alt |-> c,
   formats |-> {}, tags |-> {}, max_calls |-> 0, spoil |-> FALSE,
   max_accepted |-> IF c.scope > 0 THEN 2 ELSE 1]

Predicates == <<Field(1, InRange), Field(2, Eq)>>
NonePair(w) == [Plain(HiroseFixed96, 32) EXCEPT !.schema = <<Field(w, None)>>]

MCSetups ==
  LET revV1 == [Plain(HiroseFixed96, 32) EXCEPT !.depth_m = 2, !.depth_r = 1]
      attrs == [Plain(Hirose, 16) EXCEPT !.schema = Predicates, !.depth_r = 1, !.custom = 1]
      spent == [Plain(AesDm, 16) EXCEPT !.depth_m = 2, !.scope = 4, !.depth_s = 2]
      wide  == [Plain(Grostl512, 32) EXCEPT !.scope = 4, !.commit = 1, !.id_w = 16, !.rand_w = 32]
      sealed == WithOpener([Plain(AesDm, 16) EXCEPT !.commit = 1, !.id_w = 16, !.rand_w = 16])
      loose == WithOpener([Plain(AesDm, 16) EXCEPT !.schema = <<Field(1, Eq)>>])
      epoch == [WithEpochs(Plain(Hirose, 0)) EXCEPT !.scope = 4, !.depth_s = 2]
      salted == [WithEpochs(Plain(Hirose, 0)) EXCEPT !.schema = <<Field(1, Eq)>>, !.salt = 16]
      narrow == [Plain(HiroseFixed32, 32) EXCEPT !.depth_r = 1]
  IN  {[Scenario(revV1) EXCEPT !.v1 = TRUE, !.devs = SignDevs \cup {"adj"}, !.alt = [revV1 EXCEPT !.depth_m = 1],
                               !.offers = <<MCPeople, {"bob"}, {"alice"}>>,
                               !.asks = Asks \cup {"cfg"}, !.spoil = TRUE],
       [Scenario(attrs) EXCEPT !.attrs = Both, !.bounds = <<5, 7, 0>>, !.passes = {"alice"},
                               !.devs = SignDevs \cup {"attrs", "adj", "bounds"}, !.asks = Asks \cup {"bounds"}],
       [Scenario(spent) EXCEPT !.devs = SignDevs \cup {"T", "scope"}, !.scopes = {1, 2},
                               !.asks = {"none", "scope", "T", "cfg"}, !.alt = [spent EXCEPT !.depth_s = 0],
                               !.offers = <<{"alice"}, {"bob"}, {"alice"}>>, !.max_accepted = 3],
       [Scenario(wide) EXCEPT !.devs = SignDevs \cup {"T", "id"}, !.scopes = {1, 2},
                              !.asks = Asks \cup {"scope", "commitment"}],
       [Scenario(sealed) EXCEPT !.devs = SignDevs \cup {"id", "support", "order", "pad", "frame"},
                                !.asks = {"none", "ct", "cfg"}, !.alt = [sealed EXCEPT !.pk = <<{0, 1, 2, 5}>>],
                                !.formats = {0}, !.tags = {1, 2}, !.max_calls = 2],
       [Scenario(sealed) EXCEPT !.offers = <<{"alice"}, {"bob"}>>, !.devs = {"none"}, !.asks = {"none", "ct"},
                                !.formats = Formats, !.tags = {1, 2, 9, 200}, !.max_calls = 4, !.spoil = TRUE],
       [Scenario(loose) EXCEPT !.attrs = First, !.bounds = <<5>>, !.passes = {"alice"},
                               !.devs = SignDevs \cup {"id", "attrs", "support", "frame"}, !.asks = {"none", "ct", "bounds"},
                               !.formats = {0}, !.tags = {1, 2}, !.max_calls = 2],
       [Scenario(epoch) EXCEPT !.devs = SignDevs \cup {"pin", "epoch", "T"}, !.epochs = {0, 1},
                               !.asks = {"none", "epoch", "T", "message"}],
       [Scenario(salted) EXCEPT !.attrs = First, !.bounds = <<5>>, !.passes = {"alice"}, !.epochs = {0, 1},
                                !.devs = SignDevs \cup {"pin", "attrs"}, !.asks = {"none", "epoch", "bounds"}],
       [Scenario(NonePair(1)) EXCEPT !.attrs = [alice |-> <<0>>, bob |-> <<3>>], !.alt = NonePair(2),
                                     !.asks = Asks \cup {"cfg"}],
       [Scenario(narrow) EXCEPT !.usable = FALSE],
       [Scenario(narrow) EXCEPT !.usable = FALSE, !.v1 = TRUE],
       [Scenario([Plain(HiroseFixed32, 32) EXCEPT !.commit = 1, !.id_w = 16, !.rand_w = 32]) EXCEPT !.usable = FALSE],
       [Scenario([Plain(AesDm, 20) EXCEPT !.scope = 4]) EXCEPT !.usable = FALSE],
       [Scenario([Plain(HiroseFixed96, 96) EXCEPT !.schema = <<Field(1, None)>>])
          EXCEPT !.usable = FALSE, !.attrs = First]}

-----------------------------------------------------------------------------
Supports == {<<i, j>> : i, j \in 0..17}
\* OpensToSigner: what the opener recovers from an accepted signature is the
\* id that was enrolled in the signer's leaf: no other support and no other id
\* passes the check of a trace (voleith_rs_opener_argus_verify,
\* voleith_rs_opener_verify, voleith_rs_opener_seal).
OpensToSigner ==
  cfg.opener = 1 /\ heard # <<>> =>
    \A x \in accepted :
      LET op == ArgusParams(cfg.set)
          opens(w, p) == SchemeVerify(1, cfg.set, cfg.pk, Tag(op, x.s, x.ct),
                                      [scheme |-> 1, data |-> w], IdOf(p), 16) = "ok"
      IN  \A w \in {v \in Supports : v[1] < v[2]}, p \in People :
            opens(w, p) <=> w = SortSeq(Drawn, <) /\ p = x.by["id"]
=============================================================================
