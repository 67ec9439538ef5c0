-------------------------------- MODULE Ring --------------------------------
(***************************************************************************)
(* The life of a ring: an issuer enrols members one field at a time, members*)
(* sign, signatures travel in envelopes that may be cut or altered, a       *)
(* verifier asks its own statement of them, members are revoked and         *)
(* nullifiers spent in between (rs_gf8.c, ring_sig_v1_gf8.c).               *)
(*                                                                          *)
(* Values that are hashed are computed as the code does; beside them stand  *)
(* said, enrolled, tried, damage and heard, which record by name what the   *)
(* callers meant, and are what the properties are stated in.                *)
(***************************************************************************)
EXTENDS RingBuilder, Envelope

CONSTANTS
  Setups,      \* the scenarios: a configuration and what is tried with it
  People,      \* who there is
  SkOf(_), IdOf(_), RandOf(_), SaltOf(_), EpochKeyOf(_, _),  \* what they hold
  Drawn,       \* the support the sampler draws
  OtherDrawn   \* another one, ascending

Epochs == UNION {su.epochs : su \in Setups}

\* There is someone else to confuse a member with; keys are told apart.
ASSUME PeopleAssumption ==
  \A p \in People :
    /\ \E q \in People : q # p
    /\ SkOf(p) \in Seq(Nat) /\ IdOf(p) \in Seq(Nat) /\ RandOf(p) \in Seq(Nat) /\ SaltOf(p) \in Seq(Nat)
    /\ \A e \in Epochs : EpochKeyOf(p, e) \in Seq(Nat)
    /\ \A su \in Setups : \A e \in 0..(2 ^ su.cfg.depth_e - 1) : EpochKeyOf(p, e) \in Seq(Nat)
    /\ \A q \in People : SkOf(p) = SkOf(q) => p = q
    /\ \A q \in People : \A e, f \in Epochs : EpochKeyOf(p, e) = EpochKeyOf(q, f) => p = q /\ e = f

Hashes == {AesDm, Hirose, HiroseFixed32, HiroseFixed96, Grostl512}
AsksV1 == {"none", "message", "root", "rev", "params", "cfg", "protocol"}

\* What a verifier may ask differently, and that it differs: another scope is
\* not the one signed, another configuration is one that the fingerprint or
\* the circuit tells apart.  A syndrome can be padded when it has pad bits.
Differ(su) ==
  /\ su.asks \subseteq AsksV1 \cup {"commitment", "scope", "T", "bounds", "epoch", "ct"}
  /\ "commitment" \in su.asks => su.cfg.commit = 1
  /\ "scope" \in su.asks      => 0 \notin su.scopes
  /\ "ct" \in su.asks         => su.cfg.opener = 1
  /\ "pad" \in su.devs        => su.cfg.opener = 1 /\ ArgusParams(su.cfg.set).p % 8 # 0
  /\ "cfg" \in su.asks =>
       \/ ShapeOf(su.alt) # ShapeOf(su.cfg)
       \/ IF su.v1 THEN FingerprintV1(su.alt) # FingerprintV1(su.cfg)
          ELSE Fingerprint(su.alt) # Fingerprint(su.cfg)

\* Version 1 has no nullifiers and no opener, and its statement no more than
\* the two roots; the bounds are as many as the predicates take.
ASSUME SetupsAssumption ==
  \A su \in Setups :
    /\ su.cfg.tree \in Hashes /\ {su.cfg.owf, su.cfg.epoch_hash} \subseteq Hashes \cup {NoHash}
    /\ su.cfg.depth_m \in Nat /\ su.cfg.depth_r \in Nat /\ su.cfg.depth_s \in Nat /\ su.cfg.depth_e \in Nat
    /\ su.cfg.scope \in Nat /\ su.scopes \subseteq Nat /\ su.epochs \subseteq Nat
    /\ su.offers \in Seq(SUBSET People) /\ su.attrs \in [People -> Seq(Nat)]
    /\ su.bounds \in Seq(Nat) /\ Len(su.bounds) = BoundsTotal(su.cfg)
    /\ su.v1 \in BOOLEAN
    /\ su.v1 => su.cfg.scope = 0 /\ su.cfg.depth_s = 0 /\ su.cfg.opener = 0 /\ su.asks \subseteq AsksV1
    /\ Differ(su)

\* A field is as wide for one person as for another, attributes tell people
\* apart, and no leaf a builder hashes for a ring with epochs begins like the
\* root of an epoch tree.
ASSUME WidthAssumption ==
  /\ \A p, q \in People :
       /\ Len(SkOf(p)) = Len(SkOf(q)) /\ Len(IdOf(p)) = Len(IdOf(q)) /\ Len(SaltOf(p)) = Len(SaltOf(q))
       /\ IdOf(p) = IdOf(q) => p = q
       /\ \A e \in Epochs : Len(EpochKeyOf(p, e)) = Len(EpochKeyOf(q, e))
  /\ \A su \in Setups :
       /\ AttrTotal(su.cfg) \in Nat /\ (AttrTotal(su.cfg) = 0 <=> su.cfg.schema = <<>>)
       /\ "epoch" \in su.devs => su.epochs \subseteq {0, 1}
       /\ su.v1 => su.cfg.schema = <<>> /\ su.cfg.depth_e = 0
       /\ \A p, q \in People :
            /\ Len(su.attrs[p]) = Len(su.cfg.schema)
            /\ su.cfg.schema # <<>> /\ su.attrs[p] = su.attrs[q] => p = q
            /\ LET data == su.attrs[p] \o (IF su.cfg.opener = 1 THEN IdOf(q) ELSE <<>>)
               IN  su.cfg.depth_e > 0 /\ data # <<>> =>
                     data[1] # Inode(EpochOf(su.cfg), Vacant, Vacant)[1]

\* Who passes the predicates of a scenario.
ASSUME PassesAssumption ==
  \A su \in Setups :
    su.passes = {p \in People : PredicatesHold(su.cfg, [attrs |-> su.attrs[p]], [bounds |-> su.bounds])}

\* Under an opener everyone's id can be sealed, and what is sealed is bytes that
\* the last two of a section's length can count, not the one another may ask.
FitSection(s, ct) == s \in Seq(Nat) /\ ct \in Seq(Nat) /\ 1 + Len(s) + Len(ct) < 65536
SealFits(c, p) ==
  LET op == ArgusParams(c.set)
      sealed == Seal(c, Drawn, IdOf(p), OpenerIdBytes(c))
  IN  /\ op.prim \in Nat /\ op.p \in Nat \ {0}
      /\ sealed # <<>> /\ FitSection(sealed[1].s, sealed[1].ct)
      /\ sealed[1].ct # <<0>>

\* Tags are bytes, and the reserved ones differ.
ASSUME EnvelopeAssumption ==
  /\ ProofTag \in 0..255 /\ OpenerTag \in 0..255 /\ ProofTag # OpenerTag
  /\ MaxSections \in 1..255
  /\ \A su \in Setups :
       /\ su.tags \subseteq 0..255 /\ su.formats \subseteq Formats /\ su.cfg.opener \in {0, 1}
       /\ su.cfg.opener = 1 => \A p \in People : SealFits(su.cfg, p)

VARIABLES
  setup,     \* the scenario
  builder,   \* the ring builder, <<>> when there is none
  said,      \* whose field was given since the member was begun
  enrolled,  \* and for each member that was ended
  ring,      \* the ring, <<>> until built
  revoked,   \* members whose leaves are in the revocation tree
  sig,       \* a signature on its way, <<>> when there is none
  tried,     \* the last attempt to sign
  packer,    \* the packer, <<>> when there is none
  calls,     \* the sections it was asked to pack
  wire,      \* the envelope, <<>> when there is none
  damage,    \* what was done to it
  heard,     \* the last verdict
  accepted   \* the signatures accepted so far
vars == <<setup, builder, said, enrolled, ring, revoked, sig, tried, packer, calls,
          wire, damage, heard, accepted>>

cfg == setup.cfg
Slots == 1..Len(enrolled)
Params == "params"
Payload == <<77, 78>>       \* the bytes of a proof

Other(p) == CHOOSE q \in People : q # p
AttrsOf(p) == setup.attrs[p]
Data(f, p) == CASE f = "sk" -> SkOf(p) [] f = "attrs" -> AttrsOf(p) [] f = "id" -> IdOf(p)

-----------------------------------------------------------------------------
(* The issuer. *)

Init ==
  /\ setup \in Setups
  /\ builder = IF setup.v1 THEN <<>> ELSE BuildInit(setup.cfg, Len(setup.offers))
  /\ said = <<>> /\ enrolled = <<>> /\ ring = <<>> /\ revoked = {}
  /\ sig = <<>> /\ tried = <<>> /\ packer = <<>> /\ calls = <<>>
  /\ wire = <<>> /\ damage = "none" /\ heard = <<>> /\ accepted = {}

After == <<revoked, sig, tried, packer, calls, wire, damage, heard, accepted>>

Begin ==
  /\ builder # <<>> /\ MemberBegin(builder[1]) # <<>>
  /\ builder' = MemberBegin(builder[1])
  /\ said' = <<>>
  /\ UNCHANGED <<setup, enrolled, ring, After>>

Set ==
  /\ builder # <<>> /\ builder[1].in_member
  /\ \E f \in Fields, p \in setup.offers[builder[1].cursor + 1], len_ok \in BOOLEAN :
       LET b == MemberSet(builder[1], f, Data(f, p), len_ok)
       IN  /\ b # <<>>
           /\ builder' = b
           /\ said' = With(said, f, p)
  /\ UNCHANGED <<setup, enrolled, ring, After>>

End ==
  /\ builder # <<>> /\ MemberEnd(builder[1]) # <<>>
  /\ builder' = MemberEnd(builder[1])
  /\ enrolled' = Append(enrolled, said)
  /\ said' = <<>>
  /\ UNCHANGED <<setup, ring, After>>

Final ==
  /\ builder # <<>>
  /\ ring' = BuildFinal(builder[1])
  /\ builder' = <<>>
  /\ enrolled' = IF ring' = <<>> THEN <<>> ELSE enrolled
  /\ said' = <<>>
  /\ UNCHANGED <<setup, After>>

\* The calls that build a ring at once, and, under epochs, an issuer that lays
\* the tree itself over the roots its members gave it.
EpochLeaves(p) == [e \in 0..(2 ^ cfg.depth_e - 1) |-> LeafNode(EpochOf(cfg), EpochKeyOf(p, e))]
MemberLeaf(p) ==
  LeafOf(cfg, Root(EpochOf(cfg), EpochLeaves(p), cfg.depth_e), AttrsOf(p), SaltOf(p), IdOf(p))
RingAtOnce(who) ==
  LET n == Len(who)
      sks == [i \in 1..n |-> SkOf(who[i])]
      attrs == IF AttrTotal(cfg) > 0 THEN [i \in 1..n |-> AttrsOf(who[i])] ELSE Absent
  IN  IF setup.v1 THEN RingBuildV1(cfg, sks, n)
      ELSE IF ~ V6(cfg) THEN RingBuild(cfg, sks, attrs, n)
      ELSE IF ~ Validate(cfg) \/ n > Capacity(cfg) THEN <<>>
      ELSE <<RingOf(cfg, [i \in 0..(Capacity(cfg) - 1) |->
                            IF i < n THEN MemberLeaf(who[i + 1]) ELSE Vacant])>>

BuildAtOnce ==
  /\ ring = <<>> /\ enrolled = <<>> /\ said = <<>>
  /\ builder # <<>> => builder[1].cursor = 0 /\ ~ builder[1].in_member
  /\ \E who \in [1..Len(setup.offers) -> People] :
       /\ \A i \in 1..Len(who) : who[i] \in setup.offers[i]
       /\ RingAtOnce(who) # <<>>
       /\ ring' = RingAtOnce(who)
       /\ enrolled' = [i \in 1..Len(who) |->
                         [f \in {"sk"} \cup (Wanted(cfg) \ {"sk"}) |-> who[i]]]
  /\ builder' = <<>>
  /\ UNCHANGED <<setup, said, After>>

-----------------------------------------------------------------------------
(* The accumulators: the leaves revoked, the nullifiers spent. *)

RevValues(who) == {ring[1].leaves[i - 1] : i \in who}
SpentValues == {a.T : a \in accepted}
RootOf(values, d, vb) == ImtRoot(cfg.tree, RecordsOf(values, d), d, vb)

\* A record to show that target is absent: the one that straddles it, or the
\* first when there is none.
Shown(recs, d, at) ==
  [value |-> recs[at].value, next |-> recs[at].next, index |-> recs[at].index, at |-> at,
   siblings |-> Path(cfg.tree, RecordLeaves(cfg.tree, recs, d), d, at)]
AdjacentIn(recs, d, vb, target) ==
  LET found == LookupNonmember(cfg.tree, recs, d, vb, target)
  IN  Shown(recs, d, IF found = <<>> THEN 0 ELSE found[1])
Adjacent(values, d, vb, target) == AdjacentIn(RecordsOf(values, d), d, vb, target)

Revoke ==
  /\ ring # <<>> /\ cfg.depth_r > 0 /\ revoked = {} /\ packer = <<>> /\ wire = <<>> /\ heard = <<>>
  /\ \E i \in Slots : revoked' = {i}
  /\ UNCHANGED <<setup, builder, said, enrolled, ring, sig, tried, packer, calls, wire, damage, heard, accepted>>

-----------------------------------------------------------------------------
(* Signing.  A request says who signs for which slot, and what is wrong. *)

On(flag, x) == IF flag THEN x ELSE Absent
\* A caller whose value cannot be computed has to make one up.
Given(x) == IF x = <<>> THEN Vacant ELSE x[1]
RevRoot(who) == On(cfg.depth_r > 0, Given(RootOf(RevValues(who), cfg.depth_r, cfg.tree.node)))
SpentRoot(values) == On(cfg.depth_s > 0, Given(RootOf(values, cfg.depth_s, NullifierBytes(cfg))))

KeyOf(p, e) == IF V6(cfg) THEN EpochKeyOf(p, e) ELSE SkOf(p)

\* Whose fields the request supplies.
Supplies(r) == [f \in Fields |-> IF r.dev = f THEN Other(r.who) ELSE r.who]

\* The statement an honest caller makes of a request, and the prover's path.
Seals(id) == Seal(cfg, Drawn, id, OpenerIdBytes(cfg))
RevOf(r)   == IF r.dev = "stale" THEN {} ELSE revoked
SpentOf(r) == IF r.dev = "stale" THEN {} ELSE SpentValues

Padded(op, s) == [s EXCEPT ![BlockBytes(op)] = @ + 2 ^ (op.p % 8)]

PubWith(r, p, id, sealed) ==
  [root |-> ring[1].root, rev |-> RevRoot(RevOf(r)), spent |-> SpentRoot(SpentOf(r)),
   commitment |-> On(cfg.commit = 1, Given(Commitment(cfg, id, RandOf(r.who)))),
   scope |-> On(cfg.scope > 0, <<r.scope>>),
   T |-> On(cfg.scope > 0, Prf(cfg, KeyOf(p["sk"], r.epoch), <<IF r.dev = "T" THEN 0 ELSE r.scope>>)),
   bounds |-> IF r.dev = "bounds" THEN setup.bounds \o <<0>> ELSE setup.bounds,
   epoch |-> r.epoch,
   s |-> On(cfg.opener = 1, IF r.dev = "pad" THEN Padded(ArgusParams(cfg.set), sealed.s) ELSE sealed.s),
   ct |-> On(cfg.opener = 1, sealed.ct)]
PubOf(r) ==
  LET p == Supplies(r)
      sealed == IF r.dev = "frame" THEN Other(r.who) ELSE p["id"]
  IN  PubWith(r, p, IdOf(p["id"]), On(cfg.opener = 1, Seals(IdOf(sealed))[1]))

IndexOf(r) ==
  CASE r.dev = "index" -> Flip(r.slot - 1)
    [] r.dev = "range" -> r.slot - 1 + Capacity(cfg)
    [] OTHER -> r.slot - 1
RevRecord(r) ==
  LET rev == Adjacent(RevValues(RevOf(r)), cfg.depth_r, cfg.tree.node, ring[1].leaves[r.slot - 1])
  IN  [rev EXCEPT !.at = IF r.dev = "adj" THEN @ + 2 ^ cfg.depth_r ELSE @]

PathOf(r, pub) ==
  LET p == Supplies(r)
  IN  [index |-> IndexOf(r), siblings |-> ring[1].siblings[r.slot - 1],
       rev |-> On(cfg.depth_r > 0, RevRecord(r)),
       spent |-> On(cfg.depth_s > 0, Adjacent(SpentOf(r), cfg.depth_s, NullifierBytes(cfg), pub.T)),
       scope |-> On(cfg.scope > 0, IF r.dev = "scope" THEN <<0>> ELSE pub.scope),
       epoch |-> IF r.dev = "pin" THEN 1 - r.epoch ELSE r.epoch,
       epoch_sk |-> On(V6(cfg), EpochKeyOf(p["sk"], r.epoch)),
       epoch_siblings |-> On(V6(cfg),
          Path(EpochOf(cfg), EpochLeaves(p["sk"]), cfg.depth_e,
               IF r.dev = "epoch" THEN 1 - r.epoch ELSE r.epoch)),
       salt |-> On(SaltBytes(cfg) > 0, SaltOf(r.who)),
       support |-> On(cfg.opener = 1,
          CASE r.dev = "support" -> OtherDrawn
            [] r.dev = "order"   -> Drawn
            [] OTHER -> Seals(IdOf(r.who))[1].support)]

SignRequest(r, pub, path) ==
  LET p == Supplies(r)
  IN  IF setup.v1 THEN SignV1(cfg, Params, SkOf(p["sk"]), pub.root, path, pub.rev, "m")
      ELSE Sign(cfg, Params, On(cfg.sk > 0, SkOf(p["sk"])), On(cfg.schema # <<>>, AttrsOf(p["attrs"])),
                path, IdOf(p["id"]), RandOf(r.who), pub, "m")

\* Once a signature has been accepted only plain and stale requests are made.
Devs == IF accepted = {} THEN setup.devs ELSE setup.devs \cap {"none", "stale"}

Try ==
  /\ ring # <<>> /\ tried = <<>> /\ heard = <<>> /\ Cardinality(accepted) < setup.max_accepted
  /\ \E who \in People, slot \in Slots, dev \in Devs, scope \in setup.scopes, epoch \in setup.epochs :
       LET r == [who |-> who, slot |-> slot, dev |-> dev, scope |-> scope, epoch |-> epoch]
       IN  \E pub \in {PubOf(r)} : \E proof \in {SignRequest(r, pub, PathOf(r, pub))} :
             /\ sig' = IF proof = <<>> THEN <<>> ELSE <<[proof |-> proof[1], pub |-> pub]>>
             /\ tried' = <<[req |-> r, made |-> proof # <<>>, revoked |-> RevOf(r),
                            shows |-> IF dev = "stale" THEN {} ELSE {a.show : a \in accepted}]>>
  /\ UNCHANGED <<setup, builder, said, enrolled, ring, revoked, packer, calls, wire, damage, heard, accepted>>

-----------------------------------------------------------------------------
(* The envelope. *)

OpenerCells(pub) == Tag(ArgusParams(cfg.set), pub.s, pub.ct)
CfgFp == IF setup.v1 THEN FingerprintV1(cfg) ELSE Fingerprint(cfg)

\* One of the two calls for a bare signature, or a packer.
SendBare ==
  /\ sig # <<>> /\ packer = <<>> /\ wire = <<>> /\ cfg.opener = 0
  /\ wire' = IF setup.v1 THEN <<PackV1(Payload, cfg, Params)>>
             ELSE SigPack(Payload, CfgFp, Params, 4 + Len(Payload))
  /\ calls' = <<[tag |-> ProofTag, payload |-> Payload]>>
  /\ UNCHANGED <<setup, builder, said, enrolled, ring, revoked, sig, tried, packer, damage, heard, accepted>>

OpenPacker ==
  /\ sig # <<>> /\ packer = <<>> /\ wire = <<>> /\ setup.formats # {}
  /\ \E format \in setup.formats : packer' = <<PackInit(CfgFp, Params, format)>>
  /\ calls' = <<>>
  /\ UNCHANGED <<setup, builder, said, enrolled, ring, revoked, sig, tried, wire, damage, heard, accepted>>

\* A refused call leaves the packer as it was.
Pack ==
  /\ packer # <<>> /\ Len(calls) < setup.max_calls
  /\ \E tag \in setup.tags :
       LET payload == IF tag = OpenerTag THEN On(cfg.opener = 1, OpenerCells(sig[1].pub)) ELSE Payload
           p == CASE tag = ProofTag  -> PackProof(packer[1], payload)
                  [] tag = OpenerTag -> PackOpener(packer[1], cfg.opener = 1, payload)
                  [] OTHER           -> PackSection(packer[1], tag, payload)
       IN  /\ packer' = IF p = <<>> THEN packer ELSE p
           /\ calls' = Append(calls, [tag |-> tag, payload |-> payload])
  /\ UNCHANGED <<setup, builder, said, enrolled, ring, revoked, sig, tried, wire, damage, heard, accepted>>

\* The packer is gone either way; without an envelope the signature is dropped.
Close ==
  /\ packer # <<>>
  /\ wire' = PackFinal(packer[1], PackLen(packer[1]))
  /\ packer' = <<>>
  /\ sig' = IF wire' = <<>> THEN <<>> ELSE sig
  /\ UNCHANGED <<setup, builder, said, enrolled, ring, revoked, tried, calls, damage, heard, accepted>>

Spoil ==
  /\ wire # <<>> /\ damage = "none" /\ setup.spoil
  /\ \/ /\ \E n \in 0..(Len(wire[1].body) - 1) : wire' = <<[wire[1] EXCEPT !.body = SubSeq(@, 1, n)]>>
        /\ damage' = "cut"
     \/ /\ wire' = <<[wire[1] EXCEPT !.body = @ \o <<0>>]>>
        /\ damage' = "longer"
     \/ /\ wire' = <<[wire[1] EXCEPT !.body = @ \o @]>>
        /\ damage' = "twice"
     \/ /\ \E v \in {1, 2, 3} \ {wire[1].version} : wire' = <<[wire[1] EXCEPT !.version = v]>>
        /\ damage' = "version"
  /\ UNCHANGED <<setup, builder, said, enrolled, ring, revoked, sig, tried, packer, calls, heard, accepted>>

-----------------------------------------------------------------------------
(* The verifier.  It asks the statement it has in mind, dev saying in what   *)
(* it differs from the one signed; a tag it takes from the envelope.         *)

Opened(vcfg, params) ==
  IF setup.v1 THEN UnpackV1(wire[1], vcfg, params)
  ELSE LET u == Unpack(wire[1], Fingerprint(vcfg), params)
       IN  IF u = <<>> THEN <<>> ELSE Find(u[1], ProofTag)

TagOf(vcfg, params) ==
  LET u == Unpack(wire[1], Fingerprint(vcfg), params)
      cells == IF u = <<>> THEN <<>> ELSE Find(u[1], OpenerTag)
  IN  IF vcfg.opener = 0 \/ cells = <<>> THEN <<>> ELSE TagParse(ArgusParams(vcfg.set), cells[1])

AskedOf(dev, tag) ==
  LET p == sig[1].pub
      Else(x, name, y) == IF dev = name THEN y ELSE x
  IN  [root   |-> Else(p.root, "root", Vacant),
       rev    |-> Else(RevRoot(revoked), "rev", IF cfg.depth_r > 0 THEN Vacant ELSE Top),
       spent  |-> SpentRoot(SpentValues),
       commitment |-> Else(p.commitment, "commitment", Vacant),
       scope  |-> Else(p.scope, "scope", <<0>>),
       T      |-> Else(p.T, "T", <<0>>),
       bounds |-> Else(p.bounds, "bounds", [i \in DOMAIN p.bounds |-> p.bounds[i] + 1]),
       epoch  |-> Else(p.epoch, "epoch", 1 - p.epoch),
       s      |-> On(tag # <<>>, tag[1].s),
       ct     |-> On(tag # <<>>, Else(tag[1].ct, "ct", <<0>>))]

Judges(dev, vcfg, params, m, asked) ==
  IF setup.v1 # (dev = "protocol")
  THEN VerifyV1(sig[1].proof, vcfg, params, asked.root, asked.rev, m)
  ELSE Verify(sig[1].proof, vcfg, params, asked, m)

Verdict(dev) ==
  LET vcfg == IF dev = "cfg" THEN setup.alt ELSE cfg
      params == IF dev = "params" THEN "other" ELSE Params
  IN  /\ Opened(vcfg, params) = <<Payload>>
      /\ Judges(dev, vcfg, params, IF dev = "message" THEN "m2" ELSE "m", AskedOf(dev, TagOf(vcfg, Params)))

\* What the verifier accepts it remembers, and its nullifier is spent.
Receive ==
  /\ wire # <<>>
  /\ \E dev \in setup.asks : \E ok \in {Verdict(dev)} :
       LET r == tried[1].req
       IN  /\ heard' = <<[dev |-> dev, ok |-> ok, damage |-> damage, was |-> tried[1],
                          calls |-> calls, revoked |-> revoked, shows |-> {a.show : a \in accepted}]>>
           /\ accepted' = accepted \cup
                (IF ok THEN {[n |-> Cardinality(accepted), T |-> sig[1].pub.T, by |-> enrolled[r.slot],
                              show |-> <<Supplies(r)["sk"], r.scope, IF V6(cfg) THEN r.epoch ELSE 0>>,
                              s |-> sig[1].pub.s, ct |-> sig[1].pub.ct]}
                 ELSE {})
  /\ wire' = <<>> /\ sig' = <<>> /\ tried' = <<>> /\ calls' = <<>> /\ damage' = "none"
  /\ UNCHANGED <<setup, builder, said, enrolled, ring, revoked, packer>>

\* A refusal or a verdict has been read.
Settle ==
  /\ sig = <<>> /\ (tried # <<>> \/ heard # <<>>)
  /\ tried' = <<>> /\ heard' = <<>> /\ calls' = <<>>
  /\ UNCHANGED <<setup, builder, said, enrolled, ring, revoked, sig, packer, wire, damage, accepted>>

Next ==
  \/ Begin \/ Set \/ End \/ Final \/ BuildAtOnce
  \/ Revoke \/ Try
  \/ SendBare \/ OpenPacker \/ Pack \/ Close \/ Spoil \/ Receive \/ Settle

Spec == Init /\ [][Next]_vars

-----------------------------------------------------------------------------
(* What a ring must never do, in terms of who was enrolled and who asked. *)

SameAs(slot) == {i \in Slots : enrolled[i] = enrolled[slot]}

\* What is wrong with a request, by what it says of whom.
Faultless(r) ==
  CASE r.dev = "index"  -> Flip(r.slot - 1) + 1 \in SameAs(r.slot)
    [] r.dev = "range"  -> FALSE
    [] r.dev = "adj"    -> ~ setup.v1
    [] r.dev \in {"T", "scope"} -> cfg.scope = 0
    [] r.dev = "epoch"  -> ~ V6(cfg)
    [] r.dev \in {"support", "order", "frame"} -> cfg.opener = 0
    [] r.dev = "bounds" -> setup.bounds = <<>>
    [] OTHER -> TRUE

ShowOf(r) == <<Supplies(r)["sk"], r.scope, IF V6(cfg) THEN r.epoch ELSE 0>>

Entitled(t) ==
  LET p == Supplies(t.req)
      e == enrolled[t.req.slot]
  IN  /\ "sk" \in DOMAIN e
      /\ \A f \in DOMAIN e : e[f] = p[f]
      /\ cfg.schema # <<>> => p["attrs"] \in setup.passes
      /\ cfg.depth_r > 0 => t.revoked \cap SameAs(t.req.slot) = {}
      /\ cfg.depth_s > 0 => ShowOf(t.req) \notin t.shows

Eligible(t) == setup.usable /\ Entitled(t) /\ Faultless(t.req)

\* SignsOnlyEntitled: no signature is made but for a slot in which the signer's
\* own fields were enrolled, by one who satisfies the predicates, is not in the
\* revocation tree and has not shown in this scope, whatever is wrong with the
\* request (voleith_rs_ring_member_end, voleith_rs_sign, voleith_rsv1_sign).
SignsOnlyEntitled == \A i \in DOMAIN tried : tried[i].made => Entitled(tried[i])

\* SignsIffEligible: a signature is made exactly for a member whose own fields
\* were enrolled in that slot, in whatever order and however often they were
\* given, who satisfies the predicates, is not revoked and has not shown in
\* this scope; a wrong index, tag, scope or support gives none, and neither
\* does a configuration whose records do not fit its hash
\* (voleith_rs_ring_member_set, voleith_rs_sign, voleith_rsv1_sign).
SignsIffEligible == \A i \in DOMAIN tried : tried[i].made <=> Eligible(tried[i])

\* The sections the calls ask for: each tag once, the reserved ones where they
\* may be, as many as the packer holds.
Keep(kept, c, opener) ==
  IF \/ \E k \in DOMAIN kept : kept[k].tag = c.tag
     \/ Len(kept) = MaxSections
     \/ c.tag = OpenerTag /\ opener = 0
  THEN kept ELSE Append(kept, c)
KeptOf(asked, opener) ==
  LET kept[n \in 0..Len(asked)] == IF n = 0 THEN <<>> ELSE Keep(kept[n - 1], asked[n], opener)
  IN  kept[Len(asked)]
Kept(asked) == KeptOf(asked, cfg.opener)

\* EnvelopeFaithful: an envelope that was not altered unpacks to the sections
\* that were packed, in their order; one that was cut, doubled, extended or
\* relabelled is refused or gives sections that were packed, the proof among
\* them (voleith_rs_sig_pack_final, voleith_rs_sig_unpack_init).
EnvelopeFaithful ==
  wire # <<>> /\ ~ setup.v1 =>
    LET u == Unpack(wire[1], CfgFp, Params)
    IN  IF damage = "none" THEN u = <<Kept(calls)>>
        ELSE u # <<>> => /\ IsPrefix(u[1], Kept(calls))
                         /\ Find(u[1], ProofTag) = <<Payload>>

AskHarmless(dev) ==
  CASE dev = "none" -> TRUE
    [] dev \in {"scope", "T"} -> cfg.scope = 0
    [] dev = "bounds" -> setup.bounds = <<>>
    [] dev = "epoch"  -> ~ V6(cfg)
    [] OTHER -> FALSE

SameStatement(h) ==
  /\ AskHarmless(h.dev)
  /\ h.was.req.dev # "pad"
  /\ cfg.depth_r > 0 => {enrolled[i] : i \in h.revoked} = {enrolled[i] : i \in h.was.revoked}
  /\ cfg.depth_s > 0 => h.shows = h.was.shows

\* VerifiesOnlyWhatWasSigned: a signature is accepted only for the message,
\* the statement, the parameters and the configuration it was made for, with
\* the revocation tree and the spent set of now, and never with a syndrome
\* whose pad bits are set, whatever became of the envelope on its way
\* (voleith_rs_verify, voleith_rsv1_verify, voleith_rs_compute_fs_seed).
VerifiesOnlyWhatWasSigned == \A i \in DOMAIN heard : heard[i].ok => SameStatement(heard[i])

\* VerifiesWhatWasSigned: a signature is accepted when the statement asked is
\* the one signed and it arrived whole, its tag with it where there is an
\* opener, in either framing and among whatever other sections
\* (voleith_rs_sig_unpack_init, voleith_rs_opener_argus_tag_parse,
\* voleith_rs_verify, voleith_rsv1_verify).
VerifiesWhatWasSigned ==
  \A i \in DOMAIN heard :
    LET h == heard[i]
        tagged == \E k \in DOMAIN Kept(h.calls) : Kept(h.calls)[k].tag = OpenerTag
    IN  SameStatement(h) /\ h.damage = "none" /\ (cfg.opener = 1 => tagged) => h.ok

\* EligibleAreHeard: who may sign does, who may not does not, and what was so
\* signed is accepted: the two halves of completeness, over the builder, the
\* signer, the envelope and the verifier (voleith_rs_ring_member_set,
\* voleith_rs_sign, voleith_rs_verify, voleith_rsv1_sign, voleith_rsv1_verify).
EligibleAreHeard == SignsIffEligible /\ VerifiesWhatWasSigned

\* OneShowPerScope: the nullifiers of two accepted signatures are equal exactly
\* when they are of one key in one scope, and with a spent set there are no two
\* such; under epochs a key of each epoch is a key of its own
\* (voleith_rs_nullifier_equal, voleith_rs_build_circuit).
OneShowPerScope ==
  cfg.scope > 0 =>
    \A x, y \in accepted :
      /\ (x.T = y.T) <=> (x.show = y.show)
      /\ cfg.depth_s > 0 /\ x # y => x.show # y.show
=============================================================================
