---------------------------- MODULE VoleTheorems ----------------------------
(***************************************************************************)
(* What the two-phase proof guarantees for any parameters, circuits, seeds *)
(* and bounds: the invariants of VoleProof, from one inductive invariant   *)
(* and the lemmas of BavcProofs about the tree and the conversion.         *)
(***************************************************************************)
EXTENDS VoleProof, BavcProofs

\* The runs of respond that can succeed.
Runs ==
  {of \in [p : Params, c : Circuits, seed : FsSeeds, w : Witnesses, inst : Instances] :
     <<of.c, of.w, of.inst>> \in Satisfies}

Contexts ==
  [p : Params, c : Circuits, seed : FsSeeds, pbuf : BOOLEAN, of : {NoRun} \cup Runs,
   ctr : 0..MaxCtr]

Com(of) == Commitment[of.p][of.c][of.seed]
ProofOf(s) == Proof(s.of, s.ctr, s.chall)
DeltaOf(s) == DecodeChallenge(s.of.p, s.chall)

\* What the loop of respond lets through.
Releasable(s) ==
  /\ s \in [of : Runs, ctr : 0..MaxCtr, chall : Nat]
  /\ Grinds(s.of.p, s.chall)
  /\ Openable(s.of.p, DeltaOf(s))

\* What a released proof may have become on its way.
MayBecome(s, whole, b) == IF whole THEN b = ProofOf(s) ELSE b \in Damaged(ProofOf(s))

\* The verifier's context v was filled from the proof b.
FilledFrom(v, b) ==
  LET rec == VoleReconstruct(v.p, b.decom, DecodeChallenge(v.p, b.chall), b.iv, b.c)
  IN  /\ Reconstructible(b, v.p, v.c)
      /\ v.q = rec.q /\ v.blob = Blob(b.header, rec.com, b.c, b.iv)
      /\ v.u = b.u /\ v.d = b.d /\ v.a = b.a /\ v.chall = b.chall /\ v.ctr = b.ctr

-----------------------------------------------------------------------------
(* The inductive invariant.                                                *)

CtxInv ==
  ctx = NoCtx \/ /\ ctx \in Contexts
                 /\ ctx.of = NoRun \/ /\ ctx.of.p = ctx.p
                                      /\ ctx.of.c = ctx.c
                                      /\ ctx.of.seed = ctx.seed
HeldInv == held \subseteq AllHeld /\ NothingLeft
SentInv == \A s \in sent : Releasable(s)

\* A commitment answers once: its seed is in one released proof, and in none
\* while it may still answer.
OneAnswer ==
  /\ \A s, t \in sent : s.of.seed = t.of.seed => s = t
  /\ ctx # NoCtx /\ ctx.pbuf => \A s \in sent : s.of.seed # ctx.seed

WireInv ==
  wire # NoProof => origin \in sent /\ intact \in BOOLEAN /\ MayBecome(origin, intact, wire)

VctxInv ==
  vctx # NoCtx =>
    /\ vctx.p \in Params /\ vctx.origin \in sent /\ vctx.intact \in BOOLEAN
    /\ \E b : MayBecome(vctx.origin, vctx.intact, b) /\ FilledFrom(vctx, b)

VerdictInv == AcceptsIntact /\ RejectsDamaged

ControlInv == CtxInv /\ HeldInv /\ SentInv /\ OneAnswer
IInv == ControlInv /\ WireInv /\ VctxInv /\ VerdictInv

-----------------------------------------------------------------------------
(* An honest commitment, and the proof made from it.                       *)

LEMMA CommitmentIs ==
  ASSUME NEW of \in Runs
  PROVE  /\ of.p \in Params /\ Legal(of.p)
         /\ Com(of) = VoleCommit(of.p, << <<"root", Header(of.c, of.p), of.seed>> >>,
                                 Iv(of.c, of.p, of.seed))
<1>1. of.p \in Params /\ of.c \in Circuits /\ of.seed \in FsSeeds
  BY DEF Runs
<1>2. Legal(of.p)
  BY <1>1, ParamsAssumption
<1>3. Com(of) = VoleCommit(of.p, RootSeed(of.c, of.p, of.seed), Iv(of.c, of.p, of.seed))
  BY <1>1 DEF Com, Commitment
<1> QED
  BY <1>1, <1>2, <1>3 DEF RootSeed

LEMMA ProofParts ==
  ASSUME NEW s
  PROVE  LET b == ProofOf(s)
             com == Com(s.of)
         IN  /\ b.header = Header(s.of.c, s.of.p) /\ b.c = com.c
             /\ b.u = VoleHash(HonestChall1(s.of), com.u) /\ b.d = ComputeD(s.of)
             /\ b.a = <<QsCoefficient(1, s.of), QsCoefficient(2, s.of)>>
             /\ b.iv = Iv(s.of.c, s.of.p, s.of.seed)
             /\ b.decom = BavcOpen(s.of.p, com.bavc.tree, b.iv, DeltaOf(s))
             /\ b.chall = s.chall /\ b.ctr = s.ctr /\ b.len = 0
BY DEF ProofOf, Proof, Com, DeltaOf

\* What the verifier computes from an intact proof.
LEMMA IntactReconstructs ==
  ASSUME NEW s, Releasable(s), NEW v, v.p = s.of.p, FilledFrom(v, ProofOf(s))
  PROVE  /\ v.blob = Blob(Header(s.of.c, s.of.p), Com(s.of).bavc.com, Com(s.of).c,
                          Iv(s.of.c, s.of.p, s.of.seed))
         /\ v.q = [r \in Rows(s.of.p) |->
                     MaskedXor(Com(s.of).v[r], Com(s.of).u, BitAt(s.chall, r))]
<1> DEFINE of == s.of
           p == of.p
           com == Com(of)
           b == ProofOf(s)
           iv == Iv(of.c, of.p, of.seed)
           x == <<"root", Header(of.c, of.p), of.seed>>
           delta == DeltaOf(s)
           rec == VoleReconstruct(p, BavcOpen(p, com.bavc.tree, iv, delta), delta, iv, com.c)
           Row(r) == MaskedXor(com.v[r], com.u, BitAt(s.chall, r))
<1>1. of \in Runs /\ s.chall \in Nat /\ Openable(p, delta)
  BY DEF Releasable
<1>2. Legal(p) /\ com = VoleCommit(p, <<x>>, iv)
  BY <1>1, CommitmentIs
<1>3. \A n \in IndexBits(p)..(p.lambda - 1) : BitAt(s.chall, n) = 0
  BY DEF Releasable, Grinds, IndexBits
<1>4. delta = DecodeChallenge(p, s.chall)
  BY DEF DeltaOf
<1>5. /\ v.q = rec.q /\ v.blob = Blob(Header(of.c, p), rec.com, com.c, iv)
  <2>1. /\ b.header = Header(of.c, p) /\ b.c = com.c /\ b.iv = iv
        /\ b.decom = BavcOpen(p, com.bavc.tree, iv, delta) /\ b.chall = s.chall
    BY ProofParts
  <2> HIDE DEF b, com, iv
  <2>2. /\ v.q = VoleReconstruct(v.p, b.decom, DecodeChallenge(v.p, b.chall), b.iv, b.c).q
        /\ v.blob = Blob(b.header,
                         VoleReconstruct(v.p, b.decom, DecodeChallenge(v.p, b.chall), b.iv, b.c).com,
                         b.c, b.iv)
    BY DEF FilledFrom, b
  <2> QED
    BY <1>4, <2>1, <2>2
<1>6. rec.q = [r \in Rows(p) |-> rec.q[r]]
  BY DEF VoleReconstruct, CorrectedRows
<1>7. rec.com = com.bavc.com /\ \A r \in Rows(p) : rec.q[r] = Row(r)
  <2>1. rec = VoleReconstruct(p, BavcOpen(p, com.bavc.tree, iv, delta), delta, iv, com.c)
    OBVIOUS
  <2> HIDE DEF rec, com, iv, x, delta, p
  <2> QED
    BY <1>1, <1>2, <1>3, <1>4, <2>1, VoleReconstructs
<1> HIDE DEF rec
<1>8. v.q = [r \in Rows(p) |-> Row(r)]
  BY <1>5, <1>6, <1>7
<1> QED
  BY <1>5, <1>7, <1>8

-----------------------------------------------------------------------------
(* What the verifier makes of a damaged proof.                             *)

LEMMA XorShows ==
  ASSUME NEW a, NEW b, b # {}
  PROVE  Xor(a, b) # a
BY DEF Xor

LEMMA JunkShows == Junk # {}
BY DEF Junk, PrgOut

\* What damage leaves of b, and the ways in which z differs from it.
Altered(b, z) ==
  \/ ~ z.header.magic
  \/ z.header.setId = 0
  \/ z.header.circuit = "junk"
  \/ z.header.params = NoCtx
  \/ z.u.x = Xor(b.u.x, Junk)
  \/ z.d.mask = Xor(b.d.mask, Junk)
  \/ z.a[2] = <<"junk">>
  \/ z.iv = JunkIv
  \/ z.ctr = b.ctr + 1
  \/ z.len = 1
  \/ \E i \in DOMAIN b.c : z.c[i] = Xor(b.c[i], Junk)
  \/ /\ z.chall = b.chall
     /\ \E i \in DOMAIN b.decom.coms : z.decom.coms[i].seed = JunkSeed
  \/ /\ z.chall = b.chall
     /\ \E n \in DOMAIN b.decom.seeds : z.decom.seeds[n] = JunkSeed
  \/ \E n \in Rows(b.header.params) :
       z.chall = IF BitAt(b.chall, n) = 1 THEN b.chall - 2^n ELSE b.chall + 2^n

LEMMA DamageAlters ==
  ASSUME NEW s, NEW z \in Damaged(ProofOf(s))
  PROVE  z.a[1] = QsCoefficient(1, s.of) /\ Altered(ProofOf(s), z)
<1> DEFINE b == ProofOf(s)
<1>1. b.a = <<QsCoefficient(1, s.of), QsCoefficient(2, s.of)>>
  BY ProofParts
<1>2. CASE z = [b EXCEPT !.header.magic = FALSE]
  BY <1>1, <1>2 DEF Altered, ProofOf, Proof, Header
<1>3. CASE z = [b EXCEPT !.header.setId = 0]
  BY <1>1, <1>3 DEF Altered, ProofOf, Proof, Header
<1>4. CASE z = [b EXCEPT !.header.circuit = "junk"]
  BY <1>1, <1>4 DEF Altered, ProofOf, Proof, Header
<1>5. CASE z = [b EXCEPT !.header.params = NoCtx]
  BY <1>1, <1>5 DEF Altered, ProofOf, Proof, Header
<1>6. CASE z = [b EXCEPT !.u.x = Xor(@, Junk)]
  BY <1>1, <1>6 DEF Altered, ProofOf, Proof, VoleHash
<1>7. CASE z = [b EXCEPT !.d.mask = Xor(@, Junk)]
  BY <1>1, <1>7 DEF Altered, ProofOf, Proof, ComputeD
<1>8. CASE z = [b EXCEPT !.a[2] = <<"junk">>]
  <2>1. z.a = [b.a EXCEPT ![2] = <<"junk">>]
    BY <1>8 DEF ProofOf, Proof
  <2>2. z.a[1] = b.a[1] /\ z.a[2] = <<"junk">>
    <3> HIDE DEF b
    <3> QED
      BY <1>1, <2>1
  <2> QED
    BY <1>1, <2>2 DEF Altered
<1>9. CASE z = [b EXCEPT !.iv = JunkIv]
  BY <1>1, <1>9 DEF Altered, ProofOf, Proof
<1>10. CASE z = [b EXCEPT !.ctr = @ + 1]
  BY <1>1, <1>10 DEF Altered, ProofOf, Proof
<1>11. CASE z = [b EXCEPT !.len = 1]
  BY <1>1, <1>11 DEF Altered, ProofOf, Proof
<1>12. ASSUME NEW i \in DOMAIN b.c, z = [b EXCEPT !.c[i] = Xor(@, Junk)]
       PROVE  z.a[1] = QsCoefficient(1, s.of) /\ Altered(ProofOf(s), z)
  BY <1>1, <1>12 DEF Altered, ProofOf, Proof
<1>13. ASSUME NEW i \in DOMAIN b.decom.coms, z = [b EXCEPT !.decom.coms[i].seed = JunkSeed]
       PROVE  z.a[1] = QsCoefficient(1, s.of) /\ Altered(ProofOf(s), z)
  <2>1. z.a = b.a /\ z.chall = b.chall
    BY <1>13 DEF ProofOf, Proof
  <2>2. z.decom.coms = [b.decom.coms EXCEPT ![i].seed = JunkSeed]
    BY <1>13 DEF ProofOf, Proof, BavcOpen
  <2>3. b.decom.coms[i] = [seed |-> b.decom.coms[i].seed, iv |-> b.decom.coms[i].iv,
                           tweak |-> b.decom.coms[i].tweak]
    BY <1>13 DEF ProofOf, Proof, BavcOpen, LeafCommit
  <2> HIDE DEF b
  <2>4. z.decom.coms[i].seed = JunkSeed
    BY <1>13, <2>2, <2>3
  <2> QED
    BY <1>1, <1>13, <2>1, <2>4 DEF Altered, b
<1>14. ASSUME NEW n \in DOMAIN b.decom.seeds, z = [b EXCEPT !.decom.seeds[n] = JunkSeed]
       PROVE  z.a[1] = QsCoefficient(1, s.of) /\ Altered(ProofOf(s), z)
  <2>1. z.a = b.a /\ z.chall = b.chall
    BY <1>14 DEF ProofOf, Proof
  <2>2. z.decom.seeds = [b.decom.seeds EXCEPT ![n] = JunkSeed]
    BY <1>14 DEF ProofOf, Proof, BavcOpen
  <2> HIDE DEF b
  <2>3. z.decom.seeds[n] = JunkSeed
    BY <1>14, <2>2
  <2> QED
    BY <1>1, <1>14, <2>1, <2>3 DEF Altered, b
<1>15. ASSUME NEW n \in Rows(b.header.params),
              z = [b EXCEPT !.chall = IF BitAt(@, n) = 1 THEN @ - 2^n ELSE @ + 2^n]
       PROVE  z.a[1] = QsCoefficient(1, s.of) /\ Altered(ProofOf(s), z)
  BY <1>1, <1>15 DEF Altered, ProofOf, Proof
<1> HIDE DEF b
<1>16. z \in Damaged(b)
  BY DEF b
<1>17. \/ z \in {[b EXCEPT !.header.magic = FALSE], [b EXCEPT !.header.setId = 0],
                 [b EXCEPT !.header.circuit = "junk"], [b EXCEPT !.header.params = NoCtx],
                 [b EXCEPT !.u.x = Xor(@, Junk)], [b EXCEPT !.d.mask = Xor(@, Junk)],
                 [b EXCEPT !.a[2] = <<"junk">>], [b EXCEPT !.iv = JunkIv],
                 [b EXCEPT !.ctr = @ + 1], [b EXCEPT !.len = 1]}
       \/ \E i \in DOMAIN b.c : z = [b EXCEPT !.c[i] = Xor(@, Junk)]
       \/ \E i \in DOMAIN b.decom.coms : z = [b EXCEPT !.decom.coms[i].seed = JunkSeed]
       \/ \E n \in DOMAIN b.decom.seeds : z = [b EXCEPT !.decom.seeds[n] = JunkSeed]
       \/ \E n \in Rows(b.header.params) :
            z = [b EXCEPT !.chall = IF BitAt(@, n) = 1 THEN @ - 2^n ELSE @ + 2^n]
  BY <1>16 DEF Damaged
<1> QED
  BY <1>2, <1>3, <1>4, <1>5, <1>6, <1>7, <1>8, <1>9, <1>10, <1>11, <1>12, <1>13, <1>14,
     <1>15, <1>17

\* A query of the verifier that equals one of the prover's says what the
\* verifier must have seen.
Matches(x, v, inst, seed) ==
  LET com == Com(x.of)
      chall1 == HonestChall1(x.of)
  IN  /\ seed = x.of.seed /\ inst = x.of.inst
      /\ v.blob = Blob(Header(x.of.c, x.of.p), com.bavc.com, com.c,
                       Iv(x.of.c, x.of.p, x.of.seed))
      /\ v.u = VoleHash(chall1, com.u) /\ v.d = ComputeD(x.of)
      /\ v.a = <<QsCoefficient(1, x.of), QsCoefficient(2, x.of)>>
      /\ v.ctr = x.ctr

LEMMA QueryMatches ==
  ASSUME NEW x, NEW v, NEW inst, NEW seed, NEW a0,
         ProverQuery(x.of, x.ctr)
           = Query(VerifierChall2(v, Chall1(seed, inst, v.blob)), a0, v.a, v.ctr)
  PROVE  Matches(x, v, inst, seed)
<1> DEFINE of == x.of
           com == Com(of)
           chall1 == HonestChall1(of)
           blob == Blob(Header(of.c, of.p), com.bavc.com, com.c, Iv(of.c, of.p, of.seed))
<1>1. /\ v.a = <<QsCoefficient(1, of), QsCoefficient(2, of)>> /\ v.ctr = x.ctr
      /\ VerifierChall2(v, Chall1(seed, inst, v.blob)) = ProverChall2(of)
  BY DEF ProverQuery, Query
<1>2. /\ Chall1(seed, inst, v.blob) = chall1 /\ v.u = VoleHash(chall1, com.u)
      /\ v.d = ComputeD(of)
  BY <1>1 DEF VerifierChall2, ProverChall2, Chall2, Com
<1>3. chall1 = Chall1(of.seed, of.inst, blob)
  BY DEF HonestChall1, Com
<1>4. seed = of.seed /\ inst = of.inst /\ v.blob = blob
  BY <1>2, <1>3 DEF Chall1
<1> QED
  BY <1>1, <1>2, <1>4 DEF Matches

LEMMA RecomputedCom ==
  ASSUME NEW p, NEW opening, NEW delta, NEW iv, NEW c
  PROVE  VoleReconstruct(p, opening, delta, iv, c).com = Rebuild(p, opening, delta, iv).com
BY DEF VoleReconstruct

LEMMA CommittedBavc ==
  ASSUME NEW p, NEW root, NEW iv
  PROVE  VoleCommit(p, root, iv).bavc = BavcCommit(p, root, iv)
BY DEF VoleCommit

LEMMA OpeningDomains ==
  ASSUME NEW p, NEW tree, NEW iv, NEW delta
  PROVE  /\ DOMAIN BavcOpen(p, tree, iv, delta).coms = Vectors(p)
         /\ DOMAIN BavcOpen(p, tree, iv, delta).seeds = 1..p.T
BY DEF BavcOpen

\* What the verifier matched is the released proof, and no alteration of it.
LEMMA AlterationShows ==
  ASSUME NEW s, Releasable(s), NEW b, Altered(ProofOf(s), b), NEW v, v.p \in Params,
         FilledFrom(v, b), NEW inst, NEW seed, Matches(s, v, inst, seed), s.chall = v.chall
  PROVE  FALSE
<1> DEFINE of == s.of
           p == of.p
           com == Com(of)
           iv == Iv(of.c, of.p, of.seed)
           x == <<"root", Header(of.c, of.p), of.seed>>
           y == <<JunkIv, 0>>
           delta == DecodeChallenge(p, b.chall)
           h == ProofOf(s)
           rec == VoleReconstruct(p, b.decom, delta, b.iv, b.c)
<1>1. /\ of \in Runs /\ s.chall \in Nat /\ s.ctr \in Nat
  BY ProofAssumption DEF Releasable
<1>2. Legal(p) /\ com = VoleCommit(p, <<x>>, iv) /\ of.c \in Circuits
  BY <1>1, CommitmentIs DEF Runs
<1>3. /\ h.header = Header(of.c, p) /\ h.c = com.c
      /\ h.u = VoleHash(HonestChall1(of), com.u) /\ h.d = ComputeD(of)
      /\ h.iv = iv /\ h.chall = s.chall /\ h.ctr = s.ctr
      /\ h.decom = BavcOpen(p, com.bavc.tree, iv, DecodeChallenge(p, s.chall))
  BY ProofParts DEF DeltaOf
<1>4. /\ v.blob = Blob(Header(of.c, p), com.bavc.com, com.c, iv)
      /\ v.u = VoleHash(HonestChall1(of), com.u) /\ v.d = ComputeD(of)
      /\ v.a = <<QsCoefficient(1, of), QsCoefficient(2, of)>> /\ v.ctr = s.ctr
  BY DEF Matches
<1>5. /\ Reconstructible(b, v.p, v.c)
      /\ v.blob = Blob(b.header, VoleReconstruct(v.p, b.decom, DecodeChallenge(v.p, b.chall),
                                                 b.iv, b.c).com, b.c, b.iv)
      /\ v.u = b.u /\ v.d = b.d /\ v.a = b.a /\ v.chall = b.chall /\ v.ctr = b.ctr
  BY DEF FilledFrom
<1>6. /\ b.header = Header(of.c, p) /\ b.c = com.c /\ b.iv = iv /\ b.chall = s.chall
      /\ VoleReconstruct(v.p, b.decom, DecodeChallenge(v.p, b.chall), b.iv, b.c).com = com.bavc.com
  BY <1>4, <1>5 DEF Blob
<1>7. /\ b.header.magic /\ b.len = 0 /\ v.p = b.header.params
      /\ Rebuildable(v.p, b.decom, DecodeChallenge(v.p, b.chall))
  BY <1>5 DEF Reconstructible
<1>8. v.p = p
  BY <1>6, <1>7 DEF Header
<1>9. rec.com = com.bavc.com /\ Rebuildable(p, b.decom, delta)
  BY <1>6, <1>7, <1>8
<1>10. /\ rec.com = Rebuild(p, b.decom, delta, b.iv).com
       /\ com.bavc = BavcCommit(p, <<x>>, iv)
  <2>1. rec.com = Rebuild(p, b.decom, delta, b.iv).com
    BY RecomputedCom
  <2> HIDE DEF com, x, iv, p
  <2>2. com.bavc = BavcCommit(p, <<x>>, iv)
    BY <1>2, CommittedBavc
  <2> QED
    BY <2>1, <2>2
<1>11. Rebuild(p, b.decom, delta, b.iv).com = BavcCommit(p, <<x>>, iv).com
  BY <1>9, <1>10
<1>12. x # y
  BY DEF JunkIv
<1>13. InRange(p, delta)
  BY <1>1, <1>2, <1>6, DecodedIndex
<1> HIDE DEF delta
<1>14. p.tau > 0 /\ p.tau \in Nat /\ p # NoCtx
  <2>1. p.tau > 0 /\ p.tau \in Nat
    BY <1>2, ParamFacts
  <2>2. p = ParamsInit(p.lambda, p.tau, p.w, p.T)
    BY <1>2 DEF Legal
  <2>3. "lambda" \in DOMAIN p
    <3> HIDE DEF p
    <3> QED
      BY <2>2 DEF ParamsInit
  <2>4. "lambda" \notin DOMAIN NoCtx
    BY DEF NoCtx
  <2> QED
    BY <2>1, <2>3, <2>4
<1>15. ~ (\/ ~ b.header.magic \/ b.header.setId = 0 \/ b.header.circuit = "junk"
          \/ b.header.params = NoCtx)
  BY <1>2, <1>6, <1>7, <1>14, ProofAssumption DEF Header
<1>16. ~ (\/ b.u.x = Xor(h.u.x, Junk) \/ b.d.mask = Xor(h.d.mask, Junk)
          \/ \E i \in DOMAIN h.c : b.c[i] = Xor(h.c[i], Junk))
  <2>1. b.u = h.u /\ b.d = h.d /\ b.c = h.c
    BY <1>3, <1>4, <1>5, <1>6
  <2> HIDE DEF h
  <2> QED
    BY <2>1, XorShows, JunkShows
<1>17. b.a[2] # <<"junk">>
  BY <1>4, <1>5 DEF QsCoefficient
<1>18. b.iv # JunkIv
  BY <1>6 DEF Iv, JunkIv
<1>19. b.ctr # h.ctr + 1 /\ b.len # 1
  BY <1>1, <1>3, <1>4, <1>5, <1>7
<1>20. ASSUME NEW n \in Rows(h.header.params),
              b.chall = IF BitAt(h.chall, n) = 1 THEN h.chall - 2^n ELSE h.chall + 2^n
       PROVE  FALSE
  <2>1. n \in Nat
    <3>1. h.header.params = p /\ p.lambda \in Nat
      BY <1>2, <1>3, ParamFacts DEF Header
    <3> HIDE DEF h, p
    <3> QED
      BY <3>1 DEF Rows
  <2>2. 2^n \in Nat /\ 2^n > 0
    BY <2>1, PowerPositive
  <2>3. b.chall = h.chall /\ h.chall \in Nat
    BY <1>1, <1>3, <1>6
  <2> HIDE DEF h
  <2> QED
    BY <1>20, <2>2, <2>3
<1>21. ASSUME NEW i \in DOMAIN h.decom.coms, b.decom.coms[i].seed = JunkSeed PROVE FALSE
  <2>1. i \in Vectors(p)
    BY <1>3, <1>21, OpeningDomains
  <2>2. b.decom.coms[i].seed = <<y>>
    BY <1>21 DEF JunkSeed
  <2> HIDE DEF x, y, p
  <2> QED
    BY <1>2, <1>11, <1>12, <1>13, <2>1, <2>2, ChangedComShows
<1>22. ASSUME NEW n \in DOMAIN h.decom.seeds, b.decom.seeds[n] = JunkSeed PROVE FALSE
  <2>1. n \in 1..p.T
    <3> DEFINE o == BavcOpen(p, com.bavc.tree, iv, DecodeChallenge(p, s.chall))
    <3>1. h.decom = o
      BY <1>3
    <3>2. DOMAIN o.seeds = 1..p.T
      BY OpeningDomains
    <3> HIDE DEF o, h
    <3> QED
      BY <1>22, <3>1, <3>2, Zenon
  <2>2. b.decom.seeds[n] = <<y>>
    BY <1>22 DEF JunkSeed
  <2> HIDE DEF x, y, p
  <2> QED
    BY <1>2, <1>9, <1>11, <1>12, <1>13, <2>1, <2>2, ChangedSeedShows
<1>23. Altered(h, b)
  OBVIOUS
<1> HIDE DEF h
<1> QED
  BY <1>15, <1>16, <1>17, <1>18, <1>19, <1>20, <1>21, <1>22, <1>23 DEF Altered

\* A proof that passes is one that was released, nothing happened to it, and
\* the verifier was asked about what it was made for.
LEMMA OnlyGenuinePasses ==
  ASSUME NEW s, Releasable(s), NEW x, Releasable(x), x.of.seed = s.of.seed => x = s,
         NEW whole \in BOOLEAN, NEW b, MayBecome(s, whole, b),
         NEW v, v.p \in Params, FilledFrom(v, b),
         NEW inst, NEW seed, Matches(x, v, inst, seed), x.chall = v.chall
  PROVE  /\ whole /\ v.p = s.of.p /\ v.c = s.of.c
         /\ inst = s.of.inst /\ seed = s.of.seed
<1>1. b.a[1] = QsCoefficient(1, s.of) /\ (whole \/ Altered(ProofOf(s), b))
  <2>1. CASE whole
    <3>1. b = ProofOf(s)
      BY <2>1 DEF MayBecome
    <3>2. b.a = <<QsCoefficient(1, s.of), QsCoefficient(2, s.of)>>
      BY <3>1, ProofParts
    <3> QED
      BY <2>1, <3>2
  <2>2. CASE ~ whole
    BY <2>2, DamageAlters DEF MayBecome
  <2> QED
    BY <2>1, <2>2
<1>2. b.a = v.a /\ v.a = <<QsCoefficient(1, x.of), QsCoefficient(2, x.of)>>
  BY DEF FilledFrom, Matches
<1>3. x.of = s.of
  BY <1>1, <1>2 DEF QsCoefficient
<1>4. x = s
  BY <1>3
<1>5. whole
  BY <1>1, <1>4, AlterationShows
<1>6. inst = s.of.inst /\ seed = s.of.seed
  BY <1>4 DEF Matches
<1>7. b.header = Header(s.of.c, s.of.p)
  BY <1>5, ProofParts DEF MayBecome
<1>8. v.p = b.header.params /\ v.c = b.header.circuit
  BY DEF FilledFrom, Reconstructible
<1> QED
  BY <1>5, <1>6, <1>7, <1>8 DEF Header

\* Correcting the verifier's rows by u_tilde gives the prover's hashes.
LEMMA HashesCorrect ==
  ASSUME NEW k, NEW v, NEW u, NEW bit
  PROVE  HashXor(VoleHash(k, MaskedXor(v, u, bit)), VoleHash(k, u), bit) = VoleHash(k, v)
         \/ bit \notin {0, 1}
<1>1. CASE bit = 0
  BY <1>1 DEF HashXor, MaskedXor
<1>2. CASE bit = 1
  <2>1. /\ MaskedXor(v, u, bit) = Xor(v, u)
        /\ VoleHash(k, Xor(v, u)).keys = {k} /\ VoleHash(k, Xor(v, u)).x = Xor(v, u)
        /\ VoleHash(k, u).keys = {k} /\ VoleHash(k, u).x = u
    BY <1>2 DEF MaskedXor, VoleHash
  <2>2. Xor(Xor(v, u), u) = v /\ {k} \cup {k} = {k}
    BY XorCancels
  <2> QED
    BY <1>2, <2>1, <2>2 DEF HashXor, VoleHash
<1> QED
  BY <1>1, <1>2

\* An intact proof, verified in its own context, makes the prover's query.
LEMMA IntactPasses ==
  ASSUME NEW s, Releasable(s), NEW v, v.p = s.of.p, v.c = s.of.c, FilledFrom(v, ProofOf(s))
  PROVE  LET chall2 == VerifierChall2(v, Chall1(s.of.seed, s.of.inst, v.blob))
             a0 == QsVerify(v.c, s.of.inst, v.q, v.d, v.chall, chall2, v.a)
         IN  ProverQuery(s.of, s.ctr) = Query(chall2, a0, v.a, v.ctr) /\ v.chall = s.chall
<1> DEFINE of == s.of
           p == of.p
           com == Com(of)
           chall1 == HonestChall1(of)
           k == Chall1(of.seed, of.inst, v.blob)
           chall2 == VerifierChall2(v, k)
           a0 == QsVerify(v.c, of.inst, v.q, v.d, v.chall, chall2, v.a)
           q == [r \in Rows(p) |-> MaskedXor(com.v[r], com.u, BitAt(s.chall, r))]
<1>1. /\ v.blob = Blob(Header(of.c, p), com.bavc.com, com.c, Iv(of.c, p, of.seed))
      /\ v.q = q
  BY IntactReconstructs
<1>2. /\ v.u = VoleHash(chall1, com.u) /\ v.d = ComputeD(of)
      /\ v.a = <<QsCoefficient(1, of), QsCoefficient(2, of)>>
      /\ v.chall = s.chall /\ v.ctr = s.ctr
  BY ProofParts DEF FilledFrom
<1>3. k = chall1
  BY <1>1 DEF HonestChall1, Com
<1>4. ASSUME NEW r \in Rows(p)
      PROVE  HashXor(VoleHash(chall1, v.q[r]), v.u, BitAt(v.chall, r)) = VoleHash(chall1, com.v[r])
  <2>1. BitAt(s.chall, r) \in {0, 1}
    <3>1. s.chall \in Nat
      BY DEF Releasable
    <3>2. r \in Nat
      <4>1. of \in Runs
        BY DEF Releasable
      <4>2. p.lambda \in Nat
        BY <4>1, CommitmentIs, ParamFacts
      <4> HIDE DEF p
      <4> QED
        BY <1>4, <4>2 DEF Rows
    <3> QED
      BY <3>1, <3>2, BitRange
  <2>2. v.q[r] = MaskedXor(com.v[r], com.u, BitAt(s.chall, r))
    BY <1>1
  <2> HIDE DEF chall1, com, q, k
  <2> QED
    BY <1>2, <2>1, <2>2, HashesCorrect
<1>5. chall2 = ProverChall2(of)
  <2> DEFINE rows == [r \in Rows(p) |-> HashXor(VoleHash(chall1, v.q[r]), v.u, BitAt(v.chall, r))]
  <2>1. rows = [r \in Rows(p) |-> VoleHash(chall1, com.v[r])]
    <3> HIDE DEF chall1, com, q, k, p
    <3> QED
      BY <1>4
  <2>2. chall2 = Chall2(chall1, v.u, rows, v.d)
    BY <1>3 DEF VerifierChall2
  <2>3. ProverChall2(of) = Chall2(chall1, VoleHash(chall1, com.u),
                                  [r \in Rows(p) |-> VoleHash(chall1, com.v[r])], ComputeD(of))
    BY DEF ProverChall2, Com
  <2> HIDE DEF rows, chall2, chall1, com, p
  <2> QED
    BY <1>2, <2>1, <2>2, <2>3
<1>6. a0 = QsCoefficient(0, of)
  <2>1. v.a[1][2] = of
    BY <1>2 DEF QsCoefficient
  <2>2. q = [r \in Rows(of.p) |-> MaskedXor(Commitment[of.p][of.c][of.seed].v[r],
                                            Commitment[of.p][of.c][of.seed].u, BitAt(v.chall, r))]
    BY <1>2 DEF Com
  <2> HIDE DEF chall2, q, k
  <2> QED
    BY <1>1, <1>2, <1>5, <2>1, <2>2 DEF QsVerify
<1>7. ProverQuery(of, s.ctr) = Query(chall2, a0, v.a, v.ctr)
  <2> HIDE DEF chall2, a0
  <2> QED
    BY <1>2, <1>5, <1>6 DEF ProverQuery
<1> QED
  BY <1>2, <1>7

-----------------------------------------------------------------------------
(* The invariant holds at the start and after every step.                  *)

LEMMA InitIInv == Init => IInv
BY DEF Init, IInv, ControlInv, CtxInv, HeldInv, SentInv, OneAnswer, WireInv, VctxInv,
       VerdictInv, AcceptsIntact, RejectsDamaged, NothingLeft, NoCtx, NoProof, NoVerdict

LEMMA ContextIsSome ==
  ASSUME NEW x \in Contexts
  PROVE  x # NoCtx
<1>1. "ctr" \in DOMAIN x
  BY DEF Contexts
<1>2. "ctr" \notin DOMAIN NoCtx
  BY DEF NoCtx
<1> QED
  BY <1>1, <1>2

LEMMA FreedIsEmpty ==
  /\ \A h : h \subseteq AllHeld => ProverCommitFree(h) = {}
  /\ \A at \in DOMAIN Written : AfterFailure(at) = {}
<1>1. \A h : h \subseteq AllHeld => ProverCommitFree(h) = {}
  BY DEF AllHeld, ProverCommitFree, ProverFree, BavcFree, CommitmentFree
<1>2. ASSUME NEW at \in DOMAIN Written PROVE AfterFailure(at) = {}
  <2>1. CASE at = "convert"
    BY <2>1 DEF AfterFailure, Written, ProverCommitFree, ProverFree, BavcFree, CommitmentFree
  <2>2. CASE at # "convert"
    <3>1. Written[at] \subseteq {"tree", "leaf_seeds"}
      BY <2>2 DEF Written
    <3>2. AfterFailure(at) = ProverCommitFree(CommitmentFree(BavcFree(Written[at])) \ {"v"})
      BY <2>2 DEF AfterFailure
    <3> QED
      BY <3>1, <3>2 DEF ProverCommitFree, ProverFree, BavcFree, CommitmentFree
  <2> QED
    BY <2>1, <2>2
<1> QED
  BY <1>1, <1>2

LEMMA ProveCommitControl ==
  ASSUME ControlInv, NEW p \in Params, NEW c \in Circuits, NEW seed \in FsSeeds,
         ProveCommit(p, c, seed)
  PROVE  ControlInv'
<1>1. ctx' \in Contexts /\ ctx'.of = NoRun /\ ctx'.seed = seed
  BY ProofAssumption DEF ProveCommit, Contexts
<1>2. ctx' # NoCtx
  BY <1>1, ContextIsSome
<1>3. CtxInv'
  BY <1>1 DEF CtxInv
<1>4. HeldInv'
  BY <1>2 DEF ProveCommit, HeldInv, NothingLeft
<1>5. SentInv'
  BY DEF ProveCommit, ControlInv, SentInv
<1>6. OneAnswer'
  BY <1>1 DEF ProveCommit, ControlInv, OneAnswer, Used
<1> QED
  BY <1>3, <1>4, <1>5, <1>6 DEF ControlInv

LEMMA RespondControl ==
  ASSUME ControlInv, NEW w \in Witnesses, NEW inst \in Instances, Respond(w, inst)
  PROVE  ControlInv'
<1> DEFINE of == [p |-> ctx.p, c |-> ctx.c, seed |-> ctx.seed, w |-> w, inst |-> inst]
<1>1. ctx \in Contexts /\ ctx # NoCtx
  BY DEF Respond, ControlInv, CtxInv
<1>2. of \in Runs /\ of.p = ctx.p /\ of.c = ctx.c /\ of.seed = ctx.seed
  BY <1>1 DEF Respond, Contexts, Runs
<1>3. ctx' = [ctx EXCEPT !.of = of]
  BY DEF Respond
<1> HIDE DEF of
<1>4. /\ ctx' \in Contexts /\ ctx'.of = of /\ ctx'.p = ctx.p /\ ctx'.c = ctx.c
      /\ ctx'.seed = ctx.seed /\ ctx'.pbuf = ctx.pbuf
  BY <1>1, <1>2, <1>3 DEF Contexts
<1>5. CtxInv'
  BY <1>2, <1>4 DEF CtxInv
<1>6. HeldInv'
  BY <1>4, ContextIsSome DEF Respond, ControlInv, HeldInv, NothingLeft
<1>7. SentInv' /\ OneAnswer'
  BY <1>1, <1>4 DEF Respond, ControlInv, SentInv, OneAnswer
<1> QED
  BY <1>5, <1>6, <1>7 DEF ControlInv

LEMMA GrindOnControl ==
  ASSUME ControlInv, GrindOn
  PROVE  ControlInv'
<1>1. ctx \in Contexts /\ ctx # NoCtx /\ ctx.ctr < MaxCtr
  BY DEF GrindOn, ControlInv, CtxInv
<1>2. ctx.ctr + 1 \in 0..MaxCtr
  BY <1>1, ProofAssumption DEF Contexts
<1>3. ctx' = [ctx EXCEPT !.ctr = ctx.ctr + 1]
  BY DEF GrindOn
<1>4. /\ ctx' \in Contexts /\ ctx'.of = ctx.of /\ ctx'.p = ctx.p /\ ctx'.c = ctx.c
      /\ ctx'.seed = ctx.seed /\ ctx'.pbuf = ctx.pbuf
  BY <1>1, <1>2, <1>3 DEF Contexts
<1>5. CtxInv'
  BY <1>1, <1>4 DEF CtxInv, ControlInv
<1>6. HeldInv'
  BY <1>4, ContextIsSome DEF GrindOn, ControlInv, HeldInv, NothingLeft
<1>7. SentInv' /\ OneAnswer'
  BY <1>1, <1>4 DEF GrindOn, ControlInv, SentInv, OneAnswer
<1> QED
  BY <1>5, <1>6, <1>7 DEF ControlInv

LEMMA ReleaseControl ==
  ASSUME ControlInv, NEW chall \in Nat, Release(chall)
  PROVE  /\ ControlInv' /\ sent \subseteq sent'
         /\ origin' \in sent' /\ wire' = ProofOf(origin') /\ intact' = TRUE
<1> DEFINE new == [of |-> ctx.of, ctr |-> ctx.ctr, chall |-> chall]
<1>1. ctx \in Contexts /\ ctx # NoCtx /\ ctx.of \in Runs /\ ctx.of.p = ctx.p
      /\ ctx.of.seed = ctx.seed /\ ctx.pbuf
  BY DEF Release, ControlInv, CtxInv, Contexts
<1>2. /\ new.of = ctx.of /\ new.ctr = ctx.ctr /\ new.chall = chall
      /\ new \in [of : Runs, ctr : 0..MaxCtr, chall : Nat]
  BY <1>1 DEF Contexts
<1>3. /\ origin' = new /\ sent' = sent \cup {new} /\ intact' = TRUE
      /\ wire' = Proof(ctx.of, ctx.ctr, chall)
      /\ ctx' = [ctx EXCEPT !.pbuf = FALSE] /\ held' = held \ {"pbuf"}
      /\ Grinds(ctx.p, chall) /\ Openable(ctx.p, DecodeChallenge(ctx.p, chall))
  BY DEF Release, Accepted
<1> HIDE DEF new
<1>4. Releasable(new)
  BY <1>1, <1>2, <1>3 DEF Releasable, DeltaOf
<1>5. wire' = ProofOf(origin')
  BY <1>2, <1>3 DEF ProofOf
<1>6. /\ ctx' \in Contexts /\ ctx'.of = ctx.of /\ ctx'.p = ctx.p /\ ctx'.c = ctx.c
      /\ ctx'.seed = ctx.seed /\ ctx'.pbuf = FALSE
  BY <1>1, <1>3 DEF Contexts
<1>7. CtxInv'
  BY <1>1, <1>6 DEF CtxInv, ControlInv
<1>8. HeldInv'
  BY <1>3, <1>6, ContextIsSome DEF ControlInv, HeldInv, NothingLeft
<1>9. SentInv'
  BY <1>3, <1>4 DEF ControlInv, SentInv
<1>10. OneAnswer'
  <2>1. \A t \in sent : t.of.seed # new.of.seed
    BY <1>1, <1>2 DEF ControlInv, OneAnswer
  <2>2. \A t, u \in sent' : t.of.seed = u.of.seed => t = u
    BY <1>3, <2>1 DEF ControlInv, OneAnswer
  <2> QED
    BY <1>6, <2>2 DEF OneAnswer
<1> QED
  BY <1>3, <1>5, <1>7, <1>8, <1>9, <1>10 DEF ControlInv

\* Steps that free or fail.
LEMMA FreeControl ==
  ASSUME ControlInv, FreeProver \/ \E at \in DOMAIN Written : ProveCommitFails(at)
  PROVE  ControlInv'
<1>1. held' = {} /\ (ctx' = NoCtx \/ UNCHANGED ctx) /\ UNCHANGED sent
  BY FreedIsEmpty DEF FreeProver, ProveCommitFails, ControlInv, HeldInv
<1> QED
  BY <1>1 DEF ControlInv, CtxInv, HeldInv, NothingLeft, SentInv, OneAnswer

\* What the other party's steps cannot disturb.
LEMMA ProverLeavesVerifier ==
  ASSUME IInv, sent \subseteq sent', UNCHANGED <<vctx, verdict>>
  PROVE  VctxInv' /\ VerdictInv'
<1>1. vctx' = vctx /\ verdict' = verdict
  OBVIOUS
<1>2. VctxInv'
  BY <1>1 DEF IInv, VctxInv
<1>3. VerdictInv'
  BY <1>1 DEF IInv, VerdictInv, AcceptsIntact, RejectsDamaged
<1> QED
  BY <1>2, <1>3

LEMMA WireKept ==
  ASSUME IInv, sent \subseteq sent', UNCHANGED <<wire, origin, intact>>
  PROVE  WireInv'
BY DEF IInv, WireInv

LEMMA ControlKept ==
  ASSUME ControlInv, UNCHANGED <<ctx, held, sent>>
  PROVE  ControlInv'
BY DEF ControlInv, CtxInv, HeldInv, NothingLeft, SentInv, OneAnswer

LEMMA DamageKeeps ==
  ASSUME IInv, Damage
  PROVE  IInv'
<1>1. ControlInv'
  BY ControlKept DEF Damage, IInv
<1>2. VctxInv' /\ VerdictInv'
  BY ProverLeavesVerifier DEF Damage
<1>3. /\ origin' = origin /\ sent' = sent /\ intact' = FALSE
      /\ origin \in sent /\ wire' \in Damaged(ProofOf(origin))
  BY DEF Damage, IInv, WireInv, MayBecome
<1>4. WireInv'
  BY <1>3 DEF WireInv, MayBecome
<1> QED
  BY <1>1, <1>2, <1>4 DEF IInv

LEMMA ReconstructKeeps ==
  ASSUME IInv, NEW p \in Params, NEW c \in Circuits, VerifyReconstruct(p, c)
  PROVE  IInv'
<1>1. ControlInv' /\ WireInv'
  BY ControlKept, WireKept DEF VerifyReconstruct, IInv
<1>2. VerdictInv'
  BY DEF VerifyReconstruct, IInv, VerdictInv, AcceptsIntact, RejectsDamaged
<1>3. /\ wire # NoProof /\ Reconstructible(wire, p, c)
      /\ vctx' = Reconstructed(wire, p, c) /\ sent' = sent
  BY DEF VerifyReconstruct
<1>4. /\ vctx'.p = p /\ vctx'.c = c /\ vctx'.origin = origin /\ vctx'.intact = intact
      /\ FilledFrom(vctx', wire)
  BY <1>3 DEF Reconstructed, FilledFrom
<1>5. origin \in sent /\ intact \in BOOLEAN /\ MayBecome(origin, intact, wire)
  BY <1>3 DEF IInv, WireInv
<1>6. VctxInv'
  BY <1>3, <1>4, <1>5 DEF VctxInv
<1> QED
  BY <1>1, <1>2, <1>6 DEF IInv

\* An intact proof is not refused in its own context.
LEMMA RefuseKeeps ==
  ASSUME IInv, NEW p \in Params, NEW c \in Circuits, Refuse(p, c)
  PROVE  IInv'
<1>1. ControlInv' /\ WireInv' /\ VctxInv'
  BY ControlKept, WireKept DEF Refuse, IInv, VctxInv
<1>2. /\ verdict'.ok = FALSE /\ verdict'.origin = origin /\ verdict'.ofIntact = intact
      /\ verdict'.p = p /\ verdict'.c = c /\ sent' = sent
  BY DEF Refuse
<1>3. ASSUME intact, p = origin.of.p, c = origin.of.c PROVE FALSE
  <2>1. origin \in sent /\ wire = ProofOf(origin) /\ ~ Reconstructible(wire, p, c)
    BY <1>3 DEF Refuse, IInv, WireInv, MayBecome
  <2>2. Releasable(origin)
    BY <2>1 DEF IInv, ControlInv, SentInv
  <2>3. Legal(p) /\ origin.chall \in Nat
    BY <1>3, <2>2, CommitmentIs DEF Releasable
  <2>4. /\ wire.header = Header(c, p) /\ wire.len = 0 /\ wire.chall = origin.chall
        /\ wire.decom = BavcOpen(p, Com(origin.of).bavc.tree, wire.iv, DeltaOf(origin))
    BY <1>3, <2>1, ProofParts
  <2>5. InRange(p, DeltaOf(origin))
    BY <1>3, <2>3, DecodedIndex DEF DeltaOf
  <2>6. Rebuildable(p, wire.decom, DeltaOf(origin))
    BY <1>3, <2>2, <2>3, <2>4, <2>5, OpeningIsRebuildable DEF Releasable
  <2>7. Grinds(p, wire.chall) /\ DeltaOf(origin) = DecodeChallenge(p, wire.chall)
    BY <1>3, <2>2, <2>4 DEF Releasable, DeltaOf
  <2> QED
    BY <2>1, <2>4, <2>6, <2>7 DEF Reconstructible, Header
<1>4. VerdictInv'
  BY <1>2, <1>3 DEF VerdictInv, AcceptsIntact, RejectsDamaged, SameContext
<1> QED
  BY <1>1, <1>4 DEF IInv

LEMMA VerifyKeeps ==
  ASSUME IInv, NEW inst \in Instances, NEW seed \in FsSeeds, VerifyRespond(inst, seed)
  PROVE  IInv'
<1> DEFINE v == vctx
           s == vctx.origin
           chall2 == VerifierChall2(v, Chall1(seed, inst, v.blob))
           a0 == QsVerify(v.c, inst, v.q, v.d, v.chall, chall2, v.a)
           query == Query(chall2, a0, v.a, v.ctr)
<1>1. ControlInv' /\ WireInv' /\ VctxInv'
  BY ControlKept, WireKept DEF VerifyRespond, IInv, VctxInv
<1>2. /\ verdict'.ok = (v.chall \in Answers(query)) /\ verdict'.origin = s
      /\ verdict'.ofIntact = v.intact /\ verdict'.p = v.p /\ verdict'.c = v.c
      /\ verdict'.inst = inst /\ verdict'.seed = seed /\ sent' = sent
  BY DEF VerifyRespond
<1>3. /\ v.p \in Params /\ s \in sent /\ v.intact \in BOOLEAN
      /\ \E b : MayBecome(s, v.intact, b) /\ FilledFrom(v, b)
  BY DEF VerifyRespond, IInv, VctxInv
<1>4. PICK b : MayBecome(s, v.intact, b) /\ FilledFrom(v, b)
  BY <1>3
<1>5. \A x \in sent : Releasable(x) /\ (x.of.seed = s.of.seed => x = s)
  BY <1>3 DEF IInv, ControlInv, SentInv, OneAnswer
<1>6. inst # "any" /\ seed # "any"
  BY ProofAssumption
<1>7. v.chall \in Answers(query) <=>
        \E x \in sent : ProverQuery(x.of, x.ctr) = query /\ x.chall = v.chall
  BY DEF Answers
<1> HIDE DEF query
<1>8. ASSUME v.intact, v.p = s.of.p, v.c = s.of.c, inst = s.of.inst, seed = s.of.seed
      PROVE  v.chall \in Answers(query)
  <2>1. FilledFrom(v, ProofOf(s))
    BY <1>4, <1>8 DEF MayBecome
  <2>2. ProverQuery(s.of, s.ctr) = query /\ v.chall = s.chall
    BY <1>3, <1>5, <1>8, <2>1, IntactPasses DEF query
  <2> QED
    BY <1>3, <1>7, <2>2
<1>9. ASSUME v.chall \in Answers(query)
      PROVE  v.intact /\ v.p = s.of.p /\ v.c = s.of.c /\ inst = s.of.inst /\ seed = s.of.seed
  <2>1. PICK x \in sent : ProverQuery(x.of, x.ctr) = query /\ x.chall = v.chall
    BY <1>7, <1>9
  <2>2. Matches(x, v, inst, seed)
    <3> HIDE DEF v
    <3> QED
      BY <2>1, QueryMatches DEF query
  <2> HIDE DEF v, s
  <2> QED
    BY <1>3, <1>4, <1>5, <2>1, <2>2, OnlyGenuinePasses
<1> HIDE DEF v, s
<1>10. AcceptsIntact'
  BY <1>2, <1>6, <1>8 DEF AcceptsIntact, SameContext
<1>11. RejectsDamaged'
  BY <1>2, <1>3, <1>9 DEF RejectsDamaged, SameContext
<1> QED
  BY <1>1, <1>10, <1>11 DEF IInv, VerdictInv

LEMMA NextIInv == IInv /\ [Next]_vars => IInv'
<1> SUFFICES ASSUME IInv, [Next]_vars PROVE IInv'
  OBVIOUS
<1>1. ASSUME ControlInv', sent \subseteq sent', UNCHANGED <<wire, origin, intact, vctx, verdict>>
      PROVE  IInv'
  BY <1>1, ProverLeavesVerifier, WireKept DEF IInv
<1>2. ASSUME NEW p \in Params, NEW c \in Circuits, NEW seed \in FsSeeds, ProveCommit(p, c, seed)
      PROVE  IInv'
  BY <1>1, <1>2, ProveCommitControl DEF ProveCommit, IInv
<1>3. ASSUME FreeProver \/ \E at \in DOMAIN Written : ProveCommitFails(at)
      PROVE  IInv'
  BY <1>1, <1>3, FreeControl DEF FreeProver, ProveCommitFails, IInv
<1>4. ASSUME NEW w \in Witnesses, NEW inst \in Instances, Respond(w, inst)
      PROVE  IInv'
  BY <1>1, <1>4, RespondControl DEF Respond, IInv
<1>5. ASSUME GrindOn PROVE IInv'
  BY <1>1, <1>5, GrindOnControl DEF GrindOn, IInv
<1>6. ASSUME ctx # NoCtx, NEW chall \in 0..(2^(ctx.p.lambda) - 1), Release(chall)
      PROVE  IInv'
  <2>1. chall \in Nat
    <3>1. ctx.p.lambda \in Nat
      BY <1>6, ParamsAssumption, ParamFacts DEF IInv, ControlInv, CtxInv, Contexts
    <3>2. 2^(ctx.p.lambda) \in Nat
      BY <3>1, PowerPositive
    <3> QED
      BY <3>2
  <2>2. /\ ControlInv' /\ sent \subseteq sent'
        /\ origin' \in sent' /\ wire' = ProofOf(origin') /\ intact' = TRUE
    BY <1>6, <2>1, ReleaseControl DEF IInv
  <2>3. VctxInv' /\ VerdictInv'
    BY <1>6, <2>2, ProverLeavesVerifier DEF Release
  <2> QED
    BY <2>2, <2>3 DEF IInv, WireInv, MayBecome
<1>7. ASSUME NEW p \in Params, NEW c \in Circuits, VerifyReconstruct(p, c) \/ Refuse(p, c)
      PROVE  IInv'
  BY <1>7, ReconstructKeeps, RefuseKeeps
<1>8. ASSUME NEW inst \in Instances, NEW seed \in FsSeeds, VerifyRespond(inst, seed)
      PROVE  IInv'
  BY <1>8, VerifyKeeps
<1>9. ASSUME FreeVerifier PROVE IInv'
  BY <1>9, ControlKept, WireKept
  DEF FreeVerifier, IInv, VctxInv, VerdictInv, AcceptsIntact, RejectsDamaged
<1>10. CASE UNCHANGED vars
  <2>1. UNCHANGED <<wire, origin, intact, vctx, verdict>> /\ sent' = sent /\ UNCHANGED <<ctx, held, sent>>
    BY <1>10 DEF vars
  <2> QED
    BY <1>1, <2>1, ControlKept DEF IInv
<1> QED
  BY <1>2, <1>3, <1>4, <1>5, <1>6, <1>7, <1>8, <1>9, <1>10, DamageKeeps DEF Next

-----------------------------------------------------------------------------
(* The theorems.                                                           *)

LEMMA Inductive == Spec => []IInv
BY InitIInv, NextIInv, PTL DEF Spec

LEMMA ReleasedFacts ==
  ASSUME NEW s, Releasable(s)
  PROVE  /\ s.of \in Runs /\ Legal(s.of.p) /\ s.chall \in Nat
         /\ InRange(s.of.p, DeltaOf(s)) /\ Openable(s.of.p, DeltaOf(s))
<1>1. s.of \in Runs /\ s.chall \in Nat /\ Openable(s.of.p, DeltaOf(s))
  BY DEF Releasable
<1>2. Legal(s.of.p)
  BY <1>1, CommitmentIs
<1> QED
  BY <1>1, <1>2, DecodedIndex DEF DeltaOf

\* The contexts hold what their phases say, and every released challenge
\* decodes to an index of each vector: decode_challenge cannot overrun.
THEOREM Typed == Spec => []TypeOK
<1>1. ASSUME IInv PROVE TypeOK
  <2>1. \A s \in sent : \A i \in Vectors(s.of.p) :
          DecodeChallenge(s.of.p, s.chall)[i] \in Positions(s.of.p, i)
    BY <1>1, ReleasedFacts DEF IInv, ControlInv, SentInv, InRange, DeltaOf
  <2>2. ctx = NoCtx \/ (ctx.p \in Params /\ ctx.ctr \in 0..MaxCtr /\ ctx.pbuf \in BOOLEAN)
    BY <1>1 DEF IInv, ControlInv, CtxInv, Contexts
  <2> QED
    BY <1>1, <2>1, <2>2 DEF TypeOK, IInv, ControlInv, HeldInv, VctxInv
<1> QED
  BY <1>1, Inductive, PTL

\* However a commitment ends, no secret stays in the prover's memory.
THEOREM LeavesNothing == Spec => []NothingLeft
<1>1. IInv => NothingLeft
  BY DEF IInv, ControlInv, HeldInv
<1> QED
  BY <1>1, Inductive, PTL

\* The count of marks bavc_open checks is the number of seeds its walk
\* writes; the walk of reconstruct, from the hidden leaves alone, is the same.
THEOREM OpeningsFit == Spec => []OpeningFits
<1>1. ASSUME IInv PROVE OpeningFits
  <2> SUFFICES ASSUME NEW s \in sent
               PROVE  /\ Len(Walk(s.of.p, MarkHidden(s.of.p, DeltaOf(s)).S).out)
                           = Revealed(s.of.p, DeltaOf(s))
                      /\ Len(Walk(s.of.p, MarkHidden(s.of.p, DeltaOf(s)).S).out) <= s.of.p.T
                      /\ Walk(s.of.p, MarkHidden(s.of.p, DeltaOf(s)).S)
                           = WalkHidden(s.of.p, DeltaOf(s))
    BY DEF OpeningFits, DeltaOf
  <2>1. /\ Legal(s.of.p) /\ InRange(s.of.p, DeltaOf(s)) /\ Openable(s.of.p, DeltaOf(s))
    BY <1>1, ReleasedFacts DEF IInv, ControlInv, SentInv
  <2>2. Revealed(s.of.p, DeltaOf(s)) <= s.of.p.T
    BY <2>1 DEF Openable
  <2> QED
    BY <2>1, <2>2, WalksAgree
<1> QED
  BY <1>1, Inductive, PTL

\* From all that was ever released on one commitment, exactly the leaf the
\* challenge hid in each vector stays unknown.
THEOREM HidesOnePerVector == Spec => []AllButOne
<1>1. ASSUME IInv PROVE AllButOne
  <2> SUFFICES ASSUME NEW s \in sent, NEW i \in Vectors(s.of.p), NEW j \in Positions(s.of.p, i)
               PROVE  LearnedFrom(UNION {Opening(x) : x \in {y \in sent : y.of.seed = s.of.seed}},
                                  Leaf(s.of, i, j))
                        <=> j # DecodeChallenge(s.of.p, s.chall)[i]
    BY DEF AllButOne
  <2> DEFINE p == s.of.p
             known == UNION {Opening(x) : x \in {y \in sent : y.of.seed = s.of.seed}}
             tree == Com(s.of).bavc.tree
             iv == Iv(s.of.c, s.of.p, s.of.seed)
             x == <<"root", Header(s.of.c, p), s.of.seed>>
             delta == DeltaOf(s)
             seeds == BavcOpen(p, tree, iv, delta).seeds
             leaf == tree[PosInTree(p, i, j)]
  <2>1. /\ s.of \in Runs /\ Legal(p) /\ InRange(p, delta) /\ Openable(p, delta)
    BY <1>1, ReleasedFacts DEF IInv, ControlInv, SentInv
  <2>2. {y \in sent : y.of.seed = s.of.seed} = {s}
    BY <1>1 DEF IInv, ControlInv, OneAnswer
  <2>3. known = Opening(s)
    BY <2>2
  <2>4. Opening(s) = {seeds[n] : n \in 1..p.T}
    <3>1. ProofOf(s).decom.seeds = seeds
      BY ProofParts
    <3>2. DOMAIN seeds = 1..p.T
      BY OpeningDomains
    <3>3. Opening(s) = {ProofOf(s).decom.seeds[n] : n \in DOMAIN ProofOf(s).decom.seeds}
      BY DEF Opening, ProofOf
    <3> HIDE DEF seeds
    <3> QED
      BY <3>1, <3>2, <3>3
  <2>5. Leaf(s.of, i, j) = leaf
    BY DEF Leaf, LeafSeed, Com
  <2>6. PathTree(p, x, iv, tree)
    <3>1. Com(s.of) = VoleCommit(p, <<x>>, iv)
      BY <2>1, CommitmentIs
    <3>2. tree = Expand(p, <<x>>, iv)
      <4> HIDE DEF p, x, iv
      <4>1. tree = BavcCommit(p, <<x>>, iv).tree
        BY <3>1, CommittedBavc
      <4> QED
        BY <4>1 DEF BavcCommit
    <3>3. p.L \in Nat /\ p.L > 0
      BY <2>1, ParamFacts
    <3> HIDE DEF p, tree, x, iv
    <3> QED
      BY <3>2, <3>3, ExpandIsPath
  <2>7. (\E n \in 1..p.T : Begins(seeds[n], leaf)) <=> j # delta[i]
    <3> HIDE DEF p, tree, x, iv, delta
    <3> QED
      BY <2>1, <2>6, LearnsAllButHidden DEF p
  <2> HIDE DEF known, seeds, leaf
  <2>8. LearnedFrom(known, leaf) <=> \E n \in 1..p.T : Begins(seeds[n], leaf)
    BY <2>3, <2>4 DEF LearnedFrom, Begins
  <2> QED
    BY <2>5, <2>7, <2>8 DEF known, DeltaOf
<1> QED
  BY <1>1, Inductive, PTL

\* After reconstruct the verifier holds Q = V + Delta * u, row by row.
THEOREM Correlates == Spec => []VoleCorrelation
<1>1. ASSUME IInv PROVE VoleCorrelation
  <2> SUFFICES ASSUME vctx # NoCtx, vctx.intact, NEW r \in Rows(vctx.origin.of.p)
               PROVE  vctx.q[r] = MaskedXor(Com(vctx.origin.of).v[r], Com(vctx.origin.of).u,
                                            BitAt(vctx.origin.chall, r))
    BY DEF VoleCorrelation, Com
  <2> DEFINE s == vctx.origin
  <2>1. s \in sent /\ FilledFrom(vctx, ProofOf(s))
    BY <1>1 DEF IInv, VctxInv, MayBecome
  <2>2. Releasable(s)
    BY <1>1, <2>1 DEF IInv, ControlInv, SentInv
  <2>3. vctx.p = s.of.p
    <3>1. vctx.p = ProofOf(s).header.params
      BY <2>1 DEF FilledFrom, Reconstructible
    <3>2. ProofOf(s).header = Header(s.of.c, s.of.p)
      BY ProofParts
    <3> QED
      BY <3>1, <3>2 DEF Header
  <2>4. vctx.q = [n \in Rows(s.of.p) |->
                    MaskedXor(Com(s.of).v[n], Com(s.of).u, BitAt(s.chall, n))]
    <3> HIDE DEF s
    <3> QED
      BY <2>1, <2>2, <2>3, IntactReconstructs
  <2> QED
    BY <2>4
<1> QED
  BY <1>1, Inductive, PTL

\* An undamaged proof, verified for its own circuit, parameters, instance and
\* seed, is accepted, whatever challenge it was made for.
THEOREM Complete == Spec => []AcceptsIntact
<1>1. IInv => AcceptsIntact
  BY DEF IInv, VerdictInv
<1> QED
  BY <1>1, Inductive, PTL

\* Nothing else is: a damaged component, or another context, is refused.
THEOREM OnlyGenuine == Spec => []RejectsDamaged
<1>1. IInv => RejectsDamaged
  BY DEF IInv, VerdictInv
<1> QED
  BY <1>1, Inductive, PTL
=============================================================================
