----------------------------- MODULE VoleProof -----------------------------
(***************************************************************************)
(* The two-phase proof (proof/proof.c over vole/voleith.c): a prover that  *)
(* commits, answers a challenge once and frees its context; the proof on   *)
(* its way, where one component of it may be damaged; a verifier that      *)
(* reconstructs the commitment, derives the challenges again and answers.  *)
(* The one-shot prove and verify are these calls in this order.            *)
(*                                                                         *)
(* Hashes are free, as in Bavc: a challenge is the transcript it hashes,   *)
(* except chall_3, whose bits are the index bits: every answer of the      *)
(* oracle is tried.  QuickSilver stands for its contract: from what an     *)
(* honest run committed to, and only from that, the verifier computes the  *)
(* a0 the prover hashed.                                                   *)
(***************************************************************************)
EXTENDS Bavc

CONSTANTS Params,        \* parameter sets in use
          Circuits, Witnesses, Instances,
          Satisfies,     \* the triples circuit, witness, instance that evaluate to 1
          FsSeeds,       \* seeds the callers draw; each is used for one commitment
          MaxCommits,    \* bound: commitments made
          MaxCtr         \* bound: grinding attempts of one response

ASSUME ProofAssumption ==
  /\ Satisfies \subseteq Circuits \X Witnesses \X Instances
  /\ MaxCommits \in Nat /\ MaxCtr \in Nat
  /\ "junk" \notin Circuits
  /\ "any" \notin Instances \cup FsSeeds

\* The parameters in use passed voleith_params_validate and come from
\* voleith_vc_params_init.
ASSUME ParamsAssumption == \A p \in Params : Legal(p)

VARIABLES
  ctx,      \* voleith_prover_commit_t, or NoCtx
  held,     \* buffers in the prover's memory that hold secrets
  sent,     \* history: the proofs released, as [of, ctr, chall]
  wire,     \* the proof as the verifier has it
  origin,   \* history: the element of sent that it was released as
  intact,   \* history: nothing happened to it on the way
  vctx,     \* voleith_verifier_reconstruct_t, or NoCtx
  verdict   \* what the last verification returned

vars == <<ctx, held, sent, wire, origin, intact, vctx, verdict>>

NoCtx == [p |-> "none"]
NoProof == [header |-> "none"]
NoVerdict == [ok |-> "none"]
NoRun == [w |-> "none"]

-----------------------------------------------------------------------------
(* The transcript.                                                         *)

\* param_set_id is informational: the reader checks only that it is legal.
Header(c, p) == [magic |-> TRUE, setId |-> p.tau, circuit |-> c, params |-> p]

\* H_3(header, fs_seed), split in two.
RootSeed(c, p, seed) == << <<"root", Header(c, p), seed>> >>
Iv(c, p, seed) == <<"iv", Header(c, p), seed>>

Commitment == [p \in Params |-> [c \in Circuits |-> [seed \in FsSeeds |->
                 VoleCommit(p, RootSeed(c, p, seed), Iv(c, p, seed))]]]

Blob(header, hcom, c, iv) == [header |-> header, hcom |-> hcom, c |-> c, iv |-> iv]

Chall1(seed, inst, blob) == [seed |-> seed, inst |-> inst, blob |-> blob]

\* VOLEHash is linear: hashes under one challenge add up, others do not.
VoleHash(chall1, x) == [keys |-> {chall1}, x |-> x]
HashXor(a, b, bit) ==
  IF bit = 0 THEN a ELSE [keys |-> a.keys \cup b.keys, x |-> Xor(a.x, b.x)]

Chall2(chall1, uTilde, rows, d) == [chall1 |-> chall1, u |-> uTilde, rows |-> rows, d |-> d]

\* What an honest respond of witness w computes, from the commitment `of`.
HonestChall1(of) ==
  LET com == Commitment[of.p][of.c][of.seed]
      iv == Iv(of.c, of.p, of.seed)
  IN  Chall1(of.seed, of.inst, Blob(Header(of.c, of.p), com.bavc.com, com.c, iv))

\* voleith_qs_compute_d: the witness wires masked with u.
ComputeD(of) == [w |-> of.w, mask |-> Commitment[of.p][of.c][of.seed].u]

ProverChall2(of) ==
  LET com == Commitment[of.p][of.c][of.seed]
      chall1 == HonestChall1(of)
  IN  Chall2(chall1, VoleHash(chall1, com.u),
             [r \in Rows(of.p) |-> VoleHash(chall1, com.v[r])], ComputeD(of))

\* a_n, the coefficients voleith_qs_prove returns
QsCoefficient(n, of) == <<n, of>>

\* voleith_qs_verify: a0 from Q, d, delta and the other coefficients.
QsVerify(c, inst, q, d, chall, chall2, a) ==
  LET of == a[1][2]
      com == Commitment[of.p][of.c][of.seed]
  IN  IF /\ a = <<QsCoefficient(1, of), QsCoefficient(2, of)>>
         /\ c = of.c /\ inst = of.inst /\ chall2 = ProverChall2(of) /\ d = ComputeD(of)
         /\ q = [r \in Rows(of.p) |-> MaskedXor(com.v[r], com.u, BitAt(chall, r))]
      THEN QsCoefficient(0, of)
      ELSE <<"unrelated", c, inst>>

\* What is hashed for chall_3.
Query(chall2, a0, a, ctr) == [chall2 |-> chall2, a0 |-> a0, a |-> a, ctr |-> ctr]
ProverQuery(of, ctr) ==
  Query(ProverChall2(of), QsCoefficient(0, of),
        <<QsCoefficient(1, of), QsCoefficient(2, of)>>, ctr)

\* check_grinding: the top w_grind bits are zero.
Grinds(p, chall) == \A b \in (p.lambda - p.w)..(p.lambda - 1) : BitAt(chall, b) = 0

-----------------------------------------------------------------------------
(* The prover's memory.                                                    *)

BavcFree(h) == h \ {"tree", "leaf_seeds"}
CommitmentFree(h) == h \ {"u", "c"}
ProverFree(h) == BavcFree(h) \ {"v"}

\* Mutant of ProverCommitFree: trusts voleith_commit to have cleaned up.
ProverCommitFreeShallow(h) == CommitmentFree(h) \ {"v", "pbuf"}

ProverCommitFree(h) == ProverFree(CommitmentFree(h)) \ {"pbuf"}

\* The calls that can fail in voleith_commit, and what was written by then.
Written ==
  [com_buffers |-> {},
   tree        |-> {},
   leaf_seeds  |-> {"tree"},
   h_all       |-> {"tree", "leaf_seeds"},
   convert     |-> {"tree", "leaf_seeds", "ui", "sd_buf", "v"}]

\* Mutant of AfterFailure: vole_commit's temporaries are not zeroed.
AfterFailureKeepsTemps(at) ==
  LET vole == IF at = "convert" THEN Written[at] ELSE BavcFree(Written[at])
      commit == CommitmentFree(vole) \ {"v"}
  IN  ProverCommitFree(commit)

\* The cleanup of the layers a failure passes through: bavc_commit frees its
\* own; vole_commit its temporaries, not the tree; commit, u, c and v.
AfterFailure(at) ==
  LET vole == IF at = "convert" THEN Written[at] \ {"ui", "sd_buf"} ELSE BavcFree(Written[at])
      commit == CommitmentFree(vole) \ {"v"}
  IN  ProverCommitFree(commit)

AllHeld == {"tree", "leaf_seeds", "u", "c", "v", "pbuf"}

-----------------------------------------------------------------------------
(* The prover.                                                             *)

Used == {s.of.seed : s \in sent} \cup (IF ctx = NoCtx THEN {} ELSE {ctx.seed})

\* voleith_prove_commit; the seed is fresh, as its contract requires.
ProveCommit(p, c, seed) ==
  /\ ctx = NoCtx /\ seed \notin Used /\ Cardinality(Used) < MaxCommits
  /\ ctx' = [p |-> p, c |-> c, seed |-> seed, pbuf |-> TRUE, of |-> NoRun, ctr |-> 0]
  /\ held' = AllHeld
  /\ UNCHANGED <<sent, wire, origin, intact, vctx, verdict>>

ProveCommitFails(at) ==
  /\ ctx = NoCtx
  /\ held' = AfterFailure(at)
  /\ UNCHANGED <<ctx, sent, wire, origin, intact, vctx, verdict>>

\* voleith_prove_respond, up to its loop: the circuit must evaluate to 1.
Respond(w, inst) ==
  /\ ctx # NoCtx /\ ctx.pbuf /\ ctx.of = NoRun
  /\ <<ctx.c, w, inst>> \in Satisfies
  /\ ctx' = [ctx EXCEPT !.of = [p |-> ctx.p, c |-> ctx.c, seed |-> ctx.seed,
                                w |-> w, inst |-> inst]]
  /\ UNCHANGED <<held, sent, wire, origin, intact, vctx, verdict>>

Accepted(chall) == Grinds(ctx.p, chall) /\ Openable(ctx.p, DecodeChallenge(ctx.p, chall))

\* One turn of the loop that does not end it: the answer does not grind,
\* opens too many seeds, or the opening could not be allocated.
GrindOn ==
  /\ ctx # NoCtx /\ ctx.of # NoRun /\ ctx.pbuf
  /\ ctx.ctr < MaxCtr
  /\ ctx' = [ctx EXCEPT !.ctr = @ + 1]
  /\ UNCHANGED <<held, sent, wire, origin, intact, vctx, verdict>>

Proof(of, ctr, chall) ==
  LET com == Commitment[of.p][of.c][of.seed]
      chall1 == HonestChall1(of)
      iv == Iv(of.c, of.p, of.seed)
  IN  [header |-> Header(of.c, of.p), c |-> com.c, u |-> VoleHash(chall1, com.u),
       d |-> ComputeD(of), a |-> <<QsCoefficient(1, of), QsCoefficient(2, of)>>,
       decom |-> BavcOpen(of.p, com.bavc.tree, iv, DecodeChallenge(of.p, chall)),
       chall |-> chall, iv |-> iv, ctr |-> ctr, len |-> 0]

\* Mutant of Release: the context can respond again.
ReleaseKeepsPbuf(chall) ==
  /\ ctx # NoCtx /\ ctx.of # NoRun /\ ctx.pbuf
  /\ Accepted(chall)
  /\ origin' = [of |-> ctx.of, ctr |-> ctx.ctr, chall |-> chall]
  /\ sent' = sent \cup {origin'}
  /\ wire' = Proof(ctx.of, ctx.ctr, chall)
  /\ intact' = TRUE
  /\ ctx' = [ctx EXCEPT !.of = NoRun, !.ctr = 0]
  /\ held' = held
  /\ UNCHANGED <<vctx, verdict>>

\* The turn that ends the loop.  The proof buffer moves to the caller, and
\* with it the context's permission to respond.
Release(chall) ==
  /\ ctx # NoCtx /\ ctx.of # NoRun /\ ctx.pbuf
  /\ Accepted(chall)
  /\ origin' = [of |-> ctx.of, ctr |-> ctx.ctr, chall |-> chall]
  /\ sent' = sent \cup {origin'}
  /\ wire' = Proof(ctx.of, ctx.ctr, chall)
  /\ intact' = TRUE
  /\ ctx' = [ctx EXCEPT !.pbuf = FALSE]
  /\ held' = held \ {"pbuf"}
  /\ UNCHANGED <<vctx, verdict>>

FreeProver ==
  /\ ctx # NoCtx /\ (ctx.of = NoRun \/ ~ ctx.pbuf)
  /\ ctx' = NoCtx
  /\ held' = ProverCommitFree(held)
  /\ UNCHANGED <<sent, wire, origin, intact, vctx, verdict>>

-----------------------------------------------------------------------------
(* The way to the verifier.                                                *)

JunkIv == <<"junk">>
JunkSeed == << <<JunkIv, 0>> >>
Junk == PrgOut(JunkSeed, JunkIv, 0)

Damaged(b) ==
  {[b EXCEPT !.header.magic = FALSE], [b EXCEPT !.header.setId = 0],
   [b EXCEPT !.header.circuit = "junk"], [b EXCEPT !.header.params = NoCtx],
   [b EXCEPT !.u.x = Xor(@, Junk)], [b EXCEPT !.d.mask = Xor(@, Junk)],
   [b EXCEPT !.a[2] = <<"junk">>], [b EXCEPT !.iv = JunkIv],
   [b EXCEPT !.ctr = @ + 1], [b EXCEPT !.len = 1]}
  \cup {[b EXCEPT !.c[i] = Xor(@, Junk)] : i \in DOMAIN b.c}
  \cup {[b EXCEPT !.decom.coms[i].seed = JunkSeed] : i \in DOMAIN b.decom.coms}
  \cup {[b EXCEPT !.decom.seeds[n] = JunkSeed] : n \in DOMAIN b.decom.seeds}
  \cup {[b EXCEPT !.chall = IF BitAt(@, n) = 1 THEN @ - 2^n ELSE @ + 2^n] :
          n \in Rows(b.header.params)}

Damage ==
  /\ wire # NoProof /\ intact
  /\ wire' \in Damaged(wire)
  /\ intact' = FALSE
  /\ UNCHANGED <<ctx, held, sent, origin, vctx, verdict>>

-----------------------------------------------------------------------------
(* The verifier.                                                           *)

\* Header, identity, length, grinding, and the opening's own checks.
Reconstructible(b, p, c) ==
  /\ b.header.magic
  /\ b.header.circuit = c /\ b.header.params = p
  /\ b.len = 0
  /\ Grinds(p, b.chall)
  /\ Rebuildable(p, b.decom, DecodeChallenge(p, b.chall))

\* Everything respond needs is copied out of the proof.
Reconstructed(b, p, c) ==
  LET rec == VoleReconstruct(p, b.decom, DecodeChallenge(p, b.chall), b.iv, b.c)
  IN  [p |-> p, c |-> c, q |-> rec.q, u |-> b.u, d |-> b.d, a |-> b.a,
       chall |-> b.chall, ctr |-> b.ctr, blob |-> Blob(b.header, rec.com, b.c, b.iv),
       origin |-> origin, intact |-> intact]

\* voleith_verify_reconstruct, under the verifier's own circuit and params.
VerifyReconstruct(p, c) ==
  /\ wire # NoProof /\ vctx = NoCtx /\ verdict = NoVerdict
  /\ Reconstructible(wire, p, c)
  /\ vctx' = Reconstructed(wire, p, c)
  /\ UNCHANGED <<ctx, held, sent, wire, origin, intact, verdict>>

\* It returns -1: the proof is refused.
Refuse(p, c) ==
  /\ wire # NoProof /\ vctx = NoCtx /\ verdict = NoVerdict
  /\ ~ Reconstructible(wire, p, c)
  /\ verdict' = [ok |-> FALSE, origin |-> origin, ofIntact |-> intact,
                 p |-> p, c |-> c, inst |-> "any", seed |-> "any"]
  /\ UNCHANGED <<ctx, held, sent, wire, origin, intact, vctx>>

\* The oracle's answers: to the prover's accepted queries what it got; to
\* any other query, nothing that equals an earlier answer.
Answers(query) == {s.chall : s \in {x \in sent : ProverQuery(x.of, x.ctr) = query}}

\* Mutant of VerifierChall2: Q is hashed without the correction by u_tilde.
VerifierChall2Uncorrected(v, chall1) ==
  Chall2(chall1, v.u, [r \in Rows(v.p) |-> VoleHash(chall1, v.q[r])], v.d)

VerifierChall2(v, chall1) ==
  Chall2(chall1, v.u,
         [r \in Rows(v.p) |-> HashXor(VoleHash(chall1, v.q[r]), v.u, BitAt(v.chall, r))], v.d)

\* voleith_verify_respond, with chall_1 derived as voleith_verify derives it
\* from the verifier's seed and instance.
VerifyRespond(inst, seed) ==
  /\ vctx # NoCtx /\ verdict = NoVerdict
  /\ LET chall2 == VerifierChall2(vctx, Chall1(seed, inst, vctx.blob))
         a0 == QsVerify(vctx.c, inst, vctx.q, vctx.d, vctx.chall, chall2, vctx.a)
     IN  verdict' = [ok |-> vctx.chall \in Answers(Query(chall2, a0, vctx.a, vctx.ctr)),
                     origin |-> vctx.origin, ofIntact |-> vctx.intact,
                     p |-> vctx.p, c |-> vctx.c, inst |-> inst, seed |-> seed]
  /\ UNCHANGED <<ctx, held, sent, wire, origin, intact, vctx>>

\* The verifier frees its context and may look at the proof again.
FreeVerifier ==
  /\ vctx # NoCtx \/ verdict # NoVerdict
  /\ vctx' = NoCtx /\ verdict' = NoVerdict
  /\ UNCHANGED <<ctx, held, sent, wire, origin, intact>>

-----------------------------------------------------------------------------
Init ==
  /\ ctx = NoCtx /\ held = {} /\ sent = {}
  /\ wire = NoProof /\ origin = NoProof /\ intact = TRUE
  /\ vctx = NoCtx /\ verdict = NoVerdict

Next ==
  \/ \E p \in Params, c \in Circuits, seed \in FsSeeds : ProveCommit(p, c, seed)
  \/ \E at \in DOMAIN Written : ProveCommitFails(at)
  \/ \E w \in Witnesses, inst \in Instances : Respond(w, inst)
  \/ GrindOn
  \/ ctx # NoCtx /\ \E chall \in 0..(2^(ctx.p.lambda) - 1) : Release(chall)
  \/ FreeProver
  \/ Damage
  \/ \E p \in Params, c \in Circuits : VerifyReconstruct(p, c)
  \/ \E p \in Params, c \in Circuits : Refuse(p, c)
  \/ \E inst \in Instances, seed \in FsSeeds : VerifyRespond(inst, seed)
  \/ FreeVerifier

Spec == Init /\ [][Next]_vars

-----------------------------------------------------------------------------
(* Properties.                                                             *)

\* Leaf (i, j) of the tree a proof's commitment was made from.
Leaf(of, i, j) == LeafSeed(of.p, Commitment[of.p][of.c][of.seed].bavc.tree, i, j)

\* The PRG runs downwards only: a leaf is learned from a seed above it.
LearnedFrom(seeds, leaf) ==
  \E s \in seeds : 0 < Len(s) /\ Len(s) <= Len(leaf) /\ SubSeq(leaf, 1, Len(s)) = s

Opening(s) ==
  LET seeds == Proof(s.of, s.ctr, s.chall).decom.seeds IN {seeds[n] : n \in DOMAIN seeds}

\* The contexts hold what their phases say, and no challenge was released
\* that does not decode to an index of every vector.
TypeOK ==
  /\ ctx = NoCtx \/ (ctx.p \in Params /\ ctx.ctr \in 0..MaxCtr /\ ctx.pbuf \in BOOLEAN)
  /\ held \subseteq AllHeld
  /\ \A s \in sent : \A i \in Vectors(s.of.p) :
       DecodeChallenge(s.of.p, s.chall)[i] \in Positions(s.of.p, i)
  /\ vctx = NoCtx \/ (vctx.p \in Params /\ vctx.intact \in BOOLEAN)

\* What the verifier is told to check against.
SameContext(v, of) == v.p = of.p /\ v.c = of.c /\ v.inst \in {of.inst, "any"} /\ v.seed \in {of.seed, "any"}

\* A proof nothing happened to, verified for its own circuit, parameters,
\* instance and seed, is accepted: both sides number, mark, order and
\* expand the tree alike, and the challenges come out the same.
AcceptsIntact ==
  verdict # NoVerdict /\ verdict.ofIntact /\ SameContext(verdict, verdict.origin.of) => verdict.ok

\* Whatever one component was damaged (the padding of the opening, a field
\* of the header nobody compares, a correction row, the counter), or
\* whatever the verifier was told differently, the proof is refused.
RejectsDamaged ==
  verdict # NoVerdict /\ verdict.ok =>
    LET s == verdict.origin
    IN  s \in sent /\ verdict.ofIntact /\ SameContext(verdict, s.of) /\ s.of.inst = verdict.inst

\* Once a proof is reconstructed, the verifier holds Q = V + Delta * u, row
\* by row, though it never sees the seed at Delta of any vector.
VoleCorrelation ==
  vctx # NoCtx /\ vctx.intact =>
    LET s == vctx.origin
        com == Commitment[s.of.p][s.of.c][s.of.seed]
    IN  \A r \in Rows(s.of.p) :
          vctx.q[r] = MaskedXor(com.v[r], com.u, BitAt(s.chall, r))

\* All but one: from everything ever released on one commitment, exactly one
\* leaf of each vector stays unknown, the one the challenge hid.
AllButOne ==
  \A s \in sent :
    LET known == UNION {Opening(x) : x \in {y \in sent : y.of.seed = s.of.seed}}
        delta == DecodeChallenge(s.of.p, s.chall)
    IN  \A i \in Vectors(s.of.p) : \A j \in Positions(s.of.p, i) :
          LearnedFrom(known, Leaf(s.of, i, j)) <=> j # delta[i]

\* The marks counted on the way up from the hidden leaves tell how many
\* seeds the walk down the levels writes: they fit the buffer sized for
\* T_open, and the check that guards against underflow never fires.
OpeningFits ==
  \A s \in sent :
    LET p == s.of.p
        delta == DecodeChallenge(p, s.chall)
        written == Len(Walk(p, MarkHidden(p, delta).S).out)
    IN  /\ written = Revealed(p, delta) /\ written <= p.T
        /\ Walk(p, MarkHidden(p, delta).S) = WalkHidden(p, delta)

\* However a commitment ends, freed or failed half-way, no seed, mask or tag
\* stays behind in memory.
NothingLeft == ctx = NoCtx => held = {}
=============================================================================
