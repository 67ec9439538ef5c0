------------------------------ MODULE MCCoding ------------------------------
(***************************************************************************)
(* Coding over GF(2^2).  One parameter set has a grid of four parts and two *)
(* symbols per generation, the others grids of five and six and one symbol. *)
(***************************************************************************)
EXTENDS Coding

MCParamSets == {[m |-> 2, l |-> 1, t |-> 2], [m |-> 1, l |-> 5, t |-> 1], [m |-> 1, l |-> 3, t |-> 2]}

Rows2(a, b, c, d) == (0 :> (0 :> a @@ 1 :> b)) @@ (1 :> (0 :> c @@ 1 :> d))
One(a) == 0 :> (0 :> a)
MCDraws(m) ==
  IF m = 1 THEN {One(0), One(3)} ELSE {Rows2(2, 3, 1, 2), Rows2(1, 2, 3, 3)}
MCExchanges(m, last) == IF m = 1 THEN 0..last ELSE {0}

MCPlain(p, gen) == Matrix(Upto(p.m), Upto(p.l), LAMBDA r, c : (gen + r + 2 * c) % Order)
MCCoeffs(m) ==
  IF m = 1 THEN {} ELSE {0 :> a[1] @@ 1 :> a[2] : a \in {<<1, 0>>, <<0, 3>>, <<2, 1>>}}
MCMixes == {<<1, 1>>, <<2, 3>>}

-----------------------------------------------------------------------------
VectorsOf(k) == [Upto(k) -> Field]
Span(rows, k) ==
  IF rows = {} THEN {[j \in Upto(k) |-> 0]}
  ELSE {Combine(mix, [v \in rows |-> v], Upto(k)) : mix \in [rows -> Field]}
RowsOf(d) == {d.rows[r].coeffs : r \in DOMAIN d.rows}

\* RankIsDimension: whatever packets came, in whatever order and how often,
\* also ones that mix generations, the rows of the decoder span exactly what
\* the packets it took span, as many rows as that has dimensions, each zero in
\* the pivot columns of the others; and the rank test of the circuits agrees
\* (voleith_rlnc_decoder_add, voleith_rlnc_gf16_coeffs_full_rank).
RankIsDimension ==
  LET S == Span(given, dec.k)
  IN  /\ S = Span(RowsOf(dec), dec.k)
      /\ Cardinality(S) = Order ^ Rank(dec)
      /\ \A r, q \in 1..Rank(dec) : dec.rows[r].coeffs[dec.pivots[q]] = Bit(r = q)
      /\ FullRank(SetToSeq(given), dec.k) <=> IsComplete(dec)

\* SinkReads: while relays keep generations apart, every packet and every row
\* of the sink is a combination of its generation, so that a complete sink has
\* the sources, in their places, and reads the plaintext with the key, in both
\* schemes (rlnc.c, rlnc_confidential.c; the membership circuits agree).
SinkReads ==
  careful /\ phase = "ready" =>
    /\ \A packet \in air :
         MembershipCircuit(SourcesOf(packet.gen), packet.coeffs, packet.payload)
    /\ IsComplete(dec) =>
         /\ Recovered(dec) = SourcesOf(dec.gen)
         /\ dec.gen = 1 =>
              Decrypt(params, scheme, L, perm, Recovered(dec)) = Plain(params, 1)

\* KeyAndCircuit: a key that was generated is valid; both routers give, in the
\* order the network reads them, bits that realize the permutation; and the
\* circuit accepts the witness for the encryption and for nothing else
\* (keygen, voleith_perm_gf16_route, voleith_rlnc_confidential_gf16_circuit).
KeyAndCircuit ==
  phase = "ready" /\ air = {} =>
    LET n == GridSize(params)
        ctrl == Route(perm, n)
        ids == [x \in Upto(n) |-> x]
    IN  /\ ParamsCheck(params) /\ ValidateKey(params, L, perm)
        /\ Len(ctrl) = NSwitches(n)
        /\ ctrl = RouteReference(perm, n)
        /\ BuildBlock(ids, ctrl, n) = Permute(ids, perm)
        /\ scheme = 1 /\ params.t = 2 =>
             LET w == BuildWitness(params, L, perm, TRUE)
                 P == Plain(params, 1)
             IN  /\ ConfCircuit(params, P, w, TRUE, Cipher)
                 /\ CertifiesRank(w.L, w.cinv)
                 /\ ~ ConfCircuit(params, P, w, TRUE, RowScale(Cipher, 0, 2))
                      \/ RowScale(Cipher, 0, 2) = Cipher
=============================================================================
