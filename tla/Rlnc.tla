-------------------------------- MODULE Rlnc --------------------------------
(***************************************************************************)
(* Random linear network coding (erasure/rlnc.c) and the relations its      *)
(* circuits state (circuits/rlnc_gf16_circuit.c, rlnc_gf16_cert_circuit.c). *)
(* A symbol is a vector of field elements, a generation a matrix of k       *)
(* symbols, a packet its generation, coefficients and payload.              *)
(***************************************************************************)
EXTENDS Matrix

\* The same combination of coefficients and of payloads.
Combine(mix, rows, J) == Vec(J, LAMBDA j : Dot(mix, [i \in Rows(rows) |-> rows[i][j]], Rows(rows)))

\* voleith_rlnc_encode
Encoded(gen, sources, coeffs) ==
  [gen |-> gen, coeffs |-> coeffs, payload |-> Combine(coeffs, sources, Cols(sources))]

\* Mutant of Recode: the coefficients of the first packet are kept.
RecodeStale(packets, mix) ==
  [gen |-> packets[1].gen, coeffs |-> packets[1].coeffs,
   payload |-> Combine(mix, [i \in DOMAIN packets |-> packets[i].payload],
                       DOMAIN packets[1].payload)]

\* voleith_rlnc_recode: the generation of the first packet; those of the
\* others are not looked at.
Recode(packets, mix) ==
  [gen |-> packets[1].gen,
   coeffs |-> Combine(mix, [i \in DOMAIN packets |-> packets[i].coeffs],
                      DOMAIN packets[1].coeffs),
   payload |-> Combine(mix, [i \in DOMAIN packets |-> packets[i].payload],
                       DOMAIN packets[1].payload)]

-----------------------------------------------------------------------------
(* The decoder keeps its rows reduced: voleith_rlnc_decoder_t.               *)

NoGen == 0
NewDecoder(k) == [k |-> k, gen |-> NoGen, rows |-> <<>>, pivots |-> <<>>]
Rank(dec) == Len(dec.rows)
IsComplete(dec) == Rank(dec) = dec.k

\* row + factor * other, coefficients and payload (work_axpy_row, row_axpy_work)
AddRow(row, factor, other) ==
  [coeffs |-> Vec(DOMAIN row.coeffs, LAMBDA j : Add(row.coeffs[j], Mul(factor, other.coeffs[j]))),
   payload |-> Vec(DOMAIN row.payload, LAMBDA s : Add(row.payload[s], Mul(factor, other.payload[s])))]
Scaled(row, s) ==
  [coeffs |-> Vec(DOMAIN row.coeffs, LAMBDA j : Mul(s, row.coeffs[j])),
   payload |-> Vec(DOMAIN row.payload, LAMBDA e : Mul(s, row.payload[e]))]

\* The stored pivot columns are eliminated from an incoming row.
Reduced(dec, row) ==
  Each(LAMBDA w, i : AddRow(w, w.coeffs[dec.pivots[i]], dec.rows[i]), row,
       [i \in 1..Rank(dec) |-> i])

\* Mutant of AddPacket: the new pivot is not cleared from the stored rows.
AddPacketNoBack(dec, packet) ==
  IF dec.gen # NoGen /\ packet.gen # dec.gen THEN [ret |-> -1, dec |-> dec]
  ELSE LET work == Reduced(dec, [coeffs |-> packet.coeffs, payload |-> packet.payload])
           nonzero == {j \in Upto(dec.k) : work.coeffs[j] # 0}
           row == Scaled(work, Inv(work.coeffs[Min(nonzero)]))
       IN  IF nonzero = {} THEN [ret |-> 0, dec |-> [dec EXCEPT !.gen = packet.gen]]
           ELSE [ret |-> 1,
                 dec |-> [dec EXCEPT !.gen = packet.gen, !.rows = Append(@, row),
                                     !.pivots = Append(@, Min(nonzero))]]

\* voleith_rlnc_decoder_add: the result and the decoder after it.  The first
\* packet gives the generation, also when it tells nothing.
AddPacket(dec, packet) ==
  IF dec.gen # NoGen /\ packet.gen # dec.gen THEN [ret |-> -1, dec |-> dec]
  ELSE LET work == Reduced(dec, [coeffs |-> packet.coeffs, payload |-> packet.payload])
           nonzero == {j \in Upto(dec.k) : work.coeffs[j] # 0}
           row == Scaled(work, Inv(work.coeffs[Min(nonzero)]))
           Back(old) == AddRow(old, old.coeffs[Min(nonzero)], row)
       IN  IF nonzero = {} THEN [ret |-> 0, dec |-> [dec EXCEPT !.gen = packet.gen]]
           ELSE [ret |-> 1,
                 dec |-> [dec EXCEPT !.gen = packet.gen,
                            !.rows = Append([i \in DOMAIN @ |-> Back(@[i])], row),
                            !.pivots = Append(@, Min(nonzero))]]

\* voleith_rlnc_decoder_recover: row r holds the source of its pivot column.
NotYet == <<>>
Recovered(dec) ==
  IF ~ IsComplete(dec) THEN NotYet
  ELSE Vec(Upto(dec.k), LAMBDA j :
         (CHOOSE row \in {dec.rows[r] : r \in {i \in 1..dec.k : dec.pivots[i] = j}} :
            TRUE).payload)

-----------------------------------------------------------------------------
\* voleith_rlnc_gf16_coeffs_full_rank: elimination without a pivot skips the
\* column; the rank is the number of pivots.
FullRank(rows, k) ==
  LET start == [m |-> [i \in Upto(Len(rows)) |-> rows[i + 1]], rank |-> 0]
      Column(s, col) ==
        LET cand == {i \in Rows(s.m) : i >= s.rank /\ s.m[i][col] # 0}
            swapped == RowSwap(s.m, s.rank, Min(cand))
            scaled == RowScale(swapped, s.rank, Inv(swapped[s.rank][col]))
            Clear(m, i) == IF i = s.rank \/ m[i][col] = 0 THEN m
                           ELSE RowAxpy(m, i, s.rank, m[i][col])
        IN  IF cand = {} THEN s
            ELSE [m |-> Each(Clear, scaled, Columns(s.m)), rank |-> s.rank + 1]
  IN  Len(rows) >= k /\ Each(Column, start, [j \in 1..k |-> j - 1]).rank = k

\* What the membership circuits accept, the coefficients public or secret, or
\* the sources public: terms of a zero factor are left out.
MembershipCircuit(sources, coeffs, y) ==
  \A e \in Cols(sources) :
    LET used == {j \in Rows(sources) : coeffs[j] # 0 /\ sources[j][e] # 0}
    IN  Dot(coeffs, [j \in used |-> sources[j][e]], used) = y[e]

\* voleith_rlnc_gf16_cert_circuit
CertifiesRank(c, cinv) == MatMul(c, cinv) = Identity(Cardinality(Rows(c)))

-----------------------------------------------------------------------------
(***************************************************************************)
(* Confidential RLNC (erasure/rlnc_confidential.c): a generation is mixed   *)
(* with a secret matrix, cut into parts, permuted by a secret permutation   *)
(* and joined again; scheme 2 swaps the matrix and its inverse.  Also the   *)
(* relation of its circuit (circuits/rlnc_confidential_gf16_circuit.c).     *)
(* p = [m, l, t]: rows, columns, and parts per field element.               *)
(***************************************************************************)

(***************************************************************************)
(* The AS-Waksman permutation network (circuits/permutation_gf16_circuit.c):*)
(* a router that derives control bits from a secret permutation without     *)
(* branching on it, the reference router, and the network the bits steer.   *)
(* A permutation is a function on 0..(n - 1): output i is input perm[i].     *)
(***************************************************************************)

RECURSIVE NSwitches(_), RouteBlock(_, _, _), BuildBlock(_, _, _)

Odd(n) == n % 2 = 1
Half(n) == n \div 2
Partner(o) == IF Odd(o) THEN o - 1 ELSE o + 1
Bit(c) == IF c THEN 1 ELSE 0
Inverse2(perm) == [a \in DOMAIN perm |-> CHOOSE o \in DOMAIN perm : perm[o] = a]

\* voleith_perm_gf16_n_switches: an even block leaves one output switch out.
NSwitches(n) ==
  IF n <= 1 THEN 0 ELSE IF n = 2 THEN 1
  ELSE Half(n) + (IF Odd(n) THEN Half(n) ELSE Half(n) - 1)
         + NSwitches(Half(n + 1)) + NSwitches(Half(n))

\* voleith_perm_is_valid_ct
IsPermutation(perm, n) ==
  /\ \A i \in Upto(n) : perm[i] < n
  /\ \A target \in Upto(n) : Cardinality({i \in Upto(n) : perm[i] = target}) = 1

-----------------------------------------------------------------------------
(* The colour of an output is the subnetwork it comes from: 0 top, 1 bottom. *)

OutputEdge(o, n) == IF Odd(n) THEN o # n - 1 ELSE o >= 2
InputEdge(perm, o, n) == perm[o] < 2 * Half(n)

\* A state 2 o leaves o by its output edge, 2 o + 1 by its input edge; where
\* there is no edge the walk turns.
Crosses(perm, n) ==
  Vec(Upto(2 * n), LAMBDA s :
    Bit(IF Odd(s) THEN InputEdge(perm, Half(s), n) ELSE OutputEdge(Half(s), n)))
NextState(perm, n) ==
  Vec(Upto(2 * n), LAMBDA s :
    IF ~ Odd(s) THEN (IF OutputEdge(Half(s), n) THEN 2 * Partner(Half(s)) + 1 ELSE s + 1)
    ELSE IF InputEdge(perm, Half(s), n) THEN 2 * Inverse2(perm)[Partner(perm[Half(s)])]
    ELSE s - 1)

\* doubling_rounds
Rounds(count) == (CHOOSE r \in 0..count : 2 ^ r >= count /\ \A q \in 0..(r - 1) : 2 ^ q < count) + 1

Least(x, y) == IF x < y THEN x ELSE y
Doubling(Round(_), start, n) ==
  Each(LAMBDA t, i : Round(t), start, [i \in 1..Rounds(2 * n) |-> i])

\* The least node and the least state of the cycle of each state.
Heads(perm, n) ==
  LET S == Upto(2 * n)
      Round(t) == [jmp |-> Vec(S, LAMBDA s : t.jmp[t.jmp[s]]),
                   node |-> Vec(S, LAMBDA s : Least(t.node[s], t.node[t.jmp[s]])),
                   state |-> Vec(S, LAMBDA s : Least(t.state[s], t.state[t.jmp[s]]))]
  IN  Doubling(Round, [jmp |-> NextState(perm, n), node |-> Vec(S, Half),
                       state |-> Vec(S, LAMBDA s : s)], n)

\* The number of edges, modulo two, from each state to its head.
Parities(perm, n, heads) ==
  LET S == Upto(2 * n)
      next == NextState(perm, n)
      crosses == Crosses(perm, n)
      Round(t) == [jmp |-> Vec(S, LAMBDA s : t.jmp[t.jmp[s]]),
                   par |-> Vec(S, LAMBDA s : (t.par[s] + t.par[t.jmp[s]]) % 2)]
      start == [jmp |-> Vec(S, LAMBDA s : IF heads.state[s] = s THEN s ELSE next[s]),
                par |-> Vec(S, LAMBDA s : IF heads.state[s] = s THEN 0 ELSE crosses[s])]
  IN  Doubling(Round, start, n).par

\* color_block_ct: components with an anchor are flipped to suit it.
Colors(perm, n) ==
  CHOOSE color \in
    {LET base == Vec(Upto(n), LAMBDA o : par[2 * o])
         a0 == IF Odd(n) THEN n - 1 ELSE 0
         a1 == IF Odd(n) THEN Inverse2(perm)[n - 1] ELSE 1
         flip0 == base[a0]
         flip1 == (base[a1] + Bit(~ Odd(n))) % 2
     IN  Vec(Upto(n), LAMBDA o :
           IF heads.node[2 * o] = heads.node[2 * a0] THEN (base[o] + flip0) % 2
           ELSE IF heads.node[2 * o] = heads.node[2 * a1] THEN (base[o] + flip1) % 2
           ELSE base[o])
       : heads \in {Heads(perm, n)}, par \in {Parities(perm, n, Heads(perm, n))}} : TRUE

\* route_block_reference: a proper colouring that suits the anchors and gives
\* the least output of a component without one the colour 0.
ReferenceColors(perm, n) ==
  LET inv == Inverse2(perm)
      Anchored(o) == IF Odd(n) THEN o \in {n - 1, inv[n - 1]} ELSE o \in {0, 1}
      Proper(c) == \A o \in Upto(n) :
        /\ OutputEdge(o, n) => c[Partner(o)] # c[o]
        /\ InputEdge(perm, o, n) => c[inv[Partner(perm[o])]] # c[o]
        /\ Anchored(o) => c[o] = (IF ~ Odd(n) /\ o = 1 THEN 1 ELSE 0)
      proper == {c \in [Upto(n) -> {0, 1}] : Proper(c)}
  IN  CHOOSE c \in proper :
        \A d \in proper \ {c} : c[Min({o \in Upto(n) : c[o] # d[o]})] = 0

\* What is left to route in the top or the bottom subnetwork.
SubPermutation(perm, n, color, bottom) ==
  Vec(Upto(IF bottom THEN Half(n) ELSE Half(n + 1)), LAMBDA j :
    LET o == IF 2 * j + 1 < n /\ color[2 * j + 1] = Bit(bottom) THEN 2 * j + 1 ELSE 2 * j
    IN  Half(perm[o]))

\* The bits in the order the network reads them: input switches, top, bottom,
\* output switches.
RouteBlock(perm, n, reference) ==
  IF n <= 1 THEN <<>> ELSE IF n = 2 THEN <<perm[0] % 2>>
  ELSE CHOOSE bits \in
    {[p \in 1..Half(n) |-> color[Inverse2(perm)[2 * p - 2]]]
       \o RouteBlock(SubPermutation(perm, n, color, FALSE), Half(n + 1), reference)
       \o RouteBlock(SubPermutation(perm, n, color, TRUE), Half(n), reference)
       \o (IF Odd(n) THEN [q \in 1..Half(n) |-> color[2 * q - 2]]
           ELSE [q \in 1..(Half(n) - 1) |-> color[2 * q]])
     : color \in {IF reference THEN ReferenceColors(perm, n) ELSE Colors(perm, n)}} : TRUE

\* Mutant of Route: perm read as where each input goes.
RouteInverse(perm, n) == RouteBlock(Inverse2(perm), n, FALSE)

Route(perm, n) == RouteBlock(perm, n, FALSE)
RouteReference(perm, n) == RouteBlock(perm, n, TRUE)

-----------------------------------------------------------------------------
\* emit_switch, for a control bit: straight or crossed.
Switch(a, b, s) == IF s = 0 THEN <<a, b>> ELSE <<b, a>>

\* build_block, as what its wires carry.
BuildBlock(in, ctrl, n) ==
  IF n = 1 THEN in
  ELSE IF n = 2 THEN Vec({0, 1}, LAMBDA i : Switch(in[0], in[1], ctrl[1])[i + 1])
  ELSE LET top == Half(n + 1)
           inner == SubSeq(ctrl, Half(n) + 1, Len(ctrl))
           last == SubSeq(inner, NSwitches(top) + NSwitches(Half(n)) + 1, Len(inner))
           First(p) == Switch(in[2 * p], in[2 * p + 1], ctrl[p + 1])
           tops == BuildBlock(Vec(Upto(top), LAMBDA p : IF 2 * p = n - 1 THEN in[n - 1] ELSE First(p)[1]),
                              inner, top)
           bots == BuildBlock(Vec(Upto(Half(n)), LAMBDA p : First(p)[2]),
                              SubSeq(inner, NSwitches(top) + 1, Len(inner)), Half(n))
           Ctrl(q) == IF Odd(n) THEN last[q + 1] ELSE IF q = 0 THEN 0 ELSE last[q]
       IN  Vec(Upto(n), LAMBDA o :
             IF Odd(n) /\ o = n - 1 THEN tops[top - 1]
             ELSE Switch(tops[Half(o)], bots[Half(o)], Ctrl(Half(o)))[(o % 2) + 1])
-----------------------------------------------------------------------------

PartBits(p) == FieldBits \div p.t
GridSize(p) == p.m * p.l * p.t

\* voleith_confrlnc_params_check
ParamsCheck(p) ==
  /\ p.t # 0 /\ p.m # 0 /\ p.l # 0
  /\ FieldBits % p.t = 0
  /\ PartBits(p) \in 1..8

PrecodeEncode(L, P) == MatMul(L, P)
Singular == <<>>
PrecodeDecode(L, C) ==
  IF InvertCt(L).singular THEN Singular ELSE MatMul(InvertCt(L).inv, C)

\* Parts are numbered row by row, the high part of an element first.
Split(p, mat) ==
  Vec(Upto(GridSize(p)), LAMBDA g :
    (mat[g \div (p.l * p.t)][(g \div p.t) % p.l]
       \div (2 ^ (PartBits(p) * (p.t - 1 - (g % p.t))))) % (2 ^ PartBits(p)))
Join(p, grid) ==
  Matrix(Upto(p.m), Upto(p.l), LAMBDA r, c :
    MapThenSumSet(LAMBDA i : grid[(r * p.l + c) * p.t + i] * (2 ^ (PartBits(p) * (p.t - 1 - i))),
                  Upto(p.t)))

Permute(grid, perm) == Vec(DOMAIN grid, LAMBDA i : grid[perm[i]])
PermuteInverse(grid, perm) == Permute(grid, Inverse2(perm))

Encrypt(p, scheme, L, perm, P) ==
  LET C == IF scheme = 1 THEN PrecodeEncode(L, P) ELSE PrecodeDecode(L, P)
  IN  IF C = Singular THEN Singular ELSE Join(p, Permute(Split(p, C), perm))

\* Mutant of Decrypt: scheme 2 undoes the precode as scheme 1 does.
DecryptOneScheme(p, scheme, L, perm, data) ==
  PrecodeDecode(L, Join(p, PermuteInverse(Split(p, data), perm)))

Decrypt(p, scheme, L, perm, data) ==
  LET C == Join(p, PermuteInverse(Split(p, data), perm))
  IN  IF scheme = 1 THEN PrecodeDecode(L, C) ELSE PrecodeEncode(L, C)

\* [I | data], with a column of synchronization symbols in scheme 2.
AttachIdentity(p, scheme, sync, data) ==
  LET lead == p.m + (scheme - 1)
  IN  Matrix(Upto(p.m), Upto(lead + p.l), LAMBDA r, c :
        IF c < p.m THEN Bit(c = r) ELSE IF c < lead THEN sync ELSE data[r][c - lead])
StripIdentity(p, scheme, mc) ==
  Matrix(Upto(p.m), Upto(p.l), LAMBDA r, c : mc[r][c + p.m + (scheme - 1)])

-----------------------------------------------------------------------------
(* Keys.  The seeded stream is a free choice of what is drawn from it.       *)

MaxAttempts == 2      \* 256 in the code

\* One exchange of the shuffle: i counts down, j is drawn from 0..i.
Shuffled(perm, i, j) == [perm EXCEPT ![i] = perm[j], ![j] = perm[i]]

\* voleith_confrlnc_validate_key
ValidateKey(p, L, perm) == IsPermutation(perm, GridSize(p)) /\ ~ InvertCt(L).singular

-----------------------------------------------------------------------------
(* The statement "data is an encryption of P" (scheme 1, two parts).         *)

\* voleith_rlnc_confidential_gf16_build_witness
BuildWitness(p, L, perm, cert) ==
  [L |-> L, cinv |-> IF cert THEN InvertCt(L).inv ELSE <<>>, ctrl |-> Route(perm, GridSize(p))]

\* voleith_rlnc_confidential_gf16_circuit, as what it accepts.
ConfCircuit(p, source, w, cert, data) ==
  /\ \A i \in DOMAIN w.ctrl : w.ctrl[i] \in {0, 1}
  /\ Join(p, BuildBlock(Split(p, MatMul(w.L, source)), w.ctrl, GridSize(p))) = data
  /\ cert => MatMul(w.L, w.cinv) = Identity(p.m)
=============================================================================
