------------------------------- MODULE Coding -------------------------------
(***************************************************************************)
(* A source that encrypts a generation and sends it through a network of    *)
(* recoding relays to a sink (erasure/rlnc.c with rlnc_confidential.c).     *)
(* Generation 1 is the encrypted one; generation 2 is another, in the       *)
(* clear, whose packets travel the same network.                            *)
(***************************************************************************)
EXTENDS Rlnc

CONSTANTS
  ParamSets,      \* the [m, l, t] a source may use
  Draws(_),       \* per m, the matrices the stream may give
  Exchanges(_, _),\* per m and i, the exchanges it may give
  Plain(_, _),    \* parameters and generation to an m by l matrix
  Coeffs(_),      \* per m, the coefficient vectors a source sends
  Mixes,          \* the pairs of mix coefficients relays use
  MaxAir          \* how many different packets travel

VARIABLES
  params, scheme,
  careful,        \* whether relays mix packets of one generation only
  phase,          \* "shuffle", "draw", "ready", "failed"
  i, perm,        \* the next exchange of the shuffle, and the permutation
  attempt, L,
  air,            \* the packets that were sent; none is ever lost for good
  dec,            \* voleith_rlnc_decoder_t of the sink
  given           \* the coefficients the decoder was given since it was new

vars == <<params, scheme, careful, phase, i, perm, attempt, L, air, dec, given>>
key == <<params, scheme, careful, phase, i, perm, attempt, L>>

Cipher == Encrypt(params, scheme, L, perm, Plain(params, 1))
Framed == AttachIdentity(params, scheme, 3, Cipher)
SourcesOf(gen) ==
  IF gen = 1 THEN StripIdentity(params, scheme, Framed) ELSE Plain(params, gen)

Init ==
  /\ params \in ParamSets /\ scheme \in {1, 2} /\ careful \in BOOLEAN
  /\ phase = "shuffle" /\ i = GridSize(params) - 1
  /\ perm = [x \in Upto(GridSize(params)) |-> x]
  /\ attempt = 0 /\ L = <<>>
  /\ air = {} /\ dec = NewDecoder(params.m) /\ given = {}

Shuffle(j) ==
  /\ phase = "shuffle" /\ i > 0
  /\ perm' = Shuffled(perm, i, j)
  /\ i' = i - 1
  /\ UNCHANGED <<params, scheme, careful, phase, attempt, L, air, dec, given>>

\* Matrices are drawn until one is invertible, at most MaxAttempts times; the
\* inversion may be refused its memory, which ends it.
Draw(m) ==
  /\ phase = "shuffle" /\ i = 0
  /\ L' = m
  /\ attempt' = attempt + 1
  /\ phase' \in {"failed", IF ~ InvertCt(m).singular THEN "ready"
                           ELSE IF attempt + 1 = MaxAttempts THEN "failed" ELSE "shuffle"}
  /\ UNCHANGED <<params, scheme, careful, i, perm, air, dec, given>>

Send(packet) ==
  /\ packet \notin air
  /\ Cardinality(air) < MaxAir
  /\ air' = air \cup {packet}
  /\ UNCHANGED key
  /\ UNCHANGED <<dec, given>>

Encode(gen, coeffs) ==
  /\ phase = "ready"
  /\ Send(Encoded(gen, SourcesOf(gen), coeffs))

Relay(a, b, mix) ==
  /\ phase = "ready"
  /\ careful => a.gen = b.gen
  /\ Send(Recode(<<a, b>>, mix))

\* Any packet, in any order and as often as the network likes.
Receive(packet) ==
  /\ dec' = AddPacket(dec, packet).dec
  /\ given' = IF AddPacket(dec, packet).ret < 0 THEN given ELSE given \cup {packet.coeffs}
  /\ UNCHANGED key
  /\ UNCHANGED air

\* The sink frees its decoder and starts a new one.
StartOver ==
  /\ dec # NewDecoder(params.m)
  /\ dec' = NewDecoder(params.m)
  /\ given' = {}
  /\ UNCHANGED key
  /\ UNCHANGED air

Next ==
  \/ \E j \in Exchanges(params.m, i) : Shuffle(j)
  \/ \E m \in Draws(params.m) : Draw(m)
  \/ \E gen \in {1, 2}, coeffs \in Coeffs(params.m) : Encode(gen, coeffs)
  \/ \E a, b \in air, mix \in Mixes : Relay(a, b, mix)
  \/ \E packet \in air : Receive(packet)
  \/ StartOver

Spec == Init /\ [][Next]_vars
=============================================================================
