# libtalos_voleith: a verification development

TLA+ modules, TLC runs and TLAPS proofs for libtalos_voleith, a C library of
VOLE-in-the-Head zero-knowledge proofs and of what is built on them: ring
signatures with forward-secure keys, and erasure codes with certificates.

The library is single-threaded and keeps no global state.  What is hard in it is
not interleaving but *agreement*: a prover and a verifier (or a saver and a
loader, an encoder and a decoder) walk the same tree in different ways and must
meet; and *order*: calls that a caller may make in any sequence, with failures,
process deaths, restored files and damaged bytes in between.

## 1. The system

| part | state | operations | talks to |
|---|---|---|---|
| GGM tree and BAVC (`vole/vc.c`) | tree of seeds, leaf commitments | params_init, commit, open, reconstruct, free | PRG and hashes of `core/` |
| VOLE conversion (`vole/convert.c`, `voleith.c`) | u, V, corrections | commit, open, reconstruct, decode_challenge, two frees | BAVC |
| two-phase proof (`proof/proof.c`) | `prover_commit_t`, `verifier_reconstruct_t` | prove_commit, prove_respond, prove; verify_reconstruct, verify_respond, verify; frees | VOLE, QuickSilver, transcript, header |
| QuickSilver (`proof/prover.c`, `verifier.c`) | per-wire values, tags, keys (one call) | compute_d, prove, verify | circuit |
| circuits (`proof/circuit.c`, `gf8_circuit.c`, `gf16_circuit.c`, fingerprints) | gate and constraint arrays, `alloc_ok` | add gates, assert, validate, eval, fingerprint | - |
| GF(2^8), GF(2^16) proof systems | as the three rows above, over bytes and 16-bit words | the same | the same |
| epoch key (`proof/rs_epoch_gf8.c`) | `rs_epoch_state_t`: cover of seeds, current epoch, public tree | state_init, keygen, advance, derive_sk, path, sign, serialize, load, clear | PRG, RS |
| ring signatures (`proof/rs_gf8.c`, v1, openers, membership) | configuration, ring builder, packer, unpacker | ring_build, sign, verify, pack, unpack, nullifier, claim, seal | GF(2^8) proofs |
| erasure codes (`erasure/`) | retriever, RLNC decoder, matrices, descriptors | offer, decode; encode, recode, add, recover; keygen, mask; parse, serialize | GF(2^16), chunk certificates |
| parsers (`parsers/`) | token stream, registry, circuit under construction | Bristol, ShipShape, witness generation | circuit builders |
| gadget circuits (`circuits/`) | none | generators for ciphers, hashes, Merkle paths | circuit builders |

What makes each part correct:

* **BAVC**: an opening hides exactly one leaf per vector, fits its buffer, and
  rebuilds the commitment it was made from.
* **VOLE**: Q = V + Delta u, row by row.
* **proof**: what an honest prover releases is accepted under the circuit,
  parameters, instance and seed it was made for, and under no others; a damaged
  proof is refused; a commitment is opened once; no secret outlives its context.
* **QuickSilver**: key = tag + value Delta on every wire, and check by check the
  verifier's value is the prover's polynomial at Delta, whatever its degree.
* **circuit**: no gate reads a later wire, and a builder that ran out of memory
  never yields a circuit that asks for less than its calls did.
* **epoch key**: a retired epoch cannot be recomputed; a live one always signs;
  what is loaded is what was saved.
* **ring signature**: only an eligible member signs; what is signed binds
  configuration, ring, statement, scope and epoch; a key shows once per scope; an
  opening names the signer; an envelope gives what was packed.
* **erasure codes**: k genuine chunks, in any order, give the file, and nothing
  that is not genuine counts; the rank is the dimension of what was received; a
  sink with the key reads what the source encrypted.
* **parsers**: what is accepted means what its text says, what is not well formed
  is refused, and a generated witness satisfies the circuit.

PROJECT.json lists every component with its status and every hazard at its line.

## 2. Modules

| module | models | used by |
|---|---|---|
| `Loops` | iteration of a loop body, bits of a number | all |
| `Epoch` | seed derivation, cover, public tree; the epoch state, its files and its API | `MCEpoch` |
| `EpochKey` | what the epoch key promises: sets of keys, no trees; with its theorems | refined by `Epoch` |
| `Bavc` | `vole/vc.c`, `vole/convert.c`, challenge decoding | `VoleProof`, `VcBounds` |
| `VoleProof` | `proof/proof.c` over `vole/voleith.c`: prover, channel, verifier | `MCVoleProof` |
| `VcBounds`, `VoleHash` | the depth bound; the bytes the VOLE hash reads | runs of their own |
| `Circuit`, `QuickSilver`, `QsProof` | the GF(2) circuit, its proof, two applications | `MCQsProof`, `MCProofs` |
| `GfCircuit`, `GfQuickSilver`, `GfProof`, `Gf16Proof` | the same over words of 8 and of 16 bits, with high-degree assertions | `MCProofs` |
| `Matrix` | `erasure/matrix.c`, `core/field16.c` | the erasure codes |
| `Dataset`, `Dispersal` | chunk tree, metadata, descriptor and packets; codec, nodes and retriever | `MCDispersal` |
| `Rlnc`, `Coding` | packets and decoder; key, cipher and permutation network; source, relays and sink | `MCCoding` |
| `ConfBuild` | building the confidential circuit when memory runs out | a run of its own |
| `Opener`, `RingConfig`, `RingRelation` | node hashes, Merkle trees, indexed trees and the seal; configuration and fingerprint; what a ring signature proves | `RingBuilder` |
| `RingBuilder`, `Envelope`, `Ring` | the streaming builder of both versions; packer and unpacker; the life of a ring | `MCRing` |
| `ShipRegistry`, `ShipShape`, `ShipWitness` | gadgets and registry; the parser; witness generation and backends | `MCParsers` |
| `Bristol` | `parsers/bristol.c` | `MCParsers` |
| `LoopsProofs`, `EpochProofs`, `BavcProofs`, `VoleTheorems`, `QsTheorems`, `DispersalProofs`, `RingTheorems` | theorems | |

### Epoch

`st` is `voleith_rs_epoch_state_t`; `slot` keeps all `MaxDepth + 1` array
slots, also those past `n_cover`, because what must be erased can survive there.
A seed is *symbolic*: the master seed it descends from and the node it stands
for.  The PRG applied with a tweak that is not the node's own index yields a
seed of no node (node 0), so a wrong tweak, a wrong bit or a wrong start shows.
Hashes are free terms.  A file is a record of the sections of the serialized
buffer; `Damage` changes one section of one sound file, `CopyFile` keeps
backups, `Clear` is both the API call and the death of the process.  An API
call that returns -1 and leaves the state alone is a stutter.

`EpochKey` is the abstraction: memory and each file hold a *set of epoch keys*.
`Epoch!ImplementsEpochKey` maps the seeds to the keys derivable from them.

### Bavc, VoleProof

The PRG is free as well: a seed is the path of PRG calls (iv, tweak) from the
root.  Two seeds are equal only if the code computes them alike, so commitment
and reconstruction agree in the model only if numbering, tweaks and order agree
in the code.  A bit vector is a formal sum over GF(2), the set of PRG outputs
XORed; the butterfly, u, V, the corrections and Q are computed on these, so
Q = V + Delta u is an identity of sums and not a comparison of sampled bits.
`Walk` is the one loop that both sides run up the tree: from its marks `MarkHidden`
counts what the prover will write, and `WalkHidden` tells the verifier what it
will read.  A hash is the record of what it hashes.  chall_3 is the exception: its bits
choose the leaves, and every value is tried as the oracle's answer.

`VoleProof` has the prover's context (`ctx`), the buffers that hold secrets
(`held`), the proof in flight (`wire`), the verifier's context and its verdict.
The history variables say what was released (`sent`), which of these the proof in
flight was released as (`origin`) and whether anything happened to it (`intact`);
a verdict keeps both, and the properties speak of the proof that was verified, not
of the last one released.
Each API function is an action; the grinding loop is `GrindOn` for a turn that
continues and `Release` for the turn that ends it.  `prove` and `verify` are
these calls in order.  QuickSilver is used by its contract: from the data of an
honest run, and from no other, the verifier computes the prover's a0.

### Circuit, QuickSilver, QsProof

`Circuit` keeps the tables of gates and constraints with their capacities.  A
table that is full grows by a realloc; `mem` says whether it succeeds, and a
failure leaves the entry out, returns `InvalidId` and clears `ok`, exactly as
`append_wire` and `append_constraint` do.  The next call finds the table still
full and may succeed.  `QuickSilver` computes tags, keys, checks, hashes and
mask blocks with the operators `Plus` and `Times`, parameters of the module.
Its loops are iterations of functions, like all loops here.

`QsProof` composes them.  An application is a *program*: the builder calls it
makes, with the earlier calls whose ids are the operands.  It never looks at an
id, as the circuits in `circuits/` never do.  The prover's application builds
and proves; the verifier's builds the same program or another one and verifies.
`Values` and `Holds` give the meaning of a program from the names of its calls,
without a circuit; they are the reference the circuit is compared with.  Where
`VoleProof` takes QuickSilver by its contract, `QsProof` takes the correlation
Q = V + Delta u (`VoleProof!VoleCorrelation`) as given.

### GfCircuit, GfQuickSilver, GfProof, Gf16Proof

The word systems follow the same pattern.  A word is the set of its bits, a wire
has a tag and a key per bit, and the powers of `Root` combine them into those of
the word.  Besides products there are the assertions of higher degree: less-than,
a chain of comparisons over bits, and syndrome, a sum of columns selected by
index bits, which the code computes in two ways (`refMode`).  Their operands
live in pools that grow apart from the tables of entries, and both may fail.
The GF(2^16) sources are a second writing of the GF(2^8) ones: `Gf16Proof`
instantiates `GfProof` and defines anew what differs (no product by an instance
wire, no square gate in degree).  The VOLE layer below is the one of `VoleProof`
and is taken by its correlation.

### Matrix, Dataset, Dispersal

`Matrix` is the code's elimination, row by row, and the constant-time variant
beside it.  `Dataset` keeps the *shape* of the layouts: which fields are there,
in which order and how wide, with one byte for every number, so that the guesses
the parser makes from a length are the code's guesses.  `Dispersal` puts an
application between storage nodes and a retriever.  It may be handed genuine and
edited descriptors, and packets that are genuine, or differ from a genuine one in
one part, or come from another dataset.  A chunk certificate is accepted exactly
if its statement is true (`CertVerify`); that the proof shows it is the concern
of the proof modules.

### Rlnc, Coding

Packets of two generations travel from a source through relays to a sink, in any
order and repeated.  A relay may recode a mix of generations, as the code allows;
`careful` remembers whether any did.  Confidential generation draws a permutation
and then matrices; the stream's answers are chosen.  Both routers of the
permutation network, the reference one and the one without secret branches, are
written as they are, with the network their bits steer.

### Opener, RingConfig, RingRelation, RingBuilder, Envelope, Ring

A hash is injective and marked by its type and the length of its input; widths in
bytes stand beside values, because the checks of the code are about widths.
`RingRelation` says what a signature proves: the witness as it is packed, the
instance as it is filled, the seed that binds the rest, and the circuit's
constraints one by one.  `Ring` adds actors: an issuer that enrols members field
by field, members who sign with all right or one thing wrong, a channel that cuts
and relabels envelopes, a verifier with its own statement, revocation and
spending in between.  Beside the hashed values stand the names of what the
callers *meant* (`said`, `enrolled`, `tried`, `heard`), and the properties are
stated in those.

### ShipRegistry, ShipShape, ShipWitness, Bristol

Each gadget is written twice in the code, as gates and as the bytes an honest
prover computes for the wires its gates leave open.  Both are here, for a block
of `AesRows` by `AesCols` bytes.  `ShipShape` reads a buffer or a file line by line:
the header word by word, a statement token by token with the one token of
lookahead the code has, so that the order in which names, types, limits and
tokens are looked at decides the error, as it does there.  Scopes, inlined
bodies, regions and budgets are those of the code, and wherever memory is asked
for it may be refused.  A line comes as its words and its tokens (how characters
make them is abstracted): it may be too long, hold a character outside the
set, or a token the scanner refuses.  `ShipWitness` evaluates a
parsed circuit with a table of backends.  `MCParsers` states what a text *means*
apart from the parser (`Means`, `Legal`, `Within`) and compares.  A text is legal
as SHIPSHAPE_SPEC.md says, not as the parser reads: a definition's body is read
where it is defined, called or not, with only the definitions before it, and its
parameters and results have different names.

## 3. Runs

**epoch** (`MCEpoch`): one identity, trees of depth 2 and 3 (two configurations,
so that a file can meet the wrong one), two files.  Depth 3 is the least with
covers of one, two and three blocks, jumps over several blocks and a cover that
starts inside one; two files are the least with a backup older than the state.
One identity suffices for the tree; two meet only in the ring, which `sign`
checks by the root.  Damage strikes one sound file at a time.

* `ForwardSecure`: no slot, live or stale, reveals a retired epoch.
* `LiveEpochsSignable`: a state no damage reached signs every epoch it has not
  retired: derived key, path and ring root meet.
* `SignsOnlyWhatItHolds`: damaged or not, nothing else is signed.
* `AdvanceNeverStuck`: the fail-closed branch marked unreachable is.
* `HistoryFree`: the cover after any advances is that of one advance.
* `LoadsWhatWasSaved`: a damaged header, index or length is never loaded.
* `ImplementsEpochKey`: refinement, restores included.

**vole_proof** (`MCVoleProof`): parameter sets (lambda, tau, w, T) = (6,2,1,4),
(4,3,0,3), (2,1,0,2): long and short vectors, a grinding bit, no short vector
at all, one vector; T_open small enough that some challenges open too many
seeds.  Two circuits, instances and seeds (symmetric), a witness that satisfies
and one that does not, one commitment (a second would only repeat it under
another seed), one turn of grinding before the last, one damaged component.

* `AcceptsIntact`, `RejectsDamaged`: completeness, and refusal of every single
  damage and of any other circuit, parameters, instance or seed.
* `VoleCorrelation`: Q = V + Delta u after every reconstruction.
* `AllButOne`: what was ever released on a commitment hides exactly one leaf of
  each vector.
* `OpeningFits`: the count made on the way up is the number written on the way
  down, and both marking passes mark the same nodes.
* `NothingLeft`: a commitment that was freed, or failed at any of its five
  points, leaves no secret buffer.

**quicksilver** (`MCProofs`): the three proof systems, one chosen at the start.

Bits (`MCQsProof`): six programs of four to seven calls (a product
made public, with and without its assertion; a constant 1 and a constant 0; an
input nobody reads just where the table grows; chained gates with two
assertions).  Tables start with two wires and one constraint, so that each
program meets one or two reallocs of each kind and each may fail.  Ring elements
are formal polynomials over GF(2) in Delta, alpha, chall_2 and the columns of u
and V: what is equal there is equal in every field.  A mask block has two
columns, the least that has an order.

* `AcceptedMeansAsked`: a circuit that is let through is satisfied by exactly
  the inputs that satisfy the calls, whatever allocation failed.
* `FingerprintBinds`: same fingerprint, same gates.
* `KeyRelation`: key = tag + Delta bit, wire by wire.
  (The type invariant of `QsProof` is left to its proof.)
* `Complete`: the same calls and the same instance are accepted.
* `Meaningful`: where a proof is accepted, the verifier's calls hold of the
  honest prover's witness.
* `Masked`: each correction and each coefficient sent has a column of u in no
  other, so without u they are independent and uniform.

Words: two bits
for GF(2^8) and three for GF(2^16), the least with a modulus and a root; formal
polynomials as above, so that what is equal holds in every field.  Programs of a
few calls with every gate and assertion kind, two less-than and two syndrome
assertions so that pools and tables grow; limits that bite; allocations that fail.

* `WordsMeanWhatWasAsked`, `WordsComplete`, `WordsMeaningful`: as for GF(2), with a
  prover that may leave its witness unchecked, and in either syndrome mode.
* `ChecksMeet`: check by check, the verifier's value is the prover's polynomial at
  Delta, for every degree.

**dispersal** (`MCDispersal`): five datasets over GF(2^3): equal chunks with a
vacant leaf, a second file under the same key, a codeword its publisher altered, a
single chunk, and the other generator under the wider profile; n up to 4 and k up
to 3, the least with a proper subset, a repaired chunk and an interpolation of more
than two points; a node loses a chunk.  The capacity of a tree is 7, so that edited
descriptors are within it and past it; a retriever may be refused its memory.

* `AcceptedIsGenuine`: only the trusted dataset's chunk at its index counts, once.
* `CanonicalDescriptor`: a session opens only on a descriptor that serializes to
  itself, although parse alone takes more.
* `DecodesTheFile`: any k chunks give the message; the consistency check passes
  only the published file; a repaired node holds what was published.
* `Rebuilds`: liveness.  Fairness is weak, for each index that an honest node
  holds (its packet is delivered in the end) and for the application's rebuild.
  A retriever has no scheduler of its own, so this is what its caller must supply:
  nothing is assumed of edited, repeated or foreign packets, which may come for ever.

**coding** (`MCCoding`): GF(2^2); grids of four, five and six parts, the sizes at
which the network has an even and an odd block and a block without a middle; two
draws of a matrix, one of which may be singular; three coefficient vectors, two
mixes, three packets under way.

* `RankIsDimension`: the rows of the decoder span what was received.
* `SinkReads`: with careful relays a complete sink has the sources and reads the
  plaintext.  With relays that mix generations it need not: recode (rlnc.c:67)
  takes the generation of its first packet.  The property says so by `careful`.
* `KeyAndCircuit`: keys are valid, both routers realize the permutation, the
  circuit accepts the encryption and nothing else.

**ring** (`MCRing`): fifteen scenarios of two or three members; together they
have every module of a configuration, each kind of hash, both versions, both
framings, two scopes and two epochs.  A scenario bounds what is tried.

* `SignsOnlyEntitled`: nobody signs for a slot but by the fields enrolled in it; and
  `EligibleAreHeard` (the conjunction of `SignsIffEligible` and `VerifiesWhatWasSigned`):
  whoever may sign does, and is verified.
* `VerifiesOnlyWhatWasSigned`, `OneShowPerScope`, `EnvelopeFaithful`: stated before each in `Ring`; `OpensToSigner`, before it in `MCRing`.

**parsers** (`MCParsers`): a catalogue of texts made by rules, not by hand: every
gate, every pair of gates, every gate damaged; declarations, scopes, subcircuits,
nesting up to and past the limit; each line with every token left out, refused or
preceded by another; headers and files with each part missing or wrong; each of
a few texts under every limit; each
registry entry, with wrong lengths, names and brackets; files of gates in the
order of the wires and against it, with aliases, twice defined wires and
allocation failures.  Words have two bits; a block is two by two bytes; ciphers
have two rounds.  Inputs are tried exhaustively where the circuit is small and on
the words the generator gives where it is large.

* `ParsesAsMeant`: accepted exactly if well formed and within the limits, and
  then the circuit has a witness exactly where the text holds.  The catalogue has
  no text in which a definition is at fault and nothing that is called shows it:
  there the parser accepts more than the specification (`body_defs`).
* `WitnessCompletes`: the same witness with and without backends; a faulty
  backend does not pass the check; spans of regions nest.

Five runs end in a violation, each of a sentence in the repository:

* **depth_bound** (`VcBounds`): the depth bound of vc.h:40-42 is there so that
  `1 << k` is defined on an int, and the parameter checks accept k = 32
  (tests/test_proof.c:791 expects it).  No shipped parameter set is near.
* **gf_hash** (`VoleHash`): the word systems pass the number of words where the
  hash reads bits, so the hash covers a part of the vector.
* **conf_alloc** (`ConfBuild`): an allocation refused in the builder of the
  confidential circuit leaves it ok and short of constraints, against the comment
  at rlnc_confidential_gf16_circuit.c:102.
* **bit_args** (`MCParsers` with `MCBitArgs.cfg`): a word passed for a parameter
  declared bit selects without being constrained to a bit.
* **body_defs** (`MCParsers` with `MCBodies.cfg`): a body is parsed at its calls
  only.  One text has four definitions that the specification rules out: one calls
  what follows it, one itself, one holds no statement, one has a parameter name
  twice.  It is accepted, and so is a text with any one of the four.

Only the dispersal run assumes fairness.  Elsewhere every call ends by itself
except the grinding loop, which ends with probability one only.  Deadlock is not
checked where the systems may stop: all runs end when their bounds are used up.

Every property has a mutant of the code, in PROJECT.json, that violates it.

## 4. Proofs

All are for every value of the constants, from the assumptions at the end of this
section.  Each property is an invariant `Spec => []P` unless it is said otherwise.

### Epoch key

`EpochKey`, the abstraction: keys belong to born identities (`KeysAreBorn`) and a
key no copy holds never returns (`ErasureIsFinal`).

`EpochProofs` starts with the tree: heap indices and blocks; `compute_cover`
returns at most `d` disjoint blocks that start at the current epoch and end at the
last (`CoverTiles`), and the cover of a later epoch lies under that of an earlier
one (`CoverNests`); `derive_node` from an ancestor yields the descendant.  Then:

* `TypeCorrect`, `ForwardSecurity`.  ForwardSecure is not inductive: an advance
  derives seeds from what the slots are, and a load brings a cover from a file.
  The invariant `IInv` says that a state is cleared or holds exactly the cover of
  its epoch, each slot the seed of its own node or of none, with zeroes behind;
  and that a file is what some save wrote or that with one section damaged.
* `NothingElseIsLoaded` (an action property, LoadsWhatWasSaved).  What the loader
  accepts of such a file carries the cover that was written (`AcceptedIsSaved`):
  the recomputation of the heap indices refuses a changed index, epoch or length,
  and a zeroed seed is the seed of no node.  IInv is inductive because of it.
* `NeverStuck`: a legal target of advance is an epoch of some block of the cover,
  since the cover tiles `[t, T)`.
* `OnlyHeldKeysSign`, `LiveEpochsCanSign`, `HistoryLeavesNoTrace`: of damaged states,
  of sound ones and of all.  Sound ones need more than IInv: that all seeds of a copy no
  damage reached descend from *one* enrolled identity, whose public tree it is
  (`SoundInv`).
* `KeepsThePromise`: `Epoch` implements `EpochKey`.  The keys in a cover are those of
  the epochs its seeds reach; an advance maps to erasing all earlier ones, a damage
  to losing some.  `ErasedForGood` carries `ErasureIsFinal` over to the code's level.

### VOLE and the two-phase proof

`BavcProofs`, of one commitment and one challenge, for parameters that pass the
checks (`Legal`):

* where the leaves lie: `PosInTree` is one-to-one between (vector, index) and the
  last L nodes;
* what the walk marks, namely the ancestors of the hidden leaves, and so what is written:
  one seed for each node off these paths whose parent is on one.  Their number is the
  count made while marking;
* what the verifier rebuilds: `RebuildTree` agrees with the prover's tree on all nodes
  but the paths, so all leaves but the hidden ones, and the commitment with them; and from the
  seeds written no hidden leaf is derivable;
* the butterfly: its closed form over a free commutative sum, and from it
  `VoleReconstructs`, Q = V + Delta u row by row, after the corrections.

`VoleTheorems` takes these to the protocol: `Typed`, `LeavesNothing`, `OpeningsFit`,
`HidesOnePerVector`, `Correlates`, `Complete`, `OnlyGenuine` prove all seven invariants
of the run.  The invariant `IInv` has a part for each actor.  The prover's
context and its secret buffers go together and a context whose response has gone out is
gone (`CtxInv`, `HeldInv`); every released proof came out of the loop with an
openable challenge (`SentInv`), and on one commitment there is only one
(`OneAnswer`), from which AllButOne follows; the proof in flight is
its origin, or that with one component changed (`WireInv`); what the verifier holds
is what reconstruct makes of it (`VctxInv`), and a verdict is the comparison of what the
two sides hashed (`VerdictInv`).  For OnlyGenuine, a hash determines what it
hashes, and the query that the verifier asks again contains a_1, which contains
the run; so an accepting verifier asked the query of *that* run, with its header, instance,
commitment and corrections.  Each single alteration of the proof shows there, an
altered opening through the commitment it rebuilds (`AlterationShows`).

The attempt to prove AcceptsIntact refuted an earlier form of it, which compared
the verdict with the proof last released: with two commitments a proof may be in
flight while another is released.  `origin` was added, and TLC confirms the new form
with two commitments.

### QuickSilver over GF(2)

* `QsTheorems` starts with one circuit, over every ring of characteristic two
  (`IsRing`).  `KeyOfEveryWire`: key = tag + Delta bit, by induction over the
  table; an input or AND gate uses that its slot is its own (`Slots`,
  `Correction`), the linear gates that the relation is linear.
  `HonestProofVerifies`: the polynomial of each check evaluates at Delta to what
  the verifier computes (`GateCheck`), the Horner hashes and mask blocks are
  linear (`ZkHashLinear`, `Masks`), so the recomputed a_0 is the prover's.
* Then it takes two applications under any allocation failures.
  `TypeCorrect`, `FingerprintsBind`, `KeysAndTags` and `Completeness` prove
  TypeOK, FingerprintBinds, KeyRelation and Complete.  The last two
  need more than the state shows: that the verifier's circuit *is* the prover's.
  So `IInv` says that a circuit without a failed allocation is the one circuit
  `Ideal` of its program, capacities included (`Room`: they double when full and
  only then), and that absent operands are absent (`Shaped`), which is why
  hashing them like operand 0 loses nothing (`SameEntry`).
* `AcceptsWhatWasAsked` and `AcceptanceIsMeaningful` prove AcceptedMeansAsked and
  Meaningful.  IInv compares a circuit with a circuit; this needs its meaning.  The
  second invariant, `Meant`, says that a circuit without a failed allocation
  *renders* the calls made so far (`Renders`): each call is a gate or an assertion of the
  circuit, each assertion of the circuit is a call's, and inputs are numbered as the calls are.
  The wires of such a circuit have the values of its calls (`WiresHaveValues`, by induction over the table).

### Retriever

`DispersalProofs`: `DescriptorsAreCanonical` and `OnlyGenuineCounted` prove
CanonicalDescriptor and AcceptedIsGenuine.  Reading a descriptor and writing
what was read gives its bytes back if they have the canonical length; the
retriever keeps each index once, `distinct` is the number of indices seen, and all are of
the trusted dataset because its R is what was opened on.

### Ring

`RingTheorems` has four theorems, each for any people, configurations, payloads and
trees of any depth.

* `ShowsOncePerScope` proves OneShowPerScope.  Hashes are injective, so a nullifier
  determines the key, the scope and the epoch it is of (`NullifierInjective`).  That a
  spent one is not accepted again is about the indexed tree: a path leads from the root
  to one record only, the records of a sorted set are adjacent values, and a value of the
  set lies strictly between no two of them; so a nullifier that is shown absent is
  not in the set.  The order is the one on cells, by rank.  The invariant `IInv` says
  what the phases allow (`Control`), that all accepted nullifiers are those of their
  shows and different (`NullifierInv`), and that a signature on its way carries the nullifier
  of what was asked (`SignedInv`).
* `EnvelopesAreFaithful` proves EnvelopeFaithful.  Four bytes of a length read back
  (`HeaderReads`), so each section reads back where the layout puts it, and of a
  beginning of what was written as much is read as is whole (`ReadsSections`).  What
  is refused follows: a cut inside a section, a byte too few or too many, a section
  twice, a body under the other version.  The invariant `EnvelopeInv` says that the packer
  holds what the calls asked for, minus what it refused (`Keep`), and that what travels is
  what it wrote, or that with one alteration.
* `VerifiedIsSigned` proves VerifiesOnlyWhatWasSigned.  The statement a verifier asks meets
  the one signed in the seed and in the instance (`SeedAgrees`, `InstanceAgrees`); message,
  epoch, syndrome and configuration are in the seed alone, bounds, scope, nullifier and
  commitment in the instance.  That something else was asked is then refuted field by field,
  and for most by what the signer's value is: a walked or a laid root is a hash and so never
  the empty node (`AbsenceRoot`, `RootLong`), a nullifier is a hash, a padded syndrome is not
  canonical (`PadStated`).  A signature from before a revocation or a show is about the
  empty tree, whose root is another than that of any other set because equal roots have equal
  first records (`RootBinds`, `RootsDiffer`).  For this the leaves of the ring have to be hashes,
  whichever way it was built: field by field, at once, under epochs or by version 1
  (`LayInv`); `AttemptInv` says that what is on its way is a proof of the statement its
  request makes.
* `SignsForMembersOnly` proves SignsOnlyEntitled, for every request, faultless or not.  The
  relation fixes a leaf and a path to the root.  A path at an index, or at a neighbour's,
  leads to the leaf laid there and no other; a record of the epoch tree, or an inner node,
  cannot be taken for a leaf, as what is hashed there begins differently.  The leaf hash is
  injective and fields have one width, so the signer's fields are those the leaf was hashed
  from.  Whose those are is what `NamedInv` says: between begin and end the staged fields are
  those of `said`, each laid leaf is the hash of the fields of `enrolled`, and the ring is
  the tree over those leaves.  Together with `LayInv` this is inductive (`MembersInv`).

### Assumptions and what is only model-checked

The assumptions are those of the modules, and TLC evaluates each on the constants
of a run: `MaxDepth` positive, each configuration's depth in `1..MaxDepth`,
identities apart from the mark of no seed (`NamesAssumption`); parameter sets that
pass `voleith_params_validate` (`ParamsAssumption`), names apart from the marks
used for damage (`ProofAssumption`); programs are well formed and shorter than
`InvalidId`, inputs are bits and the columns ring elements; `IsRing` where a
theorem names it (`MCQsProof` evaluates its laws on samples); a descriptor is a
sequence of bytes, what a publisher wrote reads back, and a certificate that
verifies is one of the dataset it names (`DescriptorAssumption`,
`PublishedAssumption`, `CertificateAssumption`: the soundness of the certificates);
keys of different people and epochs differ and there is someone to confuse a member with
(`PeopleAssumption`); a hash is one of the five of the library, version 1 has neither
nullifiers nor opener, and what a verifier asks differently does differ: another
configuration has another fingerprint or circuit, another scope is none of those signed, and
only a syndrome that has pad bits is padded (`SetupsAssumption`); tags are bytes, the two reserved ones differ, and what an opener seals fits a section
(`EnvelopeAssumption`); a field is as wide for one person as for another, which
voleith_rs_ring_member_set enforces by its length check, attributes and ids tell people
apart, a request over another epoch's path has one other epoch to take, and the attributes or the id with
which a leaf built field by field under epochs would begin are not a digest, as the root that
the relation expects there is (`WidthAssumption`: of a hash function it holds but by a
preimage); those who pass are those for
whom the predicates hold (`PassesAssumption`).

Only model-checked, and why:

* `Masked` speaks of the monomials of one formal ring and not of every ring.
* `WordsMeanWhatWasAsked`, `ChecksMeet`, `WordsComplete` and `WordsMeaningful`:
  not proved yet.  The arguments are those of GF(2), with pools beside the tables
  and a fold over bits in each gate.
* `DecodesTheFile`, `RankIsDimension`, `SinkReads`, `KeyAndCircuit` are about
  elimination over a finite field: induction over matrices.
* `EligibleAreHeard` and `OpensToSigner` say that something is
  accepted (of the first, that no one else signs is `SignsOnlyEntitled` and proved), so that every part of an honest witness fits: the ranks of a spent set after any
  number of shows, the folds of a schema, and for the opener decoding and the KDF.  Not
  proved yet.
* The properties of the parsers: `ShipRegistry` is a recursive operator and
  `ShipShape` and `ShipWitness` reach it, which the prover does not take.
* `Rebuilds` is liveness.

## 5. Assumptions and what is not modelled

* PRG and hashes are free of collisions and one-way.
* Provers run this code.  What is shown is completeness, masking and that both
  sides speak of one statement; soundness against other provers is an argument
  about probabilities and is not modelled.
* A seed of the Fiat-Shamir transform is used for one commitment, as proof.h
  (205-216) demands of the caller; the model does not show that callers do.
* Endianness of fields and timing are left out.
* Leaf commitments of three blocks (n_leafcom = 3): every shipped parameter set has
  two, and the code for three is not written (section 6).
* The refusals of a degree past VOLEITH_QS_D_MAX (32) in the provers and verifiers of
  words, which no circuit that the library builds meets (17 at most, qs_degree.h).
* The two-phase contexts of gf8_proof.c and gf16_proof.c are those of proof.c;
  grinding and the layer below are modelled once, in `VoleProof`.
* Groestl, SHAKE and the KDF gadget are injective functions; the AES fields are
  small ones.  That the S-box is AES's is for test vectors to show.
* How characters make a token of a ShipShape text.
* The trees of merkle_circuit.c and merkle_gf8_circuit.c (fixed hash, no node hash
  table) walk the path of the variable one and are not modelled apart.
* Decoding a syndrome, which the library leaves to the holder of the opening key.
* `core/`, umbrella headers, tests, examples, fuzzers and tools.

## 6. Observations

Places where code and documents differ, or where a caller might be surprised,
that no run states:

* proof.c:241 accepts n_leafcom = 3, for which vc.c (323, 757) leaves the leaf
  commitments unwritten; DESIGN.md:601 says only two blocks are implemented.
* proof.h:215-228 says that nothing binds circuit and parameters to a proof "until
  then" (1.3.0); the header of proof.c now does.
* prover.c:120 gives the coefficients of `sum_poly` in the reverse of the order
  the code computes (129); prover and verifier agree.
* ShipShape, besides bit_args and body_defs: the name of a result may be that of a
  parameter, where the specification defines both; a body witness that no
  assertion marks is filled with zero when it is declared bit; registering every
  family of backends fails part-way because the table is smaller.
* Ring: a schema with no predicate leaves the attribute widths out of the
  fingerprint; with epochs two nullifiers of one signer in one scope differ, where
  nullifier_equal's comment says they are equal; config_validate accepts some
  configurations nobody can sign under; `sign` accepts an opener position list
  that `verify` refuses; member_set keeps pointers that member_end reads.
* The GF(2^m) fingerprint covers wires and constraints and not the less-than and
  syndrome tables; circuits that differ only there meet in the header and part at
  the checks.
* R does not bind the generator of the code (rs_retriever.h:101).
* rlnc.c:131 frees with the sizes the struct had before.

## 7. Plan

1. Proofs: the word systems (`WordsMeanWhatWasAsked`, `WordsComplete`, `ChecksMeet`), along the
   lines of `QsTheorems`; the rest of `EligibleAreHeard` over `Ring`; the ranks of
   `Matrix` up to what needs no induction over data.
2. The two-phase contexts of the word systems over the VOLE layer; the transcript
   with its two phases; the Groestl entries of the registry.
