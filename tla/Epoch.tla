------------------------------- MODULE Epoch -------------------------------
(***************************************************************************)
(* The forward-secure epoch key of a ring member (proof/rs_epoch_gf8.c):   *)
(* one voleith_rs_epoch_state_t in memory, the copies of it that were      *)
(* written to files, and the operations of the API between them.  The      *)
(* process may die at any time, a write may be torn, a file may be copied, *)
(* damaged, and loaded again long after the state has moved on.            *)
(*                                                                         *)
(* A call that returns -1 without touching the state is a stuttering step  *)
(* and has no action; one that fails half-way and clears the state is the  *)
(* second disjunct of its action.                                          *)
(***************************************************************************)
EXTENDS Loops, Sequences, FiniteSets

CONSTANTS Masters,       \* the master seeds identities are generated from
          MaxDepth,      \* VOLEITH_RS_EPOCH_MAX_DEPTH
          Cfgs,          \* ring-signature configurations with V6 on
          CfgDepth,      \* depth_e of each
          Files          \* places a serialized state is kept

ASSUME MaxDepthAssumption == MaxDepth \in Nat \ {0}
ASSUME CfgAssumption == CfgDepth \in [Cfgs -> 1..MaxDepth]

-----------------------------------------------------------------------------
(***************************************************************************)
(* The two binary trees of the V6 epoch schedule (proof/rs_epoch_gf8.c).   *)
(*                                                                         *)
(* The GGM tree is indexed like a heap: the root is 1, the children of h   *)
(* are 2h and 2h+1, and the leaf of epoch e is 2^d + e.  A seed is the PRG *)
(* output it stands for: [key |-> m, node |-> h] is the seed of node h     *)
(* under master seed m.  PRG output under a tweak other than the node's    *)
(* own index is no tree seed at all (node 0).                              *)
(*                                                                         *)
(* The public tree is a Merkle tree over the hashes of the leaf seeds; its *)
(* hashes are free terms.                                                  *)
(***************************************************************************)

NoKey == "none"

Seeds == [key : Masters \cup {NoKey}, node : Nat]

\* What secure_zero leaves in a seed buffer.
ZeroSeed == [key |-> NoKey, node |-> 0]

MasterSeed(m) == [key |-> m, node |-> 1]

-----------------------------------------------------------------------------
(* Heap indices.                                                           *)

\* floor(log2(h))
HeapDepth(h) == CHOOSE k \in 0..h : 2^k <= h /\ h < 2^(k + 1)

\* The block of leaves below h in a tree of depth d: first leaf and length.
HeapSize(d, h) == 2^(d - HeapDepth(h))
HeapLo(d, h) == (h - 2^(HeapDepth(h))) * HeapSize(d, h)

\* The heap index of the block of 2^i leaves that starts at lo.
BlockHeap(d, lo, i) == 2^(d - i) + (lo \div 2^i)

-----------------------------------------------------------------------------
(* Seed derivation.                                                        *)

\* One half of PRG(seed, tweak): the left child for bit 0, the right for 1.
ExpandNode(seed, tweak, bit) ==
  [key  |-> seed.key,
   node |-> IF seed.node = tweak THEN 2 * tweak + bit ELSE 0]

\* Mutant of WalkStep: the heap index, which is the PRG tweak, forgets the bit.
WalkStepStaleTweak(d, edge) ==
  [s \in [seed : Seeds, heap : Nat, k : Nat] |->
     LET bit == BitAt(edge, d - s.k - 1)
     IN  [seed |-> ExpandNode(s.seed, s.heap, bit), heap |-> 2 * s.heap, k |-> s.k + 1]]

\* One level of a walk towards the leaf `edge`: s.k is the depth reached.
WalkStep(d, edge) ==
  [s \in [seed : Seeds, heap : Nat, k : Nat] |->
     LET bit == BitAt(edge, d - s.k - 1)
     IN  [seed |-> ExpandNode(s.seed, s.heap, bit),
          heap |-> 2 * s.heap + bit,
          k    |-> s.k + 1]]

\* The seed target levels below the root, on the way to the leaf `edge`.
DeriveNode(d, seed, heap, edge, target) ==
  LET k == HeapDepth(heap)
  IN  Iterate(WalkStep(d, edge), [seed |-> seed, heap |-> heap, k |-> k])[target - k].seed

-----------------------------------------------------------------------------
(* The cover of [t, 2^d): maximal aligned power-of-two blocks, in order.   *)

\* The block may double from 2^(i-1) to 2^i leaves at lo.
Grows(d, lo, i) == lo % 2^i = 0 /\ lo + 2^i <= 2^d

\* Mutant of BlockLog: blocks never grow, the cover is a list of leaves.
BlockLogOne(d, lo) == 0

\* log2 of the size at which the growing loop stops.
BlockLog(d, lo) ==
  CHOOSE i \in 0..d : ~Grows(d, lo, i + 1) /\ \A j \in 1..i : Grows(d, lo, j)

CoverStep(d) ==
  [s \in [lo : Nat, heaps : Seq(Nat)] |->
     IF s.lo < 2^d
     THEN [lo    |-> s.lo + 2^(BlockLog(d, s.lo)),
           heaps |-> Append(s.heaps, BlockHeap(d, s.lo, BlockLog(d, s.lo)))]
     ELSE s]

ComputeCover(d, t) ==
  Iterate(CoverStep(d), [lo |-> t, heaps |-> <<>>])[2^d - t].heaps

-----------------------------------------------------------------------------
(* The public tree.  A hash is named after what it commits to: the hash of *)
(* node h of the tree of master m is [key |-> m, of |-> h], and hashing    *)
(* anything that is not a node of a tree gives no tree's hash.             *)

NoHash == [key |-> NoKey, of |-> 0]

LeafHash(d, seed) ==
  IF seed.node >= 2^d THEN [key |-> seed.key, of |-> seed.node] ELSE NoHash

InodeHash(l, r) ==
  IF l.key = r.key /\ l.of % 2 = 0 /\ r.of = l.of + 1
  THEN [key |-> l.key, of |-> l.of \div 2] ELSE NoHash

\* full_expand_leaf_nodes: every seed of the tree, parents first.
SeedTable(d, m) ==
  LET Arrays == [1..(2^(d + 1) - 1) -> Seeds]
      Step == [s \in [h : Nat, seeds : Arrays] |->
                 [h |-> s.h + 1,
                  seeds |-> [s.seeds EXCEPT
                               ![2 * s.h]     = ExpandNode(s.seeds[s.h], s.h, 0),
                               ![2 * s.h + 1] = ExpandNode(s.seeds[s.h], s.h, 1)]]]
      first == [i \in 1..(2^(d + 1) - 1) |-> IF i = 1 THEN MasterSeed(m) ELSE ZeroSeed]
  IN  Iterate(Step, [h |-> 1, seeds |-> first])[2^d - 1].seeds

LeafNodes(d, m) ==
  LET seeds == SeedTable(d, m)
  IN  [i \in 1..2^d |-> LeafHash(d, seeds[2^d + i - 1])]

Hashes == [key : Masters \cup {NoKey}, of : Nat]

\* One level up: s.nodes ends with the s.count nodes of the level at s.off.
TreeStep ==
  [s \in [nodes : Seq(Hashes), off : Nat, count : Nat] |->
     [nodes |-> s.nodes \o
        [j \in 1..(s.count \div 2) |->
           InodeHash(s.nodes[s.off + 2 * j - 1], s.nodes[s.off + 2 * j])],
      off   |-> s.off + s.count,
      count |-> s.count \div 2]]

\* All 2T-1 hashes, level by level, leaves first and the root last.
PublicNodes(d, m) ==
  Iterate(TreeStep, [nodes |-> LeafNodes(d, m), off |-> 0, count |-> 2^d])[d].nodes

Root(nodes) == nodes[Len(nodes)]

\* The index of the first node of level k: T + T/2 + ... of the levels below.
LevelOffset(d, k) == 2 * (2^d - 2^(d - k))

\* x ^ 1
FlipLast(x) == IF x % 2 = 0 THEN x + 1 ELSE x - 1

\* The siblings of epoch t's leaf, leaf level first.
EpochPath(d, nodes, t) ==
  [k \in 1..d |-> nodes[LevelOffset(d, k - 1) + FlipLast(t \div 2^(k - 1)) + 1]]

\* The root that sk reaches through the siblings in the direction of t.
Climb(d, sk, t, path) ==
  LET Step == [s \in [node : Hashes, k : Nat] |->
                 [node |-> IF BitAt(t, s.k) = 0 THEN InodeHash(s.node, path[s.k + 1])
                                                ELSE InodeHash(path[s.k + 1], s.node),
                  k |-> s.k + 1]]
  IN  Iterate(Step, [node |-> LeafHash(d, sk), k |-> 0])[d].node

-----------------------------------------------------------------------------
(* The state and its files.                                                *)

VARIABLES
  st,        \* the state in memory (Cleared when there is none)
  file,      \* what each file holds now
  written,   \* what serialize (or a copy) put there: damage makes them differ
  enrolled,  \* the ring: identity -> the epoch root keygen returned
  sound      \* history: the copies, st and files, no damage has reached

vars == <<st, file, written, enrolled, sound>>

NoCfg  == "nocfg"
NoFile == [magic |-> FALSE]

\* "st" is the name of the copy in memory.
ASSUME NamesAssumption ==
  NoKey \notin Masters /\ NoCfg \notin Cfgs /\ "st" \notin Files

Epochs(d) == 0..(2^d - 1)
SlotIds == 0..MaxDepth
NotEnrolled == [key |-> NoKey, of |-> 1]
ZeroSlot == [heap |-> 0, seed |-> ZeroSeed]

\* The array of n_cover live slots followed by zeroes.
Install(cover) ==
  [i \in SlotIds |-> IF i < Len(cover) THEN cover[i + 1] ELSE ZeroSlot]

\* The struct: a cover of [t, 2^depth) and, after a keygen or a load, the
\* public nodes, whose last one is the root.
Schedule(depth, t, cover, nodes, fp) ==
  [depth |-> depth, t |-> t, n |-> Len(cover), slot |-> Install(cover),
   nodes |-> nodes, root |-> IF nodes = <<>> THEN NoHash ELSE Root(nodes), fp |-> fp]

\* memset / secure_zero of the whole struct
Cleared == Schedule(0, 0, <<>>, <<>>, NoCfg)

\* Copy `to` is now what copy `from` was.
Inherit(to, from) == IF from \in sound THEN sound \cup {to} ELSE sound \ {to}

Init ==
  /\ st = Cleared
  /\ file = [f \in Files |-> NoFile]
  /\ written = [f \in Files |-> NoFile]
  /\ enrolled = [m \in {} |-> NotEnrolled]
  /\ sound = {}

-----------------------------------------------------------------------------
(* Key generation.                                                         *)

FreshCover(m) == <<[heap |-> 1, seed |-> MasterSeed(m)]>>

StateInit(d, m) == Schedule(d, 0, FreshCover(m), <<>>, NoCfg)

\* voleith_rs_epoch_state_init alone: a schedule without a public tree.
InitSchedule(d, m) ==
  /\ st = Cleared
  /\ m \notin DOMAIN enrolled
  /\ st' = StateInit(d, m)
  /\ enrolled' = [x \in DOMAIN enrolled \cup {m} |-> IF x = m THEN NotEnrolled ELSE enrolled[x]]
  /\ sound' = sound \cup {"st"}
  /\ UNCHANGED <<file, written>>

\* The caller registers the root keygen returns.
Keygen(c, m) ==
  LET d == CfgDepth[c]
      nodes == PublicNodes(d, m)
  IN  /\ st = Cleared
      /\ m \notin DOMAIN enrolled
      /\ st' = Schedule(d, 0, FreshCover(m), nodes, c)
      /\ enrolled' = [x \in DOMAIN enrolled \cup {m} |->
                        IF x = m THEN Root(nodes) ELSE enrolled[x]]
      /\ sound' = sound \cup {"st"}
  /\ UNCHANGED <<file, written>>

-----------------------------------------------------------------------------
(* The forward-secure schedule.                                            *)

\* compute_cover and heap_range, tabulated: TLC evaluates a constant once.
Cover == [d \in 1..MaxDepth |-> [t \in Epochs(d) |-> ComputeCover(d, t)]]
Block == [d \in 1..MaxDepth |-> [h \in 1..(2^(d + 1) - 1) |->
            [lo |-> HeapLo(d, h), end |-> HeapLo(d, h) + HeapSize(d, h)]]]

InBlock(e, d, h) == Block[d][h].lo <= e /\ e < Block[d][h].end

\* voleith_rs_epoch_derive_sk succeeds for e.
Covered(s, e) ==
  /\ s.t <= e /\ e < 2^(s.depth)
  /\ \E i \in 0..(s.n - 1) : InBlock(e, s.depth, s.slot[i].heap)

\* The search for a source slot takes the first one that fits.
First(slots) == CHOOSE i \in slots : \A j \in slots : i <= j

DeriveSk(s, e) ==
  LET src == s.slot[First({i \in 0..(s.n - 1) : InBlock(e, s.depth, s.slot[i].heap)})]
  IN  DeriveNode(s.depth, src.seed, src.heap, e, s.depth)

\* Mutant of Holds: a block does not contain one that ends where it ends.
HoldsStrictly(s, i, h) ==
  LET old == Block[s.depth][s.slot[i].heap]
      new == Block[s.depth][h]
  IN  old.lo <= new.lo /\ new.end < old.end

\* Slot i holds a seed from which the block of heap index h can be derived.
Holds(s, i, h) ==
  LET old == Block[s.depth][s.slot[i].heap]
      new == Block[s.depth][h]
  IN  old.lo <= new.lo /\ new.end <= old.end

AllHeld(s, target) ==
  LET heaps == Cover[s.depth][target]
  IN  \A k \in 1..Len(heaps) : \E i \in 0..(s.n - 1) : Holds(s, i, heaps[k])

NewCover(s, target) ==
  LET d == s.depth
      heaps == Cover[d][target]
      Src(h) == s.slot[First({i \in 0..(s.n - 1) : Holds(s, i, h)})]
  IN  [k \in 1..Len(heaps) |->
         LET h == heaps[k] IN
         [heap |-> h,
          seed |-> DeriveNode(d, Src(h).seed, Src(h).heap, Block[d][h].lo, HeapDepth(h))]]

\* Mutant of AdvanceTo: the cover starts one epoch too early.
AdvanceToLate(s, target) ==
  Schedule(s.depth, target, NewCover(s, target - 1), s.nodes, s.fp)

\* Mutant of AdvanceTo: the old cover is overwritten but not zeroed.
AdvanceToUnzeroed(s, target) ==
  LET cover == NewCover(s, target)
  IN  [s EXCEPT !.slot = [i \in SlotIds |-> IF i < Len(cover) THEN cover[i + 1] ELSE @[i]],
                !.n = Len(cover), !.t = target]

\* Retire everything before `target`: derive the new cover from the old,
\* zero the old one, install the new one.
AdvanceTo(s, target) ==
  Schedule(s.depth, target, NewCover(s, target), s.nodes, s.fp)

Advance(target) ==
  /\ st.t < target /\ target < 2^(st.depth)
  /\ AllHeld(st, target)
  /\ st' = AdvanceTo(st, target)
  /\ UNCHANGED <<file, written, enrolled, sound>>

\* voleith_rs_epoch_state_clear, or the process dies with the state in memory.
Clear ==
  /\ st # Cleared
  /\ st' = Cleared
  /\ UNCHANGED <<file, written, enrolled, sound>>

-----------------------------------------------------------------------------
(* Signing reads the state.  prove_v2 evaluates the circuit first, so a    *)
(* witness that does not climb to an enrolled root is refused.             *)

\* Mutant of SignOk: the witness is not evaluated against the circuit.
SignUnchecked(c, m, e) == st.fp = c /\ Covered(st, e)

\* voleith_rs_epoch_sign under configuration c releases a signature of
\* member m at epoch e.
SignOk(c, m, e) ==
  LET d == CfgDepth[c] IN
  /\ st.fp = c
  /\ Covered(st, e)
  /\ Climb(d, DeriveSk(st, e), e, EpochPath(d, st.nodes, e)) = enrolled[m]

-----------------------------------------------------------------------------
(* Persistence.  A buffer's slack is its length less what its own header   *)
(* announces.                                                              *)

Serialized(s) ==
  [magic |-> TRUE, fp |-> s.fp, t |-> s.t, count |-> s.n,
   cover |-> [k \in 1..s.n |-> s.slot[k - 1]], nodes |-> s.nodes, slack |-> 0]

Serialize(f) ==
  /\ st.nodes # <<>>
  /\ file' = [file EXCEPT ![f] = Serialized(st)]
  /\ written' = [written EXCEPT ![f] = Serialized(st)]
  /\ sound' = Inherit(f, "st")
  /\ UNCHANGED <<st, enrolled>>

\* Mutant of Loadable: the stored heap indices are trusted.
LoadableAnyCover(c, b) ==
  LET d == CfgDepth[c] IN
  /\ b.magic /\ b.fp = c /\ b.t < 2^d
  /\ b.count = Len(Cover[d][b.t])
  /\ b.slack = 0 /\ b.count = Len(b.cover) /\ Len(b.nodes) = 2 * 2^d - 1

\* The checks of voleith_rs_epoch_state_load, in its order.
Loadable(c, b) ==
  LET d == CfgDepth[c] IN
  /\ b.magic
  /\ b.fp = c
  /\ b.t < 2^d
  /\ 0 < b.count /\ b.count <= MaxDepth + 1
  /\ b.slack = 0 /\ b.count = Len(b.cover) /\ Len(b.nodes) = 2 * 2^d - 1
  /\ LET heaps == Cover[d][b.t]
     IN  /\ Len(heaps) = b.count
         /\ \A k \in 1..b.count : b.cover[k].heap = heaps[k]

\* Mutant of Loaded: slots past the loaded cover keep what they held.
LoadedOver(c, b) ==
  [Schedule(CfgDepth[c], b.t, b.cover, b.nodes, c) EXCEPT
     !.slot = [i \in SlotIds |-> IF i < b.count THEN b.cover[i + 1] ELSE st.slot[i]]]

Loaded(c, b) == Schedule(CfgDepth[c], b.t, b.cover, b.nodes, c)

\* Loading overwrites whatever the struct held; on a refusal, or when the
\* public nodes cannot be allocated, the struct is left zeroed.
Load(f, c) ==
  /\ file[f] # NoFile
  /\ \/ Loadable(c, file[f]) /\ st' = Loaded(c, file[f])
     \/ st # Cleared /\ st' = Cleared
  /\ sound' = Inherit("st", f)
  /\ UNCHANGED <<file, written, enrolled>>

-----------------------------------------------------------------------------
(* The files, outside the library.                                         *)

CopyFile(f, g) ==
  /\ file[f] # file[g]
  /\ file' = [file EXCEPT ![g] = file[f]]
  /\ written' = [written EXCEPT ![g] = written[f]]
  /\ sound' = Inherit(g, f)
  /\ UNCHANGED <<st, enrolled>>

\* A buffer that differs from b in one place: a bit that flipped in one of
\* its sections, a torn write, bytes appended.  Damage is bounded: it
\* strikes a sound file, while no other file is damaged.
Damaged(b) ==
  {[b EXCEPT !.magic = FALSE]}
  \cup {[b EXCEPT !.fp = NoCfg]}
  \cup {[b EXCEPT !.t = t] : t \in Epochs(CfgDepth[b.fp])}
  \cup {[b EXCEPT !.count = n] : n \in {b.count - 1, b.count + 1}}
  \cup {[b EXCEPT !.cover[i].heap = FlipLast(@)] : i \in 1..b.count}
  \cup {[b EXCEPT !.cover[i].seed = ZeroSeed] : i \in {1, b.count}}
  \cup {[b EXCEPT !.nodes[i] = NoHash] : i \in {1, Len(b.nodes)}}
  \cup {[b EXCEPT !.slack = 1], [b EXCEPT !.cover = SubSeq(b.cover, 1, Len(b.cover) - 1)]}

Damage(f) ==
  /\ file = written /\ file[f] # NoFile /\ f \in sound
  /\ \E b \in Damaged(file[f]) : b # file[f] /\ file' = [file EXCEPT ![f] = b]
  /\ sound' = sound \ {f}
  /\ UNCHANGED <<st, written, enrolled>>

-----------------------------------------------------------------------------
Next ==
  \/ \E c \in Cfgs, m \in Masters : Keygen(c, m)
  \/ \E c \in Cfgs, m \in Masters : InitSchedule(CfgDepth[c], m)
  \/ \E target \in 1..(2^MaxDepth - 1) : Advance(target)
  \/ Clear
  \/ \E f \in Files : Serialize(f)
  \/ \E f \in Files, c \in Cfgs : Load(f, c)
  \/ \E f, g \in Files : CopyFile(f, g)
  \/ \E f \in Files : Damage(f)

Spec == Init /\ [][Next]_vars

-----------------------------------------------------------------------------
(* Properties.                                                             *)

\* The epochs whose leaf lies below node h: whoever holds the seed of h can
\* walk to their keys, and (the PRG being one-way) to no others.
Below == [d \in 1..MaxDepth |-> [h \in 0..(2^(d + 1) - 1) |->
            {e \in Epochs(d) : \E j \in 0..d : (2^d + e) \div 2^j = h}]]

\* The epoch keys that can be computed from the seed slots of a state, the
\* slots past n_cover included, and from the seeds in a file.
MemorySecrets ==
  UNION {{st.slot[i].seed.key} \X Below[st.depth][st.slot[i].seed.node] :
           i \in {j \in SlotIds : st.slot[j].seed # ZeroSeed}}

FileSecrets(f) ==
  IF file[f] = NoFile THEN {}
  ELSE UNION {{s.key} \X Below[CfgDepth[written[f].fp]][s.node] :
                s \in {file[f].cover[i].seed : i \in 1..Len(file[f].cover)} \ {ZeroSeed}}

\* The fields keep their ranges, and the cover never outgrows the arrays
\* compute_cover fills (it says "at most depth_e" blocks).
TypeOK ==
  /\ st.depth \in 0..MaxDepth /\ st.n \in 0..st.depth
  /\ st.t \in Epochs(st.depth)
  /\ st.slot \in [SlotIds -> [heap : Nat, seed : Seeds]]
  /\ st.fp \in Cfgs \cup {NoCfg}
  /\ DOMAIN enrolled \subseteq Masters

\* Forward security (rs_epoch_gf8.h: a state captured at epoch t cannot
\* recompute sk_t' for any t' < t): no slot, live or stale, reveals a
\* retired epoch, whatever advances, saves and loads came before.
ForwardSecure ==
  \A k \in MemorySecrets : k[2] >= st.t

\* A state that no damage reached signs every epoch it has not retired, under
\* its own configuration: the walk finds the key the public tree was built
\* from, the path is that leaf's, and the two climb to the enrolled root.
LiveEpochsSignable ==
  ("st" \in sound /\ st.nodes # <<>>) =>
    \A e \in st.t..(2^st.depth - 1) : \E m \in DOMAIN enrolled : SignOk(st.fp, m, e)

\* Damaged or not, no state signs an epoch whose key is not in memory, an
\* epoch it retired, or under another configuration.
SignsOnlyWhatItHolds ==
  \A c \in Cfgs, m \in DOMAIN enrolled : \A e \in Epochs(CfgDepth[c]) :
     SignOk(c, m, e) => c = st.fp /\ e >= st.t /\ <<m, e>> \in MemorySecrets

\* The branch of advance marked "unreachable for a well-formed cover" is:
\* every legal target can be reached from every state.
AdvanceNeverStuck ==
  \A target \in (st.t + 1)..(2^(st.depth) - 1) : AllHeld(st, target)

\* However a state got to epoch t, its cover is the one a single advance of
\* a fresh schedule to t gives: the history of advances leaves no trace.
HistoryFree ==
  st.depth > 0 /\ "st" \in sound =>
    \E m \in DOMAIN enrolled :
      LET fresh == StateInit(st.depth, m)
          direct == IF st.t = 0 THEN fresh ELSE AdvanceTo(fresh, st.t)
      IN  direct.slot = st.slot /\ direct.n = st.n

\* A damaged header, cover index or length is never loaded: what load
\* accepts carries the epoch, configuration and cover that were serialized.
LoadsWhatWasSaved ==
  [][\A f \in Files, c \in Cfgs :
       Load(f, c) /\ st' # Cleared =>
         /\ Serialized(st').t = written[f].t
         /\ st'.fp = written[f].fp
         /\ [k \in 1..st'.n |-> st'.slot[k - 1].heap]
              = [k \in 1..written[f].count |-> written[f].cover[k].heap]]_vars

Key == INSTANCE EpochKey WITH
         Members   <- Masters,
         MaxEpochs <- 2^MaxDepth,
         mem       <- MemorySecrets,
         disk      <- [f \in Files |-> FileSecrets(f)],
         born      <- DOMAIN enrolled

\* The implementation keeps the promise of EpochKey: what can be computed
\* from the seeds in memory and in the files moves as it allows.
ImplementsEpochKey == Key!Spec
=============================================================================
