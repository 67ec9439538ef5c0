--------------------------- MODULE ShipRegistry ---------------------------
(***************************************************************************)
(* The gadgets a Shipshape program can call by name and the registry that  *)
(* names them (parsers/shipshape_registry_build.c): AES and its key        *)
(* schedule (circuits/aes_gf8_circuit.c), CMAC (aes_cmac_gf8_circuit.c),   *)
(* the node hashes (node_hash_aes_gf8.c, node_hash_hirose_gf8.c), Merkle   *)
(* paths with secret directions and absence proofs over them.  Each gadget *)
(* is written twice in the code, as gates and as the bytes an honest       *)
(* prover computes for the inverses its gates leave open; both are here,   *)
(* for a block of AesRows by AesCols bytes.                                *)
(***************************************************************************)
EXTENDS GfCircuit, SequencesExt

CONSTANTS AesRows, AesCols,           \* 4 and 4
          ShortRounds, LongRounds,    \* rounds for a key of one block and of two: 10 and 14
          AffineMatrix, AffineConst,  \* AES_GF8_AFFINE_MATRIX and 0x63
          Rb,                         \* bits of the constant CMAC doubles with: 0x87
          LeafDomain, InodeDomain,    \* blocks: MERKLE_LEAF_DOMAIN, MERKLE_INODE_DOMAIN
          HiroseIv,                   \* two blocks
          HiroseLeafTweak, HiroseInodeTweak   \* blocks: HIROSE_C_LEAF_FIXED32, HIROSE_C_INODE

ASSUME GadgetAssumption ==
  /\ {AesRows, AesCols, ShortRounds, LongRounds} \subseteq Nat \ {0}
  /\ AffineConst \in Word /\ Rb \subseteq 0..(WordBits - 1)
  /\ AffineMatrix \in [0..(WordBits - 1) -> SUBSET (0..(WordBits - 1))]
  /\ \A b \in {LeafDomain, InodeDomain, HiroseLeafTweak, HiroseInodeTweak} :
       Len(b) = AesRows * AesCols
  /\ Len(HiroseIv) = 2 * AesRows * AesCols

BlockBytes == AesRows * AesCols
One == {0}
Top == {WordBits - 1}     \* 0x80
Zeros(n) == [k \in 1..n |-> {}]

\* Block k of s, counted from 1.
BlockOf(s, k) == SubSeq(s, (k - 1) * BlockBytes + 1, k * BlockBytes)

\* A loop that runs Step over xs; its state is computed at every turn.
Over(Step(_, _), start, xs) ==
  LET state[k \in 0..Len(xs)] ==
        IF k = 0 THEN start ELSE CHOOSE t \in {Step(u, xs[k]) : u \in {state[k - 1]}} : TRUE
  IN  state[Len(xs)]

\* F of x, which is computed once.
Then(x, F(_)) == CHOOSE y \in {F(u) : u \in {x}} : TRUE

-----------------------------------------------------------------------------
(* Emission.  A gadget returns the circuit and the wires it gives.  Wires  *)
(* are numbered as they come; of a circuit that refused one nothing is     *)
(* kept, whatever its numbers are.                                         *)

\* A gadget over wires and its bytes, by name: gadgets are made of gadgets.
RECURSIVE Emit(_, _, _), Compute(_, _)

Ready(c) == [c |-> c, out |-> <<>>]
Put(b, e) == LET w == AppendWire(b.c, e, TRUE) IN [c |-> w.c, out |-> Append(b.out, w.id)]
Layer(c, es) == Over(Put, Ready(c), es)

WitnessWire == Gate("witness", InvalidId, InvalidId)
ConstWire(v) == Entry("const", InvalidId, InvalidId, v, NoMatrix)
SquareGate(a) == Gate("square", a, InvalidId)
XorConstGate(a, v) == Entry("xor_const", a, InvalidId, v, NoMatrix)
MapGate(a, m) == Entry("linear_map", a, InvalidId, {}, m)

ConstBlock(c, vs) == Layer(c, [k \in 1..Len(vs) |-> ConstWire(vs[k])])
XorBlocks(c, a, b) == Layer(c, [k \in 1..Len(a) |-> Gate("xor", a[k], b[k])])

\* One inverse is asked of the prover; x = 0 has the inverse 0.
Sbox(c, x) ==
  LET inv == Len(c.wires)
      b == Layer(c, <<WitnessWire, SquareGate(x), SquareGate(inv), MapGate(inv, AffineMatrix),
                      XorConstGate(inv + 3, AffineConst)>>)
      fwd == AddConstraint(b.c, "product", inv + 1, inv, x, TRUE)
  IN  [c |-> AddConstraint(fwd, "product", x, inv + 2, inv, TRUE), out |-> <<inv + 4>>]

Extended(b, r) == [c |-> r.c, out |-> b.out \o r.out]
SubBytes(c, s) == Over(LAMBDA b, x : Extended(b, Sbox(b.c, x)), Ready(c), s)

\* Row r of column col comes from column col + r.
ShiftRows(s) ==
  [k \in 1..BlockBytes |->
     LET row == (k - 1) % AesRows
         col == (k - 1) \div AesRows
     IN  s[row + AesRows * ((col + row) % AesCols) + 1]]

RotWord(w) == Tail(w) \o <<Head(w)>>

\* Row i of the circulant 2, 3, 1, ... picks from twice, thrice and once.
Term(i, j, twice, thrice, once) ==
  CASE (j - i) % AesRows = 0 -> twice[j]
    [] (j - i) % AesRows = 1 -> thrice[j]
    [] OTHER -> once[j]

MixRow(b, i, twice, thrice, once) ==
  LET r == Over(LAMBDA s, j : AppendWire(s.c, Gate("xor", s.id, Term(i, j, twice, thrice, once)), TRUE),
                [c |-> b.c, id |-> Term(i, 1, twice, thrice, once)],
                [j \in 1..(AesRows - 1) |-> j + 1])
  IN  [c |-> r.c, out |-> Append(b.out, r.id)]
MixColumn(c, a) ==
  LET x2 == Layer(c, [k \in 1..AesRows |-> MapGate(a[k], MulMatrix({1}))])
      x3 == XorBlocks(x2.c, x2.out, a)
  IN  Over(LAMBDA b, i : MixRow(b, i, x2.out, x3.out, a), Ready(x3.c), [i \in 1..AesRows |-> i])

MixColumns(c, s) ==
  Over(LAMBDA b, col : Extended(b, MixColumn(b.c, SubSeq(s, (col - 1) * AesRows + 1, col * AesRows))),
       Ready(c), [col \in 1..AesCols |-> col])

Rcon(n) == Iterate([a \in Word |-> ShiftWord(a)], One)[n - 1]
Rounds(keyLen) == IF keyLen = BlockBytes THEN ShortRounds ELSE LongRounds
ScheduleWords(keyLen) == AesCols * (Rounds(keyLen) + 1)

\* Which words of the schedule pass through the S-box, the first of every nk
\* rotated too; a key of two blocks also has the one in the middle.
Rotated(i, nk) == i % nk = 0
Substituted(i, nk) == Rotated(i, nk) \/ (nk > AesCols /\ i % nk = AesCols)

\* Word i (from 0) of the schedule from the words before it.
ScheduleWord(b, i, nk) ==
  LET last == b.w[i]
      sub == Emit("sub_bytes", b.c, <<IF Rotated(i, nk) THEN RotWord(last) ELSE last>>)
      con == AppendWire(sub.c, XorConstGate(sub.out[1], Rcon(i \div nk)), TRUE)
      temp == IF Rotated(i, nk) THEN [c |-> con.c, out |-> [sub.out EXCEPT ![1] = con.id]]
              ELSE IF Substituted(i, nk) THEN sub ELSE [c |-> b.c, out |-> last]
      next == XorBlocks(temp.c, b.w[(i - nk) + 1], temp.out)
  IN  [c |-> next.c, w |-> Append(b.w, next.out)]

WordsOf(key) ==
  [i \in 1..(Len(key) \div AesRows) |-> SubSeq(key, (i - 1) * AesRows + 1, i * AesRows)]

\* The round keys, flattened round by round.
ExpandKey(c, key) ==
  LET nk == Len(key) \div AesRows
      b == Over(LAMBDA s, i : ScheduleWord(s, i, nk), [c |-> c, w |-> WordsOf(key)],
                [i \in 1..(ScheduleWords(Len(key)) - nk) |-> (nk + i) - 1])
  IN  [c |-> b.c, out |-> FlattenSeq(b.w)]

\* Every round but the last mixes columns.
EncryptRk(c, rk, pt) ==
  LET last == Len(rk) \div BlockBytes
      Round(b, n) ==
        LET sub == Emit("sub_bytes", b.c, <<b.out>>)
            mix == IF n = last THEN [c |-> sub.c, out |-> ShiftRows(sub.out)]
                   ELSE Emit("mix_columns", sub.c, <<ShiftRows(sub.out)>>)
        IN  XorBlocks(mix.c, mix.out, BlockOf(rk, n))
  IN  Over(Round, XorBlocks(c, pt, BlockOf(rk, 1)), [n \in 1..(last - 1) |-> n + 1])

AesCircuit(c, key, pt) ==
  LET k == Emit("expand_key", c, <<key>>) IN Emit("encrypt_rk", k.c, <<k.out, pt>>)

-----------------------------------------------------------------------------
(* The same in bytes: out, and the inverses in the order of the gates.     *)

FieldInverse(x) == IF x = {} THEN {} ELSE CHOOSE y \in Word : GfMul(x, y) = One
SboxByte(x) == Xor(ApplyLinearMap(AffineMatrix, FieldInverse(x)), AffineConst)
XorBytes(a, b) == [k \in 1..Len(a) |-> Xor(a[k], b[k])]
Inverses(s) == [k \in 1..Len(s) |-> FieldInverse(s[k])]
SboxBytes(s) == [k \in 1..Len(s) |-> SboxByte(s[k])]

MixColumnBytes(a) ==
  LET x2 == [k \in 1..AesRows |-> ShiftWord(a[k])]
      x3 == XorBytes(x2, a)
  IN  [i \in 1..AesRows |->
         FoldLeftDomain(LAMBDA s, j : Xor(s, Term(i, j, x2, x3, a)), {}, a)]

MixColumnsBytes(s) ==
  FlattenSeq([col \in 1..AesCols |->
                MixColumnBytes(SubSeq(s, (col - 1) * AesRows + 1, col * AesRows))])

ExpandKeyBytes(key) ==
  LET nk == Len(key) \div AesRows
      NextWord(t, i) ==
        LET last == t.w[i]
            arg == IF Rotated(i, nk) THEN RotWord(last) ELSE last
            sub == SboxBytes(arg)
            temp == IF Rotated(i, nk) THEN [sub EXCEPT ![1] = Xor(@, Rcon(i \div nk))]
                    ELSE IF Substituted(i, nk) THEN sub ELSE last
        IN  [inv |-> IF Substituted(i, nk) THEN t.inv \o Inverses(arg) ELSE t.inv,
             w   |-> Append(t.w, XorBytes(t.w[(i - nk) + 1], temp))]
      t == Over(NextWord, [inv |-> <<>>, w |-> WordsOf(key)],
                [i \in 1..(ScheduleWords(Len(key)) - nk) |-> (nk + i) - 1])
  IN  [inv |-> t.inv, out |-> FlattenSeq(t.w)]

\* Mutant of EncryptRkBytes: the inverses are those of the shifted state.
EncryptRkBytesShifted(rk, pt) ==
  LET last == Len(rk) \div BlockBytes
      Round(t, n) ==
        LET sub == ShiftRows(SboxBytes(t.out))
        IN  [inv |-> t.inv \o Inverses(ShiftRows(t.out)),
             out |-> XorBytes(IF n = last THEN sub ELSE MixColumnsBytes(sub), BlockOf(rk, n))]
  IN  Over(Round, [inv |-> <<>>, out |-> XorBytes(pt, BlockOf(rk, 1))],
           [n \in 1..(last - 1) |-> n + 1])

EncryptRkBytes(rk, pt) ==
  LET last == Len(rk) \div BlockBytes
      Round(t, n) ==
        LET sub == ShiftRows(SboxBytes(t.out))
        IN  [inv |-> t.inv \o Inverses(t.out),
             out |-> XorBytes(IF n = last THEN sub ELSE MixColumnsBytes(sub), BlockOf(rk, n))]
  IN  Over(Round, [inv |-> <<>>, out |-> XorBytes(pt, BlockOf(rk, 1))],
           [n \in 1..(last - 1) |-> n + 1])

AesBytes(key, pt) ==
  LET k == Compute("expand_key", <<key>>)
      e == Compute("encrypt_rk", <<k.out, pt>>)
  IN  [inv |-> k.inv \o e.inv, out |-> e.out]

-----------------------------------------------------------------------------
(* CMAC.                                                                   *)

Ragged(n) == n = 0 \/ n % BlockBytes # 0
FullBlocks(n) == n \div BlockBytes
InnerBlocks(n) == IF Ragged(n) THEN FullBlocks(n) ELSE FullBlocks(n) - 1
ChainedBlocks(n) == IF Ragged(n) THEN FullBlocks(n) + 1 ELSE FullBlocks(n)
CmacCalls(n) == ChainedBlocks(n) + 1
Rest(s) == SubSeq(s, FullBlocks(Len(s)) * BlockBytes + 1, Len(s))

\* A one and zeros up to the block.
Padding(n) == <<Top>> \o Zeros(BlockBytes - 1 - (n % BlockBytes))
PaddedRest(c, msg) ==
  LET pad == ConstBlock(c, Padding(Len(msg))) IN [c |-> pad.c, out |-> Rest(msg) \o pad.out]
PaddedBytes(msg) == Rest(msg) \o Padding(Len(msg))

\* The block doubled: bytes move up one bit, the highest bit of a byte into
\* the byte before it and that of the block into the constant Rb.
LowShift == [i \in 0..(WordBits - 1) |-> IF i = 0 THEN {} ELSE {i - 1}]
CarryIn == [i \in 0..(WordBits - 1) |-> IF i = 0 THEN Top ELSE {}]
CarryOut == [i \in 0..(WordBits - 1) |-> IF i \in Rb THEN Top ELSE {}]

ShiftXorRb(c, s) ==
  LET Double(b, k) ==
        LET maps == Layer(b.c, <<MapGate(s[k], LowShift),
                                 IF k = BlockBytes THEN MapGate(s[1], CarryOut)
                                 ELSE MapGate(s[k + 1], CarryIn)>>)
        IN  Put([c |-> maps.c, out |-> b.out], Gate("xor", maps.out[1], maps.out[2]))
  IN  Over(Double, Ready(c), [k \in 1..BlockBytes |-> k])

ShiftXorRbBytes(s) ==
  [k \in 1..BlockBytes |->
     Xor(ApplyLinearMap(LowShift, s[k]),
         IF k < BlockBytes THEN (IF WordBits - 1 \in s[k + 1] THEN One ELSE {})
         ELSE (IF WordBits - 1 \in s[1] THEN Rb ELSE {}))]

\* The two subkeys, from the encryption l of the zero block.
Subkeys(l) ==
  Then(ShiftXorRb(l.c, l.out), LAMBDA k1 : Extended(k1, ShiftXorRb(k1.c, k1.out)))

\* The last block, padded where it has to be, under its subkey and x.
LastBlock(x, keys, msg) ==
  LET masked == IF Ragged(Len(msg))
                THEN Then(PaddedRest(x.c, msg), LAMBDA p : XorBlocks(p.c, p.out, BlockOf(keys, 2)))
                ELSE XorBlocks(x.c, BlockOf(msg, FullBlocks(Len(msg))), BlockOf(keys, 1))
  IN  Then(masked, LAMBDA m : XorBlocks(m.c, x.out, m.out))

CmacCircuit(c, key, msg) ==
  LET Cipher(b) == Emit("aes", b.c, <<key, b.out>>)
      Chain(b, k) == Cipher(XorBlocks(b.c, b.out, BlockOf(msg, k)))
      Chained(k) == Over(Chain, ConstBlock(k.c, Zeros(BlockBytes)),
                         [i \in 1..InnerBlocks(Len(msg)) |-> i])
  IN  Then(Subkeys(Cipher(ConstBlock(c, Zeros(BlockBytes)))),
           LAMBDA k : Then(Chained(k), LAMBDA x : Then(LastBlock(x, k.out, msg), Cipher)))

CmacBytes(key, msg) ==
  LET l == Compute("aes", <<key, Zeros(BlockBytes)>>)
      k1 == ShiftXorRbBytes(l.out)
      Chain(t, k) == LET e == Compute("aes", <<key, XorBytes(t.out, BlockOf(msg, k))>>)
                     IN  [inv |-> t.inv \o e.inv, out |-> e.out]
      x == Over(Chain, [inv |-> l.inv, out |-> Zeros(BlockBytes)],
                [k \in 1..InnerBlocks(Len(msg)) |-> k])
      masked == IF Ragged(Len(msg)) THEN XorBytes(PaddedBytes(msg), ShiftXorRbBytes(k1))
                ELSE XorBytes(BlockOf(msg, FullBlocks(Len(msg))), k1)
      e == Compute("aes", <<key, XorBytes(x.out, masked)>>)
  IN  [inv |-> x.inv \o e.inv, out |-> e.out]

-----------------------------------------------------------------------------
(* Node hashes: "aes_dm", with leaves of any width, and "hirose_fixed_32", *)
(* whose leaf holds two blocks.                                            *)

HashTypes == {"aes_dm", "hirose_fixed_32"}
NodeBytes(h) == IF h = "aes_dm" THEN BlockBytes ELSE 2 * BlockBytes
FixedLeafBytes(h) == IF h = "aes_dm" THEN 0 ELSE 2 * BlockBytes

\* The message is encrypted under the chaining value and added to the result.
Compress(c, chain, block) ==
  LET e == Emit("aes", c, <<chain, block>>) IN XorBlocks(e.c, e.out, block)
CompressBytes(t, block) ==
  LET e == Compute("aes", <<t.out, block>>)
  IN  [inv |-> t.inv \o e.inv, out |-> XorBytes(e.out, block)]

DmLeaf(c, data) ==
  LET x == Over(LAMBDA b, k : Compress(b.c, b.out, BlockOf(data, k)), ConstBlock(c, LeafDomain),
                [k \in 1..InnerBlocks(Len(data)) |-> k])
      pad == PaddedRest(x.c, data)
  IN  IF Ragged(Len(data)) THEN Compress(pad.c, x.out, pad.out)
      ELSE Compress(x.c, x.out, BlockOf(data, FullBlocks(Len(data))))

DmLeafBytes(data) ==
  LET x == Over(LAMBDA t, k : CompressBytes(t, BlockOf(data, k)),
                [inv |-> <<>>, out |-> LeafDomain], [k \in 1..InnerBlocks(Len(data)) |-> k])
  IN  CompressBytes(x, IF Ragged(Len(data)) THEN PaddedBytes(data)
                       ELSE BlockOf(data, FullBlocks(Len(data))))

DmInode(c, left, right) ==
  LET dom == ConstBlock(c, InodeDomain)
      p == XorBlocks(dom.c, right, dom.out)
  IN  Compress(p.c, left, p.out)

DmInodeBytes(left, right) ==
  CompressBytes([inv |-> <<>>, out |-> left], XorBytes(right, InodeDomain))

\* One schedule, under the key H and M, encrypts G and G + tweak; each is added
\* to its encryption.
HiroseIteration(c, g, h, m, tweak) ==
  LET Half(b, rk, x) == Then(Emit("encrypt_rk", b, <<rk, x>>), LAMBDA e : XorBlocks(e.c, e.out, x))
      Tweaked(b) == Layer(b, [k \in 1..BlockBytes |-> XorConstGate(g[k], tweak[k])])
      Second(gOut, rk) ==
        Then(Tweaked(gOut.c), LAMBDA x : Extended([out |-> gOut.out], Half(x.c, rk, x.out)))
  IN  Then(Emit("expand_key", c, <<h \o m>>),
           LAMBDA k : Then(Half(k.c, k.out, g), LAMBDA gOut : Second(gOut, k.out)))

HiroseIterationBytes(t, m, tweak) ==
  LET g == BlockOf(t.out, 1)
      rk == Compute("expand_key", <<BlockOf(t.out, 2) \o m>>)
      ct == Compute("encrypt_rk", <<rk.out, g>>)
      gxc == XorBytes(g, tweak)
      ct2 == Compute("encrypt_rk", <<rk.out, gxc>>)
  IN  [inv |-> ((t.inv \o rk.inv) \o ct.inv) \o ct2.inv,
       out |-> XorBytes(ct.out, g) \o XorBytes(ct2.out, gxc)]

\* Two iterations over a message of two blocks.
HirosePair(c, state, msg, tweak) ==
  Over(LAMBDA b, k : HiroseIteration(b.c, BlockOf(b.out, 1), BlockOf(b.out, 2), BlockOf(msg, k),
                                     tweak),
       [c |-> c, out |-> state], <<1, 2>>)

HirosePairBytes(state, msg, tweak) ==
  HiroseIterationBytes(HiroseIterationBytes([inv |-> <<>>, out |-> state], BlockOf(msg, 1), tweak),
                       BlockOf(msg, 2), tweak)

\* A short leaf is filled with one zero wire, a long one is cut.
HiroseLeaf(c, data) ==
  LET width == 2 * BlockBytes
      n == Len(c.wires)     \* the first wire of the constant, which the fill follows
      short == Len(data) < width
      iv == ConstBlock(c, IF short THEN HiroseIv \o Zeros(1) ELSE HiroseIv)
      msg == IF short THEN data \o [k \in 1..(width - Len(data)) |-> n + width]
             ELSE SubSeq(data, 1, width)
  IN  HirosePair(iv.c, [k \in 1..width |-> (n + k) - 1], msg, HiroseLeafTweak)

HiroseLeafBytes(data) ==
  HirosePairBytes(HiroseIv, data \o Zeros(2 * BlockBytes - Len(data)), HiroseLeafTweak)

HiroseInode(c, left, right) == HirosePair(c, left, right, HiroseInodeTweak)
HiroseInodeBytes(left, right) == HirosePairBytes(left, right, HiroseInodeTweak)

LeafCircuit(h, c, data) == IF h = "aes_dm" THEN DmLeaf(c, data) ELSE HiroseLeaf(c, data)
InodeCircuit(h, c, l, r) == IF h = "aes_dm" THEN DmInode(c, l, r) ELSE HiroseInode(c, l, r)
LeafBytes(h, data) == IF h = "aes_dm" THEN DmLeafBytes(data) ELSE HiroseLeafBytes(data)
InodeBytes(h, l, r) == IF h = "aes_dm" THEN DmInodeBytes(l, r) ELSE HiroseInodeBytes(l, r)

\* Inverses of one schedule and of one encryption under it.
ScheduleInverses(keyLen) ==
  LET nk == keyLen \div AesRows
  IN  AesRows * Cardinality({i \in nk..(ScheduleWords(keyLen) - 1) : Substituted(i, nk)})
EncryptInverses(keyLen) == Rounds(keyLen) * BlockBytes
AesInverses(keyLen) == ScheduleInverses(keyLen) + EncryptInverses(keyLen)
IterationInverses == ScheduleInverses(2 * BlockBytes) + 2 * EncryptInverses(2 * BlockBytes)

LeafInverses(h, n) ==
  IF h = "aes_dm" THEN ChainedBlocks(n) * AesInverses(BlockBytes) ELSE 2 * IterationInverses
InodeInverses(h) == IF h = "aes_dm" THEN AesInverses(BlockBytes) ELSE 2 * IterationInverses

-----------------------------------------------------------------------------
(* Merkle paths with secret directions, absence from an indexed tree.      *)

\* Each direction is asserted to be a bit; it selects the pair to hash.
WalkSecret(h, leafNode, siblings, dirs) ==
  LET width == NodeBytes(h)
      Swap(b, level, cur, n, i) ==
        LET sib == siblings[((level - 1) * width) + i]
            gates == <<Gate("xor", sib, cur), Gate("mul", dirs[level], n), Gate("xor", cur, n + 1),
                       Gate("xor", cur, sib), Gate("xor", n + 2, n + 3)>>
        IN  [c |-> Layer(b.c, gates).c, left |-> Append(b.left, n + 2),
             right |-> Append(b.right, n + 4)]
      Level(b, level) ==
        Then(Over(LAMBDA s, i : Swap(s, level, b.out[i], Len(s.c.wires), i),
                  [c |-> AddConstraint(b.c, "product", dirs[level], dirs[level], dirs[level], TRUE),
                   left |-> <<>>, right |-> <<>>],
                  [i \in 1..width |-> i]),
             LAMBDA pair : Emit("inode", pair.c, <<h, pair.left, pair.right>>))
  IN  Over(Level, leafNode, [k \in 1..Len(dirs) |-> k])

PathSecret(h, c, leaf, siblings, dirs) ==
  WalkSecret(h, Emit("leaf", c, <<h, leaf>>), siblings, dirs)

\* indexed_merkle_gf8_assert_lt: bits from the highest of the last byte down.
AssertLess(c, a, b) ==
  LET BitOf(x, k) == MapGate(x, [i \in 0..(WordBits - 1) |-> IF i = 0 THEN {k} ELSE {}])
      Compare(s, n) ==
        LET w == Len(s.c.wires)
            byte == Len(a) - (n \div WordBits)
            k == (WordBits - 1) - (n % WordBits)
            gates == <<BitOf(a[byte], k), BitOf(b[byte], k),
                       XorConstGate(w, One), Gate("mul", w + 2, w + 1),      \* a < b in this bit
                       Gate("mul", s.eq, w + 3), Gate("xor", s.lt, w + 4),
                       Gate("xor", w, w + 1), XorConstGate(w + 6, One),      \* a = b in it
                       Gate("mul", s.eq, w + 7)>>
        IN  [c |-> Layer(s.c, gates).c, lt |-> w + 5, eq |-> w + 8]
      start == Len(c.wires)
      done == Over(Compare, [c |-> ConstBlock(c, <<{}, One>>).c, lt |-> start, eq |-> start + 1],
                   [n \in 1..(Len(a) * WordBits) |-> n - 1])
      miss == AppendWire(done.c, XorConstGate(done.lt, One), TRUE)
  IN  [c |-> AddConstraint(miss.c, "zero", miss.id, InvalidId, InvalidId, TRUE), out |-> <<>>]

\* The node b gives is asserted to be root.
EndAt(b, root) ==
  Over(LAMBDA r, k : [r EXCEPT !.c = AddConstraint(@, "equal", r.out[k], root[k], InvalidId, TRUE)],
       b, [k \in 1..Len(root) |-> k])

\* The leaf is low, hi and the next index; low < target < hi.
NonmemberSecret(h, c, target, low, hi, nidx, siblings, dirs) ==
  LET root == Emit("path_secret", c, <<h, (low \o hi) \o nidx, siblings, dirs>>)
      above == Emit("assert_lt", root.c, <<low, target>>)
      below == Emit("assert_lt", above.c, <<target, hi>>)
  IN  [c |-> below.c, out |-> root.out]

-----------------------------------------------------------------------------
Emit(g, c, in) ==
  CASE g = "sub_bytes" -> SubBytes(c, in[1])
    [] g = "mix_columns" -> MixColumns(c, in[1])
    [] g = "expand_key" -> ExpandKey(c, in[1])
    [] g = "encrypt_rk" -> EncryptRk(c, in[1], in[2])
    [] g = "aes" -> AesCircuit(c, in[1], in[2])
    [] g = "cmac" -> CmacCircuit(c, in[1], in[2])
    [] g = "leaf" -> LeafCircuit(in[1], c, in[2])
    [] g = "inode" -> InodeCircuit(in[1], c, in[2], in[3])
    [] g = "path_secret" -> PathSecret(in[1], c, in[2], in[3], in[4])
    [] g = "assert_lt" -> AssertLess(c, in[1], in[2])
    [] g = "nonmember_secret" ->
         EndAt(NonmemberSecret(in[1], c, in[2], in[3], in[4], in[5], in[6], in[7]), in[8])
    [] g = "ring_sig" -> EndAt(Emit("path_secret", c, <<in[1], in[2], in[4], in[3]>>), in[5])

Compute(g, in) ==
  CASE g = "sub_bytes" -> [inv |-> Inverses(in[1]), out |-> SboxBytes(in[1])]
    [] g = "expand_key" -> ExpandKeyBytes(in[1])
    [] g = "encrypt_rk" -> EncryptRkBytes(in[1], in[2])
    [] g = "aes" -> AesBytes(in[1], in[2])
    [] g = "cmac" -> CmacBytes(in[1], in[2])
    [] g = "leaf" -> LeafBytes(in[1], in[2])
    [] g = "inode" -> InodeBytes(in[1], in[2], in[3])

-----------------------------------------------------------------------------
(* The registry: entries of fixed shape, and CMAC, whose message gives its *)
(* length.  An entry is its kernel and the length of its key.              *)

CONSTANTS ParamMax,     \* SHIPSHAPE_REG_MAX_VECTOR_LEN
          DepthMax      \* the deepest path of an entry with a node hash

AesEntry(kernel, keyLen) == [kernel |-> kernel, keyLen |-> keyLen]
Registry ==
  [ sbox               |-> AesEntry("sbox", 0),
    keyschedule_128    |-> AesEntry("keyschedule", BlockBytes),
    encrypt_rounds_128 |-> AesEntry("encrypt_rounds", BlockBytes),
    encrypt_128        |-> AesEntry("encrypt", BlockBytes),
    keyschedule_256    |-> AesEntry("keyschedule", 2 * BlockBytes),
    encrypt_rounds_256 |-> AesEntry("encrypt_rounds", 2 * BlockBytes),
    encrypt_256        |-> AesEntry("encrypt", 2 * BlockBytes),
    cmac_aes_128       |-> AesEntry("cmac", BlockBytes),
    cmac_aes_256       |-> AesEntry("cmac", 2 * BlockBytes) ]

Inferred == -1    \* VOLEITH_SHIPSHAPE_REGISTRY_PARAM_LEN
Parametric(e) == e.kernel = "cmac"

InLens(e) ==
  LET rk == ScheduleWords(e.keyLen) * AesRows
  IN  CASE e.kernel = "sbox" -> <<1>>
        [] e.kernel = "keyschedule" -> <<e.keyLen>>
        [] e.kernel = "encrypt_rounds" -> <<rk, BlockBytes>>
        [] e.kernel = "encrypt" -> <<e.keyLen, BlockBytes>>
        [] e.kernel = "cmac" -> <<e.keyLen, Inferred>>
OutIsVector(e) == e.kernel # "sbox"
OutLen(e) ==
  CASE e.kernel = "sbox" -> 1
    [] e.kernel = "keyschedule" -> ScheduleWords(e.keyLen) * AesRows
    [] OTHER -> BlockBytes

\* Mutant of Cost: the call that derives the subkeys is not counted.
CostWithoutSubkeys(e, param) ==
  CASE e.kernel = "sbox" -> [blocks |-> 1, invs |-> 1]
    [] e.kernel = "keyschedule" -> [blocks |-> 1, invs |-> ScheduleInverses(e.keyLen)]
    [] e.kernel = "encrypt_rounds" -> [blocks |-> 1, invs |-> EncryptInverses(e.keyLen)]
    [] e.kernel = "encrypt" -> [blocks |-> 1, invs |-> AesInverses(e.keyLen)]
    [] e.kernel = "cmac" -> [blocks |-> ChainedBlocks(param),
                             invs |-> ChainedBlocks(param) * AesInverses(e.keyLen)]

\* Blocks, and the inverses the body will ask for.
Cost(e, param) ==
  CASE e.kernel = "sbox" -> [blocks |-> 1, invs |-> 1]
    [] e.kernel = "keyschedule" -> [blocks |-> 1, invs |-> ScheduleInverses(e.keyLen)]
    [] e.kernel = "encrypt_rounds" -> [blocks |-> 1, invs |-> EncryptInverses(e.keyLen)]
    [] e.kernel = "encrypt" -> [blocks |-> 1, invs |-> AesInverses(e.keyLen)]
    [] e.kernel = "cmac" -> [blocks |-> CmacCalls(param),
                             invs |-> CmacCalls(param) * AesInverses(e.keyLen)]

Gadgets == [sbox |-> "sub_bytes", keyschedule |-> "expand_key", encrypt_rounds |-> "encrypt_rk",
            encrypt |-> "aes", cmac |-> "cmac"]

\* The arguments of a gadget cut out of those of a call, wires or bytes.
EntryArgs(e, in) ==
  LET cut == IF e.kernel = "encrypt_rounds" THEN Len(in) - BlockBytes ELSE e.keyLen
  IN  IF e.kernel \in {"sbox", "keyschedule"} THEN <<in>>
      ELSE <<SubSeq(in, 1, cut), SubSeq(in, cut + 1, Len(in))>>

\* in: the wires of the arguments in the order of the signature
InlineEntry(c, e, in) == Emit(Gadgets[e.kernel], c, EntryArgs(e, in))

-----------------------------------------------------------------------------
(* Entries with a node hash, named in brackets at the call.  Parameters    *)
(* are numbered from 1; a length is a parameter, a node, or a node for     *)
(* each level.                                                             *)

Param(k) == [kind |-> "param", value |-> k]
PerLevel == [kind |-> "depth_times_node", value |-> 0]
OneNode  == [kind |-> "node", value |-> 0]

HashEntry(ins, mins, depth, leaf, out) ==
  [ins |-> ins, mins |-> mins, depth |-> depth, leaf |-> leaf, out |-> out,
   maxs |-> [k \in 1..Len(mins) |-> IF k = depth THEN DepthMax ELSE ParamMax]]
HashRegistry ==
  [ path_secret      |-> HashEntry(<<Param(2), PerLevel, Param(1)>>, <<1, 0>>, 1, 2, TRUE),
    nonmember_secret |-> HashEntry(<<Param(1), Param(1), Param(1), Param(2), PerLevel, Param(3),
                                     OneNode>>, <<1, 1, 1>>, 3, 1, FALSE),
    ring_sig         |-> HashEntry(<<Param(1), Param(2), PerLevel, OneNode>>, <<0, 1>>, 2, 1, FALSE) ]

\* The width of the leaf: an absence proof hashes two values and an index.
LeafWidth(e, params) ==
  IF Len(e.mins) = 3 THEN 2 * params[1] + params[2] ELSE params[e.leaf]
LeafAdmitted(e, h, params) ==
  FixedLeafBytes(h) # 0 => LeafWidth(e, params) = FixedLeafBytes(h)

ArgLen(e, h, params, i) ==
  CASE e.ins[i].kind = "param" -> params[e.ins[i].value]
    [] e.ins[i].kind = "depth_times_node" -> params[e.depth] * NodeBytes(h)
    [] e.ins[i].kind = "node" -> NodeBytes(h)

HashCost(e, h, params) ==
  [blocks |-> 1 + params[e.depth],
   invs |-> LeafInverses(h, LeafWidth(e, params)) + params[e.depth] * InodeInverses(h)]

\* The arguments of a call cut out of its wires.
Parts(e, h, params, in) ==
  LET start[i \in 1..(Len(e.ins) + 1)] ==
        IF i = 1 THEN 0 ELSE start[i - 1] + ArgLen(e, h, params, i - 1)
  IN  [i \in 1..Len(e.ins) |-> SubSeq(in, start[i] + 1, start[i + 1])]

InlineHash(c, name, h, params, in) ==
  Emit(name, c, <<h>> \o Parts(HashRegistry[name], h, params, in))
=============================================================================
