---------------------------- MODULE MCDispersal ----------------------------
(***************************************************************************)
(* Five small datasets over GF(2^3): equal data chunks and a vacant leaf,  *)
(* another file under the same key, a codeword its publisher altered, a    *)
(* single chunk, and the Vandermonde generator under the wider profile.    *)
(***************************************************************************)
EXTENDS Dispersal

MCWidth == 1 :> 2 @@ 2 :> 10

\* The same function with its values worked out once.
Table(f) == f @@ <<>>

\* Injective on the short files here.
MCFileHash(cr, bytes) ==
  <<10 + Len(bytes), FoldLeft(LAMBDA a, b : 8 * a + b, 0, bytes)>>
    \o (IF cr = 1 THEN <<>> ELSE <<9, 9, 9, 9, 9, 9, 9, 9>>)

MCDatasets == {"equal", "other", "altered", "single", "vander"}

Shape(t) ==
  CASE t = "equal"   -> [cr |-> 1, n |-> 3, k |-> 2, gen |-> "cauchy", fwk |-> "w1",
                         file |-> <<<<5>>, <<5>>>>, len |-> 2, wfd |-> TRUE, attr |-> <<1, 2>>, por |-> <<>>]
    [] t = "other"   -> [cr |-> 1, n |-> 3, k |-> 2, gen |-> "cauchy", fwk |-> "w1",
                         file |-> <<<<5>>, <<3>>>>, len |-> 1, wfd |-> TRUE, attr |-> <<>>, por |-> <<>>]
    [] t = "altered" -> [cr |-> 2, n |-> 3, k |-> 2, gen |-> "cauchy", fwk |-> "w2",
                         file |-> <<<<1>>, <<6>>>>, len |-> 2, wfd |-> FALSE, attr |-> <<>>, por |-> <<>>]
    [] t = "single"  -> [cr |-> 1, n |-> 1, k |-> 1, gen |-> "cauchy", fwk |-> "w1",
                         file |-> <<<<2, 7>>>>, len |-> 2, wfd |-> FALSE, attr |-> <<>>, por |-> <<9>>]
    [] OTHER         -> [cr |-> 2, n |-> 4, k |-> 3, gen |-> "vandermonde", fwk |-> "w2",
                         file |-> <<<<4>>, <<0>>, <<7>>>>, len |-> 3, wfd |-> TRUE, attr |-> <<>>, por |-> <<>>]

Roots == "equal" :> 41 @@ "other" :> 42 @@ "altered" :> 43 @@ "single" :> 44 @@ "vander" :> 45

MessageOf(s) == Table([j \in Upto(s.k) |-> s.file[j + 1]])
\* The publisher of the altered dataset stored a wrong symbol in chunk 2.
StoredOf(t, code) == IF t = "altered" THEN [code EXCEPT ![2] = <<Add(@[1], 1)>>] ELSE code
MetaOf(s) ==
  [cr |-> s.cr, chunkSize |-> Len(s.file[1]), fileLen |-> s.len,
   n |-> s.n, k |-> s.k, attr |-> s.attr, por |-> s.por,
   wfd |-> IF s.wfd THEN MCFileHash(s.cr, SubSeq(FlattenSeq(s.file), 1, s.len)) ELSE <<>>]
Committed(s, bytes, meta, message, chunks, digests) ==
  [cr |-> s.cr, kind |-> s.gen, fwk |-> s.fwk, meta |-> meta, root |-> bytes,
   R |-> ComputeR(bytes, meta), message |-> message, chunks |-> chunks,
   digests |-> digests, tree |-> TreeRoot(s.fwk, digests, s.n),
   paths |-> Table([i \in Upto(s.n) |-> <<>> \o SiblingPath(s.fwk, digests, s.n, i)])]
Digested(s, bytes, message, chunks) ==
  Committed(s, bytes, MetaOf(s), message, chunks,
            Table([i \in Upto(s.n) |-> ChunkDigest(s.cr, chunks[i])]))

Publish(t, s) ==
  Digested(s, [b \in 1..MCWidth[s.cr] |-> Roots[t]] \o <<>>, MessageOf(s),
           StoredOf(t, Table(Encode(CodecInit(s.n, s.k, s.gen), MessageOf(s)))))

PublishedTable == Table([t \in MCDatasets |-> Publish(t, Shape(t))])

MCReaches(term, root) ==
  \E d \in {Published[t] : t \in MCDatasets} : d.root = root /\ d.tree = term

-----------------------------------------------------------------------------
(* What the application may be handed.                                      *)

DescriptorOf(d) == DescriptorSerialize(d.root, d.meta)
GenuineDescriptor(t) == DescriptorOf(Published[t])

\* A descriptor whose restriction reads as metadata of the other width.
TwoFaced ==
  LET Hiding(d, e) == DescriptorSerialize(d.root, [d.meta EXCEPT !.wfd = <<>>, !.attr = Serialize(e.meta)])
  IN  Hiding(Published["equal"], Published["altered"])

Edited(buf) ==
  {[buf EXCEPT ![p] = v] : p \in DOMAIN buf, v \in {0, 1, 2, 3, 7, 8}}
    \cup {SubSeq(buf, 1, m) : m \in 1..Len(buf)} \cup {Append(buf, v) : v \in {0, 1}}

Handed(own, all) == all \cup Edited(own) \cup {TwoFaced}
DescriptorTable ==
  Table([t \in MCDatasets |->
           Handed(GenuineDescriptor(t), {GenuineDescriptor(u) : u \in MCDatasets})])

\* Every certificate a holder of the key can make, also with a chunk, a path,
\* a count or an index that do not belong together.
Proves(d, s, n, x, i, j, m) ==
  CertProves(n, s, x,
             [Witness(n, x, d.fwk, d.paths[m]) EXCEPT !.dirs = IndexDirs(j, DepthForN(n))],
             d.digests[i], d.root, d.meta)
Provable(d) ==
  LET I == Upto(d.meta.n)
  IN  {Statement(d.cr, a[2], a[1], a[3], d.R, d.digests[a[4]], d.root) :
         a \in {b \in BOOLEAN \X {d.meta.n, d.meta.n + 1} \X (0..d.meta.n) \X I \X I :
                  \E j \in {b[3], b[5]} : Proves(d, b[1], b[2], b[3], b[4], j, b[5])}}

OfferOf(d, secret, i) ==
  [packet |-> HeaderSerialize(d.cr, d.R,
                Statement(d.cr, d.meta.n, secret, i, d.R, d.digests[i], d.root),
                3, 0, d.chunks[i]),
   siblings |-> IF secret THEN d.paths[i] ELSE <<>>,
   index |-> i]
GenuineTable ==
  Table([x \in MCDatasets \X BOOLEAN \X (0..4) |->
           LET Of(d) == OfferOf(d, x[2], IF x[3] < d.meta.n THEN x[3] ELSE 0)
           IN  Of(Published[x[1]])])

ChunksOf(f) == {f[i] : i \in DOMAIN f}
AllChunks == UNION {ChunksOf(Published[t].chunks) : t \in MCDatasets}

\* A genuine offer and the ones that differ from it in one part.
Mixed(o, d, certs) ==
  {o}
  \cup {[o EXCEPT !.packet.chunk = c] : c \in AllChunks}
  \cup {[o EXCEPT !.packet.cert = c] : c \in certs}
  \cup {[o EXCEPT !.index = x] : x \in 0..(d.meta.n + 1)}
  \cup {[o EXCEPT !.siblings = d.paths[x]] : x \in Upto(d.meta.n)}
  \cup {[o EXCEPT !.packet.len = x] : x \in {3, o.packet.len - 1, o.packet.len + 1}}
  \cup {[o EXCEPT !.packet.flags = 2], [o EXCEPT !.packet.version = 2],
        [o EXCEPT !.packet = HeaderSerialize(d.cr, d.R, @.cert, 3, 2, @.chunk)]}

\* The packets of the dataset, and the first ones of the others, as they are
\* or under this dataset's R.
Offerable(d, s, certs) ==
  UNION {Mixed(OfferOf(d, s, i), d, certs) : i \in Upto(d.meta.n)}
    \cup {OfferOf(Published[u], m, 0) : u \in MCDatasets, m \in BOOLEAN}
    \cup {[OfferOf(Published[u], s, 0) EXCEPT !.packet.R = d.R] : u \in MCDatasets}

PacketTable ==
  LET Of(d, s) == Offerable(d, s, Provable(d))
  IN  Table([x \in MCDatasets \X BOOLEAN |-> Of(Published[x[1]], x[2])])

-----------------------------------------------------------------------------
(* TLC works a definition out once, but a definition put in the place of a  *)
(* constant at every use: each is a name for a worked out one.              *)

MCPublished == PublishedTable
MCDescriptors == DescriptorTable
MCGenuine == GenuineTable
MCPackets == PacketTable

-----------------------------------------------------------------------------
\* DecodesTheFile: with the generator the publisher used an honest codeword
\* decodes to its message from any k chunks in any order; a message that passes
\* the consistency check has the published file bytes, also when the generator
\* was another but a file digest is there; an altered codeword never passes;
\* and a repaired node holds again what was published (rs.c, rs_consistency.c).
DecodesTheFile ==
  /\ rebuilt /\ kind = Pub.kind /\ trusted # "altered" => Message = Pub.message
  /\ verdict = "ok" /\ (kind = Pub.kind \/ Pub.meta.wfd # Absent) =>
       FilePart(Message, r.meta) = FilePart(Pub.message, Pub.meta)
  /\ verdict = "ok" /\ kind = Pub.kind => trusted # "altered"
  /\ verdict = "verify" => kind # Pub.kind \/ trusted = "altered"
  /\ trusted # "altered" => \A i \in DOMAIN nodes : nodes[i] \in {None, Pub.chunks[i]}

\* Rebuilds: once a session is open on the trusted dataset's own descriptor the
\* file is rebuilt, however many packets are mixed, repeated or damaged in
\* between, and although nodes lose chunks, as long as k are left.
Rebuilds ==
  (session = "open" /\ desc = DescriptorSerialize(Pub.root, Pub.meta))
    ~> rebuilt
=============================================================================
