----------------------------- MODULE Dispersal -----------------------------
(***************************************************************************)
(* Dispersal and retrieval of a file: the Reed-Solomon codec (erasure/rs.c),*)
(* the storage nodes that lose and repair chunks, and the retriever         *)
(* (erasure/rs_retriever.c, rs_consistency.c) as an application drives it:  *)
(* it holds a trusted R, fetches a descriptor, is offered chunk packets in  *)
(* any order, and rebuilds and checks the file.                             *)
(***************************************************************************)
EXTENDS Dataset, Matrix

CONSTANTS
  Datasets,       \* the names of the published datasets
  Published,      \* per name: [cr, kind, fwk, meta, root, message, chunks]
  Descriptors,    \* per name: the descriptors an application may be handed
  Packets,        \* per name and mode: the packets it may be offered
  Genuine,        \* per name, mode and index: the packet of that chunk
  TreeMaxCapacity,\* VOLEITH_RS_TREE_MAX_CAPACITY
  MaxLosses       \* how many chunks the storage nodes lose

VARIABLES
  trusted,        \* the dataset whose R the application was given
  kind,           \* the generator the application believes was used
  session,        \* "start", "refused", "open"
  desc,           \* the descriptor of the last fetch
  r,              \* voleith_rs_retriever_t
  nodes,          \* per index, the chunk its storage node holds, or None
  losses,
  rebuilt,        \* whether the retriever was asked to decode
  verdict         \* what the consistency check said: "none", "ok", "verify"

vars == <<trusted, kind, session, desc, r, nodes, losses, rebuilt, verdict>>

None == <<>>
Pub == Published[trusted]
TrustedR == ComputeR(Pub.root, Pub.meta)

-----------------------------------------------------------------------------
(* The codec.  A chunk is a sequence of symbols, a message or a codeword a  *)
(* function from chunk numbers.                                             *)

CodecFails == [n |-> 0]
CodecInit(n, k, gen) ==
  IF GeneratorExists(gen, n, k) THEN [n |-> n, k |-> k, g |-> Generator(gen, n, k)]
  ELSE CodecFails

EncodeRow(rs, row, message) ==
  [c \in 1..Len(message[0]) |->
     Dot(rs.g[row], [j \in Upto(rs.k) |-> message[j][c]], Upto(rs.k))]
Encode(rs, message) == [i \in Upto(rs.n) |-> EncodeRow(rs, i, message)]

\* Mutant of Decode: the rows are taken in the order of their numbers.
DecodeSorted(rs, idx, chunks) ==
  LET sorted == SetToSortSeq({idx[i] : i \in 1..rs.k}, <)
      inv == Invert(SelectRows(rs.g, sorted))
  IN  IF Len(idx) < rs.k \/ inv.singular THEN None
      ELSE [i \in Upto(rs.k) |->
              [c \in 1..Len(chunks[1]) |->
                 Dot(inv.inv[i], [j \in Upto(rs.k) |-> chunks[j + 1][c]], Upto(rs.k))]]

\* The first k chunks, their rows of the generator inverted.
Decode(rs, idx, chunks) ==
  LET inv == Invert(SelectRows(rs.g, SubSeq(idx, 1, rs.k)))
  IN  IF Len(idx) < rs.k \/ inv.singular THEN None
      ELSE [i \in Upto(rs.k) |->
              [c \in 1..Len(chunks[1]) |->
                 Dot(inv.inv[i], [j \in Upto(rs.k) |-> chunks[j + 1][c]], Upto(rs.k))]]

RepairChunk(rs, idx, chunks, missing) ==
  LET message == Decode(rs, idx, chunks)
  IN  IF missing >= rs.n \/ message = None THEN None ELSE EncodeRow(rs, missing, message)

-----------------------------------------------------------------------------
NoRetriever == [cr |-> 0]

\* voleith_rs_retriever_init, with the profile of the parsed metadata.
RetrieverInit(d, R, secret) ==
  IF /\ d.meta.cr \in DOMAIN Width
     /\ d.meta.n # 0 /\ d.meta.k # 0 /\ d.meta.k <= d.meta.n
     /\ d.meta.n <= TreeMaxCapacity
     /\ R.cr = d.meta.cr
     /\ d.meta.chunkSize # 0
  THEN [cr |-> d.meta.cr, secret |-> secret, n |-> d.meta.n, k |-> d.meta.k,
        chunkBytes |-> d.meta.chunkSize, root |-> d.root, R |-> R, meta |-> d.meta,
        fwk |-> Pub.fwk, seen |-> {}, idx |-> <<>>, chunks |-> <<>>, distinct |-> 0]
  ELSE NoRetriever

\* What a verified packet is a chunk of: its index, or NoIndex when rejected.
IndexOf(p, cert, siblings, public) ==
  LET digest == ChunkDigest(r.cr, p.chunk)
      genuine == CertVerify(cert, r.cr, r.n, r.secret, IF r.secret THEN 0 ELSE public,
                            digest, r.root, r.meta, r.R)
  IN  CASE ~ genuine -> NoIndex
        [] genuine /\ ~ r.secret -> public
        [] OTHER -> RecoverIndex(r.fwk, r.root, r.n, digest, siblings)

\* The packet's header is parsed and its R compared before it is offered.
Readable(p) ==
  LET consumed == HeaderParse(r.cr, p)
  IN  consumed # 0 /\ p.R = r.R /\ p.len - consumed = r.chunkBytes

Kept(i, chunk) ==
  LET first(s, x) == IF r.distinct < r.k THEN Append(s, x) ELSE s
  IN  [[[[r EXCEPT !.seen = @ \cup {i}] EXCEPT !.idx = first(@, i)]
         EXCEPT !.chunks = first(@, chunk)] EXCEPT !.distinct = @ + 1]

\* Mutant of Offered: the index is marked before the packet is verified.
OfferedMarked(p, siblings, public) ==
  LET i == IF Readable(p) THEN IndexOf(p, p.cert, siblings, public) ELSE NoIndex
      marked == [r EXCEPT !.seen = @ \cup {public}]
  IN  IF i = NoIndex \/ i >= r.n \/ i \in r.seen THEN marked ELSE Kept(i, p.chunk)

\* voleith_rs_retriever_offer: rejected and duplicate packets change nothing.
Offered(p, siblings, public) ==
  LET i == IF Readable(p) THEN IndexOf(p, p.cert, siblings, public) ELSE NoIndex
  IN  IF i = NoIndex \/ i >= r.n \/ i \in r.seen THEN r ELSE Kept(i, p.chunk)

HaveEnough == r.distinct >= r.k

-----------------------------------------------------------------------------
Init ==
  /\ trusted \in Datasets
  /\ kind \in {"cauchy", "vandermonde"}
  /\ session = "start" /\ desc = None /\ r = NoRetriever
  /\ nodes = Published[trusted].chunks /\ losses = 0
  /\ rebuilt = FALSE /\ verdict = "none"

\* The descriptor is parsed and, by a careful application, its R compared; the
\* retriever's tables may be refused, and it is freed again.
Fetch(buf, checked, secret) ==
  /\ session # "open"
  /\ \E d \in {DescriptorParse(buf)} :
       r' \in {NoRetriever} \cup
               (IF d.ok /\ (checked => ParseComputeR(buf) = TrustedR)
                THEN {RetrieverInit(d, TrustedR, secret)} ELSE {})
  /\ session' = IF r' = NoRetriever THEN "refused" ELSE "open"
  /\ desc' = IF r' = NoRetriever THEN None ELSE buf
  /\ UNCHANGED <<trusted, kind, nodes, losses, rebuilt, verdict>>

Offer(o) ==
  /\ session = "open"
  /\ ~ rebuilt
  /\ r' = Offered(o.packet, o.siblings, o.index)
  /\ UNCHANGED <<trusted, kind, session, desc, nodes, losses, rebuilt, verdict>>

\* The packet a storage node sends of the chunk it holds.
Sent(p, chunk) == HeaderSerialize(Pub.cr, p.R, p.cert, p.certLen, p.possLen, chunk)

Deliver(i) ==
  /\ session = "open"
  /\ ~ rebuilt
  /\ nodes[i] # None
  /\ LET g == Genuine[trusted, r.secret, i]
     IN  r' = Offered(Sent(g.packet, nodes[i]), g.siblings, g.index)
  /\ UNCHANGED <<trusted, kind, session, desc, nodes, losses, rebuilt, verdict>>

\* voleith_rs_retriever_decode; the chunks it decodes no longer change.
Codec == CodecInit(r.n, r.k, kind)
Message == IF rebuilt THEN Decode(Codec, r.idx, r.chunks) ELSE None
RebuildFile ==
  /\ session = "open"
  /\ ~ rebuilt
  /\ HaveEnough
  /\ GeneratorExists(kind, r.n, r.k)
  /\ rebuilt' = TRUE
  /\ UNCHANGED <<trusted, kind, session, desc, r, nodes, losses, verdict>>

\* Only the first bytes of the message, as many as the file has, are hashed.
FilePart(message, meta) ==
  LET all == FlattenSeq([i \in 1..Cardinality(DOMAIN message) |-> message[i - 1]])
  IN  SubSeq(all, 1, IF meta.fileLen < Len(all) THEN meta.fileLen ELSE Len(all))

\* voleith_rs_check_consistency against the digests the publisher committed.
CheckConsistency ==
  /\ rebuilt
  /\ verdict = "none"
  /\ LET again == Encode(Codec, Message)
         same == \A i \in Upto(r.n) :
                   ChunkDigest(r.cr, again[i]) = ChunkDigest(Pub.cr, Pub.chunks[i])
         whole == r.meta.wfd # Absent =>
                    FileHash(r.cr, FilePart(Message, r.meta)) = r.meta.wfd
     IN  verdict' = IF same /\ whole THEN "ok" ELSE "verify"
  /\ UNCHANGED <<trusted, kind, session, desc, r, nodes, losses, rebuilt>>

Lose(i) ==
  /\ nodes[i] # None
  /\ losses < MaxLosses
  /\ Cardinality({j \in DOMAIN nodes : nodes[j] # None}) > Pub.meta.k
  /\ nodes' = [nodes EXCEPT ![i] = None]
  /\ losses' = losses + 1
  /\ UNCHANGED <<trusted, kind, session, desc, r, rebuilt, verdict>>

\* A node gets its chunk back from any k that are left, in any order.
Repair(i, from) ==
  /\ nodes[i] = None
  /\ \A m \in DOMAIN from : nodes[from[m]] # None
  /\ nodes' = [nodes EXCEPT ![i] =
                 RepairChunk(CodecInit(Pub.meta.n, Pub.meta.k, Pub.kind), from,
                             [m \in DOMAIN from |-> nodes[from[m]]], i)]
  /\ UNCHANGED <<trusted, kind, session, desc, r, losses, rebuilt, verdict>>

Selections(k, S) == {s \in [1..k -> S] : \A a, b \in 1..k : a # b => s[a] # s[b]}

Next ==
  \/ \E buf \in Descriptors[trusted], checked, secret \in BOOLEAN : Fetch(buf, checked, secret)
  \/ /\ session = "open"
     /\ \E o \in Packets[trusted, r.secret] : Offer(o)
  \/ \E i \in DOMAIN nodes : Deliver(i)
  \/ RebuildFile
  \/ CheckConsistency
  \/ \E i \in DOMAIN nodes : Lose(i)
  \/ \E i \in DOMAIN nodes : \E from \in Selections(Pub.meta.k, DOMAIN nodes \ {i}) :
       Repair(i, from)

Spec == Init /\ [][Next]_vars

\* The network keeps delivering the chunks that are held, and the application
\* decodes once it has enough; nothing is assumed of losses, of repairs or of
\* the other packets.
Indices == UNION {DOMAIN Published[t].chunks : t \in Datasets}
Fairness ==
  /\ \A i \in Indices : WF_vars(i \in DOMAIN nodes /\ Deliver(i))
  /\ WF_vars(RebuildFile)

FairSpec == Spec /\ Fairness

-----------------------------------------------------------------------------
\* What the certificate c, sent with these siblings and offered under this
\* index, shows of the dataset t: the index of a chunk, or NoIndex.
ShownBy(t, secret, c, siblings, index) ==
  LET d == Published[t]
      digest == c.instance.digest
  IN  IF ~ CertVerify(c, d.meta.cr, d.meta.n, secret, IF secret THEN 0 ELSE index,
                      digest, d.root, d.meta, ComputeR(d.root, d.meta)) THEN NoIndex
      ELSE IF secret THEN RecoverIndex(d.fwk, d.root, d.meta.n, digest, siblings) ELSE index

\* Certificates are sound and hashes do not collide: what one shows of a chunk
\* of t, in whatever packet it travels, is so.
SoundOffer(t, secret, o) ==
  LET i == ShownBy(t, secret, o.packet.cert, o.siblings, o.index)
  IN  i # NoIndex /\ ~ i >= Published[t].meta.n =>
        /\ i \in DOMAIN Published[t].chunks
        /\ o.packet.cert.instance.digest =
             ChunkDigest(Published[t].meta.cr, Published[t].chunks[i])

\* A descriptor is bytes; a publisher's metadata reads back as it was written.
ASSUME DescriptorAssumption == \A t \in Datasets : \A buf \in Descriptors[t] : buf \in Seq(Nat)
ASSUME PublishedAssumption ==
  \A t \in Datasets : LET m == Published[t].meta IN MetadataParse(Serialize(m)).meta = m
ASSUME CertificateAssumption ==
  \A t \in Datasets, secret \in BOOLEAN :
    /\ \A o \in Packets[t, secret] : SoundOffer(t, secret, o)
    /\ \A i \in DOMAIN Published[t].chunks : SoundOffer(t, secret, Genuine[t, secret, i])

-----------------------------------------------------------------------------
\* CanonicalDescriptor: a session runs only on a descriptor that is exactly
\* what serializing its parsed content gives, with 0 < k <= n, although parse
\* alone takes any n and k and tries two widths (voleith_rs_descriptor_parse,
\* voleith_rs_retriever_init).
CanonicalDescriptor ==
  session = "open" =>
    /\ Serializable(r.meta)
    /\ DescriptorSerialize(r.root, r.meta) = desc

\* Each index is counted once, and the first k stay in the order they came in.
CountedOnce ==
  /\ r.distinct = Cardinality(r.seen)
  /\ Len(r.idx) = (IF r.distinct < r.k THEN r.distinct ELSE r.k)
  /\ \A a \in DOMAIN r.idx : r.idx[a] \in r.seen
  /\ \A a, b \in DOMAIN r.idx : a # b => r.idx[a] # r.idx[b]

\* What is kept at an index is the trusted dataset's chunk of that index.
KeptIsPublished ==
  \A a \in DOMAIN r.idx :
    /\ r.idx[a] \in DOMAIN Pub.chunks
    /\ r.chunks[a] = Pub.chunks[r.idx[a]]

\* AcceptedIsGenuine: whatever descriptor was fetched, checked or not, and in
\* whatever order packets came, were mixed or repeated, a chunk is counted only
\* if the trusted dataset has exactly that chunk at exactly that index, and
\* each index once (voleith_rs_retriever_offer, cert_verify_impl).
AcceptedIsGenuine ==
  session = "open" =>
    /\ CountedOnce
    /\ KeptIsPublished
    /\ r.distinct > 0 => ComputeR(r.root, r.meta) = TrustedR
=============================================================================
