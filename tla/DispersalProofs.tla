--------------------------- MODULE DispersalProofs ---------------------------
(***************************************************************************)
(* Of the retriever, for every set of datasets, descriptors and packets: a *)
(* session runs only on a descriptor that serializes to itself, and only   *)
(* the trusted dataset's chunks are counted, each once.                    *)
(***************************************************************************)
EXTENDS Dispersal, TLAPS, SequenceTheorems, FiniteSetTheorems

-----------------------------------------------------------------------------
(* Reading metadata.                                                       *)

\* Where the reader stands: what it has taken ends at off.
Stages == [ok : BOOLEAN, off : Nat, field : Seq(Nat)]

\* A piece of a sequence, from m to n.
LEMMA PieceFrom ==
  ASSUME NEW buf \in Seq(Nat), NEW m \in Nat, NEW n \in Nat, m >= 1, n <= Len(buf)
  PROVE  /\ SubSeq(buf, m, n) \in Seq(Nat)
         /\ m <= n + 1 => Len(SubSeq(buf, m, n)) = n - m + 1
OBVIOUS

\* A piece of given width, and what it follows.
LEMMA Piece ==
  ASSUME NEW buf \in Seq(Nat), NEW off \in Nat, NEW width \in Nat, off + width <= Len(buf)
  PROVE  /\ SubSeq(buf, off + 1, off + width) \in Seq(Nat)
         /\ Len(SubSeq(buf, off + 1, off + width)) = width
         /\ SubSeq(buf, 1, off) \in Seq(Nat)
         /\ SubSeq(buf, 1, off) \o SubSeq(buf, off + 1, off + width)
              = SubSeq(buf, 1, off + width)
<1>1. Len(buf) \in Nat
  BY LenProperties
<1>2. /\ off + 1 \in Nat /\ off + width \in Nat
      /\ off + 1 >= 1 /\ off + 1 <= off + width + 1 /\ off <= Len(buf)
  BY <1>1
<1>3. /\ SubSeq(buf, off + 1, off + width) \in Seq(Nat)
      /\ Len(SubSeq(buf, off + 1, off + width)) = width
  <2> DEFINE m == off + 1
             n == off + width
  <2>1. m \in Nat /\ n \in Nat /\ m >= 1 /\ n <= Len(buf) /\ m <= n + 1 /\ n - m + 1 = width
    BY <1>2
  <2> HIDE DEF m, n
  <2>2. SubSeq(buf, m, n) \in Seq(Nat) /\ Len(SubSeq(buf, m, n)) = n - m + 1
    BY <2>1, PieceFrom
  <2> QED
    BY <2>1, <2>2 DEF m, n
<1>4. SubSeq(buf, 1, off) \in Seq(Nat)
  BY <1>2, PieceFrom
<1>5. SubSeq(buf, 1, off) \o SubSeq(buf, off + 1, off + width) = SubSeq(buf, 1, off + width)
  BY <1>1, ConcatAdjacentSubSeq
<1> QED
  BY <1>3, <1>4, <1>5

\* What taking a field gives, if there was room for it.
Took(buf, s, present, width, out) ==
  /\ s.ok /\ out \in Stages /\ out.off <= Len(buf)
  /\ present => /\ out.off = s.off + width
                /\ out.field = SubSeq(buf, s.off + 1, s.off + width)
                /\ Len(out.field) = width
  /\ ~ present => out.off = s.off /\ out.field = <<>>

\* Taking a field of a given width.
LEMMA TakenIs ==
  ASSUME NEW buf \in Seq(Nat), NEW s \in Stages, NEW present \in BOOLEAN, NEW width \in Nat,
         s.off <= Len(buf), NEW out, out = Taken(s, present, width, buf), out.ok
  PROVE  Took(buf, s, present, width, out)
<1>1. CASE ~ s.ok \/ ~ present
  <2>1. Taken(s, present, width, buf) = [s EXCEPT !.field = Absent]
    BY <1>1 DEF Taken
  <2>2. <<>> \in Seq(Nat)
    BY EmptySeq
  <2> QED
    BY <1>1, <2>1, <2>2 DEF Stages, Absent, Took
<1>2. CASE s.ok /\ present
  <2>1. Len(buf) \in Nat
    BY LenProperties
  <2>2. Len(buf) - s.off >= width
    BY <1>2, <2>1 DEF Taken, Stages
  <2> DEFINE piece == SubSeq(buf, s.off + 1, s.off + width)
  <2>3. out = [ok |-> TRUE, off |-> s.off + width, field |-> piece]
    BY <1>2, <2>1, <2>2 DEF Taken, Stages
  <2>4. s.off \in Nat /\ s.off + width <= Len(buf) /\ s.off + width \in Nat
    BY <2>1, <2>2 DEF Stages
  <2>5. piece \in Seq(Nat) /\ Len(piece) = width
    BY <2>4, Piece, Zenon
  <2> HIDE DEF piece
  <2>6. /\ out.ok = TRUE /\ out.off = s.off + width /\ out.field = piece
        /\ out \in [ok : BOOLEAN, off : Nat, field : Seq(Nat)]
    BY <2>3, <2>4, <2>5
  <2>7. /\ s.ok /\ out \in Stages /\ out.off <= Len(buf)
        /\ out.off = s.off + width /\ out.field = piece /\ Len(out.field) = width
    BY <1>2, <2>4, <2>5, <2>6 DEF Stages
  <2> QED
    BY <1>2, <2>7, Zenon DEF piece, Took
<1> QED
  BY <1>1, <1>2 DEF Stages

\* What was taken, with the bytes of one more field, is what is taken now.
Glued(buf, s, bytes, present, out) ==
  /\ s.ok /\ out \in Stages /\ out.off <= Len(buf)
  /\ SubSeq(buf, 1, s.off) \o bytes = SubSeq(buf, 1, out.off)
  /\ (out.field # Absent) = present

\* What a field of a given width adds to what was taken.
LEMMA TakenGlues ==
  ASSUME NEW buf \in Seq(Nat), NEW s \in Stages, NEW present \in BOOLEAN,
         NEW width \in Nat, width > 0,
         s.off <= Len(buf), NEW out, out = Taken(s, present, width, buf), out.ok
  PROVE  Glued(buf, s, out.field, present, out)
<1> SUFFICES /\ s.ok /\ out \in Stages /\ out.off <= Len(buf)
             /\ SubSeq(buf, 1, s.off) \o out.field = SubSeq(buf, 1, out.off)
             /\ (out.field # Absent) = present
  BY Zenon DEF Glued
<1> DEFINE piece == SubSeq(buf, s.off + 1, s.off + width)
<1>1. /\ s.ok /\ out \in Stages /\ out.off <= Len(buf)
      /\ present => out.off = s.off + width /\ out.field = piece /\ Len(out.field) = width
      /\ ~ present => out.off = s.off /\ out.field = <<>>
  <2>1. Took(buf, s, present, width, out)
    BY TakenIs, Zenon
  <2> QED
    BY <2>1, Zenon DEF Took
<1>2. s.off \in Nat /\ Len(buf) \in Nat
  BY LenProperties DEF Stages
<1>3. CASE present
  <2>1. s.off + width <= Len(buf)
    BY <1>1, <1>3
  <2>2. SubSeq(buf, 1, s.off) \o piece = SubSeq(buf, 1, s.off + width)
    BY <1>2, <2>1, Piece, Zenon
  <2> HIDE DEF piece
  <2>3. out.field # <<>>
    <3>1. Len(out.field) = width
      BY <1>1, <1>3, Zenon
    <3>2. Len(out.field) # Len(<<>>)
      BY <3>1
    <3> QED
      BY <3>2, Zenon
  <2> QED
    BY <1>1, <1>3, <2>2, <2>3, Zenon DEF Absent
<1>4. CASE ~ present
  <2>1. SubSeq(buf, 1, s.off) \in Seq(Nat)
    BY <1>1, <1>2, <1>4, PieceFrom
  <2>2. SubSeq(buf, 1, s.off) \o <<>> = SubSeq(buf, 1, s.off)
    BY <2>1, ConcatEmptySeq, Zenon
  <2> QED
    BY <1>1, <1>4, <2>2, Zenon DEF Absent
<1> QED
  BY <1>3, <1>4

\* What a field with its length before it adds.
LEMMA PrefixedGlues ==
  ASSUME NEW buf \in Seq(Nat), NEW s \in Stages, NEW present \in BOOLEAN,
         s.off <= Len(buf), NEW out, out = TakenPrefixed(s, present, buf), out.ok
  PROVE  Glued(buf, s, Prefixed(out.field), present, out)
<1> SUFFICES /\ s.ok /\ out \in Stages /\ out.off <= Len(buf)
             /\ SubSeq(buf, 1, s.off) \o Prefixed(out.field) = SubSeq(buf, 1, out.off)
             /\ (out.field # Absent) = present
  BY Zenon DEF Glued
<1> DEFINE l == IF s.ok /\ present /\ Len(buf) > s.off THEN buf[s.off + 1] ELSE 0
           from == [s EXCEPT !.off = IF present THEN @ + 1 ELSE @]
<1>1. s.off \in Nat /\ Len(buf) \in Nat /\ l \in Nat
  BY LenProperties, ElementOfSeq DEF Stages
<1>2. out = IF s.ok /\ present /\ l = 0 THEN [s EXCEPT !.ok = FALSE] ELSE Taken(from, present, l, buf)
  BY DEF TakenPrefixed
<1>3. ~ (s.ok /\ present /\ l = 0)
  BY <1>2 DEF Stages
<1>4. out = Taken(from, present, l, buf)
  BY <1>2, <1>3
<1>5. /\ from \in Stages /\ from.ok = s.ok
      /\ from.off = IF present THEN s.off + 1 ELSE s.off
  BY <1>1 DEF Stages
<1> HIDE DEF l, from
<1>6. CASE present
  <2>1. s.ok /\ l # 0 /\ s.off + 1 <= Len(buf) /\ l = buf[s.off + 1]
    <3>1. s.ok
      BY <1>4, <1>5, <1>6 DEF Taken, Stages
    <3> QED
      BY <1>1, <1>3, <1>6, <3>1 DEF l
  <2>2. from.off <= Len(buf)
    BY <1>5, <1>6, <2>1
  <2> DEFINE piece == SubSeq(buf, from.off + 1, from.off + l)
             whole == SubSeq(buf, s.off + 1, s.off + (l + 1))
  <2>3. /\ out \in Stages /\ out.off <= Len(buf)
        /\ out.off = from.off + l /\ out.field = piece /\ Len(out.field) = l
    <3>1. Took(buf, from, present, l, out)
      BY <1>1, <1>4, <1>5, <2>2, TakenIs, Zenon
    <3> QED
      BY <1>6, <3>1, Zenon DEF Took
  <2> HIDE DEF piece, whole
  <2>a. from.off = s.off + 1
    BY <1>5, <1>6
  <2>b. out.off <= Len(buf) /\ out.off = from.off + l
    BY <2>3, Zenon
  <2>4. out.off = s.off + (l + 1) /\ s.off + (l + 1) <= Len(buf)
    BY <1>1, <2>a, <2>b
  <2>5. whole = <<buf[s.off + 1]>> \o piece
    <3>a. s.off + 1 <= Len(buf)
      BY <2>1, Zenon
    <3>b. s.off + (l + 1) <= Len(buf)
      BY <2>4, Zenon
    <3>1. s.off + 1 \in 1..Len(buf) /\ s.off + (l + 1) \in (s.off + 1)..Len(buf)
      BY <1>1, <3>a, <3>b
    <3>2. from.off + 1 = (s.off + 1) + 1 /\ from.off + l = s.off + (l + 1)
      <4> DEFINE x == s.off
                 z == from.off
      <4>1. x \in Nat /\ l \in Nat /\ z = x + 1
        BY <1>1, <2>a
      <4> HIDE DEF x, z
      <4>2. z + 1 = (x + 1) + 1 /\ z + l = x + (l + 1)
        BY <4>1
      <4> QED
        BY <4>2 DEF x, z
    <3>3. SubSeq(buf, s.off + 1, s.off + (l + 1))
            = <<buf[s.off + 1]>> \o SubSeq(buf, (s.off + 1) + 1, s.off + (l + 1))
      BY <3>1, SubSeqRecursiveFirst, Zenon
    <3> QED
      BY <3>2, <3>3, Zenon DEF piece, whole
  <2>6. out.field # <<>>
    <3>1. Len(out.field) # Len(<<>>)
      BY <1>1, <2>1, <2>3
    <3> QED
      BY <3>1, Zenon
  <2>7. Prefixed(out.field) = whole
    BY <2>1, <2>3, <2>5, <2>6, Zenon DEF Prefixed, Absent
  <2>8. SubSeq(buf, 1, s.off) \o whole = SubSeq(buf, 1, s.off + (l + 1))
    <3>1. l + 1 \in Nat
      BY <1>1
    <3> QED
      BY <1>1, <2>4, <3>1, Piece, ZenonT(60) DEF whole
  <2> QED
    BY <1>6, <2>1, <2>3, <2>4, <2>6, <2>7, <2>8, Zenon DEF Absent
<1>7. CASE ~ present
  <2>1. from.off <= Len(buf)
    BY <1>5, <1>7
  <2>2. /\ s.ok /\ out \in Stages /\ out.off <= Len(buf)
        /\ out.off = s.off /\ out.field = <<>>
    <3>1. from.ok /\ out \in Stages /\ out.off <= Len(buf) /\ out.off = from.off /\ out.field = <<>>
      <4>1. Took(buf, from, present, l, out)
        BY <1>1, <1>4, <1>5, <2>1, TakenIs, Zenon
      <4> QED
        BY <1>7, <4>1, Zenon DEF Took
    <3> QED
      BY <1>5, <1>7, <3>1
  <2>3. SubSeq(buf, 1, s.off) \o <<>> = SubSeq(buf, 1, s.off)
    <3>1. SubSeq(buf, 1, s.off) \in Seq(Nat)
      BY <1>1, PieceFrom
    <3> QED
      BY <3>1, ConcatEmptySeq, Zenon
  <2> QED
    BY <1>7, <2>2, <2>3, Zenon DEF Absent, Prefixed
<1> QED
  BY <1>6, <1>7

\* The flags say which fields are there.
Named(a, b, c) == (IF a THEN 1 ELSE 0) + (IF b THEN 2 ELSE 0) + (IF c THEN 4 ELSE 0)
LEMMA FlagsRead ==
  ASSUME NEW x \in Nat, x <= 7
  PROVE  Named(Has(x, 1), Has(x, 2), Has(x, 4)) = x
BY SMT DEF Has, Named
\* Where a reader may stand that has failed or not.
Standing(buf) == {s \in Stages : s.ok => s.off <= Len(buf)}

LEMMA TakenStands ==
  ASSUME NEW buf \in Seq(Nat), NEW s \in Standing(buf), NEW present \in BOOLEAN,
         NEW width \in Nat, NEW out, out = Taken(s, present, width, buf)
  PROVE  out \in Standing(buf) /\ (out.ok => s.ok)
<1>1. s \in Stages /\ s.ok \in BOOLEAN /\ s = [ok |-> s.ok, off |-> s.off, field |-> s.field]
  BY DEF Standing, Stages
<1>2. <<>> \in Seq(Nat)
  BY EmptySeq
<1>3. CASE ~ s.ok \/ ~ present
  <2>1. out = [s EXCEPT !.field = Absent]
    BY <1>3 DEF Taken
  <2> QED
    BY <1>1, <1>2, <2>1 DEF Standing, Stages, Absent
<1>4. CASE s.ok /\ present /\ Len(buf) - s.off < width
  <2>1. out = [s EXCEPT !.ok = FALSE]
    BY <1>4 DEF Taken
  <2> QED
    BY <1>1, <2>1 DEF Standing, Stages
<1>5. CASE s.ok /\ present /\ ~ Len(buf) - s.off < width
  <2>1. s.off <= Len(buf)
    BY <1>5 DEF Standing
  <2>2. out.ok
    BY <1>5 DEF Taken
  <2>3. Took(buf, s, present, width, out)
    BY <1>1, <2>1, <2>2, TakenIs, Zenon
  <2>4. out \in Stages /\ out.off <= Len(buf)
    BY <2>3, Zenon DEF Took
  <2> QED
    BY <1>5, <2>4, Zenon DEF Standing
<1> QED
  BY <1>3, <1>4, <1>5

LEMMA PrefixedStands ==
  ASSUME NEW buf \in Seq(Nat), NEW s \in Standing(buf), NEW present \in BOOLEAN,
         NEW out, out = TakenPrefixed(s, present, buf)
  PROVE  out \in Standing(buf) /\ (out.ok => s.ok)
<1> DEFINE l == IF s.ok /\ present /\ Len(buf) > s.off THEN buf[s.off + 1] ELSE 0
           from == [s EXCEPT !.off = IF present THEN @ + 1 ELSE @]
<1>1. /\ s \in Stages /\ s.ok \in BOOLEAN /\ s.off \in Nat /\ Len(buf) \in Nat /\ l \in Nat
      /\ s.ok => s.off <= Len(buf)
  BY LenProperties, ElementOfSeq DEF Standing, Stages
<1>2. out = IF s.ok /\ present /\ l = 0 THEN [s EXCEPT !.ok = FALSE] ELSE Taken(from, present, l, buf)
  BY DEF TakenPrefixed
<1>3. CASE s.ok /\ present /\ l = 0
  BY <1>1, <1>2, <1>3 DEF Standing, Stages
<1>4. CASE ~ (s.ok /\ present /\ l = 0)
  <2>0. l \in Nat /\ s \in Stages /\ s.off \in Nat
    BY <1>1
  <2>1. from \in Stages /\ from.ok = s.ok
    <3> HIDE DEF l
    <3> QED
      BY <2>0, SMTT(40) DEF Stages
  <2>2. s.ok => from.off <= Len(buf)
    <3>1. CASE s.ok /\ present
      <4>1. Len(buf) > s.off
        BY <1>4, <3>1
      <4> QED
        BY <1>1, <4>1 DEF Stages
    <3>2. CASE ~ present
      BY <1>1, <3>2 DEF Stages
    <3> QED
      BY <3>1, <3>2
  <2> HIDE DEF l, from
  <2>3. from \in Standing(buf)
    BY <2>1, <2>2 DEF Standing
  <2>4. out = Taken(from, present, l, buf)
    BY <1>2, <1>4
  <2> QED
    BY <1>1, <2>1, <2>3, <2>4, TakenStands, Zenon
<1> QED
  BY <1>3, <1>4

\* What parses to its last byte is what serializing the result gives
\* (voleith_rs_metadata_parse, voleith_rs_metadata_serialize).
LEMMA ParseSerialize ==
  ASSUME NEW buf \in Seq(Nat), NEW p, p = MetadataParse(buf), p.ok, p.consumed = Len(buf)
  PROVE  Serialize(p.meta) = buf
<1> DEFINE first == [ok |-> TRUE, off |-> HeadBytes, field |-> Absent]
           wfd == Taken(first, Has(buf[7], 1), Width[buf[2]], buf)
           attr == TakenPrefixed(wfd, Has(buf[7], 2), buf)
           por == TakenPrefixed(attr, Has(buf[7], 4), buf)
           meta == [cr |-> buf[2], chunkSize |-> buf[3], fileLen |-> buf[4],
                    n |-> buf[5], k |-> buf[6], wfd |-> wfd.field,
                    attr |-> attr.field, por |-> por.field]
           head == <<MetaVersion, buf[2], buf[3], buf[4], buf[5], buf[6], buf[7]>>
<1>1. /\ ~ Len(buf) < HeadBytes /\ buf[1] = MetaVersion /\ buf[2] \in DOMAIN Width
      /\ ~ buf[7] > 7 /\ por.ok
      /\ p = [ok |-> TRUE, consumed |-> por.off, meta |-> meta]
  <2>1. p # Malformed
    BY DEF Malformed
  <2> HIDE DEF wfd, attr, por
  <2> QED
    BY <2>1 DEF MetadataParse, wfd, attr, por, Malformed
<1>2. p.meta = meta /\ por.off = Len(buf)
  BY <1>1
<1>3. Len(buf) \in Nat /\ 7 <= Len(buf) /\ HeadBytes = 7
  BY <1>1, LenProperties DEF HeadBytes
<1>4. /\ first \in Standing(buf) /\ first \in Stages /\ first.off <= Len(buf) /\ first.off = 7
      /\ Width[buf[2]] \in Nat /\ Width[buf[2]] > 0
  BY <1>1, <1>3, EmptySeq, WidthAssumption DEF Standing, Stages, Absent
<1>5. Has(buf[7], 1) \in BOOLEAN /\ Has(buf[7], 2) \in BOOLEAN /\ Has(buf[7], 4) \in BOOLEAN
  BY DEF Has
<1> HIDE DEF first
<1>6. wfd \in Standing(buf)
  BY <1>4, <1>5, TakenStands, Zenon
<1> HIDE DEF wfd
<1>7. attr \in Standing(buf) /\ (attr.ok => wfd.ok)
  BY <1>5, <1>6, PrefixedStands, Zenon
<1> HIDE DEF attr
<1>8. por.ok => attr.ok
  BY <1>5, <1>7, PrefixedStands, Zenon
<1>9. /\ attr \in Stages /\ attr.off <= Len(buf) /\ attr.ok
      /\ wfd \in Stages /\ wfd.off <= Len(buf) /\ wfd.ok
  BY <1>1, <1>6, <1>7, <1>8, Zenon DEF Standing
<1>10. /\ SubSeq(buf, 1, first.off) \o wfd.field = SubSeq(buf, 1, wfd.off)
       /\ (wfd.field # Absent) = Has(buf[7], 1)
  <2>1. Glued(buf, first, wfd.field, Has(buf[7], 1), wfd)
    BY <1>4, <1>5, <1>9, TakenGlues, Zenon DEF wfd
  <2> QED
    BY <2>1, Zenon DEF Glued
<1>11. /\ SubSeq(buf, 1, wfd.off) \o Prefixed(attr.field) = SubSeq(buf, 1, attr.off)
       /\ (attr.field # Absent) = Has(buf[7], 2)
  <2>1. Glued(buf, wfd, Prefixed(attr.field), Has(buf[7], 2), attr)
    BY <1>5, <1>9, PrefixedGlues, Zenon DEF attr
  <2> QED
    BY <2>1, Zenon DEF Glued
<1>12. /\ SubSeq(buf, 1, attr.off) \o Prefixed(por.field) = SubSeq(buf, 1, por.off)
       /\ (por.field # Absent) = Has(buf[7], 4)
  <2>1. Glued(buf, attr, Prefixed(por.field), Has(buf[7], 4), por)
    BY <1>1, <1>5, <1>9, PrefixedGlues, Zenon
  <2> QED
    BY <2>1, Zenon DEF Glued
<1> HIDE DEF por
<1>13. buf[7] \in Nat /\ buf[7] <= 7
  <2>1. 7 \in 1..Len(buf)
    BY <1>3
  <2>2. buf[7] \in Nat
    BY <2>1, ElementOfSeq
  <2> QED
    BY <1>1, <2>2, SMTT(40)
<1>14. Flags(meta) = buf[7]
  <2>1. Flags(meta) = Named(wfd.field # Absent, attr.field # Absent, por.field # Absent)
    BY DEF Flags, Named
  <2>2. Named(Has(buf[7], 1), Has(buf[7], 2), Has(buf[7], 4)) = buf[7]
    BY <1>13, FlagsRead, Zenon
  <2> QED
    BY <1>10, <1>11, <1>12, <2>1, <2>2, Zenon
<1>15. head = SubSeq(buf, 1, 7)
  <2>1. buf[1] = MetaVersion
    BY <1>1
  <2> QED
    BY <1>3, <2>1
<1>16. SubSeq(buf, 1, Len(buf)) = buf
  BY SubSeqFull
<1>17. Serialize(meta) = head \o wfd.field \o Prefixed(attr.field) \o Prefixed(por.field)
  BY <1>14, Zenon DEF Serialize
<1> HIDE DEF head, meta
<1>18. head \o wfd.field = SubSeq(buf, 1, wfd.off)
  BY <1>4, <1>10, <1>15, Zenon
<1>19. head \o wfd.field \o Prefixed(attr.field) \o Prefixed(por.field) = SubSeq(buf, 1, por.off)
  BY <1>11, <1>12, <1>18, Zenon
<1> QED
  BY <1>2, <1>16, <1>17, <1>19, Zenon

\* The numbers of parsed metadata.
LEMMA ParseNumbers ==
  ASSUME NEW buf \in Seq(Nat), NEW p, p = MetadataParse(buf), p.ok
  PROVE  p.meta.n \in Nat /\ p.meta.k \in Nat
<1>1. p # Malformed
  BY DEF Malformed
<1>2. p.meta.n = buf[5] /\ p.meta.k = buf[6] /\ ~ Len(buf) < 7
  BY <1>1 DEF MetadataParse, HeadBytes
<1>3. 5 \in 1..Len(buf) /\ 6 \in 1..Len(buf)
  BY <1>2, LenProperties
<1> QED
  BY <1>2, <1>3, ElementOfSeq

-----------------------------------------------------------------------------
(* Descriptors.                                                            *)

\* What is known of a parsed descriptor.
ReadBack(root, meta, buf) ==
  /\ DescriptorSerialize(root, meta) = buf
  /\ meta = MetadataParse(Serialize(meta)).meta
  /\ meta.n \in Nat /\ meta.k \in Nat

\* A descriptor that parses serializes to the bytes that were parsed
\* (voleith_rs_descriptor_parse, voleith_rs_descriptor_serialize).
LEMMA DescriptorReadsBack ==
  ASSUME NEW buf \in Seq(Nat), NEW d, d = DescriptorParse(buf), d.ok
  PROVE  ReadBack(d.root, d.meta, buf)
<1> DEFINE widths == {x \in {Width[1], Width[2]} : Fits(buf, x)}
           w == CHOOSE x \in widths : TRUE
           rest == SubSeq(buf, w + 1, Len(buf))
           p == MetadataParse(rest)
           root == SubSeq(buf, 1, w)
<1> HIDE DEF widths, w, p, root
<1>1. /\ Cardinality(widths) = 1
      /\ d = [ok |-> TRUE, root |-> root, meta |-> p.meta]
  <2>1. d # Malformed
    BY DEF Malformed
  <2>2. d = IF Cardinality(widths) # 1 THEN Malformed
            ELSE [ok |-> TRUE, root |-> root, meta |-> p.meta]
    BY Zenon DEF DescriptorParse, From, widths, w, p, root
  <2> QED
    BY <2>1, <2>2
<1>2. d.root = root /\ d.meta = p.meta
  BY <1>1
<1>3. w \in {Width[1], Width[2]} /\ Fits(buf, w)
  <2>1. widths # {}
    <3>1. Cardinality({}) = 0
      BY FS_EmptySet, Zenon
    <3>2. Cardinality(widths) # Cardinality({})
      BY <1>1, <3>1
    <3> QED
      BY <3>2, Zenon
  <2>2. w \in widths
    BY <2>1 DEF w
  <2> QED
    BY <2>2 DEF widths
<1>4. w \in Nat /\ Len(buf) \in Nat
  BY <1>3, WidthAssumption, LenProperties
<1>5. Len(buf) > w /\ p.ok /\ p.consumed = Len(buf) - w
  BY <1>3 DEF Fits, From, p
<1> DEFINE more == Len(buf) - w
<1>6. more \in Nat /\ w + more = Len(buf)
  BY <1>4, <1>5
<1>7. /\ rest \in Seq(Nat) /\ Len(rest) = more
      /\ SubSeq(buf, 1, w) \o rest = SubSeq(buf, 1, Len(buf))
  <2> HIDE DEF more
  <2>1. w + more <= Len(buf)
    BY <1>4, <1>6
  <2>2. /\ SubSeq(buf, w + 1, w + more) \in Seq(Nat)
        /\ Len(SubSeq(buf, w + 1, w + more)) = more
        /\ SubSeq(buf, 1, w) \o SubSeq(buf, w + 1, w + more) = SubSeq(buf, 1, w + more)
    BY <1>4, <1>6, <2>1, Piece
  <2> QED
    BY <1>6, <2>2, Zenon
<1>8. p.consumed = Len(rest)
  BY <1>5, <1>7
<1> HIDE DEF rest, more
<1>9. Serialize(p.meta) = rest /\ p.meta.n \in Nat /\ p.meta.k \in Nat
  BY <1>5, <1>7, <1>8, ParseSerialize, ParseNumbers, Zenon DEF p
<1>10. SubSeq(buf, 1, Len(buf)) = buf
  BY SubSeqFull
<1>11. p.meta = MetadataParse(Serialize(p.meta)).meta
  BY <1>9, Zenon DEF p
<1>12. root \o Serialize(p.meta) = buf
  BY <1>7, <1>9, <1>10, Zenon DEF root
<1> QED
  BY <1>2, <1>9, <1>11, <1>12, Zenon DEF ReadBack, DescriptorSerialize
-----------------------------------------------------------------------------
(* The invariant.  A session's metadata reads back as it is written, so a  *)
(* packet that verifies under the trusted R, which commits to root and     *)
(* written metadata, shows that they are the trusted dataset's own.        *)

Chunks == {Pub.chunks[i] : i \in DOMAIN Pub.chunks}

Retrievers ==
  [cr : {r.cr}, secret : BOOLEAN, n : {r.n}, k : Nat, chunkBytes : {r.chunkBytes},
   root : {r.root}, R : {TrustedR}, meta : {r.meta}, fwk : {Pub.fwk},
   seen : {r.seen}, idx : Seq(DOMAIN Pub.chunks), chunks : Seq(Chunks), distinct : Nat]

\* The session's part of the retriever, fixed when it is opened.
OpenedOn ==
  /\ r.cr = r.meta.cr /\ r.n = r.meta.n /\ r.k = r.meta.k
  /\ Serializable(r.meta)
  /\ ReadBack(r.root, r.meta, desc)

RetrieverOK ==
  /\ r \in Retrievers /\ OpenedOn
  /\ IsFiniteSet(r.seen) /\ Len(r.chunks) = Len(r.idx)
  /\ CountedOnce /\ KeptIsPublished
  /\ r.distinct > 0 => ComputeR(r.root, r.meta) = TrustedR

IInv ==
  /\ trusted \in Datasets
  /\ DOMAIN nodes = DOMAIN Pub.chunks
  /\ session = "open" => RetrieverOK

LEMMA InitInv == Init => IInv
<1> SUFFICES ASSUME Init PROVE IInv
  OBVIOUS
<1>1. session # "open" /\ trusted \in Datasets /\ nodes = Pub.chunks
  BY DEF Init, Pub
<1> QED
  BY <1>1 DEF IInv

\* A session that Fetch opens has counted nothing yet.
LEMMA FetchOK ==
  ASSUME IInv, NEW buf \in Descriptors[trusted], NEW checked \in BOOLEAN, NEW secret \in BOOLEAN,
         Fetch(buf, checked, secret)
  PROVE  IInv'
<1>1. /\ trusted' = trusted /\ nodes' = nodes /\ trusted \in Datasets
      /\ DOMAIN nodes = DOMAIN Pub.chunks
  BY DEF Fetch, IInv
<1>2. Pub' = Pub /\ TrustedR' = TrustedR
  BY <1>1 DEF Pub, TrustedR
<1>3. ASSUME session' = "open" PROVE RetrieverOK'
  <2> DEFINE d == DescriptorParse(buf)
  <2>1. /\ r' # NoRetriever /\ desc' = buf
        /\ r' \in {NoRetriever} \cup
                    (IF d.ok /\ (checked => ParseComputeR(buf) = TrustedR)
                     THEN {RetrieverInit(d, TrustedR, secret)} ELSE {})
    BY <1>3 DEF Fetch
  <2> HIDE DEF d
  <2>2. d.ok /\ r' = RetrieverInit(d, TrustedR, secret)
    BY <2>1
  <2>3. /\ d.meta.cr \in DOMAIN Width /\ d.meta.k # 0 /\ d.meta.k <= d.meta.n
        /\ r' = [cr |-> d.meta.cr, secret |-> secret, n |-> d.meta.n, k |-> d.meta.k,
                 chunkBytes |-> d.meta.chunkSize, root |-> d.root, R |-> TrustedR,
                 meta |-> d.meta, fwk |-> Pub.fwk, seen |-> {}, idx |-> <<>>,
                 chunks |-> <<>>, distinct |-> 0]
    BY <2>1, <2>2 DEF RetrieverInit
  <2>4. ReadBack(d.root, d.meta, buf)
    <3>1. buf \in Seq(Nat)
      BY <1>1, DescriptorAssumption
    <3> QED
      BY <2>2, <3>1, DescriptorReadsBack DEF d
  <2>5. d.meta.k \in Nat /\ d.meta.n \in Nat
    BY <2>4 DEF ReadBack
  <2>6. /\ r'.cr = d.meta.cr /\ r'.secret = secret /\ r'.n = d.meta.n /\ r'.k = d.meta.k
        /\ r'.root = d.root /\ r'.meta = d.meta /\ r'.seen = {} /\ r'.idx = <<>>
        /\ r'.chunks = <<>> /\ r'.distinct = 0 /\ r'.chunkBytes = d.meta.chunkSize
    BY <2>3
  <2>7. r' \in Retrievers'
    <3>1. <<>> \in Seq(DOMAIN Pub.chunks) /\ <<>> \in Seq(Chunks)
      BY EmptySeq
    <3> QED
      BY <1>1, <2>3, <2>5, <3>1 DEF Retrievers, Pub, Chunks, TrustedR
  <2>8. OpenedOn'
    BY <2>1, <2>3, <2>4, <2>6 DEF OpenedOn, Serializable
  <2>9. /\ IsFiniteSet(r'.seen) /\ Len(r'.chunks) = Len(r'.idx)
        /\ CountedOnce' /\ KeptIsPublished' /\ ~ r'.distinct > 0
    <3>1. IsFiniteSet({}) /\ Cardinality({}) = 0
      BY FS_EmptySet
    <3>2. Len(<<>>) = 0 /\ DOMAIN <<>> = {}
      OBVIOUS
    <3>3. r'.k # 0 /\ r'.k \in Nat
      BY <2>3, <2>5, <2>6
    <3> QED
      BY <2>6, <3>1, <3>2, <3>3 DEF CountedOnce, KeptIsPublished
  <2> QED
    BY <2>7, <2>8, <2>9 DEF RetrieverOK
<1> QED
  BY <1>1, <1>2, <1>3 DEF IInv, Pub
\* Under the trusted R only the trusted dataset's metadata verifies.
LEMMA SameDataset ==
  ASSUME trusted \in Datasets, OpenedOn, VerifyR(TrustedR, r.root, r.meta)
  PROVE  r.root = Pub.root /\ r.meta = Pub.meta
<1>1. /\ ComputeR(r.root, r.meta) = TrustedR /\ ComputeR(r.root, r.meta) # NoR
  BY DEF VerifyR
<1>2. ComputeR(r.root, r.meta) = [cr |-> r.meta.cr, root |-> r.root, meta |-> Serialize(r.meta)]
  BY <1>1 DEF ComputeR
<1>3. ComputeR(Pub.root, Pub.meta) # NoR
  BY <1>1 DEF TrustedR
<1>4. ComputeR(Pub.root, Pub.meta)
        = [cr |-> Pub.meta.cr, root |-> Pub.root, meta |-> Serialize(Pub.meta)]
  BY <1>3 DEF ComputeR
<1>5. r.root = Pub.root /\ Serialize(r.meta) = Serialize(Pub.meta)
  <2>1. [cr |-> r.meta.cr, root |-> r.root, meta |-> Serialize(r.meta)]
          = [cr |-> Pub.meta.cr, root |-> Pub.root, meta |-> Serialize(Pub.meta)]
    BY <1>1, <1>2, <1>4, Zenon DEF TrustedR
  <2> QED
    BY <2>1
<1>6. r.meta = MetadataParse(Serialize(r.meta)).meta
  BY DEF OpenedOn, ReadBack
<1>7. MetadataParse(Serialize(Pub.meta)).meta = Pub.meta
  BY PublishedAssumption DEF Pub
<1> QED
  BY <1>5, <1>6, <1>7, Zenon

\* What a packet that is not refused shows.
Shown(i, p) ==
  /\ VerifyR(TrustedR, r.root, r.meta)
  /\ i \in DOMAIN Pub.chunks /\ p.chunk = Pub.chunks[i]

LEMMA OfferShows ==
  ASSUME trusted \in Datasets, r \in Retrievers, OpenedOn,
         NEW p, NEW siblings, NEW index,
         SoundOffer(trusted, r.secret, [packet |-> p, siblings |-> siblings, index |-> index]),
         NEW i, i = IndexOf(p, p.cert, siblings, index), i # NoIndex, ~ i >= r.n
  PROVE  Shown(i, p)
<1> DEFINE digest == ChunkDigest(r.cr, p.chunk)
           at == IF r.secret THEN 0 ELSE index
<1>1. r.R = TrustedR /\ r.fwk = Pub.fwk /\ r.cr = r.meta.cr /\ r.n = r.meta.n
  BY DEF Retrievers, OpenedOn
<1>2. /\ CertVerify(p.cert, r.cr, r.n, r.secret, at, digest, r.root, r.meta, TrustedR)
      /\ i = IF r.secret THEN RecoverIndex(r.fwk, r.root, r.n, digest, siblings) ELSE index
  <2>1. r.secret \in BOOLEAN
    BY DEF Retrievers
  <2> QED
    BY <1>1, <2>1 DEF IndexOf
<1>3. VerifyR(TrustedR, r.root, r.meta)
  BY <1>2 DEF CertVerify
<1>4. r.root = Pub.root /\ r.meta = Pub.meta
  BY <1>3, SameDataset
<1>5. p.cert.instance.digest = digest
  <2>1. p.cert = Statement(r.cr, r.n, r.secret, at, TrustedR, digest, r.root)
    BY <1>2 DEF CertVerify
  <2> HIDE DEF digest, at
  <2> QED
    BY <2>1 DEF Statement
<1> DEFINE o == [packet |-> p, siblings |-> siblings, index |-> index]
<1>6. o.packet = p /\ o.siblings = siblings /\ o.index = index
  OBVIOUS
<1>7. i = ShownBy(trusted, r.secret, p.cert, siblings, index)
  <2>1. CertVerify(p.cert, Pub.meta.cr, Pub.meta.n, r.secret, at, p.cert.instance.digest,
                   Pub.root, Pub.meta, ComputeR(Pub.root, Pub.meta))
    BY <1>1, <1>2, <1>4, <1>5, Zenon DEF TrustedR
  <2>2. i = IF r.secret
            THEN RecoverIndex(Pub.fwk, Pub.root, Pub.meta.n, p.cert.instance.digest, siblings)
            ELSE index
    BY <1>1, <1>2, <1>4, <1>5, Zenon
  <2> HIDE DEF digest
  <2> QED
    BY <2>1, <2>2, Zenon DEF ShownBy, Pub
<1>8. /\ i \in DOMAIN Pub.chunks
      /\ p.cert.instance.digest = ChunkDigest(Pub.meta.cr, Pub.chunks[i])
  <2>1. ~ i >= Published[trusted].meta.n
    BY <1>1, <1>4, Zenon DEF Pub
  <2> HIDE DEF o
  <2>2. SoundOffer(trusted, r.secret, o)
    BY DEF o
  <2> QED
    BY <1>6, <1>7, <2>1, <2>2, Zenon DEF SoundOffer, Pub
<1>9. p.chunk = Pub.chunks[i]
  <2>1. ChunkDigest(r.cr, p.chunk) = ChunkDigest(Pub.meta.cr, Pub.chunks[i])
    BY <1>5, <1>8
  <2> QED
    BY <2>1 DEF ChunkDigest
<1> QED
  BY <1>3, <1>8, <1>9 DEF Shown
\* Counting a chunk of the trusted dataset keeps the invariant.
LEMMA KeptOK ==
  ASSUME RetrieverOK, NEW i, NEW chunk, i \in DOMAIN Pub.chunks, chunk = Pub.chunks[i],
         i \notin r.seen, ComputeR(r.root, r.meta) = TrustedR,
         r' = Kept(i, chunk), trusted' = trusted, desc' = desc
  PROVE  RetrieverOK'
<1> DEFINE few == r.distinct < r.k
           idx == IF few THEN Append(r.idx, i) ELSE r.idx
           chunks == IF few THEN Append(r.chunks, chunk) ELSE r.chunks
           seen == r.seen \cup {i}
<1>1. /\ r \in Retrievers /\ r.k \in Nat /\ r.distinct \in Nat
      /\ r.idx \in Seq(DOMAIN Pub.chunks) /\ r.chunks \in Seq(Chunks)
  BY DEF RetrieverOK, Retrievers
<1> HIDE DEF idx, chunks, seen, few
<1>2. r' = [[[[r EXCEPT !.seen = seen] EXCEPT !.idx = idx]
               EXCEPT !.chunks = chunks] EXCEPT !.distinct = r.distinct + 1]
  BY <1>1 DEF Kept, seen, idx, chunks, few, Retrievers
<1>3. /\ r'.seen = seen /\ r'.idx = idx /\ r'.chunks = chunks /\ r'.distinct = r.distinct + 1
      /\ r'.cr = r.cr /\ r'.secret = r.secret /\ r'.n = r.n /\ r'.k = r.k
      /\ r'.chunkBytes = r.chunkBytes /\ r'.root = r.root /\ r'.R = r.R /\ r'.meta = r.meta
      /\ r'.fwk = r.fwk
      /\ r' = [cr |-> r.cr, secret |-> r.secret, n |-> r.n, k |-> r.k,
               chunkBytes |-> r.chunkBytes, root |-> r.root, R |-> r.R, meta |-> r.meta,
               fwk |-> r.fwk, seen |-> seen, idx |-> idx, chunks |-> chunks,
               distinct |-> r.distinct + 1]
  BY <1>1, <1>2 DEF Retrievers
<1>4. /\ IsFiniteSet(r.seen) /\ Len(r.chunks) = Len(r.idx) /\ CountedOnce /\ KeptIsPublished
      /\ OpenedOn
  BY DEF RetrieverOK
<1>5. Pub' = Pub /\ TrustedR' = TrustedR
  BY DEF Pub, TrustedR
<1>6. chunk \in Chunks
  BY DEF Chunks
<1>7. r' \in Retrievers'
  <2>1. idx \in Seq(DOMAIN Pub.chunks) /\ chunks \in Seq(Chunks)
    BY <1>1, <1>6, AppendProperties DEF idx, chunks
  <2>2. r.R = TrustedR /\ r.fwk = Pub.fwk /\ r.secret \in BOOLEAN
    BY <1>1 DEF Retrievers
  <2>3. Chunks' = Chunks
    BY <1>5 DEF Chunks
  <2> HIDE DEF Chunks
  <2> QED
    BY <1>1, <1>3, <1>5, <2>1, <2>2, <2>3 DEF Retrievers
<1>8. OpenedOn'
  BY <1>3, <1>4 DEF OpenedOn, Serializable
<1>9. IsFiniteSet(seen) /\ Cardinality(seen) = Cardinality(r.seen) + 1
  BY <1>4, FS_AddElement DEF seen
<1>10. /\ r.distinct = Cardinality(r.seen)
       /\ Len(r.idx) = (IF few THEN r.distinct ELSE r.k)
       /\ \A a \in DOMAIN r.idx : r.idx[a] \in r.seen
       /\ \A a, b \in DOMAIN r.idx : a # b => r.idx[a] # r.idx[b]
  BY <1>4 DEF CountedOnce, few
<1>11. /\ Len(idx) = (IF r.distinct + 1 < r.k THEN r.distinct + 1 ELSE r.k)
       /\ Len(chunks) = Len(idx)
       /\ \A a \in DOMAIN idx : idx[a] \in seen
       /\ \A a, b \in DOMAIN idx : a # b => idx[a] # idx[b]
       /\ \A a \in DOMAIN idx : idx[a] \in DOMAIN Pub.chunks /\ chunks[a] = Pub.chunks[idx[a]]
  <2>1. CASE ~ few
    <3>1. idx = r.idx /\ chunks = r.chunks
      BY <2>1 DEF idx, chunks
    <3>2. ~ r.distinct + 1 < r.k
      BY <1>1, <2>1 DEF few
    <3> QED
      BY <1>4, <1>10, <2>1, <3>1, <3>2 DEF seen, KeptIsPublished
  <2>2. CASE few
    <3> DEFINE n == Len(r.idx)
    <3>1. n \in Nat /\ n = r.distinct /\ n = Len(r.chunks) /\ DOMAIN r.idx = 1..n
      BY <1>1, <1>4, <1>10, <2>2, LenProperties
    <3>2. /\ Len(idx) = n + 1 /\ Len(chunks) = n + 1 /\ DOMAIN idx = 1..(n + 1)
          /\ idx[n + 1] = i /\ chunks[n + 1] = chunk
          /\ \A a \in 1..n : idx[a] = r.idx[a] /\ chunks[a] = r.chunks[a]
      <4>1. idx = Append(r.idx, i) /\ chunks = Append(r.chunks, chunk)
        BY <2>2 DEF idx, chunks
      <4>2. Append(r.idx, i) \in Seq(DOMAIN Pub.chunks)
        BY <1>1, AppendProperties
      <4> QED
        BY <1>1, <1>6, <3>1, <4>1, <4>2, AppendProperties
    <3>3. \A a \in 1..(n + 1) : a \in 1..n \/ a = n + 1
      BY <3>1
    <3> HIDE DEF n
    <3>4. \A a \in 1..n : /\ r.idx[a] \in r.seen /\ r.idx[a] # i
                          /\ r.idx[a] \in DOMAIN Pub.chunks
                          /\ r.chunks[a] = Pub.chunks[r.idx[a]]
      BY <1>4, <1>10, <3>1 DEF KeptIsPublished
    <3>5. Len(idx) = (IF r.distinct + 1 < r.k THEN r.distinct + 1 ELSE r.k)
      BY <1>1, <2>2, <3>1, <3>2 DEF few
    <3>6. \A a \in DOMAIN idx : idx[a] \in seen
      BY <3>2, <3>3, <3>4 DEF seen
    <3>7. \A a, b \in DOMAIN idx : a # b => idx[a] # idx[b]
      BY <1>10, <3>1, <3>2, <3>3, <3>4
    <3>8. \A a \in DOMAIN idx : idx[a] \in DOMAIN Pub.chunks /\ chunks[a] = Pub.chunks[idx[a]]
      BY <3>2, <3>3, <3>4
    <3> QED
      BY <3>2, <3>5, <3>6, <3>7, <3>8
  <2> QED
    BY <2>1, <2>2
<1>12. CountedOnce' /\ KeptIsPublished'
  BY <1>3, <1>5, <1>9, <1>10, <1>11 DEF CountedOnce, KeptIsPublished
<1>13. ComputeR(r'.root, r'.meta) = TrustedR'
  BY <1>3, <1>5
<1> QED
  BY <1>3, <1>7, <1>8, <1>9, <1>11, <1>12, <1>13 DEF RetrieverOK
\* voleith_rs_retriever_offer: what it counts is shown by the packet.
LEMMA OfferedOK ==
  ASSUME RetrieverOK, trusted \in Datasets, NEW p, NEW siblings, NEW index,
         SoundOffer(trusted, r.secret, [packet |-> p, siblings |-> siblings, index |-> index]),
         r' = Offered(p, siblings, index), trusted' = trusted, desc' = desc
  PROVE  RetrieverOK'
<1> DEFINE i == IF Readable(p) THEN IndexOf(p, p.cert, siblings, index) ELSE NoIndex
<1>1. CASE i = NoIndex \/ i >= r.n \/ i \in r.seen
  <2>1. r' = r
    BY <1>1 DEF Offered
  <2>2. Pub' = Pub /\ TrustedR' = TrustedR
    BY DEF Pub, TrustedR
  <2> QED
    BY <2>1, <2>2 DEF RetrieverOK, Retrievers, Chunks, OpenedOn, Serializable, CountedOnce,
                      KeptIsPublished
<1>2. CASE ~ (i = NoIndex \/ i >= r.n \/ i \in r.seen)
  <2>1. i = IndexOf(p, p.cert, siblings, index)
    BY <1>2
  <2>2. r' = Kept(i, p.chunk)
    BY <1>2 DEF Offered
  <2> HIDE DEF i
  <2>3. r \in Retrievers /\ OpenedOn
    BY DEF RetrieverOK
  <2>4. Shown(i, p)
    BY <1>2, <2>1, <2>3, OfferShows
  <2>5. /\ i \in DOMAIN Pub.chunks /\ p.chunk = Pub.chunks[i]
        /\ ComputeR(r.root, r.meta) = TrustedR
    BY <2>4 DEF Shown, VerifyR
  <2> QED
    BY <1>2, <2>2, <2>5, KeptOK
<1> QED
  BY <1>1, <1>2

LEMMA StepInv == IInv /\ [Next]_vars => IInv'
<1> SUFFICES ASSUME IInv, [Next]_vars PROVE IInv'
  OBVIOUS
<1>0. trusted \in Datasets /\ DOMAIN nodes = DOMAIN Pub.chunks
  BY DEF IInv
<1>1. ASSUME NEW buf \in Descriptors[trusted], NEW checked \in BOOLEAN, NEW secret \in BOOLEAN,
             Fetch(buf, checked, secret)
      PROVE  IInv'
  BY <1>1, FetchOK
<1>2. ASSUME NEW o, session = "open", o \in Packets[trusted, r.secret], Offer(o) PROVE IInv'
  <2>1. /\ RetrieverOK /\ r' = Offered(o.packet, o.siblings, o.index)
        /\ trusted' = trusted /\ desc' = desc /\ nodes' = nodes
    BY <1>2 DEF Offer, IInv
  <2>2. SoundOffer(trusted, r.secret, o)
    <3>1. r.secret \in BOOLEAN
      BY <2>1 DEF RetrieverOK, Retrievers
    <3> QED
      BY <1>0, <1>2, <3>1, CertificateAssumption
  <2> DEFINE q == [packet |-> o.packet, siblings |-> o.siblings, index |-> o.index]
  <2>3. SoundOffer(trusted, r.secret, q)
    <3>1. q.packet = o.packet /\ q.siblings = o.siblings /\ q.index = o.index
      OBVIOUS
    <3> HIDE DEF q
    <3> QED
      BY <2>2, <3>1, Zenon DEF SoundOffer
  <2>4. RetrieverOK'
    BY <1>0, <2>1, <2>3, OfferedOK
  <2> QED
    BY <1>0, <2>1, <2>4 DEF IInv, Pub
<1>3. ASSUME NEW i \in DOMAIN nodes, Deliver(i) PROVE IInv'
  <2> DEFINE g == Genuine[trusted, r.secret, i]
             p == Sent(g.packet, nodes[i])
             q == [packet |-> p, siblings |-> g.siblings, index |-> g.index]
  <2>1. /\ RetrieverOK /\ r' = Offered(p, g.siblings, g.index)
        /\ trusted' = trusted /\ desc' = desc /\ nodes' = nodes
    BY <1>3 DEF Deliver, IInv
  <2>2. SoundOffer(trusted, r.secret, g)
    <3>1. r.secret \in BOOLEAN
      BY <2>1 DEF RetrieverOK, Retrievers
    <3>2. i \in DOMAIN Published[trusted].chunks
      BY <1>0 DEF Pub
    <3> QED
      BY <1>0, <3>1, <3>2, CertificateAssumption
  <2>3. SoundOffer(trusted, r.secret, q)
    <3>1. p.cert = g.packet.cert
      BY DEF Sent, HeaderSerialize
    <3>2. q.packet = p /\ q.siblings = g.siblings /\ q.index = g.index
      OBVIOUS
    <3> HIDE DEF q, p, g
    <3> QED
      BY <2>2, <3>1, <3>2, Zenon DEF SoundOffer
  <2> HIDE DEF p, g
  <2>4. RetrieverOK'
    BY <1>0, <2>1, <2>3, OfferedOK
  <2> QED
    BY <1>0, <2>1, <2>4 DEF IInv, Pub
<1>4. ASSUME UNCHANGED <<trusted, session, desc, r>>, DOMAIN nodes' = DOMAIN nodes PROVE IInv'
  BY <1>4 DEF IInv, RetrieverOK, Retrievers, Chunks, OpenedOn, Serializable, CountedOnce,
              KeptIsPublished, Pub, TrustedR
<1>5. CASE RebuildFile
  BY <1>4, <1>5 DEF RebuildFile
<1>6. CASE CheckConsistency
  BY <1>4, <1>6 DEF CheckConsistency
<1>7. ASSUME NEW i, Lose(i) PROVE IInv'
  BY <1>4, <1>7 DEF Lose
<1>8. ASSUME NEW i, NEW from, Repair(i, from) PROVE IInv'
  BY <1>4, <1>8 DEF Repair
<1>9. CASE UNCHANGED vars
  BY <1>4, <1>9 DEF vars
<1> QED
  BY <1>1, <1>2, <1>3, <1>5, <1>6, <1>7, <1>8, <1>9 DEF Next

-----------------------------------------------------------------------------
\* A session runs only on a descriptor that is exactly what serializing its
\* content gives, with 0 < k <= n, whatever bytes applications are handed
\* (voleith_rs_descriptor_parse, voleith_rs_retriever_init).
THEOREM DescriptorsAreCanonical == Spec => []CanonicalDescriptor
<1>1. IInv => CanonicalDescriptor
  BY DEF IInv, RetrieverOK, OpenedOn, ReadBack, CanonicalDescriptor
<1> QED
  BY <1>1, InitInv, StepInv, PTL DEF Spec

\* If certificates are sound, then whatever descriptor was fetched and in
\* whatever order packets came, only the trusted dataset's chunks are counted,
\* at their indices and once each (voleith_rs_retriever_offer).
THEOREM OnlyGenuineCounted == Spec => []AcceptedIsGenuine
<1>1. IInv => AcceptedIsGenuine
  BY DEF IInv, RetrieverOK, AcceptedIsGenuine
<1> QED
  BY <1>1, InitInv, StepInv, PTL DEF Spec
=============================================================================
