------------------------------ MODULE Envelope ------------------------------
(***************************************************************************)
(* The envelope of a composable signature: a packer that takes sections and *)
(* writes them in one of two framings, and the unpacker (rs_gf8.c).  A wire *)
(* is a header and the cells after it, a length in four of them.  The       *)
(* unpacker reads nothing of a wire too short for its header.               *)
(***************************************************************************)
EXTENDS Integers, Sequences, FiniteSets, SequencesExt

CONSTANTS ProofTag, OpenerTag,   \* the two tags with helpers of their own
          MaxSections            \* sections a packer or unpacker holds

Magic == "VRSC"
Formats  == {0, 1, 2}   \* chosen by what is packed, bare, sectioned
Versions == {1, 2}

Be32(n) == <<n \div 2 ^ 24, (n \div 2 ^ 16) % 256, (n \div 2 ^ 8) % 256, n % 256>>
\* A length whose first byte is set is longer than any wire here.
ReadBe32(c) == IF c[1] >= 64 THEN 2 ^ 30 ELSE c[1] * 2 ^ 24 + c[2] * 2 ^ 16 + c[3] * 2 ^ 8 + c[4]
Overhead == 5           \* a section's tag and length

-----------------------------------------------------------------------------
(* The packer. *)

PackInit(cfg_fp, params_fp, format) ==
  [cfg_fp |-> cfg_fp, params_fp |-> params_fp, format |-> format, sections |-> <<>>]

Tags(p) == {p.sections[i].tag : i \in DOMAIN p.sections}

\* Mutant of NewSection: a tag may be packed again.
NewSectionAgain(p, tag, payload) ==
  IF Len(p.sections) >= MaxSections THEN <<>>
  ELSE <<[p EXCEPT !.sections = Append(@, [tag |-> tag, payload |-> payload])]>>

NewSection(p, tag, payload) ==
  IF Len(p.sections) >= MaxSections \/ tag \in Tags(p) THEN <<>>
  ELSE <<[p EXCEPT !.sections = Append(@, [tag |-> tag, payload |-> payload])]>>

PackProof(p, proof) == NewSection(p, ProofTag, proof)

\* Only a configuration with an opener has a tag to pack.
PackOpener(p, opener_on, tag) == IF opener_on THEN NewSection(p, OpenerTag, tag) ELSE <<>>

PackSection(p, tag, payload) ==
  IF tag \in {ProofTag, OpenerTag} THEN <<>> ELSE NewSection(p, tag, payload)

\* The framing and the cells after the header, if the sections can be written.
Resolve(p) ==
  LET others == Tags(p) \ {ProofTag}
      format == IF p.format # 0 THEN p.format ELSE IF others # {} THEN 2 ELSE 1
      payload(i) == Len(p.sections[i].payload)
      proof == CHOOSE i \in DOMAIN p.sections : p.sections[i].tag = ProofTag
  IN  IF ProofTag \notin Tags(p) \/ (format = 1 /\ others # {}) THEN <<>>
      ELSE <<[format |-> format,
              len |-> IF format = 1 THEN 4 + payload(proof)
                      ELSE FoldFunction(+, 0, [i \in DOMAIN p.sections |-> Overhead + payload(i)])]>>

PackLen(p) == IF Resolve(p) = <<>> THEN 0 ELSE Resolve(p)[1].len

\* A section as it is written: its length before it, and its tag before that.
Framed(s, format) ==
  (IF format = 1 THEN <<>> ELSE <<s.tag>>) \o Be32(Len(s.payload)) \o s.payload
Written(sections, format) ==
  LET cells[n \in 0..Len(sections)] ==
        IF n = 0 THEN <<>> ELSE cells[n - 1] \o Framed(sections[n], format)
  IN  cells[Len(sections)]

\* The buffer must be exactly as long as the packer said.
PackFinal(p, out_len) ==
  LET r == Resolve(p)
  IN  IF r = <<>> \/ out_len # r[1].len THEN <<>>
      ELSE <<[magic |-> Magic, version |-> r[1].format, cfg_fp |-> p.cfg_fp,
              params_fp |-> p.params_fp, body |-> Written(p.sections, r[1].format)]>>

-----------------------------------------------------------------------------
(* The unpacker. *)

Cut(body, from, len) == SubSeq(body, from + 1, from + len)

\* The section at an offset, and where the next begins.
SectionAt(body, off) ==
  IF Len(body) - off < Overhead THEN <<>>
  ELSE LET len == ReadBe32(Cut(body, off + 1, 4))
       IN  IF len > Len(body) - (off + Overhead) THEN <<>>
           ELSE <<[tag |-> body[off + 1], payload |-> Cut(body, off + Overhead, len),
                   next |-> off + Overhead + len]>>

\* What has been read after so many sections; "fail" when one could not be.
Sections(body) ==
  LET read[n \in 0..(MaxSections + 1)] ==
        IF n = 0 THEN [ok |-> TRUE, off |-> 0, secs |-> <<>>]
        ELSE LET r == read[n - 1]
                 s == SectionAt(body, r.off)
             IN  IF ~ r.ok \/ r.off >= Len(body) THEN r
                 ELSE IF \/ s = <<>>
                         \/ n > MaxSections
                         \/ \E k \in DOMAIN r.secs : r.secs[k].tag = s[1].tag
                      THEN [r EXCEPT !.ok = FALSE]
                 ELSE [ok |-> TRUE, off |-> s[1].next,
                       secs |-> Append(r.secs, [tag |-> s[1].tag, payload |-> s[1].payload])]
  IN  read[MaxSections + 1]

Bare(body) ==
  IF Len(body) < 4 \/ Len(body) # 4 + ReadBe32(Cut(body, 0, 4)) THEN <<>>
  ELSE <<<<[tag |-> ProofTag, payload |-> Cut(body, 4, Len(body) - 4)]>>>>

Sectioned(body) ==
  LET r == Sections(body)
  IN  IF r.ok /\ \E k \in DOMAIN r.secs : r.secs[k].tag = ProofTag THEN <<r.secs>> ELSE <<>>

\* The sections of a wire, if it was packed for this configuration and these
\* parameters and is whole.
Unpack(wire, cfg_fp, params_fp) ==
  IF \/ wire.magic # Magic
     \/ wire.version \notin Versions
     \/ wire.cfg_fp # cfg_fp
     \/ wire.params_fp # params_fp
  THEN <<>> ELSE IF wire.version = 1 THEN Bare(wire.body) ELSE Sectioned(wire.body)

Find(sections, tag) ==
  LET at == {k \in DOMAIN sections : sections[k].tag = tag}
  IN  IF at = {} THEN <<>> ELSE <<sections[CHOOSE k \in at : TRUE].payload>>

\* The two calls for a signature with nothing but its proof.
SigPack(proof, cfg_fp, params_fp, out_len) ==
  LET p == PackProof(PackInit(cfg_fp, params_fp, 1), proof)
  IN  IF p = <<>> THEN <<>> ELSE PackFinal(p[1], out_len)
SigUnpack(wire, cfg_fp, params_fp) ==
  LET u == Unpack(wire, cfg_fp, params_fp)
  IN  IF u = <<>> THEN <<>> ELSE Find(u[1], ProofTag)
=============================================================================
