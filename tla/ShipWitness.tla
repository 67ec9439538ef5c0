---------------------------- MODULE ShipWitness ----------------------------
(***************************************************************************)
(* From the inputs a caller holds to the whole witness of a parsed program *)
(* (parsers/shipshape_witness.c): the circuit is evaluated wire by wire,   *)
(* and the witness words nobody supplies are field inverses.  For a call   *)
(* of the registry a backend may supply them at once                       *)
(* (shipshape_witgen_dispatch.c); the backends of the library              *)
(* (shipshape_witgen_aes.c, _cmac_grostl.c, _construction.c) compute them  *)
(* from the bytes of the call.                                             *)
(***************************************************************************)
EXTENDS ShipShape

CONSTANTS Capacity,   \* WITGEN_DISPATCH_CAPACITY
          Requests(_, _),   \* what a caller may ask for, given the text and what it parsed to
          Registering(_, _),   \* whether more is registered, given the text and the table
          Backends          \* what may be registered besides the families, by name

VARIABLES table,      \* the registered backends: [name, keyed, hash, fn]
          outcome,    \* of the last registration
          request,    \* the last request: [given, ext, inst, check]
          generated   \* what was returned: [code, out]

witVars == <<table, outcome, request, generated>>

NoRequest == [given |-> FALSE, ext |-> <<>>, inst |-> <<>>, check |-> FALSE]
WitInit ==
  /\ table = <<>> /\ outcome = "none"
  /\ request = NoRequest /\ generated = [code |-> "none", out |-> <<>>]

-----------------------------------------------------------------------------
(* Backends.  fn names the entry whose backend it is, or is "faulty".      *)

\* A name of the registry alone, or with a hash in brackets.
BackendName(entry, hash) == [entry |-> entry, hash |-> hash]
NameOf(g) == BackendName(g.name, g.hash)

Refusal == [ok |-> FALSE, inv |-> <<>>]
Filled(g, want, inv) == IF g.count = want THEN [ok |-> TRUE, inv |-> inv] ELSE Refusal

\* Backends of the entries of fixed shape and of CMAC.
NativeFixed(e, g, ext) ==
  IF Len(ext) # FoldLeft(LAMBDA s, l : s + l, 0, InLens(e)) THEN Refusal
  ELSE Filled(g, Cost(e, 0).invs, Compute(Gadgets[e.kernel], EntryArgs(e, ext)).inv)

NativeCmac(e, g, ext) ==
  IF Len(ext) < e.keyLen THEN Refusal
  ELSE Filled(g, CmacCalls(Len(ext) - e.keyLen) * AesInverses(e.keyLen),
              Compute("cmac", EntryArgs(e, ext)).inv)

\* The leaf, then the levels of the path; any direction but zero is to the right.
SiblingAt(h, siblings, k) == SubSeq(siblings, ((k - 1) * NodeBytes(h)) + 1, k * NodeBytes(h))
Above(t, node) == [inv |-> t.inv \o node.inv, out |-> node.out]
Children(h, t, sib, dir) == IF dir = {} THEN <<h, t.out, sib>> ELSE <<h, sib, t.out>>
ComposeLeafInodes(h, leaf, siblings, dirs) ==
  Over(LAMBDA t, k : Above(t, Compute("inode", Children(h, t, SiblingAt(h, siblings, k), dirs[k]))),
       Compute("leaf", <<h, leaf>>), [k \in 1..Len(dirs) |-> k])

NativeConstruction(name, g, ext) ==
  LET e == HashRegistry[name]
      need == FoldLeft(LAMBDA s, i : s + ArgLen(e, g.hash, g.params, i), 0,
                       [i \in 1..Len(e.ins) |-> i])
      a == Parts(e, g.hash, g.params, ext)
      span == LeafInverses(g.hash, LeafWidth(e, g.params))
                + g.params[e.depth] * InodeInverses(g.hash)
      path == CASE name = "path_secret" -> <<a[1], a[2], a[3]>>
                [] name = "nonmember_secret" -> <<(a[2] \o a[3]) \o a[4], a[5], a[6]>>
                [] name = "ring_sig" -> <<a[1], a[3], a[2]>>
  IN  IF Len(ext) < need THEN Refusal
      ELSE Filled(g, span, ComposeLeafInodes(g.hash, path[1], path[2], path[3]).inv)

Native(name, g, ext) ==
  IF name \in DOMAIN HashRegistry THEN NativeConstruction(name, g, ext)
  ELSE IF Parametric(Registry[name]) THEN NativeCmac(Registry[name], g, ext)
  ELSE NativeFixed(Registry[name], g, ext)

\* Of a faulty one nothing is known but that it fills the span.
Run(fn, g, ext) ==
  IF fn = "faulty" THEN [ok |-> TRUE, inv |-> [k \in 1..g.count |-> Top]]
  ELSE Native(fn, g, ext)

-----------------------------------------------------------------------------
(* The table.                                                              *)

Fixed(name) == name \in DOMAIN Registry /\ ~ Parametric(Registry[name])

\* The conditions of the three ways to register.
Registrable(b) ==
  CASE b.keyed = "hash" -> TRUE
    [] b.keyed = "name" -> b.name.entry \in DOMAIN Registry /\ Parametric(Registry[b.name.entry])
    [] b.keyed = "construction" ->
         b.name.entry \in DOMAIN HashRegistry /\ b.name.hash \in HashTypes
Accepted(t, b) == Len(t) < Capacity /\ Registrable(b)

\* Entries are added in order until one is refused; those before it stay.
RegisterAll(t, bs) ==
  LET fits == Max({n \in 0..Len(bs) : \A k \in 1..n : Len(t) + k <= Capacity /\ Registrable(bs[k])})
  IN  [table |-> t \o SubSeq(bs, 1, fits), ok |-> fits = Len(bs)]

Backend(keyed, entry, hash, fn) ==
  [name |-> BackendName(entry, hash), keyed |-> keyed, hash |-> TRUE, fn |-> fn]
FixedNames == <<"sbox", "keyschedule_128", "encrypt_rounds_128", "encrypt_128",
                "keyschedule_256", "encrypt_rounds_256", "encrypt_256">>
AesFamily == [k \in 1..Len(FixedNames) |->
                Backend("hash", FixedNames[k], "none", FixedNames[k])]
CmacFamily == <<Backend("name", "cmac_aes_128", "none", "cmac_aes_128"),
                Backend("name", "cmac_aes_256", "none", "cmac_aes_256")>>
ConstructionFamily ==
  LET Of(name) == <<Backend("construction", name, "aes_dm", name),
                    Backend("construction", name, "hirose_fixed_32", name)>>
  IN  (Of("path_secret") \o Of("ring_sig")) \o Of("nonmember_secret")

\* The hash of a backend of a fixed entry must be that of the registry; TRUE
\* stands for it.
Matches(b, g) ==
  /\ b.name = NameOf(g)
  /\ IF g.hash # "none" THEN b.keyed = "construction"
     ELSE IF Fixed(g.name) THEN b.keyed = "hash" /\ b.hash
     ELSE b.keyed = "name" /\ g.name \in DOMAIN Registry

\* voleith_shipshape_witgen_lookup: the first that matches; "none" if none does
Lookup(t, g) ==
  LET found == {k \in DOMAIN t : Matches(t[k], g)}
  IN  IF found = {} THEN "none" ELSE t[Min(found)].fn

-----------------------------------------------------------------------------
(* Generation.                                                             *)

ExternalWires(p) ==
  UNION {Range(d.wires) : d \in {d \in Range(p.decls) : d.decl = "witness"}}

\* The third operand of the first product whose second is w.
InvSources(c, w) == {k \in DOMAIN c.cons : c.cons[k].kind = "product" /\ c.cons[k].b = w}

\* Regions with a backend that no larger region with one encloses.
Encloses(s, r) ==
  s.count > r.count /\ s.first <= r.first /\ s.first + s.count >= r.first + r.count
Outermost(p, fns) ==
  {k \in DOMAIN p.regions :
     /\ fns[k] # "none"
     /\ ~ \E j \in DOMAIN p.regions \ {k} :
            fns[j] # "none" /\ Encloses(p.regions[j], p.regions[k])}

\* State s and the word of a witness wire w: supplied, filled by a backend at
\* the first slot of its region, or an inverse.
Invoke(p, fns, s, k) ==
  LET g == p.regions[k]
      Filling(r) ==
        IF ~ r.ok THEN [s EXCEPT !.code = "CONSTRAINT"]
        ELSE [s EXCEPT !.full = [i \in DOMAIN @ |->
                                   IF i \in (g.first + 1)..(g.first + g.count)
                                   THEN r.inv[i - g.first] ELSE @[i]]]
  IN  Then(Run(fns[k], g, [i \in 1..Len(g.inputs) |-> s.values[g.inputs[i] + 1]]), Filling)

WitnessWord(p, fns, outer, ext, s, w) ==
  LET slot == s.slot
      At(k) == p.regions[k].first = slot
      Spans(k) == slot \in p.regions[k].first..(p.regions[k].first + p.regions[k].count - 1)
      here == {k \in outer : At(k)}
      sources == InvSources(p.circuit, w)
      Store(t, v) == [t EXCEPT !.values[w + 1] = v, !.full[slot + 1] = v, !.slot = @ + 1]
      Derived(run) ==
        IF run.code # "ok" THEN run
        ELSE IF \E k \in outer : Spans(k) THEN Store(run, run.full[slot + 1])
        ELSE IF sources = {} THEN [run EXCEPT !.code = "UNRESOLVED"]
        ELSE Store(run, FieldInverse(run.values[p.circuit.cons[Min(sources)].c + 1]))
  IN  IF w \in ExternalWires(p) THEN Store([s EXCEPT !.used = @ + 1], ext[s.used + 1])
      ELSE Then(IF here = {} THEN s ELSE Invoke(p, fns, s, Max(here)), Derived)

\* voleith_shipshape_witness_gen with the backends of t.
SelfCheck(c, values) == \A k \in DOMAIN c.cons : HoldsConstraint(c.cons[k], values)

Evaluate(p, fns, outer, inst, ext, s, w) ==
  IF s.code # "ok" THEN s
  ELSE IF p.circuit.wires[w + 1].kind = "witness" THEN WitnessWord(p, fns, outer, ext, s, w)
  ELSE [s EXCEPT !.values[w + 1] = WireWord(p.circuit, <<>>, inst, s.values, w)]

WitnessGen(p, t, q) ==
  LET c == p.circuit
      fns == [k \in DOMAIN p.regions |-> Lookup(t, p.regions[k])]
      outer == Outermost(p, fns)
      inst == [i \in 0..(c.nInstance - 1) |-> q.inst[i + 1]]
      start == [code |-> "ok", values |-> Zeros(Len(c.wires)), full |-> Zeros(c.nWitness),
                slot |-> 0, used |-> 0]
      Stretch(s, n) == Over(LAMBDA u, w : Evaluate(p, fns, outer, inst, q.ext, u, w), s,
                            [k \in 1..Min({32, Len(c.wires) - 32 * n}) |-> (32 * n + k) - 1])
      refused == Err(~ q.given, "NULL_ARG")
                   ?? Err(Len(q.ext) # Cardinality(ExternalWires(p)), "EXT_LEN")
                   ?? Err(Len(q.inst) # c.nInstance, "INSTANCE_LEN")
      Checked(pass) ==
        IF pass.code # "ok" THEN [code |-> pass.code, out |-> <<>>]
        ELSE IF q.check /\ ~ SelfCheck(c, pass.values) THEN [code |-> "CONSTRAINT", out |-> <<>>]
        ELSE [code |-> "ok", out |-> pass.full]
  IN  IF refused # "none" THEN [code |-> refused, out |-> <<>>]
      ELSE Then(Over(Stretch, start, [n \in 1..((Len(c.wires) + 31) \div 32) |-> n - 1]), Checked)

-----------------------------------------------------------------------------
\* One request is made of a program, of a table filled before.
Idle == result = "accepted" /\ request = NoRequest /\ UNCHANGED shipVars

\* The three families of the library, each registered as a whole.
RegisterFamily ==
  /\ Idle /\ Registering(text, table) /\ outcome # "refused"
  /\ \E family \in {AesFamily, CmacFamily, ConstructionFamily} :
       LET r == RegisterAll(table, family)
       IN  table' = r.table /\ outcome' = IF r.ok THEN "ok" ELSE "refused"
  /\ UNCHANGED <<request, generated>>

Register ==
  /\ Idle /\ Registering(text, table) /\ outcome # "refused"
  /\ \E b \in Backends :
       IF Accepted(table, b) THEN table' = Append(table, b) /\ outcome' = "ok"
       ELSE table' = table /\ outcome' = "refused"
  /\ UNCHANGED <<request, generated>>

ResetTable ==
  /\ Idle /\ table # <<>> /\ table' = <<>> /\ outcome' = "none"
  /\ UNCHANGED <<request, generated>>

Generate ==
  /\ Idle
  /\ \E q \in Requests(text, parsed) :
       request' = q /\ generated' = WitnessGen(parsed, table, q)
  /\ UNCHANGED <<table, outcome>>

WitStep == RegisterFamily \/ Register \/ ResetTable \/ Generate
=============================================================================
