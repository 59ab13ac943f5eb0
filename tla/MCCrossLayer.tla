---------------------------- MODULE MCCrossLayer ----------------------------
(***************************************************************************)
(* The cross-layer comparison on addresses of three bits.  ENABLE is a     *)
(* register of two bits at 2, STATUS one at 3 that is only read, RAM is at *)
(* 0 and 1, and there is one CSR.  Sites, primitives and conditions are    *)
(* named by letters.                                                       *)
(***************************************************************************)
EXTENDS CrossLayer

CONSTANTS Machine, User   \* two privileges

-----------------------------------------------------------------------------
(* Catalogs.                                                               *)
Addressed(id, kind, low, high, width, access) ==
  [id |-> id, kind |-> kind, architecture |-> "riscv", low |-> low, high |-> high,
   register |-> Nothing, width |-> width, access |-> access]

ENABLE == Addressed("ENABLE", "MMIO_REGISTER", 2, 2, 2, {"read", "write"})
STATUS == Addressed("STATUS", "MMIO_REGISTER", 3, 3, Nothing, {"read"})
ALIAS  == Addressed("ALIAS", "MMIO_REGISTER", 2, 3, Nothing, {})
RAM    == Addressed("RAM", "MEMORY_REGION", 0, 1, Nothing, {})
MOVED  == Addressed("RAM", "MEMORY_REGION", 0, 2, Nothing, {})
MSTATUS == [id |-> "MSTATUS", kind |-> "CSR", architecture |-> "riscv", low |-> Nothing,
            high |-> Nothing, register |-> "mstatus", width |-> Nothing, access |-> {}]

Catalog(resources) == [architecture |-> "riscv", resources |-> resources]
Main        == Catalog({ENABLE, STATUS, RAM, MSTATUS})
Overlapping == Catalog({ENABLE, STATUS, ALIAS, MSTATUS})
Elsewhere   == Catalog({STATUS, MOVED})
Loose       == Catalog({[ENABLE EXCEPT !.width = Nothing], STATUS, MSTATUS})
Foreign     == [architecture |-> "arm", resources |-> {}]

ASSUME \A catalog \in {Main, Overlapping, Elsewhere, Loose, Foreign} : ValidCatalog(catalog)

-----------------------------------------------------------------------------
(* Static worlds: two sites with one fact each.                            *)
Memory(kind, address, width, value) ==
  [kind |-> kind, status |-> "established", address |-> address, width |-> width, value |-> value,
   register |-> Nothing, target |-> Nothing]
Load(address, width) == Memory("MEMORY_LOAD", address, width, Nothing)
Store(address, width, value) == Memory("MEMORY_STORE", address, width, value)
Csr(kind) == [Memory(kind, Nothing, Nothing, Nothing) EXCEPT !.register = "mstatus"]
Flow(kind, target) == [Memory(kind, Nothing, Nothing, Nothing) EXCEPT !.target = target]

FieldsOf(s, f) == {<<s, x>> : x \in {x \in {"address", "width", "value"} : Stated(f[x])}}
None == [s \in {} |-> Nothing]
By(s, id) == [x \in {s} |-> id]

Frame ==
  [lane |-> "static", architecture |-> "riscv", truth |-> None, learnable |-> {}, start |-> {},
   vague |-> {}, catalogs |-> {}, manuals |-> {None}, accounts |-> {{}}, mmio |-> {2, 3},
   elf |-> "elf", encoding |-> None, capability |-> Nothing]

\* What a run was reviewed for, of a site: `f` is the access that is recorded.
Account(s, f, encoding, elf) ==
  [StaticCapability(s, f, ENABLE, [architecture |-> "riscv", elf |-> elf, encoding |-> By(s, encoding)])
     EXCEPT !.execution = "source_instruction_retired", !.retired = TRUE]

\* Accounts of a store: true ones, with and without the value, one of another
\* firmware, and a false one; two that differ in nothing that is compared.
AccountsOf(s, f) ==
  LET exact == Account(s, f, "stw", "elf")
      other == [exact EXCEPT !.processor = "again"]
  IN  {{}, {exact}, {Account(s, [f EXCEPT !.value = Nothing], "stw", "elf")},
       {Account(s, f, "stw", "another")}, {Account(s, [f EXCEPT !.address = 3], "stw", "elf"), exact},
       {exact, other}, {Account(s, f, Nothing, "elf")}}

Static(f, g, catalogs) ==
  [Frame EXCEPT !.truth = [s \in {"a", "b"} |-> IF s = "a" THEN f ELSE g],
                !.learnable = FieldsOf("a", f) \cup FieldsOf("b", g), !.catalogs = catalogs,
                !.encoding = [s \in {"a", "b"} |-> "stw"],
                !.accounts = IF f.kind = "MEMORY_STORE" /\ f.address \in {2, 3}
                             THEN AccountsOf("a", f) ELSE {{}}]

\* On a board where the memory reaches up to 2.
OnOther(f, g) == [Static(f, g, {Elsewhere}) EXCEPT !.mmio = {3}, !.accounts = {{}}]

Enabling == Store(2, 2, 1)
StaticWorlds ==
  {Static(Enabling, Store(2, 2, 0), {Main, Overlapping, Loose}),
   Static(Enabling, Load(3, 1), {Main}),
   OnOther(Enabling, Load(3, 1)),
   Static(Store(2, 1, 1), Csr("SYSTEM_REGISTER_WRITE"), {Main, Loose}),
   Static(Store(2, 1, 1), Store(2, 2, 1), {Main}),
   Static(Store(3, 1, 1), Csr("SYSTEM_REGISTER_READ"), {Main, Overlapping}),
   Static(Store(0, 2, 1), Flow("DIRECT_CALL", 5), {Main}), OnOther(Store(0, 2, 1), Store(3, 1, 1)),
   Static(Load(2, 2), Flow("INDIRECT_BRANCH", Nothing), {Main, Overlapping}),
   Static(Memory("MMIO_WRITE", 2, 2, 1), Flow("EXCEPTION_RETURN", Nothing), {Main, Foreign}),
   Static(Store(2, 1, 2), Memory("ATOMIC_ACCESS", 2, 2, 1), {Main}),
   Static(Store(2, 2, -1), Flow("DIRECT_BRANCH", 5), {Main}), Static(Load(-1, 2), Store(2, 1, -1), {Main}),
   Static(Store(9, 2, 1), [Enabling EXCEPT !.status = "unsupported"], {Main}),
   Static(Memory("INSTRUCTION", Nothing, Nothing, Nothing), Flow("CONDITIONAL_BRANCH", Nothing), {Main}),
   [Static(Enabling, Store(3, 1, 1), {Main}) EXCEPT
      !.manuals = {None, By("a", "ENABLE"), By("a", "RAM"), By("b", "NONE"), By("c", "ENABLE")}]}

-----------------------------------------------------------------------------
(* Declared worlds.  Primitives p and q, and a condition x on p.           *)
Domain(low, high, width) == [low |-> low, high |-> high, masked |-> FALSE, controlled |-> "none", width |-> width]
Number(low, high, width) == [status |-> "formalized", domain |-> Domain(low, high, width)]
Identity(x) == [status |-> "formalized", identity |-> x]
Placed(class, id) == [status |-> "formalized", class |-> class, identity |-> id]

Primitive(id, kind, constraints, control, conditions) ==
  [id |-> id, kind |-> kind, pc |-> Nothing, encoding |-> Nothing, status |-> "formalized",
   basis |-> "explicit_definition", control |-> control, conditions |-> conditions,
   constraints |-> constraints]

Mmio(address, width, value) ==
  [NoConstraints EXCEPT !.resource = Placed("mmio", "ENABLE"), !.address = address,
                        !.width = Numeric(width, width), !.value = value]
CsrOf(value) == [NoConstraints EXCEPT !.resource = Placed("csr", "mstatus"), !.csr = Identity("mstatus"),
                                      !.value = value]

Bounded(dimensions) == [status |-> "bounded_external_control", dimensions |-> dimensions]
Full(dimensions)    == [status |-> "full_external_control", dimensions |-> dimensions]

Privileged(id, operand) ==
  [id |-> id, kind |-> "privilege", status |-> "formalized",
   predicate |-> [subject |-> "privilege", operator |-> "eq", operand |-> operand, unit |-> Nothing]]

Order(before, after, gap) == [before |-> before, after |-> after, status |-> "formalized", gap |-> gap]

Capability(primitives, conditions, orders) ==
  [architecture |-> "riscv", origin |-> "manual_research_input", elf |-> "elf", site |-> "a",
   applicability |-> "specified_firmware_sites", processor |-> "core", platform |-> "board",
   conditions |-> conditions, orders |-> orders, primitives |-> primitives]

\* `learnable` is formalized little by little, of which `vague` is stated before.
Declaration(capability, learnable, vague) ==
  [Frame EXCEPT !.lane = "declared", !.capability = capability, !.vague = vague,
                !.catalogs = {Main, Overlapping}, !.learnable = learnable,
                !.start = ({<<q.id, x>> : q \in capability.primitives,
                             x \in ConstraintKinds \cup {"definition", "control"}}
                           \cup {<<x.id, "condition">> : x \in capability.conditions}
                           \cup {<<o.before, o.after>> : o \in capability.orders}
                           \cup {<<"scope", "platform">>}) \ learnable]

One(n) == Number(n, n, 2)
Any == [status |-> "formalized", domain |-> [Domain(0, 3, 2) EXCEPT !.controlled = "all"]]
Masked == [status |-> "formalized", domain |-> [Domain(Nothing, Nothing, 2) EXCEPT !.masked = TRUE]]

Writer(id, value, control, conditions) ==
  Primitive(id, "MMIO_WRITE", Mmio(Numeric(2, AddressBits), 2, value), control, conditions)

\* A primitive that need not say where it writes.
Partly(p) == [p EXCEPT !.status = "partially_formalized"]

\* One primitive that writes any value, in the states `conditions`.
AnyValue(conditions) ==
  Declaration(Capability({Partly(Writer("p", Any, Full({"value"}), conditions))},
                         {x \in {Privileged("x", Machine), Privileged("y", User)} : x.id \in conditions}, {}),
              {<<"p", "value">>, <<"p", "address">>, <<"p", "width">>, <<"p", "control">>,
               <<"p", "resource">>, <<"scope", "platform">>} \cup {<<x, "condition">> : x \in conditions}, {})

DeclaredWorlds ==
  {Declaration(Capability({Writer("p", One(1), Bounded({"value"}), {}), Writer("q", One(0), NoControl, {})},
                          {}, {Order("p", "q", 1), Order("q", "p", 0)}),
               {<<"p", "value">>, <<"q", "value">>, <<"p", "control">>, <<"p", "definition">>,
                <<"p", "q">>, <<"q", "p">>}, {<<"p", "value">>}),
   AnyValue({"x"}), AnyValue({"y"}), AnyValue({"x", "y"}),
   Declaration(Capability({Partly(Primitive("p", "MMIO_WRITE", [Mmio(Number(2, 3, AddressBits), 2, One(1)) EXCEPT
                                                                  !.privilege = Identity(Machine)],
                                            Bounded({"address", "value"}), {"x"})),
                           Partly(Writer("q", One(1), NoControl, {}))},
                          {Privileged("x", User)}, {Order("p", "q", Nothing)}),
               {<<"p", "privilege">>, <<"q", "value">>, <<"p", "control">>, <<"q", "width">>,
                <<"q", "definition">>, <<"p", "address">>}, {<<"p", "privilege">>, <<"q", "width">>}),
   Declaration(Capability({Primitive("p", "CSR_WRITE", CsrOf(One(1)), NoControl, {"x"}),
                           Primitive("q", "MMIO_READ", Mmio(Numeric(3, AddressBits), 1, Nothing), NoControl, {})},
                          {Privileged("x", Machine)}, {Order("q", "p", 0)}),
               {<<"p", "csr">>, <<"p", "value">>, <<"q", "address">>, <<"x", "condition">>,
                <<"p", "definition">>, <<"q", "definition">>}, {<<"q", "address">>}),
   Declaration(Capability({Primitive("p", "WRITE_BOUNDED",
                                     [NoConstraints EXCEPT !.resource = Placed("memory", "RAM"),
                                        !.address = Number(0, 1, AddressBits), !.width = Numeric(1, 1),
                                        !.length = Number(0, 1, AddressBits)], Bounded({"length"}), {}),
                           Primitive("q", "MMIO_WRITE", Mmio(Numeric(2, AddressBits), 2, Masked), NoControl, {})},
                          {}, {}),
               {<<"p", "width">>, <<"p", "definition">>, <<"q", "value">>, <<"q", "definition">>,
                <<"q", "address">>}, {}),
   Declaration(Capability({Primitive("p", "INSTRUCTION_EXECUTION", NoConstraints, NoControl, {}),
                           Primitive("q", "DIRECT_CONTROL_TRANSFER",
                                     [NoConstraints EXCEPT !.resource = Placed("control_flow", "f"),
                                        !.target = [status |-> "formalized", targets |-> {5}]],
                                     Bounded({"target"}), {})}, {}, {}),
               {<<"p", "definition">>, <<"q", "control">>, <<"q", "target">>}, {<<"q", "target">>})}

ASSUME \A w \in DeclaredWorlds : /\ ValidCapability(Declared(w, w.start))
                                 /\ ValidCapability(Declared(w, w.start \cup w.learnable))

-----------------------------------------------------------------------------
(* Sites worlds: what happens at the sites a and b, and facts about it.    *)
Row(source, id, site) ==
  [source |-> source, id |-> id, kind |-> Nothing, addresses |-> {site}, decoded |-> Nothing, annotation |-> Nothing,
   site |-> site, direction |-> Nothing, path |-> <<>>, status |-> Nothing]

Annotated(id, site, kind, fields) == [Row("behavior", id, site) EXCEPT !.kind = kind, !.annotation = fields]
DecodedAs(id, site, mnemonic, representation, encoding, operands) ==
  [Row("behavior", id, site) EXCEPT
     !.kind = "instruction",
     !.decoded = [mnemonic |-> mnemonic, representation |-> representation, stage |-> "decode",
                  encoding |-> encoding, operands |-> operands]]
Relates(id, site, direction) == [Row("relation", id, site) EXCEPT !.direction = direction]
Leads(id, site, path, status) == [Row("reachability", id, site) EXCEPT !.path = path, !.status = status]

Register(name)          == [kind |-> "register", register |-> name, immediate |-> Nothing]
MemoryAt(base, n)       == [kind |-> "memory", register |-> base, immediate |-> n]
Immediate(n)            == [kind |-> "immediate", register |-> Nothing, immediate |-> n]

\* Bindings of the atoms t and u, or of one of them.
Bind(options) == UNION {[atoms -> options] : atoms \in SUBSET {"t", "u"}}
AtSite(site, ids) == [site |-> site, refs |-> ids]

Target(architecture, isa) == [architecture |-> architecture, isa |-> isa, bits |-> 32, endianness |-> Nothing]
BoundTo(firmware, hardware) == [firmware |-> firmware, hardware |-> hardware]

SiteFrame ==
  [lane |-> "sites", architecture |-> "riscv", truth |-> None, facts |-> {}, learnable |-> {}, start |-> {},
   target |-> Target("riscv", "rv32"), targets |-> {Target("riscv", "rv32")},
   manifests |-> {BoundTo("board", "board")}, bindings |-> {None}, paths |-> {{}},
   alias |-> [name \in {"ra", "t0"} |-> IF name = "ra" THEN "x1" ELSE "x5"], walks |-> {}]

LoadIs(base) ==
  [mnemonic |-> "lw", destination |-> "x1", base |-> base, immediate |-> 2,
   encoding |-> [word |-> 5, bytes |-> 3], stage |-> {"decode", "commit"}]
AddIs == [mnemonic |-> "addi", destination |-> "x2", sources |-> <<"x1">>, immediate |-> 1,
          encoding |-> [word |-> 3, bytes |-> 6], stage |-> {"decode"}]
ReadIs == [address |-> 2, width |-> 2, access |-> "read", value |-> 1]

\* Two decodings of the load at a, the second one of another representation or mistaken.
Decodings(second) ==
  [SiteFrame EXCEPT
     !.truth = [a |-> [instruction |-> LoadIs("x5")], b |-> [instruction |-> AddIs]],
     !.facts = {DecodedAs("d", "a", "lw", "word", 5, <<Register("x1"), MemoryAt("t0", 2)>>), second,
                DecodedAs("f", "b", "addi", "word", 3, <<Register("x2"), Register("x1"), Immediate(1)>>),
                [DecodedAs("g", "b", "addi", "word", 3, <<>>) EXCEPT !.addresses = {"a", "b"}]},
     !.start = {<<"f", "decoded">>, <<"g", "decoded">>},
     !.learnable = {<<"d", "decoded">>, <<"d", "encoding">>, <<"e", "decoded">>, <<"e", "encoding">>, <<"f", "encoding">>},
     !.bindings = Bind({AtSite("a", {"d"}), AtSite("a", {"d", "e"}), AtSite("b", {"f"}), AtSite("b", {"g"})})]

\* An access to ENABLE, of which the relations know the direction, and a mistaken account
\* of its value; what happens at b is of the system.
AccessesAt ==
  [SiteFrame EXCEPT
     !.truth = [a |-> [mmio_access |-> ReadIs],
                b |-> [csr_access |-> [identity |-> "mstatus", number |-> 4, access |-> "write", value |-> 1],
                       privilege_state |-> [mode |-> "machine"],
                       register_state |-> [register |-> "x1", state |-> 1]]],
     !.facts = {Annotated("m", "a", "mmio_access", [address |-> 2, access |-> "either", value |-> 1]),
                Annotated("n", "a", "mmio_access", [address |-> 2, width |-> 2, value |-> 0]),
                Relates("r", "a", "read"),
                Annotated("c", "b", "csr_access", [identity |-> "mstatus", access |-> "write", value |-> 1]),
                Annotated("p", "b", "privilege_state", [mode |-> "machine"]),
                Annotated("s", "b", "register_state", [register |-> "ra", state |-> 1])},
     !.start = {<<"m", "address">>, <<"n", "address">>, <<"n", "width">>, <<"c", "identity">>, <<"c", "value">>,
               <<"s", "register">>},
     !.learnable = {<<"m", "value">>, <<"n", "value">>, <<"m", "access">>, <<"r", "access">>,
                    <<"c", "access">>, <<"p", "mode">>, <<"s", "state">>},
     !.bindings = {[t |-> AtSite("a", refs)] : refs \in {{"m", "r"}, {"m", "n"}, {"m", "n", "r"}}}
                  \cup {[t |-> AtSite("b", {"c"})], [t |-> AtSite("b", {"p", "s"}), u |-> AtSite("b", {"c"})],
                        [t |-> AtSite("a", {"m", "n", "r"}), u |-> AtSite("b", {"c", "p"})]}]

\* Walks that come by the sites, and what the analysis finds of them.
Walked ==
  [SiteFrame EXCEPT
     !.truth = [a |-> [instruction |-> LoadIs("x5"), mmio_access |-> ReadIs], b |-> [instruction |-> AddIs]],
     !.facts = {DecodedAs("d", "a", "lw", "word", 5, <<Register("x1"), MemoryAt("x5", 2)>>), Relates("r", "a", "read"),
                DecodedAs("f", "b", "addi", "word", 3, <<Register("x2"), Register("x1"), Immediate(1)>>),
                Leads("x", Nothing, <<"e", "a", "b">>, "reachable_static"),
                Leads("y", "a", <<"b", "a">>, "reachable_static_with_fakeret"),
                Leads("z", "b", <<"b">>, "reachable_static_no_fakeret")},
     !.start = {<<"r", "access">>, <<"z", "path">>},
     !.learnable = {<<"d", "decoded">>, <<"f", "decoded">>, <<"x", "path">>, <<"y", "path">>},
     !.bindings = Bind({AtSite("a", {"d", "r"}), AtSite("b", {"f"}), AtSite("b", {"z"})}),
     !.paths = {{}, {"x"}, {"y"}, {"x", "y"}, {"z"}, {"d"}},
     !.walks = {<<"e", "a", "b">>, <<"b", "a">>}]

OnArm ==
  [SiteFrame EXCEPT
     !.architecture = "arm", !.target = Target("arm", "v7"),
     !.targets = {Target("arm", Nothing), Target("arm", "v8"), Target(Nothing, "v7"), Target("riscv", Nothing)},
     !.manifests = {Nothing, BoundTo("board", "board"), BoundTo("board", "other")},
     !.truth = [a |-> [register_state |-> [register |-> "r13", state |-> 1], instruction |-> LoadIs("r13")],
                b |-> [instruction |-> AddIs]],
     !.facts = {Annotated("s", "a", "register_state", [register |-> "r13", state |-> 1]),
                DecodedAs("d", "a", "lw", "word", 5, <<Register("r1"), MemoryAt("sp", 2)>>)},
     !.learnable = {<<"s", "register">>, <<"s", "state">>, <<"d", "decoded">>},
     !.bindings = Bind({AtSite("a", {"s"}), AtSite("a", {"d", "s"})}),
     !.alias = [name \in {"sp"} |-> "r13"]]

SiteWorlds ==
  {Decodings(DecodedAs("e", "a", "lw", "bytes", 3, <<Register("ra"), MemoryAt("x5", 2)>>)),
   Decodings(DecodedAs("e", "a", "sw", "word", 4, <<Register("x1"), MemoryAt("x5", 2)>>)),
   AccessesAt, Walked, OnArm}

MCWorlds == StaticWorlds \cup DeclaredWorlds \cup SiteWorlds

-----------------------------------------------------------------------------
(* Contracts.                                                              *)
Value(operator, low, high) == [operator |-> operator, low |-> low, high |-> high]

Bare(id, kind) ==
  [id |-> id, kind |-> kind, status |-> "formalized", access |-> Nothing, relation |-> Nothing, ordering |-> Nothing]

To(id, kind, direction, address, csr, number, width, value) ==
  [Bare(id, kind) EXCEPT !.access = [direction |-> direction, address |-> address, csr |-> csr,
                                     number |-> number, width |-> width, value |-> value]]
ToMmio(id, direction, address, width, value) == To(id, "MMIO_access", direction, address, Nothing, Nothing, width, value)
ToCsr(id, direction, number, value) == To(id, "CSR_access", direction, Nothing, "mstatus", number, Nothing, value)
ToMemory(address) ==
  [Bare("m", "memory_operation") EXCEPT !.relation = [subject |-> "address", operator |-> "eq", operand |-> address]]
Ordered(before, after, gap, time) ==
  [Bare("o", "ordering") EXCEPT !.ordering = [before |-> before, after |-> after, gap |-> gap, time |-> time]]

Needs(id, kind, subject, operand) ==
  [id |-> id, kind |-> kind, status |-> "formalized",
   predicate |-> [subject |-> subject, operator |-> "eq", operand |-> operand, unit |-> Nothing]]

Contract(trigger, preconditions) ==
  [architecture |-> "riscv", platforms |-> {"board"}, platform |-> "board", processor |-> "core",
   applicability |-> "specified_targets", unavailable |-> FALSE, trigger |-> trigger,
   preconditions |-> preconditions, unclassified |-> FALSE]

EnableOne == ToMmio("t", "write", 2, 2, Value("eq", 1, 1))
MCContracts ==
  {Contract({EnableOne}, {}),
   Contract({ToMmio("t", "either", 2, Nothing, Value("masked_eq", 1, 1)),
             ToMmio("u", "write", 2, Nothing, Value("neq", 0, 0))}, {}),
   [Contract({ToMmio("t", "read", 3, Nothing, Nothing), ToCsr("u", "write", Nothing, Value("eq", 1, 1)),
              Ordered("t", "u", 0, Nothing)},
             {Needs("n", "privilege", "mode", Machine)}) EXCEPT !.platforms = {}, !.applicability = "rtl_revision_only", !.unavailable = TRUE],
   [Contract({ToCsr("t", "either", 7, Value("neq", 1, 1))}, {}) EXCEPT !.platforms = {Unspecified}, !.platform = Unspecified],
   [Contract({ToMemory(0), Bare("i", "instruction")}, {}) EXCEPT !.applicability = "synthetic_only"],
   Contract({EnableOne}, {Needs("n", "privilege", "privilege", Machine), Needs("v", "other", "value", TRUE),
                          [Needs("w", "other", "value", TRUE) EXCEPT !.predicate = Nothing, !.status = "unknown"]}),
   Contract({EnableOne, ToMmio("u", "write", 2, Nothing, Value("eq", 0, 0)), Ordered("t", "u", 1, Nothing)},
            {Needs("v", "other", "value", TRUE)}),
   Contract({EnableOne, ToMmio("u", "write", 3, 2, Value("in_range", 0, 1)), Ordered("u", "t", Nothing, "ms")}, {}),
   [Contract({[Bare("t", "MMIO_access") EXCEPT !.status = "unknown"], ToMmio("u", "either", 3, Nothing, Nothing)},
             {Needs("a", "other", "address", TRUE)}) EXCEPT !.platforms = {"other"}, !.platform = "other"],
   [Contract({}, {}) EXCEPT !.processor = Nothing, !.unclassified = TRUE],
   [Contract({EnableOne}, {}) EXCEPT !.architecture = "arm"]}

-----------------------------------------------------------------------------
(* Trigger conditions.                                                     *)
Atom(id, kind, wants) == [id |-> id, kind |-> kind, required |-> TRUE, wants |-> wants]
Equals(n) == Value("eq", n, n)
Condition(atoms) == [architecture |-> "riscv", atoms |-> atoms]
Follows(gap) == Atom("o", "ordering", [before |-> "t", after |-> "u", gap |-> gap])

MCConditions ==
  {Condition({Atom("t", "instruction", [mnemonic |-> "lw", base |-> "x5", immediate |-> Value("in_range", 1, 2)]),
              Atom("u", "instruction", [mnemonic |-> "addi", sources |-> <<"x1">>])}),
   Condition({Atom("t", "instruction", [encoding |-> Equals(3), representation |-> "bytes"]),
              Atom("u", "instruction", [encoding |-> Equals(5), representation |-> "word"])}),
   Condition({Atom("t", "instruction", [mnemonic |-> "lw", destination |-> "x2", stage |-> "commit"]),
              Atom("u", "instruction", [encoding |-> Value("masked_eq", 1, 1), representation |-> "word"])}),
   Condition({Atom("t", "mmio_access", [address |-> 2, access |-> "read", value |-> Equals(1)]),
              Atom("u", "csr_access", [identity |-> "mstatus", access |-> "either", value |-> Value("neq", 1, 1)])}),
   Condition({Atom("t", "mmio_access", [address |-> 2, access |-> "write", width |-> 2]),
              [Atom("u", "csr_access", [number |-> 4, access |-> "write"]) EXCEPT !.required = FALSE]}),
   Condition({Atom("t", "privilege_state", [mode |-> "machine"]),
              Atom("u", "csr_access", [identity |-> "mstatus", access |-> "write"])}),
   Condition({Atom("t", "register_state", [register |-> "x1", state |-> Equals(1)]),
              Atom("u", "hardware_state", [state |-> Equals(1)])}),
   Condition({Atom("t", "instruction", [mnemonic |-> "lw", representation |-> "word"]),
              Atom("u", "instruction", [mnemonic |-> "addi"]), Follows(Nothing)}),
   Condition({Atom("t", "instruction", [mnemonic |-> "lw"]), Atom("u", "instruction", [destination |-> "x2"]), Follows(1)}),
   [Condition({Atom("t", "register_state", [register |-> "sp", state |-> Equals(1)]),
               Atom("u", "instruction", [mnemonic |-> "lw"])}) EXCEPT !.architecture = "arm"],
   [Condition({Atom("t", "register_state", [register |-> "r13", state |-> Value("neq", 1, 1)])})
      EXCEPT !.architecture = "arm"],
   Condition({Atom("t", "privilege_state", [mode |-> "user"])})}
=============================================================================
