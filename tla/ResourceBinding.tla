-------------------------- MODULE ResourceBinding --------------------------
(***************************************************************************)
(* From static facts to capabilities over a catalog of hardware resources: *)
(* hardware/resources.py, cross_layer/resource_binding.py (which resource  *)
(* an access is about) and firmware/static_capability.py (the CAP0         *)
(* capability of one static fact).                                         *)
(*                                                                         *)
(* A fact is [kind, status, address, width, value, register, target].      *)
(* Facts, resources, catalogs and capabilities are content-addressed: the  *)
(* checks of their identities compare contents, and a binding that is of   *)
(* other facts or of another catalog finds no fact to apply to.            *)
(***************************************************************************)
EXTENDS FirmwareCapability

CONSTANT AddressBits   \* the bit width of the firmware

-----------------------------------------------------------------------------
(* The catalog.                                                            *)
AddressedKinds == {"MMIO_REGISTER", "MEMORY_REGION"}
RegisterKinds  == {"SYSTEM_REGISTER", "CSR"}

ValidResource(r) ==
  /\ Stated(r.low) <=> Stated(r.high)
  /\ Stated(r.low) => r.low <= r.high
  /\ r.kind \in AddressedKinds => Stated(r.low)
  /\ r.kind \in RegisterKinds => Stated(r.register)

ValidCatalog(catalog) ==
  /\ \A r \in catalog.resources : ValidResource(r) /\ r.architecture = catalog.architecture
  /\ \A r, q \in catalog.resources : r.id = q.id => r = q

-----------------------------------------------------------------------------
(* _select                                                                 *)
MemoryAccess == {"MEMORY_LOAD", "MEMORY_STORE", "MEMORY_READ", "MEMORY_WRITE", "MMIO_READ", "MMIO_WRITE"}
SystemAccess == {"SYSTEM_REGISTER_READ", "SYSTEM_REGISTER_WRITE", "CSR_READ", "CSR_WRITE"}
ReadKinds    == {"MEMORY_LOAD", "MEMORY_READ", "MMIO_READ", "SYSTEM_REGISTER_READ", "CSR_READ"}

AccessOf(kind) == IF kind \in ReadKinds THEN "read" ELSE "write"

Binding(status, resource) == [status |-> status, resource |-> resource]
Unbound(status) == Binding(status, Nothing)
Refused == Unbound("refused")    \* the call raises

Holds(r, address) == Stated(r.low) /\ r.low <= address /\ address <= r.high

\* What is looked for, [kind, address, width, register], in a resource.
Contains(r, x) == IF x.kind \in MemoryAccess THEN Holds(r, x.address) ELSE r.register = x.register

Candidates(x, catalog) ==
  {r \in catalog.resources :
     /\ r.kind \in (IF x.kind \in MemoryAccess THEN AddressedKinds
                    ELSE IF catalog.architecture = "riscv" \/ x.kind \in CsrKinds THEN {"CSR"}
                    ELSE {"SYSTEM_REGISTER"})
     /\ Contains(r, x)}

Forbidden(r, kind) == r.access # {} /\ AccessOf(kind) \notin r.access

\* A variant that takes an access of unknown width for one that fits.
Judge_AnyWidth(r, x) ==
  IF Forbidden(r, x.kind) THEN "CONTRADICTED"
  ELSE IF Stated(r.width) /\ Stated(x.width) /\ x.width # r.width THEN "CONTRADICTED"
  ELSE "SUPPORTED"

\* The one resource that contains the access.
Judge(r, x) ==
  IF Forbidden(r, x.kind) THEN "CONTRADICTED"
  ELSE IF Stated(r.width) /\ ~Stated(x.width) THEN "UNKNOWN"
  ELSE IF Stated(r.width) /\ x.width # r.width THEN "CONTRADICTED"
  ELSE "SUPPORTED"

Automatic(x, catalog) ==
  IF x.kind \notin MemoryAccess \cup SystemAccess THEN Unbound("NOT_APPLICABLE")
  ELSE IF ~Stated(IF x.kind \in MemoryAccess THEN x.address ELSE x.register) THEN Unbound("UNKNOWN")
  ELSE LET found == Candidates(x, catalog)
       IN  IF found = {} THEN Unbound("UNKNOWN")
           ELSE IF Cardinality(found) > 1 THEN Unbound("AMBIGUOUS")
           ELSE LET r == CHOOSE r \in found : TRUE IN Binding(Judge(r, x), r.id)

\* A resource declared by hand is never more than UNKNOWN, and CONTRADICTED if it
\* does not contain what is known of the access.
Manual(x, id, catalog) ==
  LET r == CHOOSE r \in catalog.resources : r.id = id
      suits == \/ x.kind \in MemoryAccess /\ r.kind \in AddressedKinds
               \/ x.kind \in SystemAccess /\ r.kind \in RegisterKinds
      conflict == \/ Stated(x.address) /\ Stated(r.low) /\ ~Holds(r, x.address)
                  \/ Stated(x.register) /\ Stated(r.register) /\ x.register # r.register
  IN  IF id \notin {q.id : q \in catalog.resources} THEN Refused
      ELSE IF ~suits THEN Refused
      ELSE Binding(IF conflict THEN "CONTRADICTED" ELSE "UNKNOWN", id)

\* `manual` is the resource declared for this access, or Nothing.
Select(x, catalog, manual) ==
  IF Stated(manual) THEN Manual(x, manual, catalog) ELSE Automatic(x, catalog)

-----------------------------------------------------------------------------
(* materialize_synthetic_static_capabilities                               *)
FlowFacts == {"DIRECT_CALL", "DIRECT_BRANCH", "CONDITIONAL_BRANCH", "INDIRECT_CALL", "INDIRECT_BRANCH", "RETURN"}

Mapping ==
  [INSTRUCTION |-> "INSTRUCTION_EXECUTION",
   DIRECT_CALL |-> "DIRECT_CONTROL_TRANSFER", INDIRECT_CALL |-> "INDIRECT_CONTROL_TRANSFER",
   DIRECT_BRANCH |-> "DIRECT_CONTROL_TRANSFER", INDIRECT_BRANCH |-> "INDIRECT_CONTROL_TRANSFER",
   CONDITIONAL_BRANCH |-> "DIRECT_CONTROL_TRANSFER", RETURN |-> "INDIRECT_CONTROL_TRANSFER",
   MEMORY_LOAD |-> "MEMORY_READ", MEMORY_STORE |-> "MEMORY_WRITE",
   MMIO_READ |-> "MMIO_READ", MMIO_WRITE |-> "MMIO_WRITE",
   SYSTEM_REGISTER_READ |-> "CSR_READ", SYSTEM_REGISTER_WRITE |-> "CSR_WRITE",
   EXCEPTION_RETURN |-> "EXCEPTION_RETURN"]

Expressible(f, architecture) ==
  /\ f.kind \in DOMAIN Mapping /\ f.status # "unsupported"
  /\ f.kind \in SystemAccess => architecture = "riscv"

\* The kind of primitive, given the resource that the fact is bound to (or Nothing).
KindOf(f, r) ==
  CASE Mapping[f.kind] = "DIRECT_CONTROL_TRANSFER" /\ ~Stated(f.target) -> "INDIRECT_CONTROL_TRANSFER"
    [] f.kind \in MemoryAccess /\ Stated(r) /\ r.kind = "MMIO_REGISTER" ->
         IF f.kind \in ReadKinds THEN "MMIO_READ" ELSE "MMIO_WRITE"
    [] OTHER -> Mapping[f.kind]

AccessClass(f, r) ==
  IF Stated(r) /\ r.kind = "MMIO_REGISTER" THEN "mmio"
  ELSE IF Stated(r) /\ r.kind = "MEMORY_REGION" THEN "memory"
  ELSE IF f.kind \in {"MEMORY_LOAD", "MEMORY_STORE"} THEN "memory"
  ELSE "mmio"

Resource(class, identity) ==
  [status |-> IF Stated(identity) THEN "formalized" ELSE "partially_formalized",
   class |-> class, identity |-> identity]

NumericIf(n, width) == IF Stated(n) THEN Numeric(n, width) ELSE Nothing

ConstraintsOf(f, r) ==
  CASE f.kind \in MemoryAccess ->
         [NoConstraints EXCEPT
            !.resource = Resource(AccessClass(f, r), IF Stated(r) THEN r.id ELSE Nothing),
            !.address = NumericIf(f.address, AddressBits),
            !.width = NumericIf(f.width, f.width),
            !.value = NumericIf(IF f.kind \in ReadKinds THEN Nothing ELSE f.value,
                                IF Stated(f.width) THEN f.width ELSE AddressBits)]
    [] f.kind \in SystemAccess ->
         [NoConstraints EXCEPT
            !.resource = [status |-> "formalized", class |-> "csr", identity |-> f.register],
            !.csr = [status |-> "formalized", identity |-> f.register]]
    [] f.kind \in FlowFacts \cup {"EXCEPTION_RETURN"} ->
         [NoConstraints EXCEPT
            !.resource = Resource("control_flow", f.target),
            !.target = IF KindOf(f, r) = "DIRECT_CONTROL_TRANSFER"
                       THEN [status |-> "formalized", targets |-> {f.target}] ELSE Nothing]
    [] OTHER -> NoConstraints

\* A variant that does not look at the width.
Partial_NoWidth(f, r) ==
  \/ f.kind \in MemoryAccess /\ (~Stated(r) \/ ~Stated(f.address))
  \/ f.kind \in FlowFacts \cup {"EXCEPTION_RETURN"} /\ ~Stated(f.target)

Partial(f, r) ==
  \/ f.kind \in MemoryAccess /\ (~Stated(r) \/ ~Stated(f.address) \/ ~Stated(f.width))
  \/ f.kind \in FlowFacts \cup {"EXCEPTION_RETURN"} /\ ~Stated(f.target)

\* A static site does not establish that a path leads to it.
PathCondition == [id |-> "path", kind |-> "path", status |-> "unknown", predicate |-> Nothing]

\* _one
StaticCapability(site, f, r, firmware) ==
  [architecture |-> firmware.architecture, origin |-> "synthetic_fixture", elf |-> firmware.elf,
   site |-> site, execution |-> "static_only", retired |-> FALSE,
   applicability |-> "synthetic_only", platform |-> Nothing, processor |-> "not-established",
   conditions |-> {PathCondition}, orders |-> {},
   primitives |->
     {[id |-> site, kind |-> KindOf(f, r), pc |-> site, encoding |-> firmware.encoding[site],
       status |-> IF Partial(f, r) THEN "partially_formalized" ELSE "formalized",
       basis |-> "static_instruction", control |-> NoControl,
       constraints |-> ConstraintsOf(f, r), conditions |-> {"path"}]}]

\* The resource of a SUPPORTED binding; `catalog` may be Nothing.
BoundResource(f, catalog, manual) ==
  IF ~Stated(catalog) THEN Nothing
  ELSE LET b == Select(f, catalog, manual)
       IN  IF b.status = "SUPPORTED" THEN CHOOSE r \in catalog.resources : r.id = b.resource
           ELSE Nothing
=============================================================================
