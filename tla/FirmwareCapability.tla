------------------------ MODULE FirmwareCapability ------------------------
(***************************************************************************)
(* CAP0, the contract of a firmware capability (firmware/capability.py):   *)
(* what build_firmware_capability accepts.  A capability states what the   *)
(* primitives of one code site may do; each primitive has at most one      *)
(* constraint of each kind, and a constraint, a condition or a primitive   *)
(* may be stated without being formalized.                                 *)
(*                                                                         *)
(* Identities stand for the content they are the digest of; what binds     *)
(* every object to its sources and its evidence is left out.               *)
(***************************************************************************)
EXTENDS Integers, FiniteSets

CONSTANTS
  Nothing,       \* None: what is not stated
  Raised,        \* the result of a call that raises
  MaxBits        \* 64 in the source

ASSUME MaxBitsAssumption == MaxBits \in Nat \ {0}

Stated(x) == x # Nothing

\* The two statuses that make an object no basis for a comparison.
Unformalized == {"unformalized", "unknown"}
Usable(x) == Stated(x) /\ x.status \notin Unformalized

-----------------------------------------------------------------------------
(* NumericDomain: an exact value is a range of one; of a mask only its     *)
(* presence is kept, and of the controlled bits whether they are all.      *)
Exactly(n, width) ==
  [low |-> n, high |-> n, masked |-> FALSE, controlled |-> "none", width |-> width]

ExactValue(d) == IF Stated(d.low) /\ d.low = d.high THEN d.low ELSE Nothing

ValidDomain(d) ==
  /\ Stated(d.low) <=> Stated(d.high)
  /\ Stated(d.low) => 0 <= d.low /\ d.low <= d.high
  /\ d.controlled # "none" => Stated(d.width)
  /\ Stated(d.width) => /\ d.width \in 1 .. MaxBits
                        /\ Stated(d.high) => d.high < 2 ^ d.width
  /\ Stated(d.low) \/ d.masked \/ d.controlled # "none"

-----------------------------------------------------------------------------
(* Primitives.                                                             *)
MemoryKinds == {"MEMORY_READ", "MEMORY_WRITE", "READ_OOB", "WRITE_OOB", "WRITE_BOUNDED"}
MmioKinds   == {"MMIO_READ", "MMIO_WRITE"}
CsrKinds    == {"CSR_READ", "CSR_WRITE"}
FlowKinds   == {"DIRECT_CONTROL_TRANSFER", "INDIRECT_CONTROL_TRANSFER", "CONTROL_FLOW_INFLUENCE",
                "CONTROL_FLOW_HIJACK", "CALLBACK_INFLUENCE", "EXCEPTION_RETURN"}
VulnerabilityKinds == {"READ_OOB", "WRITE_OOB", "CONTROL_FLOW_HIJACK", "DENIAL_OF_SERVICE"}
ControlKinds == {"PARTIAL_ADDRESS_CONTROL", "PARTIAL_VALUE_CONTROL", "LENGTH_CONTROL",
                 "CONTROL_FLOW_INFLUENCE", "CONTROL_FLOW_HIJACK", "CALLBACK_INFLUENCE"}

\* The resource class that a kind of primitive is about.
ClassOf(kind) ==
  CASE kind \in MemoryKinds -> "memory" [] kind \in MmioKinds -> "mmio"
    [] kind \in CsrKinds -> "csr" [] kind \in FlowKinds -> "control_flow" [] OTHER -> Nothing

NumericKinds == {"address", "width", "value", "length"}
ConstraintKinds == NumericKinds \cup {"resource", "csr", "target", "privilege", "context"}
NoConstraints == [k \in ConstraintKinds |-> Nothing]

Numeric(n, width) == [status |-> "formalized", domain |-> Exactly(n, width)]

ExactOf(c) == IF Stated(c) THEN ExactValue(c.domain) ELSE Nothing

\* ResourceConstraint, IdentityConstraint and NumericConstraint.
ValidConstraints(cs) ==
  /\ Stated(cs.resource) /\ cs.resource.status = "formalized" => Stated(cs.resource.identity)
  /\ \A k \in {"csr", "privilege", "context"} : Stated(cs[k]) => Stated(cs[k].identity)
  /\ \A k \in NumericKinds : Stated(cs[k]) => ValidDomain(cs[k].domain)
  /\ Stated(cs.width) => Stated(ExactOf(cs.width)) /\ ExactOf(cs.width) > 0

NoControl == [status |-> "not_established", dimensions |-> {}]
Established == {"bounded_external_control", "full_external_control"}

\* The constraint that a controlled dimension is about.
Dimension == [address |-> "address", value |-> "value", length |-> "length",
              target |-> "target", execution_context |-> "context"]

\* ControlAuthority, and what validate_bindings asks of it: only declarations, by
\* hand or for a fixture, establish control.
ValidControl(p, declared) ==
  IF p.control.status \in {"not_established", "unknown"} THEN p.control.dimensions = {}
  ELSE /\ p.control.dimensions # {} /\ declared
       /\ \A d \in p.control.dimensions : Stated(p.constraints[Dimension[d]])
       /\ p.control.status = "full_external_control" =>
            \A d \in p.control.dimensions \cap {"address", "value"} :
              LET domain == p.constraints[d].domain
              IN  /\ domain.controlled = "all" /\ ~domain.masked
                  /\ Stated(domain.low) => domain.low = 0 /\ domain.high = 2 ^ domain.width - 1

\* Values stay within the width of the access.
FitsWidth(cs) ==
  LET width == ExactOf(cs.width)
  IN  Stated(width) /\ Stated(cs.value) /\ Stated(cs.value.domain.high) =>
        cs.value.domain.high < 2 ^ width

\* What a kind of primitive may be constrained by, and what it must be.
Constrained(p) ==
  LET cs == p.constraints
      class == ClassOf(p.kind)
  IN  /\ Stated(cs.resource) /\ Stated(class) => cs.resource.class = class
      /\ Stated(cs.csr) => p.kind \in CsrKinds
      /\ Stated(cs.address) \/ Stated(cs.length) =>
           p.kind \in MemoryKinds \cup MmioKinds \cup {"PARTIAL_ADDRESS_CONTROL", "LENGTH_CONTROL"}
      /\ Stated(cs.target) => p.kind \in FlowKinds \ {"INDIRECT_CONTROL_TRANSFER"}
      /\ p.kind = "DIRECT_CONTROL_TRANSFER" => Stated(cs.target)
      /\ p.kind = "WRITE_BOUNDED" =>
           /\ Stated(cs.resource) /\ Stated(cs.address) /\ Stated(cs.length)
           /\ Stated(cs.address.domain.low) /\ Stated(cs.length.domain.high)
      /\ p.status = "formalized" =>
           /\ p.basis # "unknown"
           /\ Stated(class) => Stated(cs.resource)
           /\ p.kind \in CsrKinds => Stated(cs.csr)
           /\ p.kind \in MemoryKinds \cup MmioKinds => Stated(cs.address) /\ Stated(cs.width)

ValidPrimitive(c, p) ==
  LET declared == c.origin \in {"synthetic_fixture", "manual_research_input"}
  IN  /\ ValidConstraints(p.constraints) /\ FitsWidth(p.constraints)
      /\ Constrained(p)
      /\ ValidControl(p, declared)
      /\ p.kind \in VulnerabilityKinds => declared \/ c.origin = "vulnerability_derived"
      /\ p.kind \in VulnerabilityKinds \cup ControlKinds => p.basis = "explicit_definition"
      /\ p.conditions \subseteq {x.id : x \in c.conditions}

-----------------------------------------------------------------------------
(* Capabilities: [architecture, origin, elf, site, owner, execution, encoding, *)
(* applicability, platform, processor, conditions, primitives, orders].    *)

\* Condition: a formalized one has a predicate.
ValidCondition(x) == x.status = "formalized" => Stated(x.predicate)

\* OrderingConstraint, between primitives of the capability.
ValidOrder(c, o) == o.before # o.after /\ {o.before, o.after} \subseteq {p.id : p \in c.primitives}

\* Origin, Entry and Scope.
ValidFrame(c) ==
  /\ c.applicability = "synthetic_only" => c.origin = "synthetic_fixture"
  /\ c.execution = "source_instruction_retired" <=> c.retired
  /\ \A p \in c.primitives : Stated(p.pc) => p.pc = c.site

ValidCapability(c) ==
  /\ ValidFrame(c)
  /\ \A x, y \in c.primitives : x.id = y.id => x = y
  /\ \A x \in c.conditions : ValidCondition(x)
  /\ \A o \in c.orders : ValidOrder(c, o)
  /\ \A p \in c.primitives : ValidPrimitive(c, p)
=============================================================================
