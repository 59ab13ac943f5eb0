------------------------ MODULE RequirementMatching ------------------------
(***************************************************************************)
(* cross_layer/matching.py: which requirements of a hardware behaviour     *)
(* contract the static capabilities support or contradict.                 *)
(*                                                                         *)
(* The value that an access requires is [operator, low, high]; a mask is   *)
(* one of low bits, so that `value & mask` is a remainder.  A CSR that a   *)
(* contract gives by its number only is not modelled.                      *)
(***************************************************************************)
EXTENDS ResourceBinding, HardwareContract

\* Of the capabilities, one per site.
PrimitivesOf(caps) == UNION {{[site |-> s, p |-> p] : p \in caps[s].primitives} : s \in DOMAIN caps}

\* What bind_capabilities looks for.
Sought(p) ==
  [kind |-> p.kind, address |-> ExactOf(p.constraints.address), width |-> ExactOf(p.constraints.width),
   register |-> IF Stated(p.constraints.csr) THEN p.constraints.csr.identity ELSE Nothing]

\* The primitives with their exact constraints and their bindings; `manual` gives
\* the resources declared for some of them.
Options(caps, catalog, manual) ==
  {[site |-> x.site, id |-> x.p.id, kind |-> x.p.kind,
    address |-> ExactOf(x.p.constraints.address), value |-> ExactOf(x.p.constraints.value),
    width |-> ExactOf(x.p.constraints.width), register |-> Sought(x.p).register,
    status |-> Select(Sought(x.p), catalog,
                      IF x.p.id \in DOMAIN manual THEN manual[x.p.id] ELSE Nothing).status]
   : x \in PrimitivesOf(caps)}

Satisfies(v, requirement) ==
  CASE requirement.operator = "eq"        -> v = requirement.low
    [] requirement.operator = "neq"       -> v # requirement.low
    [] requirement.operator = "masked_eq" -> v % (requirement.high + 1) = requirement.low
    [] requirement.operator = "in_range"  -> requirement.low <= v /\ v <= requirement.high

Directed(o, atom, class) == atom.direction = "either" \/ o.kind = class[atom.direction]
MmioKind == [read |-> "MMIO_READ", write |-> "MMIO_WRITE"]
CsrKind  == [read |-> "CSR_READ", write |-> "CSR_WRITE"]

-----------------------------------------------------------------------------
(* MMIO conditions.                                                        *)

\* A variant that skips the check of an unknown width.
MmioVerdict_AnyWidth(o, atom) ==
  IF o.status \notin {"SUPPORTED", "CONTRADICTED"} THEN "unknown"
  ELSE IF o.status = "CONTRADICTED" THEN "conflicted"
  ELSE IF Stated(atom.width) /\ Stated(o.width) /\ atom.width # o.width THEN "conflicted"
  ELSE IF ~Stated(atom.value) THEN "compatible"
  ELSE IF ~Stated(o.value) THEN "unknown"
  ELSE IF Satisfies(o.value, atom.value) THEN "compatible"
  ELSE "conflicted"

MmioVerdict(o, atom) ==
  IF o.status \notin {"SUPPORTED", "CONTRADICTED"} THEN "unknown"
  ELSE IF o.status = "CONTRADICTED" THEN "conflicted"
  ELSE IF Stated(atom.width) /\ Stated(o.width) /\ atom.width # o.width THEN "conflicted"
  ELSE IF Stated(atom.width) /\ ~Stated(o.width) THEN "unknown"
  ELSE IF ~Stated(atom.value) THEN "compatible"
  ELSE IF ~Stated(o.value) THEN "unknown"
  ELSE IF Satisfies(o.value, atom.value) THEN "compatible"
  ELSE "conflicted"

MmioStatus(options, atom) ==
  LET eligible == {o \in options : o.address = atom.address /\ Directed(o, atom, MmioKind)}
      verdicts == {MmioVerdict(o, atom) : o \in eligible}
  IN  IF "compatible" \in verdicts THEN "SUPPORTED"
      ELSE IF "conflicted" \in verdicts THEN "CONTRADICTED"
      ELSE IF \E o \in eligible : MmioVerdict(o, atom) = "unknown" /\ o.status = "AMBIGUOUS" THEN "AMBIGUOUS"
      ELSE "UNKNOWN"

-----------------------------------------------------------------------------
(* CSR conditions, where a binding that is not SUPPORTED says nothing of   *)
(* the value, and memory conditions, which are never contradicted.         *)
CsrStatus(options, atom) ==
  LET eligible  == {o \in options : Stated(o.register) /\ o.register = atom.csr
                                    /\ Directed(o, atom, CsrKind)}
      supported == {o \in eligible : o.status = "SUPPORTED"}
      fitting   == {o \in supported : Stated(atom.value) =>
                                        Stated(o.value) /\ Satisfies(o.value, atom.value)}
      contradicted == {o \in eligible : o.status = "CONTRADICTED"}
                      \cup {o \in supported \ fitting : Stated(o.value)}
  IN  IF fitting # {} THEN "SUPPORTED"
      ELSE IF contradicted # {} THEN "CONTRADICTED"
      ELSE "UNKNOWN"

MemoryStatus(options, relation) ==
  IF /\ relation.subject = "address" /\ relation.operator = "eq"
     /\ \E o \in options : /\ o.address = relation.operand /\ o.status = "SUPPORTED"
                           /\ o.kind \in {"MEMORY_READ", "MEMORY_WRITE"}
  THEN "SUPPORTED" ELSE "UNKNOWN"

\* The condition kinds with a static status; ordering and state need a run.
StaticKind(t) ==
  \/ t.kind \in {"MMIO_access", "CSR_access"} /\ Stated(t.access)
  \/ t.kind = "memory_operation" /\ Stated(t.relation)

Status(options, t) ==
  CASE t.kind = "MMIO_access" -> MmioStatus(options, t.access)
    [] t.kind = "CSR_access"  -> CsrStatus(options, t.access)
    [] OTHER                  -> MemoryStatus(options, t.relation)

\* match_requirements.  Preconditions, deviations, observations and the platform
\* are UNKNOWN and take no part in the overall status; nor do the other triggers.
\* Raises when the architectures differ or a manual binding is no good.
Match(caps, catalog, manual, contract) ==
  LET options  == Options(caps, catalog, manual)
      static   == {t \in contract.trigger : StaticKind(t)}
      statuses == {Status(options, t) : t \in static}
  IN  IF \/ \E s \in DOMAIN caps : caps[s].architecture \notin {contract.architecture, catalog.architecture}
         \/ \E o \in options : o.status = "refused"
         \/ ~(DOMAIN manual \subseteq {o.id : o \in options})
      THEN Raised
      ELSE [status  |-> [t \in contract.trigger |-> IF t \in static THEN Status(options, t) ELSE "UNKNOWN"],
            overall |-> IF "CONTRADICTED" \in statuses THEN "CONTRADICTED"
                        ELSE IF "AMBIGUOUS" \in statuses THEN "AMBIGUOUS"
                        ELSE IF statuses = {"SUPPORTED"} THEN "SUPPORTED"
                        ELSE "UNKNOWN"]
=============================================================================
