---------------------- MODULE CapabilityCompatibility ----------------------
(***************************************************************************)
(* XL2 (cross_layer/capability_compatibility.py): one capability is        *)
(* compared with the requirements of a hardware behaviour contract, field  *)
(* by field, in three values.                                              *)
(*                                                                         *)
(* A requirement is compared in a set of checks, of which only the outcomes*)
(* are kept; missing and unsupported are both "unknown".                   *)
(***************************************************************************)
EXTENDS HardwareContract

CONSTANT Unspecified   \* a text that says that nothing is known

Verdict(holds) == IF holds THEN "compatible" ELSE "incompatible"

\* A variant that ignores what is unknown.
AggregateRequired_SkipUnknown(outcomes) ==
  IF "incompatible" \in outcomes THEN "incompatible"
  ELSE IF "compatible" \in outcomes THEN "compatible"
  ELSE "unknown"

AggregateRequired(outcomes) ==
  IF "incompatible" \in outcomes THEN "incompatible"
  ELSE IF outcomes # {} /\ outcomes \subseteq {"compatible"} THEN "compatible"
  ELSE "unknown"

Alternatives(outcomes) ==
  IF "compatible" \in outcomes THEN "compatible"
  ELSE IF outcomes # {} /\ outcomes \subseteq {"incompatible"} THEN "incompatible"
  ELSE "unknown"

Known(x) == Stated(x) /\ x # Unspecified

\* There is one, and only one.
Sole(S) == \E x \in S : S = {x}

Equal(provided, required) ==
  IF Known(provided) /\ Known(required) THEN Verdict(provided = required)
  ELSE "unknown"

\* A variant that asks whether the required domain contains the provided one.
CompareDomains_Swapped(provided, required) ==
  IF ~Stated(provided) THEN "unknown"
  ELSE IF provided.masked \/ ~Stated(provided.low) THEN "unknown"
  ELSE Verdict(required <= provided.low /\ provided.high <= required)

\* compare_numeric_domains: the provided domain must contain the required value.
\* (The contract language has ranges without a quantifier, which compare as unknown.)
CompareDomains(provided, required) ==
  IF ~Stated(provided) THEN "unknown"
  ELSE IF provided.masked \/ ~Stated(provided.low) THEN "unknown"
  ELSE Verdict(provided.low <= required /\ required <= provided.high)

\* _numeric_requirement
CompareValue(provided, requirement) ==
  IF requirement.operator = "eq" THEN CompareDomains(provided, requirement.low)
  ELSE "unknown"

-----------------------------------------------------------------------------
(* _platform: the checks of the platform and of the scope.  (Word size and *)
(* endianness compare as the architecture does.)                           *)
Platforms(hw) ==
  IF hw.platforms # {} THEN hw.platforms ELSE IF Stated(hw.platform) THEN {hw.platform} ELSE {}

PlatformMatch(c, hw) ==
  IF ~Known(c.platform) \/ Platforms(hw) = {} \/ \E x \in Platforms(hw) : ~Known(x)
  THEN "unknown"
  ELSE Verdict(c.platform \in Platforms(hw))

ProcessorMatch(c, hw) ==
  IF Known(c.processor) /\ c.processor = hw.processor THEN "compatible"
  ELSE IF Known(c.platform) /\ c.platform = hw.platform
  THEN Equal(c.processor, hw.processor)
  ELSE "unknown"

ScopeMatch(c, hw) ==
  IF \/ "unknown" \in {hw.applicability, c.applicability}
     \/ hw.applicability = "synthetic_only" /\ c.applicability # "synthetic_only"
  THEN "unknown"
  ELSE "compatible"

\* `unavailable`: the contract fixes an ISA variant or a revision.
PlatformChecks(c, hw) ==
  {Equal(c.architecture, hw.architecture),
   PlatformMatch(c, hw), ProcessorMatch(c, hw), ScopeMatch(c, hw)}
  \cup (IF hw.unavailable THEN {"unknown"} ELSE {})

-----------------------------------------------------------------------------
(* _trigger_alternative: one primitive and one trigger condition.          *)
Mapped(kind) ==
  CASE kind = "instruction" -> {"INSTRUCTION_EXECUTION"}
    [] kind = "CSR_access"  -> CsrKinds
    [] kind = "MMIO_access" -> MmioKinds
    [] OTHER                -> {}

RequiredClass(kind) ==
  CASE kind = "CSR_access" -> "csr" [] kind = "MMIO_access" -> "mmio" [] OTHER -> Nothing

\* A primitive of another kind: a conflict if it is about another resource class.
Unmapped(t, p) ==
  LET class == IF p.kind \in MemoryKinds \cup MmioKinds \cup CsrKinds THEN ClassOf(p.kind) ELSE Nothing
  IN  IF Stated(RequiredClass(t.kind)) /\ Stated(class) /\ class # RequiredClass(t.kind)
      THEN "incompatible"
      ELSE "unknown"

\* Something about the primitive or the condition is stated without a definition.
HasGap(c, t, p) ==
  \/ \E k \in ConstraintKinds : Stated(p.constraints[k]) /\ ~Usable(p.constraints[k])
  \/ t.status \in Unformalized
  \/ p.status \in Unformalized \/ p.basis = "unknown"
  \/ \E x \in c.conditions : x.id \in p.conditions /\ (~Stated(x.predicate) \/ x.status \in Unformalized)

Direction(p) == IF p.kind \in {"CSR_READ", "MMIO_READ"} THEN "read" ELSE "write"

Field(cs, k, f) == IF Usable(cs[k]) THEN cs[k][f] ELSE Nothing

CsrChecks(a, cs) ==
  (IF Stated(a.csr) THEN {Equal(Field(cs, "csr", "identity"), a.csr)} ELSE {})
  \cup (IF Stated(a.number) THEN {"unknown"} ELSE {})

WidthOf(cs) == IF Usable(cs.width) THEN ExactOf(cs.width) ELSE Nothing

MmioChecks(a, cs) ==
  {CompareDomains(Field(cs, "address", "domain"), a.address)}
  \cup (IF Stated(a.width) THEN {Equal(WidthOf(cs), a.width)} ELSE {})

AccessChecks(t, p) ==
  LET a == t.access cs == p.constraints
  IN  {Verdict(a.direction \in {Direction(p), "either"}),
       Equal(Field(cs, "resource", "class"), RequiredClass(t.kind))}
      \cup (IF t.kind = "CSR_access" THEN CsrChecks(a, cs) ELSE MmioChecks(a, cs))
      \cup (IF Stated(a.value) THEN {CompareValue(Field(cs, "value", "domain"), a.value)} ELSE {})

\* (A capability has no field that an instruction condition could be compared with.)
AlternativeChecks(c, t, p) ==
  IF p.kind \notin Mapped(t.kind) THEN {Unmapped(t, p)}
  ELSE {"compatible"} \cup (IF HasGap(c, t, p) THEN {"unknown"} ELSE {})
       \cup (IF t.kind = "instruction" \/ ~Stated(t.access) THEN {"unknown"} ELSE AccessChecks(t, p))

AlternativeOutcome(c, t, p) == AggregateRequired(AlternativeChecks(c, t, p))

\* _trigger: any primitive will do; those that do are matched.
TriggerOutcome(c, t) == Alternatives({AlternativeOutcome(c, t, p) : p \in c.primitives})
Matched(c, t) == {p \in c.primitives : AlternativeOutcome(c, t, p) = "compatible"}

-----------------------------------------------------------------------------
(* Preconditions and orders are about the primitive that is matched: every *)
(* trigger condition must have one, and only one.                          *)
Trigger(hw)  == {t \in hw.trigger : t.kind # "ordering"}
Orderings(hw) == {t \in hw.trigger : t.kind = "ordering"}

\* A variant that takes any of the matched primitives.
Context_Any(c, hw) == UNION {Matched(c, t) : t \in Trigger(hw)}

Context(c, hw) ==
  LET selected == UNION {Matched(c, t) : t \in Trigger(hw)}
      everywhere == \A t \in Trigger(hw) : Matched(c, t) # {}
  IN  IF Sole(selected) /\ everywhere THEN selected ELSE {}

\* The subjects of external control are exact words, one for each dimension.
ControlCheck(q, p) ==
  IF q.operator = "eq" /\ q.operand = TRUE /\ ~Stated(q.unit)
     /\ p.control.status \in Established /\ q.subject \in p.control.dimensions
  THEN "compatible"
  ELSE "unknown"

\* What the primitive and its conditions state of a machine state.
States(c, pre, p) ==
  (IF pre.kind \in {"privilege", "context"} /\ Usable(p.constraints[pre.kind])
   THEN {p.constraints[pre.kind].identity} ELSE {})
  \cup {x.predicate.operand : x \in {x \in c.conditions :
           /\ x.id \in p.conditions /\ x.kind = pre.kind
           /\ x.status \notin Unformalized /\ Stated(x.predicate)
           /\ x.predicate.subject = pre.predicate.subject /\ x.predicate.operator = "eq"}}

ValidSubject(pre) ==
  CASE pre.kind = "privilege" -> pre.predicate.subject \in {"privilege", "execution_mode"}
    [] pre.kind = "context"   -> pre.predicate.subject \in {"execution_context", "mode"}
    [] OTHER                  -> TRUE

StateCheck(c, pre, p) ==
  LET q == pre.predicate
      values == States(c, pre, p)
  IN  IF q.operator = "eq" /\ ~Stated(q.unit) /\ ValidSubject(pre) /\ Sole(values)
      THEN Equal(CHOOSE v \in values : TRUE, q.operand)
      ELSE "unknown"

\* _precondition
PreconditionChecks(c, pre, hw) ==
  IF ~Stated(pre.predicate) \/ pre.status \in Unformalized THEN {"unknown"}
  ELSE IF Context(c, hw) = {} THEN {"unknown"}
  ELSE IF pre.kind = "other" /\ pre.predicate.subject \in DOMAIN Dimension
  THEN {ControlCheck(pre.predicate, p) : p \in Context(c, hw)}
  ELSE IF pre.kind \in {"privilege", "register_state", "context"}
  THEN {StateCheck(c, pre, p) : p \in Context(c, hw)}
  ELSE {"unknown"}

\* _ordering: the declared order of the two matched primitives.
Between(c, a, b) == {o \in c.orders : o.before = a.id /\ o.after = b.id}

OrderChecks(o, t) ==
  {"compatible"}
  \cup (IF o.status \in Unformalized THEN {"unknown"} ELSE {})
  \cup (IF ~Stated(t.ordering.gap) THEN {}
        ELSE IF Stated(o.gap) /\ o.gap <= t.ordering.gap THEN {"compatible"}
        ELSE {"unknown"})
  \cup (IF Stated(t.ordering.time) THEN {"unknown"} ELSE {})

OrderOf(c, a, b, t) ==
  LET direct == Between(c, a, b)
      reverse == Between(c, b, a)
  IN  IF a = b \/ (direct # {} /\ (~Sole(direct) \/ reverse # {})) THEN {"unknown"}
      ELSE IF direct # {} THEN OrderChecks(CHOOSE o \in direct : TRUE, t)
      ELSE IF reverse # {} /\ \A o \in reverse : o.status \notin Unformalized THEN {"incompatible"}
      ELSE {"unknown"}

OrderingChecks(c, t, hw) ==
  LET ends(id) == UNION {Matched(c, x) : x \in {x \in Trigger(hw) : x.id = id}}
      before == ends(t.ordering.before)
      after  == ends(t.ordering.after)
  IN  IF ~Stated(t.ordering) \/ t.status \in Unformalized THEN {"unknown"}
      ELSE IF ~Sole(before) \/ ~Sole(after) THEN {"unknown"}
      ELSE OrderOf(c, CHOOSE p \in before : TRUE, CHOOSE p \in after : TRUE, t)

-----------------------------------------------------------------------------
\* compare_capability_contract: a row per requirement and the overall outcome; the
\* requirements without a role, and a contract without a trigger, are unknown.
RowOutcome(c, r, hw) ==
  IF r \in Trigger(hw) THEN TriggerOutcome(c, r)
  ELSE IF r \in Orderings(hw) THEN AggregateRequired(OrderingChecks(c, r, hw))
  ELSE AggregateRequired(PreconditionChecks(c, r, hw))

Compare(c, hw) ==
  LET platform == AggregateRequired(PlatformChecks(c, hw))
      rows == [r \in hw.trigger \cup hw.preconditions |-> RowOutcome(c, r, hw)]
  IN  [platform |-> platform, rows |-> rows,
       overall |-> AggregateRequired({platform} \cup {rows[r] : r \in DOMAIN rows}
                     \cup (IF hw.trigger = {} \/ hw.unclassified THEN {"unknown"} ELSE {}))]
=============================================================================
