-------------------------- MODULE HardwareContract --------------------------
(***************************************************************************)
(* The part of a hardware behaviour contract (hardware/behavior_contract.py*)
(* and the atoms of cross_layer/trigger.py) that a firmware capability is  *)
(* compared with.                                                          *)
(*                                                                         *)
(* A contract is [architecture, platforms, platform, processor,            *)
(* applicability, unavailable, trigger, preconditions, unclassified], where*)
(* `unavailable` says that it fixes an ISA variant or a revision, and      *)
(* `unclassified` that it has a requirement without a role.  A trigger     *)
(* condition is [id, kind, status, access, relation, ordering], a          *)
(* precondition [id, kind, status, predicate].  Of an instruction, and of  *)
(* deviations and observations, nothing is compared.                       *)
(***************************************************************************)
EXTENDS FirmwareCapability

\* ValueConstraint, [operator, low, high]: a mask is one of low bits.
ValidValue(v) == v.operator \in {"in_range", "masked_eq"} => 0 <= v.low /\ v.low <= v.high

\* MMIOTriggerAtom and CSRTriggerAtom: a CSR has a name or a number.
ValidAccess(t) ==
  LET a == t.access
  IN  /\ a.direction \in {"read", "write", "either"}
      /\ t.kind = "MMIO_access" => Stated(a.address)
      /\ t.kind = "CSR_access" => Stated(a.csr) \/ Stated(a.number)
      /\ Stated(a.width) => a.width > 0
      /\ Stated(a.value) => ValidValue(a.value)

\* OrderingTriggerAtom, and what the contract asks of it: it is about two other
\* trigger conditions.
ValidOrdering(t, hw) ==
  /\ t.ordering.before # t.ordering.after
  /\ {t.ordering.before, t.ordering.after} \subseteq {x.id : x \in {x \in hw.trigger : x.kind # "ordering"}}

\* TriggerCondition: the payload is that of the kind, and a formalized one has it.
Payload(kind) ==
  CASE kind \in {"MMIO_access", "CSR_access"} -> "access"
    [] kind = "ordering" -> "ordering"
    [] OTHER -> "relation"

ValidTrigger(t, hw) ==
  /\ \A f \in {"access", "ordering", "relation"} : Stated(t[f]) => f = Payload(t.kind) /\ t.kind # "instruction"
  /\ t.status = "formalized" /\ t.kind # "instruction" => Stated(t[Payload(t.kind)])
  /\ Stated(t.access) => ValidAccess(t)
  /\ Stated(t.ordering) => ValidOrdering(t, hw)

\* Precondition.
ValidPrecondition(pre) == pre.status = "formalized" => Stated(pre.predicate)

\* Scope and Platform.
ValidScope(hw) ==
  /\ hw.applicability = "specified_targets" => hw.platforms # {}
  /\ hw.platforms # {} => hw.platform \in hw.platforms

ValidContract(hw) ==
  /\ ValidScope(hw)
  /\ hw.trigger \cap hw.preconditions = {}
  /\ \A r, q \in hw.trigger \cup hw.preconditions : r.id = q.id => r = q
  /\ \A t \in hw.trigger : ValidTrigger(t, hw)
  /\ \A pre \in hw.preconditions : ValidPrecondition(pre)
=============================================================================
