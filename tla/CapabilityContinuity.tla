----------------------- MODULE CapabilityContinuity -----------------------
(***************************************************************************)
(* cross_layer/capability_continuity.py: is a static capability also one   *)
(* of those that a run was reviewed for?                                   *)
(***************************************************************************)
EXTENDS FirmwareCapability

\* _semantics of a capability with exactly one primitive.
Single(c) == Cardinality(c.primitives) = 1

ClassIn(cs) == IF Stated(cs.resource) THEN cs.resource.class ELSE Nothing

Semantics(c) ==
  LET p == CHOOSE p \in c.primitives : TRUE
      cs == p.constraints
  IN  [elf |-> c.elf, architecture |-> c.architecture, pc |-> p.pc, kind |-> p.kind,
       class |-> ClassIn(cs), address |-> ExactOf(cs.address), width |-> ExactOf(cs.width),
       value |-> ExactOf(cs.value), encoding |-> p.encoding]

Site(m) == <<m.elf, m.architecture, m.pc>>

\* A variant that does not ask for the fields to be known.
Complete_Always(m) == TRUE

\* The fields that must be known before two accounts can conflict.
Complete(m) == \A f \in {"kind", "class", "address", "width"} : Stated(m[f])

\* bind_static_runtime_capabilities, for one static capability.
Continuity(c, runtime) ==
  LET s == Semantics(c)
      sameSite == {r \in runtime : Single(r) /\ Site(Semantics(r)) = Site(s)}
      exact    == {r \in sameSite : Semantics(r) = s}
  IN  IF ~Single(c) \/ ~Stated(c.elf) THEN "UNKNOWN"
      ELSE IF ~Stated(s.pc) THEN "UNKNOWN"
      ELSE IF Cardinality(exact) = 1 THEN "BOUND"
      ELSE IF Cardinality(exact) > 1 THEN "AMBIGUOUS"
      ELSE IF sameSite # {} /\ \A r \in sameSite \cup {c} : Complete(Semantics(r)) THEN "CONTRADICTED"
      ELSE "UNKNOWN"
=============================================================================
