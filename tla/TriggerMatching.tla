--------------------------- MODULE TriggerMatching ---------------------------
(***************************************************************************)
(* The matcher of XL0: whether the facts that an analyst binds to the      *)
(* atoms of a hardware trigger condition (cross_layer/trigger.py) agree    *)
(* with it.  eligibility.py says which firmware and hardware may be        *)
(* compared, facts.py and adapters.py make facts of what the analyses      *)
(* found, and matcher.py and contracts.py compare them.                    *)
(*                                                                         *)
(* A fact is [source, id, site, kind, fields, path, status]; its fields    *)
(* are a function on the names of those that are known.  An atom is        *)
(* [id, kind, required, wants], with a function from the fields it asks    *)
(* for to what it asks of them; a number is asked for as in Satisfies.  A  *)
(* reference to a fact carries the digest of its source, so that one from  *)
(* before the source changed is refused: references are facts here.        *)
(***************************************************************************)
EXTENDS RequirementMatching

NoFields == [key \in {} |-> Nothing]
Get(fields, key) == IF key \in DOMAIN fields THEN fields[key] ELSE Nothing
Merge(f, g) == [key \in DOMAIN f \cup DOMAIN g |-> IF key \in DOMAIN g THEN g[key] ELSE f[key]]

-----------------------------------------------------------------------------
(* assess: a target is [architecture, isa, bits, endianness].              *)
Clash(a, b, field) == Stated(a[field]) /\ Stated(b[field]) /\ a[field] # b[field]

Eligibility(firmware, hardware, manifest) ==
  IF \/ \E field \in {"architecture", "isa", "bits", "endianness"} : Clash(firmware, hardware, field)
     \/ Stated(manifest) /\ manifest.firmware # manifest.hardware
  THEN "ineligible"
  ELSE IF Stated(manifest) /\ Stated(firmware.architecture) /\ Stated(hardware.architecture) THEN "eligible"
  ELSE "unknown"

-----------------------------------------------------------------------------
(* FirmwareFactSources.                                                    *)

\* The forms of instruction whose operands RISCVAdapter reads; a memory operand has
\* its base in `register` and its displacement in `immediate`.
Form(mnemonic) ==
  CASE mnemonic \in {"lb", "lbu", "lh", "lhu", "lw", "lwu", "ld"} -> "load"
    [] mnemonic \in {"sb", "sh", "sw", "sd"} -> "store"
    [] mnemonic \in {"addi", "andi", "ori", "xori", "slti", "sltiu"} -> "immediate"
    [] mnemonic \in {"lui", "auipc"} -> "upper"
    [] OTHER -> "other"

OperandFields(d, architecture) ==
  LET o == d.operands
      Is(form, shape) == Form(d.mnemonic) = form /\ [i \in DOMAIN o |-> o[i].kind] = shape
  IN  CASE architecture # "riscv" -> NoFields
        [] Is("load", <<"register", "memory">>) ->
             [base |-> o[2].register, immediate |-> o[2].immediate, destination |-> o[1].register]
        [] Is("store", <<"register", "memory">>) ->
             [base |-> o[2].register, immediate |-> o[2].immediate, sources |-> <<o[1].register>>]
        [] Is("immediate", <<"register", "register", "immediate">>) ->
             [destination |-> o[1].register, sources |-> <<o[2].register>>, immediate |-> o[3].immediate]
        [] Is("upper", <<"register", "immediate">>) ->
             [destination |-> o[1].register, immediate |-> o[2].immediate]
        [] OTHER -> NoFields

DecodedFields(d, architecture) ==
  Merge(Merge([mnemonic |-> d.mnemonic, representation |-> d.representation, stage |-> d.stage],
              IF Stated(d.encoding) THEN [encoding |-> d.encoding] ELSE NoFields),
        OperandFields(d, architecture))

\* A behaviour is decoded, or annotated (of a fixture), or neither; it is of a site
\* if all its evidence is.
BehaviorFact(b, architecture) ==
  [source |-> "behavior", id |-> b.id, kind |-> b.kind, path |-> <<>>, status |-> Nothing,
   site |-> IF Cardinality(b.addresses) = 1 THEN CHOOSE a \in b.addresses : TRUE ELSE Nothing,
   fields |-> IF Stated(b.annotation) THEN b.annotation
              ELSE IF b.kind = "instruction" /\ Stated(b.decoded) THEN DecodedFields(b.decoded, architecture)
              ELSE NoFields]

\* Of the static relations, the direction of an MMIO access is compared.
RelationFact(r) ==
  [source |-> "relation", id |-> r.id, kind |-> "mmio_access", path |-> <<>>, status |-> Nothing,
   site |-> r.site, fields |-> IF Stated(r.direction) THEN [access |-> r.direction] ELSE NoFields]

\* A reachability fact and its witness, which reaches a site or (site is Nothing) a function.
PathFact(p) ==
  [source |-> "reachability", id |-> p.id, kind |-> Nothing, path |-> p.path, status |-> p.status,
   site |-> p.site, fields |-> NoFields]

Positive(status) ==
  status \in {"reachable_static", "reachable_static_no_fakeret", "reachable_static_with_fakeret"}

-----------------------------------------------------------------------------
(* HardwareTriggerConditionInput.                                          *)
OperandKeys == {"destination", "sources", "base", "immediate"}

ValidAtom(t) ==
  /\ t.kind = "instruction" => DOMAIN t.wants \cap ({"mnemonic", "encoding"} \cup OperandKeys) # {}
  /\ "encoding" \in DOMAIN t.wants => /\ t.kind = "instruction" /\ "representation" \in DOMAIN t.wants
                                      /\ t.wants.representation # "unknown"
  /\ t.kind = "csr_access" => DOMAIN t.wants \cap {"identity", "number"} # {}
  /\ \A key \in DOMAIN t.wants \cap {"value", "state", "immediate"} : ValidValue(t.wants[key])
  /\ t.kind # "ordering" => \A key \in DOMAIN t.wants : Stated(t.wants[key])

ValidTriggerCondition(c) ==
  LET required == {t \in c.atoms : t.required}
      events == {t.id : t \in {t \in required : t.kind # "ordering"}}
  IN  /\ required # {}
      /\ \A t, u \in c.atoms : t.id = u.id => t = u
      /\ \A t \in c.atoms : /\ ValidAtom(t)
                            /\ t.kind = "ordering" => /\ t.wants.before # t.wants.after
                                                      /\ {t.wants.before, t.wants.after} \subseteq events

-----------------------------------------------------------------------------
(* One atom: `_requirements` and `_result`.  A check is yes, no or unknown.*)
YesNo(b) == IF b THEN "yes" ELSE "no"

\* normalize_register, of a few of the registers: only ARM resolves aliases.
Numbered(architecture) ==
  [riscv |-> {"x1", "x2", "x5"}, arm |-> {"r1", "r2", "r13"}, powerpc |-> {"r1", "r2"}][architecture]

Normal(name, architecture) ==
  LET register == IF architecture = "arm" /\ name = "sp" THEN "r13" ELSE name
  IN  IF register \in Numbered(architecture) THEN register ELSE Nothing

SameRegister(want, actual, architecture) ==
  IF ~Stated(actual) \/ Nothing \in {Normal(want, architecture), Normal(actual, architecture)} THEN "unknown"
  ELSE YesNo(Normal(want, architecture) = Normal(actual, architecture))

SameRegisters(want, actual, architecture) ==
  IF ~Stated(actual) THEN "unknown"
  ELSE LET names == {want[i] : i \in DOMAIN want} \cup {actual[i] : i \in DOMAIN actual}
           All(list) == [i \in DOMAIN list |-> Normal(list[i], architecture)]
       IN  IF \E name \in names : ~Stated(Normal(name, architecture)) THEN "unknown"
           ELSE YesNo(All(want) = All(actual))

\* A fact that leaves the direction open does not tell which it is.
SameAccess(want, actual) ==
  IF ~Stated(actual) \/ (actual = "either" /\ want # "either") THEN "unknown"
  ELSE YesNo(want \in {"either", actual})

Fitting(want, actual) == IF Stated(actual) THEN YesNo(Satisfies(actual, want)) ELSE "unknown"

\* A variant that compares encodings of two representations.
Check_AnyRepresentation(key, wants, fields, architecture) ==
  LET want == wants[key] actual == Get(fields, key)
  IN  CASE key \in {"register", "destination", "base"} -> SameRegister(want, actual, architecture)
        [] key = "sources" -> SameRegisters(want, actual, architecture)
        [] key = "access" -> SameAccess(want, actual)
        [] key \in {"representation", "stage"} -> IF actual = want THEN "yes" ELSE "unknown"
        [] key \in {"encoding", "immediate", "value", "state"} -> Fitting(want, actual)
        [] OTHER -> IF Stated(actual) THEN YesNo(actual = want) ELSE "unknown"

\* A static decode does not tell which stages an instruction reaches, and a mode that
\* is not stated is not compared.
Check(key, wants, fields, architecture) ==
  LET want == wants[key] actual == Get(fields, key)
  IN  CASE key \in {"register", "destination", "base"} -> SameRegister(want, actual, architecture)
        [] key = "sources" -> SameRegisters(want, actual, architecture)
        [] key = "access" -> SameAccess(want, actual)
        [] key \in {"representation", "stage"} -> IF actual = want THEN "yes" ELSE "unknown"
        [] key = "encoding" -> IF Get(fields, "representation") = wants.representation
                               THEN Fitting(want, actual) ELSE "unknown"
        [] key \in {"immediate", "value", "state"} -> Fitting(want, actual)
        [] key = "mode" /\ "unknown" \in {want, actual} -> "unknown"
        [] OTHER -> IF Stated(actual) THEN YesNo(actual = want) ELSE "unknown"

\* With an encoding, the representation is no check of its own.
Checks(wants, fields, architecture) ==
  {Check(key, wants, fields, architecture) :
     key \in DOMAIN wants \ (IF "encoding" \in DOMAIN wants THEN {"representation"} ELSE {})}

AtomOutcome(checks) ==
  IF "no" \in checks THEN "conflict"
  ELSE IF checks = {"yes"} THEN "matched"
  ELSE IF "yes" \in checks THEN "partial"
  ELSE "unknown"

-----------------------------------------------------------------------------
(* match_trigger_condition.  `bound` gives [site, refs] for some atoms.    *)
Disagree(facts) ==
  \E f, g \in facts : \E key \in DOMAIN f.fields \cap DOMAIN g.fields : f.fields[key] # g.fields[key]

FieldsOfAll(facts) ==
  [key \in UNION {DOMAIN f.fields : f \in facts} |->
     LET f == CHOOSE f \in facts : key \in DOMAIN f.fields IN f.fields[key]]

First(path, site) == CHOOSE i \in DOMAIN path : path[i] = site /\ \A j \in 1 .. i - 1 : path[j] # site

Witness(p, before, after) ==
  /\ Positive(p.status) /\ 2 \in DOMAIN p.path
  /\ {before, after} \subseteq {p.path[i] : i \in DOMAIN p.path}
  /\ First(p.path, before) < First(p.path, after)

\* _ordering: edges of a graph are no events, so that a gap is not known.
OrderingStatus(wants, bound, paths) ==
  IF /\ {wants.before, wants.after} \subseteq DOMAIN bound
     /\ \E p \in paths : Witness(p, bound[wants.before].site, bound[wants.after].site)
  THEN AtomOutcome({"yes"} \cup (IF Stated(wants.gap) THEN {"unknown"} ELSE {}))
  ELSE "unknown"

\* A variant that takes one of the facts where they disagree.
FieldStatus_AnyFact(t, refs, architecture) ==
  AtomOutcome(Checks(t.wants, FieldsOfAll({f \in refs : f.kind = t.kind}), architecture))

FieldStatus(t, refs, architecture) ==
  LET facts == {f \in refs : f.kind = t.kind}
  IN  IF Disagree(facts) THEN "unknown"
      ELSE AtomOutcome(Checks(t.wants, FieldsOfAll(facts), architecture))

AtomStatus(t, bound, paths, architecture) ==
  IF ~t.required THEN "not_applicable"
  ELSE IF t.kind = "ordering" THEN OrderingStatus(t.wants, bound, paths)
  ELSE IF t.kind = "hardware_state" \/ t.id \notin DOMAIN bound THEN "unknown"
  ELSE FieldStatus(t, bound[t.id].refs, architecture)

AggregateStatus(statuses) ==
  IF "conflict" \in statuses THEN "conflict"
  ELSE IF statuses = {"matched"} THEN "full_static_match"
  ELSE IF "matched" \in statuses THEN "partial_static_match"
  ELSE "insufficient_information"

\* What the call refuses: bindings of other atoms, facts of other sites, and paths
\* that lead by none of the sites that are bound.
Admissible(c, bound, paths) ==
  LET sites == {bound[id].site : id \in DOMAIN bound}
  IN  /\ DOMAIN bound \subseteq {t.id : t \in {t \in c.atoms : t.required /\ t.kind # "ordering"}}
      /\ \A id \in DOMAIN bound : /\ bound[id].refs # {}
                                  /\ \A f \in bound[id].refs : f.site = bound[id].site
      /\ \A p \in paths : /\ p.source = "reachability"
                          /\ \/ p.path = <<>>
                             \/ sites \cap ({p.path[i] : i \in DOMAIN p.path} \cup {p.site}) # {}

Associate(c, bound, paths, architecture) ==
  LET status == [t \in c.atoms |-> AtomStatus(t, bound, paths, architecture)]
  IN  [status |-> status, overall |-> AggregateStatus({status[t] : t \in {t \in c.atoms : t.required}})]
=============================================================================
