----------------------------- MODULE CrossLayer -----------------------------
(***************************************************************************)
(* The static side of the cross-layer comparison: facts or declarations    *)
(* about a firmware become capabilities, and these are matched with a      *)
(* contract (RequirementMatching), compared with it (CapabilityCompati-    *)
(* bility), and bound to what a run was reviewed for (CapabilityContinu-   *)
(* ity).  Of a firmware only a part is known; what is true of it is in     *)
(* `world`, which the code never sees.                                     *)
(*                                                                         *)
(* In a "static" world the frontend has established some of the fields of  *)
(* its facts.  In a "declared" world a capability is defined by hand, and  *)
(* is formalized little by little (Learn).  In a "sites" world an analyst  *)
(* binds the facts of the analyses, some of which may be mistaken, to the  *)
(* atoms of a trigger condition (TriggerMatching), and the analyses come   *)
(* to know more (Establish).  The results are pure functions of their      *)
(* inputs, so that a behaviour asks for one of them.                       *)
(***************************************************************************)
EXTENDS TriggerMatching, CapabilityCompatibility, CapabilityContinuity, Sequences

CONSTANTS
  Worlds,        \* the firmwares: static, declared or sites
  Contracts,     \* the hardware behaviour contracts
  Conditions     \* the hardware trigger conditions

ASSUME ContractsAssumption == \A hw \in Contracts : ValidContract(hw)
ASSUME ConditionsAssumption == \A c \in Conditions : ValidTriggerCondition(c)

VARIABLES
  world,
  known,         \* the pairs <<fact or primitive, field>> that are established
  capabilities,  \* the projection of the facts, per site, or Raised
  candidate,     \* a result of match_requirements
  record,        \* a result of compare_capability_contract
  continuity,    \* a result of bind_static_runtime_capabilities
  association    \* a result of match_trigger_condition

vars == <<world, known, capabilities, candidate, record, continuity, association>>

-----------------------------------------------------------------------------
(* What is known.                                                          *)
Sites == DOMAIN world.truth

\* An address has a width like any number, and a width is itself a number of that width
\* (a fact of arithmetic, stated as the provers have no theory of powers).
ASSUME BitsAssumption == AddressBits \in 1 .. MaxBits /\ \A n \in 1 .. MaxBits : n < 2 ^ n

\* What is true of a static world is said of every site in the fields of a fact.  The
\* frontend knows the register of an access to one, and takes for MMIO what is MMIO.
FactFields == {"kind", "status", "address", "width", "value", "register", "target"}

ASSUME FactsAssumption ==
  \A w \in Worlds : w.lane = "static" => \A s \in DOMAIN w.truth :
    LET f == w.truth[s]
    IN  /\ DOMAIN f = FactFields
        /\ {f.address, f.value} \subseteq Int \cup {Nothing} /\ f.width \in Nat \cup {Nothing}
        /\ f.kind \in SystemAccess => Stated(f.register)
        /\ f.kind \in MmioKinds => f.address \in w.mmio

\* The fact of a site; the frontend establishes kinds, registers and targets.
FactIn(w, k, s) ==
  LET IfKnown(field) == IF <<s, field>> \in k THEN w.truth[s][field] ELSE Nothing
  IN  [w.truth[s] EXCEPT !.address = IfKnown("address"), !.width = IfKnown("width"),
                         !.value = IfKnown("value")]
FactOf(s) == FactIn(world, known, s)

\* A primitive of a declared capability, as far as it is formalized.  What is not
\* is left out, or is "vague": stated and not formalized.
View(q, k, vague) ==
  [id |-> q.id, kind |-> q.kind, pc |-> q.pc, encoding |-> q.encoding, basis |-> q.basis,
   conditions |-> q.conditions,
   status |-> IF <<q.id, "definition">> \in k THEN q.status ELSE "unknown",
   control |-> IF <<q.id, "control">> \in k THEN q.control ELSE NoControl,
   constraints |->
     [x \in ConstraintKinds |->
        IF <<q.id, x>> \in k THEN q.constraints[x]
        ELSE IF <<q.id, x>> \in vague THEN [q.constraints[x] EXCEPT !.status = "unknown"]
        ELSE Nothing]]

ConditionView(x, k) ==
  [id |-> x.id, kind |-> x.kind,
   status |-> IF <<x.id, "condition">> \in k THEN x.status ELSE "unknown",
   predicate |-> IF <<x.id, "condition">> \in k THEN x.predicate ELSE Nothing]

Declared(w, k) ==
  [architecture |-> w.capability.architecture, origin |-> w.capability.origin,
   elf |-> w.capability.elf, site |-> w.capability.site, execution |-> "static_only",
   retired |-> FALSE, applicability |-> w.capability.applicability,
   processor |-> w.capability.processor,
   platform |-> IF <<"scope", "platform">> \in k THEN w.capability.platform ELSE Nothing,
   conditions |-> {ConditionView(x, k) : x \in w.capability.conditions},
   orders |-> {o \in w.capability.orders : <<o.before, o.after>> \in k},
   primitives |-> {View(q, k, w.vague) : q \in w.capability.primitives}]

\* What a declared world begins with is accepted; what it lets learn of a constraint is
\* a formalized one, and what is vague has its status and the rest of its form.
Part(x) == IF x \in NumericKinds THEN "domain" ELSE IF x = "target" THEN "targets" ELSE "identity"

ASSUME WorldsAssumption ==
  \A w \in Worlds : w.lane = "declared" =>
    /\ ValidCapability(Declared(w, w.start))
    /\ \A q \in w.capability.primitives, x \in ConstraintKinds :
         /\ Stated(q.constraints[x]) => Usable(q.constraints[x])
         /\ <<q.id, x>> \in w.vague =>
              Stated(q.constraints[x]) /\ {"status", Part(x)} \subseteq DOMAIN q.constraints[x]

\* The catalogs are accepted, and those of a static world are right about where the
\* memory is.
ASSUME CatalogsAssumption ==
  \A w \in Worlds : w.lane \in {"static", "declared"} =>
    \A catalog \in w.catalogs :
      /\ ValidCatalog(catalog) /\ IsFiniteSet(catalog.resources)
      /\ w.lane = "static" => \A r \in catalog.resources, a \in w.mmio : r.kind = "MEMORY_REGION" => ~Holds(r, a)

\* The accounts of a run are of accesses to MMIO registers (mmio_capability.py).
ASSUME AccountsAssumption ==
  \A w \in Worlds : w.lane = "static" =>
    \A accounts \in w.accounts :
      /\ IsFiniteSet(accounts)
      /\ \A r \in accounts : Single(r) => LET m == Semantics(r) IN m.kind \in MmioKinds /\ m.class = "mmio"

\* The behaviours, relations and witnesses of a sites world, when all is known.
Whole(f, architecture) ==
  CASE f.source = "behavior" -> BehaviorFact(f, architecture)
    [] f.source = "relation" -> RelationFact(f)
    [] OTHER                 -> PathFact(f)

\* What the analyses have of them: decoding an instruction gives all but the encoding
\* at once, an annotation gives its fields one by one, and a search finds a path.
Fact(w, k, f) ==
  LET whole == Whole(f, w.architecture)
      Has(field) == <<f.id, field>> \in k
      Shown(key) == IF f.source = "behavior" /\ ~Stated(f.annotation)
                    THEN Has("decoded") /\ (key = "encoding" => Has("encoding"))
                    ELSE Has(key)
      missed == f.source = "reachability" /\ ~Has("path")
  IN  [whole EXCEPT !.fields = [key \in {key \in DOMAIN whole.fields : Shown(key)} |-> whole.fields[key]],
                    !.path = IF missed THEN <<>> ELSE whole.path,
                    !.status = IF missed THEN "not_found_within_bound" ELSE whole.status]

\* What a reference names.
Resolve(w, k, ids) == {Fact(w, k, f) : f \in {f \in w.facts : f.id \in ids}}
ResolveAll(w, k, bound) ==
  [id \in DOMAIN bound |-> [site |-> bound[id].site, refs |-> Resolve(w, k, bound[id].refs)]]
Ids(facts) == {f.id : f \in facts}

\* The capabilities that are made of the facts, with a catalog or without.
Said(manual, s) == IF s \in DOMAIN manual THEN manual[s] ELSE Nothing

Made(w, k, catalog, manual) ==
  LET fact(s) == FactIn(w, k, s)
  IN  [s \in {s \in DOMAIN w.truth : Expressible(fact(s), w.architecture)} |->
         StaticCapability(s, fact(s), BoundResource(fact(s), catalog, Said(manual, s)), w)]

\* Nothing and Raised are neither a constraint of a capability nor what is materialized.
Names(w) ==
  {w.truth[s].register : s \in DOMAIN w.truth} \cup {Nothing}
  \cup (UNION {{r.id : r \in catalog.resources} : catalog \in w.catalogs})
CodeTargets(w) == {w.truth[s].target : s \in DOMAIN w.truth}

ASSUME ResultsAssumption ==
  LET Statuses == {"formalized", "partially_formalized"}
      Classes  == {"memory", "mmio", "csr", "control_flow"}
      Domains  == [low : Nat, high : Nat, masked : {FALSE}, controlled : {"none"}, width : Nat]
  IN
  /\ Nothing # Raised /\ Nothing \notin [status : Statuses, domain : Domains]
  /\ \A w \in Worlds : w.lane = "static" =>
       /\ Nothing \notin [status : Statuses, class : Classes, identity : Names(w)]
       /\ Nothing \notin [status : Statuses, class : Classes, identity : CodeTargets(w)]
       /\ Nothing \notin [status : Statuses, identity : Names(w)]
       /\ Nothing \notin [status : Statuses, targets : SUBSET CodeTargets(w)]
       /\ \A k \in SUBSET w.learnable, catalog \in w.catalogs \cup {Nothing}, manual \in w.manuals :
            Made(w, k, catalog, manual) # Raised

\* The capabilities that are passed on.
Capabilities ==
  IF world.lane = "declared" THEN [s \in {world.capability.site} |-> Declared(world, known)]
  ELSE capabilities

-----------------------------------------------------------------------------
Init ==
  /\ world \in Worlds
  /\ known \in (IF world.lane = "static" THEN SUBSET world.learnable ELSE {world.start})
  /\ capabilities = Nothing /\ candidate = Nothing /\ record = Nothing /\ continuity = Nothing
  /\ association = Nothing

\* bind_resources, which raises for a catalog or a declaration that is not of this
\* firmware, and materialize_synthetic_static_capabilities, with or without a catalog:
\* one capability that CAP0 does not accept refuses them all.
Project ==
  /\ world.lane = "static" /\ capabilities = Nothing
  /\ \E catalog \in world.catalogs \cup {Nothing}, manual \in world.manuals :
       LET made == Made(world, known, catalog, manual)
       IN  /\ Stated(catalog) => /\ catalog.architecture = world.architecture
                                 /\ DOMAIN manual \subseteq Sites
                                 /\ \A s \in Sites : Select(FactOf(s), catalog, Said(manual, s)) # Refused
           /\ capabilities' = IF \A s \in DOMAIN made : ValidCapability(made[s]) THEN made ELSE Raised
  /\ UNCHANGED <<world, known, candidate, record, continuity, association>>

\* Another field is established, if CAP0 accepts the capability with it.
Learn ==
  /\ world.lane = "declared" /\ candidate = Nothing
  /\ \E x \in world.learnable \ known :
       /\ ValidCapability(Declared(world, known \cup {x}))
       /\ known' = known \cup {x}
  /\ UNCHANGED <<world, capabilities, candidate, record, continuity, association>>

Open == Capabilities \notin {Nothing, Raised} /\ candidate = Nothing /\ record = Nothing /\ continuity = Nothing

\* bind_capabilities and match_requirements, with any catalog.
MatchContract ==
  /\ Open
  /\ \E catalog \in world.catalogs, manual \in world.manuals, contract \in Contracts :
       candidate' = [catalog |-> catalog, manual |-> manual,
                     result |-> Match(Capabilities, catalog, manual, contract)]
  /\ UNCHANGED <<world, known, capabilities, record, continuity, association>>

CompareContract ==
  /\ Open
  /\ \E s \in DOMAIN Capabilities, contract \in Contracts :
       record' = [site |-> s, contract |-> contract, result |-> Compare(Capabilities[s], contract)]
  /\ UNCHANGED <<world, known, capabilities, candidate, continuity, association>>

\* The accounts are capabilities of the MMIO analysis of the same or another firmware.
BindRuntime ==
  /\ Open /\ world.lane = "static"
  /\ \E accounts \in world.accounts :
       continuity' = [accounts |-> accounts,
                      status |-> [s \in DOMAIN Capabilities |-> Continuity(Capabilities[s], accounts)]]
  /\ UNCHANGED <<world, known, capabilities, candidate, record, association>>

\* match_trigger_condition for a pair that assess finds eligible.
MatchTrigger ==
  /\ world.lane = "sites" /\ association = Nothing
  /\ \E hardware \in world.targets, manifest \in world.manifests, c \in Conditions,
        ids \in world.bindings, pathids \in world.paths :
       LET bound == ResolveAll(world, known, ids) paths == Resolve(world, known, pathids)
       IN  /\ Eligibility(world.target, hardware, manifest) = "eligible"
           /\ c.architecture = hardware.architecture
           /\ Admissible(c, bound, paths)
           /\ association' = [condition |-> c, bound |-> bound, paths |-> paths,
                              result |-> Associate(c, bound, paths, world.architecture)]
  /\ UNCHANGED <<world, known, capabilities, candidate, record, continuity>>

\* The analyses are run again and know more.
Establish ==
  /\ world.lane = "sites"
  /\ \E x \in world.learnable \ known : known' = known \cup {x}
  /\ UNCHANGED <<world, capabilities, candidate, record, continuity, association>>

Next ==
  \/ Project \/ Learn \/ MatchContract \/ CompareContract \/ BindRuntime
  \/ MatchTrigger \/ Establish

Spec == Init /\ [][Next]_vars

-----------------------------------------------------------------------------
(* What is true.  An access is [site, kind, class, address, width, value,  *)
(* register], with ranges of addresses and values; a static one is exact.  *)
Exact(n) == [low |-> n, high |-> n]
Extent(c) == IF Stated(c) THEN [low |-> c.domain.low, high |-> c.domain.high] ELSE Exact(Nothing)

TrueClass(f) ==
  CASE f.kind \in MemoryAccess -> IF f.address \in world.mmio THEN "mmio" ELSE "memory"
    [] f.kind \in SystemAccess -> "csr"
    [] OTHER -> Nothing

StaticAccess(s, f) ==
  [site |-> s, kind |-> f.kind, class |-> TrueClass(f), address |-> Exact(f.address), width |-> f.width,
   value |-> Exact(IF f.kind \in ReadKinds THEN Nothing ELSE f.value), register |-> f.register]

DeclaredAccess(q) ==
  [site |-> q.id, kind |-> q.kind, class |-> ClassOf(q.kind), address |-> Extent(q.constraints.address),
   width |-> ExactOf(q.constraints.width), value |-> Extent(q.constraints.value), register |-> Sought(q).register]

Accesses ==
  IF world.lane = "static" THEN {StaticAccess(s, world.truth[s]) : s \in Sites}
  ELSE {DeclaredAccess(q) : q \in world.capability.primitives}

Goes(x, atom) == atom.direction \in {AccessOf(x.kind), "either"}

\* An access that a condition is about, and one that meets it.
About(x, t) ==
  CASE t.kind = "MMIO_access" -> x.address = Exact(t.access.address) /\ Goes(x, t.access)
    [] t.kind = "CSR_access"  -> Stated(x.register) /\ x.register = t.access.csr /\ Goes(x, t.access)
    [] OTHER                  -> x.address = Exact(t.relation.operand)

Meets(x, t) ==
  /\ About(x, t)
  /\ t.kind = "MMIO_access" /\ Stated(t.access.width) => x.width = t.access.width
  /\ t.kind \in {"MMIO_access", "CSR_access"} /\ Stated(t.access.value) =>
       Stated(ExactValue(x.value)) /\ Satisfies(ExactValue(x.value), t.access.value)

\* The catalog has one resource for the access, and it allows the access.
Allowed(x, catalog) ==
  LET found == {r \in catalog.resources :
                  IF x.kind \in MemoryAccess
                  THEN r.kind \in AddressedKinds /\ Stated(ExactValue(x.address)) /\ Holds(r, ExactValue(x.address))
                  ELSE r.kind = "CSR" /\ r.register = x.register}
  IN  /\ Cardinality(found) = 1
      /\ \A r \in found : /\ r.access = {} \/ AccessOf(x.kind) \in r.access
                          /\ ~Stated(r.width) \/ r.width = x.width

\* An access that can do what a condition asks: the value is one of its values.
Within(extent, n) == Stated(extent.low) /\ extent.low <= n /\ n <= extent.high

Can(x, t) ==
  /\ x.class = RequiredClass(t.kind)
  /\ Stated(t.access) =>
       /\ Goes(x, t.access)
       /\ CASE t.kind = "MMIO_access" -> /\ Within(x.address, t.access.address)
                                         /\ ~Stated(t.access.width) \/ x.width = t.access.width
            [] t.kind = "CSR_access"  -> x.register = t.access.csr
       /\ ~Stated(t.access.value) \/ t.access.value.operator # "eq" \/ Within(x.value, t.access.value.low)

\* What happens at a site, by the kinds of atoms: world.truth[site][kind] has the
\* registers by number, the encoding in each representation, and the stages as a set.
RegisterIn(w, name) == IF name \in DOMAIN w.alias THEN w.alias[name] ELSE name
RegisterOf(name) == RegisterIn(world, name)

Answers(key, want, wants, f) ==
  \/ key = "representation"
  \/ /\ key \in DOMAIN f
     /\ CASE key \in {"register", "destination", "base"} -> RegisterOf(want) = f[key]
          [] key = "sources" -> [i \in DOMAIN want |-> RegisterOf(want[i])] = f[key]
          [] key = "access" -> want \in {f[key], "either"}
          [] key = "encoding" -> Satisfies(f[key][wants.representation], want)
          [] key = "stage" -> want \in f[key]
          [] key \in {"immediate", "value", "state"} -> Satisfies(f[key], want)
          [] OTHER -> f[key] = want

HoldsAt(t, site) ==
  /\ t.kind \in DOMAIN world.truth[site]
  /\ \A key \in DOMAIN t.wants : Answers(key, t.wants[key], t.wants, world.truth[site][t.kind])

\* A field that a fact states as it is.
Plain(key, said) ==
  IF key \in {"encoding", "immediate", "value", "state"} THEN [operator |-> "eq", low |-> said, high |-> said] ELSE said

Right(fact, key) ==
  /\ fact.kind \in DOMAIN world.truth[fact.site]
  /\ Answers(key, Plain(key, fact.fields[key]), fact.fields, world.truth[fact.site][fact.kind])

\* Some field of the bound facts is mistaken, and none of them has it right.
Misled(t, refs) ==
  LET facts == {f \in refs : f.kind = t.kind}
  IN  \E f \in facts : \E key \in DOMAIN f.fields :
        /\ ~Right(f, key)
        /\ ~\E g \in facts : key \in DOMAIN g.fields /\ Right(g, key)

\* On some walk through the firmware, one site comes before another.
ComesBefore(w, before, after) ==
  \E walk \in w.walks : \E i, j \in DOMAIN walk : i < j /\ walk[i] = before /\ walk[j] = after
Precedes(before, after) == ComesBefore(world, before, after)

\* What an atom asks happens where it is bound; nothing is known of the hardware's state.
Happens(t, bound) ==
  CASE t.kind = "ordering" -> Precedes(bound[t.wants.before].site, bound[t.wants.after].site)
    [] t.kind = "hardware_state" -> FALSE
    [] OTHER -> HoldsAt(t, bound[t.id].site)

\* Of a sites world: annotations have no encoding (facts.py, SyntheticBehaviorFields),
\* the registers have their numbers whatever they are called, and a path that is found
\* goes along walks of the firmware.
ASSUME SitesAssumption ==
  \A w \in Worlds : w.lane = "sites" =>
    /\ \A f \in w.facts :
         /\ f.source = "behavior" /\ Stated(f.annotation) => "encoding" \notin DOMAIN f.annotation
         /\ f.path \in Seq({f.path[i] : i \in DOMAIN f.path})
         /\ Positive(f.status) =>
              \A i, j \in DOMAIN f.path : i < j => ComesBefore(w, f.path[i], f.path[j])
    /\ \A a, b \in Numbered(w.architecture) \cup {"sp"} :
         Stated(Normal(a, w.architecture)) /\ Stated(Normal(b, w.architecture)) =>
           (RegisterIn(w, a) = RegisterIn(w, b) <=> Normal(a, w.architecture) = Normal(b, w.architecture))

-----------------------------------------------------------------------------
(* Properties.                                                             *)

\* A capability that CAP0 does not accept comes from a number that does not fit its
\* width: nothing else that the frontend leaves open makes the projection raise
\* (static_capability.py, capability.py).
Below(n, bits) == n \in 0 .. 2 ^ bits - 1

Fits(f) ==
  /\ Stated(f.address) => Below(f.address, AddressBits)
  /\ Stated(f.width) => f.width \in 1 .. MaxBits
  /\ Stated(f.value) => Below(f.value, IF Stated(f.width) THEN f.width ELSE AddressBits)

MaterializedIsValid == capabilities = Raised => \E s \in Sites : ~Fits(FactOf(s))

\* A match says what is true: a supported condition is met by an access of the
\* firmware that the hardware allows, and for a contradicted one there is an access
\* to the same register that fails it, or is not allowed, or is declared to be of
\* another resource (matching.py, resource_binding.py).
MatchesAreTrue ==
  candidate # Nothing /\ candidate.result # Raised =>
    \A t \in DOMAIN candidate.result.status :
      /\ candidate.result.status[t] = "SUPPORTED" =>
           \E x \in Accesses : Meets(x, t) /\ Allowed(x, candidate.catalog)
      /\ candidate.result.status[t] = "CONTRADICTED" =>
           \E x \in Accesses : /\ About(x, t)
                               /\ \/ ~Meets(x, t) \/ ~Allowed(x, candidate.catalog)
                                  \/ x.site \in DOMAIN candidate.manual

\* A comparison says what is true.  A compatible trigger condition is one that some
\* access of a declared capability can meet (that a site is reached is not known of a
\* static one); an incompatible one is met by none, except that the resource class of
\* a static access without a resource is a guess; and a compatible precondition holds
\* for one primitive that meets every trigger condition (capability_compatibility.py,
\* _trigger and _precondition).
Compared == {x \in Accesses : world.lane = "declared" \/ x.site = record.site}

Unplaced(x) ==
  world.lane = "static" /\ \E p \in capabilities[x.site].primitives : ~Stated(p.constraints.resource.identity)

StateHolds(q, pre) ==
  IF pre.kind = "other" THEN q.control.status \in Established /\ pre.predicate.subject \in q.control.dimensions
  ELSE pre.predicate.operand \in States(world.capability, pre, q)

ComparisonsAreTrue ==
  record # Nothing =>
    LET hw == record.contract row == record.result.rows
    IN  /\ \A t \in Trigger(hw) :
             /\ row[t] = "compatible" => world.lane = "declared" /\ \E x \in Compared : Can(x, t)
             /\ row[t] = "incompatible" => \A x \in Compared : ~Can(x, t) \/ Unplaced(x)
        /\ \A pre \in hw.preconditions : row[pre] = "compatible" =>
             /\ world.lane = "declared"
             /\ \E q \in world.capability.primitives :
                  /\ \A t \in Trigger(hw) : Can(DeclaredAccess(q), t)
                  /\ StateHolds(q, pre)

\* The verdict on a trigger condition is final: what is formalized later of the same
\* capability does not change it (capability_compatibility.py, _trigger).
Stands(t, outcome) ==
  outcome # "unknown" => TriggerOutcome(Declared(world, known), t) = outcome

TriggerVerdictsStand ==
  record # Nothing /\ world.lane = "declared" =>
    \A t \in Trigger(record.contract) : Stands(t, record.result.rows[t])

\* No verdict of an earlier comparison, on a precondition, an order, the platform or
\* the whole, is reversed by one of the same capability with more of it formalized; it
\* may be withdrawn (capability_compatibility.py, compare_capability_contract).
VerdictsNeverReverse ==
  record # Nothing /\ world.lane = "declared" =>
    LET then == record.result now == Compare(Declared(world, known), record.contract)
        Reversed(a, b) == {a, b} = {"compatible", "incompatible"}
    IN  /\ ~Reversed(then.platform, now.platform) /\ ~Reversed(then.overall, now.overall)
        /\ \A r \in DOMAIN then.rows : ~Reversed(then.rows[r], now.rows[r])

\* The code compares two accounts of one access field by field and asks only for kind,
\* class, address and width to be known on both sides (capability_continuity.py:76-78).
\* So when it says CONTRADICTED of a static capability, a run's account of that access is
\* false, or the class of the static one was a guess, or each account of the access has a
\* value or an encoding where the static one has none, or the other way round: true
\* accounts that know the same are never found to differ.
TrueOf(m, s) ==
  LET f == world.truth[s]
  IN  /\ m.class = TrueClass(f) /\ AccessOf(m.kind) = AccessOf(f.kind)
      /\ m.address \in {Nothing, f.address} /\ m.width \in {Nothing, f.width}
      /\ m.value \in {Nothing, f.value} /\ m.encoding \in {Nothing, world.encoding[s]}

TrueAccountsAgree ==
  continuity # Nothing =>
    \A s \in DOMAIN continuity.status : continuity.status[s] = "CONTRADICTED" =>
      LET m == Semantics(capabilities[s])
          others == {n \in {Semantics(r) : r \in {r \in continuity.accounts : Single(r)}} : Site(n) = Site(m)}
      IN  \/ \E n \in others : ~TrueOf(n, s)
          \/ m.class # TrueClass(world.truth[s])
          \/ \A n \in others : Stated(n.value) # Stated(m.value) \/ Stated(n.encoding) # Stated(m.encoding)

\* A candidate says what is true of the sites it was bound to: what it takes for
\* matched happens there, and what it takes for a conflict does not, unless the bound
\* facts are mistaken and none of them is right; a full match is one of every required
\* atom, and a conflict one of some (matcher.py, aggregate_status).
CandidatesAreTrue ==
  association # Nothing =>
    LET required == {t \in association.condition.atoms : t.required}
        bound == association.bound
        status == association.result.status
        Excused(t) == t.id \in DOMAIN bound /\ Misled(t, bound[t.id].refs)
        Confirmed(t) == Happens(t, bound) \/ Excused(t)
        Denied(t) == t.id \in DOMAIN bound /\ (~Happens(t, bound) \/ Excused(t))
    IN  /\ \A t \in required : /\ status[t] = "matched" => Confirmed(t)
                               /\ status[t] = "conflict" => Denied(t)
        /\ association.result.overall = "full_static_match" => \A t \in required : Confirmed(t)
        /\ association.result.overall = "conflict" => \E t \in required : Denied(t)

\* When the analyses know more, the same binding does not give the contrary of what it
\* gave: what is definite stays, or is withdrawn as two of the facts bound to the atom
\* now disagree (matcher.py: the merge of the facts of an atom).
CandidatesStand ==
  association # Nothing =>
    LET then == association.result
        bound == [id \in DOMAIN association.bound |->
                    [association.bound[id] EXCEPT !.refs = Resolve(world, known, Ids(@))]]
        now == Associate(association.condition, bound, Resolve(world, known, Ids(association.paths)), world.architecture)
        Disputed(t) == t.id \in DOMAIN bound /\ Disagree({f \in bound[t.id].refs : f.kind = t.kind})
    IN  /\ \A t \in association.condition.atoms :
             then.status[t] \in {"matched", "conflict"} =>
               now.status[t] \in {then.status[t]} \cup (IF Disputed(t) THEN {"unknown"} ELSE {})
        /\ {then.overall, now.overall} # {"full_static_match", "conflict"}
=============================================================================
