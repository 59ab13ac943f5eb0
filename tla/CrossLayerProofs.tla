-------------------------- MODULE CrossLayerProofs --------------------------
(***************************************************************************)
(* What the results of the static cross-layer comparison say, whatever the *)
(* firmwares, the catalogs, the contracts and the conditions are.          *)
(*                                                                         *)
(* When more of a capability is formalized, what is usable of a primitive  *)
(* stays as it is (ViewGrows); so does each check that is not "unknown"    *)
(* (AccessStays), and with the checks the outcome of every primitive       *)
(* (AlternativeStays) and of all of them (TriggerStays): the verdict on a  *)
(* trigger condition is final.  A precondition or an order is compared in  *)
(* the context of the primitives that are matched.  These become fewer, so *)
(* that the one that is alone is the one that was alone (SoleSame) or there*)
(* is none: such a verdict may be withdrawn, and is not reversed.          *)
(*                                                                         *)
(* The facts bound to an atom grow (MergedGrow), and what its checks say   *)
(* stays, unless two facts now disagree; what they say is what happens at  *)
(* the site, unless the facts are mistaken (FieldStatusIsTrue).            *)
(*                                                                         *)
(* Every result is one of capabilities that are made of the facts of the   *)
(* firmware (ResultsAreOfCapabilities).  From it follows that comparisons  *)
(* (AlternativeSays), matches (OptionsAreSound) and bindings to the account*)
(* of a run (StaticAccount) say what is true.                              *)
(***************************************************************************)
EXTENDS CrossLayer, FiniteSetTheorems, WellFoundedInduction, NaturalsInduction, TLAPS

\* The information order of the three outcomes, of one check and of a set of them.
Stays(a, b) == a = "unknown" \/ a = b

Refined(A, B) ==
  /\ "incompatible" \in A => "incompatible" \in B
  /\ A \subseteq {"compatible"} => B \subseteq {"compatible"}

\* `r` states what is usable of `p`.
Extends(p, r) ==
  /\ r.kind = p.kind
  /\ \A x \in ConstraintKinds : Usable(p.constraints[x]) => r.constraints[x] = p.constraints[x]

-----------------------------------------------------------------------------
(* Sets of checks.                                                         *)

\* A check that stays refines the set that it is in alone (aggregate_required).
LEMMA RefinedSingle ==
  ASSUME NEW a, NEW b, Stays(a, b)
  PROVE  Refined({a}, {b})
BY DEF Stays, Refined

\* Sets of checks are refined together (aggregate_required).
LEMMA RefinedUnion ==
  ASSUME NEW A, NEW B, NEW C, NEW D, Refined(A, B), Refined(C, D)
  PROVE  Refined(A \cup C, B \cup D)
BY DEF Refined

\* The outcome of a refined set of checks stays (aggregate_required).
LEMMA AggregateStays ==
  ASSUME NEW A, NEW B, Refined(A, B), B # {}
  PROVE  Stays(AggregateRequired(A), AggregateRequired(B))
BY DEF Refined, Stays, AggregateRequired

\* Alternatives that stay, one for one, have an outcome that stays (_alternatives).
LEMMA AlternativesStay ==
  ASSUME NEW A, NEW B,
         \A a \in A : \E b \in B : Stays(a, b),
         \A b \in B : \E a \in A : Stays(a, b)
  PROVE  Stays(Alternatives(A), Alternatives(B))
<1>1. "compatible" \in A => "compatible" \in B
  BY DEF Stays
<1>2. A \subseteq {"incompatible"} => B \subseteq {"incompatible"}
  BY DEF Stays
<1>3. A # {} => B # {}
  OBVIOUS
<1> QED
  BY <1>1, <1>2, <1>3 DEF Stays, Alternatives

-----------------------------------------------------------------------------
(* One check.                                                              *)

\* What is usable of a field is the same where more is formalized.
LEMMA FieldStays ==
  ASSUME NEW p, NEW r, Extends(p, r), NEW x \in ConstraintKinds, NEW f
  PROVE  Field(p.constraints, x, f) # Nothing =>
           Field(r.constraints, x, f) = Field(p.constraints, x, f)
BY DEF Extends, Field

\* A comparison of two identities (_equal).
LEMMA EqualStays ==
  ASSUME NEW a, NEW b, NEW required, a # Nothing => b = a
  PROVE  Stays(Equal(a, required), Equal(b, required))
BY DEF Stays, Equal, Known, Stated

\* A comparison of two domains (compare_numeric_domains).
LEMMA DomainsStay ==
  ASSUME NEW a, NEW b, NEW required, a # Nothing => b = a
  PROVE  Stays(CompareDomains(a, required), CompareDomains(b, required))
BY DEF Stays, CompareDomains, Stated

LEMMA WidthStays ==
  ASSUME NEW p, NEW r, Extends(p, r)
  PROVE  WidthOf(p.constraints) # Nothing => WidthOf(r.constraints) = WidthOf(p.constraints)
<1>1. "width" \in ConstraintKinds
  BY DEF ConstraintKinds, NumericKinds
<1> QED
  BY <1>1 DEF Extends, WidthOf

\* What a CSR condition asks of the register (_trigger_alternative).
LEMMA CsrStays ==
  ASSUME NEW p, NEW r, Extends(p, r), NEW a
  PROVE  Refined(CsrChecks(a, p.constraints), CsrChecks(a, r.constraints))
<1>1. "csr" \in ConstraintKinds
  BY DEF ConstraintKinds
<1>2. Refined({Equal(Field(p.constraints, "csr", "identity"), a.csr)},
              {Equal(Field(r.constraints, "csr", "identity"), a.csr)})
  BY <1>1, FieldStays, EqualStays, RefinedSingle
<1>3. Refined({}, {}) /\ Refined({"unknown"}, {"unknown"})
  BY DEF Refined
<1> QED
  BY <1>2, <1>3, RefinedUnion DEF CsrChecks

\* What an MMIO condition asks of the address and of the width.
LEMMA MmioStays ==
  ASSUME NEW p, NEW r, Extends(p, r), NEW a
  PROVE  Refined(MmioChecks(a, p.constraints), MmioChecks(a, r.constraints))
<1>1. "address" \in ConstraintKinds
  BY DEF ConstraintKinds, NumericKinds
<1>2. Refined({CompareDomains(Field(p.constraints, "address", "domain"), a.address)},
              {CompareDomains(Field(r.constraints, "address", "domain"), a.address)})
  BY <1>1, FieldStays, DomainsStay, RefinedSingle
<1>3. Refined({Equal(WidthOf(p.constraints), a.width)}, {Equal(WidthOf(r.constraints), a.width)})
  BY WidthStays, EqualStays, RefinedSingle
<1>4. Refined({}, {})
  BY DEF Refined
<1> QED
  BY <1>2, <1>3, <1>4, RefinedUnion DEF MmioChecks

\* All that an access condition asks of a primitive.
LEMMA AccessStays ==
  ASSUME NEW p, NEW r, Extends(p, r), NEW t
  PROVE  Refined(AccessChecks(t, p), AccessChecks(t, r))
<1> DEFINE a == t.access
<1>1. {"resource", "value"} \subseteq ConstraintKinds
  BY DEF ConstraintKinds, NumericKinds
<1>2. Refined({Verdict(a.direction \in {Direction(p), "either"})},
              {Verdict(a.direction \in {Direction(r), "either"})})
  BY RefinedSingle DEF Extends, Direction, Stays
<1>3. Refined({Equal(Field(p.constraints, "resource", "class"), RequiredClass(t.kind))},
              {Equal(Field(r.constraints, "resource", "class"), RequiredClass(t.kind))})
  BY <1>1, FieldStays, EqualStays, RefinedSingle
<1>4. Stays(CompareValue(Field(p.constraints, "value", "domain"), a.value),
            CompareValue(Field(r.constraints, "value", "domain"), a.value))
  BY <1>1, FieldStays, DomainsStay DEF CompareValue, Stays
<1>5. Refined(IF Stated(a.value) THEN {CompareValue(Field(p.constraints, "value", "domain"), a.value)} ELSE {},
              IF Stated(a.value) THEN {CompareValue(Field(r.constraints, "value", "domain"), a.value)} ELSE {})
  <2>1. Refined({}, {})
    BY DEF Refined
  <2> QED
    BY <1>4, <2>1, RefinedSingle
<1>6. Refined(IF t.kind = "CSR_access" THEN CsrChecks(a, p.constraints) ELSE MmioChecks(a, p.constraints),
              IF t.kind = "CSR_access" THEN CsrChecks(a, r.constraints) ELSE MmioChecks(a, r.constraints))
  BY CsrStays, MmioStays
<1> DEFINE S(x) == {Verdict(a.direction \in {Direction(x), "either"})}
           U(x) == {Equal(Field(x.constraints, "resource", "class"), RequiredClass(t.kind))}
           V(x) == IF t.kind = "CSR_access" THEN CsrChecks(a, x.constraints) ELSE MmioChecks(a, x.constraints)
           W(x) == IF Stated(a.value) THEN {CompareValue(Field(x.constraints, "value", "domain"), a.value)} ELSE {}
<1>7. \A x : AccessChecks(t, x) = ((S(x) \cup U(x)) \cup V(x)) \cup W(x)
  BY DEF AccessChecks
<1>8. Refined(S(p) \cup U(p), S(r) \cup U(r))
  BY <1>2, <1>3, RefinedUnion
<1> HIDE DEF S, U
<1>9. Refined((S(p) \cup U(p)) \cup V(p), (S(r) \cup U(r)) \cup V(r))
  BY <1>6, <1>8, RefinedUnion
<1> HIDE DEF V
<1>10. Refined(((S(p) \cup U(p)) \cup V(p)) \cup W(p), ((S(r) \cup U(r)) \cup V(r)) \cup W(r))
  BY <1>5, <1>9, RefinedUnion
<1> HIDE DEF W
<1> QED
  BY <1>7, <1>10
-----------------------------------------------------------------------------
(* A capability of which more is formalized.                               *)

\* What is usable of a view is what the capability states (WorldsAssumption).
LEMMA UsableIsStated ==
  ASSUME NEW w \in Worlds, w.lane = "declared", NEW k, NEW q \in w.capability.primitives,
         NEW x \in ConstraintKinds, Usable(View(q, k, w.vague).constraints[x])
  PROVE  /\ <<q.id, x>> \in k
         /\ View(q, k, w.vague).constraints[x] = q.constraints[x] /\ Stated(q.constraints[x])
<1> DEFINE p == View(q, k, w.vague)
<1>1. <<q.id, x>> \in k
  <2> SUFFICES ASSUME <<q.id, x>> \notin k PROVE FALSE
    OBVIOUS
  <2>1. CASE <<q.id, x>> \in w.vague
    <3>1. p.constraints[x] = [q.constraints[x] EXCEPT !.status = "unknown"]
      BY <2>1 DEF View
    <3>2. p.constraints[x].status = "unknown"
      BY <2>1, <3>1, WorldsAssumption
    <3> QED
      BY <3>2 DEF Usable, Unformalized
  <2>2. CASE <<q.id, x>> \notin w.vague
    <3>1. p.constraints[x] = Nothing
      BY <2>2 DEF View
    <3> QED
      BY <3>1 DEF Usable, Stated
  <2> QED
    BY <2>1, <2>2
<1>2. p.constraints[x] = q.constraints[x]
  BY <1>1 DEF View
<1> QED
  BY <1>1, <1>2 DEF Usable

\* View: what is usable of a primitive stays as it is.
LEMMA ViewGrows ==
  ASSUME NEW w \in Worlds, w.lane = "declared", NEW k, NEW l, k \subseteq l,
         NEW q \in w.capability.primitives
  PROVE  Extends(View(q, k, w.vague), View(q, l, w.vague))
<1> DEFINE p == View(q, k, w.vague)
           r == View(q, l, w.vague)
<1>1. r.kind = p.kind
  BY DEF View
<1>2. ASSUME NEW x \in ConstraintKinds, Usable(p.constraints[x])
      PROVE  r.constraints[x] = p.constraints[x]
  <2>1. <<q.id, x>> \in k
    BY <1>2, UsableIsStated
  <2> QED
    BY <2>1 DEF View
<1> QED
  BY <1>1, <1>2 DEF Extends

\* What is not a gap does not become one (_trigger_alternative): what is formalized
\* later is formalized.
LEMMA GapCloses ==
  ASSUME NEW w \in Worlds, w.lane = "declared", NEW k, NEW l, k \subseteq l,
         NEW q \in w.capability.primitives, NEW t,
         HasGap(Declared(w, l), t, View(q, l, w.vague))
  PROVE  HasGap(Declared(w, k), t, View(q, k, w.vague))
<1> DEFINE p == View(q, k, w.vague)
           r == View(q, l, w.vague)
<1>1. CASE \E x \in ConstraintKinds : Stated(r.constraints[x]) /\ ~Usable(r.constraints[x])
  <2> PICK x \in ConstraintKinds : Stated(r.constraints[x]) /\ ~Usable(r.constraints[x])
    BY <1>1
  <2>1. <<q.id, x>> \notin l
    BY WorldsAssumption DEF View
  <2>2. p.constraints[x] = r.constraints[x]
    BY <2>1 DEF View
  <2> QED
    BY <2>2 DEF HasGap
<1>2. CASE t.status \in Unformalized
  BY <1>2 DEF HasGap
<1>3. CASE r.status \in Unformalized \/ r.basis = "unknown"
  BY <1>3 DEF HasGap, View, Unformalized
<1>4. CASE \E x \in Declared(w, l).conditions :
             x.id \in r.conditions /\ (~Stated(x.predicate) \/ x.status \in Unformalized)
  <2> PICK y \in w.capability.conditions :
             LET x == ConditionView(y, l)
             IN  x.id \in r.conditions /\ (~Stated(x.predicate) \/ x.status \in Unformalized)
    BY <1>4 DEF Declared
  <2>1. ConditionView(y, k) \in Declared(w, k).conditions
    BY DEF Declared
  <2>2. ConditionView(y, k).id \in p.conditions
    BY DEF ConditionView, View
  <2>3. ~Stated(ConditionView(y, k).predicate) \/ ConditionView(y, k).status \in Unformalized
    BY DEF ConditionView, Unformalized
  <2> QED
    BY <2>1, <2>2, <2>3 DEF HasGap
<1> QED
  BY <1>1, <1>2, <1>3, <1>4 DEF HasGap

\* The checks of a primitive are refined, and its outcome stays (_trigger_alternative).
LEMMA AlternativeStays ==
  ASSUME NEW w \in Worlds, w.lane = "declared", NEW k, NEW l, k \subseteq l,
         NEW q \in w.capability.primitives, NEW t
  PROVE  Stays(AlternativeOutcome(Declared(w, k), t, View(q, k, w.vague)),
               AlternativeOutcome(Declared(w, l), t, View(q, l, w.vague)))
<1> DEFINE c == Declared(w, k)
           d == Declared(w, l)
           p == View(q, k, w.vague)
           r == View(q, l, w.vague)
           Gap(x, y) == IF HasGap(x, t, y) THEN {"unknown"} ELSE {}
           Access(y) == IF t.kind = "instruction" \/ ~Stated(t.access) THEN {"unknown"} ELSE AccessChecks(t, y)
<1>1. Extends(p, r)
  BY ViewGrows
<1>2. p.kind = r.kind
  BY <1>1 DEF Extends
<1>3. CASE p.kind \notin Mapped(t.kind)
  BY <1>2, <1>3 DEF AlternativeOutcome, AlternativeChecks, Unmapped, Stays
<1>4. CASE p.kind \in Mapped(t.kind)
  <2>1. Refined(Gap(c, p), Gap(d, r))
    BY GapCloses DEF Refined
  <2>2. Refined({"unknown"}, {"unknown"}) /\ Refined({"compatible"}, {"compatible"})
    BY DEF Refined
  <2>3. Refined(Access(p), Access(r))
    BY <1>1, <2>2, AccessStays
  <2>4. /\ AlternativeChecks(c, t, p) = ({"compatible"} \cup Gap(c, p)) \cup Access(p)
        /\ AlternativeChecks(d, t, r) = ({"compatible"} \cup Gap(d, r)) \cup Access(r)
    BY <1>2, <1>4 DEF AlternativeChecks
  <2> HIDE DEF c, d, p, r, Gap, Access
  <2>5. Refined({"compatible"} \cup Gap(c, p), {"compatible"} \cup Gap(d, r))
    BY <2>1, <2>2, RefinedUnion
  <2>6. Refined(AlternativeChecks(c, t, p), AlternativeChecks(d, t, r))
    BY <2>3, <2>4, <2>5, RefinedUnion
  <2>7. AlternativeChecks(d, t, r) # {}
    BY <2>4
  <2>8. Stays(AggregateRequired(AlternativeChecks(c, t, p)), AggregateRequired(AlternativeChecks(d, t, r)))
    BY <2>6, <2>7, AggregateStays
  <2> QED
    BY <2>8 DEF AlternativeOutcome, c, d, p, r
<1> QED
  BY <1>3, <1>4

\* The outcome of a trigger condition stays (_trigger).
LEMMA TriggerStays ==
  ASSUME NEW w \in Worlds, w.lane = "declared", NEW k, NEW l, k \subseteq l, NEW t
  PROVE  Stays(TriggerOutcome(Declared(w, k), t), TriggerOutcome(Declared(w, l), t))
<1> DEFINE f(q) == AlternativeOutcome(Declared(w, k), t, View(q, k, w.vague))
           g(q) == AlternativeOutcome(Declared(w, l), t, View(q, l, w.vague))
           A == {f(q) : q \in w.capability.primitives}
           B == {g(q) : q \in w.capability.primitives}
<1>1. \A q \in w.capability.primitives : Stays(f(q), g(q))
  BY AlternativeStays
<1>2. TriggerOutcome(Declared(w, k), t) = Alternatives(A) /\ TriggerOutcome(Declared(w, l), t) = Alternatives(B)
  BY DEF TriggerOutcome, Declared
<1> HIDE DEF f, g
<1>3. \A a \in A : \E b \in B : Stays(a, b)
  BY <1>1
<1>4. \A b \in B : \E a \in A : Stays(a, b)
  BY <1>1
<1> HIDE DEF A, B
<1> QED
  BY <1>2, <1>3, <1>4, AlternativesStay

-----------------------------------------------------------------------------
\* The verdict on a trigger condition is final: it is the one of every later
\* formalization of the same capability (capability_compatibility.py, _trigger).
THEOREM VerdictsAreFinal == Spec => []TriggerVerdictsStand
<1> DEFINE Inv == world \in Worlds /\ TriggerVerdictsStand
<1>1. Init => Inv
  BY DEF Init, TriggerVerdictsStand
<1>2. Inv /\ [Next]_vars => Inv'
  <2> SUFFICES ASSUME Inv, [Next]_vars
               PROVE  Inv'
    OBVIOUS
  <2>1. CASE Project
    BY <2>1 DEF Project, TriggerVerdictsStand, Stands
  <2>2. CASE Learn
    <3>1. /\ world' = world /\ record' = record /\ world.lane = "declared"
          /\ known \subseteq known'
      BY <2>2 DEF Learn
    <3>2. \A t : Stays(TriggerOutcome(Declared(world, known), t),
                       TriggerOutcome(Declared(world, known'), t))
      BY <3>1, TriggerStays
    <3> QED
      BY <3>1, <3>2 DEF TriggerVerdictsStand, Stands, Stays
  <2>3. CASE MatchContract
    BY <2>3 DEF MatchContract, TriggerVerdictsStand, Stands
  <2>4. CASE CompareContract
    <3>1. world' = world /\ known' = known
      BY <2>4 DEF CompareContract
    <3>2. ASSUME world.lane = "declared", NEW t \in Trigger(record'.contract)
          PROVE  record'.result.rows[t] = TriggerOutcome(Declared(world, known), t)
      <4>1. PICK s \in DOMAIN Capabilities, contract \in Contracts :
              record' = [site |-> s, contract |-> contract, result |-> Compare(Capabilities[s], contract)]
        BY <2>4 DEF CompareContract
      <4>2. Capabilities[s] = Declared(world, known)
        BY <3>2 DEF Capabilities
      <4>3. t \in Trigger(contract) /\ t \in contract.trigger \cup contract.preconditions
        BY <3>2, <4>1 DEF Trigger
      <4>4. record'.result.rows[t] = RowOutcome(Declared(world, known), t, contract)
        BY <4>1, <4>2, <4>3 DEF Compare
      <4> QED
        BY <4>3, <4>4 DEF RowOutcome
    <3> QED
      BY <3>1, <3>2 DEF TriggerVerdictsStand, Stands
  <2>5. CASE BindRuntime
    BY <2>5 DEF BindRuntime, TriggerVerdictsStand, Stands
  <2>6. CASE MatchTrigger
    BY <2>6 DEF MatchTrigger, TriggerVerdictsStand, Stands
  <2>7. CASE Establish
    BY <2>7 DEF Establish, TriggerVerdictsStand, Stands
  <2>8. CASE UNCHANGED vars
    BY <2>8 DEF vars, TriggerVerdictsStand, Stands
  <2> QED
    BY <2>1, <2>2, <2>3, <2>4, <2>5, <2>6, <2>7, <2>8 DEF Next
<1> QED
  BY <1>1, <1>2, PTL DEF Spec

-----------------------------------------------------------------------------
(* Preconditions and orders are compared only where one primitive is       *)
(* matched, and may become unknown.                                        *)
Opposed(a, b) == {a, b} = {"compatible", "incompatible"}

\* The primitives of a capability that meet one of the conditions `T`.
MatchedIn(c, T) == UNION {Matched(c, t) : t \in T}

LEMMA StaysIsNotOpposed ==
  ASSUME NEW a, NEW b, Stays(a, b)
  PROVE  ~Opposed(a, b)
BY DEF Stays, Opposed

\* The outcome of one check is that check (aggregate_required).
LEMMA AggregateOfOne ==
  ASSUME NEW a \in {"compatible", "incompatible", "unknown"}
  PROVE  AggregateRequired({a}) = a
BY DEF AggregateRequired

\* Two sets of one member are equal if one is in the other.
LEMMA SoleSame ==
  ASSUME NEW A, NEW B, A \subseteq B, Sole(A), Sole(B)
  PROVE  A = B
BY DEF Sole

\* The platform's outcome stays (_platform).
LEMMA PlatformStays ==
  ASSUME NEW w, NEW k, NEW l, k \subseteq l, NEW hw
  PROVE  Stays(AggregateRequired(PlatformChecks(Declared(w, k), hw)),
               AggregateRequired(PlatformChecks(Declared(w, l), hw)))
<1> DEFINE c == Declared(w, k)
           d == Declared(w, l)
<1>1. /\ c.architecture = d.architecture /\ c.processor = d.processor
      /\ c.applicability = d.applicability
      /\ c.platform # Nothing => d.platform = c.platform
  BY DEF Declared
<1> HIDE DEF c, d
<1>2. Refined({Equal(c.architecture, hw.architecture)}, {Equal(d.architecture, hw.architecture)})
  BY <1>1, RefinedSingle DEF Stays
<1>3. Refined({PlatformMatch(c, hw)}, {PlatformMatch(d, hw)})
  BY <1>1, RefinedSingle DEF Stays, PlatformMatch, Known, Stated
<1>4. Refined({ProcessorMatch(c, hw)}, {ProcessorMatch(d, hw)})
  BY <1>1, RefinedSingle DEF Stays, ProcessorMatch, Equal, Known, Stated
<1>5. Refined({ScopeMatch(c, hw)}, {ScopeMatch(d, hw)})
  BY <1>1, RefinedSingle DEF Stays, ScopeMatch
<1> DEFINE U == IF hw.unavailable THEN {"unknown"} ELSE {}
           A(x) == {Equal(x.architecture, hw.architecture)}
           P(x) == {PlatformMatch(x, hw)}
           Q(x) == {ProcessorMatch(x, hw)}
           S(x) == {ScopeMatch(x, hw)}
<1>6. Refined(U, U)
  BY DEF Refined
<1>7. \A x : PlatformChecks(x, hw) = (((A(x) \cup P(x)) \cup Q(x)) \cup S(x)) \cup U
  BY DEF PlatformChecks
<1>8. Refined(A(c) \cup P(c), A(d) \cup P(d))
  BY <1>2, <1>3, RefinedUnion
<1> HIDE DEF A, P
<1>9. Refined((A(c) \cup P(c)) \cup Q(c), (A(d) \cup P(d)) \cup Q(d))
  BY <1>4, <1>8, RefinedUnion
<1>10. Refined(((A(c) \cup P(c)) \cup Q(c)) \cup S(c), ((A(d) \cup P(d)) \cup Q(d)) \cup S(d))
  BY <1>5, <1>9, RefinedUnion
<1>11. S(d) # {}
  OBVIOUS
<1> HIDE DEF Q, S, U
<1>12. Refined(PlatformChecks(c, hw), PlatformChecks(d, hw))
  BY <1>6, <1>7, <1>10, RefinedUnion
<1>13. PlatformChecks(d, hw) # {}
  BY <1>7, <1>11
<1>14. Stays(AggregateRequired(PlatformChecks(c, hw)), AggregateRequired(PlatformChecks(d, hw)))
  BY <1>12, <1>13, AggregateStays
<1> QED
  BY <1>14 DEF c, d

\* If one primitive is matched before and one after, it is the same (_trigger).
LEMMA MatchedStays ==
  ASSUME NEW w \in Worlds, w.lane = "declared", NEW k, NEW l, k \subseteq l, NEW T,
         Sole(MatchedIn(Declared(w, k), T)), Sole(MatchedIn(Declared(w, l), T))
  PROVE  \E q \in w.capability.primitives :
           /\ MatchedIn(Declared(w, k), T) = {View(q, k, w.vague)}
           /\ MatchedIn(Declared(w, l), T) = {View(q, l, w.vague)}
<1> DEFINE c == Declared(w, k)
           d == Declared(w, l)
<1>1. PICK p : MatchedIn(c, T) = {p}
  BY DEF Sole
<1>2. PICK t \in T : p \in Matched(c, t)
  BY <1>1 DEF MatchedIn
<1>3. p \in c.primitives /\ AlternativeOutcome(c, t, p) = "compatible"
  BY <1>2 DEF Matched
<1>4. PICK q \in w.capability.primitives : p = View(q, k, w.vague)
  BY <1>3 DEF Declared
<1>5. AlternativeOutcome(d, t, View(q, l, w.vague)) = "compatible"
  BY <1>3, <1>4, AlternativeStays DEF Stays
<1>6. View(q, l, w.vague) \in d.primitives
  BY DEF Declared
<1>7. View(q, l, w.vague) \in MatchedIn(d, T)
  BY <1>5, <1>6 DEF MatchedIn, Matched
<1>8. MatchedIn(d, T) = {View(q, l, w.vague)}
  BY <1>7 DEF Sole
<1> QED
  BY <1>1, <1>4, <1>8

\* The context of the preconditions: one primitive, the same before and after.
LEMMA ContextStays ==
  ASSUME NEW w \in Worlds, w.lane = "declared", NEW k, NEW l, k \subseteq l, NEW hw,
         Context(Declared(w, k), hw) # {}, Context(Declared(w, l), hw) # {}
  PROVE  \E q \in w.capability.primitives :
           /\ Context(Declared(w, k), hw) = {View(q, k, w.vague)}
           /\ Context(Declared(w, l), hw) = {View(q, l, w.vague)}
<1>1. \A c : Context(c, hw) # {} =>
        Context(c, hw) = MatchedIn(c, Trigger(hw)) /\ Sole(MatchedIn(c, Trigger(hw)))
  BY DEF Context, MatchedIn
<1> QED
  BY <1>1, MatchedStays

\* What is stated of a machine state is still stated (_precondition).
LEMMA StatesGrow ==
  ASSUME NEW w \in Worlds, w.lane = "declared", NEW k, NEW l, k \subseteq l,
         NEW q \in w.capability.primitives, NEW pre
  PROVE  States(Declared(w, k), pre, View(q, k, w.vague))
           \subseteq States(Declared(w, l), pre, View(q, l, w.vague))
<1> DEFINE c == Declared(w, k)
           d == Declared(w, l)
           p == View(q, k, w.vague)
           r == View(q, l, w.vague)
           Own(y) == IF pre.kind \in {"privilege", "context"} /\ Usable(y.constraints[pre.kind])
                     THEN {y.constraints[pre.kind].identity} ELSE {}
           Says(x, y) == /\ x.id \in y.conditions /\ x.kind = pre.kind
                         /\ x.status \notin Unformalized /\ Stated(x.predicate)
                         /\ x.predicate.subject = pre.predicate.subject /\ x.predicate.operator = "eq"
           Of(z, y) == {x.predicate.operand : x \in {x \in z.conditions : Says(x, y)}}
<1>1. \A z, y : States(z, pre, y) = Own(y) \cup Of(z, y)
  BY DEF States
<1>2. Own(p) \subseteq Own(r)
  <2>1. {"privilege", "context"} \subseteq ConstraintKinds
    BY DEF ConstraintKinds
  <2>2. Extends(p, r)
    BY ViewGrows
  <2> HIDE DEF p, r
  <2> QED
    BY <2>1, <2>2 DEF Extends
<1>3. ASSUME NEW x \in c.conditions, Says(x, p)
      PROVE  x \in d.conditions /\ Says(x, r)
  <2>1. PICK y \in w.capability.conditions : x = ConditionView(y, k)
    BY DEF Declared
  <2>2. <<y.id, "condition">> \in k
    BY <1>3, <2>1 DEF ConditionView, Unformalized
  <2>3. x = ConditionView(y, l)
    BY <2>1, <2>2 DEF ConditionView
  <2>4. x \in d.conditions
    BY <2>3 DEF Declared
  <2> QED
    BY <1>3, <2>4 DEF View
<1>4. Of(c, p) \subseteq Of(d, r)
  BY <1>3
<1> HIDE DEF Own, Of
<1> QED
  BY <1>1, <1>2, <1>4

\* A comparison of a machine state that is not unknown is the same later, or unknown.
LEMMA StateCheckStands ==
  ASSUME NEW w \in Worlds, w.lane = "declared", NEW k, NEW l, k \subseteq l,
         NEW q \in w.capability.primitives, NEW pre,
         StateCheck(Declared(w, k), pre, View(q, k, w.vague)) # "unknown",
         StateCheck(Declared(w, l), pre, View(q, l, w.vague)) # "unknown"
  PROVE  StateCheck(Declared(w, k), pre, View(q, k, w.vague))
           = StateCheck(Declared(w, l), pre, View(q, l, w.vague))
<1> DEFINE A == States(Declared(w, k), pre, View(q, k, w.vague))
           B == States(Declared(w, l), pre, View(q, l, w.vague))
<1>1. Sole(A) /\ Sole(B)
  BY DEF StateCheck
<1>2. A = B
  BY <1>1, StatesGrow, SoleSame
<1> QED
  BY <1>2 DEF StateCheck

\* The outcome of a precondition is not reversed (_precondition).
LEMMA PreconditionStands ==
  ASSUME NEW w \in Worlds, w.lane = "declared", NEW k, NEW l, k \subseteq l, NEW hw, NEW pre
  PROVE  ~Opposed(AggregateRequired(PreconditionChecks(Declared(w, k), pre, hw)),
                  AggregateRequired(PreconditionChecks(Declared(w, l), pre, hw)))
<1> DEFINE c == Declared(w, k)
           d == Declared(w, l)
<1>1. AggregateRequired({"unknown"}) = "unknown"
  BY AggregateOfOne
<1>2. CASE ~Stated(pre.predicate) \/ pre.status \in Unformalized
  BY <1>1, <1>2 DEF PreconditionChecks, Opposed
<1>3. CASE Context(c, hw) = {}
  BY <1>1, <1>3 DEF PreconditionChecks, Opposed
<1>4. CASE Context(d, hw) = {}
  BY <1>1, <1>4 DEF PreconditionChecks, Opposed
<1>5. CASE /\ Stated(pre.predicate) /\ pre.status \notin Unformalized
           /\ Context(c, hw) # {} /\ Context(d, hw) # {}
  <2>1. PICK q \in w.capability.primitives : /\ Context(c, hw) = {View(q, k, w.vague)}
                                             /\ Context(d, hw) = {View(q, l, w.vague)}
    BY <1>5, ContextStays
  <2> DEFINE p == View(q, k, w.vague)
             r == View(q, l, w.vague)
             A == PreconditionChecks(c, pre, hw)
             B == PreconditionChecks(d, pre, hw)
  <2>2. CASE pre.kind = "other" /\ pre.predicate.subject \in DOMAIN Dimension
    <3>1. A = {ControlCheck(pre.predicate, p)} /\ B = {ControlCheck(pre.predicate, r)}
      BY <1>5, <2>1, <2>2 DEF PreconditionChecks
    <3>2. \A y : ControlCheck(pre.predicate, y) \in {"compatible", "unknown"}
      BY DEF ControlCheck
    <3> HIDE DEF A, B, p, r
    <3>3. AggregateRequired(A) # "incompatible" /\ AggregateRequired(B) # "incompatible"
      BY <3>1, <3>2, AggregateOfOne
    <3> QED
      BY <3>3 DEF Opposed, A, B
  <2>3. CASE ~(pre.kind = "other" /\ pre.predicate.subject \in DOMAIN Dimension)
             /\ pre.kind \in {"privilege", "register_state", "context"}
    <3> DEFINE a == StateCheck(c, pre, p)
               b == StateCheck(d, pre, r)
    <3>1. A = {a} /\ B = {b}
      BY <1>5, <2>1, <2>3 DEF PreconditionChecks
    <3>2. a \in {"compatible", "incompatible", "unknown"} /\ b \in {"compatible", "incompatible", "unknown"}
      BY DEF StateCheck, Equal, Verdict
    <3>3. a # "unknown" /\ b # "unknown" => a = b
      BY StateCheckStands
    <3> HIDE DEF A, B, a, b
    <3>4. AggregateRequired(A) = a /\ AggregateRequired(B) = b
      BY <3>1, <3>2, AggregateOfOne
    <3>5. ~Opposed(AggregateRequired(A), AggregateRequired(B))
      BY <3>3, <3>4 DEF Opposed
    <3> QED
      BY <3>5 DEF A, B
  <2>4. CASE ~(pre.kind = "other" /\ pre.predicate.subject \in DOMAIN Dimension)
             /\ pre.kind \notin {"privilege", "register_state", "context"}
    BY <1>1, <1>5, <2>4 DEF PreconditionChecks, Opposed
  <2> QED
    BY <2>2, <2>3, <2>4
<1> QED
  BY <1>2, <1>3, <1>4, <1>5

\* What an outcome says of the declared orders (_ordering).
LEMMA OrderOutcome ==
  ASSUME NEW c, NEW a, NEW b, NEW t
  PROVE  LET outcome == AggregateRequired(OrderOf(c, a, b, t))
         IN  /\ outcome = "compatible" => Between(c, a, b) # {} /\ Between(c, b, a) = {}
             /\ outcome = "incompatible" => Between(c, a, b) = {} /\ Between(c, b, a) # {}
<1> DEFINE D == Between(c, a, b)
           R == Between(c, b, a)
           o == CHOOSE o \in D : TRUE
<1>1. AggregateRequired({"unknown"}) = "unknown" /\ AggregateRequired({"incompatible"}) = "incompatible"
  BY AggregateOfOne
<1>2. AggregateRequired(OrderChecks(o, t)) # "incompatible"
  <2>1. "incompatible" \notin OrderChecks(o, t)
    BY DEF OrderChecks
  <2> QED
    BY <2>1 DEF AggregateRequired
<1>3. \/ OrderOf(c, a, b, t) = {"unknown"}
      \/ OrderOf(c, a, b, t) = OrderChecks(o, t) /\ D # {} /\ R = {}
      \/ OrderOf(c, a, b, t) = {"incompatible"} /\ D = {} /\ R # {}
  BY DEF OrderOf
<1> QED
  BY <1>1, <1>2, <1>3

\* The outcome of an order is not reversed (_ordering).
LEMMA OrderingStands ==
  ASSUME NEW w \in Worlds, w.lane = "declared", NEW k, NEW l, k \subseteq l, NEW hw, NEW t
  PROVE  ~Opposed(AggregateRequired(OrderingChecks(Declared(w, k), t, hw)),
                  AggregateRequired(OrderingChecks(Declared(w, l), t, hw)))
<1> DEFINE c == Declared(w, k)
           d == Declared(w, l)
           T == {x \in Trigger(hw) : x.id = t.ordering.before}
           U == {x \in Trigger(hw) : x.id = t.ordering.after}
           Before(x) == MatchedIn(x, T)
           After(x) == MatchedIn(x, U)
           Pick(S) == CHOOSE p \in S : TRUE
           Placed(x) == Stated(t.ordering) /\ t.status \notin Unformalized /\ Sole(Before(x)) /\ Sole(After(x))
<1>1. \A x : OrderingChecks(x, t, hw) = IF Placed(x) THEN OrderOf(x, Pick(Before(x)), Pick(After(x)), t)
                                        ELSE {"unknown"}
  BY DEF OrderingChecks, MatchedIn
<1>2. AggregateRequired({"unknown"}) = "unknown"
  BY AggregateOfOne
<1>3. CASE ~Placed(c) \/ ~Placed(d)
  BY <1>1, <1>2, <1>3 DEF Opposed
<1> HIDE DEF T, U
<1>4. CASE Placed(c) /\ Placed(d)
  <2>1. PICK q \in w.capability.primitives : /\ Before(c) = {View(q, k, w.vague)}
                                             /\ Before(d) = {View(q, l, w.vague)}
    BY <1>4, MatchedStays
  <2>2. PICK u \in w.capability.primitives : /\ After(c) = {View(u, k, w.vague)}
                                             /\ After(d) = {View(u, l, w.vague)}
    BY <1>4, MatchedStays
  <2>3. c.orders \subseteq d.orders
    BY DEF Declared
  <2> DEFINE a == View(q, k, w.vague)
             b == View(u, k, w.vague)
             e == View(q, l, w.vague)
             f == View(u, l, w.vague)
  <2>4. a.id = e.id /\ b.id = f.id
    BY DEF View
  <2> HIDE DEF c, d, a, b, e, f
  <2>5. Between(c, a, b) \subseteq Between(d, e, f) /\ Between(c, b, a) \subseteq Between(d, f, e)
    BY <2>3, <2>4 DEF Between
  <2>6. ~Opposed(AggregateRequired(OrderOf(c, a, b, t)), AggregateRequired(OrderOf(d, e, f, t)))
    BY <2>5, OrderOutcome DEF Opposed
  <2>7. Pick(Before(c)) = a /\ Pick(After(c)) = b /\ Pick(Before(d)) = e /\ Pick(After(d)) = f
    BY <2>1, <2>2 DEF a, b, e, f
  <2>8. OrderingChecks(c, t, hw) = OrderOf(c, a, b, t) /\ OrderingChecks(d, t, hw) = OrderOf(d, e, f, t)
    BY <1>1, <1>4, <2>7
  <2> QED
    BY <2>6, <2>8 DEF c, d
<1> QED
  BY <1>3, <1>4

-----------------------------------------------------------------------------
(* The whole comparison.                                                   *)

\* No row of a comparison is reversed (compare_capability_contract).
LEMMA RowStands ==
  ASSUME NEW w \in Worlds, w.lane = "declared", NEW k, NEW l, k \subseteq l, NEW hw, NEW r
  PROVE  ~Opposed(RowOutcome(Declared(w, k), r, hw), RowOutcome(Declared(w, l), r, hw))
<1>1. CASE r \in Trigger(hw)
  BY <1>1, TriggerStays, StaysIsNotOpposed DEF RowOutcome
<1>2. CASE r \notin Trigger(hw) /\ r \in Orderings(hw)
  BY <1>2, OrderingStands DEF RowOutcome
<1>3. CASE r \notin Trigger(hw) /\ r \notin Orderings(hw)
  BY <1>3, PreconditionStands DEF RowOutcome
<1> QED
  BY <1>1, <1>2, <1>3

\* An outcome is reversed only with one of those that it is made of (aggregate_required).
LEMMA OverallStands ==
  ASSUME NEW D, NEW f, NEW g, NEW a, NEW b, NEW X, "incompatible" \notin X,
         ~Opposed(a, b), \A r \in D : ~Opposed(f[r], g[r])
  PROVE  ~Opposed(AggregateRequired({a} \cup {f[r] : r \in D} \cup X),
                  AggregateRequired({b} \cup {g[r] : r \in D} \cup X))
<1> DEFINE A == {a} \cup {f[r] : r \in D} \cup X
           B == {b} \cup {g[r] : r \in D} \cup X
<1>1. A \subseteq {"compatible"} => "incompatible" \notin B
  BY DEF Opposed
<1>2. B \subseteq {"compatible"} => "incompatible" \notin A
  BY DEF Opposed
<1> HIDE DEF A, B
<1>3. ~Opposed(AggregateRequired(A), AggregateRequired(B))
  BY <1>1, <1>2 DEF Opposed, AggregateRequired
<1> QED
  BY <1>3 DEF A, B

\* Two comparisons of one capability, of which more is formalized for the second, with
\* one contract: nothing is reversed (compare_capability_contract).
LEMMA CompareStands ==
  ASSUME NEW w \in Worlds, w.lane = "declared", NEW k, NEW l, k \subseteq l, NEW hw
  PROVE  LET then == Compare(Declared(w, k), hw)
             now == Compare(Declared(w, l), hw)
         IN  /\ ~Opposed(then.platform, now.platform) /\ ~Opposed(then.overall, now.overall)
             /\ \A r \in DOMAIN then.rows : ~Opposed(then.rows[r], now.rows[r])
<1> DEFINE c == Declared(w, k)
           d == Declared(w, l)
           D == hw.trigger \cup hw.preconditions
           a == AggregateRequired(PlatformChecks(c, hw))
           b == AggregateRequired(PlatformChecks(d, hw))
           f == [r \in D |-> RowOutcome(c, r, hw)]
           g == [r \in D |-> RowOutcome(d, r, hw)]
           X == IF hw.trigger = {} \/ hw.unclassified THEN {"unknown"} ELSE {}
<1>1. ~Opposed(a, b)
  BY PlatformStays, StaysIsNotOpposed
<1>2. \A r \in D : ~Opposed(f[r], g[r])
  BY RowStands
<1>3. "incompatible" \notin X /\ DOMAIN f = D /\ DOMAIN g = D
  OBVIOUS
<1>4. /\ Compare(c, hw) = [platform |-> a, rows |-> f,
                           overall |-> AggregateRequired({a} \cup {f[r] : r \in DOMAIN f} \cup X)]
      /\ Compare(d, hw) = [platform |-> b, rows |-> g,
                           overall |-> AggregateRequired({b} \cup {g[r] : r \in DOMAIN g} \cup X)]
  BY DEF Compare
<1> HIDE DEF c, d, D, a, b, f, g, X
<1>5. ~Opposed(AggregateRequired({a} \cup {f[r] : r \in D} \cup X),
               AggregateRequired({b} \cup {g[r] : r \in D} \cup X))
  BY <1>1, <1>2, <1>3, OverallStands
<1>6. LET then == Compare(c, hw)
          now == Compare(d, hw)
      IN  /\ ~Opposed(then.platform, now.platform) /\ ~Opposed(then.overall, now.overall)
          /\ \A r \in DOMAIN then.rows : ~Opposed(then.rows[r], now.rows[r])
  BY <1>1, <1>2, <1>3, <1>4, <1>5
<1> QED
  BY <1>6 DEF c, d

-----------------------------------------------------------------------------
\* A result is that of an earlier formalization of the capability; a world stays.
RecordIsEarlier ==
  /\ world \in Worlds
  /\ record # Nothing /\ world.lane = "declared" =>
       \E k \in SUBSET known : record.result = Compare(Declared(world, k), record.contract)

\* The results are those of compare_capability_contract.
LEMMA RecordStaysEarlier == Spec => []RecordIsEarlier
<1>1. Init => RecordIsEarlier
  BY DEF Init, RecordIsEarlier
<1>2. RecordIsEarlier /\ [Next]_vars => RecordIsEarlier'
  <2> SUFFICES ASSUME RecordIsEarlier, [Next]_vars
               PROVE  RecordIsEarlier'
    OBVIOUS
  <2>1. CASE Project
    BY <2>1 DEF Project, RecordIsEarlier
  <2>2. CASE Learn
    BY <2>2 DEF Learn, RecordIsEarlier
  <2>3. CASE MatchContract
    BY <2>3 DEF MatchContract, RecordIsEarlier
  <2>4. CASE CompareContract
    <3>1. PICK s \in DOMAIN Capabilities, contract \in Contracts :
            record' = [site |-> s, contract |-> contract, result |-> Compare(Capabilities[s], contract)]
      BY <2>4 DEF CompareContract
    <3>2. world' = world /\ known' = known
      BY <2>4 DEF CompareContract
    <3>3. world.lane = "declared" => Capabilities[s] = Declared(world, known)
      BY DEF Capabilities
    <3> QED
      BY <3>1, <3>2, <3>3 DEF RecordIsEarlier
  <2>5. CASE BindRuntime
    BY <2>5 DEF BindRuntime, RecordIsEarlier
  <2>6. CASE MatchTrigger
    BY <2>6 DEF MatchTrigger, RecordIsEarlier
  <2>7. CASE Establish
    BY <2>7 DEF Establish, RecordIsEarlier
  <2>8. CASE UNCHANGED vars
    BY <2>8 DEF vars, RecordIsEarlier
  <2> QED
    BY <2>1, <2>2, <2>3, <2>4, <2>5, <2>6, <2>7, <2>8 DEF Next
<1> QED
  BY <1>1, <1>2, PTL DEF Spec

\* Formalizing more of a capability reverses no verdict on any requirement, on the
\* platform or on the whole (compare_capability_contract).
THEOREM VerdictsStand == Spec => []VerdictsNeverReverse
<1>1. RecordIsEarlier => VerdictsNeverReverse
  <2> SUFFICES ASSUME RecordIsEarlier, record # Nothing, world.lane = "declared"
               PROVE  VerdictsNeverReverse
    BY DEF VerdictsNeverReverse
  <2>1. PICK k \in SUBSET known : record.result = Compare(Declared(world, k), record.contract)
    BY DEF RecordIsEarlier
  <2>2. LET then == Compare(Declared(world, k), record.contract)
            now == Compare(Declared(world, known), record.contract)
        IN  /\ ~Opposed(then.platform, now.platform) /\ ~Opposed(then.overall, now.overall)
            /\ \A r \in DOMAIN then.rows : ~Opposed(then.rows[r], now.rows[r])
    BY CompareStands DEF RecordIsEarlier
  <2> QED
    BY <2>1, <2>2 DEF VerdictsNeverReverse, Opposed
<1> QED
  BY <1>1, RecordStaysEarlier, PTL

-----------------------------------------------------------------------------
(* The facts of the analyses, when they come to know more.                 *)

\* More fields, and those that were known as they were.
Grown(F, G) == DOMAIN F \subseteq DOMAIN G /\ \A key \in DOMAIN F : G[key] = F[key]

\* The facts that a list of references names, as far as they are known.
LEMMA FactGrows ==
  ASSUME NEW w, NEW k, NEW l, k \subseteq l, NEW f
  PROVE  /\ Fact(w, k, f).id = f.id /\ Fact(w, l, f).id = f.id
         /\ Fact(w, k, f).kind = Fact(w, l, f).kind /\ Fact(w, k, f).site = Fact(w, l, f).site
         /\ Fact(w, k, f).source = Fact(w, l, f).source
         /\ Grown(Fact(w, k, f).fields, Fact(w, l, f).fields)
         /\ Positive(Fact(w, k, f).status) =>
              Fact(w, l, f).status = Fact(w, k, f).status /\ Fact(w, l, f).path = Fact(w, k, f).path
<1> DEFINE whole == Whole(f, w.architecture)
           Shown(x, key) == IF f.source = "behavior" /\ ~Stated(f.annotation)
                            THEN <<f.id, "decoded">> \in x /\ (key = "encoding" => <<f.id, "encoding">> \in x)
                            ELSE <<f.id, key>> \in x
           Missed(x) == f.source = "reachability" /\ <<f.id, "path">> \notin x
           Keys(x) == {key \in DOMAIN whole.fields : Shown(x, key)}
<1> DEFINE fields(x) == [key \in Keys(x) |-> whole.fields[key]]
           path(x) == IF Missed(x) THEN <<>> ELSE whole.path
           status(x) == IF Missed(x) THEN "not_found_within_bound" ELSE whole.status
<1>1. \E source, kind, pth, st, site, fl :
        whole = [source |-> source, id |-> f.id, kind |-> kind, path |-> pth, status |-> st,
                 site |-> site, fields |-> fl]
  BY DEF Whole, BehaviorFact, RelationFact, PathFact
<1>2. \A x : Fact(w, x, f) = [whole EXCEPT !.fields = fields(x), !.path = path(x), !.status = status(x)]
  BY DEF Fact
<1>3. Keys(k) \subseteq Keys(l) /\ (Missed(l) => Missed(k))
  OBVIOUS
<1>4. ~Positive("not_found_within_bound")
  BY DEF Positive
<1> HIDE DEF whole
<1>5. Grown(fields(k), fields(l))
  <2> HIDE DEF Keys
  <2> QED
    BY <1>3 DEF Grown
<1>6. Positive(status(k)) => status(l) = status(k) /\ path(l) = path(k)
  <2> HIDE DEF Missed
  <2> QED
    BY <1>3, <1>4
<1> HIDE DEF fields, path, status
<1>7. \A x : /\ Fact(w, x, f).id = f.id /\ Fact(w, x, f).kind = whole.kind /\ Fact(w, x, f).site = whole.site
             /\ Fact(w, x, f).source = whole.source /\ Fact(w, x, f).fields = fields(x)
             /\ Fact(w, x, f).path = path(x) /\ Fact(w, x, f).status = status(x)
  <2> TAKE x
  <2>1. Fact(w, x, f) = [whole EXCEPT !.fields = fields(x), !.path = path(x), !.status = status(x)]
    BY <1>2
  <2>2. PICK source, kind, pth, st, site, fl :
          whole = [source |-> source, id |-> f.id, kind |-> kind, path |-> pth, status |-> st,
                   site |-> site, fields |-> fl]
    BY <1>1
  <2>3. Fact(w, x, f) = [source |-> source, id |-> f.id, kind |-> kind, path |-> path(x),
                         status |-> status(x), site |-> site, fields |-> fields(x)]
    BY <2>1, <2>2
  <2> QED
    BY <2>2, <2>3
<1> QED
  BY <1>5, <1>6, <1>7

\* A reference still names what it named (FirmwareFactSources.resolve).
LEMMA ResolvedAgain ==
  ASSUME NEW w, NEW k, NEW l, NEW ids
  PROVE  Resolve(w, l, Ids(Resolve(w, k, ids))) = Resolve(w, l, ids)
<1> DEFINE named == {f \in w.facts : f.id \in ids}
<1>1. \A x, f : Fact(w, x, f).id = f.id
  BY FactGrows
<1>2. Ids(Resolve(w, k, ids)) = {f.id : f \in named}
  BY <1>1 DEF Ids, Resolve
<1>3. {f \in w.facts : f.id \in {g.id : g \in named}} = named
  OBVIOUS
<1> QED
  BY <1>2, <1>3 DEF Resolve

\* Of facts that do not disagree, the merged fields are those of any of them.
LEMMA MergedFields ==
  ASSUME NEW facts, ~Disagree(facts)
  PROVE  /\ DOMAIN FieldsOfAll(facts) = UNION {DOMAIN f.fields : f \in facts}
         /\ \A f \in facts : \A key \in DOMAIN f.fields : FieldsOfAll(facts)[key] = f.fields[key]
<1>1. DOMAIN FieldsOfAll(facts) = UNION {DOMAIN f.fields : f \in facts}
  BY DEF FieldsOfAll
<1>2. ASSUME NEW f \in facts, NEW key \in DOMAIN f.fields
      PROVE  FieldsOfAll(facts)[key] = f.fields[key]
  <2> DEFINE g == CHOOSE g \in facts : key \in DOMAIN g.fields
  <2>1. g \in facts /\ key \in DOMAIN g.fields
    OBVIOUS
  <2>2. FieldsOfAll(facts)[key] = g.fields[key]
    BY DEF FieldsOfAll
  <2> HIDE DEF g
  <2> QED
    BY <2>1, <2>2 DEF Disagree
<1> QED
  BY <1>1, <1>2

\* The facts of one kind among those that are named, and their merged fields.
FactsOf(w, k, ids, kind) == {f \in Resolve(w, k, ids) : f.kind = kind}

\* The merged fields grow with the facts.
LEMMA MergedGrow ==
  ASSUME NEW w, NEW k, NEW l, k \subseteq l, NEW ids, NEW kind,
         ~Disagree(FactsOf(w, k, ids, kind)), ~Disagree(FactsOf(w, l, ids, kind))
  PROVE  Grown(FieldsOfAll(FactsOf(w, k, ids, kind)), FieldsOfAll(FactsOf(w, l, ids, kind)))
<1> DEFINE A == FactsOf(w, k, ids, kind)
           B == FactsOf(w, l, ids, kind)
<1>1. ASSUME NEW a \in A
      PROVE  \E b \in B : Grown(a.fields, b.fields)
  <2>1. PICK f \in w.facts : f.id \in ids /\ a = Fact(w, k, f)
    BY DEF Resolve, FactsOf
  <2>2. Fact(w, l, f) \in B
    BY <2>1, FactGrows DEF Resolve, FactsOf
  <2>3. Grown(a.fields, Fact(w, l, f).fields)
    BY <2>1, FactGrows
  <2> QED
    BY <2>2, <2>3
<1> HIDE DEF A, B
<1>2. ~Disagree(A) /\ ~Disagree(B)
  BY DEF A, B
<1>5. DOMAIN FieldsOfAll(A) = UNION {DOMAIN f.fields : f \in A}
  BY <1>2, MergedFields
<1>3. ASSUME NEW key \in DOMAIN FieldsOfAll(A)
      PROVE  key \in DOMAIN FieldsOfAll(B) /\ FieldsOfAll(B)[key] = FieldsOfAll(A)[key]
  <2>1. PICK a \in A : key \in DOMAIN a.fields
    BY <1>5
  <2>2. PICK b \in B : Grown(a.fields, b.fields)
    BY <1>1
  <2>3. key \in DOMAIN b.fields /\ b.fields[key] = a.fields[key]
    BY <2>1, <2>2 DEF Grown
  <2> QED
    BY <1>2, <2>1, <2>3, MergedFields
<1>4. Grown(FieldsOfAll(A), FieldsOfAll(B))
  BY <1>3 DEF Grown
<1> QED
  BY <1>4 DEF A, B

\* A check that is not unknown stays as it is (_result).
LEMMA CheckStands ==
  ASSUME NEW wants, NEW key \in DOMAIN wants, \A x \in DOMAIN wants : Stated(wants[x]),
         "encoding" \in DOMAIN wants => "representation" \in DOMAIN wants,
         NEW F, NEW G, Grown(F, G), NEW arch
  PROVE  Check(key, wants, F, arch) # "unknown" => Check(key, wants, G, arch) = Check(key, wants, F, arch)
<1>1. \A x : Get(F, x) # Nothing => Get(G, x) = Get(F, x)
  BY DEF Get, Grown
<1>2. CASE Get(F, key) # Nothing
  <2>1. Get(G, key) = Get(F, key)
    BY <1>1, <1>2
  <2>2. CASE key = "encoding"
    <3>1. wants.representation # Nothing
      BY <2>2 DEF Stated
    <3>2. Get(F, "representation") = wants.representation =>
            Get(G, "representation") = wants.representation
      BY <1>1, <3>1
    <3> QED
      BY <2>1, <2>2, <3>2 DEF Check
  <2>3. CASE key # "encoding"
    BY <2>1, <2>3 DEF Check
  <2> QED
    BY <2>2, <2>3
<1>3. CASE Get(F, key) = Nothing
  <2>1. Check(key, wants, F, arch) = "unknown"
    BY <1>3 DEF Check, SameRegister, SameRegisters, SameAccess, Fitting, Stated
  <2> QED
    BY <2>1
<1> QED
  BY <1>2, <1>3

\* The outcome of an atom over merged fields, when they grow (_result).
LEMMA OutcomeStands ==
  ASSUME NEW wants, \A x \in DOMAIN wants : Stated(wants[x]),
         "encoding" \in DOMAIN wants => "representation" \in DOMAIN wants,
         NEW F, NEW G, Grown(F, G), NEW arch,
         AtomOutcome(Checks(wants, F, arch)) \in {"matched", "conflict"}
  PROVE  AtomOutcome(Checks(wants, G, arch)) = AtomOutcome(Checks(wants, F, arch))
<1> DEFINE K == DOMAIN wants \ (IF "encoding" \in DOMAIN wants THEN {"representation"} ELSE {})
           c(key) == Check(key, wants, F, arch)
           d(key) == Check(key, wants, G, arch)
<1>1. Checks(wants, F, arch) = {c(key) : key \in K} /\ Checks(wants, G, arch) = {d(key) : key \in K}
  BY DEF Checks
<1>2. \A key \in K : c(key) # "unknown" => d(key) = c(key)
  BY CheckStands
<1> HIDE DEF K, c, d
<1>3. CASE "no" \in {c(key) : key \in K}
  <2>1. "no" \in {d(key) : key \in K}
    BY <1>2, <1>3
  <2> QED
    BY <1>1, <1>3, <2>1 DEF AtomOutcome
<1>4. CASE "no" \notin {c(key) : key \in K}
  <2>1. {c(key) : key \in K} = {"yes"}
    BY <1>1, <1>4 DEF AtomOutcome
  <2>2. {d(key) : key \in K} = {"yes"}
    BY <1>2, <2>1
  <2> QED
    BY <1>1, <2>1, <2>2
<1> QED
  BY <1>3, <1>4

\* A witness of an order is still one: a path that is found stays (_ordering).
LEMMA WitnessStays ==
  ASSUME NEW w, NEW k, NEW l, k \subseteq l, NEW ids, NEW before, NEW after,
         \E p \in Resolve(w, k, ids) : Witness(p, before, after)
  PROVE  \E p \in Resolve(w, l, ids) : Witness(p, before, after)
<1>1. PICK f \in w.facts : f.id \in ids /\ Witness(Fact(w, k, f), before, after)
  BY DEF Resolve
<1> DEFINE a == Fact(w, k, f)
           b == Fact(w, l, f)
<1>2. Positive(a.status)
  BY <1>1 DEF Witness
<1>3. b.status = a.status /\ b.path = a.path
  BY <1>2, FactGrows
<1>4. b \in Resolve(w, l, ids)
  BY <1>1 DEF Resolve
<1> HIDE DEF a, b
<1>5. Witness(b, before, after)
  BY <1>1, <1>3 DEF Witness, a
<1> QED
  BY <1>4, <1>5

\* What the analyses find later of one atom (match_trigger_condition).
LEMMA AtomStands ==
  ASSUME NEW w, NEW k, NEW l, k \subseteq l, NEW ids, NEW pathids,
         NEW t, ValidAtom(t), NEW arch,
         AtomStatus(t, ResolveAll(w, k, ids), Resolve(w, k, pathids), arch) \in {"matched", "conflict"}
  PROVE  LET then == AtomStatus(t, ResolveAll(w, k, ids), Resolve(w, k, pathids), arch)
             now == AtomStatus(t, ResolveAll(w, l, ids), Resolve(w, l, pathids), arch)
         IN  \/ now = then
             \/ /\ t.id \in DOMAIN ids /\ now = "unknown"
                /\ Disagree({f \in Resolve(w, l, ids[t.id].refs) : f.kind = t.kind})
<1> DEFINE bound(x) == ResolveAll(w, x, ids)
           status(x) == AtomStatus(t, bound(x), Resolve(w, x, pathids), arch)
<1>1. \A x : /\ DOMAIN bound(x) = DOMAIN ids
             /\ \A id \in DOMAIN ids : /\ bound(x)[id].site = ids[id].site
                                       /\ bound(x)[id].refs = Resolve(w, x, ids[id].refs)
  BY DEF ResolveAll
<1>2. t.required
  BY DEF AtomStatus
<1> HIDE DEF bound
<1>3. CASE t.kind = "ordering"
  <2> DEFINE witnessed(x) == /\ {t.wants.before, t.wants.after} \subseteq DOMAIN ids
                             /\ \E p \in Resolve(w, x, pathids) :
                                  Witness(p, ids[t.wants.before].site, ids[t.wants.after].site)
             outcome == AtomOutcome({"yes"} \cup (IF Stated(t.wants.gap) THEN {"unknown"} ELSE {}))
  <2>1. \A x : status(x) = IF witnessed(x) THEN outcome ELSE "unknown"
    BY <1>1, <1>2, <1>3 DEF AtomStatus, OrderingStatus
  <2>2. witnessed(k)
    BY <2>1 DEF bound
  <2>3. witnessed(l)
    BY <2>2, WitnessStays
  <2>4. status(l) = status(k)
    BY <2>1, <2>2, <2>3
  <2> QED
    BY <2>4 DEF bound
<1>4. CASE t.kind # "ordering"
  <2>1. t.kind # "hardware_state" /\ t.id \in DOMAIN ids
    BY <1>1, <1>2, <1>4 DEF AtomStatus, bound
  <2> DEFINE facts(x) == FactsOf(w, x, ids[t.id].refs, t.kind)
  <2>2. \A x : status(x) = IF Disagree(facts(x)) THEN "unknown"
                           ELSE AtomOutcome(Checks(t.wants, FieldsOfAll(facts(x)), arch))
    BY <1>1, <1>2, <1>4, <2>1 DEF AtomStatus, FieldStatus, FactsOf
  <2>3. ~Disagree(facts(k)) /\ AtomOutcome(Checks(t.wants, FieldsOfAll(facts(k)), arch)) \in {"matched", "conflict"}
    BY <2>2 DEF bound
  <2>4. CASE Disagree(facts(l))
    <3>1. status(l) = "unknown"
      BY <2>2, <2>4
    <3> QED
      BY <2>1, <2>4, <3>1 DEF bound, FactsOf
  <2>5. CASE ~Disagree(facts(l))
    <3>1. Grown(FieldsOfAll(facts(k)), FieldsOfAll(facts(l)))
      BY <2>3, <2>5, MergedGrow
    <3>2. /\ \A x \in DOMAIN t.wants : Stated(t.wants[x])
          /\ "encoding" \in DOMAIN t.wants => "representation" \in DOMAIN t.wants
      BY <1>4 DEF ValidAtom
    <3> HIDE DEF facts
    <3>3. AtomOutcome(Checks(t.wants, FieldsOfAll(facts(l)), arch))
            = AtomOutcome(Checks(t.wants, FieldsOfAll(facts(k)), arch))
      BY <2>3, <3>1, <3>2, OutcomeStands
    <3>4. status(l) = status(k)
      BY <2>2, <2>3, <2>5, <3>3
    <3> QED
      BY <3>4 DEF bound
  <2> QED
    BY <2>4, <2>5
<1> QED
  BY <1>3, <1>4

-----------------------------------------------------------------------------
\* A result is that of what the analyses knew earlier; a world stays.
AssociationIsEarlier ==
  /\ world \in Worlds
  /\ association # Nothing =>
       /\ world.lane = "sites" /\ association.condition \in Conditions
       /\ \E k \in SUBSET known, ids \in world.bindings, pathids \in world.paths :
            /\ association.bound = ResolveAll(world, k, ids)
            /\ association.paths = Resolve(world, k, pathids)
            /\ Admissible(association.condition, association.bound, association.paths)
            /\ association.result = Associate(association.condition, association.bound, association.paths,
                                              world.architecture)

\* The results are those of match_trigger_condition.
LEMMA AssociationStaysEarlier == Spec => []AssociationIsEarlier
<1>1. Init => AssociationIsEarlier
  BY DEF Init, AssociationIsEarlier
<1>2. AssociationIsEarlier /\ [Next]_vars => AssociationIsEarlier'
  <2> SUFFICES ASSUME AssociationIsEarlier, [Next]_vars
               PROVE  AssociationIsEarlier'
    OBVIOUS
  <2>1. CASE Project
    BY <2>1 DEF Project, AssociationIsEarlier
  <2>2. CASE Learn
    BY <2>2 DEF Learn, AssociationIsEarlier
  <2>3. CASE MatchContract
    BY <2>3 DEF MatchContract, AssociationIsEarlier
  <2>4. CASE CompareContract
    BY <2>4 DEF CompareContract, AssociationIsEarlier
  <2>5. CASE BindRuntime
    BY <2>5 DEF BindRuntime, AssociationIsEarlier
  <2>6. CASE MatchTrigger
    <3>1. PICK c \in Conditions, ids \in world.bindings, pathids \in world.paths :
            LET bound == ResolveAll(world, known, ids) paths == Resolve(world, known, pathids)
            IN  /\ Admissible(c, bound, paths)
                /\ association' = [condition |-> c, bound |-> bound, paths |-> paths,
                                   result |-> Associate(c, bound, paths, world.architecture)]
      BY <2>6 DEF MatchTrigger
    <3>2. world' = world /\ known' = known /\ world.lane = "sites"
      BY <2>6 DEF MatchTrigger
    <3> QED
      BY <3>1, <3>2 DEF AssociationIsEarlier
  <2>7. CASE Establish
    BY <2>7 DEF Establish, AssociationIsEarlier
  <2>8. CASE UNCHANGED vars
    BY <2>8 DEF vars, AssociationIsEarlier
  <2> QED
    BY <2>1, <2>2, <2>3, <2>4, <2>5, <2>6, <2>7, <2>8 DEF Next
<1> QED
  BY <1>1, <1>2, PTL DEF Spec

\* When the analyses know more, the same binding does not give the contrary of what it
\* gave (matcher.py: the merge of the facts of an atom).
THEOREM CandidatesAreFinal == Spec => []CandidatesStand
<1>1. AssociationIsEarlier => CandidatesStand
  <2> SUFFICES ASSUME AssociationIsEarlier, association # Nothing
               PROVE  CandidatesStand
    BY DEF CandidatesStand
  <2>1. PICK k \in SUBSET known, ids \in world.bindings, pathids \in world.paths :
            /\ association.bound = ResolveAll(world, k, ids)
            /\ association.paths = Resolve(world, k, pathids)
            /\ association.result = Associate(association.condition, association.bound, association.paths,
                                              world.architecture)
    BY DEF AssociationIsEarlier
  <2> DEFINE c == association.condition
             arch == world.architecture
             bound == [id \in DOMAIN association.bound |->
                        [association.bound[id] EXCEPT !.refs = Resolve(world, known, Ids(@))]]
             paths == Resolve(world, known, Ids(association.paths))
             then == [t \in c.atoms |-> AtomStatus(t, association.bound, association.paths, arch)]
             now == [t \in c.atoms |-> AtomStatus(t, bound, paths, arch)]
             required == {t \in c.atoms : t.required}
             Disputed(t) == t.id \in DOMAIN bound /\ Disagree({f \in bound[t.id].refs : f.kind = t.kind})
  <2>2. bound = ResolveAll(world, known, ids)
    <3>1. DOMAIN association.bound = DOMAIN ids
      BY <2>1 DEF ResolveAll
    <3>2. ASSUME NEW id \in DOMAIN ids
          PROVE  [association.bound[id] EXCEPT !.refs = Resolve(world, known, Ids(@))]
                   = [site |-> ids[id].site, refs |-> Resolve(world, known, ids[id].refs)]
      <4>1. association.bound[id] = [site |-> ids[id].site, refs |-> Resolve(world, k, ids[id].refs)]
        BY <2>1 DEF ResolveAll
      <4> QED
        BY <4>1, ResolvedAgain
    <3> QED
      BY <3>1, <3>2 DEF ResolveAll
  <2>3. paths = Resolve(world, known, pathids)
    BY <2>1, ResolvedAgain
  <2>4. DOMAIN bound = DOMAIN ids
        /\ \A id \in DOMAIN ids : bound[id].refs = Resolve(world, known, ids[id].refs)
    <3> HIDE DEF bound
    <3> QED
      BY <2>2 DEF ResolveAll
  <2> HIDE DEF bound, paths
  <2>5. ASSUME NEW t \in c.atoms, then[t] \in {"matched", "conflict"}
        PROVE  now[t] = then[t] \/ (Disputed(t) /\ now[t] = "unknown")
    <3>1. ValidAtom(t)
      BY ConditionsAssumption DEF AssociationIsEarlier, ValidTriggerCondition
    <3>2. /\ then[t] = AtomStatus(t, ResolveAll(world, k, ids), Resolve(world, k, pathids), arch)
          /\ now[t] = AtomStatus(t, ResolveAll(world, known, ids), Resolve(world, known, pathids), arch)
      BY <2>1, <2>2, <2>3
    <3>3. \/ now[t] = then[t]
          \/ /\ t.id \in DOMAIN ids /\ now[t] = "unknown"
             /\ Disagree({f \in Resolve(world, known, ids[t.id].refs) : f.kind = t.kind})
      BY <2>5, <3>1, <3>2, AtomStands
    <3> QED
      BY <2>4, <3>3
  <2> DEFINE a == AggregateStatus({then[t] : t \in required})
             b == AggregateStatus({now[t] : t \in required})
  <2>6. {a, b} # {"full_static_match", "conflict"}
    <3>1. CASE "conflict" \in {then[t] : t \in required}
      <4>1. \E t \in required : now[t] # "matched"
        BY <2>5, <3>1
      <4> HIDE DEF then, now
      <4>2. a = "conflict" /\ b # "full_static_match"
        BY <3>1, <4>1 DEF AggregateStatus
      <4> QED
        BY <4>2
    <3>2. CASE {then[t] : t \in required} = {"matched"}
      <4>1. \A t \in required : now[t] # "conflict"
        BY <2>5, <3>2
      <4> HIDE DEF then, now
      <4>2. a = "full_static_match" /\ b # "conflict"
        BY <3>2, <4>1 DEF AggregateStatus
      <4> QED
        BY <4>2
    <3>3. CASE "conflict" \notin {then[t] : t \in required} /\ {then[t] : t \in required} # {"matched"}
      <4> HIDE DEF then, now
      <4>1. a \notin {"full_static_match", "conflict"}
        BY <3>3 DEF AggregateStatus
      <4> QED
        BY <4>1
    <3> QED
      BY <3>1, <3>2, <3>3
  <2>7. /\ association.result.status = then /\ association.result.overall = a
        /\ Associate(c, bound, paths, arch).status = now
        /\ Associate(c, bound, paths, arch).overall = b
    BY <2>1 DEF Associate
  <2> HIDE DEF then, now, a, b
  <2>8. \A t \in c.atoms : association.result.status[t] \in {"matched", "conflict"} =>
          Associate(c, bound, paths, arch).status[t] \in
            {association.result.status[t]} \cup (IF Disputed(t) THEN {"unknown"} ELSE {})
    BY <2>5, <2>7
  <2> QED
    BY <2>6, <2>7, <2>8 DEF CandidatesStand, bound, paths
<1> QED
  BY <1>1, AssociationStaysEarlier, PTL

-----------------------------------------------------------------------------
(* What the checks of an atom say of the site that it is bound to.         *)

\* The registers have their numbers (normalize_register).
LEMMA NormalIsNumber ==
  ASSUME NEW w \in Worlds, w.lane = "sites", NEW a, NEW b,
         Stated(Normal(a, w.architecture)), Stated(Normal(b, w.architecture))
  PROVE  RegisterIn(w, a) = RegisterIn(w, b) <=> Normal(a, w.architecture) = Normal(b, w.architecture)
<1>1. \A x : Stated(Normal(x, w.architecture)) => x \in Numbered(w.architecture) \cup {"sp"}
  BY DEF Normal, Stated
<1> HIDE DEF Normal
<1> QED
  BY <1>1, SitesAssumption

\* A fact that has an encoding tells its representation (facts.py).
LEMMA EncodedAs ==
  ASSUME NEW w \in Worlds, w.lane = "sites", NEW k, NEW f \in w.facts,
         "encoding" \in DOMAIN Fact(w, k, f).fields
  PROVE  "representation" \in DOMAIN Fact(w, k, f).fields
<1> DEFINE whole == Whole(f, w.architecture)
           Shown(key) == IF f.source = "behavior" /\ ~Stated(f.annotation)
                         THEN <<f.id, "decoded">> \in k /\ (key = "encoding" => <<f.id, "encoding">> \in k)
                         ELSE <<f.id, key>> \in k
           fields == [key \in {key \in DOMAIN whole.fields : Shown(key)} |-> whole.fields[key]]
           path == IF f.source = "reachability" /\ <<f.id, "path">> \notin k THEN <<>> ELSE whole.path
           status == IF f.source = "reachability" /\ <<f.id, "path">> \notin k THEN "not_found_within_bound" ELSE whole.status
<1>1. \E source, kind, pth, st, site, fl :
        whole = [source |-> source, id |-> f.id, kind |-> kind, path |-> pth, status |-> st,
                 site |-> site, fields |-> fl]
  BY DEF Whole, BehaviorFact, RelationFact, PathFact
<1>2. Fact(w, k, f) = [whole EXCEPT !.fields = fields, !.path = path, !.status = status]
  BY DEF Fact
<1>3. Fact(w, k, f).fields = fields
  <2> HIDE DEF whole, fields, path, status
  <2> QED
    BY <1>1, <1>2
<1>4. "encoding" \in DOMAIN whole.fields /\ Shown("encoding")
  BY <1>3
<1>5. "representation" \in DOMAIN whole.fields /\ Shown("representation")
  <2>1. DOMAIN NoFields = {}
    BY DEF NoFields
  <2>2. CASE f.source = "behavior"
    <3>1. whole.fields = IF Stated(f.annotation) THEN f.annotation
                         ELSE IF f.kind = "instruction" /\ Stated(f.decoded) THEN DecodedFields(f.decoded, w.architecture)
                         ELSE NoFields
      BY <2>2 DEF Whole, BehaviorFact
    <3>2. ~Stated(f.annotation)
      BY <1>4, <2>2, <3>1, SitesAssumption
    <3>3. whole.fields = DecodedFields(f.decoded, w.architecture)
      BY <1>4, <2>1, <3>1, <3>2
    <3>4. "representation" \in DOMAIN DecodedFields(f.decoded, w.architecture)
      BY DEF DecodedFields, Merge
    <3> QED
      BY <1>4, <2>2, <3>2, <3>3, <3>4
  <2>3. CASE f.source = "relation"
    <3>1. whole.fields = IF Stated(f.direction) THEN [access |-> f.direction] ELSE NoFields
      BY <2>3 DEF Whole, RelationFact
    <3> QED
      BY <1>4, <2>1, <3>1
  <2>4. CASE f.source \notin {"behavior", "relation"}
    <3>1. whole.fields = NoFields
      BY <2>4 DEF Whole, PathFact
    <3> QED
      BY <1>4, <2>1, <3>1
  <2> QED
    BY <2>2, <2>3, <2>4
<1>6. "representation" \in DOMAIN fields
  BY <1>5
<1> QED
  BY <1>3, <1>6

\* Two lists of registers that have the same numbers (normalize_register).
LEMMA NormalsAreNumbers ==
  ASSUME NEW w \in Worlds, w.lane = "sites", NEW want, NEW actual,
         \A i \in DOMAIN want : Stated(Normal(want[i], w.architecture)),
         \A i \in DOMAIN actual : Stated(Normal(actual[i], w.architecture))
  PROVE  [i \in DOMAIN want |-> Normal(want[i], w.architecture)]
           = [i \in DOMAIN actual |-> Normal(actual[i], w.architecture)]
         <=> [i \in DOMAIN want |-> RegisterIn(w, want[i])] = [i \in DOMAIN actual |-> RegisterIn(w, actual[i])]
<1> DEFINE N(list) == [i \in DOMAIN list |-> Normal(list[i], w.architecture)]
           R(list) == [i \in DOMAIN list |-> RegisterIn(w, list[i])]
<1>1. \A list : DOMAIN N(list) = DOMAIN list /\ DOMAIN R(list) = DOMAIN list
  OBVIOUS
<1>2. \A list : \A i \in DOMAIN list : N(list)[i] = Normal(list[i], w.architecture) /\ R(list)[i] = RegisterIn(w, list[i])
  OBVIOUS
<1>3. ASSUME N(want) = N(actual)
      PROVE  R(want) = R(actual)
  <2>1. DOMAIN want = DOMAIN actual
    <3> HIDE DEF N, R
    <3> QED
      BY <1>1, <1>3
  <2>2. \A i \in DOMAIN want : Normal(want[i], w.architecture) = Normal(actual[i], w.architecture)
    <3> HIDE DEF N, R
    <3> QED
      BY <1>2, <1>3, <2>1
  <2>3. \A i \in DOMAIN want : RegisterIn(w, want[i]) = RegisterIn(w, actual[i])
    BY <2>1, <2>2, NormalIsNumber
  <2> QED
    BY <2>1, <2>3
<1>4. ASSUME R(want) = R(actual)
      PROVE  N(want) = N(actual)
  <2>1. DOMAIN want = DOMAIN actual
    <3> HIDE DEF N, R
    <3> QED
      BY <1>1, <1>4
  <2>2. \A i \in DOMAIN want : RegisterIn(w, want[i]) = RegisterIn(w, actual[i])
    <3> HIDE DEF N, R
    <3> QED
      BY <1>2, <1>4, <2>1
  <2>3. \A i \in DOMAIN want : Normal(want[i], w.architecture) = Normal(actual[i], w.architecture)
    BY <2>1, <2>2, NormalIsNumber
  <2> QED
    BY <2>1, <2>3
<1> QED
  BY <1>3, <1>4

\* A field that is right, of a fact `f` among the merged ones, decides the check of it.
LEMMA CheckIsTrue ==
  ASSUME world \in Worlds, world.lane = "sites",
         NEW wants, NEW key \in DOMAIN wants, \A x \in DOMAIN wants : Stated(wants[x]),
         key # "representation",
         NEW merged, NEW said, key \in DOMAIN said, key \in DOMAIN merged, merged[key] = said[key],
         key = "encoding" => /\ "representation" \in DOMAIN wants
                             /\ "representation" \in DOMAIN said /\ "representation" \in DOMAIN merged
                             /\ merged["representation"] = said["representation"],
         NEW truth, Answers(key, Plain(key, said[key]), said, truth)
  PROVE  /\ Check(key, wants, merged, world.architecture) = "yes" => Answers(key, wants[key], wants, truth)
         /\ Check(key, wants, merged, world.architecture) = "no" => ~Answers(key, wants[key], wants, truth)
<1> DEFINE want == wants[key]
           actual == said[key]
           arch == world.architecture
<1>1. key \in DOMAIN truth
  BY DEF Answers
<1>2. Get(merged, key) = actual
  BY DEF Get
<1>3. CASE key \in {"register", "destination", "base"}
  <2>1. Check(key, wants, merged, arch) = SameRegister(want, actual, arch)
    BY <1>2, <1>3 DEF Check
  <2>2. \A x, y : Answers(key, x, y, truth) <=> RegisterOf(x) = truth[key]
    BY <1>1, <1>3 DEF Answers
  <2>3. RegisterOf(actual) = truth[key]
    BY <1>3, <2>2 DEF Plain
  <2>4. SameRegister(want, actual, arch) # "unknown" =>
          (RegisterOf(want) = RegisterOf(actual) <=> Normal(want, arch) = Normal(actual, arch))
    BY NormalIsNumber DEF SameRegister, RegisterOf, Stated
  <2>5. SameRegister(want, actual, arch) \in {"unknown", YesNo(Normal(want, arch) = Normal(actual, arch))}
    BY DEF SameRegister
  <2> QED
    BY <2>1, <2>2, <2>3, <2>4, <2>5 DEF YesNo
<1>4. CASE key = "sources"
  <2> DEFINE N(list) == [i \in DOMAIN list |-> Normal(list[i], arch)]
             R(list) == [i \in DOMAIN list |-> RegisterIn(world, list[i])]
  <2>1. Check(key, wants, merged, arch) = SameRegisters(want, actual, arch)
    BY <1>2, <1>4 DEF Check
  <2>2. \A x, y : Answers(key, x, y, truth) <=> R(x) = truth[key]
    BY <1>1, <1>4 DEF Answers, RegisterOf
  <2>3. R(actual) = truth[key]
    BY <1>4, <2>2 DEF Plain
  <2>4. SameRegisters(want, actual, arch) # "unknown" =>
          /\ \A i \in DOMAIN want : Stated(Normal(want[i], arch))
          /\ \A i \in DOMAIN actual : Stated(Normal(actual[i], arch))
    BY DEF SameRegisters
  <2>5. SameRegisters(want, actual, arch) # "unknown" => (N(want) = N(actual) <=> R(want) = R(actual))
    BY <2>4, NormalsAreNumbers
  <2>6. SameRegisters(want, actual, arch) \in {"unknown", YesNo(N(want) = N(actual))}
    BY DEF SameRegisters
  <2> HIDE DEF N, R
  <2> QED
    BY <2>1, <2>2, <2>3, <2>5, <2>6 DEF YesNo
<1>5. CASE key = "access"
  <2>1. Check(key, wants, merged, arch) = SameAccess(want, actual)
    BY <1>2, <1>5 DEF Check
  <2>2. \A x, y : Answers(key, x, y, truth) <=> x \in {truth[key], "either"}
    BY <1>1, <1>5 DEF Answers
  <2>3. actual \in {truth[key], "either"}
    BY <1>5, <2>2 DEF Plain
  <2> QED
    BY <2>1, <2>2, <2>3 DEF SameAccess, YesNo
<1>6. CASE key = "encoding"
  <2> DEFINE rep == said["representation"]
  <2>1. Get(merged, "representation") = rep
    BY <1>6 DEF Get
  <2>2. Check(key, wants, merged, arch) # "unknown" =>
          rep = wants.representation /\ Check(key, wants, merged, arch) = YesNo(Satisfies(actual, want))
    BY <1>2, <1>6, <2>1 DEF Check, Fitting
  <2>3. truth[key][rep] = actual
    BY <1>1, <1>6 DEF Answers, Plain, Satisfies
  <2>4. Answers(key, want, wants, truth) <=> Satisfies(truth[key][wants.representation], want)
    BY <1>1, <1>6 DEF Answers
  <2> QED
    BY <2>2, <2>3, <2>4 DEF YesNo
<1>7. CASE key = "stage"
  <2>1. Check(key, wants, merged, arch) = IF actual = want THEN "yes" ELSE "unknown"
    BY <1>2, <1>7 DEF Check
  <2>2. \A x, y : Answers(key, x, y, truth) <=> x \in truth[key]
    BY <1>1, <1>7 DEF Answers
  <2>3. actual \in truth[key]
    BY <1>7, <2>2 DEF Plain
  <2> QED
    BY <2>1, <2>2, <2>3
<1>8. CASE key \in {"immediate", "value", "state"}
  <2>1. Check(key, wants, merged, arch) = Fitting(want, actual)
    BY <1>2, <1>8 DEF Check
  <2>2. \A x, y : Answers(key, x, y, truth) <=> Satisfies(truth[key], x)
    BY <1>1, <1>8 DEF Answers
  <2>3. truth[key] = actual
    <3>1. Plain(key, actual) = [operator |-> "eq", low |-> actual, high |-> actual]
      BY <1>8 DEF Plain
    <3>2. Satisfies(truth[key], Plain(key, actual))
      BY <2>2
    <3> QED
      BY <3>1, <3>2 DEF Satisfies
  <2> QED
    BY <2>1, <2>2, <2>3 DEF Fitting, YesNo
<1>9. CASE key \notin {"register", "destination", "base", "sources", "access", "encoding", "stage",
                       "immediate", "value", "state"}
  <2>1. Check(key, wants, merged, arch) \in {"unknown", YesNo(actual = want)}
    BY <1>2, <1>9 DEF Check
  <2>2. \A x, y : Answers(key, x, y, truth) <=> truth[key] = x
    BY <1>1, <1>9 DEF Answers
  <2>3. truth[key] = actual
    BY <1>9, <2>2 DEF Plain
  <2> QED
    BY <2>1, <2>2, <2>3 DEF YesNo
<1> QED
  BY <1>3, <1>4, <1>5, <1>6, <1>7, <1>8, <1>9

\* What the bound facts have of an atom, if some of them has each field right: with a
\* match it happens at the site, and with a conflict it does not (_result).
LEMMA FieldStatusIsTrue ==
  ASSUME world \in Worlds, world.lane = "sites", NEW k, NEW ids, NEW site,
         NEW t, ValidAtom(t), t.kind # "ordering",
         \A f \in Resolve(world, k, ids) : f.site = site,
         ~Misled(t, Resolve(world, k, ids))
  PROVE  LET status == FieldStatus(t, Resolve(world, k, ids), world.architecture)
         IN  (status = "matched" => HoldsAt(t, site)) /\ (status = "conflict" => ~HoldsAt(t, site))
<1> DEFINE facts == FactsOf(world, k, ids, t.kind)
           merged == FieldsOfAll(facts)
           wants == t.wants
           arch == world.architecture
           status == FieldStatus(t, Resolve(world, k, ids), arch)
           truth == world.truth[site][t.kind]
           K == DOMAIN wants \ (IF "encoding" \in DOMAIN wants THEN {"representation"} ELSE {})
           C(key) == Check(key, wants, merged, arch)
<1>1. status = IF Disagree(facts) THEN "unknown" ELSE AtomOutcome({C(key) : key \in K})
  BY DEF FieldStatus, FactsOf, Checks
<1>2. CASE Disagree(facts)
  BY <1>1, <1>2
<1>3. CASE ~Disagree(facts)
  <2>1. ASSUME NEW key \in DOMAIN merged
        PROVE  \E g \in facts : key \in DOMAIN g.fields /\ Right(g, key) /\ merged[key] = g.fields[key]
    <3>1. PICK f \in facts : key \in DOMAIN f.fields
      <4>1. DOMAIN merged = UNION {DOMAIN f.fields : f \in facts}
        BY <1>3, MergedFields
      <4> HIDE DEF merged, facts
      <4> QED
        BY <4>1
    <3>2. PICK g \in facts : key \in DOMAIN g.fields /\ Right(g, key)
      BY <3>1 DEF Misled, FactsOf
    <3>3. merged[key] = g.fields[key]
      BY <1>3, <3>2, MergedFields
    <3> QED
      BY <3>2, <3>3
  <2>2. \A g \in facts : g.kind = t.kind /\ g.site = site
    BY DEF FactsOf
  <2>3. /\ \A x \in DOMAIN wants : Stated(wants[x])
        /\ "encoding" \in DOMAIN wants => "representation" \in DOMAIN wants
    BY DEF ValidAtom
  <2>4. ASSUME NEW g \in facts, "encoding" \in DOMAIN g.fields
        PROVE  "representation" \in DOMAIN g.fields
    <3>1. PICK f \in world.facts : g = Fact(world, k, f)
      BY DEF FactsOf, Resolve
    <3> QED
      BY <2>4, <3>1, EncodedAs
  <2>5. ASSUME NEW key \in K, key # "representation", key \in DOMAIN merged
        PROVE  /\ t.kind \in DOMAIN world.truth[site]
               /\ C(key) = "yes" => Answers(key, wants[key], wants, truth)
               /\ C(key) = "no" => ~Answers(key, wants[key], wants, truth)
    <3>1. PICK g \in facts : key \in DOMAIN g.fields /\ Right(g, key) /\ merged[key] = g.fields[key]
      BY <2>1, <2>5
    <3>2. t.kind \in DOMAIN world.truth[site] /\ Answers(key, Plain(key, g.fields[key]), g.fields, truth)
      BY <2>2, <3>1 DEF Right
    <3>3. key = "encoding" => /\ "representation" \in DOMAIN wants
                              /\ "representation" \in DOMAIN g.fields /\ "representation" \in DOMAIN merged
                              /\ merged["representation"] = g.fields["representation"]
      <4>1. \A x \in DOMAIN g.fields : x \in DOMAIN merged /\ merged[x] = g.fields[x]
        <5> HIDE DEF facts
        <5>1. /\ DOMAIN merged = UNION {DOMAIN f.fields : f \in facts}
              /\ \A f \in facts : \A x \in DOMAIN f.fields : merged[x] = f.fields[x]
          BY <1>3, MergedFields
        <5> HIDE DEF merged
        <5> QED
          BY <5>1
      <4> HIDE DEF facts, merged
      <4> QED
        BY <2>3, <2>4, <3>1, <4>1
    <3> HIDE DEF merged, truth
    <3> QED
      BY <2>3, <2>5, <3>1, <3>2, <3>3, CheckIsTrue
  <2>6. \A key \in K : C(key) \in {"yes", "no"} => key \in DOMAIN merged
    <3>1. \A key \in K : key \notin DOMAIN merged => Get(merged, key) = Nothing
      BY DEF Get
    <3> HIDE DEF merged
    <3> QED
      BY <2>3, <3>1 DEF Check, SameRegister, SameRegisters, SameAccess, Fitting, Stated
  <2>7. C("representation") # "no"
    BY DEF Check
  <2> HIDE DEF facts, merged, truth, C
  <2>8. CASE status = "matched"
    <3>1. {C(key) : key \in K} = {"yes"}
      BY <1>1, <1>3, <2>8 DEF AtomOutcome
    <3>2. \A key \in DOMAIN wants : key # "representation" => key \in K
      OBVIOUS
    <3> HIDE DEF K
    <3>3. \A key \in DOMAIN wants : key # "representation" => Answers(key, wants[key], wants, truth)
      BY <2>5, <2>6, <3>1, <3>2
    <3>4. \A key \in DOMAIN wants : Answers(key, wants[key], wants, truth)
      BY <3>3 DEF Answers
    <3>5. t.kind \in DOMAIN world.truth[site]
      <4>1. PICK key \in K : C(key) = "yes"
        BY <3>1
      <4>2. PICK g \in facts : Right(g, key)
        BY <2>1, <2>6, <4>1
      <4> QED
        BY <2>2, <4>2 DEF Right
    <3> QED
      BY <2>8, <3>4, <3>5 DEF HoldsAt, truth
  <2>9. CASE status = "conflict"
    <3>1. PICK key \in K : C(key) = "no"
      BY <1>1, <1>3, <2>9 DEF AtomOutcome
    <3>2. key # "representation" /\ key \in DOMAIN merged /\ key \in DOMAIN wants
      BY <2>6, <2>7, <3>1
    <3>3. ~Answers(key, wants[key], wants, truth)
      BY <2>5, <3>1, <3>2
    <3> QED
      BY <2>9, <3>2, <3>3 DEF HoldsAt, truth
  <2> QED
    BY <2>8, <2>9
<1> QED
  BY <1>2, <1>3

-----------------------------------------------------------------------------
(* What a witness says of an order.                                        *)

\* The first place of a site in a path (list.index).
LEMMA FirstIsThere ==
  ASSUME NEW S, NEW path \in Seq(S), NEW site, \E i \in DOMAIN path : path[i] = site
  PROVE  First(path, site) \in DOMAIN path /\ path[First(path, site)] = site
<1> DEFINE at == {i \in DOMAIN path : path[i] = site}
<1>1. at \subseteq Nat /\ at # {} /\ DOMAIN path = 1 .. Len(path) /\ Len(path) \in Nat
  OBVIOUS
<1>2. PICK i \in at : \A j \in at : ~(j < i)
  <2> DEFINE R == {p \in Nat \X Nat : p[1] < p[2]}
  <2> HIDE DEF at
  <2>1. IsWellFoundedOn(R, Nat)
    BY NatLessThanWellFounded DEF OpToRel
  <2>2. PICK i \in at : \A j \in at : ~(<<j, i>> \in R)
    <3> HIDE DEF R
    <3> QED
      BY <1>1, <2>1, WFMin
  <2> QED
    BY <1>1, <2>2
<1>3. \A j \in 1 .. i - 1 : path[j] # site
  BY <1>1, <1>2
<1> QED
  BY <1>2, <1>3 DEF First

\* A path that is found goes along walks: the order that it witnesses is one of them
\* (_ordering).
LEMMA WitnessIsTrue ==
  ASSUME world \in Worlds, world.lane = "sites", NEW k, NEW f \in world.facts,
         Fact(world, k, f).source = "reachability", NEW before, NEW after,
         Witness(Fact(world, k, f), before, after)
  PROVE  Precedes(before, after)
<1> DEFINE p == Fact(world, k, f)
           path == f.path
<1>1. Positive(p.status)
  BY DEF Witness
<1>2. p.path = path /\ p.status = f.status
  <2> DEFINE whole == Whole(f, world.architecture)
             missed == f.source = "reachability" /\ <<f.id, "path">> \notin k
             fields == p.fields
  <2>1. /\ f.source \notin {"behavior", "relation"} => whole = PathFact(f)
        /\ f.source = "behavior" => whole.source = "behavior"
        /\ f.source = "relation" => whole.source = "relation"
    BY DEF Whole, BehaviorFact, RelationFact, PathFact
  <2>2. \E source, kind, pth, st, site, fl :
          whole = [source |-> source, id |-> f.id, kind |-> kind, path |-> pth, status |-> st,
                   site |-> site, fields |-> fl]
    BY DEF Whole, BehaviorFact, RelationFact, PathFact
  <2>3. \E F : p = [whole EXCEPT !.fields = F, !.path = IF missed THEN <<>> ELSE whole.path,
                                !.status = IF missed THEN "not_found_within_bound" ELSE whole.status]
    BY DEF Fact
  <2> HIDE DEF whole, missed, p
  <2>4. /\ p.source = whole.source
        /\ p.path = IF missed THEN <<>> ELSE whole.path
        /\ p.status = IF missed THEN "not_found_within_bound" ELSE whole.status
    BY <2>2, <2>3
  <2>5. whole = PathFact(f)
    BY <2>1, <2>4 DEF p
  <2>6. whole.path = path /\ whole.status = f.status
    BY <2>5 DEF PathFact
  <2>7. ~missed
    BY <1>1, <2>4 DEF Positive
  <2> QED
    BY <2>4, <2>6, <2>7 DEF p
<1>3. path \in Seq({path[i] : i \in DOMAIN path})
  BY SitesAssumption
<1>4. /\ First(path, before) \in DOMAIN path /\ path[First(path, before)] = before
      /\ First(path, after) \in DOMAIN path /\ path[First(path, after)] = after
  <2>1. (\E i \in DOMAIN path : path[i] = before) /\ \E i \in DOMAIN path : path[i] = after
    BY <1>2 DEF Witness
  <2> HIDE DEF path
  <2> QED
    BY <1>3, <2>1, FirstIsThere
<1>5. First(path, before) < First(path, after)
  BY <1>2 DEF Witness
<1>6. ComesBefore(world, path[First(path, before)], path[First(path, after)])
  BY <1>1, <1>2, <1>4, <1>5, SitesAssumption
<1> QED
  BY <1>4, <1>6 DEF Precedes

-----------------------------------------------------------------------------
\* A candidate says what is true of the sites that it was bound to, unless the facts
\* are mistaken (matcher.py).
THEOREM CandidatesSayTheTruth == Spec => []CandidatesAreTrue
<1>1. AssociationIsEarlier => CandidatesAreTrue
  <2> SUFFICES ASSUME AssociationIsEarlier, association # Nothing
               PROVE  CandidatesAreTrue
    BY DEF CandidatesAreTrue
  <2> DEFINE c == association.condition
             bound == association.bound
             paths == association.paths
             arch == world.architecture
             status == association.result.status
             required == {t \in c.atoms : t.required}
             Excused(t) == t.id \in DOMAIN bound /\ Misled(t, bound[t.id].refs)
             Confirmed(t) == Happens(t, bound) \/ Excused(t)
             Denied(t) == t.id \in DOMAIN bound /\ (~Happens(t, bound) \/ Excused(t))
  <2>1. PICK k \in SUBSET known, ids \in world.bindings, pathids \in world.paths :
            /\ bound = ResolveAll(world, k, ids)
            /\ paths = Resolve(world, k, pathids)
            /\ Admissible(c, bound, paths)
            /\ association.result = Associate(c, bound, paths, arch)
    BY DEF AssociationIsEarlier
  <2>2. world \in Worlds /\ world.lane = "sites" /\ c \in Conditions
    BY DEF AssociationIsEarlier
  <2>3. /\ status = [t \in c.atoms |-> AtomStatus(t, bound, paths, arch)]
        /\ association.result.overall = AggregateStatus({status[t] : t \in required})
    BY <2>1 DEF Associate
  <2>4. \A id \in DOMAIN bound : /\ bound[id].refs = Resolve(world, k, ids[id].refs)
                                 /\ \A f \in bound[id].refs : f.site = bound[id].site
    BY <2>1 DEF ResolveAll, Admissible
  <2> HIDE DEF bound, paths, c
  <2>5. ASSUME NEW t \in required
        PROVE  (status[t] = "matched" => Confirmed(t)) /\ (status[t] = "conflict" => Denied(t))
    <3>1. status[t] = AtomStatus(t, bound, paths, arch)
      BY <2>3
    <3>2. CASE t.kind = "ordering"
      <4>1. status[t] = OrderingStatus(t.wants, bound, paths)
        BY <3>1, <3>2 DEF AtomStatus
      <4>2. status[t] # "conflict"
        BY <4>1 DEF OrderingStatus, AtomOutcome
      <4>3. ASSUME status[t] = "matched"
            PROVE  Happens(t, bound)
        <5>1. PICK p \in paths : Witness(p, bound[t.wants.before].site, bound[t.wants.after].site)
          BY <4>1, <4>3 DEF OrderingStatus
        <5>2. PICK f \in world.facts : p = Fact(world, k, f)
          BY <2>1 DEF Resolve
        <5>3. p.source = "reachability"
          BY <2>1 DEF Admissible
        <5>4. Precedes(bound[t.wants.before].site, bound[t.wants.after].site)
          BY <2>2, <5>1, <5>2, <5>3, WitnessIsTrue
        <5> QED
          BY <3>2, <5>4 DEF Happens
      <4> QED
        BY <4>2, <4>3
    <3>3. CASE t.kind # "ordering" /\ (t.kind = "hardware_state" \/ t.id \notin DOMAIN bound)
      BY <3>1, <3>3 DEF AtomStatus
    <3>4. CASE t.kind \notin {"ordering", "hardware_state"} /\ t.id \in DOMAIN bound
      <4>1. status[t] = FieldStatus(t, bound[t.id].refs, arch)
        BY <3>1, <3>4 DEF AtomStatus
      <4>2. CASE Excused(t)
        BY <3>4, <4>2
      <4>3. CASE ~Excused(t)
        <5>1. ValidAtom(t)
          BY <2>2, ConditionsAssumption DEF ValidTriggerCondition
        <5>2. /\ status[t] = "matched" => HoldsAt(t, bound[t.id].site)
              /\ status[t] = "conflict" => ~HoldsAt(t, bound[t.id].site)
          <6>1. ~Misled(t, bound[t.id].refs)
            BY <3>4, <4>3
          <6>2. bound[t.id].refs = Resolve(world, k, ids[t.id].refs)
            BY <2>4, <3>4
          <6>3. \A f \in bound[t.id].refs : f.site = bound[t.id].site
            BY <2>4, <3>4
          <6> QED
            BY <2>2, <3>4, <4>1, <5>1, <6>1, <6>2, <6>3, FieldStatusIsTrue
        <5>3. Happens(t, bound) <=> HoldsAt(t, bound[t.id].site)
          BY <3>4 DEF Happens
        <5> QED
          BY <3>4, <5>2, <5>3
      <4> QED
        BY <4>2, <4>3
    <3> QED
      BY <3>2, <3>3, <3>4
  <2> HIDE DEF status, Confirmed, Denied
  <2>6. association.result.overall = "full_static_match" => \A t \in required : Confirmed(t)
    <3>1. AggregateStatus({status[t] : t \in required}) = "full_static_match" =>
            {status[t] : t \in required} = {"matched"}
      BY DEF AggregateStatus
    <3> QED
      BY <2>3, <2>5, <3>1
  <2>7. association.result.overall = "conflict" => \E t \in required : Denied(t)
    <3>1. AggregateStatus({status[t] : t \in required}) = "conflict" =>
            "conflict" \in {status[t] : t \in required}
      BY DEF AggregateStatus
    <3> QED
      BY <2>3, <2>5, <3>1
  <2> QED
    BY <2>5, <2>6, <2>7 DEF CandidatesAreTrue, c, bound, status, Confirmed, Denied
<1> QED
  BY <1>1, AssociationStaysEarlier, PTL

-----------------------------------------------------------------------------
(* Where the results come from.                                            *)

\* The resource of a static access, or none: one of a catalog that holds its address.
PlacedIn(f, r) ==
  r = Nothing \/ /\ f.kind \in MemoryAccess \cup SystemAccess
                 /\ f.kind \in MemoryAccess => /\ r.kind \in AddressedKinds /\ Stated(f.address)
                                               /\ Holds(r, f.address)
                 /\ \E catalog \in world.catalogs : r \in catalog.resources

\* The capabilities are those of the facts, and what is declared is accepted.
CapabilitiesAreOfFacts ==
  /\ world \in Worlds
  /\ world.lane = "declared" => ValidCapability(Declared(world, known))
  /\ capabilities \notin {Nothing, Raised} =>
       /\ world.lane = "static" /\ DOMAIN capabilities \subseteq Sites
       /\ \A s \in DOMAIN capabilities :
            /\ Expressible(FactOf(s), world.architecture)
            /\ \E r : PlacedIn(FactOf(s), r) /\ capabilities[s] = StaticCapability(s, FactOf(s), r, world)

\* The comparison that is recorded is one of what was then formalized.
RecordIsOfCapability ==
  record # Nothing =>
    /\ record.contract \in Contracts
    /\ \/ /\ world.lane = "declared"
          /\ \E k \in SUBSET known : /\ ValidCapability(Declared(world, k))
                                     /\ record.result = Compare(Declared(world, k), record.contract)
       \/ /\ world.lane # "declared" /\ capabilities \notin {Nothing, Raised}
          /\ record.site \in DOMAIN capabilities
          /\ record.result = Compare(capabilities[record.site], record.contract)

CandidateIsOfCapabilities ==
  candidate # Nothing =>
    /\ Capabilities \notin {Nothing, Raised} /\ candidate.catalog \in world.catalogs
    /\ \E contract \in Contracts :
         candidate.result = Match(Capabilities, candidate.catalog, candidate.manual, contract)

ContinuityIsOfCapabilities ==
  continuity # Nothing =>
    /\ capabilities \notin {Nothing, Raised} /\ continuity.accounts \in world.accounts
    /\ continuity.status = [s \in DOMAIN capabilities |-> Continuity(capabilities[s], continuity.accounts)]

ResultsAreOfCapabilities ==
  CapabilitiesAreOfFacts /\ RecordIsOfCapability /\ CandidateIsOfCapabilities /\ ContinuityIsOfCapabilities

\* The resource that bind_resources finds for a fact holds its address.
LEMMA BoundIsPlaced ==
  ASSUME world \in Worlds, world.lane = "static",
         NEW catalog \in world.catalogs \cup {Nothing}, NEW manual, NEW f
  PROVE  PlacedIn(f, BoundResource(f, catalog, manual))
<1> DEFINE b == Select(f, catalog, manual)
<1>1. CASE ~Stated(catalog) \/ b.status # "SUPPORTED"
  BY <1>1 DEF BoundResource, PlacedIn
<1>2. CASE Stated(catalog) /\ b.status = "SUPPORTED"
  <2>1. catalog \in world.catalogs /\ ValidCatalog(catalog)
    BY <1>2, CatalogsAssumption DEF Stated
  <2>2. b = Automatic(f, catalog)
    <3>1. Stated(manual) => b.status \in {"refused", "CONTRADICTED", "UNKNOWN"}
      BY DEF Select, Manual, Refused, Unbound, Binding
    <3> QED
      BY <1>2, <3>1 DEF Select
  <2> DEFINE found == Candidates(f, catalog)
             r == CHOOSE r \in found : TRUE
  <2>3. /\ f.kind \in MemoryAccess \cup SystemAccess
        /\ Stated(IF f.kind \in MemoryAccess THEN f.address ELSE f.register)
        /\ found # {} /\ b = Binding(Judge(r, f), r.id)
    BY <1>2, <2>2 DEF Automatic, Unbound, Binding
  <2>4. r \in found
    BY <2>3
  <2>5. r \in catalog.resources /\ b.resource = r.id
    BY <2>3, <2>4 DEF Candidates, Binding
  <2>6. BoundResource(f, catalog, manual) = r
    <3>1. \A q \in catalog.resources : q.id = r.id => q = r
      BY <2>1, <2>5 DEF ValidCatalog
    <3> HIDE DEF r, found
    <3>2. (CHOOSE q \in catalog.resources : q.id = b.resource) = r
      BY <2>5, <3>1
    <3> QED
      BY <1>2, <3>2 DEF BoundResource
  <2>7. f.kind \in MemoryAccess => r.kind \in AddressedKinds /\ Holds(r, f.address)
    <3> HIDE DEF r
    <3> QED
      BY <2>4 DEF Candidates, Contains
  <2> QED
    BY <2>1, <2>3, <2>5, <2>6, <2>7 DEF PlacedIn
<1> QED
  BY <1>1, <1>2

\* An action that leaves the facts and the capabilities alone.
LEMMA FactsStay ==
  ASSUME CapabilitiesAreOfFacts, world' = world, known' = known, capabilities' = capabilities
  PROVE  CapabilitiesAreOfFacts'
<1>1. \A s, r : (FactOf(s))' = FactOf(s) /\ (PlacedIn(FactOf(s), r))' = PlacedIn(FactOf(s), r) /\ Sites' = Sites
  BY DEF FactOf, FactIn, PlacedIn, Sites
<1> QED
  BY <1>1 DEF CapabilitiesAreOfFacts

LEMMA ResultsStayOfCapabilities == Spec => []ResultsAreOfCapabilities
<1> USE DEF ResultsAreOfCapabilities
<1>1. Init => ResultsAreOfCapabilities
  BY WorldsAssumption DEF Init, CapabilitiesAreOfFacts, RecordIsOfCapability, CandidateIsOfCapabilities,
                          ContinuityIsOfCapabilities
<1>2. ResultsAreOfCapabilities /\ [Next]_vars => ResultsAreOfCapabilities'
  <2> SUFFICES ASSUME ResultsAreOfCapabilities, [Next]_vars
               PROVE  ResultsAreOfCapabilities'
    OBVIOUS
  <2>1. CASE Project
    <3>1. /\ world' = world /\ known' = known /\ world.lane = "static" /\ capabilities = Nothing
          /\ candidate' = candidate /\ record' = record /\ continuity' = continuity
      BY <2>1 DEF Project
    <3>2. record = Nothing /\ candidate = Nothing /\ continuity = Nothing
      BY <3>1 DEF RecordIsOfCapability, CandidateIsOfCapabilities, ContinuityIsOfCapabilities, Capabilities
    <3>3. ASSUME capabilities' # Raised
          PROVE  /\ DOMAIN capabilities' \subseteq Sites
                 /\ \A s \in DOMAIN capabilities' :
                      /\ Expressible(FactOf(s), world.architecture)
                      /\ \E r : PlacedIn(FactOf(s), r) /\ capabilities'[s] = StaticCapability(s, FactOf(s), r, world)
      <4>1. PICK catalog \in world.catalogs \cup {Nothing}, manual \in world.manuals :
              capabilities' = Made(world, known, catalog, manual)
        BY <2>1, <3>3 DEF Project
      <4> DEFINE res(s) == BoundResource(FactOf(s), catalog, Said(manual, s))
      <4>2. \A s : PlacedIn(FactOf(s), res(s))
        BY <3>1, BoundIsPlaced DEF CapabilitiesAreOfFacts
      <4>3. capabilities' = [s \in {s \in Sites : Expressible(FactOf(s), world.architecture)} |->
                               StaticCapability(s, FactOf(s), res(s), world)]
        BY <4>1 DEF Made, FactOf, Sites
      <4> HIDE DEF res
      <4> QED
        BY <4>2, <4>3
    <3> HIDE DEF ResultsAreOfCapabilities
    <3>4. \A s, r : (FactOf(s))' = FactOf(s) /\ (PlacedIn(FactOf(s), r))' = PlacedIn(FactOf(s), r) /\ Sites' = Sites
      BY <3>1 DEF FactOf, FactIn, PlacedIn, Sites
    <3>5. CapabilitiesAreOfFacts'
      BY <3>1, <3>3, <3>4 DEF CapabilitiesAreOfFacts, ResultsAreOfCapabilities
    <3> QED
      BY <3>1, <3>2, <3>5 DEF RecordIsOfCapability, CandidateIsOfCapabilities, ContinuityIsOfCapabilities,
                              ResultsAreOfCapabilities
  <2>2. CASE Learn
    <3>1. /\ world' = world /\ known \subseteq known' /\ world.lane = "declared" /\ capabilities' = capabilities
          /\ candidate = Nothing /\ candidate' = candidate /\ record' = record /\ continuity' = continuity
          /\ ValidCapability(Declared(world, known'))
      BY <2>2 DEF Learn
    <3>2. capabilities \in {Nothing, Raised}
      BY <3>1 DEF CapabilitiesAreOfFacts
    <3> QED
      BY <3>1, <3>2 DEF CapabilitiesAreOfFacts, RecordIsOfCapability, CandidateIsOfCapabilities,
                        ContinuityIsOfCapabilities
  <2>3. CASE MatchContract
    <3>1. /\ world' = world /\ known' = known /\ capabilities' = capabilities
          /\ record' = record /\ continuity' = continuity /\ Capabilities \notin {Nothing, Raised}
          /\ \E catalog \in world.catalogs, manual \in world.manuals, contract \in Contracts :
               candidate' = [catalog |-> catalog, manual |-> manual,
                             result |-> Match(Capabilities, catalog, manual, contract)]
      BY <2>3 DEF MatchContract, Open
    <3>2. Capabilities' = Capabilities
      BY <3>1 DEF Capabilities
    <3>3. CandidateIsOfCapabilities'
      BY <3>1, <3>2 DEF CandidateIsOfCapabilities
    <3>4. (RecordIsOfCapability /\ ContinuityIsOfCapabilities)'
      BY <3>1 DEF RecordIsOfCapability, ContinuityIsOfCapabilities
    <3> QED
      BY <3>1, <3>3, <3>4, FactsStay
  <2>4. CASE CompareContract
    <3>1. /\ world' = world /\ known' = known /\ capabilities' = capabilities
          /\ candidate' = candidate /\ continuity' = continuity /\ Capabilities \notin {Nothing, Raised}
      BY <2>4 DEF CompareContract, Open
    <3>2. PICK s \in DOMAIN Capabilities, contract \in Contracts :
            record' = [site |-> s, contract |-> contract, result |-> Compare(Capabilities[s], contract)]
      BY <2>4 DEF CompareContract
    <3>3. world.lane = "declared" => Capabilities[s] = Declared(world, known)
      BY <3>2 DEF Capabilities
    <3>4. world.lane # "declared" => Capabilities = capabilities
      BY DEF Capabilities
    <3>5. RecordIsOfCapability'
      BY <3>1, <3>2, <3>3, <3>4 DEF RecordIsOfCapability, CapabilitiesAreOfFacts
    <3>6. Capabilities' = Capabilities
      BY <3>1 DEF Capabilities
    <3>7. ContinuityIsOfCapabilities'
      BY <3>1 DEF ContinuityIsOfCapabilities
    <3> QED
      BY <3>1, <3>5, <3>6, <3>7, FactsStay DEF CandidateIsOfCapabilities
  <2>5. CASE BindRuntime
    <3>1. /\ world' = world /\ known' = known /\ capabilities' = capabilities /\ world.lane = "static"
          /\ candidate' = candidate /\ record' = record /\ Capabilities \notin {Nothing, Raised}
      BY <2>5 DEF BindRuntime, Open
    <3>2. Capabilities = capabilities /\ Capabilities' = Capabilities
      BY <3>1 DEF Capabilities
    <3>3. ContinuityIsOfCapabilities'
      BY <2>5, <3>1, <3>2 DEF BindRuntime, ContinuityIsOfCapabilities
    <3>4. RecordIsOfCapability'
      BY <3>1 DEF RecordIsOfCapability
    <3> QED
      BY <3>1, <3>2, <3>3, <3>4, FactsStay DEF CandidateIsOfCapabilities
  <2>6. CASE MatchTrigger \/ UNCHANGED vars
    <3>1. /\ world' = world /\ known' = known /\ capabilities' = capabilities
          /\ candidate' = candidate /\ record' = record /\ continuity' = continuity
      BY <2>6 DEF MatchTrigger, vars
    <3>2. RecordIsOfCapability'
      BY <3>1 DEF RecordIsOfCapability
    <3>3. (CandidateIsOfCapabilities /\ ContinuityIsOfCapabilities)'
      BY <3>1 DEF CandidateIsOfCapabilities, ContinuityIsOfCapabilities, Capabilities
    <3> QED
      BY <3>1, <3>2, <3>3, FactsStay
  <2>7. CASE Establish
    <3>1. /\ world' = world /\ world.lane = "sites" /\ capabilities' = capabilities
          /\ candidate' = candidate /\ record' = record /\ continuity' = continuity
      BY <2>7 DEF Establish
    <3>2. capabilities \in {Nothing, Raised} /\ Capabilities = capabilities /\ Capabilities' = Capabilities
      BY <3>1 DEF CapabilitiesAreOfFacts, Capabilities
    <3> QED
      BY <3>1, <3>2 DEF CapabilitiesAreOfFacts, RecordIsOfCapability, CandidateIsOfCapabilities,
                        ContinuityIsOfCapabilities
  <2> QED
    BY <2>1, <2>2, <2>3, <2>4, <2>5, <2>6, <2>7 DEF Next
<1> QED
  BY <1>1, <1>2, PTL DEF Spec

-----------------------------------------------------------------------------
(* What a comparison says of the accesses.                                 *)

\* The outcome of a set of checks is that of one of them, or of all (aggregate_required).
LEMMA AggregateSays ==
  ASSUME NEW A
  PROVE  /\ AggregateRequired(A) = "compatible" => A # {} /\ A \subseteq {"compatible"}
         /\ AggregateRequired(A) = "incompatible" => "incompatible" \in A
BY DEF AggregateRequired

\* The kinds of primitives that an access condition is about have its class and direction.
LEMMA MappedKinds ==
  ASSUME NEW t, NEW kind \in Mapped(t.kind), t.kind # "instruction"
  PROVE  /\ t.kind \in {"CSR_access", "MMIO_access"}
         /\ t.kind = "CSR_access" => kind \in CsrKinds
         /\ t.kind = "MMIO_access" => kind \in MmioKinds
         /\ ClassOf(kind) = RequiredClass(t.kind) /\ RequiredClass(t.kind) \in {"csr", "mmio"}
         /\ \A p : p.kind = kind => Direction(p) = AccessOf(kind)
<1>1. t.kind \in {"CSR_access", "MMIO_access"}
  BY DEF Mapped
<1>2. CASE t.kind = "CSR_access"
  <2>1. kind \in CsrKinds
    BY <1>2 DEF Mapped
  <2>2. ClassOf(kind) = "csr"
    BY <2>1 DEF ClassOf, CsrKinds, MmioKinds, MemoryKinds, FlowKinds
  <2>3. RequiredClass(t.kind) = "csr"
    BY <1>2 DEF RequiredClass
  <2>4. \A p : p.kind = kind => Direction(p) = AccessOf(kind)
    BY <2>1 DEF CsrKinds, Direction, AccessOf, ReadKinds
  <2> QED
    BY <1>1, <1>2, <2>1, <2>2, <2>3, <2>4
<1>3. CASE t.kind = "MMIO_access"
  <2>1. kind \in MmioKinds
    BY <1>3 DEF Mapped
  <2>2. ClassOf(kind) = "mmio"
    BY <2>1 DEF ClassOf, CsrKinds, MmioKinds, MemoryKinds, FlowKinds
  <2>3. RequiredClass(t.kind) = "mmio"
    BY <1>3 DEF RequiredClass
  <2>4. \A p : p.kind = kind => Direction(p) = AccessOf(kind)
    BY <2>1 DEF MmioKinds, Direction, AccessOf, ReadKinds
  <2> QED
    BY <1>1, <1>3, <2>1, <2>2, <2>3, <2>4
<1> QED
  BY <1>1, <1>2, <1>3

\* What a check of a domain says, of the range that it is about.
LEMMA DomainsSay ==
  ASSUME NEW d, NEW n
  PROVE  /\ CompareDomains(d, n) = "compatible" => Stated(d) /\ Stated(d.low) /\ d.low <= n /\ n <= d.high
         /\ CompareDomains(d, n) = "incompatible" => Stated(d) /\ Stated(d.low) /\ ~(d.low <= n /\ n <= d.high)
BY DEF CompareDomains, Verdict

LEMMA EqualSays ==
  ASSUME NEW a, NEW b
  PROVE  /\ Equal(a, b) = "compatible" => a # Nothing /\ a = b
         /\ Equal(a, b) = "incompatible" => a # Nothing /\ b # Nothing /\ a # b
BY DEF Equal, Known, Stated, Verdict

\* A numeric constraint of a view, compared with a number, is compared as it is stated.
LEMMA NumberIsStated ==
  ASSUME NEW w \in Worlds, w.lane = "declared", NEW k, NEW q \in w.capability.primitives,
         NEW x \in ConstraintKinds, NEW n
  PROVE  LET d == Field(View(q, k, w.vague).constraints, x, "domain")
         IN  /\ CompareDomains(d, n) = "compatible" => Within(Extent(q.constraints[x]), n)
             /\ CompareDomains(d, n) = "incompatible" => ~Within(Extent(q.constraints[x]), n)
<1> DEFINE d == Field(View(q, k, w.vague).constraints, x, "domain")
<1> SUFFICES ASSUME CompareDomains(d, n) \in {"compatible", "incompatible"}
             PROVE  /\ CompareDomains(d, n) = "compatible" => Within(Extent(q.constraints[x]), n)
                    /\ CompareDomains(d, n) = "incompatible" => ~Within(Extent(q.constraints[x]), n)
  OBVIOUS
<1>1. d # Nothing
  BY DomainsSay DEF Stated
<1>2. d = q.constraints[x].domain /\ Stated(q.constraints[x])
  <2>1. Usable(View(q, k, w.vague).constraints[x])
    BY <1>1 DEF Field
  <2> QED
    BY <2>1, UsableIsStated DEF Field
<1>3. Extent(q.constraints[x]) = [low |-> d.low, high |-> d.high]
  BY <1>2 DEF Extent
<1> HIDE DEF d
<1> QED
  BY <1>3, DomainsSay DEF Within

LEMMA WidthIsStated ==
  ASSUME NEW w \in Worlds, w.lane = "declared", NEW k, NEW q \in w.capability.primitives,
         WidthOf(View(q, k, w.vague).constraints) # Nothing
  PROVE  WidthOf(View(q, k, w.vague).constraints) = ExactOf(q.constraints.width)
<1>1. "width" \in ConstraintKinds
  BY DEF ConstraintKinds, NumericKinds
<1>2. Usable(View(q, k, w.vague).constraints["width"])
  BY DEF WidthOf
<1> QED
  BY <1>1, <1>2, UsableIsStated DEF WidthOf

\* What the checks of an access say, one by one (_trigger_alternative).
LEMMA AccessSays ==
  ASSUME NEW t, NEW p, NEW v \in {"compatible", "incompatible"}
  PROVE  LET a  == t.access
             cs == p.constraints
             Direct   == Verdict(a.direction \in {Direction(p), "either"}) = v
             Placed   == Equal(Field(cs, "resource", "class"), RequiredClass(t.kind)) = v
             Named    == Equal(Field(cs, "csr", "identity"), a.csr) = v
             Located  == CompareDomains(Field(cs, "address", "domain"), a.address) = v
             Measured == Equal(WidthOf(cs), a.width) = v
             Valued   == CompareDomains(Field(cs, "value", "domain"), a.value.low) = v
         IN  /\ v \in AccessChecks(t, p) =>
                  \/ Direct
                  \/ Placed
                  \/ (t.kind = "CSR_access" /\ Stated(a.csr) /\ Named)
                  \/ (t.kind # "CSR_access" /\ Located)
                  \/ (t.kind # "CSR_access" /\ Stated(a.width) /\ Measured)
                  \/ (Stated(a.value) /\ a.value.operator = "eq" /\ Valued)
             /\ AccessChecks(t, p) \subseteq {v} =>
                  /\ Direct
                  /\ t.kind = "CSR_access" => ~Stated(a.number) /\ (Stated(a.csr) => Named)
                  /\ t.kind # "CSR_access" => Located /\ (Stated(a.width) => Measured)
                  /\ Stated(a.value) => a.value.operator = "eq" /\ Valued
<1> DEFINE a == t.access
           cs == p.constraints
           D == Verdict(a.direction \in {Direction(p), "either"})
           R == Equal(Field(cs, "resource", "class"), RequiredClass(t.kind))
           C == Equal(Field(cs, "csr", "identity"), a.csr)
           A == CompareDomains(Field(cs, "address", "domain"), a.address)
           W == Equal(WidthOf(cs), a.width)
           V == CompareDomains(Field(cs, "value", "domain"), a.value.low)
           csrs == (IF Stated(a.csr) THEN {C} ELSE {}) \cup (IF Stated(a.number) THEN {"unknown"} ELSE {})
           mmios == {A} \cup (IF Stated(a.width) THEN {W} ELSE {})
           values == IF Stated(a.value) THEN {IF a.value.operator = "eq" THEN V ELSE "unknown"} ELSE {}
<1>1. AccessChecks(t, p) = {D, R} \cup (IF t.kind = "CSR_access" THEN csrs ELSE mmios) \cup values
  BY DEF AccessChecks, CsrChecks, MmioChecks, CompareValue
<1> HIDE DEF D, R, C, A, W, V
<1>2. /\ v \in csrs => Stated(a.csr) /\ C = v
      /\ csrs \subseteq {v} => ~Stated(a.number) /\ (Stated(a.csr) => C = v)
  OBVIOUS
<1>3. /\ v \in mmios => A = v \/ (Stated(a.width) /\ W = v)
      /\ mmios \subseteq {v} => A = v /\ (Stated(a.width) => W = v)
  OBVIOUS
<1>4. /\ v \in values => Stated(a.value) /\ a.value.operator = "eq" /\ V = v
      /\ values \subseteq {v} => (Stated(a.value) => a.value.operator = "eq" /\ V = v)
  OBVIOUS
<1> HIDE DEF csrs, mmios, values
<1>5. v \in AccessChecks(t, p) =>
        \/ D = v
        \/ R = v
        \/ (t.kind = "CSR_access" /\ Stated(a.csr) /\ C = v)
        \/ (t.kind # "CSR_access" /\ A = v)
        \/ (t.kind # "CSR_access" /\ Stated(a.width) /\ W = v)
        \/ (Stated(a.value) /\ a.value.operator = "eq" /\ V = v)
  BY <1>1, <1>2, <1>3, <1>4
<1>6. AccessChecks(t, p) \subseteq {v} =>
        /\ D = v
        /\ t.kind = "CSR_access" => ~Stated(a.number) /\ (Stated(a.csr) => C = v)
        /\ t.kind # "CSR_access" => A = v /\ (Stated(a.width) => W = v)
        /\ Stated(a.value) => a.value.operator = "eq" /\ V = v
  BY <1>1, <1>2, <1>3, <1>4
<1> QED
  BY <1>5, <1>6 DEF D, R, C, A, W, V

\* Of an alternative: a compatible one has every check compatible, and is about an access
\* that is not a gap; an incompatible one is of another class, or a check says so.
LEMMA AlternativeSays ==
  ASSUME NEW c, NEW t, NEW p
  PROVE  /\ AlternativeOutcome(c, t, p) = "compatible" =>
              /\ p.kind \in Mapped(t.kind) /\ t.kind # "instruction" /\ Stated(t.access)
              /\ ~HasGap(c, t, p) /\ AccessChecks(t, p) \subseteq {"compatible"}
         /\ AlternativeOutcome(c, t, p) = "incompatible" =>
              \/ /\ p.kind \notin Mapped(t.kind) /\ p.kind \in MemoryKinds \cup MmioKinds \cup CsrKinds
                 /\ Stated(RequiredClass(t.kind)) /\ ClassOf(p.kind) # RequiredClass(t.kind)
              \/ /\ p.kind \in Mapped(t.kind) /\ t.kind # "instruction" /\ Stated(t.access)
                 /\ "incompatible" \in AccessChecks(t, p)
<1> DEFINE checks == AlternativeChecks(c, t, p)
           Gap == IF HasGap(c, t, p) THEN {"unknown"} ELSE {}
           Access == IF t.kind = "instruction" \/ ~Stated(t.access) THEN {"unknown"} ELSE AccessChecks(t, p)
<1>1. CASE p.kind \notin Mapped(t.kind)
  <2>1. checks = {Unmapped(t, p)} /\ Unmapped(t, p) \in {"incompatible", "unknown"}
    BY <1>1 DEF AlternativeChecks, Unmapped
  <2>2. Unmapped(t, p) = "incompatible" =>
          /\ p.kind \in MemoryKinds \cup MmioKinds \cup CsrKinds
          /\ Stated(RequiredClass(t.kind)) /\ ClassOf(p.kind) # RequiredClass(t.kind)
    BY DEF Unmapped, Stated
  <2> HIDE DEF checks
  <2> QED
    BY <1>1, <2>1, <2>2, AggregateSays DEF AlternativeOutcome, checks
<1>2. CASE p.kind \in Mapped(t.kind)
  <2>1. checks = {"compatible"} \cup Gap \cup Access
    BY <1>2 DEF AlternativeChecks
  <2>2. AlternativeOutcome(c, t, p) = AggregateRequired(checks)
    BY DEF AlternativeOutcome
  <2>3. Access \subseteq {"compatible"} =>
          t.kind # "instruction" /\ Stated(t.access) /\ AccessChecks(t, p) \subseteq {"compatible"}
    OBVIOUS
  <2>4. "incompatible" \in Access =>
          t.kind # "instruction" /\ Stated(t.access) /\ "incompatible" \in AccessChecks(t, p)
    OBVIOUS
  <2>5. Gap \subseteq {"compatible"} => ~HasGap(c, t, p)
    OBVIOUS
  <2>6. "incompatible" \notin Gap
    OBVIOUS
  <2> HIDE DEF checks, Gap, Access
  <2> QED
    BY <1>2, <2>1, <2>2, <2>3, <2>4, <2>5, <2>6, AggregateSays
<1> QED
  BY <1>1, <1>2

\* A compatible alternative can do what the condition asks (_trigger_alternative).
LEMMA CompatibleCan ==
  ASSUME NEW w \in Worlds, w.lane = "declared", NEW k, NEW q \in w.capability.primitives,
         NEW hw \in Contracts, NEW t \in hw.trigger,
         AlternativeOutcome(Declared(w, k), t, View(q, k, w.vague)) = "compatible"
  PROVE  Can(DeclaredAccess(q), t)
<1> DEFINE p == View(q, k, w.vague)
           a == t.access
           x == DeclaredAccess(q)
<1>1. /\ p.kind \in Mapped(t.kind) /\ t.kind # "instruction" /\ Stated(a)
      /\ AccessChecks(t, p) \subseteq {"compatible"}
  BY AlternativeSays
<1>2. p.kind = q.kind
  BY DEF View
<1>3. /\ t.kind \in {"CSR_access", "MMIO_access"} /\ Direction(p) = AccessOf(q.kind)
      /\ ClassOf(q.kind) = RequiredClass(t.kind)
  BY <1>1, <1>2, MappedKinds
<1>4. ValidAccess(t)
  BY <1>1, ContractsAssumption DEF ValidContract, ValidTrigger
<1>5. {"address", "value", "width", "csr"} \subseteq ConstraintKinds
  BY DEF ConstraintKinds, NumericKinds
<1>6. /\ Verdict(a.direction \in {Direction(p), "either"}) = "compatible"
      /\ t.kind = "CSR_access" =>
           ~Stated(a.number) /\ (Stated(a.csr) => Equal(Field(p.constraints, "csr", "identity"), a.csr) = "compatible")
      /\ t.kind # "CSR_access" =>
           /\ CompareDomains(Field(p.constraints, "address", "domain"), a.address) = "compatible"
           /\ Stated(a.width) => Equal(WidthOf(p.constraints), a.width) = "compatible"
      /\ Stated(a.value) =>
           /\ a.value.operator = "eq"
           /\ CompareDomains(Field(p.constraints, "value", "domain"), a.value.low) = "compatible"
  <2> HIDE DEF p
  <2> QED
    BY <1>1, AccessSays
<1>7. x.class = RequiredClass(t.kind) /\ x.kind = q.kind
  BY <1>3 DEF DeclaredAccess
<1>8. Goes(x, a)
  BY <1>3, <1>6, <1>7 DEF Goes, Verdict
<1>9. CASE t.kind = "MMIO_access"
  <2>1. Within(x.address, a.address)
    BY <1>5, <1>6, <1>9, NumberIsStated DEF DeclaredAccess
  <2>2. ~Stated(a.width) \/ x.width = a.width
    BY <1>6, <1>9, EqualSays, WidthIsStated DEF DeclaredAccess
  <2>3. ~Stated(a.value) \/ Within(x.value, a.value.low)
    BY <1>5, <1>6, NumberIsStated DEF DeclaredAccess
  <2> QED
    BY <1>7, <1>8, <1>9, <2>1, <2>2, <2>3 DEF Can
<1>10. CASE t.kind = "CSR_access"
  <2>1. Stated(a.csr)
    BY <1>4, <1>6, <1>10 DEF ValidAccess
  <2>2. Field(p.constraints, "csr", "identity") = a.csr /\ a.csr # Nothing
    BY <1>6, <1>10, <2>1, EqualSays DEF Stated
  <2>3. Usable(p.constraints["csr"])
    BY <2>2 DEF Field
  <2>4. x.register = a.csr
    BY <1>5, <2>2, <2>3, UsableIsStated DEF Field, DeclaredAccess, Sought
  <2>5. ~Stated(a.value) \/ Within(x.value, a.value.low)
    BY <1>5, <1>6, NumberIsStated DEF DeclaredAccess
  <2> QED
    BY <1>7, <1>8, <1>10, <2>4, <2>5 DEF Can
<1> QED
  BY <1>3, <1>9, <1>10

\* An incompatible one cannot (_trigger_alternative).
LEMMA IncompatibleCannot ==
  ASSUME NEW w \in Worlds, w.lane = "declared", NEW k, ValidCapability(Declared(w, k)),
         NEW q \in w.capability.primitives, NEW t,
         AlternativeOutcome(Declared(w, k), t, View(q, k, w.vague)) = "incompatible"
  PROVE  ~Can(DeclaredAccess(q), t)
<1> DEFINE p == View(q, k, w.vague)
           a == t.access
           x == DeclaredAccess(q)
<1>1. p.kind = q.kind /\ p \in Declared(w, k).primitives
  BY DEF View, Declared
<1>2. x.kind = q.kind /\ x.class = ClassOf(q.kind)
  BY DEF DeclaredAccess
<1>3. CASE ClassOf(p.kind) # RequiredClass(t.kind)
  BY <1>1, <1>2, <1>3 DEF Can
<1>4. CASE p.kind \in Mapped(t.kind) /\ t.kind # "instruction" /\ Stated(a) /\ "incompatible" \in AccessChecks(t, p)
  <2>1. /\ t.kind \in {"CSR_access", "MMIO_access"} /\ Direction(p) = AccessOf(q.kind)
        /\ ClassOf(q.kind) = RequiredClass(t.kind) /\ RequiredClass(t.kind) \in {"csr", "mmio"}
        /\ q.kind \in CsrKinds \cup MmioKinds
    BY <1>1, <1>4, MappedKinds
  <2>2. {"address", "value", "width", "csr", "resource"} \subseteq ConstraintKinds
    BY DEF ConstraintKinds, NumericKinds
  <2>3. \/ Verdict(a.direction \in {Direction(p), "either"}) = "incompatible"
        \/ Equal(Field(p.constraints, "resource", "class"), RequiredClass(t.kind)) = "incompatible"
        \/ (t.kind = "CSR_access" /\ Stated(a.csr) /\ Equal(Field(p.constraints, "csr", "identity"), a.csr) = "incompatible")
        \/ (t.kind # "CSR_access" /\ CompareDomains(Field(p.constraints, "address", "domain"), a.address) = "incompatible")
        \/ (t.kind # "CSR_access" /\ Stated(a.width) /\ Equal(WidthOf(p.constraints), a.width) = "incompatible")
        \/ (Stated(a.value) /\ a.value.operator = "eq" /\
              CompareDomains(Field(p.constraints, "value", "domain"), a.value.low) = "incompatible")
    <3> HIDE DEF p
    <3> QED
      BY <1>4, AccessSays
  <2>4. CASE Verdict(a.direction \in {Direction(p), "either"}) = "incompatible"
    BY <1>2, <1>4, <2>1, <2>4 DEF Can, Goes, Verdict
  <2>5. CASE Equal(Field(p.constraints, "resource", "class"), RequiredClass(t.kind)) = "incompatible"
    <3>1. /\ Field(p.constraints, "resource", "class") \notin {Nothing, RequiredClass(t.kind)}
          /\ RequiredClass(t.kind) # Nothing
      BY <2>5, EqualSays
    <3>2. Usable(p.constraints["resource"])
      BY <3>1 DEF Field
    <3>3. Stated(p.constraints["resource"]) /\ p.constraints["resource"].class # RequiredClass(t.kind)
      BY <3>1, <3>2 DEF Field, Usable
    <3>4. Constrained(p)
      <4> HIDE DEF p
      <4> QED
        BY <1>1 DEF ValidCapability, ValidPrimitive
    <3>5. Stated(ClassOf(p.kind)) => p.constraints.resource.class = ClassOf(p.kind)
      <4> HIDE DEF p
      <4> QED
        BY <3>3, <3>4 DEF Constrained
    <3> QED
      BY <1>1, <2>1, <3>1, <3>3, <3>5 DEF Stated
  <2>6. CASE t.kind = "CSR_access" /\ Stated(a.csr) /\ Equal(Field(p.constraints, "csr", "identity"), a.csr) = "incompatible"
    <3>1. Field(p.constraints, "csr", "identity") \notin {Nothing, a.csr}
      BY <2>6, EqualSays
    <3>2. Usable(p.constraints["csr"])
      BY <3>1 DEF Field
    <3>3. x.register = Field(p.constraints, "csr", "identity")
      BY <2>2, <3>2, UsableIsStated DEF Field, DeclaredAccess, Sought
    <3> QED
      BY <1>4, <2>6, <3>1, <3>3 DEF Can
  <2>7. CASE t.kind # "CSR_access" /\ CompareDomains(Field(p.constraints, "address", "domain"), a.address) = "incompatible"
    <3>1. ~Within(x.address, a.address)
      BY <2>2, <2>7, NumberIsStated DEF DeclaredAccess
    <3> QED
      BY <1>4, <2>1, <2>7, <3>1 DEF Can
  <2>8. CASE t.kind # "CSR_access" /\ Stated(a.width) /\ Equal(WidthOf(p.constraints), a.width) = "incompatible"
    <3>1. x.width # a.width
      BY <2>8, EqualSays, WidthIsStated DEF DeclaredAccess
    <3> QED
      BY <1>4, <2>1, <2>8, <3>1 DEF Can
  <2>9. CASE /\ Stated(a.value) /\ a.value.operator = "eq"
             /\ CompareDomains(Field(p.constraints, "value", "domain"), a.value.low) = "incompatible"
    <3>1. ~Within(x.value, a.value.low)
      BY <2>2, <2>9, NumberIsStated DEF DeclaredAccess
    <3> QED
      BY <1>4, <2>9, <3>1 DEF Can
  <2> QED
    BY <2>3, <2>4, <2>5, <2>6, <2>7, <2>8, <2>9
<1>5. \/ ClassOf(p.kind) # RequiredClass(t.kind)
      \/ p.kind \in Mapped(t.kind) /\ t.kind # "instruction" /\ Stated(a) /\ "incompatible" \in AccessChecks(t, p)
  <2> HIDE DEF p
  <2>1. AlternativeOutcome(Declared(w, k), t, p) = "incompatible"
    BY DEF p
  <2> QED
    BY <2>1, AlternativeSays
<1> QED
  BY <1>3, <1>4, <1>5

\* The constraints of a static access (static_capability.py, _one).
LEMMA StaticConstraints ==
  ASSUME NEW f, NEW r
  PROVE  LET cs == ConstraintsOf(f, r)
         IN  /\ f.kind \in MemoryAccess =>
                  /\ cs.resource = Resource(AccessClass(f, r), IF Stated(r) THEN r.id ELSE Nothing)
                  /\ cs.address = NumericIf(f.address, AddressBits)
                  /\ cs.width = NumericIf(f.width, f.width)
                  /\ cs.value = NumericIf(IF f.kind \in ReadKinds THEN Nothing ELSE f.value,
                                          IF Stated(f.width) THEN f.width ELSE AddressBits)
                  /\ cs.csr = Nothing
                  /\ \A x \in ConstraintKinds \ {"resource", "address", "width", "value"} : cs[x] = Nothing
             /\ f.kind \in SystemAccess =>
                  /\ cs.resource = [status |-> "formalized", class |-> "csr", identity |-> f.register]
                  /\ cs.csr = [status |-> "formalized", identity |-> f.register]
                  /\ cs.address = Nothing /\ cs.width = Nothing /\ cs.value = Nothing
                  /\ \A x \in ConstraintKinds \ {"resource", "csr"} : cs[x] = Nothing
             /\ f.kind \notin MemoryAccess \cup SystemAccess =>
                  cs.address = Nothing /\ cs.width = Nothing /\ cs.value = Nothing /\ cs.csr = Nothing
             /\ f.kind \in FlowFacts \cup {"EXCEPTION_RETURN"} =>
                  /\ cs.resource = Resource("control_flow", f.target)
                  /\ cs.target = IF KindOf(f, r) = "DIRECT_CONTROL_TRANSFER"
                                 THEN [status |-> "formalized", targets |-> {f.target}] ELSE Nothing
                  /\ \A x \in ConstraintKinds \ {"resource", "target"} : cs[x] = Nothing
             /\ f.kind \notin MemoryAccess \cup SystemAccess \cup FlowFacts \cup {"EXCEPTION_RETURN"} =>
                  \A x \in ConstraintKinds : cs[x] = Nothing
<1> USE DEF NoConstraints
<1>1. {"resource", "address", "width", "value", "csr", "target"} \subseteq ConstraintKinds
  BY DEF ConstraintKinds, NumericKinds
<1>2. f.kind \in MemoryAccess => f.kind \notin SystemAccess \cup FlowFacts \cup {"EXCEPTION_RETURN"}
  BY DEF MemoryAccess, SystemAccess, FlowFacts
<1>3. f.kind \in SystemAccess => f.kind \notin FlowFacts \cup {"EXCEPTION_RETURN"}
  BY DEF SystemAccess, FlowFacts
<1>4. CASE f.kind \in MemoryAccess
  <2>1. ConstraintsOf(f, r) =
          [NoConstraints EXCEPT
            !.resource = Resource(AccessClass(f, r), IF Stated(r) THEN r.id ELSE Nothing),
            !.address = NumericIf(f.address, AddressBits),
            !.width = NumericIf(f.width, f.width),
            !.value = NumericIf(IF f.kind \in ReadKinds THEN Nothing ELSE f.value,
                                IF Stated(f.width) THEN f.width ELSE AddressBits)]
    BY <1>2, <1>4 DEF ConstraintsOf
  <2> QED
    BY <1>1, <1>2, <1>4, <2>1
<1>5. CASE f.kind \in SystemAccess
  <2>1. ConstraintsOf(f, r) =
         [NoConstraints EXCEPT
            !.resource = [status |-> "formalized", class |-> "csr", identity |-> f.register],
            !.csr = [status |-> "formalized", identity |-> f.register]]
    BY <1>2, <1>3, <1>5 DEF ConstraintsOf
  <2> QED
    BY <1>1, <1>2, <1>3, <1>5, <2>1
<1>6. CASE f.kind \in FlowFacts \cup {"EXCEPTION_RETURN"}
  <2>1. ConstraintsOf(f, r) =
         [NoConstraints EXCEPT
            !.resource = Resource("control_flow", f.target),
            !.target = IF KindOf(f, r) = "DIRECT_CONTROL_TRANSFER"
                       THEN [status |-> "formalized", targets |-> {f.target}] ELSE Nothing]
    BY <1>2, <1>3, <1>6 DEF ConstraintsOf
  <2> QED
    BY <1>1, <1>2, <1>3, <1>6, <2>1
<1>7. CASE f.kind \notin MemoryAccess \cup SystemAccess \cup FlowFacts \cup {"EXCEPTION_RETURN"}
  <2>1. ConstraintsOf(f, r) = NoConstraints
    BY <1>7 DEF ConstraintsOf
  <2> QED
    BY <1>1, <1>7, <2>1
<1> QED
  BY <1>4, <1>5, <1>6, <1>7

\* What a fact says of its access is what is true of it (FactsAssumption).
LEMMA FactIsTrue ==
  ASSUME world \in Worlds, world.lane = "static", NEW s \in Sites
  PROVE  LET f == FactOf(s) t == world.truth[s]
         IN  /\ f.kind = t.kind /\ f.status = t.status /\ f.register = t.register /\ f.target = t.target
             /\ f.address \in {Nothing, t.address} /\ f.width \in {Nothing, t.width}
             /\ f.value \in {Nothing, t.value}
BY FactsAssumption DEF FactOf, FactIn, FactFields, Sites

\* The kinds of primitives of the static accesses (static_capability.py, _MAPPING).
LEMMA StaticKinds ==
  ASSUME NEW f, NEW r, f.kind \in DOMAIN Mapping
  PROVE  LET kind == KindOf(f, r)
         IN  /\ f.kind \in MemoryAccess =>
                  /\ f.kind \in {"MEMORY_LOAD", "MEMORY_STORE", "MMIO_READ", "MMIO_WRITE"}
                  /\ kind = (IF f.kind \in {"MMIO_READ", "MMIO_WRITE"} \/ (Stated(r) /\ r.kind = "MMIO_REGISTER")
                             THEN IF f.kind \in ReadKinds THEN "MMIO_READ" ELSE "MMIO_WRITE"
                             ELSE IF f.kind \in ReadKinds THEN "MEMORY_READ" ELSE "MEMORY_WRITE")
             /\ f.kind \in SystemAccess =>
                  kind = IF f.kind \in ReadKinds THEN "CSR_READ" ELSE "CSR_WRITE"
             /\ f.kind \in FlowFacts =>
                  /\ kind \in {"DIRECT_CONTROL_TRANSFER", "INDIRECT_CONTROL_TRANSFER"}
                  /\ kind = "DIRECT_CONTROL_TRANSFER" => Stated(f.target)
             /\ f.kind \notin MemoryAccess \cup SystemAccess \cup FlowFacts =>
                  /\ f.kind \in {"INSTRUCTION", "EXCEPTION_RETURN"}
                  /\ kind = IF f.kind = "INSTRUCTION" THEN "INSTRUCTION_EXECUTION" ELSE "EXCEPTION_RETURN"
<1> DEFINE kind == KindOf(f, r)
<1>1. f.kind \in {"INSTRUCTION", "DIRECT_CALL", "INDIRECT_CALL", "DIRECT_BRANCH", "INDIRECT_BRANCH",
                  "CONDITIONAL_BRANCH", "RETURN", "MEMORY_LOAD", "MEMORY_STORE", "MMIO_READ", "MMIO_WRITE",
                  "SYSTEM_REGISTER_READ", "SYSTEM_REGISTER_WRITE", "EXCEPTION_RETURN"}
  BY DEF Mapping
<1>2. /\ Mapping["MEMORY_LOAD"] = "MEMORY_READ" /\ Mapping["MEMORY_STORE"] = "MEMORY_WRITE"
      /\ Mapping["MMIO_READ"] = "MMIO_READ" /\ Mapping["MMIO_WRITE"] = "MMIO_WRITE"
      /\ Mapping["SYSTEM_REGISTER_READ"] = "CSR_READ" /\ Mapping["SYSTEM_REGISTER_WRITE"] = "CSR_WRITE"
      /\ Mapping["EXCEPTION_RETURN"] = "EXCEPTION_RETURN" /\ Mapping["INSTRUCTION"] = "INSTRUCTION_EXECUTION"
      /\ \A x \in FlowFacts : Mapping[x] \in {"DIRECT_CONTROL_TRANSFER", "INDIRECT_CONTROL_TRANSFER"}
  BY DEF Mapping, FlowFacts
<1>3. CASE f.kind \in {"MEMORY_LOAD", "MEMORY_STORE", "MMIO_READ", "MMIO_WRITE"}
  <2>1. f.kind \in MemoryAccess /\ f.kind \notin SystemAccess \cup FlowFacts
    BY <1>3 DEF MemoryAccess, SystemAccess, FlowFacts
  <2>2. f.kind \in ReadKinds <=> f.kind \in {"MEMORY_LOAD", "MMIO_READ"}
    BY <1>3 DEF ReadKinds
  <2>3. Mapping[f.kind] # "DIRECT_CONTROL_TRANSFER"
    BY <1>2, <1>3
  <2>4. CASE Stated(r) /\ r.kind = "MMIO_REGISTER"
    <3>1. kind = IF f.kind \in ReadKinds THEN "MMIO_READ" ELSE "MMIO_WRITE"
      BY <2>1, <2>3, <2>4 DEF KindOf
    <3> QED
      BY <1>3, <2>1, <2>4, <3>1
  <2>5. CASE ~(Stated(r) /\ r.kind = "MMIO_REGISTER")
    <3>1. kind = Mapping[f.kind]
      BY <2>3, <2>5 DEF KindOf
    <3> QED
      BY <1>2, <1>3, <2>1, <2>2, <2>5, <3>1
  <2> QED
    BY <2>4, <2>5
<1>4. CASE f.kind \in {"SYSTEM_REGISTER_READ", "SYSTEM_REGISTER_WRITE"}
  <2>1. f.kind \in SystemAccess /\ f.kind \notin MemoryAccess \cup FlowFacts
    BY <1>4 DEF MemoryAccess, SystemAccess, FlowFacts
  <2>2. f.kind \in ReadKinds <=> f.kind = "SYSTEM_REGISTER_READ"
    BY <1>4 DEF ReadKinds
  <2>3. kind = Mapping[f.kind]
    BY <1>2, <1>4, <2>1 DEF KindOf
  <2> QED
    BY <1>2, <1>4, <2>1, <2>2, <2>3
<1>5. CASE f.kind \in FlowFacts
  <2>1. f.kind \notin MemoryAccess \cup SystemAccess
    BY <1>5 DEF MemoryAccess, SystemAccess, FlowFacts
  <2>2. kind = IF Mapping[f.kind] = "DIRECT_CONTROL_TRANSFER" /\ ~Stated(f.target)
               THEN "INDIRECT_CONTROL_TRANSFER" ELSE Mapping[f.kind]
    BY <2>1 DEF KindOf
  <2> QED
    BY <1>2, <1>5, <2>1, <2>2
<1>6. CASE f.kind \in {"INSTRUCTION", "EXCEPTION_RETURN"}
  <2>1. f.kind \notin MemoryAccess \cup SystemAccess \cup FlowFacts
    BY <1>6 DEF MemoryAccess, SystemAccess, FlowFacts
  <2>2. kind = Mapping[f.kind]
    BY <1>2, <1>6, <2>1 DEF KindOf
  <2> QED
    BY <1>2, <1>6, <2>1, <2>2
<1> QED
  BY <1>1, <1>3, <1>4, <1>5, <1>6 DEF FlowFacts

\* The one primitive of a static capability (static_capability.py, _one).
StaticPrimitive(s, f, r) ==
  [id |-> s, kind |-> KindOf(f, r), pc |-> s, encoding |-> world.encoding[s],
   status |-> IF Partial(f, r) THEN "partially_formalized" ELSE "formalized",
   basis |-> "static_instruction", control |-> NoControl,
   constraints |-> ConstraintsOf(f, r), conditions |-> {"path"}]

\* That its site is reached is not established, so that no alternative is compatible.
LEMMA StaticIsNeverCompatible ==
  ASSUME NEW s, NEW f, NEW r, NEW t
  PROVE  LET c == StaticCapability(s, f, r, world)
         IN  /\ c.primitives = {StaticPrimitive(s, f, r)}
             /\ AlternativeOutcome(c, t, StaticPrimitive(s, f, r)) # "compatible"
             /\ TriggerOutcome(c, t) # "compatible" /\ Matched(c, t) = {}
             /\ TriggerOutcome(c, t) = "incompatible" =>
                  AlternativeOutcome(c, t, StaticPrimitive(s, f, r)) = "incompatible"
<1> DEFINE c == StaticCapability(s, f, r, world)
           p == StaticPrimitive(s, f, r)
<1>1. c.primitives = {p} /\ PathCondition \in c.conditions
  BY DEF StaticCapability, StaticPrimitive
<1>2. PathCondition.id \in p.conditions /\ ~Stated(PathCondition.predicate)
  BY DEF StaticPrimitive, PathCondition, Stated
<1> HIDE DEF c, p
<1>3. HasGap(c, t, p)
  BY <1>1, <1>2 DEF HasGap
<1>4. AlternativeOutcome(c, t, p) # "compatible"
  BY <1>3, AlternativeSays
<1>5. TriggerOutcome(c, t) = Alternatives({AlternativeOutcome(c, t, p)})
  <2>1. {AlternativeOutcome(c, t, q) : q \in c.primitives} = {AlternativeOutcome(c, t, p)}
    BY <1>1
  <2> QED
    BY <2>1 DEF TriggerOutcome
<1> QED
  BY <1>1, <1>4, <1>5 DEF Alternatives, Matched, c, p

\* What is incompatible with a static access cannot be done at its site, or the access
\* has no resource (_trigger_alternative).
LEMMA StaticCannot ==
  ASSUME world \in Worlds, world.lane = "static", NEW s \in Sites, NEW r, NEW t,
         Expressible(FactOf(s), world.architecture), PlacedIn(FactOf(s), r),
         AlternativeOutcome(StaticCapability(s, FactOf(s), r, world), t, StaticPrimitive(s, FactOf(s), r)) = "incompatible"
  PROVE  \/ ~Can(StaticAccess(s, world.truth[s]), t)
         \/ ~Stated(StaticPrimitive(s, FactOf(s), r).constraints.resource.identity)
<1> DEFINE f == FactOf(s)
           g == world.truth[s]
           x == StaticAccess(s, g)
           p == StaticPrimitive(s, f, r)
           a == t.access
           cs == ConstraintsOf(f, r)
<1>1. /\ f.kind = g.kind /\ f.register = g.register /\ f.address \in {Nothing, g.address}
      /\ f.width \in {Nothing, g.width} /\ f.value \in {Nothing, g.value}
  BY FactIsTrue
<1>2. /\ x.kind = f.kind /\ x.class = TrueClass(g) /\ x.address = Exact(g.address) /\ x.width = g.width
      /\ x.value = Exact(IF f.kind \in ReadKinds THEN Nothing ELSE g.value) /\ x.register = g.register
  BY <1>1 DEF StaticAccess
<1>3. p.kind = KindOf(f, r) /\ p.constraints = cs
  BY DEF StaticPrimitive
<1>4. f.kind \in DOMAIN Mapping
  BY DEF Expressible
<1>5. /\ {"CSR_READ", "CSR_WRITE"} \cap (MemoryKinds \cup MmioKinds) = {}
      /\ {"INSTRUCTION_EXECUTION", "EXCEPTION_RETURN", "DIRECT_CONTROL_TRANSFER", "INDIRECT_CONTROL_TRANSFER"}
           \cap (MemoryKinds \cup MmioKinds \cup CsrKinds) = {}
      /\ {"MMIO_READ", "MMIO_WRITE"} \cap (MemoryKinds \cup CsrKinds) = {}
      /\ {"MEMORY_READ", "MEMORY_WRITE"} \cap (MmioKinds \cup CsrKinds) = {}
      /\ CsrKinds = {"CSR_READ", "CSR_WRITE"} /\ MmioKinds = {"MMIO_READ", "MMIO_WRITE"}
  BY DEF MemoryKinds, MmioKinds, CsrKinds
<1>6. \/ /\ p.kind \notin Mapped(t.kind) /\ p.kind \in MemoryKinds \cup MmioKinds \cup CsrKinds
         /\ Stated(RequiredClass(t.kind)) /\ ClassOf(p.kind) # RequiredClass(t.kind)
      \/ /\ p.kind \in Mapped(t.kind) /\ t.kind # "instruction" /\ Stated(a)
         /\ "incompatible" \in AccessChecks(t, p)
  <2> HIDE DEF p
  <2>1. AlternativeOutcome(StaticCapability(s, f, r, world), t, p) = "incompatible"
    BY DEF p
  <2> QED
    BY <2>1, AlternativeSays
<1>7. Stated(RequiredClass(t.kind)) => RequiredClass(t.kind) \in {"csr", "mmio"}
  BY DEF RequiredClass, Stated
<1>8. p.kind \in Mapped(t.kind) /\ t.kind # "instruction" =>
        /\ RequiredClass(t.kind) \in {"csr", "mmio"} /\ ClassOf(p.kind) = RequiredClass(t.kind)
        /\ t.kind \in {"CSR_access", "MMIO_access"}
        /\ t.kind = "CSR_access" => p.kind \in CsrKinds /\ RequiredClass(t.kind) = "csr"
        /\ t.kind = "MMIO_access" => p.kind \in MmioKinds /\ RequiredClass(t.kind) = "mmio"
        /\ Direction(p) = AccessOf(p.kind)
  <2> HIDE DEF p
  <2> QED
    BY MappedKinds DEF RequiredClass
<1>9. "incompatible" \in AccessChecks(t, p) =>
        \/ Verdict(a.direction \in {Direction(p), "either"}) = "incompatible"
        \/ Equal(Field(cs, "resource", "class"), RequiredClass(t.kind)) = "incompatible"
        \/ (t.kind = "CSR_access" /\ Stated(a.csr) /\ Equal(Field(cs, "csr", "identity"), a.csr) = "incompatible")
        \/ (t.kind # "CSR_access" /\ CompareDomains(Field(cs, "address", "domain"), a.address) = "incompatible")
        \/ (t.kind # "CSR_access" /\ Stated(a.width) /\ Equal(WidthOf(cs), a.width) = "incompatible")
        \/ (Stated(a.value) /\ a.value.operator = "eq" /\
              CompareDomains(Field(cs, "value", "domain"), a.value.low) = "incompatible")
  <2> HIDE DEF p, cs
  <2> QED
    BY <1>3, AccessSays
<1>10. CASE f.kind \in MemoryAccess
  <2>1. /\ cs.resource = Resource(AccessClass(f, r), IF Stated(r) THEN r.id ELSE Nothing)
        /\ cs.address = NumericIf(f.address, AddressBits)
        /\ cs.width = NumericIf(f.width, f.width)
        /\ cs.value = NumericIf(IF f.kind \in ReadKinds THEN Nothing ELSE f.value,
                                IF Stated(f.width) THEN f.width ELSE AddressBits)
    BY <1>10, StaticConstraints
  <2>2. CASE ~Stated(r)
    BY <1>3, <2>1, <2>2 DEF Resource, Stated
  <2>3. CASE Stated(r) /\ r.kind = "MEMORY_REGION"
    <3>1. Stated(f.address) /\ Holds(r, f.address) /\ f.address = g.address
      BY <1>1, <1>10, <2>3 DEF PlacedIn, Stated
    <3>2. g.address \notin world.mmio
      BY <2>3, <3>1, CatalogsAssumption DEF PlacedIn, Stated
    <3>3. TrueClass(g) = "memory"
      BY <1>1, <1>10, <3>2 DEF TrueClass, MemoryAccess, SystemAccess
    <3> QED
      BY <1>2, <1>6, <1>7, <1>8, <3>3 DEF Can
  <2>4. CASE Stated(r) /\ r.kind = "MMIO_REGISTER"
    <3>1. p.kind = IF f.kind \in ReadKinds THEN "MMIO_READ" ELSE "MMIO_WRITE"
      BY <1>3, <1>4, <1>10, <2>4, StaticKinds
    <3>2. p.kind \in MmioKinds /\ AccessOf(p.kind) = AccessOf(f.kind)
      BY <3>1 DEF MmioKinds, AccessOf, ReadKinds
    <3>3. TrueClass(g) \in {"mmio", "memory"}
      BY <1>1, <1>10 DEF TrueClass, MemoryAccess, SystemAccess
    <3>4. ClassOf(p.kind) = "mmio"
      BY <3>2 DEF ClassOf, MmioKinds, MemoryKinds, CsrKinds, FlowKinds
    <3>5. CASE ClassOf(p.kind) # RequiredClass(t.kind)
      BY <1>2, <1>6, <1>7, <1>8, <3>3, <3>4, <3>5 DEF Can
    <3>6. CASE ClassOf(p.kind) = RequiredClass(t.kind)
      <4>1. /\ "incompatible" \in AccessChecks(t, p) /\ Stated(a) /\ Direction(p) = AccessOf(f.kind)
            /\ t.kind = "MMIO_access" /\ RequiredClass(t.kind) = "mmio"
        BY <1>6, <1>8, <3>2, <3>4, <3>6
      <4>2. CASE Verdict(a.direction \in {Direction(p), "either"}) = "incompatible"
        BY <1>2, <4>1, <4>2 DEF Can, Goes, Verdict
      <4>3. Equal(Field(cs, "resource", "class"), RequiredClass(t.kind)) # "incompatible"
        <5>1. cs.resource.class = "mmio"
          BY <2>1, <2>4 DEF Resource, AccessClass
        <5>2. Field(cs, "resource", "class") \in {Nothing, "mmio"}
          BY <5>1 DEF Field
        <5> QED
          BY <4>1, <5>2, EqualSays
      <4>4. CASE CompareDomains(Field(cs, "address", "domain"), a.address) = "incompatible"
        <5>1. cs.address = Numeric(f.address, AddressBits) /\ f.address = g.address
          BY <1>1, <2>1, <4>4, DomainsSay DEF Field, Usable, NumericIf, Stated
        <5>2. Field(cs, "address", "domain") \in {Nothing, Exactly(g.address, AddressBits)}
          BY <5>1 DEF Field, Numeric
        <5>3. ~(g.address <= a.address /\ a.address <= g.address)
          BY <4>4, <5>2, DomainsSay DEF Exactly, Stated
        <5> QED
          BY <1>2, <4>1, <5>3 DEF Can, Within, Exact
      <4>5. CASE Stated(a.width) /\ Equal(WidthOf(cs), a.width) = "incompatible"
        <5>1. WidthOf(cs) \notin {Nothing, a.width}
          BY <4>5, EqualSays
        <5>2. cs.width = Numeric(f.width, f.width) /\ f.width = g.width
          BY <1>1, <2>1, <5>1 DEF WidthOf, Usable, NumericIf, Stated
        <5>3. WidthOf(cs) \in {Nothing, g.width}
          BY <5>2 DEF WidthOf, ExactOf, ExactValue, Numeric, Exactly
        <5> QED
          BY <1>2, <4>1, <4>5, <5>1, <5>3 DEF Can
      <4>6. CASE /\ Stated(a.value) /\ a.value.operator = "eq"
                 /\ CompareDomains(Field(cs, "value", "domain"), a.value.low) = "incompatible"
        <5>1. f.kind \notin ReadKinds /\ f.value = g.value /\ Stated(cs.value)
          BY <1>1, <2>1, <4>6, DomainsSay DEF Field, Usable, NumericIf, Stated
        <5>2. cs.value.domain.low = g.value /\ cs.value.domain.high = g.value
          BY <2>1, <5>1 DEF NumericIf, Numeric, Exactly, Stated
        <5>3. ~(g.value <= a.value.low /\ a.value.low <= g.value)
          BY <4>6, <5>2, DomainsSay DEF Field, Stated
        <5> QED
          BY <1>2, <4>1, <4>6, <5>1, <5>3 DEF Can, Within, Exact
      <4> QED
        BY <1>9, <4>1, <4>2, <4>3, <4>4, <4>5, <4>6
    <3> QED
      BY <3>5, <3>6
  <2> QED
    BY <1>10, <2>2, <2>3, <2>4 DEF PlacedIn, AddressedKinds, Stated
<1>11. CASE f.kind \in SystemAccess
  <2>1. /\ cs.resource = [status |-> "formalized", class |-> "csr", identity |-> f.register]
        /\ cs.csr = [status |-> "formalized", identity |-> f.register]
        /\ cs.value = Nothing
    BY <1>11, StaticConstraints
  <2>2. p.kind = IF f.kind \in ReadKinds THEN "CSR_READ" ELSE "CSR_WRITE"
    BY <1>3, <1>4, <1>11, StaticKinds
  <2>3. p.kind \in CsrKinds /\ AccessOf(p.kind) = AccessOf(f.kind)
    BY <2>2 DEF CsrKinds, AccessOf, ReadKinds
  <2>4. ClassOf(p.kind) = "csr"
    BY <2>3 DEF ClassOf, MmioKinds, MemoryKinds, CsrKinds, FlowKinds
  <2>5. TrueClass(g) = "csr"
    BY <1>1, <1>11 DEF TrueClass, MemoryAccess, SystemAccess
  <2>6. CASE ClassOf(p.kind) # RequiredClass(t.kind)
    BY <1>2, <2>4, <2>5, <2>6 DEF Can
  <2>7. CASE ClassOf(p.kind) = RequiredClass(t.kind)
    <3>1. /\ "incompatible" \in AccessChecks(t, p) /\ Stated(a) /\ Direction(p) = AccessOf(f.kind)
          /\ t.kind = "CSR_access" /\ RequiredClass(t.kind) = "csr"
      BY <1>6, <1>8, <2>3, <2>4, <2>7
    <3>2. CASE Verdict(a.direction \in {Direction(p), "either"}) = "incompatible"
      BY <1>2, <3>1, <3>2 DEF Can, Goes, Verdict
    <3>3. Equal(Field(cs, "resource", "class"), RequiredClass(t.kind)) # "incompatible"
      <4>1. Field(cs, "resource", "class") \in {Nothing, "csr"}
        BY <2>1 DEF Field
      <4> QED
        BY <3>1, <4>1, EqualSays
    <3>4. CASE Stated(a.csr) /\ Equal(Field(cs, "csr", "identity"), a.csr) = "incompatible"
      <4>1. Field(cs, "csr", "identity") \notin {Nothing, a.csr}
        BY <3>4, EqualSays
      <4>2. f.register # a.csr
        BY <2>1, <4>1 DEF Field
      <4> QED
        BY <1>1, <1>2, <3>1, <4>2 DEF Can
    <3>5. CompareDomains(Field(cs, "value", "domain"), a.value.low) # "incompatible"
      BY <2>1, DomainsSay DEF Field, Usable, Stated
    <3> QED
      BY <1>9, <3>1, <3>2, <3>3, <3>4, <3>5
  <2> QED
    BY <2>6, <2>7
<1>12. CASE f.kind \notin MemoryAccess \cup SystemAccess
  <2>1. p.kind \in {"INSTRUCTION_EXECUTION", "EXCEPTION_RETURN", "DIRECT_CONTROL_TRANSFER", "INDIRECT_CONTROL_TRANSFER"}
    BY <1>3, <1>4, <1>12, StaticKinds
  <2> QED
    BY <1>5, <1>6, <1>8, <2>1
<1> QED
  BY <1>10, <1>11, <1>12

\* What is usable of a view is what the primitive states, whichever constraint it is.
LEMMA StatedInView ==
  ASSUME NEW w \in Worlds, w.lane = "declared", NEW k, NEW q \in w.capability.primitives
  PROVE  \A x \in ConstraintKinds :
           Usable(View(q, k, w.vague).constraints[x]) => View(q, k, w.vague).constraints[x] = q.constraints[x]
BY UsableIsStated

\* What a compatible precondition is compared with holds of the primitive (_precondition).
LEMMA PreconditionSays ==
  ASSUME NEW w \in Worlds, w.lane = "declared", w = world, NEW k, NEW q \in w.capability.primitives, NEW pre,
         NEW hw, Context(Declared(w, k), hw) = {View(q, k, w.vague)},
         AggregateRequired(PreconditionChecks(Declared(w, k), pre, hw)) = "compatible"
  PROVE  StateHolds(q, pre)
<1> DEFINE c == Declared(w, k)
           p == View(q, k, w.vague)
           checks == PreconditionChecks(c, pre, hw)
<1>1. checks # {} /\ checks \subseteq {"compatible"}
  <2> HIDE DEF checks
  <2> QED
    BY AggregateSays DEF checks
<1>2. "unknown" \notin checks
  BY <1>1
<1>3. CASE pre.kind = "other" /\ pre.predicate.subject \in DOMAIN Dimension
  <2>1. checks = {ControlCheck(pre.predicate, p)}
    BY <1>2, <1>3 DEF PreconditionChecks
  <2>2. p.control.status \in Established /\ pre.predicate.subject \in p.control.dimensions
    BY <1>2, <2>1 DEF ControlCheck
  <2>3. p.control = q.control
    BY <2>2 DEF View, NoControl, Established
  <2> QED
    BY <1>3, <2>2, <2>3 DEF StateHolds
<1>4. CASE ~(pre.kind = "other" /\ pre.predicate.subject \in DOMAIN Dimension)
  <2>1. pre.kind \in {"privilege", "register_state", "context"} /\ checks = {StateCheck(c, pre, p)}
    BY <1>2, <1>4 DEF PreconditionChecks
  <2> DEFINE values == States(c, pre, p)
  <2>2. StateCheck(c, pre, p) = "compatible"
    BY <1>1, <2>1
  <2>3. Sole(values) /\ Equal(CHOOSE v \in values : TRUE, pre.predicate.operand) = "compatible"
    BY <2>2 DEF StateCheck
  <2>4. pre.predicate.operand \in values
    <3> HIDE DEF values
    <3>1. (CHOOSE v \in values : TRUE) \in values
      BY <2>3 DEF Sole
    <3> QED
      BY <2>3, <3>1, EqualSays
  <2> DEFINE Own(y) == IF pre.kind \in {"privilege", "context"} /\ Usable(y.constraints[pre.kind])
                       THEN {y.constraints[pre.kind].identity} ELSE {}
             Says(x, y) == /\ x.id \in y.conditions /\ x.kind = pre.kind
                           /\ x.status \notin Unformalized /\ Stated(x.predicate)
                           /\ x.predicate.subject = pre.predicate.subject /\ x.predicate.operator = "eq"
             Of(z, y) == {x.predicate.operand : x \in {x \in z.conditions : Says(x, y)}}
  <2>5. \A z, y : States(z, pre, y) = Own(y) \cup Of(z, y)
    BY DEF States
  <2>6. Own(p) \subseteq Own(q)
    <3> SUFFICES ASSUME pre.kind \in {"privilege", "context"}, Usable(p.constraints[pre.kind])
                 PROVE  q.constraints[pre.kind] = p.constraints[pre.kind]
      OBVIOUS
    <3>1. pre.kind \in ConstraintKinds
      BY DEF ConstraintKinds
    <3> QED
      BY <3>1, StatedInView
  <2>7. ASSUME NEW x \in c.conditions, Says(x, p)
        PROVE  \E y \in w.capability.conditions : Says(y, q) /\ y.predicate = x.predicate
    <3>1. PICK y \in w.capability.conditions : x = ConditionView(y, k)
      BY DEF Declared
    <3>2. <<y.id, "condition">> \in k
      BY <2>7, <3>1 DEF ConditionView, Unformalized
    <3>3. x.predicate = y.predicate /\ x.status = y.status /\ x.id = y.id /\ x.kind = y.kind
      BY <3>1, <3>2 DEF ConditionView
    <3>4. q.conditions = p.conditions
      BY DEF View
    <3> QED
      BY <2>7, <3>3, <3>4
  <2>8. Of(c, p) \subseteq Of(w.capability, q)
    BY <2>7
  <2> HIDE DEF Own, Of
  <2>9. pre.predicate.operand \in States(world.capability, pre, q)
    BY <2>4, <2>5, <2>6, <2>8
  <2> QED
    BY <2>1, <2>9 DEF StateHolds
<1> QED
  BY <1>3, <1>4

\* A comparison of a declared capability says what is true of its accesses.
LEMMA DeclaredComparisonIsTrue ==
  ASSUME world \in Worlds, world.lane = "declared", NEW k, ValidCapability(Declared(world, k)), NEW hw \in Contracts
  PROVE  LET row == Compare(Declared(world, k), hw).rows
         IN  /\ \A t \in Trigger(hw) :
                  /\ row[t] = "compatible" => \E x \in Accesses : Can(x, t)
                  /\ row[t] = "incompatible" => \A x \in Accesses : ~Can(x, t)
             /\ \A pre \in hw.preconditions : row[pre] = "compatible" =>
                  \E q \in world.capability.primitives :
                    /\ \A t \in Trigger(hw) : Can(DeclaredAccess(q), t)
                    /\ StateHolds(q, pre)
<1> DEFINE c == Declared(world, k)
           row == Compare(c, hw).rows
           V(q) == View(q, k, world.vague)
<1>1. c.primitives = {V(q) : q \in world.capability.primitives}
  BY DEF Declared
<1>2. Accesses = {DeclaredAccess(q) : q \in world.capability.primitives}
  BY DEF Accesses
<1>3. Trigger(hw) \subseteq hw.trigger /\ hw.trigger \cap hw.preconditions = {}
  BY ContractsAssumption DEF ValidContract, Trigger
<1>4. \A t \in Trigger(hw) : row[t] = TriggerOutcome(c, t)
  BY <1>3 DEF Compare, RowOutcome
<1>5. \A pre \in hw.preconditions : row[pre] = AggregateRequired(PreconditionChecks(c, pre, hw))
  BY <1>3 DEF Compare, RowOutcome, Trigger, Orderings
<1>6. \A t \in Trigger(hw), q \in world.capability.primitives :
        /\ AlternativeOutcome(c, t, V(q)) = "compatible" => Can(DeclaredAccess(q), t)
        /\ AlternativeOutcome(c, t, V(q)) = "incompatible" => ~Can(DeclaredAccess(q), t)
  BY <1>3, CompatibleCan, IncompatibleCannot
<1> HIDE DEF c, row, V
<1>7. ASSUME NEW t \in Trigger(hw)
      PROVE  /\ row[t] = "compatible" => \E x \in Accesses : Can(x, t)
             /\ row[t] = "incompatible" => \A x \in Accesses : ~Can(x, t)
  <2> DEFINE outcomes == {AlternativeOutcome(c, t, p) : p \in c.primitives}
  <2>1. row[t] = Alternatives(outcomes)
    BY <1>4 DEF TriggerOutcome
  <2>2. /\ row[t] = "compatible" => "compatible" \in outcomes
        /\ row[t] = "incompatible" => outcomes \subseteq {"incompatible"}
    <3> HIDE DEF outcomes
    <3> QED
      BY <2>1 DEF Alternatives
  <2>3. outcomes = {AlternativeOutcome(c, t, V(q)) : q \in world.capability.primitives}
    BY <1>1
  <2> QED
    BY <1>2, <1>6, <2>2, <2>3
<1>8. ASSUME NEW pre \in hw.preconditions, row[pre] = "compatible"
      PROVE  \E q \in world.capability.primitives :
               /\ \A t \in Trigger(hw) : Can(DeclaredAccess(q), t)
               /\ StateHolds(q, pre)
  <2>1. AggregateRequired(PreconditionChecks(c, pre, hw)) = "compatible"
    BY <1>5, <1>8
  <2>2. Context(c, hw) # {}
    <3>1. PreconditionChecks(c, pre, hw) # {"unknown"}
      BY <2>1 DEF AggregateRequired
    <3> QED
      BY <3>1 DEF PreconditionChecks
  <2> DEFINE selected == UNION {Matched(c, t) : t \in Trigger(hw)}
  <2>3. /\ Sole(selected) /\ Context(c, hw) = selected
        /\ \A t \in Trigger(hw) : Matched(c, t) # {}
    BY <2>2 DEF Context
  <2>4. PICK p : selected = {p}
    BY <2>3 DEF Sole
  <2>5. PICK t0 \in Trigger(hw) : p \in Matched(c, t0)
    BY <2>4
  <2>6. PICK q \in world.capability.primitives : p = V(q)
    BY <1>1, <2>5 DEF Matched
  <2>7. \A t \in Trigger(hw) : Matched(c, t) = {p}
    BY <2>3, <2>4
  <2>8. \A t \in Trigger(hw) : AlternativeOutcome(c, t, p) = "compatible"
    BY <2>7 DEF Matched
  <2>9. \A t \in Trigger(hw) : Can(DeclaredAccess(q), t)
    BY <1>6, <2>6, <2>8
  <2>10. Context(c, hw) = {V(q)}
    BY <2>3, <2>4, <2>6
  <2>11. StateHolds(q, pre)
    BY <2>1, <2>10, PreconditionSays DEF c, V
  <2> QED
    BY <2>9, <2>11
<1> QED
  BY <1>7, <1>8 DEF row, c

\* A comparison of a static capability says what is true of the access of its site.
LEMMA StaticComparisonIsTrue ==
  ASSUME world \in Worlds, world.lane = "static", NEW s \in Sites, NEW r, NEW hw \in Contracts,
         Expressible(FactOf(s), world.architecture), PlacedIn(FactOf(s), r)
  PROVE  LET c == StaticCapability(s, FactOf(s), r, world) row == Compare(c, hw).rows
         IN  /\ \A t \in Trigger(hw) :
                  /\ row[t] # "compatible"
                  /\ row[t] = "incompatible" =>
                       \/ ~Can(StaticAccess(s, world.truth[s]), t)
                       \/ \E p \in c.primitives : ~Stated(p.constraints.resource.identity)
             /\ \A pre \in hw.preconditions : row[pre] # "compatible"
<1> DEFINE c == StaticCapability(s, FactOf(s), r, world)
           row == Compare(c, hw).rows
           p == StaticPrimitive(s, FactOf(s), r)
<1>1. Trigger(hw) \subseteq hw.trigger /\ hw.trigger \cap hw.preconditions = {}
  BY ContractsAssumption DEF ValidContract, Trigger
<1>2. \A t \in Trigger(hw) : row[t] = TriggerOutcome(c, t)
  BY <1>1 DEF Compare, RowOutcome
<1>3. \A pre \in hw.preconditions : row[pre] = AggregateRequired(PreconditionChecks(c, pre, hw))
  BY <1>1 DEF Compare, RowOutcome, Trigger, Orderings
<1>4. /\ c.primitives = {p}
      /\ \A t : /\ TriggerOutcome(c, t) # "compatible" /\ Matched(c, t) = {}
                /\ TriggerOutcome(c, t) = "incompatible" => AlternativeOutcome(c, t, p) = "incompatible"
  BY StaticIsNeverCompatible
<1>5. \A t : AlternativeOutcome(c, t, p) = "incompatible" =>
        ~Can(StaticAccess(s, world.truth[s]), t) \/ ~Stated(p.constraints.resource.identity)
  BY StaticCannot
<1> HIDE DEF c, row, p
<1>6. ASSUME NEW pre PROVE AggregateRequired(PreconditionChecks(c, pre, hw)) # "compatible"
  <2>1. UNION {Matched(c, t) : t \in Trigger(hw)} = {}
    BY <1>4
  <2>2. Context(c, hw) = {}
    BY <2>1 DEF Context, Sole
  <2>3. PreconditionChecks(c, pre, hw) = {"unknown"}
    BY <2>2 DEF PreconditionChecks
  <2> QED
    BY <2>3 DEF AggregateRequired
<1> QED
  BY <1>2, <1>3, <1>4, <1>5, <1>6 DEF c, row, p

\* A comparison says what is true: a compatible trigger condition can be met by an access
\* of the declared capability, an incompatible one by none that has a resource, and a
\* compatible precondition holds of one primitive that meets them all
\* (capability_compatibility.py, _trigger and _precondition).
THEOREM ComparisonsSayTheTruth == Spec => []ComparisonsAreTrue
<1>1. ResultsAreOfCapabilities => ComparisonsAreTrue
  <2> SUFFICES ASSUME ResultsAreOfCapabilities, record # Nothing
               PROVE  ComparisonsAreTrue
    BY DEF ComparisonsAreTrue
  <2> DEFINE hw == record.contract
             row == record.result.rows
  <2>1. world \in Worlds /\ hw \in Contracts
    BY DEF ResultsAreOfCapabilities, CapabilitiesAreOfFacts, RecordIsOfCapability
  <2>2. CASE world.lane = "declared"
    <3>1. PICK k \in SUBSET known : /\ ValidCapability(Declared(world, k))
                                    /\ record.result = Compare(Declared(world, k), record.contract)
      BY <2>2 DEF ResultsAreOfCapabilities, RecordIsOfCapability
    <3>2. Compared \subseteq Accesses /\ Accesses \subseteq Compared
      BY <2>2 DEF Compared
    <3>3. /\ \A t \in Trigger(hw) :
               /\ row[t] = "compatible" => \E x \in Accesses : Can(x, t)
               /\ row[t] = "incompatible" => \A x \in Accesses : ~Can(x, t)
          /\ \A pre \in hw.preconditions : row[pre] = "compatible" =>
               \E q \in world.capability.primitives :
                 /\ \A t \in Trigger(hw) : Can(DeclaredAccess(q), t)
                 /\ StateHolds(q, pre)
      BY <2>1, <2>2, <3>1, DeclaredComparisonIsTrue
    <3> QED
      BY <2>2, <3>2, <3>3 DEF ComparisonsAreTrue
  <2>3. CASE world.lane # "declared"
    <3>1. /\ capabilities \notin {Nothing, Raised} /\ record.site \in DOMAIN capabilities
          /\ record.result = Compare(capabilities[record.site], record.contract)
      BY <2>3 DEF ResultsAreOfCapabilities, RecordIsOfCapability
    <3>2. /\ world.lane = "static" /\ record.site \in Sites
          /\ Expressible(FactOf(record.site), world.architecture)
          /\ \E r : /\ PlacedIn(FactOf(record.site), r)
                    /\ capabilities[record.site] = StaticCapability(record.site, FactOf(record.site), r, world)
      BY <3>1 DEF ResultsAreOfCapabilities, CapabilitiesAreOfFacts
    <3>3. PICK r : /\ PlacedIn(FactOf(record.site), r)
                   /\ capabilities[record.site] = StaticCapability(record.site, FactOf(record.site), r, world)
      BY <3>2
    <3>4. /\ \A t \in Trigger(hw) :
               /\ row[t] # "compatible"
               /\ row[t] = "incompatible" =>
                    \/ ~Can(StaticAccess(record.site, world.truth[record.site]), t)
                    \/ \E p \in capabilities[record.site].primitives : ~Stated(p.constraints.resource.identity)
          /\ \A pre \in hw.preconditions : row[pre] # "compatible"
      BY <2>1, <3>1, <3>2, <3>3, StaticComparisonIsTrue
    <3>5. ASSUME NEW x \in Compared
          PROVE  x = StaticAccess(record.site, world.truth[record.site]) /\ x.site = record.site
      <4>1. x \in Accesses /\ x.site = record.site
        BY <2>3 DEF Compared
      <4>2. PICK s \in Sites : x = StaticAccess(s, world.truth[s])
        BY <3>2, <4>1 DEF Accesses
      <4> QED
        BY <4>1, <4>2 DEF StaticAccess
    <3>6. \A x \in Compared :
            (\E p \in capabilities[record.site].primitives : ~Stated(p.constraints.resource.identity)) => Unplaced(x)
      BY <3>2, <3>5 DEF Unplaced
    <3> QED
      BY <3>4, <3>5, <3>6 DEF ComparisonsAreTrue
  <2> QED
    BY <2>2, <2>3
<1> QED
  BY <1>1, ResultsStayOfCapabilities, PTL

-----------------------------------------------------------------------------
(* What a match says of the accesses.                                      *)

\* An option states no more of an access than is true of it.
Shows(o, x) ==
  /\ x.site = o.id
  /\ Stated(o.address) => x.address = Exact(o.address)
  /\ Stated(o.value) => x.value = Exact(o.value)
  /\ Stated(o.width) => x.width = o.width
  /\ Stated(o.register) => x.register = o.register /\ o.kind \in CsrKinds
  /\ x.kind \in MemoryAccess <=> o.kind \in MemoryAccess
  /\ o.kind \in MemoryAccess \cup SystemAccess => AccessOf(x.kind) = AccessOf(o.kind)

\* What is looked for, of an option.
OptionOf(s, p, status) ==
  [site |-> s, id |-> p.id, kind |-> p.kind, address |-> ExactOf(p.constraints.address),
   value |-> ExactOf(p.constraints.value), width |-> ExactOf(p.constraints.width),
   register |-> Sought(p).register, status |-> status]

LEMMA ExactIsRange ==
  ASSUME NEW c, Stated(ExactOf(c))
  PROVE  Stated(c) /\ Extent(c) = Exact(ExactOf(c))
<1>1. Stated(c) /\ Stated(ExactValue(c.domain))
  BY DEF ExactOf, Stated
<1>2. c.domain.low = c.domain.high /\ ExactOf(c) = c.domain.low
  BY <1>1 DEF ExactOf, ExactValue, Stated
<1> QED
  BY <1>1, <1>2 DEF Extent, Exact

\* Of a vague constraint nothing but the status differs (WorldsAssumption).
LEMMA ViewShows ==
  ASSUME NEW w \in Worlds, w.lane = "declared", NEW k, NEW q \in w.capability.primitives, NEW x \in ConstraintKinds,
         Stated(View(q, k, w.vague).constraints[x])
  PROVE  LET c == View(q, k, w.vague).constraints[x]
         IN  /\ Stated(q.constraints[x])
             /\ x \in NumericKinds => c.domain = q.constraints[x].domain
             /\ x = "csr" => c.identity = q.constraints[x].identity
<1> DEFINE c == View(q, k, w.vague).constraints[x]
<1>1. c = IF <<q.id, x>> \in k THEN q.constraints[x]
          ELSE IF <<q.id, x>> \in w.vague THEN [q.constraints[x] EXCEPT !.status = "unknown"]
          ELSE Nothing
  BY DEF View
<1>2. CASE <<q.id, x>> \in k
  BY <1>1, <1>2
<1>3. CASE <<q.id, x>> \notin k
  <2>1. <<q.id, x>> \in w.vague /\ c = [q.constraints[x] EXCEPT !.status = "unknown"]
    BY <1>1, <1>3 DEF Stated
  <2>2. Stated(q.constraints[x]) /\ Part(x) \in DOMAIN q.constraints[x]
    BY <2>1, WorldsAssumption
  <2>3. x \in NumericKinds => Part(x) = "domain"
    BY DEF Part
  <2>4. x = "csr" => Part(x) = "identity"
    BY DEF Part, NumericKinds
  <2>5. x \in NumericKinds => c.domain = q.constraints[x].domain
    BY <2>1, <2>2, <2>3
  <2>6. x = "csr" => c.identity = q.constraints[x].identity
    BY <2>1, <2>2, <2>4
  <2> QED
    BY <2>2, <2>5, <2>6
<1> QED
  BY <1>2, <1>3

LEMMA ViewNumbers ==
  ASSUME NEW w \in Worlds, w.lane = "declared", NEW k, NEW q \in w.capability.primitives,
         NEW x \in NumericKinds, Stated(ExactOf(View(q, k, w.vague).constraints[x]))
  PROVE  /\ ExactOf(View(q, k, w.vague).constraints[x]) = ExactOf(q.constraints[x])
         /\ Extent(q.constraints[x]) = Exact(ExactOf(q.constraints[x]))
<1> DEFINE c == View(q, k, w.vague).constraints[x]
<1>1. Stated(c) /\ x \in ConstraintKinds
  BY DEF ExactOf, Stated, ConstraintKinds
<1>2. Stated(q.constraints[x]) /\ c.domain = q.constraints[x].domain
  BY <1>1, ViewShows
<1>3. ExactOf(c) = ExactOf(q.constraints[x])
  <2> HIDE DEF c
  <2> QED
    BY <1>1, <1>2 DEF ExactOf
<1> QED
  BY <1>3, ExactIsRange

\* An option of a declared capability shows its access.
LEMMA DeclaredOptionShows ==
  ASSUME NEW w \in Worlds, w.lane = "declared", NEW k, ValidCapability(Declared(w, k)),
         NEW q \in w.capability.primitives, NEW s, NEW status
  PROVE  Shows(OptionOf(s, View(q, k, w.vague), status), DeclaredAccess(q))
<1> DEFINE p == View(q, k, w.vague)
           o == OptionOf(s, p, status)
           x == DeclaredAccess(q)
<1>1. p \in Declared(w, k).primitives /\ p.id = q.id /\ p.kind = q.kind
  BY DEF Declared, View
<1>2. /\ o.id = q.id /\ o.kind = q.kind /\ o.address = ExactOf(p.constraints["address"])
      /\ o.value = ExactOf(p.constraints["value"]) /\ o.width = ExactOf(p.constraints["width"])
      /\ o.register = IF Stated(p.constraints["csr"]) THEN p.constraints["csr"].identity ELSE Nothing
  <2> HIDE DEF p
  <2> QED
    BY <1>1 DEF OptionOf, Sought
<1>3. /\ x.site = q.id /\ x.kind = q.kind /\ x.address = Extent(q.constraints["address"])
      /\ x.value = Extent(q.constraints["value"]) /\ x.width = ExactOf(q.constraints["width"])
      /\ x.register = IF Stated(q.constraints["csr"]) THEN q.constraints["csr"].identity ELSE Nothing
  BY DEF DeclaredAccess, Sought
<1>4. {"address", "value", "width"} \subseteq NumericKinds /\ "csr" \in ConstraintKinds
  BY DEF NumericKinds, ConstraintKinds
<1> HIDE DEF o, x
<1>5. Stated(o.address) => x.address = Exact(o.address)
  BY <1>2, <1>3, <1>4, ViewNumbers
<1>6. Stated(o.value) => x.value = Exact(o.value)
  BY <1>2, <1>3, <1>4, ViewNumbers
<1>7. Stated(o.width) => x.width = o.width
  BY <1>2, <1>3, <1>4, ViewNumbers
<1>8. ASSUME Stated(o.register)
      PROVE  x.register = o.register /\ o.kind \in CsrKinds
  <2>1. Stated(p.constraints["csr"]) /\ o.register = p.constraints["csr"].identity
    BY <1>2, <1>8 DEF Stated
  <2>2. x.register = o.register
    BY <1>3, <1>4, <2>1, ViewShows
  <2>3. Constrained(p)
    <3> HIDE DEF p
    <3> QED
      BY <1>1 DEF ValidCapability, ValidPrimitive
  <2>4. p.kind \in CsrKinds
    <3> HIDE DEF p
    <3> QED
      BY <2>1, <2>3 DEF Constrained
  <2> QED
    BY <1>1, <1>2, <2>2, <2>4
<1> QED
  BY <1>2, <1>3, <1>5, <1>6, <1>7, <1>8 DEF Shows, o, x

LEMMA NumericShows == \A n, width : ExactOf(NumericIf(n, width)) \in {Nothing, n}
<1> TAKE n, width
<1>1. CASE ~Stated(n)
  BY <1>1 DEF NumericIf, ExactOf, Stated
<1>2. CASE Stated(n)
  <2>1. NumericIf(n, width).domain = Exactly(n, width) /\ ExactValue(Exactly(n, width)) = n
    BY <1>2 DEF NumericIf, Numeric, Exactly, ExactValue
  <2> QED
    BY <2>1 DEF ExactOf
<1> QED
  BY <1>1, <1>2

\* An option of a static capability shows its access.
LEMMA StaticOptionShows ==
  ASSUME world \in Worlds, world.lane = "static", NEW s \in Sites, NEW r, NEW status,
         Expressible(FactOf(s), world.architecture)
  PROVE  Shows(OptionOf(s, StaticPrimitive(s, FactOf(s), r), status), StaticAccess(s, world.truth[s]))
<1> DEFINE f == FactOf(s)
           g == world.truth[s]
           p == StaticPrimitive(s, f, r)
           cs == ConstraintsOf(f, r)
           o == OptionOf(s, p, status)
           x == StaticAccess(s, g)
<1>1. /\ f.kind = g.kind /\ f.register = g.register /\ f.address \in {Nothing, g.address}
      /\ f.width \in {Nothing, g.width} /\ f.value \in {Nothing, g.value}
  BY FactIsTrue
<1>2. f.kind \in DOMAIN Mapping
  BY DEF Expressible
<1>3. /\ o.id = s /\ o.kind = KindOf(f, r) /\ o.address = ExactOf(cs.address)
      /\ o.value = ExactOf(cs.value) /\ o.width = ExactOf(cs.width)
      /\ o.register = IF Stated(cs.csr) THEN cs.csr.identity ELSE Nothing
  BY DEF OptionOf, StaticPrimitive, Sought
<1>4. /\ x.site = s /\ x.kind = f.kind /\ x.address = Exact(g.address) /\ x.width = g.width
      /\ x.value = Exact(IF f.kind \in ReadKinds THEN Nothing ELSE g.value) /\ x.register = f.register
  BY <1>1 DEF StaticAccess
<1>5. \A n, width : ExactOf(NumericIf(n, width)) \in {Nothing, n}
  BY NumericShows
<1> HIDE DEF o, x
<1>7. CASE f.kind \in MemoryAccess
  <2>1. /\ cs.address = NumericIf(f.address, AddressBits) /\ cs.width = NumericIf(f.width, f.width)
        /\ cs.value = NumericIf(IF f.kind \in ReadKinds THEN Nothing ELSE f.value,
                                IF Stated(f.width) THEN f.width ELSE AddressBits)
        /\ cs.csr = Nothing
    BY <1>7, StaticConstraints
  <2>2. o.kind \in {"MMIO_READ", "MMIO_WRITE", "MEMORY_READ", "MEMORY_WRITE"}
    BY <1>2, <1>3, <1>7, StaticKinds
  <2>3. f.kind \in ReadKinds <=> o.kind \in {"MMIO_READ", "MEMORY_READ"}
    BY <1>2, <1>3, <1>7, StaticKinds
  <2>4. o.kind \in MemoryAccess /\ AccessOf(o.kind) = AccessOf(f.kind)
    BY <2>2, <2>3 DEF MemoryAccess, AccessOf, ReadKinds
  <2>5. ~Stated(o.register)
    BY <1>3, <2>1 DEF Stated
  <2>6. o.address \in {Nothing, f.address} /\ o.width \in {Nothing, f.width}
    BY <1>3, <1>5, <2>1
  <2>7. o.value \in {Nothing, IF f.kind \in ReadKinds THEN Nothing ELSE f.value}
    BY <1>3, <1>5, <2>1
  <2> QED
    BY <1>1, <1>3, <1>4, <1>7, <2>4, <2>5, <2>6, <2>7 DEF Shows, Stated, o, x
<1>8. CASE f.kind \notin MemoryAccess
  <2>1. cs.address = Nothing /\ cs.value = Nothing /\ cs.width = Nothing
    BY <1>8, StaticConstraints
  <2>2. ~Stated(o.address) /\ ~Stated(o.value) /\ ~Stated(o.width)
    BY <1>3, <2>1 DEF ExactOf, Stated
  <2>3. CASE f.kind \in SystemAccess
    <3>1. cs.csr = [status |-> "formalized", identity |-> f.register]
      BY <2>3, StaticConstraints
    <3>2. o.kind = IF f.kind \in ReadKinds THEN "CSR_READ" ELSE "CSR_WRITE"
      BY <1>2, <1>3, <2>3, StaticKinds
    <3>3. o.kind \in CsrKinds /\ o.kind \notin MemoryAccess /\ AccessOf(o.kind) = AccessOf(f.kind)
      BY <3>2 DEF CsrKinds, MemoryAccess, AccessOf, ReadKinds
    <3>4. o.register \in {Nothing, f.register}
      BY <1>3, <3>1
    <3> QED
      BY <1>3, <1>4, <1>8, <2>2, <3>3, <3>4 DEF Shows, Stated, o, x
  <2>4. CASE f.kind \notin SystemAccess
    <3>1. o.kind \in {"INSTRUCTION_EXECUTION", "EXCEPTION_RETURN", "DIRECT_CONTROL_TRANSFER", "INDIRECT_CONTROL_TRANSFER"}
      BY <1>2, <1>3, <1>8, <2>4, StaticKinds
    <3>2. o.kind \notin MemoryAccess \cup SystemAccess
      BY <3>1 DEF MemoryAccess, SystemAccess
    <3>3. cs.csr = Nothing
      BY <1>8, <2>4, StaticConstraints
    <3>4. ~Stated(o.register)
      BY <1>3, <3>3 DEF Stated
    <3> QED
      BY <1>3, <1>4, <1>8, <2>2, <3>2, <3>4 DEF Shows, o, x
  <2> QED
    BY <2>3, <2>4
<1> QED
  BY <1>7, <1>8

\* The resources that Allowed finds for an access.
Found(x, catalog) ==
  {r \in catalog.resources :
     IF x.kind \in MemoryAccess
     THEN r.kind \in AddressedKinds /\ Stated(ExactValue(x.address)) /\ Holds(r, ExactValue(x.address))
     ELSE r.kind = "CSR" /\ r.register = x.register}

LEMMA AutomaticSays ==
  ASSUME NEW o, NEW x, Shows(o, x), NEW catalog, IsFiniteSet(catalog.resources),
         NEW y, y.kind = o.kind, y.address = o.address, y.width = o.width, y.register = o.register,
         Automatic(y, catalog).status \in {"SUPPORTED", "CONTRADICTED"}
  PROVE  /\ Automatic(y, catalog).status = "SUPPORTED" => Allowed(x, catalog)
         /\ Automatic(y, catalog).status = "CONTRADICTED" => ~Allowed(x, catalog)
         /\ o.kind \in MemoryAccess => Stated(o.address)
<1> DEFINE found == Candidates(y, catalog)
           r == CHOOSE r \in found : TRUE
<1>1. /\ o.kind \in MemoryAccess \cup SystemAccess
      /\ Stated(IF o.kind \in MemoryAccess THEN o.address ELSE o.register)
      /\ found # {} /\ ~(Cardinality(found) > 1)
      /\ Automatic(y, catalog).status = Judge(r, y)
  BY DEF Automatic, Unbound, Binding
<1>2. found = Found(x, catalog)
  <2>1. CASE o.kind \in MemoryAccess
    <3>1. ExactValue(x.address) = o.address /\ Stated(o.address) /\ x.kind \in MemoryAccess
      BY <1>1, <2>1 DEF Shows, Exact, ExactValue
    <3> QED
      BY <2>1, <3>1 DEF Found, Candidates, Contains
  <2>2. CASE o.kind \notin MemoryAccess
    <3>1. x.register = o.register /\ o.kind \in CsrKinds /\ x.kind \notin MemoryAccess
      BY <1>1, <2>2 DEF Shows
    <3> QED
      BY <2>2, <3>1 DEF Found, Candidates, Contains
  <2> QED
    BY <2>1, <2>2
<1>3. IsFiniteSet(found) /\ r \in found
  <2>1. found \subseteq catalog.resources
    BY DEF Candidates
  <2>2. IsFiniteSet(found)
    <3> HIDE DEF found
    <3> QED
      BY <2>1, FS_Subset
  <2> QED
    BY <1>1, <2>2
<1> HIDE DEF found, r
<1>4. Cardinality(found) = 1
  <2>1. Cardinality(found) \in Nat /\ Cardinality(found) # 0
    BY <1>1, <1>3, FS_CardinalityType, FS_EmptySet
  <2> QED
    BY <1>1, <2>1
<1>5. found = {r}
  <2>1. PICK z : found = {z}
    BY <1>3, <1>4, FS_Singleton
  <2> QED
    BY <1>3, <2>1
<1>6. Allowed(x, catalog) <=> /\ r.access = {} \/ AccessOf(x.kind) \in r.access
                              /\ ~Stated(r.width) \/ r.width = x.width
  <2>1. Allowed(x, catalog) <=> /\ Cardinality(Found(x, catalog)) = 1
                                /\ \A z \in Found(x, catalog) : /\ z.access = {} \/ AccessOf(x.kind) \in z.access
                                                                /\ ~Stated(z.width) \/ z.width = x.width
    BY DEF Allowed, Found
  <2> QED
    BY <1>2, <1>4, <1>5, <2>1
<1>7. AccessOf(x.kind) = AccessOf(o.kind) /\ (Stated(o.width) => x.width = o.width)
  BY <1>1 DEF Shows
<1> QED
  BY <1>1, <1>6, <1>7 DEF Judge, Forbidden

\* A binding that is supported is to a resource that allows the access, and one that is
\* contradicted to one that does not, or it is declared (resource_binding.py, _select).
LEMMA BindingSays ==
  ASSUME NEW o, NEW x, Shows(o, x), NEW catalog, IsFiniteSet(catalog.resources), NEW said,
         NEW y, y.kind = o.kind, y.address = o.address, y.width = o.width, y.register = o.register,
         o.status = Select(y, catalog, said).status
  PROVE  /\ o.status = "SUPPORTED" => Allowed(x, catalog) /\ (o.kind \in MemoryAccess => Stated(o.address))
         /\ o.status = "CONTRADICTED" => Stated(said) \/ ~Allowed(x, catalog)
<1>1. CASE Stated(said)
  <2>1. o.status # "SUPPORTED"
    BY <1>1 DEF Select, Manual, Refused, Unbound, Binding
  <2> QED
    BY <1>1, <2>1
<1>2. CASE ~Stated(said)
  <2>1. o.status = Automatic(y, catalog).status
    BY <1>2 DEF Select
  <2> QED
    BY <2>1, AutomaticSays
<1> QED
  BY <1>1, <1>2

\* Options that show true accesses, bound to resources as resource_binding.py does.
Sound(options, catalog, manual) ==
  \A o \in options : \E x \in Accesses :
    /\ Shows(o, x)
    /\ o.status = "SUPPORTED" => Allowed(x, catalog) /\ (o.kind \in MemoryAccess => Stated(o.address))
    /\ o.status = "CONTRADICTED" => x.site \in DOMAIN manual \/ ~Allowed(x, catalog)

\* The direction of an option is that of the access.
LEMMA DirectedGoes ==
  ASSUME NEW o, NEW x, Shows(o, x), NEW atom, atom.direction \in {"read", "write", "either"},
         Directed(o, atom, MmioKind) \/ Directed(o, atom, CsrKind)
  PROVE  Goes(x, atom)
<1>1. CASE atom.direction = "either"
  BY <1>1 DEF Goes
<1>2. CASE atom.direction = "read"
  <2>1. o.kind \in {"MMIO_READ", "CSR_READ"}
    BY <1>2 DEF Directed, MmioKind, CsrKind
  <2>2. o.kind \in MemoryAccess \cup SystemAccess /\ AccessOf(o.kind) = "read"
    BY <2>1 DEF MemoryAccess, SystemAccess, AccessOf, ReadKinds
  <2> QED
    BY <1>2, <2>2 DEF Goes, Shows
<1>3. CASE atom.direction = "write"
  <2>1. o.kind \in {"MMIO_WRITE", "CSR_WRITE"}
    BY <1>3 DEF Directed, MmioKind, CsrKind
  <2>2. o.kind \in MemoryAccess \cup SystemAccess /\ AccessOf(o.kind) = "write"
    BY <2>1 DEF MemoryAccess, SystemAccess, AccessOf, ReadKinds
  <2> QED
    BY <1>3, <2>2 DEF Goes, Shows
<1> QED
  BY <1>1, <1>2, <1>3

LEMMA ValueShown ==
  ASSUME NEW o, NEW x, Shows(o, x), Stated(o.value)
  PROVE  ExactValue(x.value) = o.value /\ Stated(ExactValue(x.value))
BY DEF Shows, Exact, ExactValue

\* What a status says of the accesses, of a condition on an MMIO register.
LEMMA MmioSays ==
  ASSUME NEW options, NEW catalog, NEW manual, Sound(options, catalog, manual),
         NEW t, t.kind = "MMIO_access", Stated(t.access), ValidAccess(t)
  PROVE  /\ MmioStatus(options, t.access) = "SUPPORTED" =>
              \E x \in Accesses : Meets(x, t) /\ Allowed(x, catalog)
         /\ MmioStatus(options, t.access) = "CONTRADICTED" =>
              \E x \in Accesses : /\ About(x, t)
                                  /\ ~Meets(x, t) \/ ~Allowed(x, catalog) \/ x.site \in DOMAIN manual
<1> DEFINE a == t.access
           eligible == {o \in options : o.address = a.address /\ Directed(o, a, MmioKind)}
<1>1. Stated(a.address) /\ a.direction \in {"read", "write", "either"}
  BY DEF ValidAccess
<1>2. ASSUME NEW o \in eligible, NEW x \in Accesses, Shows(o, x)
      PROVE  About(x, t)
  <2>1. x.address = Exact(a.address)
    BY <1>1, <1>2 DEF Shows
  <2>2. Goes(x, a)
    BY <1>1, <1>2, DirectedGoes
  <2> QED
    BY <2>1, <2>2 DEF About
<1>3. MmioStatus(options, a) = "SUPPORTED" => \E o \in eligible : MmioVerdict(o, a) = "compatible"
  BY DEF MmioStatus
<1>4. MmioStatus(options, a) = "CONTRADICTED" => \E o \in eligible : MmioVerdict(o, a) = "conflicted"
  BY DEF MmioStatus
<1>5. ASSUME NEW o \in eligible, MmioVerdict(o, a) = "compatible"
      PROVE  \E x \in Accesses : Meets(x, t) /\ Allowed(x, catalog)
  <2>1. o \in options
    OBVIOUS
  <2>2. PICK x \in Accesses : Shows(o, x) /\ (o.status = "SUPPORTED" => Allowed(x, catalog))
    BY <2>1 DEF Sound
  <2>3. o.status = "SUPPORTED"
    BY <1>5 DEF MmioVerdict
  <2>4. Stated(a.width) => x.width = a.width
    <3>1. Stated(a.width) => Stated(o.width) /\ o.width = a.width
      BY <1>5 DEF MmioVerdict
    <3> QED
      BY <2>2, <3>1 DEF Shows
  <2>5. Stated(a.value) => Stated(ExactValue(x.value)) /\ Satisfies(ExactValue(x.value), a.value)
    <3>1. Stated(a.value) => Stated(o.value) /\ Satisfies(o.value, a.value)
      BY <1>5 DEF MmioVerdict
    <3> QED
      BY <2>2, <3>1, ValueShown
  <2>6. About(x, t)
    BY <1>2, <2>2
  <2> HIDE DEF eligible
  <2> QED
    BY <2>2, <2>3, <2>4, <2>5, <2>6 DEF Meets
<1>6. ASSUME NEW o \in eligible, MmioVerdict(o, a) = "conflicted"
      PROVE  \E x \in Accesses : /\ About(x, t)
                                 /\ ~Meets(x, t) \/ ~Allowed(x, catalog) \/ x.site \in DOMAIN manual
  <2>1. o \in options
    OBVIOUS
  <2>2. PICK x \in Accesses : Shows(o, x) /\ (o.status = "CONTRADICTED" => x.site \in DOMAIN manual \/ ~Allowed(x, catalog))
    BY <2>1 DEF Sound
  <2>3. About(x, t)
    BY <1>2, <2>2
  <2>4. \/ o.status = "CONTRADICTED"
        \/ Stated(a.width) /\ Stated(o.width) /\ a.width # o.width
        \/ Stated(a.value) /\ Stated(o.value) /\ ~Satisfies(o.value, a.value)
    BY <1>6 DEF MmioVerdict
  <2>5. CASE o.status = "CONTRADICTED"
    BY <2>2, <2>3, <2>5
  <2>6. CASE Stated(a.width) /\ Stated(o.width) /\ a.width # o.width
    <3>1. x.width # a.width
      BY <2>2, <2>6 DEF Shows
    <3>2. ~Meets(x, t)
      BY <2>6, <3>1 DEF Meets
    <3> QED
      BY <2>3, <3>2
  <2>7. CASE Stated(a.value) /\ Stated(o.value) /\ ~Satisfies(o.value, a.value)
    <3>1. ExactValue(x.value) = o.value
      BY <2>2, <2>7, ValueShown
    <3>2. ~Meets(x, t)
      BY <2>7, <3>1 DEF Meets
    <3> QED
      BY <2>3, <3>2
  <2> QED
    BY <2>4, <2>5, <2>6, <2>7
<1> HIDE DEF eligible
<1> QED
  BY <1>3, <1>4, <1>5, <1>6

\* Of a condition on a CSR.
LEMMA CsrSays ==
  ASSUME NEW options, NEW catalog, NEW manual, Sound(options, catalog, manual),
         NEW t, t.kind = "CSR_access", Stated(t.access), ValidAccess(t)
  PROVE  /\ CsrStatus(options, t.access) = "SUPPORTED" =>
              \E x \in Accesses : Meets(x, t) /\ Allowed(x, catalog)
         /\ CsrStatus(options, t.access) = "CONTRADICTED" =>
              \E x \in Accesses : /\ About(x, t)
                                  /\ ~Meets(x, t) \/ ~Allowed(x, catalog) \/ x.site \in DOMAIN manual
<1> DEFINE a == t.access
           eligible == {o \in options : Stated(o.register) /\ o.register = a.csr /\ Directed(o, a, CsrKind)}
           supported == {o \in eligible : o.status = "SUPPORTED"}
           fitting == {o \in supported : Stated(a.value) => Stated(o.value) /\ Satisfies(o.value, a.value)}
           contradicted == {o \in eligible : o.status = "CONTRADICTED"} \cup {o \in supported \ fitting : Stated(o.value)}
<1>1. a.direction \in {"read", "write", "either"}
  BY DEF ValidAccess
<1>2. ASSUME NEW o \in eligible, NEW x \in Accesses, Shows(o, x)
      PROVE  About(x, t)
  <2>1. Stated(x.register) /\ x.register = a.csr
    BY <1>2 DEF Shows
  <2>2. Goes(x, a)
    BY <1>1, <1>2, DirectedGoes
  <2> QED
    BY <2>1, <2>2 DEF About
<1>3. /\ CsrStatus(options, a) = "SUPPORTED" => fitting # {}
      /\ CsrStatus(options, a) = "CONTRADICTED" => contradicted # {}
  BY DEF CsrStatus
<1>4. ASSUME NEW o \in fitting
      PROVE  \E x \in Accesses : Meets(x, t) /\ Allowed(x, catalog)
  <2>1. o \in options /\ o \in eligible /\ o.status = "SUPPORTED"
    OBVIOUS
  <2>2. PICK x \in Accesses : Shows(o, x) /\ (o.status = "SUPPORTED" => Allowed(x, catalog))
    BY <2>1 DEF Sound
  <2>3. Stated(a.value) => Stated(ExactValue(x.value)) /\ Satisfies(ExactValue(x.value), a.value)
    BY <2>2, ValueShown
  <2>4. About(x, t)
    BY <1>2, <2>1, <2>2
  <2> QED
    BY <2>1, <2>2, <2>3, <2>4 DEF Meets
<1>5. ASSUME NEW o \in contradicted
      PROVE  \E x \in Accesses : /\ About(x, t)
                                 /\ ~Meets(x, t) \/ ~Allowed(x, catalog) \/ x.site \in DOMAIN manual
  <2>1. o \in options /\ o \in eligible
    OBVIOUS
  <2>2. o.status = "CONTRADICTED" \/ (Stated(a.value) /\ Stated(o.value) /\ ~Satisfies(o.value, a.value))
    OBVIOUS
  <2>3. PICK x \in Accesses : Shows(o, x) /\ (o.status = "CONTRADICTED" => x.site \in DOMAIN manual \/ ~Allowed(x, catalog))
    BY <2>1 DEF Sound
  <2>4. About(x, t)
    BY <1>2, <2>1, <2>3
  <2>5. CASE Stated(a.value) /\ Stated(o.value) /\ ~Satisfies(o.value, a.value)
    <3>1. ExactValue(x.value) = o.value
      BY <2>3, <2>5, ValueShown
    <3>2. ~Meets(x, t)
      BY <2>5, <3>1 DEF Meets
    <3> QED
      BY <2>4, <3>2
  <2> QED
    BY <2>2, <2>3, <2>4, <2>5
<1> HIDE DEF fitting, contradicted
<1> QED
  BY <1>3, <1>4, <1>5

\* Of a condition on memory.
LEMMA MemorySays ==
  ASSUME NEW options, NEW catalog, NEW manual, Sound(options, catalog, manual), NEW t, t.kind = "memory_operation"
  PROVE  /\ MemoryStatus(options, t.relation) = "SUPPORTED" =>
              \E x \in Accesses : Meets(x, t) /\ Allowed(x, catalog)
         /\ MemoryStatus(options, t.relation) # "CONTRADICTED"
<1> DEFINE n == t.relation.operand
<1>1. MemoryStatus(options, t.relation) # "CONTRADICTED"
  BY DEF MemoryStatus
<1>2. ASSUME MemoryStatus(options, t.relation) = "SUPPORTED"
      PROVE  \E x \in Accesses : Meets(x, t) /\ Allowed(x, catalog)
  <2>1. PICK o \in options : o.address = n /\ o.status = "SUPPORTED" /\ o.kind \in {"MEMORY_READ", "MEMORY_WRITE"}
    BY <1>2 DEF MemoryStatus
  <2>2. o.kind \in MemoryAccess
    BY <2>1 DEF MemoryAccess
  <2>3. PICK x \in Accesses : Shows(o, x) /\ Allowed(x, catalog) /\ Stated(o.address)
    BY <2>1, <2>2 DEF Sound
  <2>4. x.address = Exact(n)
    BY <2>1, <2>3 DEF Shows
  <2>5. Meets(x, t)
    BY <2>4 DEF Meets, About
  <2> QED
    BY <2>3, <2>5
<1> QED
  BY <1>1, <1>2

\* The options of the capabilities are sound (bind_capabilities).
LEMMA OptionsAreSound ==
  ASSUME CapabilitiesAreOfFacts, Capabilities \notin {Nothing, Raised},
         NEW catalog \in world.catalogs, NEW manual
  PROVE  Sound(Options(Capabilities, catalog, manual), catalog, manual)
<1> DEFINE said(id) == IF id \in DOMAIN manual THEN manual[id] ELSE Nothing
<1>1. /\ world \in Worlds
      /\ world.lane # "declared" => Capabilities = capabilities /\ world.lane = "static"
  BY DEF CapabilitiesAreOfFacts, Capabilities
<1>2. IsFiniteSet(catalog.resources)
  BY <1>1, CatalogsAssumption
<1>3. ASSUME NEW y \in PrimitivesOf(Capabilities), NEW status
      PROVE  \E x \in Accesses : Shows(OptionOf(y.site, y.p, status), x)
  <2>1. PICK s \in DOMAIN Capabilities : \E p \in Capabilities[s].primitives : y = [site |-> s, p |-> p]
    BY DEF PrimitivesOf
  <2>2. PICK p \in Capabilities[s].primitives : y = [site |-> s, p |-> p]
    BY <2>1
  <2>3. CASE world.lane = "declared"
    <3>1. Capabilities[s] = Declared(world, known) /\ ValidCapability(Declared(world, known))
      BY <2>1, <2>3 DEF Capabilities, CapabilitiesAreOfFacts
    <3>2. PICK q \in world.capability.primitives : p = View(q, known, world.vague)
      BY <3>1 DEF Declared
    <3>3. DeclaredAccess(q) \in Accesses
      BY <2>3 DEF Accesses
    <3>4. Shows(OptionOf(s, p, status), DeclaredAccess(q))
      BY <1>1, <2>3, <3>1, <3>2, DeclaredOptionShows
    <3> QED
      BY <2>2, <3>3, <3>4
  <2>4. CASE world.lane # "declared"
    <3>1. /\ Capabilities = capabilities /\ world.lane = "static" /\ s \in Sites
          /\ Expressible(FactOf(s), world.architecture)
      BY <1>1, <2>1, <2>4 DEF CapabilitiesAreOfFacts
    <3>2. PICK r : capabilities[s] = StaticCapability(s, FactOf(s), r, world)
      BY <1>1, <2>1, <2>4 DEF CapabilitiesAreOfFacts
    <3>3. p = StaticPrimitive(s, FactOf(s), r)
      <4>1. StaticCapability(s, FactOf(s), r, world).primitives = {StaticPrimitive(s, FactOf(s), r)}
        BY StaticIsNeverCompatible
      <4>2. Capabilities[s] = StaticCapability(s, FactOf(s), r, world)
        BY <3>1, <3>2
      <4> QED
        BY <2>2, <4>1, <4>2
    <3>4. StaticAccess(s, world.truth[s]) \in Accesses
      BY <3>1 DEF Accesses
    <3>5. Shows(OptionOf(s, p, status), StaticAccess(s, world.truth[s]))
      BY <1>1, <3>1, <3>3, StaticOptionShows
    <3> QED
      BY <2>2, <3>4, <3>5
  <2> QED
    BY <2>3, <2>4
<1>4. ASSUME NEW o \in Options(Capabilities, catalog, manual)
      PROVE  \E x \in Accesses :
               /\ Shows(o, x)
               /\ o.status = "SUPPORTED" => Allowed(x, catalog) /\ (o.kind \in MemoryAccess => Stated(o.address))
               /\ o.status = "CONTRADICTED" => x.site \in DOMAIN manual \/ ~Allowed(x, catalog)
  <2>1. PICK y \in PrimitivesOf(Capabilities) :
          o = OptionOf(y.site, y.p, Select(Sought(y.p), catalog, said(y.p.id)).status)
    BY DEF Options, OptionOf
  <2> DEFINE z == Sought(y.p)
  <2>2. /\ z.kind = o.kind /\ z.address = o.address /\ z.width = o.width /\ z.register = o.register
        /\ o.status = Select(z, catalog, said(y.p.id)).status /\ o.id = y.p.id
    BY <2>1 DEF OptionOf, Sought
  <2>3. PICK x \in Accesses : Shows(o, x)
    BY <1>3, <2>1
  <2> HIDE DEF z
  <2>4. /\ o.status = "SUPPORTED" => Allowed(x, catalog) /\ (o.kind \in MemoryAccess => Stated(o.address))
        /\ o.status = "CONTRADICTED" => Stated(said(o.id)) \/ ~Allowed(x, catalog)
    BY <1>2, <2>2, <2>3, BindingSays
  <2>5. Stated(said(o.id)) => x.site \in DOMAIN manual
    BY <2>3 DEF Shows, Stated
  <2> QED
    BY <2>3, <2>4, <2>5
<1> QED
  BY <1>4 DEF Sound

\* A match says what is true: a supported condition is met by an access that the hardware
\* allows, and of a contradicted one there is an access that it is about which fails it,
\* is not allowed, or has a declared resource (matching.py, resource_binding.py).
THEOREM MatchesSayTheTruth == Spec => []MatchesAreTrue
<1>1. ResultsAreOfCapabilities => MatchesAreTrue
  <2> SUFFICES ASSUME ResultsAreOfCapabilities, candidate # Nothing, candidate.result # Raised,
                      NEW t \in DOMAIN candidate.result.status
               PROVE  /\ candidate.result.status[t] = "SUPPORTED" =>
                           \E x \in Accesses : Meets(x, t) /\ Allowed(x, candidate.catalog)
                      /\ candidate.result.status[t] = "CONTRADICTED" =>
                           \E x \in Accesses : /\ About(x, t)
                                               /\ ~Meets(x, t) \/ ~Allowed(x, candidate.catalog)
                                                    \/ x.site \in DOMAIN candidate.manual
    BY DEF MatchesAreTrue
  <2> DEFINE catalog == candidate.catalog
             manual == candidate.manual
             options == Options(Capabilities, catalog, manual)
  <2>1. /\ CapabilitiesAreOfFacts /\ Capabilities \notin {Nothing, Raised} /\ catalog \in world.catalogs
        /\ \E contract \in Contracts : candidate.result = Match(Capabilities, catalog, manual, contract)
    BY DEF ResultsAreOfCapabilities, CandidateIsOfCapabilities
  <2>2. PICK contract \in Contracts : candidate.result = Match(Capabilities, catalog, manual, contract)
    BY <2>1
  <2>3. candidate.result.status =
          [t1 \in contract.trigger |-> IF StaticKind(t1) THEN Status(options, t1) ELSE "UNKNOWN"]
    BY <2>2 DEF Match
  <2>4. t \in contract.trigger /\ ValidTrigger(t, contract)
    BY <2>3, ContractsAssumption DEF ValidContract
  <2>5. Sound(options, catalog, manual)
    BY <2>1, OptionsAreSound
  <2> HIDE DEF options
  <2>6. candidate.result.status[t] = IF StaticKind(t) THEN Status(options, t) ELSE "UNKNOWN"
    BY <2>3, <2>4
  <2>7. CASE ~StaticKind(t)
    BY <2>6, <2>7
  <2>8. CASE StaticKind(t) /\ t.kind = "MMIO_access"
    <3>1. Stated(t.access) /\ ValidAccess(t)
      BY <2>4, <2>8 DEF StaticKind, ValidTrigger
    <3>2. Status(options, t) = MmioStatus(options, t.access)
      BY <2>8 DEF Status
    <3> QED
      BY <2>5, <2>6, <2>8, <3>1, <3>2, MmioSays
  <2>9. CASE StaticKind(t) /\ t.kind = "CSR_access"
    <3>1. Stated(t.access) /\ ValidAccess(t)
      BY <2>4, <2>9 DEF StaticKind, ValidTrigger
    <3>2. Status(options, t) = CsrStatus(options, t.access)
      BY <2>9 DEF Status
    <3> QED
      BY <2>5, <2>6, <2>9, <3>1, <3>2, CsrSays
  <2>10. CASE StaticKind(t) /\ t.kind = "memory_operation"
    <3>1. Status(options, t) = MemoryStatus(options, t.relation)
      BY <2>10 DEF Status
    <3> QED
      BY <2>5, <2>6, <2>10, <3>1, MemorySays
  <2> QED
    BY <2>7, <2>8, <2>9, <2>10 DEF StaticKind
<1> QED
  BY <1>1, ResultsStayOfCapabilities, PTL

-----------------------------------------------------------------------------
(* What a binding to the accounts of a run says.                           *)

\* The account that a static capability is, of an access to an MMIO register.
LEMMA StaticAccount ==
  ASSUME world \in Worlds, world.lane = "static", NEW s \in Sites, NEW r,
         Expressible(FactOf(s), world.architecture), TrueClass(world.truth[s]) = "mmio", Stated("mmio")
  PROVE  LET f == world.truth[s] m == Semantics(StaticCapability(s, FactOf(s), r, world))
         IN  /\ m.class = "mmio" => m.kind = IF f.kind \in ReadKinds THEN "MMIO_READ" ELSE "MMIO_WRITE"
             /\ m.address \in {Nothing, f.address} /\ m.width \in {Nothing, f.width}
             /\ m.value \in {Nothing, f.value} /\ m.encoding = world.encoding[s]
<1> DEFINE g == FactOf(s)
           f == world.truth[s]
           c == StaticCapability(s, g, r, world)
           p == StaticPrimitive(s, g, r)
           cs == ConstraintsOf(g, r)
           m == Semantics(c)
<1>1. /\ g.kind = f.kind /\ g.address \in {Nothing, f.address}
      /\ g.width \in {Nothing, f.width} /\ g.value \in {Nothing, f.value}
  BY FactIsTrue
<1>2. c.primitives = {p}
  BY StaticIsNeverCompatible
<1>3. (CHOOSE x \in c.primitives : TRUE) = p
  BY <1>2
<1>4. /\ m.kind = KindOf(g, r) /\ m.class = ClassIn(cs) /\ m.address = ExactOf(cs.address)
      /\ m.width = ExactOf(cs.width) /\ m.value = ExactOf(cs.value) /\ m.encoding = world.encoding[s]
  <2>1. p.kind = KindOf(g, r) /\ p.constraints = cs /\ p.encoding = world.encoding[s]
    BY DEF StaticPrimitive
  <2> HIDE DEF c, p, cs
  <2>2. /\ m.kind = p.kind /\ m.class = ClassIn(p.constraints) /\ m.address = ExactOf(p.constraints.address)
        /\ m.width = ExactOf(p.constraints.width) /\ m.value = ExactOf(p.constraints.value)
        /\ m.encoding = p.encoding
    BY <1>3 DEF Semantics
  <2> QED
    BY <2>1, <2>2
<1>5. g.kind \in MemoryAccess /\ g.kind \in DOMAIN Mapping
  BY <1>1 DEF TrueClass, Stated, Expressible
<1>6. /\ cs.resource = Resource(AccessClass(g, r), IF Stated(r) THEN r.id ELSE Nothing)
      /\ cs.address = NumericIf(g.address, AddressBits) /\ cs.width = NumericIf(g.width, g.width)
      /\ cs.value = NumericIf(IF g.kind \in ReadKinds THEN Nothing ELSE g.value,
                              IF Stated(g.width) THEN g.width ELSE AddressBits)
  BY <1>5, StaticConstraints
<1>7. \A n, width : ExactOf(NumericIf(n, width)) \in {Nothing, n}
  BY NumericShows
<1>8. m.class = "mmio" => m.kind = IF f.kind \in ReadKinds THEN "MMIO_READ" ELSE "MMIO_WRITE"
  <2>1. /\ g.kind \in {"MEMORY_LOAD", "MEMORY_STORE", "MMIO_READ", "MMIO_WRITE"}
        /\ m.kind = (IF g.kind \in {"MMIO_READ", "MMIO_WRITE"} \/ (Stated(r) /\ r.kind = "MMIO_REGISTER")
                     THEN IF g.kind \in ReadKinds THEN "MMIO_READ" ELSE "MMIO_WRITE"
                     ELSE IF g.kind \in ReadKinds THEN "MEMORY_READ" ELSE "MEMORY_WRITE")
    BY <1>4, <1>5, StaticKinds
  <2>2. m.class \in {Nothing, AccessClass(g, r)}
    BY <1>4, <1>6 DEF ClassIn, Resource
  <2>3. m.class = "mmio" => AccessClass(g, r) = "mmio"
    BY <2>2 DEF Stated
  <2> HIDE DEF m
  <2>4. AccessClass(g, r) = "mmio" => g.kind \in {"MMIO_READ", "MMIO_WRITE"} \/ (Stated(r) /\ r.kind = "MMIO_REGISTER")
    BY <2>1 DEF AccessClass
  <2> QED
    BY <1>1, <2>1, <2>3, <2>4
<1>9. /\ m.address \in {Nothing, g.address} /\ m.width \in {Nothing, g.width}
      /\ m.value \in {Nothing, IF g.kind \in ReadKinds THEN Nothing ELSE g.value}
  <2> HIDE DEF m, cs
  <2> QED
    BY <1>4, <1>6, <1>7
<1>10. m.value \in {Nothing, f.value}
  <2> HIDE DEF m, cs
  <2> QED
    BY <1>1, <1>9
<1>11. m.address \in {Nothing, f.address} /\ m.width \in {Nothing, f.width}
  <2> HIDE DEF m, cs
  <2> QED
    BY <1>1, <1>9
<1> QED
  BY <1>4, <1>8, <1>10, <1>11

\* A run's accounts contradict a static capability only if one of them is false, or the
\* class of the static one was a guess, or each has a value or an encoding where the
\* static one has none, or the other way round (capability_continuity.py:76-78).
THEOREM TrueAccountsDoAgree == Spec => []TrueAccountsAgree
<1>1. ResultsAreOfCapabilities => TrueAccountsAgree
  <2> SUFFICES ASSUME ResultsAreOfCapabilities, continuity # Nothing,
                      NEW s \in DOMAIN continuity.status, continuity.status[s] = "CONTRADICTED"
               PROVE  LET m == Semantics(capabilities[s])
                          others == {n \in {Semantics(r) : r \in {r \in continuity.accounts : Single(r)}} : Site(n) = Site(m)}
                      IN  \/ \E n \in others : ~TrueOf(n, s)
                          \/ m.class # TrueClass(world.truth[s])
                          \/ \A n \in others : Stated(n.value) # Stated(m.value) \/ Stated(n.encoding) # Stated(m.encoding)
    BY DEF TrueAccountsAgree
  <2> DEFINE c == capabilities[s]
             accounts == continuity.accounts
             m == Semantics(c)
             others == {n \in {Semantics(r) : r \in {r \in accounts : Single(r)}} : Site(n) = Site(m)}
             f == world.truth[s]
             sameSite == {r \in accounts : Single(r) /\ Site(Semantics(r)) = Site(m)}
             exact == {r \in sameSite : Semantics(r) = m}
  <2>1. /\ capabilities \notin {Nothing, Raised} /\ accounts \in world.accounts
        /\ continuity.status = [s1 \in DOMAIN capabilities |-> Continuity(capabilities[s1], accounts)]
    BY DEF ResultsAreOfCapabilities, ContinuityIsOfCapabilities
  <2>2. /\ world \in Worlds /\ world.lane = "static" /\ s \in Sites /\ s \in DOMAIN capabilities
        /\ Expressible(FactOf(s), world.architecture)
        /\ \E r : capabilities[s] = StaticCapability(s, FactOf(s), r, world)
    BY <2>1 DEF ResultsAreOfCapabilities, CapabilitiesAreOfFacts
  <2>3. PICK r0 : c = StaticCapability(s, FactOf(s), r0, world)
    BY <2>2
  <2>4. Continuity(c, accounts) = "CONTRADICTED"
    BY <2>1, <2>2
  <2>5. /\ ~(Cardinality(exact) = 1) /\ ~(Cardinality(exact) > 1)
        /\ sameSite # {} /\ \A r \in sameSite \cup {c} : Complete(Semantics(r))
    <3> HIDE DEF c, accounts
    <3> QED
      BY <2>4 DEF Continuity
  <2>6. IsFiniteSet(exact)
    <3>1. IsFiniteSet(accounts)
      BY <2>1, <2>2, AccountsAssumption
    <3>2. exact \subseteq accounts
      OBVIOUS
    <3> HIDE DEF exact, accounts
    <3> QED
      BY <3>1, <3>2, FS_Subset
  <2>7. exact = {}
    <3> HIDE DEF exact
    <3>1. Cardinality(exact) \in Nat
      BY <2>6, FS_CardinalityType
    <3>2. Cardinality(exact) = 0
      BY <2>5, <3>1
    <3> QED
      BY <2>6, <3>2, FS_EmptySet
  <2> SUFFICES ASSUME \A n1 \in others : TrueOf(n1, s), m.class = TrueClass(f),
                      NEW r \in accounts, Single(r), Site(Semantics(r)) = Site(m),
                      Stated(Semantics(r).value) = Stated(m.value),
                      Stated(Semantics(r).encoding) = Stated(m.encoding)
               PROVE  FALSE
    OBVIOUS
  <2> DEFINE n == Semantics(r)
  <2>8. r \in sameSite /\ n \in others /\ TrueOf(n, s)
    OBVIOUS
  <2>9. /\ Site(n) = Site(m) /\ n # m /\ n.kind \in MmioKinds /\ n.class = "mmio"
        /\ Complete(n) /\ Complete(m)
    <3>1. n # m
      BY <2>7, <2>8
    <3>2. n.kind \in MmioKinds /\ n.class = "mmio"
      BY <2>1, <2>2, AccountsAssumption
    <3> QED
      BY <2>5, <2>8, <3>1, <3>2
  <2>10. TrueClass(f) = "mmio" /\ Stated("mmio")
    BY <2>8, <2>9 DEF TrueOf, Complete
  <2>11. /\ m.kind = IF f.kind \in ReadKinds THEN "MMIO_READ" ELSE "MMIO_WRITE"
         /\ m.address \in {Nothing, f.address} /\ m.width \in {Nothing, f.width}
         /\ m.value \in {Nothing, f.value} /\ m.encoding = world.encoding[s]
    BY <2>2, <2>3, <2>10, StaticAccount
  <2>12. \A f1 \in {"kind", "class", "address", "width"} : n[f1] # Nothing /\ m[f1] # Nothing
    BY <2>9 DEF Complete, Stated
  <2>13. n.class = m.class /\ n.address = m.address /\ n.width = m.width
    BY <2>8, <2>11, <2>12 DEF TrueOf
  <2>14. n.value = m.value /\ n.encoding = m.encoding
    BY <2>8, <2>11 DEF TrueOf, Stated
  <2>15. n.kind = m.kind
    BY <2>8, <2>9, <2>11 DEF TrueOf, MmioKinds, AccessOf, ReadKinds
  <2>16. n.elf = m.elf /\ n.architecture = m.architecture /\ n.pc = m.pc
    BY <2>9 DEF Site
  <2>17. n = m
    BY <2>13, <2>14, <2>15, <2>16 DEF Semantics
  <2> QED
    BY <2>9, <2>17
<1> QED
  BY <1>1, ResultsStayOfCapabilities, PTL

-----------------------------------------------------------------------------
(* What is materialized of facts that fit.                                 *)

\* A number that fits its width makes a domain that is accepted (NumericDomain).
LEMMA NumberIsValid ==
  ASSUME NEW width \in 1 .. MaxBits, NEW n, Stated(n), Below(n, width)
  PROVE  LET x == NumericIf(n, width)
         IN  Stated(x) /\ ValidDomain(x.domain) /\ ExactOf(x) = n /\ x.domain.low = n /\ x.domain.high = n
<1>1. NumericIf(n, width) = [status |-> "formalized", domain |-> Exactly(n, width)]
  BY DEF NumericIf, Numeric
<1>2. 2 ^ width \in Int /\ n \in Nat /\ n < 2 ^ width /\ width \in Nat
  BY MaxBitsAssumption DEF Below
<1>3. Stated(NumericIf(n, width))
  <2>1. NumericIf(n, width) \in [status : {"formalized", "partially_formalized"},
                                 domain : [low : Nat, high : Nat, masked : {FALSE}, controlled : {"none"}, width : Nat]]
    <3>1. Exactly(n, width) \in [low : Nat, high : Nat, masked : {FALSE}, controlled : {"none"}, width : Nat]
      BY <1>2 DEF Exactly
    <3> DEFINE D == [low : Nat, high : Nat, masked : {FALSE}, controlled : {"none"}, width : Nat]
               d == Exactly(n, width)
    <3>2. d \in D /\ NumericIf(n, width) = [status |-> "formalized", domain |-> d]
      BY <1>1, <3>1
    <3> HIDE DEF D, d
    <3>3. [status |-> "formalized", domain |-> d] \in [status : {"formalized", "partially_formalized"}, domain : D]
      BY <3>2
    <3>4. NumericIf(n, width) \in [status : {"formalized", "partially_formalized"}, domain : D]
      BY <3>2, <3>3
    <3> QED
      BY <3>4 DEF D
  <2> QED
    BY <2>1, ResultsAssumption DEF Stated
<1>4. ValidDomain(Exactly(n, width))
  BY <1>2 DEF ValidDomain, Exactly, Stated
<1>5. ExactOf(NumericIf(n, width)) = n
  BY <1>1, <1>3 DEF ExactOf, ExactValue, Exactly
<1> QED
  BY <1>1, <1>3, <1>4, <1>5 DEF Exactly

\* The numbers of a fact that fits (FactsAssumption).
LEMMA FactNumbers ==
  ASSUME world \in Worlds, world.lane = "static", NEW s \in Sites, Fits(FactOf(s))
  PROVE  LET f == FactOf(s)
         IN  /\ Stated(f.address) => Below(f.address, AddressBits)
             /\ Stated(f.width) => f.width \in 1 .. MaxBits /\ Below(f.width, f.width)
             /\ Stated(f.value) => Below(f.value, IF Stated(f.width) THEN f.width ELSE AddressBits)
<1>1. \A n \in 1 .. MaxBits : n \in 0 .. 2 ^ n - 1
  <2> SUFFICES ASSUME NEW n \in 1 .. MaxBits PROVE n \in 0 .. 2 ^ n - 1
    OBVIOUS
  <2>1. n \in Nat /\ 2 ^ n \in Int /\ n < 2 ^ n
    BY BitsAssumption, MaxBitsAssumption
  <2> QED
    BY <2>1
<1> QED
  BY <1>1 DEF Fits, Below

\* A resource of a catalog has one of the names (CrossLayer, Names).
LEMMA ResourceNames ==
  ASSUME NEW w, NEW catalog \in w.catalogs, NEW r \in catalog.resources
  PROVE  r.id \in Names(w)
<1> DEFINE ids == UNION {{q.id : q \in c.resources} : c \in w.catalogs}
           registers == {w.truth[x].register : x \in DOMAIN w.truth}
<1>1. r.id \in {q.id : q \in catalog.resources}
  OBVIOUS
<1>2. r.id \in ids
  BY <1>1
<1>3. Names(w) = registers \cup {Nothing} \cup ids
  BY DEF Names
<1> HIDE DEF ids, registers
<1> QED
  BY <1>2, <1>3

\* What is not said of a memory access.
LEMMA MemoryLeaves ==
  ASSUME NEW f, NEW r, f.kind \in MemoryAccess,
         NEW x \in ConstraintKinds \ {"resource", "address", "width", "value"}
  PROVE  ConstraintsOf(f, r)[x] = Nothing
<1>1. f.kind \notin SystemAccess \cup FlowFacts \cup {"EXCEPTION_RETURN"}
  BY DEF MemoryAccess, SystemAccess, FlowFacts
<1>2. ConstraintsOf(f, r) =
        [NoConstraints EXCEPT
          !.resource = Resource(AccessClass(f, r), IF Stated(r) THEN r.id ELSE Nothing),
          !.address = NumericIf(f.address, AddressBits),
          !.width = NumericIf(f.width, f.width),
          !.value = NumericIf(IF f.kind \in ReadKinds THEN Nothing ELSE f.value,
                              IF Stated(f.width) THEN f.width ELSE AddressBits)]
  BY <1>1 DEF ConstraintsOf
<1> QED
  BY <1>2 DEF NoConstraints

\* The constraints of a memory access that fits, and what else is asked of it.
LEMMA MemoryIsAccepted ==
  ASSUME world \in Worlds, world.lane = "static", NEW s \in Sites, Fits(FactOf(s)),
         NEW r, PlacedIn(FactOf(s), r), FactOf(s).kind \in DOMAIN Mapping, FactOf(s).kind \in MemoryAccess,
         NEW p, p.kind = KindOf(FactOf(s), r), p.constraints = ConstraintsOf(FactOf(s), r),
         p.status = (IF Partial(FactOf(s), r) THEN "partially_formalized" ELSE "formalized"),
         p.basis = "static_instruction"
  PROVE  ValidConstraints(p.constraints) /\ FitsWidth(p.constraints) /\ Constrained(p)
<1> DEFINE f == FactOf(s)
           cs == p.constraints
           bits == IF Stated(f.width) THEN f.width ELSE AddressBits
           stored == IF f.kind \in ReadKinds THEN Nothing ELSE f.value
           class == AccessClass(f, r)
           id == IF Stated(r) THEN r.id ELSE Nothing
<1>1. /\ cs.resource = Resource(class, id)
      /\ cs.address = NumericIf(f.address, AddressBits) /\ cs.width = NumericIf(f.width, f.width)
      /\ cs.value = NumericIf(stored, bits)
      /\ \A x \in ConstraintKinds \ {"resource", "address", "width", "value"} : cs[x] = Nothing
  <2>1. cs = ConstraintsOf(f, r) /\ f.kind \in MemoryAccess
    OBVIOUS
  <2> HIDE DEF f, cs
  <2>2. LET c == ConstraintsOf(f, r)
        IN  /\ c.resource = Resource(AccessClass(f, r), IF Stated(r) THEN r.id ELSE Nothing)
            /\ c.address = NumericIf(f.address, AddressBits)
            /\ c.width = NumericIf(f.width, f.width)
            /\ c.value = NumericIf(IF f.kind \in ReadKinds THEN Nothing ELSE f.value,
                                   IF Stated(f.width) THEN f.width ELSE AddressBits)
            /\ \A x \in ConstraintKinds \ {"resource", "address", "width", "value"} : c[x] = Nothing
    <3> DEFINE c == ConstraintsOf(f, r)
    <3>1. /\ c.resource = Resource(AccessClass(f, r), IF Stated(r) THEN r.id ELSE Nothing)
          /\ c.address = NumericIf(f.address, AddressBits)
          /\ c.width = NumericIf(f.width, f.width)
      BY <2>1, StaticConstraints
    <3>2. c.value = NumericIf(IF f.kind \in ReadKinds THEN Nothing ELSE f.value,
                              IF Stated(f.width) THEN f.width ELSE AddressBits)
      BY <2>1, StaticConstraints
    <3>3. \A x \in ConstraintKinds \ {"resource", "address", "width", "value"} : c[x] = Nothing
      BY <2>1, MemoryLeaves
    <3> QED
      BY <3>1, <3>2, <3>3
  <2> QED
    BY <2>1, <2>2
<1>2. /\ Stated(f.address) => Below(f.address, AddressBits)
      /\ Stated(f.width) => f.width \in 1 .. MaxBits /\ Below(f.width, f.width)
      /\ Stated(f.value) => Below(f.value, bits)
  BY FactNumbers
<1>3. AddressBits \in 1 .. MaxBits /\ bits \in 1 .. MaxBits
  BY <1>2, BitsAssumption
<1>4. cs.length = Nothing /\ cs.csr = Nothing /\ cs.target = Nothing /\ cs.privilege = Nothing /\ cs.context = Nothing
  BY <1>1 DEF ConstraintKinds, NumericKinds
<1>5. /\ f.kind \in {"MEMORY_LOAD", "MEMORY_STORE", "MMIO_READ", "MMIO_WRITE"}
      /\ p.kind = (IF f.kind \in {"MMIO_READ", "MMIO_WRITE"} \/ (Stated(r) /\ r.kind = "MMIO_REGISTER")
                   THEN IF f.kind \in ReadKinds THEN "MMIO_READ" ELSE "MMIO_WRITE"
                   ELSE IF f.kind \in ReadKinds THEN "MEMORY_READ" ELSE "MEMORY_WRITE")
  BY StaticKinds
<1>6. class = ClassOf(p.kind) /\ class \in {"memory", "mmio"}
  <2>1. f.kind \in MmioKinds /\ Stated(r) => r.kind # "MEMORY_REGION"
    <3> SUFFICES ASSUME f.kind \in MmioKinds, Stated(r) PROVE r.kind # "MEMORY_REGION"
      OBVIOUS
    <3>1. PICK catalog \in world.catalogs : r \in catalog.resources
      BY DEF PlacedIn, Stated
    <3>2. Stated(f.address) /\ Holds(r, f.address)
      BY DEF PlacedIn, Stated
    <3>3. f.address \in world.mmio
      BY <3>2, FactIsTrue, FactsAssumption DEF Sites, Stated
    <3> QED
      BY <3>1, <3>2, <3>3, CatalogsAssumption
  <2>2. class = IF Stated(r) /\ r.kind = "MMIO_REGISTER" THEN "mmio"
                ELSE IF Stated(r) /\ r.kind = "MEMORY_REGION" THEN "memory"
                ELSE IF f.kind \in {"MEMORY_LOAD", "MEMORY_STORE"} THEN "memory" ELSE "mmio"
    BY DEF AccessClass
  <2>3. Stated(r) => r.kind \in {"MMIO_REGISTER", "MEMORY_REGION"}
    BY DEF PlacedIn, Stated, AddressedKinds
  <2>4. ClassOf("MMIO_READ") = "mmio" /\ ClassOf("MMIO_WRITE") = "mmio"
        /\ ClassOf("MEMORY_READ") = "memory" /\ ClassOf("MEMORY_WRITE") = "memory"
    <3>1. "MMIO_READ" \notin MemoryKinds /\ "MMIO_WRITE" \notin MemoryKinds
          /\ "MMIO_READ" \in MmioKinds /\ "MMIO_WRITE" \in MmioKinds
          /\ "MEMORY_READ" \in MemoryKinds /\ "MEMORY_WRITE" \in MemoryKinds
      BY DEF MemoryKinds, MmioKinds
    <3>2. "MEMORY_READ" \notin MmioKinds \cup CsrKinds \cup FlowKinds
          /\ "MEMORY_WRITE" \notin MmioKinds \cup CsrKinds \cup FlowKinds
          /\ "MMIO_READ" \notin CsrKinds \cup FlowKinds /\ "MMIO_WRITE" \notin CsrKinds \cup FlowKinds
      BY DEF MmioKinds, CsrKinds, FlowKinds
    <3> QED
      BY <3>1, <3>2 DEF ClassOf
  <2> HIDE DEF class, f
  <2> QED
    BY <1>5, <2>1, <2>2, <2>3, <2>4 DEF MmioKinds
<1>7. Stated(cs.resource) /\ (cs.resource.status = "formalized" => Stated(cs.resource.identity))
      /\ cs.resource.class = class
  <2>1. id \in Names(world)
    <3>1. CASE ~Stated(r)
      <4>1. id = Nothing
        BY <3>1
      <4> QED
        BY <4>1 DEF Names
    <3>2. CASE Stated(r)
      <4>1. PICK catalog \in world.catalogs : r \in catalog.resources
        BY <3>2 DEF PlacedIn, Stated
      <4>2. id = r.id
        BY <3>2
      <4> HIDE DEF id
      <4> QED
        BY <4>1, <4>2, ResourceNames
    <3> QED
      BY <3>1, <3>2
  <2>2. cs.resource = [status |-> IF Stated(id) THEN "formalized" ELSE "partially_formalized",
                       class |-> class, identity |-> id]
    BY <1>1 DEF Resource
  <2> HIDE DEF class, id, cs
  <2>3. cs.resource \in [status : {"formalized", "partially_formalized"},
                       class : {"memory", "mmio", "csr", "control_flow"}, identity : Names(world)]
    BY <1>6, <2>1, <2>2
  <2> QED
    BY <2>2, <2>3, ResultsAssumption DEF Stated
<1> HIDE DEF f, class, id, bits, cs
<1>8. Stated(cs.address) => Stated(f.address) /\ ValidDomain(cs.address.domain)
  BY <1>1, <1>2, <1>3, NumberIsValid DEF NumericIf, Stated
<1>9. Stated(cs.width) => Stated(f.width) /\ ValidDomain(cs.width.domain) /\ ExactOf(cs.width) = f.width
  BY <1>1, <1>2, NumberIsValid DEF NumericIf, Stated
<1>10. Stated(cs.value) => Stated(stored) /\ ValidDomain(cs.value.domain) /\ cs.value.domain.high = f.value
                           /\ Below(f.value, bits)
  BY <1>1, <1>2, <1>3, NumberIsValid DEF NumericIf, Stated
<1>11. ValidConstraints(cs)
  <2>1. \A x \in NumericKinds : Stated(cs[x]) => ValidDomain(cs[x].domain)
    BY <1>4, <1>8, <1>9, <1>10 DEF NumericKinds, Stated
  <2>2. Stated(cs.width) => Stated(ExactOf(cs.width)) /\ ExactOf(cs.width) > 0
    BY <1>2, <1>9, MaxBitsAssumption
  <2>3. \A x \in {"csr", "privilege", "context"} : ~Stated(cs[x])
    BY <1>4 DEF Stated
  <2> QED
    BY <1>7, <2>1, <2>2, <2>3 DEF ValidConstraints
<1>12. FitsWidth(cs)
  <2> SUFFICES ASSUME Stated(ExactOf(cs.width)), Stated(cs.value)
               PROVE  cs.value.domain.high < 2 ^ ExactOf(cs.width)
    BY DEF FitsWidth
  <2>1. Stated(cs.width)
    BY DEF ExactOf, Stated
  <2>2. ExactOf(cs.width) = f.width /\ bits = f.width
    BY <1>9, <2>1 DEF bits
  <2>3. bits \in Nat /\ 2 ^ bits \in Int
    BY <1>3, MaxBitsAssumption
  <2> QED
    BY <1>10, <2>2, <2>3 DEF Below
<1>13. Constrained(p)
  <2>1. p.kind \in {"MMIO_READ", "MMIO_WRITE", "MEMORY_READ", "MEMORY_WRITE"}
    BY <1>5
  <2>2. /\ p.kind \notin CsrKinds /\ p.kind \notin FlowKinds /\ p.kind \in MemoryKinds \cup MmioKinds
        /\ p.kind # "WRITE_BOUNDED" /\ p.kind # "DIRECT_CONTROL_TRANSFER"
    BY <2>1 DEF CsrKinds, FlowKinds, MemoryKinds, MmioKinds
  <2>3. p.status = "formalized" => Stated(cs.address) /\ Stated(cs.width)
    <3> SUFFICES ASSUME ~Partial(f, r) PROVE Stated(cs.address) /\ Stated(cs.width)
      BY DEF f
    <3>1. Stated(f.address) /\ Stated(f.width)
      BY DEF Partial, f
    <3> QED
      BY <1>1, <1>2, <1>3, <3>1, NumberIsValid
  <2>4. cs = p.constraints
    BY DEF cs
  <2> QED
    BY <1>4, <1>6, <1>7, <2>2, <2>3, <2>4 DEF Constrained, Stated
<1> QED
  BY <1>11, <1>12, <1>13 DEF cs

\* Without numbers, a privilege or a context, only identities are asked for.
LEMMA WithoutNumbers ==
  ASSUME NEW cs, \A x \in NumericKinds \cup {"privilege", "context"} : cs[x] = Nothing,
         Stated(cs.resource) /\ cs.resource.status = "formalized" => Stated(cs.resource.identity),
         Stated(cs.csr) => Stated(cs.csr.identity)
  PROVE  ValidConstraints(cs) /\ FitsWidth(cs)
<1>1. cs.width = Nothing /\ cs.value = Nothing /\ cs.privilege = Nothing /\ cs.context = Nothing
  BY DEF NumericKinds
<1>2. FitsWidth(cs)
  BY <1>1 DEF FitsWidth, Stated
<1>3. \A x \in {"csr", "privilege", "context"} : Stated(cs[x]) => Stated(cs[x].identity)
  <2> SUFFICES ASSUME NEW x \in {"csr", "privilege", "context"}, Stated(cs[x]) PROVE Stated(cs[x].identity)
    OBVIOUS
  <2>1. x = "csr"
    BY <1>1 DEF Stated
  <2> QED
    BY <2>1
<1> QED
  BY <1>1, <1>2, <1>3 DEF ValidConstraints, Stated

\* The constraints of the access to a system register.
LEMMA SystemIsAccepted ==
  ASSUME world \in Worlds, world.lane = "static", NEW s \in Sites,
         FactOf(s).kind \in DOMAIN Mapping, FactOf(s).kind \in SystemAccess,
         NEW r, NEW p, p.kind = KindOf(FactOf(s), r), p.constraints = ConstraintsOf(FactOf(s), r),
         p.basis = "static_instruction"
  PROVE  ValidConstraints(p.constraints) /\ FitsWidth(p.constraints) /\ Constrained(p)
<1> DEFINE f == FactOf(s)
           cs == p.constraints
<1>1. Stated(f.register) /\ f.register \in Names(world)
  <2>1. f.register = world.truth[s].register /\ f.kind = world.truth[s].kind
    BY FactIsTrue
  <2>2. f.register \in {world.truth[x].register : x \in DOMAIN world.truth}
    BY <2>1 DEF Sites
  <2> HIDE DEF f
  <2>3. f.register \in Names(world)
    BY <2>2 DEF Names
  <2> QED
    BY <2>1, <2>3, FactsAssumption DEF Sites, f
<1>2. /\ cs.resource = [status |-> "formalized", class |-> "csr", identity |-> f.register]
      /\ cs.csr = [status |-> "formalized", identity |-> f.register]
      /\ \A x \in ConstraintKinds \ {"resource", "csr"} : cs[x] = Nothing
  <2>1. ConstraintsOf(f, r) = [NoConstraints EXCEPT
            !.resource = [status |-> "formalized", class |-> "csr", identity |-> f.register],
            !.csr = [status |-> "formalized", identity |-> f.register]]
    <3>1. f.kind \notin MemoryAccess \cup FlowFacts \cup {"EXCEPTION_RETURN"}
      BY DEF SystemAccess, MemoryAccess, FlowFacts
    <3> QED
      BY <3>1 DEF ConstraintsOf
  <2>2. {"resource", "csr"} \subseteq ConstraintKinds /\ cs = ConstraintsOf(f, r)
    BY DEF ConstraintKinds
  <2> HIDE DEF f, cs
  <2> QED
    BY <2>1, <2>2 DEF NoConstraints
<1>3. p.kind \in CsrKinds /\ p.kind \notin FlowKinds \cup MemoryKinds \cup MmioKinds
  <2>1. p.kind \in {"CSR_READ", "CSR_WRITE"}
    BY StaticKinds
  <2> QED
    BY <2>1 DEF CsrKinds, FlowKinds, MemoryKinds, MmioKinds
<1> HIDE DEF f, cs
<1>4. Stated(cs.resource) /\ Stated(cs.csr)
  <2>1. cs.resource \in [status : {"formalized", "partially_formalized"},
                       class : {"memory", "mmio", "csr", "control_flow"}, identity : Names(world)]
    BY <1>1, <1>2
  <2>2. cs.csr \in [status : {"formalized", "partially_formalized"}, identity : Names(world)]
    BY <1>1, <1>2
  <2> QED
    BY <2>1, <2>2, ResultsAssumption DEF Stated
<1>5. /\ cs.address = Nothing /\ cs.length = Nothing /\ cs.target = Nothing
      /\ \A x \in NumericKinds \cup {"privilege", "context"} : cs[x] = Nothing
  BY <1>2 DEF ConstraintKinds, NumericKinds
<1>6. ValidConstraints(cs) /\ FitsWidth(cs)
  BY <1>1, <1>2, <1>5, WithoutNumbers
<1>7. Constrained(p)
  <2>1. ClassOf(p.kind) = "csr"
    BY <1>3 DEF ClassOf
  <2>2. p.kind # "WRITE_BOUNDED" /\ p.kind # "DIRECT_CONTROL_TRANSFER"
    BY <1>3 DEF CsrKinds
  <2>3. cs = p.constraints /\ cs.resource.class = "csr"
    BY <1>2 DEF cs
  <2> QED
    BY <1>3, <1>4, <1>5, <2>1, <2>2, <2>3 DEF Constrained, Stated
<1> QED
  BY <1>6, <1>7 DEF cs

\* The constraints of a transfer of control.
LEMMA FlowIsAccepted ==
  ASSUME world \in Worlds, world.lane = "static", NEW s \in Sites,
         FactOf(s).kind \in DOMAIN Mapping, FactOf(s).kind \in FlowFacts \cup {"EXCEPTION_RETURN"},
         NEW r, NEW p, p.kind = KindOf(FactOf(s), r), p.constraints = ConstraintsOf(FactOf(s), r),
         p.basis = "static_instruction"
  PROVE  ValidConstraints(p.constraints) /\ FitsWidth(p.constraints) /\ Constrained(p)
<1> DEFINE f == FactOf(s)
           cs == p.constraints
<1>1. f.target \in CodeTargets(world)
  <2>1. f.target = world.truth[s].target
    BY FactIsTrue
  <2> QED
    BY <2>1 DEF CodeTargets, Sites
<1>2. /\ cs.resource = Resource("control_flow", f.target)
      /\ cs.target = IF KindOf(f, r) = "DIRECT_CONTROL_TRANSFER"
                     THEN [status |-> "formalized", targets |-> {f.target}] ELSE Nothing
      /\ \A x \in ConstraintKinds \ {"resource", "target"} : cs[x] = Nothing
  <2>1. ConstraintsOf(f, r) = [NoConstraints EXCEPT
            !.resource = Resource("control_flow", f.target),
            !.target = IF KindOf(f, r) = "DIRECT_CONTROL_TRANSFER"
                       THEN [status |-> "formalized", targets |-> {f.target}] ELSE Nothing]
    <3>1. f.kind \notin MemoryAccess \cup SystemAccess
      BY DEF SystemAccess, MemoryAccess, FlowFacts
    <3> QED
      BY <3>1 DEF ConstraintsOf
  <2>2. {"resource", "target"} \subseteq ConstraintKinds /\ cs = ConstraintsOf(f, r)
    BY DEF ConstraintKinds
  <2> HIDE DEF f, cs
  <2> QED
    BY <2>1, <2>2 DEF NoConstraints
<1>3. /\ p.kind \in {"DIRECT_CONTROL_TRANSFER", "INDIRECT_CONTROL_TRANSFER", "EXCEPTION_RETURN"}
      /\ p.kind = KindOf(f, r)
  <2>1. f.kind \notin MemoryAccess \cup SystemAccess
    BY DEF SystemAccess, MemoryAccess, FlowFacts
  <2>2. f.kind \in FlowFacts => p.kind \in {"DIRECT_CONTROL_TRANSFER", "INDIRECT_CONTROL_TRANSFER"}
    BY StaticKinds
  <2>3. f.kind \notin FlowFacts => f.kind = "EXCEPTION_RETURN" /\ p.kind = "EXCEPTION_RETURN"
    BY <2>1, StaticKinds
  <2> QED
    BY <2>2, <2>3
<1>4. p.kind \in FlowKinds /\ p.kind \notin CsrKinds \cup MemoryKinds \cup MmioKinds
  BY <1>3 DEF CsrKinds, FlowKinds, MemoryKinds, MmioKinds
<1> HIDE DEF f, cs
<1>5. /\ Stated(cs.resource) /\ cs.resource.class = "control_flow"
      /\ cs.resource.status = "formalized" => Stated(cs.resource.identity)
  <2>1. cs.resource = [status |-> IF Stated(f.target) THEN "formalized" ELSE "partially_formalized",
                       class |-> "control_flow", identity |-> f.target]
    BY <1>2 DEF Resource
  <2>2. cs.resource \in [status : {"formalized", "partially_formalized"},
                       class : {"memory", "mmio", "csr", "control_flow"}, identity : CodeTargets(world)]
    BY <1>1, <2>1
  <2> QED
    BY <2>1, <2>2, ResultsAssumption DEF Stated
<1>6. Stated(cs.target) <=> p.kind = "DIRECT_CONTROL_TRANSFER"
  <2>1. [status |-> "formalized", targets |-> {f.target}]
          \in [status : {"formalized", "partially_formalized"}, targets : SUBSET CodeTargets(world)]
    BY <1>1
  <2>2. [status |-> "formalized", targets |-> {f.target}] # Nothing
    BY <2>1, ResultsAssumption
  <2> QED
    BY <1>2, <1>3, <2>2 DEF Stated
<1>7. /\ cs.address = Nothing /\ cs.length = Nothing /\ cs.csr = Nothing
      /\ \A x \in NumericKinds \cup {"privilege", "context"} : cs[x] = Nothing
  BY <1>2 DEF ConstraintKinds, NumericKinds
<1>8. ValidConstraints(cs) /\ FitsWidth(cs)
  BY <1>5, <1>7, WithoutNumbers DEF Stated
<1>9. Constrained(p)
  <2>1. ClassOf(p.kind) = "control_flow"
    BY <1>4 DEF ClassOf
  <2>2. p.kind # "WRITE_BOUNDED"
    BY <1>3
  <2>3. cs = p.constraints
    BY DEF cs
  <2> QED
    BY <1>4, <1>5, <1>6, <1>7, <2>1, <2>2, <2>3 DEF Constrained, Stated
<1> QED
  BY <1>8, <1>9 DEF cs

\* An instruction is not constrained.
LEMMA InstructionIsAccepted ==
  ASSUME NEW f, f.kind \in DOMAIN Mapping,
         f.kind \notin MemoryAccess \cup SystemAccess \cup FlowFacts \cup {"EXCEPTION_RETURN"},
         NEW r, NEW p, p.kind = KindOf(f, r), p.constraints = ConstraintsOf(f, r),
         p.basis = "static_instruction"
  PROVE  /\ p.kind = "INSTRUCTION_EXECUTION"
         /\ ValidConstraints(p.constraints) /\ FitsWidth(p.constraints) /\ Constrained(p)
<1> DEFINE cs == p.constraints
<1>1. \A x \in ConstraintKinds : cs[x] = Nothing
  <2>1. cs = NoConstraints
    BY DEF ConstraintsOf
  <2> QED
    BY <2>1 DEF NoConstraints
<1>2. p.kind = "INSTRUCTION_EXECUTION"
  <2>1. f.kind \in {"INSTRUCTION", "EXCEPTION_RETURN"}
    BY StaticKinds
  <2>2. f.kind = "INSTRUCTION"
    BY <2>1
  <2> QED
    BY <2>2, StaticKinds
<1> HIDE DEF cs
<1>3. /\ \A x \in NumericKinds \cup {"privilege", "context"} : cs[x] = Nothing
      /\ cs.resource = Nothing /\ cs.csr = Nothing /\ cs.target = Nothing /\ cs.address = Nothing /\ cs.length = Nothing
  BY <1>1 DEF ConstraintKinds, NumericKinds
<1>4. ValidConstraints(cs) /\ FitsWidth(cs)
  BY <1>3, WithoutNumbers DEF Stated
<1>5. Constrained(p)
  <2>1. p.kind \notin CsrKinds \cup FlowKinds \cup MemoryKinds \cup MmioKinds
    BY <1>2 DEF CsrKinds, FlowKinds, MemoryKinds, MmioKinds
  <2>2. ~Stated(ClassOf(p.kind))
    BY <2>1 DEF ClassOf, Stated
  <2>3. cs = p.constraints /\ p.kind # "WRITE_BOUNDED" /\ p.kind # "DIRECT_CONTROL_TRANSFER"
    BY <1>2 DEF cs
  <2> QED
    BY <1>3, <2>1, <2>2, <2>3 DEF Constrained, Stated
<1> QED
  BY <1>2, <1>4, <1>5 DEF cs

\* CAP0 accepts the capability of a fact that fits.
LEMMA StaticIsAccepted ==
  ASSUME world \in Worlds, world.lane = "static", NEW s \in Sites, Fits(FactOf(s)),
         NEW r, PlacedIn(FactOf(s), r), Expressible(FactOf(s), world.architecture)
  PROVE  ValidCapability(StaticCapability(s, FactOf(s), r, world))
<1> DEFINE f == FactOf(s)
           c == StaticCapability(s, f, r, world)
           p == StaticPrimitive(s, f, r)
<1>1. /\ c.primitives = {p} /\ c.orders = {} /\ c.conditions = {PathCondition}
      /\ c.origin = "synthetic_fixture" /\ c.execution = "static_only" /\ c.retired = FALSE /\ c.site = s
  BY DEF StaticCapability, StaticPrimitive
<1>2. /\ p.kind = KindOf(f, r) /\ p.constraints = ConstraintsOf(f, r) /\ p.basis = "static_instruction"
      /\ p.status = (IF Partial(f, r) THEN "partially_formalized" ELSE "formalized")
      /\ p.control = NoControl /\ p.conditions = {"path"} /\ p.pc = s
  BY DEF StaticPrimitive
<1>3. f.kind \in DOMAIN Mapping
  BY DEF Expressible
<1> HIDE DEF p, c
<1>4. ValidConstraints(p.constraints) /\ FitsWidth(p.constraints) /\ Constrained(p)
  <2>1. CASE f.kind \in MemoryAccess
    BY <1>2, <1>3, <2>1, MemoryIsAccepted
  <2>2. CASE f.kind \in SystemAccess
    BY <1>2, <1>3, <2>2, SystemIsAccepted
  <2>3. CASE f.kind \in FlowFacts \cup {"EXCEPTION_RETURN"}
    BY <1>2, <1>3, <2>3, FlowIsAccepted
  <2>4. CASE f.kind \notin MemoryAccess \cup SystemAccess \cup FlowFacts \cup {"EXCEPTION_RETURN"}
    BY <1>2, <1>3, <2>4, InstructionIsAccepted
  <2> QED
    BY <2>1, <2>2, <2>3, <2>4
<1>5. p.kind \notin VulnerabilityKinds \cup ControlKinds
  <2>1. p.kind \in {"MMIO_READ", "MMIO_WRITE", "MEMORY_READ", "MEMORY_WRITE", "CSR_READ", "CSR_WRITE",
                    "DIRECT_CONTROL_TRANSFER", "INDIRECT_CONTROL_TRANSFER", "INSTRUCTION_EXECUTION",
                    "EXCEPTION_RETURN"}
    <3> HIDE DEF f
    <3> QED
      BY <1>2, <1>3, StaticKinds
  <2> QED
    BY <2>1 DEF VulnerabilityKinds, ControlKinds
<1>6. ValidControl(p, TRUE)
  BY <1>2 DEF ValidControl, NoControl
<1>7. ValidPrimitive(c, p)
  <2>1. p.conditions \subseteq {x.id : x \in c.conditions}
    BY <1>1, <1>2 DEF PathCondition
  <2>2. c.origin \in {"synthetic_fixture", "manual_research_input"}
    BY <1>1
  <2> QED
    BY <1>4, <1>5, <1>6, <2>1, <2>2 DEF ValidPrimitive
<1>8. ValidFrame(c)
  BY <1>1, <1>2 DEF ValidFrame
<1>9. \A x \in c.conditions : ValidCondition(x)
  BY <1>1 DEF ValidCondition, PathCondition
<1>10. ValidCapability(c)
  BY <1>1, <1>7, <1>8, <1>9 DEF ValidCapability
<1> QED
  BY <1>10 DEF c

\* Of a static world only fields that can be learned are known, and only of such a
\* world is anything materialized.
MaterializedOfFacts ==
  /\ world \in Worlds
  /\ world.lane = "static" => known \subseteq world.learnable
  /\ world.lane # "static" => capabilities = Nothing

\* What CAP0 refuses of the capabilities made of facts has a number that does not fit
\* its width (static_capability.py, materialize_synthetic_static_capabilities).
THEOREM MaterializedFits == Spec => []MaterializedIsValid
<1> DEFINE I == MaterializedOfFacts /\ MaterializedIsValid
<1>1. Init => I
  <2> SUFFICES ASSUME Init PROVE I
    OBVIOUS
  <2>1. capabilities # Raised
    BY ResultsAssumption DEF Init
  <2> QED
    BY <2>1 DEF Init, MaterializedOfFacts, MaterializedIsValid
<1>2. I /\ [Next]_vars => I'
  <2> SUFFICES ASSUME I, [Next]_vars PROVE I'
    OBVIOUS
  <2>1. CASE Project
    <3>1. world' = world /\ known' = known /\ world.lane = "static"
      BY <2>1 DEF Project
    <3>2. PICK catalog \in world.catalogs \cup {Nothing}, manual \in world.manuals :
            LET made == Made(world, known, catalog, manual)
            IN  capabilities' = IF \A s \in DOMAIN made : ValidCapability(made[s]) THEN made ELSE Raised
      BY <2>1 DEF Project
    <3> DEFINE made == Made(world, known, catalog, manual)
               res(s) == BoundResource(FactOf(s), catalog, Said(manual, s))
    <3>3. made = [s \in {s \in Sites : Expressible(FactOf(s), world.architecture)} |->
                    StaticCapability(s, FactOf(s), res(s), world)]
      BY DEF Made, FactOf, Sites
    <3>4. made # Raised
      BY <3>1, ResultsAssumption DEF MaterializedOfFacts
    <3>5. \A s : PlacedIn(FactOf(s), res(s))
      BY <3>1, BoundIsPlaced DEF MaterializedOfFacts
    <3> HIDE DEF made, res
    <3>6. ASSUME capabilities' = Raised PROVE \E s \in Sites : ~Fits(FactOf(s))
      <4>1. PICK s \in DOMAIN made : ~ValidCapability(made[s])
        BY <3>2, <3>4, <3>6 DEF made
      <4>2. s \in Sites /\ Expressible(FactOf(s), world.architecture)
            /\ made[s] = StaticCapability(s, FactOf(s), res(s), world)
        BY <3>3, <4>1
      <4> QED
        BY <3>1, <3>5, <4>1, <4>2, StaticIsAccepted DEF MaterializedOfFacts
    <3>7. \A s : (FactOf(s))' = FactOf(s) /\ Sites' = Sites
      BY <3>1 DEF FactOf, Sites
    <3>8. \A f : (Fits(f))' = Fits(f)
      BY DEF Fits
    <3> QED
      BY <3>1, <3>6, <3>7 DEF MaterializedOfFacts, MaterializedIsValid
  <2>2. CASE Learn \/ Establish
    <3>1. world' = world /\ world.lane # "static" /\ capabilities' = capabilities
      BY <2>2 DEF Learn, Establish
    <3>2. capabilities = Nothing /\ Nothing # Raised
      BY <3>1, ResultsAssumption DEF MaterializedOfFacts
    <3> QED
      BY <3>1, <3>2 DEF MaterializedOfFacts, MaterializedIsValid
  <2>3. CASE MatchContract \/ CompareContract \/ BindRuntime \/ MatchTrigger \/ UNCHANGED vars
    <3>1. world' = world /\ known' = known /\ capabilities' = capabilities
      BY <2>3 DEF MatchContract, CompareContract, BindRuntime, MatchTrigger, vars
    <3>2. \A s : (FactOf(s))' = FactOf(s) /\ Sites' = Sites
      BY <3>1 DEF FactOf, Sites
    <3> QED
      BY <3>1, <3>2 DEF MaterializedOfFacts, MaterializedIsValid
  <2> QED
    BY <2>1, <2>2, <2>3 DEF Next
<1> QED
  BY <1>1, <1>2, PTL DEF Spec
=============================================================================
