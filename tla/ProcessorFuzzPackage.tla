------------------------ MODULE ProcessorFuzzPackage ------------------------
(***************************************************************************)
(* What `chipchain processorfuzz analyze` derives from one delivery        *)
(* (workflow/processorfuzz.py, runtime/processorfuzz.py): the members it   *)
(* selects, how the two traces are aligned, how the two signatures are     *)
(* compared, and the content of every file it writes.  A digest stands for *)
(* what it is the digest of.  Ghidra is pinned, so the static analysis of  *)
(* an ELF is a function of the ELF.                                        *)
(***************************************************************************)
EXTENDS Naturals, Sequences, FiniteSets

CONSTANTS
  None,        \* an absent file or member, Python's None
  FactsOf,     \* ELF -> its supported static facts of the candidate kinds
  CodeOf,      \* ELF -> the instructions Ghidra exports for it
  BytesAt      \* ELF -> trace key -> does the ELF hold those bytes at that PC

Elfs == DOMAIN FactsOf

(* A delivery: the distinct contents among its SI and ELF members, its     *)
(* traces as sequences of <<PC, encoding>> keys, its two signatures, and   *)
(* the identity of the archive itself.  One with two different traces or   *)
(* signatures of a kind is refused before anything else and left out.      *)
Traces == {"rtl_trace", "isa_csv", "isa_log"}

Choices(members, member) ==
  IF member # None THEN members \cap {member}
  ELSE IF Cardinality(members) = 1 THEN members ELSE {}

HasTrace(p) == \E t \in Traces : p[t] # None

(* What an analysis was asked for: the delivery, the members named on the  *)
(* command line and the declared role.                                     *)
Accepted(task) ==
  /\ Choices(task.package.si, task.si) # {}
  /\ Choices(task.package.elf, task.elf) # {}
  /\ HasTrace(task.package) => \A t \in Traces : task.package[t] # None

SelectedSi(task)  == CHOOSE s \in Choices(task.package.si, task.si) : TRUE
SelectedElf(task) == CHOOSE e \in Choices(task.package.elf, task.elf) : TRUE
-----------------------------------------------------------------------------
(* runtime/processorfuzz.py align_traces.  The sources of the two traces   *)
(* are equal here: analyze_package makes both from source_common.          *)
Occurrences(s, k) == {i \in DOMAIN s : s[i] = k}
Keys(s)           == {s[i] : i \in DOMAIN s}
Once(s, k)        == Cardinality(Occurrences(s, k)) = 1
Place(s, k)       == CHOOSE i \in DOMAIN s : s[i] = k

UniquePairs(rtl, isa) == {k \in Keys(rtl) : Once(rtl, k) /\ Once(isa, k)}
MissingKeys(rtl, isa) == Keys(rtl) \ Keys(isa)
AmbiguousKeys(rtl, isa) ==
  Keys(rtl) \ (UniquePairs(rtl, isa) \cup MissingKeys(rtl, isa))
OrderConsistent(rtl, isa) ==
  \A j, k \in UniquePairs(rtl, isa) :
    Place(rtl, j) < Place(rtl, k) => Place(isa, j) < Place(isa, k)

(* A variant of Alignment in which the order of the pairs does not count. *)
Alignment_AnyOrder(rtl, isa) ==
  IF AmbiguousKeys(rtl, isa) # {} THEN "AMBIGUOUS"
  ELSE IF MissingKeys(rtl, isa) # {} \/ Keys(isa) \ Keys(rtl) # {}
       THEN "UNKNOWN"
  ELSE "BOUND"

Alignment(rtl, isa) ==
  IF AmbiguousKeys(rtl, isa) # {} THEN "AMBIGUOUS"
  ELSE IF MissingKeys(rtl, isa) # {} \/ Keys(isa) \ Keys(rtl) # {}
          \/ ~OrderConsistent(rtl, isa)
       THEN "UNKNOWN"
  ELSE "BOUND"

(* workflow/processorfuzz.py _elf_trace_coverage. *)
Coverage(elf, s) ==
  IF \E i \in DOMAIN s : BytesAt[elf][s[i]] = "differ" THEN "CONFLICT"
  ELSE IF \E i \in DOMAIN s : BytesAt[elf][s[i]] = "equal" THEN "PARTIAL_BYTE_MATCH"
  ELSE "UNKNOWN"

(* runtime/processorfuzz.py differential, of two signatures that carry the *)
(* same source or none; without a source the three bindings are UNKNOWN.   *)
Bindings  == {"testcase", "firmware", "execution_context"}
Unbound   == [b \in Bindings |-> "UNKNOWN"]

Differing(a, b) == {i \in DOMAIN a \cap DOMAIN b : a[i] # b[i]}

Differential(rtl, isa, sourced, bindings) ==
  LET held == IF sourced THEN bindings ELSE Unbound IN
  [rtl |-> rtl, isa |-> isa, different |-> Differing(rtl, isa),
   same_execution |-> held["execution_context"],
   status |-> IF Len(rtl) # Len(isa) THEN "CONFLICT"
              ELSE IF \E b \in Bindings : held[b] # "BOUND" THEN "UNKNOWN"
              ELSE IF Differing(rtl, isa) # {} THEN "SUPPORTED_DIFFERENTIAL"
              ELSE "NO_DIFFERENTIAL"]
-----------------------------------------------------------------------------
(* The files, in the order they are written.  The reports, the signature   *)
(* files of a delivery without traces and capability-continuity.json,      *)
(* which always says UNKNOWN, are left out: nothing in them is compared.   *)
Files == <<"manifest", "si", "analysis", "firmware-summary", "export",
           "rtl", "isa", "differential", "capabilities", "resources",
           "candidates", "summary">>
FileNames == {Files[i] : i \in DOMAIN Files}

(* The RuntimeSource both traces carry. *)
RuntimeSource(task) ==
  [si |-> SelectedSi(task), elf |-> SelectedElf(task),
   rtl_trace |-> task.package.rtl_trace, isa_csv |-> task.package.isa_csv]

Diff(task) ==
  Differential(task.package.rtl_signature, task.package.isa_signature,
               HasTrace(task.package), Unbound)

(* The fields manifest_id digests; the paths are left out. *)
Manifest(task) ==
  LET p == task.package e == SelectedElf(task) IN
  [si |-> SelectedSi(task), elf |-> e, role |-> task.role, archive |-> p.archive,
   rtl_trace |-> p.rtl_trace, isa_csv |-> p.isa_csv, isa_log |-> p.isa_log,
   rtl_signature |-> p.rtl_signature, isa_signature |-> p.isa_signature,
   rtl_to_elf |-> IF HasTrace(p) THEN Coverage(e, p.rtl_trace) ELSE "UNKNOWN",
   isa_to_elf |-> IF HasTrace(p) THEN Coverage(e, p.isa_csv) ELSE "UNKNOWN",
   same_execution |-> "UNKNOWN"]

(* _static_capabilities: the resource a kind of fact hints at. *)
ResourceHint ==
  [tlb_invalidate |-> "TLB", exception_return |-> "EXCEPTION_STATE",
   memory_barrier |-> "ARCHITECTURAL_STATE", instruction_barrier |-> "ARCHITECTURAL_STATE",
   atomic_load |-> "MEMORY", atomic_store |-> "MEMORY"]

Hints(elf) == [h \in {ResourceHint[f.kind] : f \in FactsOf[elf]} |->
                 Cardinality({f \in FactsOf[elf] : ResourceHint[f.kind] = h})]

(* A variant of Count that does not count an instruction executed again. *)
Count_Distinct(s) == IF s = None THEN None ELSE Cardinality(Keys(s))

Count(s) == IF s = None THEN None ELSE Len(s)

Content(task, name) ==
  LET p == task.package e == SelectedElf(task) IN
  CASE name = "manifest" -> Manifest(task)
    [] name = "si" -> SelectedSi(task)
    [] name \in {"analysis", "firmware-summary"} -> e
    [] name = "export" -> CodeOf[e]
    [] name = "rtl" ->
         IF ~HasTrace(p) THEN None
         ELSE [source |-> RuntimeSource(task), trace |-> p.rtl_trace,
               coverage |-> Coverage(e, p.rtl_trace),
               alignment |-> Alignment(p.rtl_trace, p.isa_csv)]
    [] name = "isa" ->
         IF ~HasTrace(p) THEN None
         ELSE [source |-> RuntimeSource(task), trace |-> p.isa_csv,
               coverage |-> Coverage(e, p.isa_csv), log |-> p.isa_log]
    [] name = "differential" -> Diff(task)
    [] name = "capabilities" -> [analysis |-> e, facts |-> FactsOf[e]]
    [] name = "resources"    -> Hints(e)
    [] name = "candidates"   -> [traced |-> HasTrace(p)]
    [] name = "summary" ->
         [firmware |-> e, manifest |-> Manifest(task), traced |-> HasTrace(p),
          rtl |-> Count(p.rtl_trace), isa |-> Count(p.isa_csv),
          differing |-> Cardinality(Diff(task).different),
          status |-> Diff(task).status]
=============================================================================
