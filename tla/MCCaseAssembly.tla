-------------------------- MODULE MCCaseAssembly --------------------------
(***************************************************************************)
(* A few deliveries and firmwares, and what runs at the same time.         *)
(***************************************************************************)
EXTENDS CaseAssembly

(* "test2" has the code of "test" and other data; "plain" has no candidate *)
(* fact; "other" shares one kind with "test".                              *)
Tlb     == [kind |-> "tlb_invalidate", pc |-> 4]
Barrier == [kind |-> "memory_barrier", pc |-> 8]
Again   == [kind |-> "memory_barrier", pc |-> 12]
Return  == [kind |-> "exception_return", pc |-> 16]

MCFactsOf ==
  [test |-> {Tlb, Barrier}, test2 |-> {Tlb, Barrier}, plain |-> {},
   fw |-> {Tlb, Barrier, Again}, other |-> {Again, Return}]
MCCodeOf ==
  [test |-> "code", test2 |-> "code", plain |-> "plain code",
   fw |-> "fw code", other |-> "other code"]

TraceKeys == {"a", "b", "c"}
MCBytesAt ==
  [e \in DOMAIN MCFactsOf |->
     [k \in TraceKeys |-> IF k = "c" THEN "unmapped"
                          ELSE IF e = "plain" THEN "differ"
                          ELSE "equal"]]

Base ==
  [si |-> {"si"}, elf |-> {"test", "test2"}, archive |-> "zip",
   rtl_trace |-> <<"a", "b">>, isa_csv |-> <<"a", "b">>, isa_log |-> "log",
   rtl_signature |-> <<1, 2>>, isa_signature |-> <<1, 3>>]
Untraced == [Base EXCEPT !.rtl_trace = None, !.isa_csv = None, !.isa_log = None]

Package(p) == [side |-> "hardware", package |-> p, si |-> None, elf |-> "test", role |-> "declared"]
Firmware(e) == [side |-> "firmware", elf |-> e]

(* Deliveries that differ from Base in one thing. *)
Others ==
  {Untraced, [Base EXCEPT !.rtl_signature = <<1, 3>>], [Base EXCEPT !.isa_signature = <<1, 2>>],
   [Base EXCEPT !.isa_signature = <<1>>], [Base EXCEPT !.isa_log = "log2"],
   [Base EXCEPT !.archive = None], [Base EXCEPT !.si = {"si2"}],
   [Base EXCEPT !.rtl_trace = <<"b", "a">>], [Base EXCEPT !.isa_csv = <<"a", "b", "a">>]}

Variants ==
  {Package(p) : p \in Others} \cup
  {[Package(Base) EXCEPT !.elf = "test2"], [Package(Base) EXCEPT !.role = "unclassified"]}

Refused ==
  {Package([Base EXCEPT !.si = {"si", "si2"}]), [Package(Base) EXCEPT !.elf = None],
   [Package(Base) EXCEPT !.elf = "other"], Package([Base EXCEPT !.isa_log = None])}

Quiet == [runtime |-> None, outputBusy |-> FALSE, started |-> {}, finished |-> {}, tasks |-> <<>>]

(* One analysis of a delivery has finished while another, told to use the  *)
(* same directory, was still in Ghidra.                                    *)
Late ==
  {[Quiet EXCEPT !.tasks = <<Firmware("fw"), Package(Base), v>>,
                 !.finished = {1, 2}, !.started = {3}] : v \in Variants}

(* Two analyses of deliveries from the beginning. *)
Race ==
  {[Quiet EXCEPT !.tasks = <<Firmware("fw"), Package(Untraced), v>>, !.finished = {1}] :
     v \in {Package([Untraced EXCEPT !.isa_signature = <<1, 2>>])}}

(* A firmware analysed again after a rebuild, with runtime evidence.       *)
Evidence ==
  {[elf |-> "fw", observed |-> o] : o \in {{Tlb}, {Tlb, Barrier}, {Tlb, Barrier, Again}}}
  \cup {[elf |-> "other", observed |-> {Again}], [elf |-> "plain", observed |-> {}]}
Rebuilt ==
  {[Quiet EXCEPT !.tasks = <<Package(Base), Firmware(e), Firmware(f)>>,
                 !.finished = {1}, !.runtime = v[1], !.outputBusy = v[2]] :
     e \in {"fw", "plain"}, f \in {"fw", "other", "test2"},
     v \in {<<None, TRUE>>} \cup ((Evidence \cup {None}) \X {FALSE})}

(* Every pair of short traces, and the deliveries that are refused.        *)
ShortTraces == UNION {[1 .. n -> TraceKeys] : n \in 1 .. 3}
Traced ==
  {[Quiet EXCEPT !.tasks = <<Package([Base EXCEPT !.rtl_trace = r, !.isa_csv = i])>>] :
     r, i \in ShortTraces}
  \cup {[Quiet EXCEPT !.tasks = <<t>>] : t \in Refused}

MCScenarios == Late \cup Race \cup Rebuilt \cup Traced
=============================================================================
