-------------------------- MODULE ExecutionBridge --------------------------
(***************************************************************************)
(* mmio_execution_bridge.py: which static access of the firmware was which *)
(* retired instruction, and which retired instruction was which completed  *)
(* bus transaction.  No order and no cycle is compared: only the contents  *)
(* of the accesses are, all of them at once.                               *)
(*                                                                         *)
(* A program is the straight-line prefix of the firmware, seen as its      *)
(* accesses to the peripheral.  `static` says what the constant            *)
(* propagation of extract_rv32_mmio_static_facts makes of an access: its   *)
(* address and value are exact, or the value (a register that was loaded)  *)
(* or the address is not known.                                            *)
(***************************************************************************)
EXTENDS MmioRegisterFile, Sequences, FiniteSets

CONSTANT Unknown     \* an address or a value that the static side lacks

ASSUME UnknownAssumption == Unknown \notin Registers /\ Unknown \notin Data

Statuses == {"bound", "not_same", "unknown"}

Instructions ==
  [op : {"read", "write"}, addr : Registers, value : Data,
   static : {"exact", "value unknown", "address unknown"}]

\* The static fact of the instruction at pc.  Reads carry no static value.
Fact(program, pc) ==
  LET i == program[pc]
  IN  [pc |-> pc, op |-> i.op,
       addr  |-> IF i.static = "address unknown" THEN Unknown ELSE i.addr,
       value |-> IF i.op = "read" \/ i.static = "value unknown" THEN Unknown ELSE i.value]

\* The facts in the target window have an address; only they make capabilities.
InTarget(program, pc) == program[pc].static # "address unknown"

\* Mutant of StaticProcessor: the value of a read is compared too.
StaticProcessor_ReadValue(fact, row) ==
  IF fact.pc # row.pc \/ fact.op # row.op THEN "not_same"
  ELSE IF fact.addr = Unknown THEN "unknown"
  ELSE IF fact.op = "write" /\ fact.value = Unknown THEN "unknown"
  ELSE IF fact.addr # row.addr \/ fact.value # row.value THEN "not_same"
  ELSE "bound"

\* static_processor_status: the fact against the retired instruction.
StaticProcessor(fact, row) ==
  IF fact.pc # row.pc \/ fact.op # row.op THEN "not_same"
  ELSE IF fact.addr = Unknown THEN "unknown"
  ELSE IF fact.op = "write" /\ fact.value = Unknown THEN "unknown"
  ELSE IF fact.addr # row.addr THEN "not_same"
  ELSE IF fact.op = "write" /\ fact.value # row.value THEN "not_same"
  ELSE "bound"

\* The complete semantics of one access, on either side.
Key(x) == <<x.op, x.addr, x.value>>

Repeats(xs) == \E i, j \in DOMAIN xs : i # j /\ Key(xs[i]) = Key(xs[j])

Keys(xs) == {Key(xs[i]) : i \in DOMAIN xs}

\* Mutant of SemanticBijection: repeated accesses are not ambiguous.
SemanticBijection_Repeats(rows, bus, platform) ==
  IF ~platform THEN "unknown"
  ELSE IF Keys(rows) # Keys(bus) THEN "not_same"
  ELSE "bound"

\* Mutant of SemanticBijection: the proof about the platform is not consulted.
SemanticBijection_AnyPlatform(rows, bus, platform) ==
  IF Repeats(rows) \/ Repeats(bus) THEN "unknown"
  ELSE IF Keys(rows) # Keys(bus) THEN "not_same"
  ELSE "bound"

\* semantic_bijection: all of the accesses are paired or none is.
SemanticBijection(rows, bus, platform) ==
  IF ~platform THEN "unknown"
  ELSE IF Repeats(rows) \/ Repeats(bus) THEN "unknown"
  ELSE IF Keys(rows) # Keys(bus) THEN "not_same"
  ELSE "bound"

Both(a, b) ==
  IF a = "bound" /\ b = "bound" THEN "bound"
  ELSE IF "not_same" \in {a, b} THEN "not_same" ELSE "unknown"

\* The transaction that pairs with a row, by contents.
Partner(row, bus) == CHOOSE j \in DOMAIN bus : Key(bus[j]) = Key(row)

\* materialize_bridge: one binding for every static fact.
Binding(program, rows, bus, platform, pc) ==
  LET candidates == {i \in DOMAIN rows : rows[i].pc = pc}
      unique == Cardinality(candidates) = 1
      row == rows[CHOOSE i \in candidates : TRUE]
      sp  == IF unique THEN StaticProcessor(Fact(program, pc), row) ELSE "unknown"
      pb  == IF unique THEN SemanticBijection(rows, bus, platform) ELSE "unknown"
  IN  [status |-> Both(sp, pb),
       bus    |-> IF unique /\ pb = "bound" THEN Partner(row, bus) ELSE 0]

\* The pcs whose capability may speak of what was executed, with their
\* transaction: _capability_transactions (type2_verifier.py) of materialize_mmio.
BoundSites(program, rows, bus, platform) ==
  {pc \in DOMAIN program :
     /\ InTarget(program, pc)
     /\ Binding(program, rows, bus, platform, pc).status = "bound"}

\* validate_processor_coverage: exactly the straight-line prefix has retired,
\* and no transaction completed after the software stop.
Covered(program, rows, bus) ==
  /\ [i \in DOMAIN rows |-> rows[i].pc] = [i \in DOMAIN program |-> i]
  /\ \A j \in DOMAIN bus : ~bus[j].late
=============================================================================
