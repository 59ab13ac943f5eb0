------------------------------ MODULE JointRun ------------------------------
(***************************************************************************)
(* One joint run of the processor and the peripheral, and the bridge drawn *)
(* from its two traces.  The two traces are written by different hardware  *)
(* and share no identifier: a store retires when it is issued and reaches  *)
(* the peripheral later, in any order with the others; a load retires with *)
(* its value; another bus master may be there unless the platform proof    *)
(* excludes it.  Every bus transaction remembers its true origin, which    *)
(* the bridge never sees.                                                  *)
(***************************************************************************)
EXTENDS ExecutionBridge

CONSTANTS
  Programs,      \* the firmwares
  MaxForeign,    \* bound: accesses of another master
  Foreign        \* the accesses it may make

ASSUME ProgramsAssumption == Programs \subseteq Seq(Instructions)

ASSUME ForeignAssumption ==
  Foreign \subseteq [op : {"read", "write"}, addr : Registers, value : Data]

VARIABLES
  program,       \* the firmware of this run
  alone,         \* the platform has no other master of the peripheral
  pc,            \* the next instruction
  inflight,      \* issued stores that the peripheral has not accepted
  regs,          \* the peripheral
  rows,          \* the processor trace
  bus,           \* the completed transactions, with their origin
  stage,         \* "run", "stopped" by the software stop, then the bridge's outcome
  bindings       \* the result of materialize_bridge

vars == <<program, alone, pc, inflight, regs, rows, bus, stage, bindings>>

Request(op, addr, value) ==
  [addr |-> addr, we |-> op = "write", full |-> TRUE, wd |-> value]

Init ==
  /\ program \in Programs /\ alone \in BOOLEAN
  /\ pc = 1 /\ inflight = {} /\ regs = ResetValues
  /\ rows = <<>> /\ bus = <<>> /\ stage = "run" /\ bindings = <<>>

\* The peripheral completes one access and logs it.
Complete(op, addr, value, origin) ==
  /\ regs' = AfterAccess("reference", regs, Request(op, addr, value))
  /\ bus' = Append(bus, [op |-> op, addr |-> addr,
                         value |-> IF op = "read" THEN regs[addr] ELSE value,
                         origin |-> origin, late |-> stage = "stopped"])

Retire(value) ==
  /\ rows' = Append(rows, [pc |-> pc, op |-> program[pc].op,
                           addr |-> program[pc].addr, value |-> value])
  /\ pc' = pc + 1

Store ==
  /\ stage = "run" /\ pc <= Len(program) /\ program[pc].op = "write"
  /\ Retire(program[pc].value)
  /\ inflight' = inflight \cup {pc}
  /\ UNCHANGED <<program, alone, regs, bus, stage, bindings>>

Load ==
  /\ stage = "run" /\ pc <= Len(program) /\ program[pc].op = "read"
  /\ Complete("read", program[pc].addr, 0, pc)
  /\ Retire(regs[program[pc].addr])
  /\ UNCHANGED <<program, alone, inflight, stage, bindings>>

Accept(i) ==
  /\ stage \in {"run", "stopped"} /\ i \in inflight
  /\ Complete("write", program[i].addr, program[i].value, i)
  /\ inflight' = inflight \ {i}
  /\ UNCHANGED <<program, alone, pc, rows, stage, bindings>>

OtherMaster(x) ==
  /\ stage = "run" /\ ~alone
  /\ Cardinality({j \in DOMAIN bus : bus[j].origin = 0}) < MaxForeign
  /\ Complete(x.op, x.addr, x.value, 0)
  /\ UNCHANGED <<program, alone, pc, inflight, rows, stage, bindings>>

\* The store to the simulator control, the last instruction of the prefix.
SoftwareStop ==
  /\ stage = "run" /\ pc = Len(program) + 1
  /\ stage' = "stopped"
  /\ UNCHANGED <<program, alone, pc, inflight, regs, rows, bus, bindings>>

\* The peripheral answers whatever it accepted, so that no request is left open, and
\* a store that it never accepted leaves no record: coverage looks at the retired
\* instructions and at the transactions there are.
Materialize ==
  /\ stage = "stopped"
  /\ IF Covered(program, rows, bus)
     THEN /\ stage' = "materialized"
          /\ bindings' = [p \in DOMAIN program |-> Binding(program, rows, bus, alone, p)]
     ELSE stage' = "rejected" /\ UNCHANGED bindings
  /\ UNCHANGED <<program, alone, pc, inflight, regs, rows, bus>>

Next ==
  \/ Store \/ Load \/ SoftwareStop \/ Materialize
  \/ \E i \in DOMAIN program : Accept(i)
  \/ \E x \in Foreign : OtherMaster(x)

Spec == Init /\ [][Next]_vars

-----------------------------------------------------------------------------
\* A bound join is a true one: the transaction that the bridge pairs with a
\* static access was made by that very instruction, with the address and the
\* value that the static side derived, whatever the order in which the
\* peripheral accepted the stores and whoever else used the bus.
BoundIsTrue ==
  \A p \in DOMAIN bindings :
    bindings[p].status = "bound" =>
      LET t == bus[bindings[p].bus]
      IN  /\ t.origin = p
          /\ t.op = program[p].op /\ t.addr = program[p].addr
          /\ t.op = "write" => t.value = program[p].value

\* Nothing is lost either: when no two accesses look alike and every store has
\* reached the peripheral, every access of a processor that is alone on the bus and
\* that is statically exact is bound.
ExactAccessesAreBound ==
  stage = "materialized" /\ alone /\ ~Repeats(rows) /\ inflight = {} =>
    \A p \in DOMAIN program :
      program[p].static = "exact" => bindings[p].status = "bound"

\* A run is said to contradict itself ("not_same", for every access of it) exactly
\* when a store that retired never reached the peripheral, the processor is alone,
\* and no two accesses look alike.  An access of another master, or accesses that
\* look alike, make the joins unknown, they do not refute them; and no access of a
\* run that lost a store is bound, as no order tells the lost one from the others.
DenialMeansLoss ==
  \A p \in DOMAIN bindings :
    /\ bindings[p].status = "not_same" <=> inflight # {} /\ alone /\ ~Repeats(rows)
    /\ bindings[p].status = "bound" => inflight = {}
=============================================================================
