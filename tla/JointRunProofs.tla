--------------------------- MODULE JointRunProofs ---------------------------
(***************************************************************************)
(* The bridge between the two traces of a joint run, for every firmware,   *)
(* every order in which the peripheral accepts the stores and every other  *)
(* master of the bus.                                                      *)
(***************************************************************************)
EXTENDS JointRun, FiniteSetTheorems, TLAPS

(* The inductive invariant.                                                *)

RowType == [pc : Nat, op : {"read", "write"}, addr : Registers, value : Data]
TxType  == [op : {"read", "write"}, addr : Registers, value : Data,
            origin : Nat, late : BOOLEAN]

TypeOK ==
  /\ program \in Seq(Instructions) /\ alone \in BOOLEAN
  /\ pc \in 1 .. Len(program) + 1
  /\ inflight \in SUBSET (1 .. pc - 1)
  /\ regs \in RegisterValues
  /\ rows \in Seq(RowType) /\ Len(rows) = pc - 1
  /\ bus \in Seq(TxType)
  /\ stage \in {"run", "stopped", "materialized", "rejected"}

\* The processor trace is the retired prefix of the program.
RowOf(p) ==
  /\ rows[p].pc = p
  /\ rows[p].op = program[p].op
  /\ rows[p].addr = program[p].addr
  /\ rows[p].op = "write" => rows[p].value = program[p].value

RowsAreProgram == \A p \in 1 .. pc - 1 : RowOf(p)

\* Only stores are in flight.
InflightAreStores == \A p \in inflight : program[p].op = "write"

\* A transaction is another master's, or the access of one retired
\* instruction that is no longer in flight, with the contents of its row.
OriginOf(j) ==
  /\ bus[j].origin = 0 => ~alone
  /\ bus[j].origin # 0 => /\ bus[j].origin \in 1 .. pc - 1
                          /\ bus[j].origin \notin inflight
                          /\ Key(bus[j]) = Key(rows[bus[j].origin])

OriginsAreRows == \A j \in DOMAIN bus : OriginOf(j)

OriginsDiffer ==
  \A j, k \in DOMAIN bus :
    bus[j].origin = bus[k].origin /\ bus[j].origin # 0 => j = k

\* A retired instruction is in flight or has its transaction.
RetiredArrive ==
  \A p \in 1 .. pc - 1 : p \in inflight \/ \E j \in DOMAIN bus : bus[j].origin = p

Outcome ==
  /\ stage # "run" => pc = Len(program) + 1
  /\ stage # "materialized" => bindings = <<>>
  /\ stage = "materialized" =>
       bindings = [p \in DOMAIN program |-> Binding(program, rows, bus, alone, p)]

IInv ==
  /\ TypeOK
  /\ RowsAreProgram
  /\ InflightAreStores
  /\ OriginsAreRows
  /\ OriginsDiffer
  /\ RetiredArrive
  /\ Outcome

-----------------------------------------------------------------------------
(* Lemmas about the operators.                                             *)

LEMMA AfterAccessTyped ==
  ASSUME NEW t, NEW r \in RegisterValues, NEW q, q.wd \in Data
  PROVE  AfterAccess(t, r, q) \in RegisterValues
BY DataAssumption DEF AfterAccess, RegisterValues, Legal, Registers, DEAD, A5

\* What Retire and Complete append.
LEMMA AppendFacts ==
  ASSUME NEW T, NEW s \in Seq(T), NEW x \in T
  PROVE  /\ Append(s, x) \in Seq(T) /\ Len(Append(s, x)) = Len(s) + 1
         /\ \A i \in 1 .. Len(s) : Append(s, x)[i] = s[i]
         /\ Append(s, x)[Len(s) + 1] = x
         /\ DOMAIN s = 1 .. Len(s)
         /\ DOMAIN Append(s, x) = 1 .. Len(s) + 1
         /\ Len(s) \in Nat
OBVIOUS

LEMMA InstructionFields ==
  ASSUME TypeOK, NEW p \in 1 .. Len(program)
  PROVE  /\ program[p].op \in {"read", "write"} /\ program[p].addr \in Registers
         /\ program[p].value \in Data
         /\ program[p].static \in {"exact", "value unknown", "address unknown"}
<1>1. program[p] \in Instructions
  BY DEF TypeOK
<1> QED
  BY <1>1 DEF Instructions

LEMMA InitInvariant == Init => IInv
<1> SUFFICES ASSUME Init PROVE IInv
  OBVIOUS
<1>1. program \in Seq(Instructions) /\ Len(program) \in Nat
  BY ProgramsAssumption DEF Init
<1>2. regs \in RegisterValues
  BY DataAssumption DEF Init, ResetValues, RegisterValues
<1>3. TypeOK
  BY <1>1, <1>2 DEF Init, TypeOK
<1> QED
  BY <1>3 DEF Init, IInv, RowsAreProgram, InflightAreStores, OriginsAreRows,
     OriginsDiffer, RetiredArrive, Outcome

-----------------------------------------------------------------------------
(* The steps.                                                              *)

\* A store retires and is in flight.
LEMMA StoreStep == IInv /\ Store => IInv'
<1> SUFFICES ASSUME IInv, Store PROVE IInv'
  OBVIOUS
<1> DEFINE row == [pc |-> pc, op |-> program[pc].op, addr |-> program[pc].addr,
                   value |-> program[pc].value]
<1>1. /\ stage = "run" /\ pc \in 1 .. Len(program) /\ program[pc].op = "write"
      /\ rows' = Append(rows, row) /\ pc' = pc + 1 /\ inflight' = inflight \cup {pc}
      /\ UNCHANGED <<program, alone, regs, bus, stage, bindings>>
  BY DEF Store, Retire, IInv, TypeOK
<1>2. /\ Len(program) \in Nat /\ pc \in Nat /\ rows \in Seq(RowType) /\ Len(rows) = pc - 1
      /\ inflight \in SUBSET (1 .. pc - 1)
  BY DEF IInv, TypeOK
<1>3. row \in RowType
  BY <1>1, <1>2, InstructionFields DEF IInv, RowType
<1> HIDE DEF row
<1>4. /\ rows' \in Seq(RowType) /\ Len(rows') = pc
      /\ \A i \in 1 .. pc - 1 : rows'[i] = rows[i]
      /\ rows'[pc] = row
  BY <1>1, <1>2, <1>3, AppendFacts
<1>5. TypeOK'
  <2>1. inflight' \in SUBSET (1 .. pc' - 1) /\ pc' \in 1 .. Len(program') + 1
    BY <1>1, <1>2
  <2>2. Len(rows') = pc' - 1
    BY <1>1, <1>2, <1>4
  <2> QED
    BY <1>1, <1>4, <2>1, <2>2 DEF IInv, TypeOK
<1>6. RowsAreProgram'
  <2>1. ASSUME NEW p \in 1 .. pc - 1 PROVE RowOf(p)'
    BY <1>1, <1>2, <1>4 DEF IInv, RowsAreProgram, RowOf
  <2>0. PICK c \in Nat : c = pc
    BY <1>2
  <2>2. RowOf(c)'
    BY <1>1, <1>2, <1>4, <2>0 DEF RowOf, row
  <2>3. ASSUME NEW p \in 1 .. pc' - 1 PROVE RowOf(p)'
    BY <1>1, <1>2, <2>0, <2>1, <2>2
  <2> QED
    BY <2>3 DEF RowsAreProgram
<1>7. InflightAreStores'
  BY <1>1 DEF IInv, InflightAreStores
<1>8. OriginsAreRows'
  <2>1. ASSUME NEW j \in DOMAIN bus PROVE OriginOf(j)'
    <3>1. OriginOf(j)
      BY DEF IInv, OriginsAreRows
    <3> QED
      BY <3>1, <1>1, <1>2, <1>4 DEF OriginOf, Key
  <2> QED
    BY <1>1, <2>1 DEF OriginsAreRows
<1>9. OriginsDiffer'
  BY <1>1 DEF IInv, OriginsDiffer
<1>10. RetiredArrive'
  BY <1>1, <1>2 DEF IInv, RetiredArrive
<1>11. Outcome'
  BY <1>1 DEF IInv, Outcome
<1> QED
  BY <1>5, <1>6, <1>7, <1>8, <1>9, <1>10, <1>11 DEF IInv

\* A load retires with its transaction.
LEMMA LoadStep == IInv /\ Load => IInv'
<1> SUFFICES ASSUME IInv, Load PROVE IInv'
  OBVIOUS
<1> DEFINE row == [pc |-> pc, op |-> program[pc].op, addr |-> program[pc].addr,
                   value |-> regs[program[pc].addr]]
           tx  == [op |-> "read", addr |-> program[pc].addr,
                   value |-> regs[program[pc].addr],
                   origin |-> pc, late |-> stage = "stopped"]
<1>1. /\ stage = "run" /\ pc \in 1 .. Len(program) /\ program[pc].op = "read"
      /\ rows' = Append(rows, row) /\ pc' = pc + 1
      /\ bus' = Append(bus, tx)
      /\ regs' = AfterAccess("reference", regs, Request("read", program[pc].addr, 0))
      /\ UNCHANGED <<program, alone, inflight, stage, bindings>>
  BY DEF Load, Retire, Complete, IInv, TypeOK
<1>2. /\ Len(program) \in Nat /\ pc \in Nat /\ rows \in Seq(RowType) /\ Len(rows) = pc - 1
      /\ inflight \in SUBSET (1 .. pc - 1) /\ bus \in Seq(TxType) /\ regs \in RegisterValues
  BY DEF IInv, TypeOK
<1>3. row \in RowType /\ tx \in TxType
  <2>1. program[pc].addr \in Registers
    BY <1>1, InstructionFields DEF IInv
  <2>2. regs[program[pc].addr] \in Data
    BY <1>2, <2>1 DEF RegisterValues
  <2> QED
    BY <1>1, <1>2, <2>1, <2>2 DEF RowType, TxType
<1>a. Key(tx) = Key(row) /\ tx.origin = pc
  BY <1>1 DEF Key
<1>b. row.pc = pc /\ row.op = program[pc].op /\ row.addr = program[pc].addr
  OBVIOUS
<1> HIDE DEF row, tx
<1>4. /\ rows' \in Seq(RowType) /\ Len(rows') = pc
      /\ \A i \in 1 .. pc - 1 : rows'[i] = rows[i]
      /\ rows'[pc] = row
  BY <1>1, <1>2, <1>3, AppendFacts
<1>5. PICK n \in Nat :
      /\ bus' \in Seq(TxType)
      /\ \A j \in DOMAIN bus : bus'[j] = bus[j]
      /\ bus'[n] = tx
      /\ DOMAIN bus' = DOMAIN bus \cup {n} /\ n \notin DOMAIN bus
  <2> DEFINE m == Len(bus) + 1
  <2>1. /\ bus' \in Seq(TxType) /\ m \in Nat /\ DOMAIN bus = 1 .. Len(bus)
        /\ DOMAIN bus' = 1 .. m /\ bus'[m] = tx /\ Len(bus) \in Nat
        /\ \A j \in 1 .. Len(bus) : bus'[j] = bus[j]
    BY <1>1, <1>2, <1>3, AppendFacts
  <2> QED
    BY <2>1
<1>6. regs' \in RegisterValues
  BY <1>1, <1>2, AfterAccessTyped, DataAssumption DEF Request
<1>7. TypeOK'
  BY <1>1, <1>2, <1>4, <1>5, <1>6 DEF IInv, TypeOK
<1>8. RowsAreProgram'
  <2>1. ASSUME NEW p \in 1 .. pc - 1 PROVE RowOf(p)'
    BY <1>1, <1>2, <1>4 DEF IInv, RowsAreProgram, RowOf
  <2>0. PICK c \in Nat : c = pc
    BY <1>2
  <2>2. RowOf(c)'
    BY <1>1, <1>2, <1>4, <1>b, <2>0 DEF RowOf
  <2>3. ASSUME NEW p \in 1 .. pc' - 1 PROVE RowOf(p)'
    BY <1>1, <1>2, <2>0, <2>1, <2>2
  <2> QED
    BY <2>3 DEF RowsAreProgram
<1>9. InflightAreStores'
  BY <1>1 DEF IInv, InflightAreStores
<1>10. ASSUME NEW j \in DOMAIN bus
       PROVE  /\ OriginOf(j)' /\ bus'[j].origin # pc
    <2>1. OriginOf(j)
      BY DEF IInv, OriginsAreRows
    <2> QED
      BY <2>1, <1>1, <1>2, <1>4, <1>5 DEF OriginOf, Key
<1>11. OriginOf(n)'
  BY <1>1, <1>2, <1>4, <1>5, <1>a DEF OriginOf, Key
<1>12. OriginsAreRows'
  BY <1>5, <1>10, <1>11 DEF OriginsAreRows
<1>13. OriginsDiffer'
  BY <1>5, <1>a, <1>10 DEF IInv, OriginsDiffer
<1>14. RetiredArrive'
  <2>1. ASSUME NEW p \in 1 .. pc - 1
        PROVE  p \in inflight' \/ \E j \in DOMAIN bus' : bus'[j].origin = p
    BY <1>1, <1>5 DEF IInv, RetiredArrive
  <2>2. \E j \in DOMAIN bus' : bus'[j].origin = pc
    BY <1>5, <1>a
  <2>3. ASSUME NEW p \in 1 .. pc' - 1
        PROVE  p \in inflight' \/ \E j \in DOMAIN bus' : bus'[j].origin = p
    BY <1>1, <1>2, <2>1, <2>2
  <2> QED
    BY <2>3 DEF RetiredArrive
<1>15. Outcome'
  BY <1>1 DEF IInv, Outcome
<1> QED
  BY <1>7, <1>8, <1>9, <1>12, <1>13, <1>14, <1>15 DEF IInv

\* The peripheral accepts a store, in any order with the others.
LEMMA AcceptStep == ASSUME IInv, NEW p \in DOMAIN program, Accept(p) PROVE IInv'
<1> DEFINE tx == [op |-> "write", addr |-> program[p].addr, value |-> program[p].value,
                  origin |-> p, late |-> stage = "stopped"]
<1>1. /\ stage \in {"run", "stopped"} /\ p \in inflight
      /\ bus' = Append(bus, tx)
      /\ regs' = AfterAccess("reference", regs,
                             Request("write", program[p].addr, program[p].value))
      /\ inflight' = inflight \ {p}
      /\ UNCHANGED <<program, alone, pc, rows, stage, bindings>>
  BY DEF Accept, Complete
<1>2. /\ Len(program) \in Nat /\ pc \in Nat /\ rows \in Seq(RowType) /\ Len(rows) = pc - 1
      /\ inflight \in SUBSET (1 .. pc - 1) /\ bus \in Seq(TxType) /\ regs \in RegisterValues
      /\ p \in 1 .. Len(program) /\ p \in 1 .. pc - 1
  BY <1>1 DEF IInv, TypeOK
<1>3. /\ program[p].addr \in Registers /\ program[p].value \in Data
      /\ program[p].op = "write"
  BY <1>1, <1>2, InstructionFields DEF IInv, InflightAreStores
<1>4. tx \in TxType
  BY <1>2, <1>3 DEF TxType
<1>a. Key(tx) = Key(rows[p]) /\ tx.origin = p
  BY <1>2, <1>3 DEF Key, IInv, RowsAreProgram, RowOf
<1> HIDE DEF tx
<1>5. PICK n \in Nat :
      /\ bus' \in Seq(TxType)
      /\ \A j \in DOMAIN bus : bus'[j] = bus[j]
      /\ bus'[n] = tx
      /\ DOMAIN bus' = DOMAIN bus \cup {n} /\ n \notin DOMAIN bus
  <2> DEFINE m == Len(bus) + 1
  <2>1. /\ bus' \in Seq(TxType) /\ m \in Nat /\ DOMAIN bus = 1 .. Len(bus)
        /\ DOMAIN bus' = 1 .. m /\ bus'[m] = tx /\ Len(bus) \in Nat
        /\ \A j \in 1 .. Len(bus) : bus'[j] = bus[j]
    BY <1>1, <1>2, <1>4, AppendFacts
  <2> QED
    BY <2>1
<1>6. regs' \in RegisterValues
  BY <1>1, <1>2, <1>3, AfterAccessTyped DEF Request
<1>7. TypeOK'
  BY <1>1, <1>2, <1>5, <1>6 DEF IInv, TypeOK
<1>8. RowsAreProgram'
  BY <1>1 DEF IInv, RowsAreProgram, RowOf
<1>9. InflightAreStores'
  BY <1>1 DEF IInv, InflightAreStores
<1>10. ASSUME NEW j \in DOMAIN bus
       PROVE  /\ OriginOf(j)' /\ bus'[j].origin # p
    <2>1. OriginOf(j)
      BY DEF IInv, OriginsAreRows
    <2> QED
      BY <2>1, <1>1, <1>2, <1>5 DEF OriginOf, Key
<1>11. OriginOf(n)'
  BY <1>1, <1>2, <1>5, <1>a DEF OriginOf, Key
<1>12. OriginsAreRows'
  BY <1>5, <1>10, <1>11 DEF OriginsAreRows
<1>13. OriginsDiffer'
  BY <1>5, <1>a, <1>10 DEF IInv, OriginsDiffer
<1>14. RetiredArrive'
  BY <1>1, <1>5, <1>a DEF IInv, RetiredArrive
<1>15. Outcome'
  BY <1>1 DEF IInv, Outcome
<1> QED
  BY <1>7, <1>8, <1>9, <1>12, <1>13, <1>14, <1>15 DEF IInv

\* Another master's access has no origin among the instructions.
LEMMA OtherMasterStep == ASSUME IInv, NEW x \in Foreign, OtherMaster(x) PROVE IInv'
<1> DEFINE tx == [op |-> x.op, addr |-> x.addr,
                  value |-> IF x.op = "read" THEN regs[x.addr] ELSE x.value,
                  origin |-> 0, late |-> stage = "stopped"]
<1>1. /\ stage = "run" /\ ~alone
      /\ bus' = Append(bus, tx)
      /\ regs' = AfterAccess("reference", regs, Request(x.op, x.addr, x.value))
      /\ UNCHANGED <<program, alone, pc, inflight, rows, stage, bindings>>
  BY DEF OtherMaster, Complete
<1>2. /\ Len(program) \in Nat /\ pc \in Nat /\ rows \in Seq(RowType) /\ Len(rows) = pc - 1
      /\ bus \in Seq(TxType) /\ regs \in RegisterValues
  BY DEF IInv, TypeOK
<1>3. x.op \in {"read", "write"} /\ x.addr \in Registers /\ x.value \in Data
  BY ForeignAssumption
<1>4. tx \in TxType
  <2>1. regs[x.addr] \in Data
    BY <1>2, <1>3 DEF RegisterValues
  <2> QED
    BY <1>3, <2>1 DEF TxType
<1>a. tx.origin = 0
  OBVIOUS
<1> HIDE DEF tx
<1>5. PICK n \in Nat :
      /\ bus' \in Seq(TxType)
      /\ \A j \in DOMAIN bus : bus'[j] = bus[j]
      /\ bus'[n] = tx
      /\ DOMAIN bus' = DOMAIN bus \cup {n} /\ n \notin DOMAIN bus
  <2> DEFINE m == Len(bus) + 1
  <2>1. /\ bus' \in Seq(TxType) /\ m \in Nat /\ DOMAIN bus = 1 .. Len(bus)
        /\ DOMAIN bus' = 1 .. m /\ bus'[m] = tx /\ Len(bus) \in Nat
        /\ \A j \in 1 .. Len(bus) : bus'[j] = bus[j]
    BY <1>1, <1>2, <1>4, AppendFacts
  <2> QED
    BY <2>1
<1>6. regs' \in RegisterValues
  BY <1>1, <1>2, <1>3, AfterAccessTyped DEF Request
<1>7. TypeOK'
  BY <1>1, <1>2, <1>5, <1>6 DEF IInv, TypeOK
<1>8. RowsAreProgram'
  BY <1>1 DEF IInv, RowsAreProgram, RowOf
<1>9. InflightAreStores'
  BY <1>1 DEF IInv, InflightAreStores
<1>10. ASSUME NEW j \in DOMAIN bus
       PROVE  OriginOf(j)'
    <2>1. OriginOf(j)
      BY DEF IInv, OriginsAreRows
    <2> QED
      BY <2>1, <1>1, <1>5 DEF OriginOf, Key
<1>11. OriginOf(n)'
  BY <1>1, <1>5, <1>a DEF OriginOf
<1>12. OriginsAreRows'
  BY <1>5, <1>10, <1>11 DEF OriginsAreRows
<1>13. OriginsDiffer'
  BY <1>5, <1>a DEF IInv, OriginsDiffer
<1>14. RetiredArrive'
  BY <1>1, <1>5 DEF IInv, RetiredArrive
<1>15. Outcome'
  BY <1>1 DEF IInv, Outcome
<1> QED
  BY <1>7, <1>8, <1>9, <1>12, <1>13, <1>14, <1>15 DEF IInv

LEMMA StopStep == IInv /\ SoftwareStop => IInv'
<1> SUFFICES ASSUME IInv, SoftwareStop PROVE IInv'
  OBVIOUS
<1> QED
  BY DEF SoftwareStop, IInv, TypeOK, RowsAreProgram, RowOf, InflightAreStores,
     OriginsAreRows, OriginOf, OriginsDiffer, RetiredArrive, Outcome

LEMMA MaterializeStep == IInv /\ Materialize => IInv'
<1> SUFFICES ASSUME IInv, Materialize PROVE IInv'
  OBVIOUS
<1>1. UNCHANGED <<program, alone, pc, inflight, regs, rows, bus>> /\ stage = "stopped"
  BY DEF Materialize
<1>2. /\ RowsAreProgram' /\ InflightAreStores' /\ OriginsAreRows' /\ OriginsDiffer'
      /\ RetiredArrive'
  BY <1>1 DEF IInv, RowsAreProgram, RowOf, InflightAreStores,
     OriginsAreRows, OriginOf, OriginsDiffer, RetiredArrive
<1>3. /\ stage' \in {"materialized", "rejected"}
      /\ stage' = "rejected" => UNCHANGED bindings
      /\ stage' = "materialized" =>
           bindings' = [p \in DOMAIN program |-> Binding(program, rows, bus, alone, p)]
  BY DEF Materialize
<1>4. TypeOK'
  BY <1>1, <1>3 DEF IInv, TypeOK
<1>5. Outcome'
  <2>1. stage' = "materialized" =>
           bindings' = [p \in DOMAIN program |-> Binding(program, rows, bus, alone, p)]'
    BY <1>1, <1>3
  <2> QED
    BY <1>1, <1>3, <2>1 DEF IInv, Outcome
<1> QED
  BY <1>2, <1>4, <1>5 DEF IInv

LEMMA StutterStep == IInv /\ UNCHANGED vars => IInv'
<1> SUFFICES ASSUME IInv, UNCHANGED vars PROVE IInv'
  OBVIOUS
<1> QED
  BY DEF vars, IInv, TypeOK, RowsAreProgram, RowOf, InflightAreStores,
     OriginsAreRows, OriginOf, OriginsDiffer, RetiredArrive, Outcome

\* The accesses of the two traces are each other's: the processor trace is the
\* retired prefix of the program, and every transaction is another master's or
\* that of one instruction, whatever the order of arrival.
THEOREM JointRunInvariant == Spec => []IInv
<1>1. IInv /\ [Next]_vars => IInv'
  BY StoreStep, LoadStep, AcceptStep, OtherMasterStep, StopStep, MaterializeStep,
     StutterStep DEF Next
<1> QED
  BY InitInvariant, <1>1, PTL DEF Spec

-----------------------------------------------------------------------------
(* What the bridge says of a completed run.                                *)

SP(p) == StaticProcessor(Fact(program, p), rows[p])
PB    == SemanticBijection(rows, bus, alone)

\* One row for every pc, so every access is joined with its own row.
LEMMA BindingOfRow ==
  ASSUME IInv, pc = Len(program) + 1, NEW p \in DOMAIN program
  PROVE  /\ Binding(program, rows, bus, alone, p).status = Both(SP(p), PB)
         /\ PB = "bound" =>
              Binding(program, rows, bus, alone, p).bus = Partner(rows[p], bus)
         /\ RowOf(p) /\ p \in DOMAIN rows
<1>1. DOMAIN program = 1 .. Len(program) /\ Len(program) \in Nat
      /\ DOMAIN rows = 1 .. Len(program)
  BY DEF IInv, TypeOK
<1>2. \A q \in DOMAIN rows : RowOf(q)
  BY <1>1 DEF IInv, RowsAreProgram
<1> DEFINE C == {i \in DOMAIN rows : rows[i].pc = p}
<1>3. C = {p}
  BY <1>1, <1>2 DEF RowOf
<1> DEFINE unique == Cardinality(C) = 1
           row == rows[CHOOSE i \in C : TRUE]
           sp  == IF unique THEN StaticProcessor(Fact(program, p), row) ELSE "unknown"
           pb  == IF unique THEN SemanticBijection(rows, bus, alone) ELSE "unknown"
<1>4. Cardinality(C) = 1 /\ (CHOOSE i \in C : TRUE) = p
  BY <1>3, FS_Singleton
<1>a. Binding(program, rows, bus, alone, p) =
        [status |-> Both(sp, pb),
         bus |-> IF unique /\ pb = "bound" THEN Partner(row, bus) ELSE 0]
  BY DEF Binding
<1>b. unique /\ row = rows[p]
  BY <1>4
<1> HIDE DEF row, unique
<1>c. sp = SP(p) /\ pb = PB
  BY <1>b DEF SP, PB
<1>5. Binding(program, rows, bus, alone, p) =
        [status |-> Both(SP(p), PB), bus |-> IF PB = "bound" THEN Partner(rows[p], bus) ELSE 0]
  BY <1>a, <1>b, <1>c
<1> QED
  BY <1>1, <1>2, <1>5

\* The static side never disagrees with the row of its own instruction.
LEMMA StaticAgrees ==
  ASSUME IInv, NEW p \in 1 .. Len(program), RowOf(p)
  PROVE  /\ SP(p) \in {"bound", "unknown"}
         /\ program[p].static = "exact" => SP(p) = "bound"
<1>1. /\ program[p].op \in {"read", "write"} /\ program[p].addr \in Registers
      /\ program[p].value \in Data /\ program[p].addr # Unknown /\ program[p].value # Unknown
  BY InstructionFields, UnknownAssumption DEF IInv
<1> DEFINE f == Fact(program, p)
<1>2. /\ f.pc = p /\ f.op = program[p].op
      /\ f.addr \in {program[p].addr, Unknown}
      /\ program[p].static = "exact" => f.addr = program[p].addr
      /\ f.op = "write" => /\ f.value \in {program[p].value, Unknown}
                           /\ program[p].static = "exact" => f.value = program[p].value
  BY <1>1 DEF Fact
<1>3. /\ rows[p].pc = p /\ rows[p].op = program[p].op /\ rows[p].addr = program[p].addr
      /\ rows[p].op = "write" => rows[p].value = program[p].value
  BY DEF RowOf
<1> HIDE DEF f
<1>4. /\ StaticProcessor(f, rows[p]) \in {"bound", "unknown"}
      /\ program[p].static = "exact" => StaticProcessor(f, rows[p]) = "bound"
  BY <1>1, <1>2, <1>3 DEF StaticProcessor
<1> QED
  BY <1>4 DEF SP, f

\* Alone on the bus, every transaction has its row, and if every store has arrived,
\* both sides have the same accesses.
LEMMA SameKeys ==
  ASSUME IInv, alone
  PROVE  /\ Keys(bus) \subseteq Keys(rows)
         /\ inflight = {} => Keys(rows) = Keys(bus)
         /\ Repeats(bus) => Repeats(rows)
<1>1. /\ DOMAIN rows = 1 .. pc - 1
      /\ \A j \in DOMAIN bus : /\ bus[j].origin \in DOMAIN rows
                               /\ bus[j].origin # 0
                               /\ Key(bus[j]) = Key(rows[bus[j].origin])
  BY DEF IInv, OriginsAreRows, OriginOf, TypeOK
<1>2. \A p \in DOMAIN rows : p \in inflight \/ \E j \in DOMAIN bus : bus[j].origin = p
  BY <1>1 DEF IInv, RetiredArrive
<1>3. inflight = {} => Keys(rows) \subseteq Keys(bus)
  BY <1>1, <1>2 DEF Keys
<1>4. Keys(bus) \subseteq Keys(rows)
  BY <1>1 DEF Keys
<1>5. Repeats(bus) => Repeats(rows)
  BY <1>1 DEF Repeats, IInv, OriginsDiffer
<1> QED
  BY <1>3, <1>4, <1>5

\* A store that has not arrived is missed, unless another access looks like it.
LEMMA LostIsMissed ==
  ASSUME IInv, alone, NEW p \in inflight, ~Repeats(rows)
  PROVE  Keys(rows) # Keys(bus)
<1>1. p \in DOMAIN rows
  BY DEF IInv, TypeOK
<1>2. ASSUME NEW j \in DOMAIN bus, Key(bus[j]) = Key(rows[p]) PROVE FALSE
  <2>1. /\ bus[j].origin \in 1 .. pc - 1 /\ bus[j].origin \notin inflight
        /\ Key(bus[j]) = Key(rows[bus[j].origin])
    BY DEF IInv, OriginsAreRows, OriginOf
  <2>2. bus[j].origin \in DOMAIN rows /\ bus[j].origin # p
    BY <2>1 DEF IInv, TypeOK
  <2> QED
    BY <1>1, <1>2, <2>1, <2>2 DEF Repeats
<1> QED
  BY <1>1, <1>2 DEF Keys

\* materialize_bridge: a bound access is paired with its own transaction, in
\* spite of the processor and the bus sharing no identifier.
THEOREM BoundJoinsAreTrue == Spec => []BoundIsTrue
<1>1. IInv => BoundIsTrue
  <2> SUFFICES ASSUME IInv, NEW p \in DOMAIN bindings, bindings[p].status = "bound"
               PROVE  LET t == bus[bindings[p].bus]
                      IN  /\ t.origin = p
                          /\ t.op = program[p].op /\ t.addr = program[p].addr
                          /\ t.op = "write" => t.value = program[p].value
    BY DEF BoundIsTrue
  <2>1. stage = "materialized"
    BY DEF IInv, Outcome
  <2>2. /\ pc = Len(program) + 1 /\ p \in DOMAIN program
        /\ bindings[p] = Binding(program, rows, bus, alone, p)
    BY <2>1 DEF IInv, Outcome
  <2>3. /\ bindings[p].status = Both(SP(p), PB) /\ RowOf(p) /\ p \in DOMAIN rows
        /\ PB = "bound" => bindings[p].bus = Partner(rows[p], bus)
    BY <2>2, BindingOfRow
  <2>4. PB = "bound"
    BY <2>3 DEF Both
  <2>5. /\ alone /\ ~Repeats(rows) /\ ~Repeats(bus) /\ Keys(rows) = Keys(bus)
        /\ bindings[p].bus = Partner(rows[p], bus)
    BY <2>3, <2>4 DEF PB, SemanticBijection
  <2>6. p \in 1 .. pc - 1 /\ p # 0
    BY <2>2 DEF IInv, TypeOK
  <2>7. PICK j \in DOMAIN bus : bus[j].origin = p
    BY <2>5, <2>6, LostIsMissed DEF IInv, RetiredArrive
  <2>8. Key(bus[j]) = Key(rows[p])
    BY <2>6, <2>7 DEF IInv, OriginsAreRows, OriginOf
  <2>9. Partner(rows[p], bus) = j
    BY <2>5, <2>7, <2>8 DEF Partner, Repeats
  <2> QED
    BY <2>3, <2>5, <2>7, <2>8, <2>9 DEF Key, RowOf
<1> QED
  BY <1>1, JointRunInvariant, PTL

\* Two observations of one run are said to differ exactly when a store was lost that
\* could be missed, and a run that lost one binds nothing.
THEOREM DenialsMeanLoss == Spec => []DenialMeansLoss
<1>1. IInv => DenialMeansLoss
  <2> SUFFICES ASSUME IInv, NEW p \in DOMAIN bindings
               PROVE  /\ bindings[p].status = "not_same" <=>
                            inflight # {} /\ alone /\ ~Repeats(rows)
                      /\ bindings[p].status = "bound" => inflight = {}
    BY DEF DenialMeansLoss
  <2>1. stage = "materialized"
    BY DEF IInv, Outcome
  <2>2. /\ pc = Len(program) + 1 /\ p \in DOMAIN program
        /\ bindings[p] = Binding(program, rows, bus, alone, p)
    BY <2>1 DEF IInv, Outcome
  <2>3. bindings[p].status = Both(SP(p), PB) /\ RowOf(p)
    BY <2>2, BindingOfRow
  <2>4. SP(p) \in {"bound", "unknown"}
    BY <2>2, <2>3, StaticAgrees DEF IInv, TypeOK
  <2>5. PB \in {"bound", "unknown", "not_same"}
    BY DEF PB, SemanticBijection
  <2>6. CASE ~alone \/ Repeats(rows)
    BY <2>3, <2>4, <2>6 DEF PB, SemanticBijection, Both
  <2>7. CASE alone /\ ~Repeats(rows)
    <3>1. ~Repeats(bus)
      BY <2>7, SameKeys
    <3>2. Keys(rows) = Keys(bus) <=> inflight = {}
      BY <2>7, SameKeys, LostIsMissed
    <3>3. PB = IF inflight = {} THEN "bound" ELSE "not_same"
      BY <2>7, <3>1, <3>2 DEF PB, SemanticBijection
    <3> QED
      BY <2>3, <2>4, <2>7, <3>3 DEF Both
  <2> QED
    BY <2>6, <2>7
<1> QED
  BY <1>1, JointRunInvariant, PTL

\* No exact access of a lone processor is lost when no two accesses look alike.
THEOREM ExactJoinsAreMade == Spec => []ExactAccessesAreBound
<1>1. IInv => ExactAccessesAreBound
  <2> SUFFICES ASSUME IInv, stage = "materialized", alone, ~Repeats(rows), inflight = {},
                      NEW p \in DOMAIN program, program[p].static = "exact"
               PROVE  bindings[p].status = "bound"
    BY DEF ExactAccessesAreBound
  <2>1. /\ pc = Len(program) + 1
        /\ bindings[p] = Binding(program, rows, bus, alone, p)
    BY DEF IInv, Outcome
  <2>2. bindings[p].status = Both(SP(p), PB) /\ RowOf(p)
    BY <2>1, BindingOfRow
  <2>3. SP(p) = "bound"
    BY <2>2, StaticAgrees DEF IInv, TypeOK
  <2>4. PB = "bound"
    BY <2>1, SameKeys DEF PB, SemanticBijection
  <2> QED
    BY <2>2, <2>3, <2>4 DEF Both
<1> QED
  BY <1>1, JointRunInvariant, PTL
=============================================================================
