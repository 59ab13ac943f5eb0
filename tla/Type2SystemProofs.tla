------------------------- MODULE Type2SystemProofs -------------------------
(***************************************************************************)
(* The verdicts of verify_type2 are right, for every firmware, contract,   *)
(* pair of runs and amount of evidence: each run is what its program does  *)
(* to the peripheral of its tree, the bridge claims exactly the accesses   *)
(* that the static side knows (all of them or, when two look alike, none), *)
(* and the verdict is a function of two whole runs.                        *)
(***************************************************************************)
EXTENDS Type2System, FiniteSetTheorems, TLAPS

(* The inductive invariant.                                                *)

\* STATUS after the first n accesses of a program.
Shown(tree, program, n) ==
  IF tree = "variant" /\ \E i \in 1 .. n : Fires(program, i) THEN DEAD ELSE 0

\* The n-th access of a run is that of its program, on both traces, and a read
\* of STATUS and the sample show what the accesses before have made of it.
AccessAt(run, n) ==
  /\ run.rows[n].pc = n
  /\ run.rows[n].op = run.program[n].op /\ run.bus[n].op = run.program[n].op
  /\ run.rows[n].addr = run.program[n].addr /\ run.bus[n].addr = run.program[n].addr
  /\ run.rows[n].value = run.bus[n].value
  /\ run.program[n].op = "write" => run.bus[n].value = run.program[n].value
  /\ run.samples[n] = Shown(run.tree, run.program, n)
  /\ run.program[n].op = "read" /\ run.program[n].addr = "STATUS"
       => run.bus[n].value = Shown(run.tree, run.program, n)

Faithful(run) ==
  /\ run \in Runs
  /\ Len(run.rows) = Len(run.bus) /\ Len(run.samples) = Len(run.bus)
  /\ Len(run.bus) <= Len(run.program)
  /\ \A n \in 1 .. Len(run.bus) : AccessAt(run, n)

Complete(run) == Faithful(run) /\ Len(run.bus) = Len(run.program)

\* The registers are those after the accesses of a run so far.
Current(run, now) ==
  /\ now \in RegisterValues
  /\ now["STATUS"] = Shown(run.tree, run.program, Len(run.bus))
  /\ now["ENABLE"] = 1 <=> EnabledAt(run.program, Len(run.bus) + 1)

Staged ==
  /\ stage \in {"target", "reference", "verdict"}
  /\ stage = "target" => Current(target, regs) /\ reference = NoRun
  /\ stage = "reference" => Ended(target)
  /\ stage = "reference" /\ reference = NoRun => regs = ResetValues
  /\ stage = "reference" /\ reference # NoRun => Current(reference, regs)
  /\ stage # "verdict" => verdict = "none"

\* The verdict is that of the complete runs.
Judged ==
  stage = "verdict" =>
    /\ Ended(target) /\ (reference # NoRun => Ended(reference))
    /\ contract \in ContractsUsed /\ sourced \in BOOLEAN
    /\ verdict = Verify(contract, target, reference, sourced)

IInv ==
  /\ Faithful(target)
  /\ reference # NoRun => Faithful(reference)
  /\ Staged
  /\ Judged

-----------------------------------------------------------------------------
(* The registers, as the accesses before have left them.                   *)

LEMMA Fields ==
  ASSUME NEW p \in Seq(Instructions), NEW n \in 1 .. Len(p)
  PROVE  /\ p[n].op \in {"read", "write"} /\ p[n].addr \in Registers
         /\ p[n].value \in Data
         /\ p[n].static \in {"exact", "value unknown", "address unknown"}
<1>1. p[n] \in Instructions
  OBVIOUS
<1> QED
  BY <1>1 DEF Instructions

WritesEnable(i) == i.op = "write" /\ i.addr = "ENABLE"

\* One more access is the last write of ENABLE, or leaves it as it was.
LEMMA EnabledNext ==
  ASSUME NEW p, NEW n \in Nat, n > 0
  PROVE  EnabledAt(p, n + 1) <=> \/ WritesEnable(p[n]) /\ p[n].value = 1
                                 \/ ~WritesEnable(p[n]) /\ EnabledAt(p, n)
<1>1. (n + 1) - 1 = n /\ n \in 1 .. n
  OBVIOUS
<1>2. ASSUME EnabledAt(p, n + 1), WritesEnable(p[n]) PROVE p[n].value = 1
  <2>1. PICK i \in 1 .. n : /\ WritesEnable(p[i]) /\ p[i].value = 1
                            /\ \A k \in i + 1 .. n : ~WritesEnable(p[k])
    BY <1>1, <1>2 DEF EnabledAt, WritesEnable
  <2>2. n \notin i + 1 .. n
    BY <1>2, <2>1
  <2>3. i = n
    BY <2>2
  <2> QED
    BY <2>1, <2>3
<1>3. ASSUME EnabledAt(p, n + 1), ~WritesEnable(p[n]) PROVE EnabledAt(p, n)
  <2>1. PICK i \in 1 .. n : /\ WritesEnable(p[i]) /\ p[i].value = 1
                            /\ \A k \in i + 1 .. n : ~WritesEnable(p[k])
    BY <1>1, <1>3 DEF EnabledAt, WritesEnable
  <2>2. i # n
    BY <1>3, <2>1
  <2>3. i \in 1 .. n - 1 /\ \A k \in i + 1 .. n - 1 : k \in i + 1 .. n
    BY <2>2
  <2> QED
    BY <2>1, <2>3 DEF EnabledAt, WritesEnable
<1>4. ASSUME WritesEnable(p[n]), p[n].value = 1 PROVE EnabledAt(p, n + 1)
  <2>1. \A k \in n + 1 .. n : FALSE
    OBVIOUS
  <2> QED
    BY <1>1, <1>4, <2>1 DEF EnabledAt, WritesEnable
<1>5. ASSUME ~WritesEnable(p[n]), EnabledAt(p, n) PROVE EnabledAt(p, n + 1)
  <2>1. PICK i \in 1 .. n - 1 : /\ WritesEnable(p[i]) /\ p[i].value = 1
                                /\ \A k \in i + 1 .. n - 1 : ~WritesEnable(p[k])
    BY <1>5 DEF EnabledAt, WritesEnable
  <2>2. i \in 1 .. n /\ \A k \in i + 1 .. n : k \in i + 1 .. n - 1 \/ k = n
    OBVIOUS
  <2>3. \A k \in i + 1 .. n : ~WritesEnable(p[k])
    BY <1>5, <2>1, <2>2
  <2> QED
    BY <1>1, <2>1, <2>2, <2>3 DEF EnabledAt, WritesEnable
<1> QED
  BY <1>2, <1>3, <1>4, <1>5

LEMMA ShownNext ==
  ASSUME NEW t, NEW p, NEW n \in Nat, n > 0
  PROVE  Shown(t, p, n) = IF t = "variant" /\ Fires(p, n) THEN DEAD ELSE Shown(t, p, n - 1)
<1>1. \A i : i \in 1 .. n <=> i \in 1 .. n - 1 \/ i = n
  OBVIOUS
<1> QED
  BY <1>1 DEF Shown

LEMMA ShownStart ==
  ASSUME NEW t, NEW p PROVE Shown(t, p, 0) = 0 /\ ~EnabledAt(p, 1)
BY DEF Shown, EnabledAt

\* A request as the processor makes it.
Issued(i) == [addr |-> i.addr, we |-> i.op = "write", full |-> TRUE, wd |-> i.value]

LEMMA IssuedLegal ==
  ASSUME NEW i, i.addr \in Registers, i.op \in {"read", "write"}
  PROVE  /\ Legal(Issued(i)) <=> (i.addr = "STATUS" => i.op = "read")
         /\ Issued(i).we <=> i.op = "write"
         /\ Issued(i).addr = i.addr /\ Issued(i).wd = i.value
BY DEF Legal, Issued, Registers

\* What an access does to STATUS and to ENABLE.
LEMMA Effect ==
  ASSUME NEW t, NEW i, i.addr \in Registers, i.op \in {"read", "write"}, i.value \in Data,
         NEW g \in RegisterValues, NEW h, h = AfterAccess(t, g, Issued(i))
  PROVE  /\ h \in RegisterValues
         /\ h["STATUS"] = IF /\ t = "variant" /\ i.op = "write" /\ i.addr = "COMMAND"
                             /\ i.value = A5 /\ g["ENABLE"] = 1 THEN DEAD ELSE g["STATUS"]
         /\ h["ENABLE"] = IF WritesEnable(i) THEN i.value ELSE g["ENABLE"]
<1> DEFINE q == Issued(i)
<1>1. /\ Legal(q) <=> (i.addr = "STATUS" => i.op = "read")
      /\ q.we <=> i.op = "write"
      /\ q.addr = i.addr /\ q.wd = i.value
  BY IssuedLegal
<1>2. h = AfterAccess(t, g, q) /\ DEAD \in Data
  BY DataAssumption
<1> HIDE DEF q
<1>3. CASE i.op = "read" \/ i.addr = "STATUS"
  <2>1. ~(Legal(q) /\ q.we)
    BY <1>1, <1>3
  <2>2. h = g
    BY <1>2, <2>1 DEF AfterAccess
  <2> QED
    BY <1>3, <2>2 DEF WritesEnable
<1>4. CASE i.op = "write" /\ i.addr # "STATUS"
  <2>1. Legal(q) /\ q.we
    BY <1>1, <1>4
  <2>2. h = IF t = "variant" /\ q.addr = "COMMAND" /\ g["ENABLE"] = 1 /\ q.wd = A5
            THEN [[g EXCEPT ![q.addr] = q.wd] EXCEPT !["STATUS"] = DEAD]
            ELSE [g EXCEPT ![q.addr] = q.wd]
    BY <1>2, <2>1 DEF AfterAccess
  <2>3. i.addr \in {"ENABLE", "COMMAND"}
    BY <1>4 DEF Registers
  <2> QED
    BY <1>1, <1>2, <1>4, <2>2, <2>3 DEF RegisterValues, Registers, WritesEnable
<1> QED
  BY <1>3, <1>4

-----------------------------------------------------------------------------
(* One more access of a run.                                               *)

\* The run r goes on to r2, and the registers from g to h.
Executes(r, g, r2, h) ==
  LET n == Len(r.bus) + 1
      i == r.program[n]
      v == IF i.op = "read" THEN Answer(g, Issued(i)) ELSE i.value
  IN  /\ h = AfterAccess(r.tree, g, Issued(i))
      /\ r2 = [r EXCEPT
           !.rows = Append(@, [pc |-> n, op |-> i.op, addr |-> i.addr, value |-> v]),
           !.bus = Append(@, [op |-> i.op, addr |-> i.addr, value |-> v, late |-> FALSE]),
           !.samples = Append(@, h["STATUS"])]

Goes(r, g) == Faithful(r) /\ Current(r, g)

LEMMA AppendFacts ==
  ASSUME NEW T, NEW s \in Seq(T), NEW x \in T
  PROVE  /\ Append(s, x) \in Seq(T) /\ Len(Append(s, x)) = Len(s) + 1
         /\ \A i \in 1 .. Len(s) : Append(s, x)[i] = s[i]
         /\ Append(s, x)[Len(s) + 1] = x
         /\ Len(s) \in Nat
OBVIOUS

LEMMA ExecutedStep ==
  ASSUME NEW r, NEW g, Goes(r, g), Len(r.bus) < Len(r.program),
         NEW r2, NEW h, Executes(r, g, r2, h)
  PROVE  Goes(r2, h)
<1> DEFINE n == Len(r.bus) + 1
           i == r.program[n]
           v == IF i.op = "read" THEN Answer(g, Issued(i)) ELSE i.value
           row == [pc |-> n, op |-> i.op, addr |-> i.addr, value |-> v]
           tx == [op |-> i.op, addr |-> i.addr, value |-> v, late |-> FALSE]
<1>1. /\ r \in Runs /\ r.tree \in Trees /\ r.program \in Seq(Instructions)
      /\ r.rows \in Seq(Rows) /\ r.bus \in Seq(Transactions) /\ r.samples \in Seq(Data)
      /\ r.context \in {1, 2} /\ r.linked \in BOOLEAN
      /\ Len(r.rows) = Len(r.bus) /\ Len(r.samples) = Len(r.bus)
      /\ Len(r.program) \in Nat /\ Len(r.bus) \in Nat
      /\ \A k \in 1 .. Len(r.bus) : AccessAt(r, k)
  BY DEF Goes, Faithful, Runs
<1>2. n \in 1 .. Len(r.program) /\ n \in Nat /\ n > 0 /\ n - 1 = Len(r.bus)
  BY <1>1
<1>3. /\ i.op \in {"read", "write"} /\ i.addr \in Registers /\ i.value \in Data
  BY <1>1, <1>2, Fields
<1>4. /\ g \in RegisterValues
      /\ g["STATUS"] = Shown(r.tree, r.program, n - 1)
      /\ g["ENABLE"] = 1 <=> EnabledAt(r.program, n)
  BY <1>1, <1>2 DEF Goes, Current
<1>5. h = AfterAccess(r.tree, g, Issued(i))
  BY DEF Executes
<1>6. r2 = [r EXCEPT !.rows = Append(@, row), !.bus = Append(@, tx),
                     !.samples = Append(@, h["STATUS"])]
  BY DEF Executes
<1>7. /\ h \in RegisterValues
      /\ h["STATUS"] = IF /\ r.tree = "variant" /\ i.op = "write" /\ i.addr = "COMMAND"
                          /\ i.value = A5 /\ g["ENABLE"] = 1 THEN DEAD ELSE g["STATUS"]
      /\ h["ENABLE"] = IF WritesEnable(i) THEN i.value ELSE g["ENABLE"]
  BY <1>3, <1>4, <1>5, Effect
<1>8. v \in Data
  <2>1. 0 \in Data
    BY DataAssumption
  <2>2. Issued(i).addr \in Registers
    BY <1>3 DEF Issued
  <2> QED
    BY <1>3, <1>4, <2>1, <2>2 DEF Answer, RegisterValues
<1>9. row \in Rows /\ tx \in Transactions /\ h["STATUS"] \in Data
  BY <1>2, <1>3, <1>7, <1>8 DEF Rows, Transactions, RegisterValues, Registers
<1>10. i.op = "read" /\ i.addr = "STATUS" => v = g["STATUS"]
  BY IssuedLegal, <1>3 DEF Answer
<1>11. h["STATUS"] = Shown(r.tree, r.program, n)
  <2>1. Fires(r.program, n) <=> /\ i.op = "write" /\ i.addr = "COMMAND"
                                /\ i.value = A5 /\ g["ENABLE"] = 1
    BY <1>4 DEF Fires
  <2>2. Shown(r.tree, r.program, n)
          = IF r.tree = "variant" /\ Fires(r.program, n) THEN DEAD
            ELSE Shown(r.tree, r.program, n - 1)
    BY <1>2, ShownNext
  <2> HIDE DEF n, i
  <2> QED
    BY <1>4, <1>7, <2>1, <2>2
<1>12. i.op = "read" => h["STATUS"] = g["STATUS"]
  BY <1>7
<1>13. h["ENABLE"] = 1 <=> EnabledAt(r.program, n + 1)
  <2>1. EnabledAt(r.program, n + 1) <=> \/ WritesEnable(i) /\ i.value = 1
                                        \/ ~WritesEnable(i) /\ EnabledAt(r.program, n)
    BY <1>2, EnabledNext
  <2> HIDE DEF n, i
  <2> QED
    BY <1>4, <1>7, <2>1
<1> HIDE DEF row, tx, v
<1>14. /\ r2 \in Runs
       /\ r2.tree = r.tree /\ r2.program = r.program
       /\ r2.rows = Append(r.rows, row) /\ r2.bus = Append(r.bus, tx)
       /\ r2.samples = Append(r.samples, h["STATUS"])
  <2>1. /\ Append(r.rows, row) \in Seq(Rows) /\ Append(r.bus, tx) \in Seq(Transactions)
        /\ Append(r.samples, h["STATUS"]) \in Seq(Data)
    BY <1>1, <1>9, AppendFacts
  <2> HIDE DEF i, n
  <2> QED
    BY <1>1, <1>6, <2>1 DEF Runs
<1>15. /\ Len(r2.rows) = n /\ Len(r2.bus) = n /\ Len(r2.samples) = n
       /\ \A k \in 1 .. n - 1 : /\ r2.rows[k] = r.rows[k] /\ r2.bus[k] = r.bus[k]
                                /\ r2.samples[k] = r.samples[k]
       /\ r2.rows[n] = row /\ r2.bus[n] = tx /\ r2.samples[n] = h["STATUS"]
  <2>1. Len(Append(r.rows, row)) = n /\ Append(r.rows, row)[n] = row
        /\ \A k \in 1 .. n - 1 : Append(r.rows, row)[k] = r.rows[k]
    BY <1>1, <1>2, <1>9, AppendFacts
  <2>2. Len(Append(r.bus, tx)) = n /\ Append(r.bus, tx)[n] = tx
        /\ \A k \in 1 .. n - 1 : Append(r.bus, tx)[k] = r.bus[k]
    BY <1>1, <1>2, <1>9, AppendFacts
  <2>3. Len(Append(r.samples, h["STATUS"])) = n /\ Append(r.samples, h["STATUS"])[n] = h["STATUS"]
        /\ \A k \in 1 .. n - 1 : Append(r.samples, h["STATUS"])[k] = r.samples[k]
    BY <1>1, <1>2, <1>9, AppendFacts
  <2> HIDE DEF n
  <2> QED
    BY <1>14, <2>1, <2>2, <2>3
<1>16. ASSUME NEW k \in 1 .. n - 1 PROVE AccessAt(r2, k)
  <2>1. AccessAt(r, k)
    BY <1>1, <1>2
  <2> QED
    BY <1>14, <1>15, <2>1 DEF AccessAt
<1>17. AccessAt(r2, n)
  <2>1. row.pc = n /\ row.op = i.op /\ row.addr = i.addr /\ row.value = v
        /\ tx.op = i.op /\ tx.addr = i.addr /\ tx.value = v
    BY DEF row, tx
  <2>2. i.op = "write" => v = i.value
    BY DEF v
  <2>3. r2.program[n] = i
    BY <1>14
  <2>4. i.op = "read" /\ i.addr = "STATUS" => v = Shown(r.tree, r.program, n)
    BY <1>10, <1>11, <1>12
  <2> HIDE DEF n, i
  <2> QED
    BY <1>11, <1>14, <1>15, <2>1, <2>2, <2>3, <2>4 DEF AccessAt
<1>18. \A k \in 1 .. n : AccessAt(r2, k)
  <2>1. \A k \in 1 .. n : k \in 1 .. n - 1 \/ k = n
    BY <1>2
  <2> HIDE DEF n
  <2> QED
    BY <1>16, <1>17, <2>1
<1>19. Faithful(r2)
  BY <1>2, <1>14, <1>15, <1>18 DEF Faithful
<1>20. Current(r2, h)
  BY <1>7, <1>11, <1>13, <1>14, <1>15 DEF Current
<1> QED
  BY <1>19, <1>20 DEF Goes

\* A run that has not begun.
LEMMA FreshRun ==
  ASSUME NEW t \in Trees, NEW p \in Seq(Instructions), NEW c \in {1, 2}
  PROVE  Goes(NewRun(t, p, c), ResetValues)
<1> DEFINE r == NewRun(t, p, c)
<1>1. r \in Runs
  BY DEF NewRun, Runs
<1>2. /\ r.tree = t /\ r.program = p /\ Len(r.rows) = 0 /\ Len(r.bus) = 0
      /\ Len(r.samples) = 0 /\ Len(p) \in Nat
  BY DEF NewRun
<1>3. ResetValues \in RegisterValues /\ ResetValues["STATUS"] = 0 /\ ResetValues["ENABLE"] = 0
  BY DataAssumption DEF ResetValues, RegisterValues, Registers
<1> HIDE DEF r
<1>4. Faithful(r)
  BY <1>1, <1>2 DEF Faithful
<1>5. Current(r, ResetValues)
  <2>1. Shown(t, p, 0) = 0 /\ ~EnabledAt(p, 0 + 1)
    BY ShownStart
  <2> QED
    BY <1>2, <1>3, <2>1 DEF Current
<1> QED
  BY <1>4, <1>5 DEF Goes, r

\* The observation link is no part of what happened.
LEMMA Relinked ==
  ASSUME NEW r, Faithful(r), NEW l \in BOOLEAN, NEW r2, r2 = [r EXCEPT !.linked = l]
  PROVE  /\ Faithful(r2) /\ r2.bus = r.bus /\ r2.program = r.program
         /\ r2.tree = r.tree /\ r2.context = r.context
         /\ r2.rows = r.rows /\ r2.samples = r.samples
<1>1. r \in Runs
  BY DEF Faithful
<1>2. /\ r2 \in Runs /\ r2.bus = r.bus /\ r2.program = r.program
      /\ r2.tree = r.tree /\ r2.context = r.context
      /\ r2.rows = r.rows /\ r2.samples = r.samples
  BY <1>1 DEF Runs
<1> QED
  BY <1>2 DEF Faithful, AccessAt

-----------------------------------------------------------------------------
(* Every step keeps the invariant.                                         *)

LEMMA InitInvariant == Init => IInv
<1> SUFFICES ASSUME Init PROVE IInv
  OBVIOUS
<1>1. PICK t \in Trees, p \in Programs : target = NewRun(t, p, 1)
  BY DEF Init
<1>2. p \in Seq(Instructions)
  BY ProgramsAssumption
<1>3. Goes(target, regs)
  BY <1>1, <1>2, FreshRun DEF Init
<1>4. reference = NoRun /\ stage = "target" /\ verdict = "none"
  BY DEF Init
<1> QED
  BY <1>3, <1>4 DEF Goes, IInv, Staged, Judged

LEMMA ExtendedExecutes ==
  ASSUME NEW r, NEW g, NEW r2, NEW h,
         LET pc == Len(r.bus) + 1
             i  == r.program[pc]
             q  == [addr |-> i.addr, we |-> i.op = "write", full |-> TRUE, wd |-> i.value]
             v  == IF i.op = "read" THEN Answer(g, q) ELSE i.value
             after == AfterAccess(r.tree, g, q)
         IN  /\ h = after
             /\ r2 = [r EXCEPT
                  !.rows = Append(@, [pc |-> pc, op |-> i.op, addr |-> i.addr, value |-> v]),
                  !.bus = Append(@, [op |-> i.op, addr |-> i.addr, value |-> v, late |-> FALSE]),
                  !.samples = Append(@, after["STATUS"])]
  PROVE  Executes(r, g, r2, h)
BY DEF Executes, Issued

LEMMA ExecuteTargetStep == IInv /\ ExecuteTarget => IInv'
<1> SUFFICES ASSUME IInv, ExecuteTarget PROVE IInv'
  OBVIOUS
<1>1. stage = "target" /\ ~Ended(target) /\ Extended(target)
      /\ UNCHANGED <<reference, stage, contract, sourced, verdict>>
  BY DEF ExecuteTarget
<1>2. Goes(target, regs) /\ reference = NoRun /\ verdict = "none"
  BY <1>1 DEF IInv, Staged, Goes
<1>3. PICK r, g, r2, h : r = target /\ g = regs /\ r2 = target' /\ h = regs'
  OBVIOUS
<1>4. Executes(r, g, r2, h)
  BY <1>1, <1>3, ExtendedExecutes DEF Extended
<1>5. Goes(r, g) /\ Len(r.bus) <= Len(r.program)
  BY <1>2, <1>3 DEF Goes, Faithful
<1>6. Len(r.bus) < Len(r.program)
  <2>1. Len(r.bus) \in Nat /\ Len(r.program) \in Nat
    BY <1>5 DEF Goes, Faithful, Runs
  <2>2. Len(r.bus) # Len(r.program) \/ target = NoRun
    BY <1>1, <1>3 DEF Ended
  <2>3. target # NoRun
    BY <1>3, <1>5, NoRunAssumption DEF Goes, Faithful
  <2> QED
    BY <1>5, <2>1, <2>2, <2>3
<1>7. Goes(r2, h)
  BY <1>4, <1>5, <1>6, ExecutedStep
<1>8. Faithful(target)' /\ Current(target, regs)'
  BY <1>3, <1>7 DEF Goes
<1> QED
  BY <1>1, <1>2, <1>8 DEF IInv, Staged, Judged

LEMMA ExecuteReferenceStep == IInv /\ ExecuteReference => IInv'
<1> SUFFICES ASSUME IInv, ExecuteReference PROVE IInv'
  OBVIOUS
<1>1. stage = "reference" /\ reference # NoRun /\ ~Ended(reference) /\ Extended(reference)
      /\ UNCHANGED <<target, stage, contract, sourced, verdict>>
  BY DEF ExecuteReference
<1>2. Goes(reference, regs) /\ Ended(target) /\ verdict = "none"
  BY <1>1 DEF IInv, Staged, Goes
<1>3. PICK r, g, r2, h : r = reference /\ g = regs /\ r2 = reference' /\ h = regs'
  OBVIOUS
<1>4. Executes(r, g, r2, h)
  BY <1>1, <1>3, ExtendedExecutes DEF Extended
<1>5. Goes(r, g) /\ Len(r.bus) <= Len(r.program)
  BY <1>2, <1>3 DEF Goes, Faithful
<1>6. Len(r.bus) < Len(r.program)
  <2>1. Len(r.bus) \in Nat /\ Len(r.program) \in Nat
    BY <1>5 DEF Goes, Faithful, Runs
  <2>2. Len(r.bus) # Len(r.program)
    BY <1>1, <1>3 DEF Ended
  <2> QED
    BY <1>5, <2>1, <2>2
<1>7. Goes(r2, h)
  BY <1>4, <1>5, <1>6, ExecutedStep
<1>8. Faithful(reference)' /\ Current(reference, regs)' /\ reference' # NoRun
  BY <1>3, <1>7, NoRunAssumption DEF Goes, Faithful
<1>9. Faithful(target)' /\ Ended(target)'
  BY <1>1, <1>2 DEF IInv, Faithful, AccessAt, Shown, Ended
<1> QED
  BY <1>1, <1>2, <1>8, <1>9 DEF IInv, Staged, Judged

LEMMA EndTargetStep == IInv /\ EndTarget => IInv'
<1> SUFFICES ASSUME IInv, EndTarget PROVE IInv'
  OBVIOUS
<1>1. /\ stage = "target" /\ Ended(target) /\ regs' = ResetValues /\ stage' = "reference"
      /\ UNCHANGED <<reference, contract, sourced, verdict>>
  BY DEF EndTarget
<1>2. PICK l \in BOOLEAN : target' = [target EXCEPT !.linked = l]
  BY DEF EndTarget
<1>3. Faithful(target) /\ reference = NoRun /\ verdict = "none"
  BY <1>1 DEF IInv, Staged
<1>4. PICK r, r2 : r = target /\ r2 = target'
  OBVIOUS
<1>5. Faithful(r2) /\ r2.bus = r.bus /\ r2.program = r.program
  BY <1>2, <1>3, <1>4, Relinked
<1>6. Faithful(target)' /\ Ended(target)'
  BY <1>1, <1>4, <1>5, NoRunAssumption DEF Ended, Faithful
<1> QED
  BY <1>1, <1>3, <1>6 DEF IInv, Staged, Judged

LEMMA StartReferenceStep == IInv /\ StartReference => IInv'
<1> SUFFICES ASSUME IInv, StartReference PROVE IInv'
  OBVIOUS
<1>1. /\ stage = "reference" /\ reference = NoRun
      /\ UNCHANGED <<target, regs, stage, contract, sourced, verdict>>
  BY DEF StartReference
<1>2. Faithful(target) /\ Ended(target) /\ regs = ResetValues /\ verdict = "none"
  BY <1>1 DEF IInv, Staged
<1>3. PICK t \in Trees, p \in {target.program, OtherProgram}, c \in {1, 2} :
        reference' = NewRun(t, p, c)
  BY DEF StartReference
<1>4. p \in Seq(Instructions)
  BY <1>2, ProgramsAssumption DEF Faithful, Runs
<1>5. PICK r2 : r2 = reference'
  OBVIOUS
<1>6. Goes(r2, ResetValues)
  BY <1>3, <1>4, <1>5, FreshRun
<1>7. Faithful(reference)' /\ Current(reference, regs)' /\ reference' # NoRun
  BY <1>1, <1>2, <1>5, <1>6, NoRunAssumption DEF Goes, Faithful
<1>8. Faithful(target)' /\ Ended(target)'
  BY <1>1, <1>2 DEF Faithful, AccessAt, Shown, Ended
<1> QED
  BY <1>1, <1>2, <1>7, <1>8 DEF IInv, Staged, Judged

LEMMA LoseReferenceStep == IInv /\ LoseReference => IInv'
<1> SUFFICES ASSUME IInv, LoseReference PROVE IInv'
  OBVIOUS
<1>1. /\ stage = "reference" /\ reference' = NoRun /\ regs' = ResetValues
      /\ UNCHANGED <<target, stage, contract, sourced, verdict>>
  BY DEF LoseReference
<1>2. Faithful(target) /\ Ended(target) /\ verdict = "none"
  BY <1>1 DEF IInv, Staged
<1>3. Faithful(target)' /\ Ended(target)'
  BY <1>1, <1>2 DEF Faithful, AccessAt, Shown, Ended
<1> QED
  BY <1>1, <1>2, <1>3 DEF IInv, Staged, Judged

LEMMA VerifyRunsStep == IInv /\ VerifyRuns => IInv'
<1> SUFFICES ASSUME IInv, VerifyRuns PROVE IInv'
  OBVIOUS
<1>1. /\ stage = "reference" /\ (reference = NoRun \/ Ended(reference))
      /\ contract' \in ContractsUsed /\ sourced' \in BOOLEAN
      /\ verdict' = Verify(contract', target, reference', sourced')
      /\ stage' = "verdict" /\ UNCHANGED <<target, regs>>
  BY DEF VerifyRuns
<1>2. PICK l \in BOOLEAN :
        reference' = IF reference = NoRun THEN NoRun ELSE [reference EXCEPT !.linked = l]
  BY DEF VerifyRuns
<1>3. Faithful(target) /\ Ended(target) /\ (reference # NoRun => Faithful(reference))
  BY <1>1 DEF IInv, Staged
<1>4. reference' # NoRun => Faithful(reference)' /\ Ended(reference)'
  <2> SUFFICES ASSUME reference' # NoRun PROVE Faithful(reference)' /\ Ended(reference)'
    OBVIOUS
  <2>1. reference # NoRun /\ reference' = [reference EXCEPT !.linked = l]
    BY <1>2
  <2>2. PICK r, r2 : r = reference /\ r2 = reference'
    OBVIOUS
  <2>3. Faithful(r2) /\ r2.bus = r.bus /\ r2.program = r.program
    BY <1>3, <2>1, <2>2, Relinked
  <2> QED
    BY <1>1, <2>1, <2>2, <2>3 DEF Ended
<1>5. Faithful(target)' /\ Ended(target)'
  BY <1>1, <1>3 DEF Faithful, AccessAt, Shown, Ended
<1>6. verdict' = Verify(contract, target, reference, sourced)'
  BY <1>1
<1>7. Judged'
  BY <1>1, <1>4, <1>5, <1>6 DEF Judged
<1> QED
  BY <1>1, <1>4, <1>5, <1>7 DEF IInv, Staged

LEMMA StutterStep == IInv /\ UNCHANGED vars => IInv'
<1> SUFFICES ASSUME IInv, UNCHANGED vars PROVE IInv'
  OBVIOUS
<1>1. UNCHANGED <<target, reference, regs, stage, contract, sourced, verdict>>
  BY DEF vars
<1>2. /\ Faithful(target)' <=> Faithful(target)
      /\ Faithful(reference)' <=> Faithful(reference)
  BY <1>1 DEF Faithful, AccessAt, Shown
<1>3. Staged'
  BY <1>1 DEF IInv, Staged, Current, Ended, Shown
<1>4. Judged'
  <2>1. Verify(contract, target, reference, sourced)' = Verify(contract, target, reference, sourced)
    BY <1>1
  <2> QED
    BY <1>1, <2>1 DEF IInv, Judged, Ended
<1> QED
  BY <1>1, <1>2, <1>3, <1>4 DEF IInv

\* The inductive invariant of the experiment: each run is what its program does
\* to the peripheral of its tree, and the verdict is that of two whole runs.
THEOREM SystemInvariant == Spec => []IInv
<1>1. IInv /\ [Next]_vars => IInv'
  BY ExecuteTargetStep, ExecuteReferenceStep, EndTargetStep, StartReferenceStep,
     LoseReferenceStep, VerifyRunsStep, StutterStep DEF Next
<1> QED
  BY <1>1, InitInvariant, PTL DEF Spec

-----------------------------------------------------------------------------
(* What the verifier makes of a complete run.                              *)

\* The static side knows what a binding of the access needs.
Known(i) == i.static = "exact" \/ (i.op = "read" /\ i.static = "value unknown")

LEMMA AtAccess ==
  ASSUME NEW r, Complete(r), NEW n \in 1 .. Len(r.bus)
  PROVE  /\ AccessAt(r, n) /\ n \in 1 .. Len(r.program)
         /\ r.program[n].op \in {"read", "write"} /\ r.program[n].addr \in Registers
         /\ r.program[n].value \in Data /\ r.bus[n].value \in Data
         /\ r.program[n].static \in {"exact", "value unknown", "address unknown"}
<1>1. /\ r.program \in Seq(Instructions) /\ r.bus \in Seq(Transactions)
      /\ Len(r.program) = Len(r.bus) /\ AccessAt(r, n)
  BY DEF Complete, Faithful, Runs
<1>2. n \in 1 .. Len(r.program) /\ r.bus[n] \in Transactions
  BY <1>1
<1> QED
  BY <1>1, <1>2, Fields DEF Transactions

LEMMA Domains ==
  ASSUME NEW r, Complete(r)
  PROVE  /\ Len(r.bus) \in Nat /\ Len(r.program) = Len(r.bus)
         /\ DOMAIN r.program = 1 .. Len(r.bus) /\ DOMAIN r.bus = 1 .. Len(r.bus)
         /\ DOMAIN r.rows = 1 .. Len(r.bus)
BY DEF Complete, Faithful, Runs

\* The two traces have the same contents.
LEMMA SameContents ==
  ASSUME NEW r, Complete(r)
  PROVE  /\ \A n \in 1 .. Len(r.bus) : Key(r.rows[n]) = Key(r.bus[n])
         /\ Repeats(r.rows) <=> Repeats(r.bus)
         /\ Keys(r.rows) = Keys(r.bus)
<1>1. ASSUME NEW n \in 1 .. Len(r.bus) PROVE Key(r.rows[n]) = Key(r.bus[n])
  <2>1. AccessAt(r, n)
    BY AtAccess
  <2> QED
    BY <2>1 DEF AccessAt, Key
<1> QED
  BY <1>1, Domains DEF Repeats, Keys

\* The one row of an instruction, and the one transaction of that row.
LEMMA RowOfSite ==
  ASSUME NEW r, Complete(r), NEW pc \in 1 .. Len(r.bus)
  PROVE  /\ {i \in DOMAIN r.rows : r.rows[i].pc = pc} = {pc}
         /\ Cardinality({i \in DOMAIN r.rows : r.rows[i].pc = pc}) = 1
         /\ ~Repeats(r.bus) => Partner(r.rows[pc], r.bus) = pc
<1>1. ASSUME NEW i \in DOMAIN r.rows PROVE r.rows[i].pc = i
  <2>1. i \in 1 .. Len(r.bus)
    BY Domains
  <2>2. AccessAt(r, i)
    BY <2>1, AtAccess
  <2> QED
    BY <2>2 DEF AccessAt
<1>2. {i \in DOMAIN r.rows : r.rows[i].pc = pc} = {pc}
  BY <1>1, Domains
<1>3. Cardinality({pc}) = 1
  BY FS_Singleton
<1>4. ASSUME ~Repeats(r.bus) PROVE Partner(r.rows[pc], r.bus) = pc
  <2>1. pc \in DOMAIN r.bus /\ Key(r.bus[pc]) = Key(r.rows[pc])
    BY Domains, SameContents
  <2>2. \A j \in DOMAIN r.bus : Key(r.bus[j]) = Key(r.rows[pc]) => j = pc
    BY <1>4, <2>1 DEF Repeats
  <2> QED
    BY <2>1, <2>2 DEF Partner
<1> QED
  BY <1>2, <1>3, <1>4

LEMMA StaticAgrees ==
  ASSUME NEW r, Complete(r), NEW pc \in 1 .. Len(r.bus)
  PROVE  InTarget(r.program, pc) /\ StaticProcessor(Fact(r.program, pc), r.rows[pc]) = "bound"
           <=> Known(r.program[pc])
<1> DEFINE i == r.program[pc]
           f == Fact(r.program, pc)
           row == r.rows[pc]
<1>1. /\ AccessAt(r, pc)
      /\ i.op \in {"read", "write"} /\ i.addr \in Registers /\ i.value \in Data
      /\ i.static \in {"exact", "value unknown", "address unknown"}
  BY AtAccess
<1>2. /\ f.pc = pc /\ f.op = i.op
      /\ f.addr = IF i.static = "address unknown" THEN Unknown ELSE i.addr
      /\ f.value = IF i.op = "read" \/ i.static = "value unknown" THEN Unknown ELSE i.value
  BY DEF Fact
<1>3. /\ row.pc = pc /\ row.op = i.op /\ row.addr = i.addr
      /\ i.op = "write" => row.value = i.value
  BY <1>1 DEF AccessAt
<1>4. i.addr # Unknown /\ i.value # Unknown
  BY <1>1, UnknownAssumption
<1> HIDE DEF i, f, row
<1>5. InTarget(r.program, pc) <=> i.static # "address unknown"
  BY DEF InTarget, i
<1>6. Known(i) /\ InTarget(r.program, pc) => StaticProcessor(f, row) = "bound"
  BY <1>1, <1>2, <1>3, <1>4, <1>5 DEF Known, StaticProcessor
<1>7. StaticProcessor(f, row) = "bound" /\ InTarget(r.program, pc) => Known(i)
  BY <1>1, <1>2, <1>3, <1>4, <1>5 DEF Known, StaticProcessor
<1>8. Known(i) => InTarget(r.program, pc)
  BY <1>5 DEF Known
<1> QED
  BY <1>6, <1>7, <1>8 DEF i, f, row

LEMMA BindingOfSite ==
  ASSUME NEW r, Complete(r), NEW pc \in 1 .. Len(r.bus)
  PROVE  /\ Repeats(r.bus) => Binding(r.program, r.rows, r.bus, TRUE, pc).status # "bound"
         /\ ~Repeats(r.bus) =>
              /\ Binding(r.program, r.rows, r.bus, TRUE, pc).status = "bound"
                   <=> StaticProcessor(Fact(r.program, pc), r.rows[pc]) = "bound"
              /\ Binding(r.program, r.rows, r.bus, TRUE, pc).bus = pc
<1> DEFINE b == Binding(r.program, r.rows, r.bus, TRUE, pc)
           sp == StaticProcessor(Fact(r.program, pc), r.rows[pc])
           pb == SemanticBijection(r.rows, r.bus, TRUE)
<1>1. (CHOOSE i \in {pc} : TRUE) = pc
  OBVIOUS
<1>2. b = [status |-> Both(sp, pb), bus |-> IF pb = "bound" THEN Partner(r.rows[pc], r.bus) ELSE 0]
  BY <1>1, RowOfSite DEF Binding
<1> HIDE DEF b, sp, pb
<1>3. b.status = Both(sp, pb) /\ b.bus = IF pb = "bound" THEN Partner(r.rows[pc], r.bus) ELSE 0
  BY <1>2
<1>4. pb = IF Repeats(r.bus) THEN "unknown" ELSE "bound"
  BY SameContents DEF SemanticBijection, pb
<1>5. b.status = "bound" <=> sp = "bound" /\ pb = "bound"
  BY <1>3 DEF Both
<1> QED
  BY <1>3, <1>4, <1>5, RowOfSite DEF b, sp

\* What the capabilities claim: everything that the static side knows, unless
\* two accesses look alike, and then nothing.
LEMMA ClaimedIsKnown ==
  ASSUME NEW r, Complete(r), NEW j
  PROVE  j \in Claimed(r)
           <=> j \in 1 .. Len(r.bus) /\ ~Repeats(r.bus) /\ Known(r.program[j])
<1>1. ASSUME NEW pc \in 1 .. Len(r.bus)
      PROVE  pc \in Sites(r) <=> ~Repeats(r.bus) /\ Known(r.program[pc])
  <2>1. pc \in Sites(r)
          <=> InTarget(r.program, pc) /\ Binding(r.program, r.rows, r.bus, TRUE, pc).status = "bound"
    BY Domains DEF Sites, BoundSites
  <2> QED
    BY <2>1, BindingOfSite, StaticAgrees
<1>2. Sites(r) \subseteq 1 .. Len(r.bus)
  BY Domains DEF Sites, BoundSites
<1>3. ASSUME NEW pc \in Sites(r) PROVE Binding(r.program, r.rows, r.bus, TRUE, pc).bus = pc
  BY <1>1, <1>2, BindingOfSite
<1> HIDE DEF Sites
<1>4. j \in Claimed(r) <=> j \in Sites(r)
  BY <1>3 DEF Claimed
<1> QED
  BY <1>1, <1>2, <1>4

-----------------------------------------------------------------------------
(* The access atoms and the state before the command.                      *)

\* What the evidence says of one access requirement.
AtomFacts(r, atom) ==
  LET a == AccessAtom(atom, r) IN
  /\ a.status \in Verdicts
  /\ a.status = "supported" =>
       a.tx \in 1 .. Len(r.bus) /\ Is(r.bus[a.tx], atom) /\ ~Repeats(r.bus)
  /\ a.status # "supported" => a.tx = 0
  /\ \A j \in 1 .. Len(r.bus) :
       Is(r.bus[j], atom) /\ Known(r.program[j]) =>
         /\ a.status # "contradicted"
         /\ ~Repeats(r.bus) => a.status = "supported" /\ a.tx = j

LEMMA AtomSound ==
  ASSUME NEW r, Complete(r), NEW atom
  PROVE  AtomFacts(r, atom)
<1> DEFINE a == AccessAtom(atom, r)
           exact == {j \in Claimed(r) : Is(r.bus[j], atom)}
           conflicting == {j \in Claimed(r) : Conflicts(r.bus[j], atom)}
<1>1. a = CASE Cardinality(exact) = 1 ->
                 [status |-> "supported", tx |-> CHOOSE j \in exact : TRUE]
            [] exact = {} /\ Cardinality(conflicting) = 1 ->
                 [status |-> "contradicted", tx |-> 0]
            [] OTHER -> None
  BY DEF AccessAtom
<1>2. ASSUME NEW i \in exact, NEW j \in exact PROVE i = j
  <2>1. /\ i \in 1 .. Len(r.bus) /\ j \in 1 .. Len(r.bus) /\ ~Repeats(r.bus)
        /\ Is(r.bus[i], atom) /\ Is(r.bus[j], atom)
    BY ClaimedIsKnown
  <2>2. Key(r.bus[i]) = Key(r.bus[j])
    BY <2>1 DEF Is, Key
  <2> QED
    BY <2>1, <2>2, Domains DEF Repeats
<1>3. Cardinality({}) = 0 /\ \A j : Cardinality({j}) = 1
  BY FS_EmptySet, FS_Singleton
<1>4. Repeats(r.bus) => exact = {} /\ conflicting = {}
  BY ClaimedIsKnown
<1>5. ASSUME NEW j \in exact
      PROVE  a.status = "supported" /\ a.tx = j /\ ~Repeats(r.bus)
             /\ j \in 1 .. Len(r.bus) /\ Is(r.bus[j], atom)
  <2>1. exact = {j}
    BY <1>2
  <2>2. Cardinality(exact) = 1 /\ (CHOOSE k \in exact : TRUE) = j
    BY <1>3, <2>1
  <2>3. ~Repeats(r.bus) /\ j \in 1 .. Len(r.bus) /\ Is(r.bus[j], atom)
    BY ClaimedIsKnown
  <2> HIDE DEF a, exact, conflicting
  <2>4. a = [status |-> "supported", tx |-> j]
    BY <1>1, <2>2
  <2> QED
    BY <2>3, <2>4
<1>6. ASSUME exact = {}
      PROVE  a.status \in {"unknown", "contradicted"} /\ a.tx = 0
             /\ (Repeats(r.bus) => a.status = "unknown")
  <2>1. Cardinality(exact) # 1 /\ (Repeats(r.bus) => Cardinality(conflicting) # 1)
    BY <1>3, <1>4, <1>6
  <2> HIDE DEF a, exact, conflicting
  <2>2. \/ a = [status |-> "contradicted", tx |-> 0] /\ ~Repeats(r.bus)
        \/ a = None
    BY <1>1, <2>1
  <2> QED
    BY <2>2 DEF None
<1>7. ASSUME NEW j \in 1 .. Len(r.bus), Is(r.bus[j], atom), Known(r.program[j]), ~Repeats(r.bus)
      PROVE  j \in exact
  BY <1>7, ClaimedIsKnown
<1> HIDE DEF a, exact, conflicting
<1>8. a.status \in Verdicts /\ (a.status # "supported" => a.tx = 0)
  BY <1>5, <1>6 DEF Verdicts
<1>9. ASSUME a.status = "supported"
      PROVE  a.tx \in 1 .. Len(r.bus) /\ Is(r.bus[a.tx], atom) /\ ~Repeats(r.bus)
  <2>1. PICK j : j \in exact
    BY <1>6, <1>9
  <2> QED
    BY <1>5, <2>1
<1>10. ASSUME NEW j \in 1 .. Len(r.bus), Is(r.bus[j], atom), Known(r.program[j])
       PROVE  /\ a.status # "contradicted"
              /\ ~Repeats(r.bus) => a.status = "supported" /\ a.tx = j
  <2>1. CASE Repeats(r.bus)
    <3>1. exact = {}
      BY <1>4, <2>1
    <3> QED
      BY <1>6, <2>1, <3>1
  <2>2. CASE ~Repeats(r.bus)
    <3>1. j \in exact
      BY <1>7, <1>10, <2>2
    <3> QED
      BY <1>5, <3>1
  <2> QED
    BY <2>1, <2>2
<1> QED
  BY <1>8, <1>9, <1>10 DEF AtomFacts, a

\* The accepted writes show whether the peripheral was enabled.
LEMMA EnabledBeforeIsEnabled ==
  ASSUME NEW r, Complete(r), NEW n \in 1 .. Len(r.bus)
  PROVE  EnabledBefore(r, n) <=> EnabledAt(r.program, n)
<1>1. Len(r.bus) \in Nat
  BY Domains
<1>2. ASSUME NEW j \in 1 .. n - 1
      PROVE  /\ j \in EnableWrites(r, n) <=> WritesEnable(r.program[j])
             /\ WritesEnable(r.program[j]) => r.bus[j].value = r.program[j].value
  <2>1. j \in 1 .. Len(r.bus)
    BY <1>1
  <2>2. AccessAt(r, j)
    BY <2>1, AtAccess
  <2> QED
    BY <2>2 DEF AccessAt, EnableWrites, WritesEnable
<1>3. EnableWrites(r, n) \subseteq 1 .. n - 1
  BY DEF EnableWrites
<1>4. ASSUME EnabledBefore(r, n) PROVE EnabledAt(r.program, n)
  <2>1. PICK j \in EnableWrites(r, n) :
          (\A k \in EnableWrites(r, n) : k <= j) /\ r.bus[j].value = 1
    BY <1>4 DEF EnabledBefore
  <2>2. j \in 1 .. n - 1 /\ WritesEnable(r.program[j]) /\ r.program[j].value = 1
    BY <1>2, <1>3, <2>1
  <2>3. ASSUME NEW k \in j + 1 .. n - 1 PROVE ~WritesEnable(r.program[k])
    <3>1. k \in 1 .. n - 1 /\ ~(k <= j)
      BY <2>2
    <3> QED
      BY <1>2, <2>1, <3>1
  <2> QED
    BY <2>2, <2>3 DEF EnabledAt, WritesEnable
<1>5. ASSUME EnabledAt(r.program, n) PROVE EnabledBefore(r, n)
  <2>1. PICK i \in 1 .. n - 1 : /\ WritesEnable(r.program[i]) /\ r.program[i].value = 1
                                /\ \A k \in i + 1 .. n - 1 : ~WritesEnable(r.program[k])
    BY <1>5 DEF EnabledAt, WritesEnable
  <2>2. i \in EnableWrites(r, n) /\ r.bus[i].value = 1
    BY <1>2, <2>1
  <2>3. ASSUME NEW k \in EnableWrites(r, n) PROVE k <= i
    <3>1. k \in 1 .. n - 1 /\ WritesEnable(r.program[k])
      BY <1>2, <1>3
    <3>2. k \notin i + 1 .. n - 1
      BY <2>1, <3>1
    <3> QED
      BY <3>1, <3>2
  <2> QED
    BY <2>2, <2>3 DEF EnabledBefore
<1> QED
  BY <1>4, <1>5

\* A command that the writes before it have enabled has fired.
LEMMA FiredCommand ==
  ASSUME NEW r, Complete(r), NEW n \in 1 .. Len(r.bus)
  PROVE  Fires(r.program, n) <=> Is(r.bus[n], CommandAtom) /\ EnabledBefore(r, n)
<1>1. AccessAt(r, n)
  BY AtAccess
<1>2. Is(r.bus[n], CommandAtom)
        <=> r.program[n].op = "write" /\ r.program[n].addr = "COMMAND" /\ r.program[n].value = A5
  BY <1>1 DEF AccessAt, Is, CommandAtom
<1>3. EnabledBefore(r, n) <=> EnabledAt(r.program, n)
  BY EnabledBeforeIsEnabled
<1> QED
  BY <1>2, <1>3 DEF Fires

-----------------------------------------------------------------------------
(* The trigger, on the target and on the reference run.                    *)

\* A found access of a part of the contract.
Found(part, atom, c, r) == Access(part, atom, c, r).tx

AccessFacts(part, atom, c, r) ==
  LET a == Access(part, atom, c, r) IN
  /\ a.status \in Verdicts
  /\ a.status = "supported" =>
       /\ part \in c.formal /\ a = AccessAtom(atom, r)
       /\ a.tx \in 1 .. Len(r.bus) /\ Is(r.bus[a.tx], atom) /\ ~Repeats(r.bus)
  /\ a.status # "supported" => a.tx = 0
  /\ \A j \in 1 .. Len(r.bus) :
       Is(r.bus[j], atom) /\ Known(r.program[j]) =>
         /\ a.status # "contradicted"
         /\ ~Repeats(r.bus) /\ part \in c.formal => a.status = "supported" /\ a.tx = j
         /\ a.tx # 0 => a.tx = j

LEMMA AccessSound ==
  ASSUME NEW r, Complete(r), NEW part, NEW atom, NEW c
  PROVE  AccessFacts(part, atom, c, r)
<1> DEFINE a == Access(part, atom, c, r)
<1>1. AtomFacts(r, atom)
  BY AtomSound
<1>2. a = IF part \in c.formal THEN AccessAtom(atom, r) ELSE None
  BY DEF Access
<1> HIDE DEF a
<1>3. CASE part \in c.formal
  <2>1. a = AccessAtom(atom, r)
    BY <1>2, <1>3
  <2>2. ASSUME NEW j \in 1 .. Len(r.bus), Is(r.bus[j], atom), Known(r.program[j]), a.tx # 0
        PROVE  a.tx = j
    <3>1. a.status = "supported" /\ ~Repeats(r.bus)
      BY <1>1, <2>1, <2>2 DEF AtomFacts
    <3> QED
      BY <1>1, <2>1, <2>2, <3>1 DEF AtomFacts
  <2>3. /\ a.status \in Verdicts
        /\ a.status = "supported" =>
             /\ part \in c.formal /\ a = AccessAtom(atom, r)
             /\ a.tx \in 1 .. Len(r.bus) /\ Is(r.bus[a.tx], atom) /\ ~Repeats(r.bus)
        /\ a.status # "supported" => a.tx = 0
    BY <1>1, <1>3, <2>1 DEF AtomFacts
  <2>4. ASSUME NEW j \in 1 .. Len(r.bus), Is(r.bus[j], atom), Known(r.program[j])
        PROVE  /\ a.status # "contradicted"
               /\ ~Repeats(r.bus) => a.status = "supported" /\ a.tx = j
    BY <1>1, <2>1, <2>4 DEF AtomFacts
  <2> QED
    BY <2>2, <2>3, <2>4 DEF AccessFacts, a
<1>4. CASE part \notin c.formal
  <2>1. a.status = "unknown" /\ a.tx = 0
    BY <1>2, <1>4 DEF None
  <2> QED
    BY <1>4, <2>1 DEF AccessFacts, Verdicts, a
<1> QED
  BY <1>3, <1>4

\* What a supported trigger of the target run means.
Triggered(c, r, s) ==
  LET n == Command(c, r) IN
  /\ r.tree = "variant" /\ s
  /\ n \in 1 .. Len(r.bus) /\ Fires(r.program, n)

LEMMA TriggerStatuses ==
  ASSUME NEW c, NEW r, NEW s, Trigger(c, r, s) # "unknown"
  PROVE  LET e == Access("enable", EnableAtom, c, r)
             k == Access("command", CommandAtom, c, r)
         IN  /\ r.tree = "variant" /\ s
             /\ Trigger(c, r, s) = Aggregate({e.status, k.status, Ordering(c, e.tx, k.tx),
                                              Precondition(c, r, s, k.tx)})
BY DEF Trigger

LEMMA SupportedTrigger ==
  ASSUME Complete(target), Trigger(contract, target, sourced) = "supported"
  PROVE  Triggered(contract, target, sourced)
<1> DEFINE e == Access("enable", EnableAtom, contract, target)
           k == Access("command", CommandAtom, contract, target)
<1>1. /\ target.tree = "variant" /\ sourced
      /\ "supported" = Aggregate({e.status, k.status, Ordering(contract, e.tx, k.tx),
                                  Precondition(contract, target, sourced, k.tx)})
  BY TriggerStatuses
<1>2. k.status \notin {"contradicted", "unknown"}
      /\ Precondition(contract, target, sourced, k.tx) \notin {"contradicted", "unknown"}
  BY <1>1 DEF Aggregate
<1>3. AccessFacts("command", CommandAtom, contract, target)
  BY AccessSound
<1>4. k.tx \in 1 .. Len(target.bus) /\ Is(target.bus[k.tx], CommandAtom)
  BY <1>2, <1>3 DEF AccessFacts, Verdicts
<1>5. EnabledBefore(target, k.tx)
  BY <1>2 DEF Precondition
<1>6. Fires(target.program, k.tx)
  BY <1>4, <1>5, FiredCommand
<1> QED
  BY <1>1, <1>4, <1>6 DEF Triggered, Command

\* A refuted trigger did not happen, if every access is exact.
LEMMA ContradictedTrigger ==
  ASSUME Complete(target), AllExact(target), contract.maxGap = 0,
         Trigger(contract, target, sourced) = "contradicted"
  PROVE  ~Fired(target)
<1> SUFFICES ASSUME Fired(target) PROVE FALSE
  OBVIOUS
<1> DEFINE e == Access("enable", EnableAtom, contract, target)
           k == Access("command", CommandAtom, contract, target)
<1>1. PICK n \in 1 .. Len(target.bus) : Fires(target.program, n)
  BY Domains DEF Fired
<1>2. PICK i \in 1 .. n - 1 : WritesEnable(target.program[i]) /\ target.program[i].value = 1
  BY <1>1 DEF Fires, EnabledAt, WritesEnable
<1>3. i \in 1 .. Len(target.bus) /\ i < n /\ Len(target.bus) \in Nat
  BY Domains
<1>4. Is(target.bus[n], CommandAtom) /\ EnabledBefore(target, n)
  BY <1>1, FiredCommand
<1>5. Is(target.bus[i], EnableAtom)
  <2>1. AccessAt(target, i)
    BY <1>3, AtAccess
  <2> QED
    BY <1>2, <2>1 DEF AccessAt, Is, EnableAtom, WritesEnable
<1>6. Known(target.program[n]) /\ Known(target.program[i])
  BY <1>3, Domains DEF AllExact, Known
<1>7. e.status # "contradicted" /\ (e.tx # 0 => e.tx = i)
  <2>1. AccessFacts("enable", EnableAtom, contract, target)
    BY AccessSound
  <2> QED
    BY <1>3, <1>5, <1>6, <2>1 DEF AccessFacts
<1>8. k.status # "contradicted" /\ (k.tx # 0 => k.tx = n)
  <2>1. AccessFacts("command", CommandAtom, contract, target)
    BY AccessSound
  <2> QED
    BY <1>4, <1>6, <2>1 DEF AccessFacts
<1>9. "contradicted" = Aggregate({e.status, k.status, Ordering(contract, e.tx, k.tx),
                                  Precondition(contract, target, sourced, k.tx)})
  BY TriggerStatuses
<1> HIDE DEF e, k
<1>10. Ordering(contract, e.tx, k.tx) # "contradicted"
  BY <1>3, <1>7, <1>8 DEF Ordering, InOrder
<1>11. Precondition(contract, target, sourced, k.tx) # "contradicted"
  BY <1>4, <1>8 DEF Precondition
<1> QED
  BY <1>7, <1>8, <1>9, <1>10, <1>11 DEF Aggregate

\* A read of STATUS after a command, alone and claimed, shows what the sample
\* in the cycle of the command shows.
LEMMA Sampled ==
  ASSUME NEW r, Complete(r), NEW n \in 1 .. Len(r.bus), SampleReads(r, n) # {}
  PROVE  /\ r.linked
         /\ ObservedValue(r, n) = r.samples[n]
         /\ r.samples[n] = Shown(r.tree, r.program, n)
         /\ \E j \in 1 .. Len(r.bus) :
              r.bus[j].op = "read" /\ r.bus[j].addr = "STATUS" /\ r.bus[j].value = ObservedValue(r, n)
<1> DEFINE j == CHOOSE j \in SampleReads(r, n) : TRUE
<1>1. j \in SampleReads(r, n)
  OBVIOUS
<1>2. ObservedValue(r, n) = r.bus[j].value
  BY DEF ObservedValue
<1> HIDE DEF j
<1>3. /\ r.linked /\ j \in StatusReads(r, n) /\ r.samples[n] = r.bus[j].value
  BY <1>1 DEF SampleReads
<1>4. j \in n + 1 .. Len(r.bus) /\ r.bus[j].op = "read" /\ r.bus[j].addr = "STATUS"
  BY <1>3 DEF StatusReads
<1>5. j \in 1 .. Len(r.bus)
  BY <1>4, Domains
<1>6. AccessAt(r, n)
  BY AtAccess
<1> QED
  BY <1>2, <1>3, <1>4, <1>5, <1>6 DEF AccessAt

\* Once the Variant has fired, STATUS is anomalous; the Reference never is.
LEMMA ShownFacts ==
  ASSUME NEW t, NEW p, NEW n \in Nat
  PROVE  /\ t # "variant" => Shown(t, p, n) = 0
         /\ \A i \in 1 .. n : t = "variant" /\ Fires(p, i) => Shown(t, p, n) = DEAD
BY DEF Shown

-----------------------------------------------------------------------------
(* What a verdict means.                                                   *)

LEMMA AtVerdict ==
  ASSUME IInv, stage = "verdict"
  PROVE  /\ Complete(target) /\ (reference # NoRun => Complete(reference))
         /\ contract \in Contracts /\ contract.expected # DEAD
         /\ verdict = Verify(contract, target, reference, sourced)
BY ContractsAssumption DEF IInv, Judged, Ended, Complete

LEMMA NoVerdict == ASSUME IInv, stage # "verdict" PROVE verdict = "none"
BY DEF IInv, Staged

LEMMA VerifiedNeeds ==
  ASSUME verdict = Verify(contract, target, reference, sourced), verdict = "verified"
  PROVE  /\ Trigger(contract, target, sourced) = "supported"
         /\ Deviation(contract, target, sourced) = "supported"
         /\ Observed(contract, target, sourced)
         /\ Controlled(contract, target, reference)
BY DEF Verify, Final

\* A verified chain took place.
LEMMA VerifiedSound == IInv => VerifiedIsReal
<1> SUFFICES ASSUME IInv, verdict = "verified"
             PROVE  /\ target.tree = "variant" /\ Fired(target) /\ target.linked /\ sourced
                    /\ \E j \in DOMAIN target.bus :
                         /\ target.bus[j].op = "read" /\ target.bus[j].addr = "STATUS"
                         /\ target.bus[j].value = contract.deviating
                    /\ reference # NoRun
                    /\ reference.tree = "reference" /\ reference.program = target.program
                    /\ reference.context = target.context /\ reference.linked
                    /\ \A j \in DOMAIN reference.bus :
                         reference.bus[j].op = "read" /\ reference.bus[j].addr = "STATUS"
                           => reference.bus[j].value = contract.expected
  BY DEF VerifiedIsReal
<1>1. /\ Complete(target) /\ (reference # NoRun => Complete(reference))
      /\ verdict = Verify(contract, target, reference, sourced)
  BY NoVerdict, AtVerdict
<1>2. /\ Trigger(contract, target, sourced) = "supported"
      /\ Deviation(contract, target, sourced) = "supported"
      /\ Observed(contract, target, sourced)
      /\ Controlled(contract, target, reference)
  BY <1>1, VerifiedNeeds
<1> DEFINE n == Command(contract, target)
<1>3. /\ target.tree = "variant" /\ sourced
      /\ n \in 1 .. Len(target.bus) /\ Fires(target.program, n)
  BY <1>1, <1>2, SupportedTrigger DEF Triggered
<1>4. Fired(target)
  BY <1>1, <1>3, Domains DEF Fired
<1>5. SampleReads(target, n) # {} /\ ObservedValue(target, n) = contract.deviating
  BY <1>2 DEF Observed, Deviation
<1> HIDE DEF n
<1>6. /\ target.linked
      /\ \E j \in 1 .. Len(target.bus) :
           target.bus[j].op = "read" /\ target.bus[j].addr = "STATUS"
             /\ target.bus[j].value = contract.deviating
  BY <1>1, <1>3, <1>5, Sampled
<1>7. /\ reference # NoRun /\ Complete(reference)
      /\ reference.program = target.program /\ reference.context = target.context
      /\ reference.tree = "reference"
      /\ ReferenceExpected(contract, reference)
  BY <1>1, <1>2 DEF Controlled, Paired
<1> DEFINE m == ReferenceCommand(reference)
<1>8. /\ m # 0 /\ SampleReads(reference, m) # {}
      /\ ObservedValue(reference, m) = contract.expected
  BY <1>7 DEF ReferenceExpected
<1>9. m \in 1 .. Len(reference.bus)
  <2>1. AtomFacts(reference, CommandAtom)
    BY <1>7, AtomSound
  <2> QED
    BY <1>8, <2>1 DEF AtomFacts, ReferenceCommand
<1> HIDE DEF m
<1>10. /\ reference.linked
       /\ ObservedValue(reference, m) = Shown(reference.tree, reference.program, m)
  BY <1>7, <1>8, <1>9, Sampled
<1>11. ASSUME NEW k \in Nat PROVE Shown(reference.tree, reference.program, k) = 0
  BY <1>7, ShownFacts
<1>12. contract.expected = 0
  BY <1>8, <1>9, <1>10, <1>11
<1>13. ASSUME NEW j \in DOMAIN reference.bus,
              reference.bus[j].op = "read", reference.bus[j].addr = "STATUS"
       PROVE  reference.bus[j].value = contract.expected
  <2>1. j \in 1 .. Len(reference.bus) /\ j \in Nat
    BY <1>7, Domains
  <2>2. AccessAt(reference, j)
    BY <1>7, <2>1, AtAccess
  <2> QED
    BY <1>11, <1>12, <1>13, <2>1, <2>2 DEF AccessAt
<1> QED
  BY <1>1, <1>3, <1>4, <1>6, <1>7, <1>10, <1>13, Domains

\* The Variant cannot contradict a deviation that its own trigger made.
LEMMA DeviationSound == IInv => DeviationNeverContradicted
<1> SUFFICES ASSUME IInv, verdict = "deviation_contradicted" PROVE FALSE
  BY DEF DeviationNeverContradicted
<1>1. /\ Complete(target) /\ contract.expected # DEAD
      /\ verdict = Verify(contract, target, reference, sourced)
  BY NoVerdict, AtVerdict
<1>2. /\ Trigger(contract, target, sourced) = "supported"
      /\ Deviation(contract, target, sourced) = "contradicted"
  BY <1>1 DEF Verify, Final
<1> DEFINE n == Command(contract, target)
<1>3. /\ target.tree = "variant"
      /\ n \in 1 .. Len(target.bus) /\ Fires(target.program, n)
  BY <1>1, <1>2, SupportedTrigger DEF Triggered
<1>4. SampleReads(target, n) # {} /\ ObservedValue(target, n) = contract.expected
  BY <1>2 DEF Observed, Deviation
<1> HIDE DEF n
<1>5. ObservedValue(target, n) = Shown(target.tree, target.program, n)
  BY <1>1, <1>3, <1>4, Sampled
<1>6. Shown(target.tree, target.program, n) = DEAD
  BY <1>3, ShownFacts
<1> QED
  BY <1>1, <1>4, <1>5, <1>6

LEMMA ContradictedSound == IInv => ContradictedDidNotFire
<1> SUFFICES ASSUME IInv, verdict = "trigger_contradicted", AllExact(target), contract.maxGap = 0
             PROVE  ~Fired(target)
  BY DEF ContradictedDidNotFire
<1>1. /\ Complete(target) /\ verdict = Verify(contract, target, reference, sourced)
  BY NoVerdict, AtVerdict
<1>2. Trigger(contract, target, sourced) = "contradicted"
  BY <1>1 DEF Verify, Final
<1> QED
  BY <1>1, <1>2, ContradictedTrigger

-----------------------------------------------------------------------------
(* Evidence withdrawn.                                                     *)

\* The run without its observation link shows no sample.
LEMMA Unlinked ==
  ASSUME NEW c, NEW t, NEW s, ~t.linked
  PROVE  Deviation(c, t, s) = "unknown" /\ ~Observed(c, t, s)
BY DEF Deviation, Observed, SampleReads

\* The trigger does not depend on the observation link.
LEMMA TriggerOfLink ==
  ASSUME NEW c, NEW t, NEW r, t.program = r.program, t.rows = r.rows, t.bus = r.bus,
         t.tree = r.tree
  PROVE  Trigger(c, t, sourced) = Trigger(c, r, sourced)
<1>1. Claimed(t) = Claimed(r)
  BY DEF Claimed, Sites
<1>2. \A part, atom : Access(part, atom, c, t) = Access(part, atom, c, r)
  BY <1>1 DEF Access, AccessAtom
<1>3. \A n : EnabledBefore(t, n) <=> EnabledBefore(r, n)
  BY DEF EnabledBefore, EnableWrites
<1>4. \A n : Precondition(c, t, sourced, n) = Precondition(c, r, sourced, n)
  BY <1>3 DEF Precondition
<1> QED
  BY <1>2, <1>4 DEF Trigger

LEMMA WithdrawnSound == IInv => WithdrawnEvidenceStaysUnknown
<1> SUFFICES ASSUME IInv, stage = "verdict",
                    NEW t \in {target, [target EXCEPT !.linked = FALSE]},
                    NEW r \in {reference, NoRun}
                                \cup (IF reference = NoRun THEN {}
                                      ELSE {[reference EXCEPT !.linked = FALSE]}),
                    NEW s \in {sourced, FALSE}
             PROVE  Verify(contract, t, r, s) \in {verdict, "unknown"}
  BY DEF WithdrawnEvidenceStaysUnknown
<1>1. /\ Complete(target) /\ (reference # NoRun => Complete(reference))
      /\ verdict = Verify(contract, target, reference, sourced)
  BY AtVerdict
<1>2. CASE ~s
  <2>1. Trigger(contract, t, s) = "unknown"
    BY <1>2 DEF Trigger
  <2> QED
    BY <2>1 DEF Verify, Final
<1>3. CASE s
  <2>1. s = sourced /\ sourced
    BY <1>3
  <2>2. /\ t.program = target.program /\ t.rows = target.rows /\ t.bus = target.bus
        /\ t.tree = target.tree
        /\ t = target \/ ~t.linked
    BY <1>1 DEF Complete, Faithful, Runs
  <2>3. Trigger(contract, t, sourced) = Trigger(contract, target, sourced)
    BY <2>2, TriggerOfLink
  <2>4. CASE t # target
    <3>1. Deviation(contract, t, sourced) = "unknown" /\ ~Observed(contract, t, sourced)
      BY <2>2, <2>4, Unlinked
    <3> QED
      BY <1>1, <2>1, <2>3, <3>1 DEF Verify, Final
  <2>5. CASE t = target /\ r = reference
    BY <1>1, <2>1, <2>5
  <2>6. CASE t = target /\ r # reference
    <3>1. ~Controlled(contract, target, r)
      <4>1. CASE r = NoRun
        BY <4>1 DEF Controlled
      <4>2. CASE r # NoRun
        <5>1. reference # NoRun /\ r = [reference EXCEPT !.linked = FALSE]
          BY <2>6, <4>2
        <5>2. ~r.linked
          BY <1>1, <5>1 DEF Complete, Faithful, Runs
        <5> QED
          BY <5>2 DEF Controlled, ReferenceExpected, SampleReads
      <4> QED
        BY <4>1, <4>2
    <3> QED
      BY <1>1, <2>1, <2>6, <3>1 DEF Verify, Final
  <2> QED
    BY <2>4, <2>5, <2>6
<1> QED
  BY <1>2, <1>3

-----------------------------------------------------------------------------
(* Complete evidence.                                                      *)

\* A run whose accesses are all exact and different, and that triggers at n.
Decidable(r, n) ==
  /\ Complete(r) /\ AllExact(r) /\ ~Repeats(r.bus)
  /\ n \in 1 .. Len(r.bus) /\ Fires(r.program, n)

LEMMA AllKnown ==
  ASSUME NEW r, NEW n, Decidable(r, n), NEW j \in 1 .. Len(r.bus)
  PROVE  Known(r.program[j]) /\ j \in Claimed(r)
<1>1. r.program[j].static = "exact"
  BY Domains DEF AllExact, Decidable
<1> QED
  BY <1>1, ClaimedIsKnown DEF Known, Decidable

\* Both writes are found, in order, and the last one before the command enabled.
TriggerFound(r, n) ==
  LET e == AccessAtom(EnableAtom, r)
      k == AccessAtom(CommandAtom, r)
  IN  /\ e.status = "supported" /\ k.status = "supported" /\ k.tx = n
      /\ e.tx # 0 /\ n # 0 /\ e.tx < n
      /\ EnabledBefore(r, n)

LEMMA DecidableIsFound ==
  ASSUME NEW r, NEW n, Decidable(r, n)
  PROVE  TriggerFound(r, n)
<1>1. Complete(r) /\ ~Repeats(r.bus) /\ n \in 1 .. Len(r.bus) /\ Fires(r.program, n)
      /\ Len(r.bus) \in Nat
  BY Domains DEF Decidable
<1>2. PICK i \in 1 .. n - 1 : WritesEnable(r.program[i]) /\ r.program[i].value = 1
  BY <1>1 DEF Fires, EnabledAt, WritesEnable
<1>3. i \in 1 .. Len(r.bus) /\ i < n /\ i # 0 /\ n # 0
  BY <1>1
<1>4. Is(r.bus[i], EnableAtom)
  <2>1. AccessAt(r, i)
    BY <1>1, <1>3, AtAccess
  <2> QED
    BY <1>2, <2>1 DEF AccessAt, Is, EnableAtom, WritesEnable
<1>5. Is(r.bus[n], CommandAtom) /\ EnabledBefore(r, n)
  BY <1>1, FiredCommand
<1>6. Known(r.program[i]) /\ Known(r.program[n])
  BY <1>1, <1>3, AllKnown
<1>7. AccessAtom(EnableAtom, r).status = "supported" /\ AccessAtom(EnableAtom, r).tx = i
  <2>1. AtomFacts(r, EnableAtom)
    BY <1>1, AtomSound
  <2> QED
    BY <1>1, <1>3, <1>4, <1>6, <2>1 DEF AtomFacts
<1>8. AccessAtom(CommandAtom, r).status = "supported" /\ AccessAtom(CommandAtom, r).tx = n
  <2>1. AtomFacts(r, CommandAtom)
    BY <1>1, AtomSound
  <2> QED
    BY <1>1, <1>5, <1>6, <2>1 DEF AtomFacts
<1> QED
  BY <1>3, <1>5, <1>7, <1>8 DEF TriggerFound

\* The only read of STATUS after the command, with its sample.
LEMMA OnlyRead ==
  ASSUME NEW r, NEW n, Decidable(r, n), r.linked,
         NEW j, StatusReads(r, n) = {j}
  PROVE  /\ SampleReads(r, n) = {j}
         /\ ObservedValue(r, n) = Shown(r.tree, r.program, n)
<1>1. Complete(r) /\ n \in 1 .. Len(r.bus) /\ Len(r.bus) \in Nat /\ Fires(r.program, n)
  BY Domains DEF Decidable
<1>2. j \in n + 1 .. Len(r.bus) /\ r.bus[j].op = "read" /\ r.bus[j].addr = "STATUS"
  BY DEF StatusReads
<1>3. j \in 1 .. Len(r.bus) /\ n \in 1 .. j /\ j \in Nat /\ n \in Nat
  BY <1>1, <1>2
<1>4. AccessAt(r, j) /\ AccessAt(r, n)
  BY <1>1, <1>3, AtAccess
<1>5. r.bus[j].value = Shown(r.tree, r.program, j) /\ r.samples[n] = Shown(r.tree, r.program, n)
  BY <1>2, <1>4 DEF AccessAt
<1>6. Shown(r.tree, r.program, j) = Shown(r.tree, r.program, n)
  <2>1. CASE r.tree = "variant"
    <3>1. n \in 1 .. n
      BY <1>1
    <3>2. Shown(r.tree, r.program, j) = DEAD /\ Shown(r.tree, r.program, n) = DEAD
      BY <1>1, <1>3, <2>1, <3>1, ShownFacts
    <3> QED
      BY <3>2
  <2>2. CASE r.tree # "variant"
    BY <1>3, <2>2, ShownFacts
  <2> QED
    BY <2>1, <2>2
<1>7. j \in Claimed(r)
  BY <1>3, AllKnown
<1>8. Cardinality(StatusReads(r, n)) = 1
  BY FS_Singleton
<1>9. SampleReads(r, n) = {j}
  BY <1>5, <1>6, <1>7, <1>8 DEF SampleReads
<1>10. ObservedValue(r, n) = r.bus[j].value
  BY <1>9 DEF ObservedValue
<1> QED
  BY <1>5, <1>6, <1>9, <1>10

\* Two runs of the same firmware, all of whose accesses are claimed, behave alike.
LEMMA SameBehaviour ==
  ASSUME NEW r, NEW t, NEW n, Decidable(r, n), Decidable(t, n), r.program = t.program
  PROVE  Behaviour(r) = Behaviour(t) /\ StatusReads(r, n) = StatusReads(t, n)
<1>1. Complete(r) /\ Complete(t) /\ Len(r.bus) = Len(t.bus) /\ Len(r.bus) \in Nat
      /\ n \in 1 .. Len(r.bus)
  BY Domains DEF Decidable
<1>2. ASSUME NEW j \in 1 .. Len(r.bus)
      PROVE  /\ r.bus[j].op = t.bus[j].op /\ r.bus[j].addr = t.bus[j].addr
             /\ r.bus[j].op = "write" => r.bus[j].value = t.bus[j].value
  <2>1. AccessAt(r, j) /\ AccessAt(t, j)
    BY <1>1, AtAccess
  <2> QED
    BY <2>1 DEF AccessAt
<1>3. Claimed(r) = 1 .. Len(r.bus) /\ Claimed(t) = 1 .. Len(r.bus)
  <2>1. \A j : j \in Claimed(r) <=> j \in 1 .. Len(r.bus)
    BY <1>1, AllKnown, ClaimedIsKnown
  <2>2. \A j : j \in Claimed(t) <=> j \in 1 .. Len(r.bus)
    BY <1>1, AllKnown, ClaimedIsKnown
  <2> QED
    BY <2>1, <2>2
<1>4. Behaviour(r) = Behaviour(t)
  BY <1>2, <1>3 DEF Behaviour
<1>5. \A j \in n + 1 .. Len(r.bus) : j \in 1 .. Len(r.bus)
  BY <1>1
<1>6. StatusReads(r, n) = StatusReads(t, n)
  BY <1>1, <1>2, <1>5 DEF StatusReads
<1> QED
  BY <1>4, <1>6

LEMMA CompleteSound == IInv => CompleteEvidenceVerifies
<1> SUFFICES ASSUME IInv, stage = "verdict", contract = Full, sourced,
                    target.tree = "variant", target.linked,
                    reference # NoRun, reference.linked, reference.tree = "reference",
                    reference.program = target.program, reference.context = target.context,
                    AllExact(target), ~Repeats(target.bus), ~Repeats(reference.bus),
                    NEW n \in DOMAIN target.program,
                    Fires(target.program, n), Cardinality(StatusReads(target, n)) = 1
             PROVE  verdict = "verified"
  BY DEF CompleteEvidenceVerifies
<1>1. /\ Complete(target) /\ Complete(reference)
      /\ verdict = Verify(contract, target, reference, sourced)
  BY AtVerdict
<1>2. Decidable(target, n) /\ Decidable(reference, n)
  <2>1. n \in 1 .. Len(target.bus) /\ Len(target.bus) = Len(reference.bus)
    BY <1>1, Domains
  <2>2. AllExact(reference)
    BY DEF AllExact
  <2> QED
    BY <1>1, <2>1, <2>2 DEF Decidable
<1>3. TriggerFound(target, n) /\ TriggerFound(reference, n)
  BY <1>2, DecidableIsFound
<1>4. PICK j : StatusReads(target, n) = {j}
  <2>1. IsFiniteSet(StatusReads(target, n))
    <3>1. Len(target.bus) \in Nat /\ n \in Nat
      BY <1>1, Domains
    <3>2. StatusReads(target, n) \subseteq n + 1 .. Len(target.bus)
      BY DEF StatusReads
    <3>3. IsFiniteSet(n + 1 .. Len(target.bus))
      BY <3>1, FS_Interval
    <3> QED
      BY <3>2, <3>3, FS_Subset
  <2> QED
    BY <2>1, FS_Singleton
<1>5. StatusReads(reference, n) = {j} /\ Behaviour(target) = Behaviour(reference)
  BY <1>2, <1>4, SameBehaviour
<1>6. /\ SampleReads(target, n) = {j}
      /\ ObservedValue(target, n) = Shown(target.tree, target.program, n)
  BY <1>2, <1>4, OnlyRead
<1>7. /\ SampleReads(reference, n) = {j}
      /\ ObservedValue(reference, n) = Shown(reference.tree, reference.program, n)
  BY <1>2, <1>5, OnlyRead
<1>8. n \in Nat /\ n \in 1 .. n
  BY <1>1, Domains
<1>9. ObservedValue(target, n) = DEAD
  BY <1>6, <1>8, ShownFacts
<1>10. ObservedValue(reference, n) = 0
  BY <1>7, <1>8, ShownFacts
<1>11. /\ contract.formal = Parts /\ contract.maxGap = 0
       /\ contract.expected = 0 /\ contract.deviating = DEAD
  BY DEF Full
<1>12. /\ Access("enable", EnableAtom, contract, target) = AccessAtom(EnableAtom, target)
       /\ Access("command", CommandAtom, contract, target) = AccessAtom(CommandAtom, target)
       /\ Access("enable", EnableAtom, contract, reference) = AccessAtom(EnableAtom, reference)
       /\ Access("command", CommandAtom, contract, reference) = AccessAtom(CommandAtom, reference)
  BY <1>11 DEF Access, Parts
<1>13. Trigger(contract, target, sourced) = "supported"
  <2> DEFINE e == AccessAtom(EnableAtom, target)
             k == AccessAtom(CommandAtom, target)
  <2>1. /\ e.status = "supported" /\ k.status = "supported" /\ k.tx = n
        /\ e.tx # 0 /\ n # 0 /\ e.tx < n /\ EnabledBefore(target, n)
    BY <1>3 DEF TriggerFound
  <2> HIDE DEF e, k
  <2>2. Ordering(contract, e.tx, k.tx) = "supported"
    BY <1>11, <2>1 DEF Ordering, InOrder, Parts
  <2>3. Precondition(contract, target, sourced, k.tx) = "supported"
    BY <1>11, <2>1 DEF Precondition, Parts
  <2>4. Trigger(contract, target, sourced)
          = Aggregate({e.status, k.status, Ordering(contract, e.tx, k.tx),
                       Precondition(contract, target, sourced, k.tx)})
    BY <1>11, <1>12 DEF Trigger, Parts, e, k
  <2> QED
    BY <2>1, <2>2, <2>3, <2>4 DEF Aggregate
<1>14. Command(contract, target) = n
  BY <1>3, <1>12 DEF Command, TriggerFound
<1>15. Observed(contract, target, sourced)
  BY <1>6, <1>8, <1>11, <1>14 DEF Observed, Parts
<1>16. Deviation(contract, target, sourced) = "supported"
  BY <1>9, <1>11, <1>14, <1>15 DEF Deviation
<1>17. Controlled(contract, target, reference)
  <2>1. ReferenceTriggered(contract, reference)
    <3> DEFINE e == AccessAtom(EnableAtom, reference)
               k == AccessAtom(CommandAtom, reference)
    <3>1. /\ e.status = "supported" /\ k.status = "supported" /\ k.tx = n
          /\ e.tx # 0 /\ n # 0 /\ e.tx < n /\ EnabledBefore(reference, n)
      BY <1>3 DEF TriggerFound
    <3> HIDE DEF e, k
    <3>2. Ordering(contract, e.tx, k.tx) = "supported"
      BY <1>11, <3>1 DEF Ordering, InOrder, Parts
    <3> QED
      BY <1>12, <3>1, <3>2 DEF ReferenceTriggered, e, k
  <2>2. ReferenceCommand(reference) = n
    BY <1>3 DEF ReferenceCommand, TriggerFound
  <2>3. ReferenceExpected(contract, reference)
    BY <1>7, <1>8, <1>10, <1>11, <2>2 DEF ReferenceExpected, DEAD
  <2> QED
    BY <1>5, <2>1, <2>3 DEF Controlled, Paired
<1> QED
  BY <1>1, <1>13, <1>15, <1>16, <1>17 DEF Verify, Final

-----------------------------------------------------------------------------
(* The properties of the runs.                                             *)

\* A verified chain took place, for every firmware, contract and evidence.
THEOREM VerifiedChainsAreReal == Spec => []VerifiedIsReal
BY SystemInvariant, VerifiedSound, PTL

\* No run of the Variant contradicts its deviation.
THEOREM DeviationsAreNeverContradicted == Spec => []DeviationNeverContradicted
BY SystemInvariant, DeviationSound, PTL

\* A refuted trigger did not happen.
THEOREM RefutedTriggersDidNotFire == Spec => []ContradictedDidNotFire
BY SystemInvariant, ContradictedSound, PTL

\* Evidence withdrawn leaves the verdict as it was, or unknown.
THEOREM WithdrawnEvidenceIsUnknown == Spec => []WithdrawnEvidenceStaysUnknown
BY SystemInvariant, WithdrawnSound, PTL

\* Complete evidence of an unambiguous firmware is verified.
THEOREM CompleteEvidenceSuffices == Spec => []CompleteEvidenceVerifies
BY SystemInvariant, CompleteSound, PTL
=============================================================================
