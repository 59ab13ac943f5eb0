---------------------------- MODULE Type2System ----------------------------
(***************************************************************************)
(* The controlled Type-II experiment as a whole: a firmware runs on the    *)
(* target tree, a firmware runs on the reference tree, and verify_type2    *)
(* judges what evidence the caller could collect.  A run may fail and      *)
(* leave no evidence; the trees and the firmwares may be mixed up; the     *)
(* optional links may be missing; contracts may be incomplete.             *)
(*                                                                         *)
(* A run is one access at a time: MmioApparatus shows that a trace that    *)
(* parses replays the register file in the order of its requests, and that *)
(* the sample of a request's cycle shows the registers after it.           *)
(***************************************************************************)
EXTENDS Type2Verifier

CONSTANTS
  Programs,          \* the firmwares of the target
  OtherProgram,      \* another firmware that the reference may have run
  ContractsUsed,     \* the contracts to verify
  NoContract         \* before verify_type2 is called

ASSUME ProgramsAssumption == Programs \cup {OtherProgram} \subseteq Seq(Instructions)

\* The contracts are about this peripheral: whatever they formalize, the value
\* that they expect of STATUS is not the anomalous one.
ASSUME ContractsAssumption ==
  \A c \in ContractsUsed : c \in Contracts /\ c.expected # DEAD

VARIABLES
  target, reference, \* the runs, or NoRun
  regs,              \* the peripheral of the run in progress
  stage,             \* "target", "reference", then "verdict"
  contract, sourced, \* what verify_type2 was given besides
  verdict

vars == <<target, reference, regs, stage, contract, sourced, verdict>>

NewRun(tree, program, context) ==
  [tree |-> tree, program |-> program, context |-> context,
   rows |-> <<>>, bus |-> <<>>, samples |-> <<>>, linked |-> FALSE]

Ended(run) == run # NoRun /\ Len(run.bus) = Len(run.program)

Init ==
  /\ \E t \in Trees, p \in Programs : target = NewRun(t, p, 1)
  /\ reference = NoRun
  /\ regs = ResetValues /\ stage = "target"
  /\ contract = NoContract /\ sourced = FALSE
  /\ verdict = "none"

\* The processor and the peripheral carry out the next access of a run.
Extended(run) ==
  LET pc == Len(run.bus) + 1
      i  == run.program[pc]
      q  == [addr |-> i.addr, we |-> i.op = "write", full |-> TRUE, wd |-> i.value]
      v  == IF i.op = "read" THEN Answer(regs, q) ELSE i.value
      after == AfterAccess(run.tree, regs, q)
  IN  /\ regs' = after
      /\ run' = [run EXCEPT
           !.rows = Append(@, [pc |-> pc, op |-> i.op, addr |-> i.addr, value |-> v]),
           !.bus = Append(@, [op |-> i.op, addr |-> i.addr, value |-> v, late |-> FALSE]),
           !.samples = Append(@, after["STATUS"])]

ExecuteTarget ==
  /\ stage = "target" /\ ~Ended(target)
  /\ Extended(target)
  /\ UNCHANGED <<reference, stage, contract, sourced, verdict>>

\* The target run is over; its observation binding may be made or not.
EndTarget ==
  /\ stage = "target" /\ Ended(target)
  /\ \E l \in BOOLEAN : target' = [target EXCEPT !.linked = l]
  /\ regs' = ResetValues /\ stage' = "reference"
  /\ UNCHANGED <<reference, contract, sourced, verdict>>

StartReference ==
  /\ stage = "reference" /\ reference = NoRun
  /\ \E t \in Trees, p \in {target.program, OtherProgram}, c \in {1, 2} :
       reference' = NewRun(t, p, c)
  /\ UNCHANGED <<target, regs, stage, contract, sourced, verdict>>

ExecuteReference ==
  /\ stage = "reference" /\ reference # NoRun /\ ~Ended(reference)
  /\ Extended(reference)
  /\ UNCHANGED <<target, stage, contract, sourced, verdict>>

\* A reference run that fails leaves nothing that could be loaded.
LoseReference ==
  /\ stage = "reference" /\ reference # NoRun /\ ~Ended(reference)
  /\ reference' = NoRun
  /\ regs' = ResetValues
  /\ UNCHANGED <<target, stage, contract, sourced, verdict>>

VerifyRuns ==
  /\ stage = "reference" /\ (reference = NoRun \/ Ended(reference))
  /\ contract' \in ContractsUsed /\ sourced' \in BOOLEAN
  /\ \E l \in BOOLEAN :
       reference' = IF reference = NoRun THEN NoRun ELSE [reference EXCEPT !.linked = l]
  /\ verdict' = Verify(contract', target, reference', sourced')
  /\ stage' = "verdict"
  /\ UNCHANGED <<target, regs>>

Next ==
  \/ ExecuteTarget \/ EndTarget
  \/ StartReference \/ ExecuteReference \/ LoseReference
  \/ VerifyRuns

Spec == Init /\ [][Next]_vars

-----------------------------------------------------------------------------
(* What really happened in a run, from its program and its tree alone.     *)

EnabledAt(program, n) ==
  \E i \in 1 .. n - 1 :
    /\ program[i].op = "write" /\ program[i].addr = "ENABLE" /\ program[i].value = 1
    /\ \A k \in i + 1 .. n - 1 : ~(program[k].op = "write" /\ program[k].addr = "ENABLE")

Fires(program, n) ==
  /\ program[n].op = "write" /\ program[n].addr = "COMMAND" /\ program[n].value = A5
  /\ EnabledAt(program, n)

Fired(run) == \E n \in DOMAIN run.program : Fires(run.program, n)

AllExact(run) == \A n \in DOMAIN run.program : run.program[n].static = "exact"

Full == [formal |-> Parts, maxGap |-> 0, expected |-> 0, deviating |-> DEAD]

\* A verified chain took place: the Variant was enabled when it accepted the
\* trigger and the firmware read the anomalous STATUS, while the Reference, under
\* the same firmware and context, accepted the same trigger and read the
\* expected one; and every link of the evidence was given.
VerifiedIsReal ==
  verdict = "verified" =>
    /\ target.tree = "variant" /\ Fired(target) /\ target.linked /\ sourced
    /\ \E j \in DOMAIN target.bus :
         /\ target.bus[j].op = "read" /\ target.bus[j].addr = "STATUS"
         /\ target.bus[j].value = contract.deviating
    /\ reference # NoRun
    /\ reference.tree = "reference" /\ reference.program = target.program
    /\ reference.context = target.context /\ reference.linked
    /\ \A j \in DOMAIN reference.bus :
         reference.bus[j].op = "read" /\ reference.bus[j].addr = "STATUS"
           => reference.bus[j].value = contract.expected

\* A supported trigger on the Variant always shows the deviation: the hardware
\* that the contract pins cannot contradict it, so that outcome is reserved for
\* evidence that no run of it produced.
DeviationNeverContradicted == verdict # "deviation_contradicted"

\* The trigger is refuted only when it did not happen, for a firmware whose
\* accesses are all statically exact and a contract that bounds no distance.
ContradictedDidNotFire ==
  /\ verdict = "trigger_contradicted"
  /\ AllExact(target) /\ contract.maxGap = 0
  => ~Fired(target)

\* The same for every firmware.  README.md:34 and docs/architecture.md:51 say
\* that missing evidence and missing joins stay unknown.
MissingJoinNeverRefutes ==
  verdict = "trigger_contradicted" /\ contract.maxGap = 0 => ~Fired(target)

\* Taking evidence away never makes a verdict stronger: with the observation
\* link, the reference run or the sources withdrawn, the verdict is what it was
\* or unknown.
WithdrawnEvidenceStaysUnknown ==
  stage = "verdict" =>
    \A t \in {target, [target EXCEPT !.linked = FALSE]},
       r \in {reference, NoRun}
               \cup (IF reference = NoRun THEN {} ELSE {[reference EXCEPT !.linked = FALSE]}),
       s \in {sourced, FALSE} :
      Verify(contract, t, r, s) \in {verdict, "unknown"}

\* The experiment is decidable: a firmware whose accesses are exact and all
\* different, that enables, triggers and then reads STATUS once, is verified
\* against its reference run as soon as nothing of the evidence is missing.
CompleteEvidenceVerifies ==
  /\ stage = "verdict" /\ contract = Full /\ sourced
  /\ target.tree = "variant" /\ target.linked
  /\ reference # NoRun /\ reference.linked /\ reference.tree = "reference"
  /\ reference.program = target.program /\ reference.context = target.context
  /\ AllExact(target) /\ ~Repeats(target.bus) /\ ~Repeats(reference.bus)
  /\ \E n \in DOMAIN target.program :
       Fires(target.program, n) /\ Cardinality(StatusReads(target, n)) = 1
  => verdict = "verified"
=============================================================================
