--------------------------- MODULE Type2Verifier ---------------------------
(***************************************************************************)
(* verify_type2 (type2_verifier.py): from the evidence of a target run, and *)
(* of an optional reference run, to the verdict on a hardware behaviour    *)
(* contract.  The verifier sees only evidence: a run is                    *)
(*   tree, program, context   the pinned identities of its inputs          *)
(*   rows, bus                the two traces (ExecutionBridge)             *)
(*   samples                  STATUS as sampled in the cycle of each       *)
(*                            transaction, after its effect                *)
(*   linked                   the caller gave the observation binding      *)
(* Both runs have a single reset epoch, which the reader of the trace      *)
(* requires, so a transaction is named by its place in the bus trace.      *)
(***************************************************************************)
EXTENDS ExecutionBridge

CONSTANT NoRun       \* the absence of a reference run

Rows == [pc : Nat, op : {"read", "write"}, addr : Registers, value : Data]
Transactions == [op : {"read", "write"}, addr : Registers, value : Data, late : BOOLEAN]

Runs ==
  [tree : Trees, program : Seq(Instructions), context : {1, 2}, rows : Seq(Rows),
   bus : Seq(Transactions), samples : Seq(Data), linked : BOOLEAN]

ASSUME NoRunAssumption == NoRun \notin Runs

Verdicts == {"supported", "contradicted", "unknown"}

Parts == {"scope", "enable", "command", "order", "precondition", "deviation", "observation"}

(* The contract: which of its parts are formalized, the largest distance    *)
(* between the two writes (0 for none), and the two values of STATUS.       *)
Contracts ==
  [formal : SUBSET Parts, maxGap : Nat, expected : Data, deviating : Data]

EnableAtom  == [op |-> "write", addr |-> "ENABLE", value |-> 1]
CommandAtom == [op |-> "write", addr |-> "COMMAND", value |-> A5]

Sites(run) == BoundSites(run.program, run.rows, run.bus, TRUE)

\* Transactions that a capability may claim as executed.
Claimed(run) ==
  {Binding(run.program, run.rows, run.bus, TRUE, pc).bus : pc \in Sites(run)}

Is(x, atom) == x.op = atom.op /\ x.addr = atom.addr /\ x.value = atom.value

\* The widths always agree, so one more agreement makes a conflict.
Conflicts(x, atom) ==
  /\ x.op = atom.op /\ ~Is(x, atom)
  /\ x.addr = atom.addr \/ x.value = atom.value

None == [status |-> "unknown", tx |-> 0]

\* Mutant of AccessAtom: a conflicting access outweighs the exact one.
AccessAtom_AnyConflict(atom, run) ==
  LET exact       == {j \in Claimed(run) : Is(run.bus[j], atom)}
      conflicting == {j \in Claimed(run) : Conflicts(run.bus[j], atom)}
  IN  IF conflicting # {} THEN [status |-> "contradicted", tx |-> 0]
      ELSE IF Cardinality(exact) = 1 THEN [status |-> "supported", tx |-> CHOOSE j \in exact : TRUE]
      ELSE None

\* _access_atom: exactly one exact access, or none and exactly one conflict.
AccessAtom(atom, run) ==
  LET exact       == {j \in Claimed(run) : Is(run.bus[j], atom)}
      conflicting == {j \in Claimed(run) : Conflicts(run.bus[j], atom)}
  IN  CASE Cardinality(exact) = 1 ->
             [status |-> "supported", tx |-> CHOOSE j \in exact : TRUE]
        [] exact = {} /\ Cardinality(conflicting) = 1 ->
             [status |-> "contradicted", tx |-> 0]
        [] OTHER -> None

\* An access requirement that is not formalized is not looked up.
Access(part, atom, contract, run) ==
  IF part \in contract.formal THEN AccessAtom(atom, run) ELSE None

InOrder(contract, before, after) ==
  before < after /\ (contract.maxGap = 0 \/ after - before <= contract.maxGap)

Ordering(contract, before, after) ==
  IF "order" \notin contract.formal \/ before = 0 \/ after = 0 THEN "unknown"
  ELSE IF InOrder(contract, before, after) THEN "supported"
  ELSE "contradicted"

EnableWrites(run, command) ==
  {j \in 1 .. command - 1 : run.bus[j].op = "write" /\ run.bus[j].addr = "ENABLE"}

\* Mutant of EnabledBefore: some earlier write enabled it, not the last one.
EnabledBefore_Ever(run, command) ==
  \E j \in EnableWrites(run, command) : run.bus[j].value = 1

\* _state_before: the last accepted ENABLE write before the command, if any.
EnabledBefore(run, command) ==
  LET ws == EnableWrites(run, command)
  IN  \E j \in ws : (\A k \in ws : k <= j) /\ run.bus[j].value = 1

Precondition(contract, run, sourced, command) ==
  IF ~sourced \/ "precondition" \notin contract.formal \/ command = 0 THEN "unknown"
  ELSE IF EnabledBefore(run, command) THEN "supported"
  ELSE "contradicted"

Aggregate(statuses) ==
  IF "contradicted" \in statuses THEN "contradicted"
  ELSE IF "unknown" \in statuses THEN "unknown"
  ELSE "supported"

StatusReads(run, command) ==
  {j \in command + 1 .. Len(run.bus) : run.bus[j].op = "read" /\ run.bus[j].addr = "STATUS"}

\* _sample_read: the only later STATUS read, claimed by a capability, which
\* shows what the sample of the command's own cycle shows.
SampleReads(run, command) ==
  {j \in StatusReads(run, command) :
     /\ run.linked
     /\ Cardinality(StatusReads(run, command)) = 1
     /\ j \in Claimed(run)
     /\ run.samples[command] = run.bus[j].value}

ObservedValue(run, command) ==
  run.bus[CHOOSE j \in SampleReads(run, command) : TRUE].value

-----------------------------------------------------------------------------
\* The trigger on the reference run, which never satisfies the contract's scope.
ReferenceTriggered(contract, run) ==
  LET e == Access("enable", EnableAtom, contract, run)
      c == Access("command", CommandAtom, contract, run)
  IN  /\ e.status = "supported" /\ c.status = "supported"
      /\ Ordering(contract, e.tx, c.tx) = "supported"
      /\ EnabledBefore(run, c.tx)

ReferenceCommand(run) == AccessAtom(CommandAtom, run).tx

ReferenceExpected(contract, run) ==
  LET c == ReferenceCommand(run)
  IN  /\ c # 0 /\ SampleReads(run, c) # {}
      /\ ObservedValue(run, c) = contract.expected
      /\ contract.expected # contract.deviating

\* What the firmware did, without the values that it read.
Behaviour(run) ==
  {<<j, run.bus[j].op, run.bus[j].addr,
     IF run.bus[j].op = "write" THEN run.bus[j].value ELSE 0>> : j \in Claimed(run)}

Paired(target, reference) ==
  /\ target.program = reference.program /\ target.context = reference.context
  /\ reference.tree = "reference" /\ target.tree = "variant"

\* Mutant of Controlled: a missing reference is no objection.
Controlled_Optional(contract, target, reference) ==
  reference = NoRun \/ (/\ Paired(target, reference)
                        /\ Behaviour(target) = Behaviour(reference)
                        /\ ReferenceTriggered(contract, reference)
                        /\ ReferenceExpected(contract, reference))

Controlled(contract, target, reference) ==
  /\ reference # NoRun
  /\ Paired(target, reference)
  /\ Behaviour(target) = Behaviour(reference)
  /\ ReferenceTriggered(contract, reference)
  /\ ReferenceExpected(contract, reference)

-----------------------------------------------------------------------------
Trigger(contract, target, sourced) ==
  LET e == Access("enable", EnableAtom, contract, target)
      c == Access("command", CommandAtom, contract, target)
  IN  IF ~("scope" \in contract.formal /\ target.tree = "variant" /\ sourced)
      THEN "unknown"
      ELSE Aggregate({e.status, c.status, Ordering(contract, e.tx, c.tx),
                      Precondition(contract, target, sourced, c.tx)})

\* The command of the target, as far as the contract formalizes it.
Command(contract, target) == Access("command", CommandAtom, contract, target).tx

Observed(contract, target, sourced) ==
  /\ {"scope", "deviation", "observation"} \subseteq contract.formal
  /\ target.tree = "variant" /\ sourced
  /\ Command(contract, target) # 0
  /\ SampleReads(target, Command(contract, target)) # {}

Deviation(contract, target, sourced) ==
  IF ~Observed(contract, target, sourced) THEN "unknown"
  ELSE LET v == ObservedValue(target, Command(contract, target))
       IN  IF v = contract.deviating THEN "supported"
           ELSE IF v = contract.expected THEN "contradicted"
           ELSE "unknown"

\* _final_status.
Final(trigger, deviation, observed, differential) ==
  CASE trigger = "contradicted" -> "trigger_contradicted"
    [] trigger = "supported" /\ deviation = "contradicted" /\ observed -> "deviation_contradicted"
    [] trigger = "supported" /\ deviation = "supported" /\ observed /\ differential -> "verified"
    [] OTHER -> "unknown"

\* verify_type2.  sourced: the state binding and the source evidence are both
\* there and agree with the contract.
Verify(contract, target, reference, sourced) ==
  LET trigger   == Trigger(contract, target, sourced)
      deviation == Deviation(contract, target, sourced)
      observed  == Observed(contract, target, sourced)
      differential == /\ sourced /\ trigger = "supported" /\ deviation = "supported"
                      /\ Controlled(contract, target, reference)
  IN  Final(trigger, deviation, observed, differential)
=============================================================================
