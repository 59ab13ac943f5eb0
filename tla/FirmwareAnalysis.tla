-------------------------- MODULE FirmwareAnalysis --------------------------
(***************************************************************************)
(* The static view of a firmware beside the firmware: the facts that the   *)
(* frontend derives from the listing and the answer of the reachability    *)
(* search, and then a run of the program.                                  *)
(*                                                                         *)
(* The processor, and the graph that angr recovers, are not part of the    *)
(* repository; they are modelled from their manuals as far as the code     *)
(* relies on them.  A run may start at any function with any registers.  A *)
(* call comes back with any registers; loads, system registers and the     *)
(* other operations give any of a few samples.  An unsupported instruction *)
(* does anything but jump.  Jumps to addresses in registers leave the      *)
(* program: the graphs hold the edges that are resolved.                   *)
(***************************************************************************)
EXTENDS StaticFrontend, StaticReachability

CONSTANTS
  Programs,      \* the firmware analysed: with the sites asked about, each with the
                 \*   function said to own it, and the functions angr finds
  Word,          \* registers hold 0 .. Word - 1
  Narrow,        \* upper immediates are words below Narrow, extended to a register
  Samples        \* what an operation without a known result may give

VARIABLES
  program,
  facts,         \* the facts of the analysis, per address
  run            \* the firmware: where it is, its registers, and the function
                 \*   whose nodes the walker follows, Nothing if it follows none

firmware == <<program, facts, run>>

-----------------------------------------------------------------------------
(* The graph of angr: like Ghidra's, but calls end a node, and labels do   *)
(* not start one.                                                          *)
Nodes(p) ==
  DOMAIN p.code \cap
    (p.entries \cup Targets(p)
     \cup {k + 1 : k \in {k \in DOMAIN p.code : EndsBlock(p.code[k]) \/ IsCall(p.code[k])}})

Node(p, pc) == Greatest({n \in Nodes(p) : n <= pc})

Edge(source, target, kind) ==
  [id |-> 100 * source + 10 * target + (IF kind = "branch" THEN 0 ELSE 1),
   source |-> source, target |-> target, kind |-> kind]

Successors(p, k) ==
  LET i == p.code[k]
      n == Node(p, k)
  IN  {e \in (IF i.m \in Branches \/ IsJump(i) THEN {Edge(n, i.n, "branch")} ELSE {})
             \cup (IF i.m \in Branches \/ ~(EndsBlock(i) \/ IsCall(i))
                   THEN {Edge(n, k + 1, "branch")} ELSE {})
             \cup (IF IsCall(i) THEN {Edge(n, k + 1, "fakeret")} ELSE {})
             \cup (IF IsCall(i) /\ i.n # None THEN {Edge(n, i.n, "call")} ELSE {})
         : e.target \in Nodes(p)}

NodeEdges(p) ==
  UNION {Successors(p, k) : k \in {k \in DOMAIN p.code : k = Len(p.code) \/ k + 1 \in Nodes(p)}}

\* The call graph: calls, and jumps from one function to the entry of another.
CallEdges(p) ==
  {Edge(Owner(p, e.source), e.target, "call") :
     e \in {e \in NodeEdges(p) : \/ e.kind = "call"
                                 \/ e.kind = "branch" /\ Owner(p, e.source) # Owner(p, e.target)}}

Recovered(p) ==
  [nodes |-> Nodes(p), edges |-> NodeEdges(p), calls |-> CallEdges(p),
   at |-> [n \in Nodes(p) |-> n], owner |-> [n \in Nodes(p) |-> Owner(p, n)],
   holds |-> [n \in Nodes(p) |-> {k \in DOMAIN p.code : Node(p, k) = n}],
   exact |-> p.exact]

-----------------------------------------------------------------------------
(* The processor.                                                          *)
Content(regs, x) == IF x = Zero THEN 0 ELSE regs[x]
\* (An index register in place of a number holds 0.)
Effective(i, regs) == (Content(regs, i.s) + (IF i.n = None THEN 0 ELSE i.n)) % Word

\* (Of what the decoders do not know, one store of each architecture.)
ArmExclusiveLoads == {"ldrex", "ldrexb", "ldrexh", "ldrexd"}
Loads   == {"lb", "lbu", "lh", "lhu", "lw", "lwu", "ld", "lbz", "lhz", "lwz"}
             \cup (ArmLoads \ ArmExclusiveLoads)
Stores  == {"sb", "sh", "sw", "sd", "stb", "sth", "stw", "std", "fsw", "stm", "stwu"}
             \cup (ArmStores \ ArmExclusiveStores)
Bytes   == {"lb", "lbu", "sb", "lbz", "stb", "ldrb", "ldrb.w", "ldrbeq", "ldrsb", "ldrexb",
            "strb", "strb.w", "strbeq", "strexb"}
Halves  == {"lh", "lhu", "sh", "lhz", "sth", "ldrh", "ldrh.w", "ldrsh", "ldrexh", "strh", "strh.w", "strexh"}
Doubles == {"ld", "sd", "std", "ldrd", "ldrexd", "strd", "strexd"}
Conditional == {"ldreq", "ldrbeq", "streq", "strbeq"}

Width(m) ==
  CASE m \in Bytes -> 8 [] m \in Halves -> 16 [] m \in Doubles -> 64 [] OTHER -> 32

\* An upper immediate fills a register with its sign.
SignExtended(x) == LET y == x % Narrow IN (IF 2 * y < Narrow THEN y ELSE y - Narrow) % Word

\* What an instruction leaves in the register it writes.
Results(i, regs) ==
  CASE i.m \in {"li", "mov", "movs", "movw"} /\ i.n # None -> {i.n % Word}
    [] i.m = "mv" \/ (i.m = "mov" /\ i.n = None) -> {Content(regs, i.s)}
    [] i.m \in {"lui", "lis"} -> {SignExtended(i.n * Upper)}
    [] i.m = "addi"  -> {Effective(i, regs)}
    [] i.m = "addis" -> {(Content(regs, i.s) + i.n * Upper) % Word}
    [] i.m = "movt"  -> {((Content(regs, i.d) % Upper) + i.n * Upper) % Word}
    [] OTHER -> Samples

Written(regs, x, values) ==
  IF x \in Registers THEN {[regs EXCEPT ![x] = y] : y \in values} ELSE {regs}

Completed(i, regs) == UNION {Written(t, i.w, Samples) : t \in Written(regs, i.d, Results(i, regs))}

After(isa, i, regs) ==
  IF Classify(isa, i, NothingKnown) = Unsupported \/ IsCall(i) THEN [Registers -> Samples]
  ELSE Completed(i, regs) \cup (IF i.m \in Conditional THEN {regs} ELSE {})

\* What an instruction does to memory and to the system registers, if it has a condition
\* then when that holds.  What is stored is None where it is not the content of one
\* register: by a pair, by push, and by the atomic operations that compute with memory.
Accesses(i, regs) ==
  LET load  == Memory("ATOMIC_LOAD", Content(regs, i.s), None, 32)
      store == Memory("ATOMIC_STORE", Content(regs, i.s), Content(regs, i.v), 32)
  IN  CASE i.m \in Loads  -> {Memory("MEMORY_LOAD", Effective(i, regs), None, Width(i.m))}
        [] i.m = "strd"   -> {Memory("MEMORY_STORE", Effective(i, regs), None, 64)}
        [] i.m \in Stores \ {"strd"} ->
             {Memory("MEMORY_STORE", Effective(i, regs), Content(regs, i.v), Width(i.m))}
        [] i.m = "push"   -> {Memory("MEMORY_STORE", None, None, 32)}
        [] i.m \in ArmExclusiveLoads -> {Memory("ATOMIC_LOAD", Effective(i, regs), None, Width(i.m))}
        [] i.m \in ArmExclusiveStores ->
             {Memory("ATOMIC_STORE", Effective(i, regs), Content(regs, i.v), Width(i.m))}
        [] i.m \in {"lr", "lwarx"} -> {load}
        [] i.m \in {"sc", "stwcx."} -> {store}
        [] i.m = "amoswap" -> {load, store}
        [] i.m \in RiscvAmo \ {"amoswap"} -> {load, [store EXCEPT !.value = None]}
        [] i.m \in {"csrr", "mrs", "mfspr"} -> {Fact("SYSTEM_REGISTER_READ")}
        [] i.m \in {"csrw", "csrwi", "msr", "mtspr"} -> {Fact("SYSTEM_REGISTER_WRITE")}
        [] i.m \in {"csrrw", "csrrwi"} ->
             {Fact("SYSTEM_REGISTER_WRITE")} \cup (IF i.d = Zero THEN {} ELSE {Fact("SYSTEM_REGISTER_READ")})
        [] i.m \in {"csrs", "csrc", "csrrs", "csrrc"} ->
             {Fact("SYSTEM_REGISTER_READ")} \cup (IF i.s = Zero THEN {} ELSE {Fact("SYSTEM_REGISTER_WRITE")})
        [] i.m \in {"csrsi", "csrci", "csrrsi", "csrrci"} ->
             {Fact("SYSTEM_REGISTER_READ")} \cup (IF i.n = 0 THEN {} ELSE {Fact("SYSTEM_REGISTER_WRITE")})
        [] OTHER -> {}

\* The mnemonics that leave all registers as they are but for a base written back.
WithoutResult ==
  (Stores \ ArmExclusiveStores)
  \cup {"fence", "fence.tso", "fence.i", "sfence.vma", "nop", "msr", "dmb", "dsb", "isb", "cmp", "cmn", "tst",
        "mtspr", "sync", "lwsync", "eieio", "isync", "stwcx.", "cmpwi", "cmplwi"}

Isas == {"riscv", "arm", "powerpc"}

\* Operands are where the instruction has them.
Listed(i) ==
  /\ i.n \in Int \cup {None}
  /\ i.m \in {"lui", "lis"} => i.n # None
  /\ i.m \in WithoutResult => i.d \notin Registers
  /\ i.m = "push" => i.d = "sp"

\* A listing begins with a function, and calls are to functions.
Listing(p) ==
  /\ p.isa \in Isas /\ p.code \in Seq({p.code[k] : k \in DOMAIN p.code})
  /\ 1 \in p.entries /\ p.entries \subseteq DOMAIN p.code
  /\ \A k \in DOMAIN p.code :
       /\ Listed(p.code[k])
       /\ IsCall(p.code[k]) /\ p.code[k].n \in DOMAIN p.code => p.code[k].n \in p.entries

ASSUME ProgramsAssumption ==
  /\ None \notin Int /\ Word \in Nat \ {0} /\ Narrow \in Nat \ {0} /\ Word % Upper = 0
  /\ \A p \in Programs : Listing(p)

AccessKinds == {"MEMORY_LOAD", "MEMORY_STORE", "ATOMIC_LOAD", "ATOMIC_STORE",
                "SYSTEM_REGISTER_READ", "SYSTEM_REGISTER_WRITE"}

-----------------------------------------------------------------------------
FirmwareInit ==
  /\ program \in Programs
  /\ cfg = Recovered(program)
  /\ ask \in {a \in Asks(cfg) : a.kind = "site" => <<a.home, a.goal>> \in program.sites}
  /\ Idle
  /\ facts = Normalize(program)
  /\ run = Nothing

\* The catalog is built; the firmware plays no part in it.
Analyse == Search /\ UNCHANGED firmware

\* The firmware is entered at a function, whatever the registers hold.
Enter ==
  /\ status \notin {"asked", "searching"} /\ run = Nothing
  /\ \E entry \in program.entries, regs \in [Registers -> Samples] :
       run' = [pc |-> entry, regs |-> regs,
               follows |-> IF entry = ask.home /\ walker # Nothing THEN entry ELSE Nothing]
  /\ UNCHANGED <<program, facts, vars>>

\* The walker goes along with a run of the function that is asked about: from
\* node to node at a site question, from function to function at the other.
Follows(target) ==
  /\ run.follows # Nothing /\ walker.hops <= Bound(ask)
  /\ ask.kind = "site" => Owner(program, target) = ask.home

Hops(target) ==
  IF ask.kind = "site" THEN target \in cfg.nodes ELSE Owner(program, target) # run.follows

GoTo(target, regs, kind) ==
  /\ target \in DOMAIN program.code
  /\ run' = [pc |-> target, regs |-> regs,
             follows |-> IF Follows(target) THEN Owner(program, target) ELSE Nothing]
  /\ IF Follows(target) /\ Hops(target) THEN Step(target, kind) ELSE UNCHANGED walker
  /\ UNCHANGED <<program, facts, cfg, ask, search>>

Instruction == program.code[run.pc]

Operate ==
  /\ run # Nothing /\ ~EndsBlock(Instruction) /\ ~IsCall(Instruction)
  /\ \E regs \in After(program.isa, Instruction, run.regs) : GoTo(run.pc + 1, regs, "branch")

Branch ==
  /\ run # Nothing /\ Instruction.m \in Branches
  /\ \E target \in {Instruction.n, run.pc + 1} : GoTo(target, run.regs, "branch")

Jump ==
  /\ run # Nothing /\ IsJump(Instruction)
  /\ GoTo(Instruction.n, run.regs, "branch")

\* A call that comes back.
Return ==
  /\ run # Nothing /\ IsCall(Instruction)
  /\ \E regs \in After(program.isa, Instruction, run.regs) : GoTo(run.pc + 1, regs, "fakeret")

\* A call, for the question which functions a run gets to.
Call ==
  /\ run # Nothing /\ IsCall(Instruction) /\ ask.kind = "function"
  /\ \E regs \in After(program.isa, Instruction, run.regs) : GoTo(Instruction.n, regs, "call")

FirmwareNext == Analyse \/ Enter \/ Operate \/ Branch \/ Jump \/ Return \/ Call

FirmwareSpec == FirmwareInit /\ [][FirmwareNext]_<<vars, firmware>>

-----------------------------------------------------------------------------
(* Where the facts can be wrong.  The decoders do not notice everything    *)
(* that they decode: this is all that they overlook.                       *)

\* The registers that an instruction changes and the decoder leaves, or sets wrongly: a
\* base written back or the second of a pair, the status of an exclusive store, and an
\* upper immediate whose sign fills the rest of the register.
Overlooked(i) ==
  {x \in Registers :
     \/ x = i.w
     \/ x = i.d /\ i.m \in ArmExclusiveStores
     \/ x = i.d /\ i.m \in {"lui", "lis"} /\ SignExtended(i.n * Upper) # (i.n * Upper) % Word}

\* The register whose content a constant is made from.
CopiedFrom(i) == CASE i.m \in {"addi", "addis", "mv"} -> i.s [] i.m = "movt" -> i.d [] OTHER -> None

\* The registers whose known content may be wrong after an instruction, and before each
\* instruction of a program: those overlooked, and what was made from them since, until
\* they are written again or all is forgotten.
StaleAfter(i, stale) ==
  (stale \ {i.d}) \cup Overlooked(i) \cup (IF CopiedFrom(i) \in stale THEN {i.d} ELSE {})

Stale(p) ==
  LET stale[pc \in DOMAIN p.code] ==
        IF pc = 1 \/ Forgets(p, pc) THEN {} ELSE StaleAfter(p.code[pc - 1], stale[pc - 1])
  IN  stale

\* What is decoded as a plain access and is an exclusive one; whose width is not that of
\* the last letter; and what does not store the content of the register that is taken.
Exclusive   == ArmExclusiveLoads \cup ArmExclusiveStores
Mismeasured == {"ldrbeq", "ldrb.w", "ldrh.w", "ldrd", "ldrexd", "strbeq", "strb.w", "strh.w", "strd", "strexd"}
Miscounted  == (RiscvAmo \ {"amoswap"}) \cup ArmExclusiveStores \cup {"strd"}

Kind(i, a) ==
  IF i.m \notin Exclusive THEN a.kind
  ELSE IF a.kind = "ATOMIC_LOAD" THEN "MEMORY_LOAD" ELSE "MEMORY_STORE"

\* The facts of an instruction are about what it does, as far as the decoders go.  They
\* name each access that it performs and no other, unless they say that the instruction
\* is not known; push is the only one that is known and whose stores are not named.
\* Wherever a run is, each address and value given as known is the one of the access it
\* is about to perform, unless it comes from a register that is stale or the instruction
\* stores something else; and the kind and the width are right at all instructions but
\* the exclusive and the mismeasured ones, and wrong at those.
FactsAreTrue ==
  run # Nothing =>
    LET i     == Instruction
        said  == {f \in facts[run.pc] : f.kind \in AccessKinds}
        does  == Accesses(i, run.regs)
        stale == Stale(program)[run.pc]
    IN  /\ Fact("UNKNOWN") \in facts[run.pc] \/ i.m = "push"
           \/ \A a \in does : \E f \in said : f.kind = Kind(i, a)
        /\ \A f \in said : \E a \in does :
             /\ f.kind = Kind(i, a)
             /\ f.address # None => f.address % Word = a.address \/ i.s \in stale
             /\ f.value # None => f.value % Word = a.value \/ i.v \in stale \/ i.m \in Miscounted
             /\ f.width # None => (f.width = a.width <=> i.m \notin Mismeasured)
=============================================================================
