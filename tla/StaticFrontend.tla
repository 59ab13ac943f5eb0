--------------------------- MODULE StaticFrontend ---------------------------
(***************************************************************************)
(* The static firmware frontend: ghidra_normalize.py walks the listing of  *)
(* a Ghidra export in the order of its addresses and keeps the registers   *)
(* whose content it takes to be known; semantics_riscv.py, semantics_arm.py*)
(* and semantics_powerpc.py say what each instruction does to them and     *)
(* which facts it gives.                                                   *)
(*                                                                         *)
(* An instruction is [m, d, w, s, v, n]: its mnemonic, the register it     *)
(* writes, another one it writes (the second of a pair, or a base that is  *)
(* written back), the one it reads its base or source from, the one whose  *)
(* content it stores, and its number (an immediate, an offset or the target*)
(* of a jump).  An operand that is not there, or not in a form the code    *)
(* parses, is None.  Mnemonics the decoders do not know are unsupported to *)
(* them, whatever they are; malformed operand lists are treated the same   *)
(* way.                                                                    *)
(* Known contents are integers without a width, as in the code.            *)
(*                                                                         *)
(* A program is [isa, code, entries, labels]: address k holds code[k].     *)
(***************************************************************************)
EXTENDS Integers, Sequences, FiniteSets

CONSTANTS
  Registers,     \* the general registers of the programs
  Zero,          \* the RISC-V register that is always zero
  Upper,         \* the weight of an upper immediate (2^12 or 2^16)
  None           \* no operand, no address, no value

ASSUME UpperAssumption == Upper \in Nat \ {0} /\ Zero \notin Registers

NothingKnown == [x \in Registers |-> None]

-----------------------------------------------------------------------------
(* What the decoders share.                                                *)
Known(r, x) == CASE x = Zero -> 0 [] x \in Registers -> r[x] [] OTHER -> None

\* A constant is given to a register, or None to kill it; zero keeps its content.
Assign(r, x, value) == IF x \in Registers THEN [r EXCEPT ![x] = value] ELSE r
Kill(r, x) == Assign(r, x, None)

Plus(value, n) == IF value = None \/ n = None THEN None ELSE value + n
Times(n, k)    == IF n = None THEN None ELSE n * k

Fact(kind) == [kind |-> kind, address |-> None, value |-> None, width |-> None]

\* memory_result: an unknown address makes the fact partial.
Memory(kind, address, value, width) ==
  [kind |-> kind, address |-> address, value |-> value, width |-> width]

\* The jumps of the three decoders: an unresolved target makes them indirect.
Flow(kind, indirect, target) ==
  [Fact(IF target = None THEN indirect ELSE kind) EXCEPT !.address = target]

Effect(r, facts) == [known |-> r, facts |-> facts]
Unsupported == Effect(NothingKnown, {Fact("UNKNOWN")})

-----------------------------------------------------------------------------
(* RISC-V                                                                  *)
CsrImmediate == {"csrwi", "csrsi", "csrci", "csrrwi", "csrrsi", "csrrci"}
CsrWrites    == {"csrw", "csrwi"}
CsrSwaps     == {"csrrw", "csrrwi"}
CsrSetsClears == {"csrs", "csrc", "csrsi", "csrci", "csrrs", "csrrc", "csrrsi", "csrrci"}
CsrAll == {"csrr"} \cup CsrWrites \cup CsrSwaps \cup CsrSetsClears

\* csrrw to zero does not read, and setting or clearing no bit does not write.
Csr(i, r) ==
  LET noBits == IF i.m \in CsrImmediate THEN i.n = 0 ELSE i.s = Zero
      reads  == i.m \in {"csrr"} \cup CsrSetsClears \/ (i.m \in CsrSwaps /\ i.d # Zero)
      writes == i.m \in CsrWrites \cup CsrSwaps \/ (i.m \in CsrSetsClears /\ ~noBits)
  IN  Effect(Kill(r, i.d),
             (IF reads THEN {Fact("SYSTEM_REGISTER_READ")} ELSE {})
             \cup (IF writes THEN {Fact("SYSTEM_REGISTER_WRITE")} ELSE {}))

RiscvLoads  == [lb |-> 8, lbu |-> 8, lh |-> 16, lhu |-> 16, lw |-> 32, lwu |-> 32, ld |-> 64]
RiscvStores == [sb |-> 8, sh |-> 16, sw |-> 32, sd |-> 64]
RiscvAmo    == {"amoswap", "amoadd", "amoxor", "amoor", "amoand", "amomin", "amomax", "amominu", "amomaxu"}
RiscvBranches == {"beq", "bne", "blt", "bge", "bltu", "bgeu"}
RiscvCalls  == {"jal", "call", "jalr"}
RiscvAlu    == {"add", "sub", "and", "or", "xor", "sll", "srl", "sra", "slt", "sltu", "auipc",
                "addw", "subw", "sllw", "srlw", "sraw", "xori", "ori", "andi", "slti", "sltiu",
                "slli", "srli", "srai", "addiw", "slliw", "srliw", "sraiw"}

Riscv(i, r) ==
  LET address == Plus(Known(r, i.s), i.n)
      stored  == Known(r, i.v)
  IN  CASE i.m \in CsrAll -> Csr(i, r)
        [] i.m = "li"   -> Effect(Assign(r, i.d, i.n), {Fact("INSTRUCTION")})
        [] i.m = "lui"  -> Effect(Assign(r, i.d, Times(i.n, Upper)), {Fact("INSTRUCTION")})
        [] i.m = "addi" -> Effect(Assign(r, i.d, address), {Fact("INSTRUCTION")})
        [] i.m = "mv"   -> Effect(Assign(r, i.d, Known(r, i.s)), {Fact("INSTRUCTION")})
        [] i.m \in DOMAIN RiscvLoads ->
             Effect(Kill(r, i.d), {Memory("MEMORY_LOAD", address, None, RiscvLoads[i.m])})
        [] i.m \in DOMAIN RiscvStores ->
             Effect(r, {Memory("MEMORY_STORE", address, stored, RiscvStores[i.m])})
        [] i.m \in {"fence", "fence.tso"} -> Effect(r, {Fact("MEMORY_BARRIER")})
        [] i.m = "fence.i"    -> Effect(r, {Fact("INSTRUCTION_BARRIER")})
        [] i.m = "sfence.vma" -> Effect(r, {Fact("TLB_INVALIDATE")})
        [] i.m = "lr" -> Effect(Kill(r, i.d), {Memory("ATOMIC_LOAD", Known(r, i.s), None, 32)})
        [] i.m = "sc" -> Effect(Kill(r, i.d), {Memory("ATOMIC_STORE", Known(r, i.s), stored, 32)})
        [] i.m \in RiscvAmo ->
             Effect(Kill(r, i.d), {Memory("ATOMIC_LOAD", Known(r, i.s), None, 32),
                                   Memory("ATOMIC_STORE", Known(r, i.s), stored, 32)})
        [] i.m = "ret" -> Effect(NothingKnown, {Fact("RETURN")})
        [] i.m \in {"mret", "sret", "uret"} -> Effect(NothingKnown, {Fact("EXCEPTION_RETURN")})
        [] i.m \in RiscvBranches ->
             Effect(NothingKnown, {[Fact("CONDITIONAL_BRANCH") EXCEPT !.address = i.n]})
        [] i.m \in RiscvCalls /\ i.d # Zero ->
             Effect(NothingKnown, {Flow("DIRECT_CALL", "INDIRECT_CALL", i.n)})
        [] i.m \in {"j", "jr"} \/ (i.m \in RiscvCalls /\ i.d = Zero) ->
             Effect(NothingKnown, {Flow("DIRECT_BRANCH", "INDIRECT_BRANCH", i.n)})
        [] i.m \in RiscvAlu -> Effect(Kill(r, i.d), {Fact("INSTRUCTION")})
        [] i.m = "nop" -> Effect(r, {Fact("INSTRUCTION")})
        [] OTHER -> Unsupported

-----------------------------------------------------------------------------
(* ARM and Thumb: an address is [register] or [register,#number].          *)

\* Every name that begins with ldr or str is a load or a store, whatever follows: wide
\* encodings (.w), conditions (eq), pairs (d), exclusive accesses (ex).  A few of each.
ArmLoads  == {"ldr", "ldrb", "ldrh", "ldrsb", "ldrsh", "ldr.w", "ldrb.w", "ldrh.w", "ldreq", "ldrbeq",
              "ldrd", "ldrex", "ldrexb", "ldrexh", "ldrexd"}
ArmStores == {"str", "strb", "strh", "str.w", "strb.w", "strh.w", "streq", "strbeq",
              "strd", "strex", "strexb", "strexh", "strexd"}

\* The width is told by the last letter.
ArmWidth(m) ==
  CASE m \in {"ldrb", "ldrsb", "ldrexb", "strb", "strexb"} -> 8
    [] m \in {"ldrh", "ldrsh", "ldrexh", "strh", "strexh"} -> 16
    [] OTHER -> 32

\* The first operand is the register transferred and the second the address; but strex
\* has the register it writes first, and all of these have a register second.
ArmExclusiveStores == {"strex", "strexb", "strexh", "strexd"}
ArmRegisterSecond  == ArmExclusiveStores \cup {"strd", "ldrd", "ldrexd"}

ArmKills  == {"add", "adds", "sub", "subs", "and", "orr", "eor"}

\* movt keeps the lower half of a content it knows.
Movt(i, r) ==
  IF i.n = None \/ Known(r, i.d) = None THEN None ELSE (Known(r, i.d) % Upper) + i.n * Upper

Arm(i, r) ==
  LET address == IF i.m \in ArmRegisterSecond THEN None ELSE Plus(Known(r, i.s), i.n)
      first   == Known(r, IF i.m \in ArmExclusiveStores THEN i.d ELSE i.v)
  IN  CASE i.m \in {"mov", "movs", "movw"} -> Effect(Assign(r, i.d, i.n), {Fact("INSTRUCTION")})
        [] i.m = "movt" -> Effect(Assign(r, i.d, Movt(i, r)), {Fact("INSTRUCTION")})
        [] i.m \in ArmLoads ->
             Effect(Kill(r, i.d), {Memory("MEMORY_LOAD", address, None, ArmWidth(i.m))})
        [] i.m \in ArmStores ->
             Effect(r, {Memory("MEMORY_STORE", address, first, ArmWidth(i.m))})
        [] i.m = "mrs" -> Effect(Kill(r, i.d), {Fact("SYSTEM_REGISTER_READ")})
        [] i.m = "msr" -> Effect(r, {Fact("SYSTEM_REGISTER_WRITE")})
        [] i.m \in {"dmb", "dsb"} -> Effect(r, {Fact("MEMORY_BARRIER")})
        [] i.m = "isb" -> Effect(r, {Fact("INSTRUCTION_BARRIER")})
        [] i.m \in {"bl", "blx"} ->
             Effect(NothingKnown, {Flow("DIRECT_CALL", "INDIRECT_CALL", i.n)})
        [] i.m \in {"bx lr", "pop pc"} -> Effect(NothingKnown, {Fact("RETURN")})
        [] i.m = "b" -> Effect(NothingKnown, {Flow("DIRECT_BRANCH", "INDIRECT_BRANCH", i.n)})
        [] i.m \in {"beq", "bne", "bx", "bleq", "bics"} -> \* whatever begins with b
             Effect(NothingKnown, {Flow("CONDITIONAL_BRANCH", "INDIRECT_BRANCH", i.n)})
        [] i.m = "push" -> Effect(Kill(r, "sp"), {Fact("INSTRUCTION")})
        [] i.m \in ArmKills -> Effect(Kill(r, i.d), {Fact("INSTRUCTION")})
        [] i.m \in {"cmp", "cmn", "tst", "nop"} -> Effect(r, {Fact("INSTRUCTION")})
        [] OTHER -> Unsupported

-----------------------------------------------------------------------------
(* PowerPC                                                                 *)
PowerpcLoads  == [lbz |-> 8, lhz |-> 16, lwz |-> 32, ld |-> 64]
PowerpcStores == [stb |-> 8, sth |-> 16, stw |-> 32, std |-> 64]

Powerpc(i, r) ==
  LET address == Plus(Known(r, i.s), i.n)
  IN  CASE i.m = "li"    -> Effect(Assign(r, i.d, i.n), {Fact("INSTRUCTION")})
        [] i.m = "lis"   -> Effect(Assign(r, i.d, Times(i.n, Upper)), {Fact("INSTRUCTION")})
        [] i.m = "addi"  -> Effect(Assign(r, i.d, address), {Fact("INSTRUCTION")})
        [] i.m = "addis" ->
             Effect(Assign(r, i.d, Plus(Known(r, i.s), Times(i.n, Upper))), {Fact("INSTRUCTION")})
        [] i.m \in DOMAIN PowerpcLoads ->
             Effect(Kill(r, i.d), {Memory("MEMORY_LOAD", address, None, PowerpcLoads[i.m])})
        [] i.m \in DOMAIN PowerpcStores ->
             Effect(r, {Memory("MEMORY_STORE", address, Known(r, i.v), PowerpcStores[i.m])})
        [] i.m = "mfspr" -> Effect(Kill(r, i.d), {Fact("SYSTEM_REGISTER_READ")})
        [] i.m = "mtspr" -> Effect(r, {Fact("SYSTEM_REGISTER_WRITE")})
        [] i.m \in {"sync", "lwsync", "eieio"} -> Effect(r, {Fact("MEMORY_BARRIER")})
        [] i.m = "isync" -> Effect(r, {Fact("INSTRUCTION_BARRIER")})
        [] i.m = "lwarx" -> Effect(Kill(r, i.d), {Fact("ATOMIC_LOAD")})
        [] i.m = "stwcx." -> Effect(r, {Fact("ATOMIC_STORE")})
        [] i.m \in {"rfi", "rfid"} -> Effect(NothingKnown, {Fact("EXCEPTION_RETURN")})
        [] i.m \in {"blr", "bclr"} -> Effect(NothingKnown, {Fact("RETURN")})
        [] i.m \in {"bl", "bctrl"} ->
             Effect(NothingKnown, {Flow("DIRECT_CALL", "INDIRECT_CALL", i.n)})
        [] i.m \in {"b", "ba"} ->
             Effect(NothingKnown, {Flow("DIRECT_BRANCH", "INDIRECT_BRANCH", i.n)})
        [] i.m \in {"bctr", "beq", "bne"} ->
             Effect(NothingKnown, {Flow("CONDITIONAL_BRANCH", "INDIRECT_BRANCH", i.n)})
        [] i.m \in {"or", "ori", "add", "subf"} -> Effect(Kill(r, i.d), {Fact("INSTRUCTION")})
        [] i.m \in {"cmpwi", "cmplwi", "nop"} -> Effect(r, {Fact("INSTRUCTION")})
        [] OTHER -> Unsupported

Classify(isa, i, r) ==
  CASE isa = "riscv" -> Riscv(i, r) [] isa = "arm" -> Arm(i, r) [] isa = "powerpc" -> Powerpc(i, r)

-----------------------------------------------------------------------------
(* What Ghidra exports: functions by their entries, basic blocks, which end*)
(* with a jump but not with a call, and every edge between blocks.         *)
Branches == RiscvBranches
Jumps    == {"j", "b", "ba"}
Returns  == {"ret", "mret", "bx lr", "pop pc", "blr", "rfi"}
Indirect == {"jr", "bx", "bctr"}
Calls    == RiscvCalls \cup {"bl", "blx", "bleq", "bctrl"}

IsJump(i) == i.m \in Jumps \/ (i.m \in RiscvCalls /\ i.d = Zero)
IsCall(i) == i.m \in Calls /\ i.d # Zero
EndsBlock(i) == i.m \in Branches \cup Returns \cup Indirect \/ IsJump(i)

Targets(p)  == {p.code[k].n : k \in {k \in DOMAIN p.code : p.code[k].m \in Branches \/ IsJump(p.code[k])}}
Greatest(S) == CHOOSE x \in S : \A y \in S : y <= x

Leaders(p) ==
  DOMAIN p.code \cap
    ({1} \cup p.entries \cup p.labels \cup Targets(p)
     \cup {k + 1 : k \in {k \in DOMAIN p.code : EndsBlock(p.code[k])}})

\* owners(pc) for functions that do not overlap, and block_start.
Owner(p, pc) == Greatest({e \in p.entries : e <= pc})
Block(p, pc) == Greatest({b \in Leaders(p) : b <= pc})

\* The last instruction of each block gives its edges.
Edges(p) ==
  UNION {LET i    == p.code[k]
             jump == [source |-> Block(p, k), target |-> i.n, type |-> "JUMP"]
             fall == [source |-> Block(p, k), target |-> k + 1, type |-> "FALL_THROUGH"]
         IN  (IF i.m \in Branches \/ IsJump(i) THEN {jump} ELSE {})
             \cup (IF ~EndsBlock(i) \/ i.m \in Branches THEN {fall} ELSE {})
         : k \in {k \in DOMAIN p.code : k = Len(p.code) \/ k + 1 \in Leaders(p)}}

-----------------------------------------------------------------------------
(* normalize: what is known is forgotten at the start of a function and of *)
(* a block, unless the block is entered from the one before it only.       *)
StraightFallthrough_AnyEdge(p, pc) == \* A variant that does not ask for the only edge.
  \E e \in Edges(p) : e.source = Block(p, pc - 1) /\ e.target = pc /\ e.type = "FALL_THROUGH"

StraightFallthrough(p, pc) ==
  LET incoming == {e \in Edges(p) : e.target = Block(p, pc)}
      outgoing == {e \in Edges(p) : e.source = Block(p, pc - 1)}
  IN  /\ Cardinality(incoming) = 1
      /\ incoming = outgoing
      /\ \A e \in incoming : e.type = "FALL_THROUGH"

Forgets(p, pc) ==
  \/ Owner(p, pc) # Owner(p, pc - 1)
  \/ (Block(p, pc) # Block(p, pc - 1) /\ ~StraightFallthrough(p, pc))

\* What is known before each instruction, and the facts it gives.
KnownBefore(p) ==
  LET known[pc \in DOMAIN p.code] ==
        IF pc = 1 \/ Forgets(p, pc) THEN NothingKnown
        ELSE Classify(p.isa, p.code[pc - 1], known[pc - 1]).known
  IN  known

Normalize(p) ==
  LET known == KnownBefore(p)
  IN  [pc \in DOMAIN p.code |-> Classify(p.isa, p.code[pc], known[pc]).facts]
=============================================================================
