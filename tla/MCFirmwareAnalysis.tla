------------------------- MODULE MCFirmwareAnalysis -------------------------
(* Small programs: every short sequence of the instructions that move       *)
(* constants, per architecture, and every short flow of control.            *)
EXTENDS FirmwareAnalysis

I(m, d, s, v, n) == [m |-> m, d |-> d, w |-> None, s |-> s, v |-> v, n |-> n]

\* The instruction also writes x.
Also(i, x) == [i EXCEPT !.w = x]

Program(isa, code, entries, labels, sites, exact) ==
  [isa |-> isa, code |-> code, entries |-> entries, labels |-> labels,
   sites |-> sites, exact |-> exact]

\* Two registers, of which ARM calls one sp.
RiscvData ==
  {I("li", "a", None, None, 3), I("lui", "a", None, None, 1), I("lui", "a", None, None, 2),
   I("li", Zero, None, None, 3), I("addi", "sp", "a", None, 3), I("addi", "a", Zero, None, 2), I("mv", "sp", "a", None, None),
   I("add", "a", None, None, None), I("csrrw", "a", "sp", None, None),
   I("amoswap", "sp", "a", "sp", None), I("lr", "a", "sp", None, None),
   I("fence.tso", None, None, None, None), I("mul", "a", None, None, None)}

RiscvAccess ==
  {I("sw", None, "a", "sp", 1), I("lb", "a", "a", None, 0), I("sd", None, Zero, "a", 2),
   I("amoswap", "sp", "a", "sp", None), I("lr", "a", "sp", None, None), I("sc", "a", "sp", "a", None),
   I("amoadd", "a", "sp", "a", None), I("fsw", None, "a", "sp", 0),
   I("csrr", "a", None, None, None), I("csrw", None, "a", None, None),
   I("csrrw", Zero, "a", None, None), I("csrrw", "a", Zero, None, None),
   I("csrrs", "a", Zero, None, None), I("csrrs", Zero, "a", None, None),
   I("csrrsi", "a", None, None, 0), I("csrrci", "a", None, None, 1),
   I("csrc", None, Zero, None, None), I("csrsi", None, None, None, 1), I("csrrwi", "a", None, None, 0)}

ArmData ==
  {I("movw", "a", None, None, 1), I("mov", "sp", None, None, 3), I("mov", "a", "sp", None, None),
   I("movt", "a", None, None, 3), I("ldrh", "a", "sp", None, 1), I("add", "a", None, None, None),
   I("push", "sp", None, None, None), I("cmp", None, None, None, None),
   I("mrs", "a", None, None, None), I("mul", "a", None, None, None),
   Also(I("ldr", "a", "sp", None, None), "sp"), Also(I("str", None, "a", "sp", 0), "a"),
   Also(I("ldrd", "a", "a", None, 0), "sp"), I("strex", "a", "sp", "a", None), I("ldreq", "a", "sp", None, 0)}

ArmAccess ==
  {I("strb", None, "a", "sp", 1), I("ldr", "sp", "a", None, 0), I("str", None, "sp", "a", 2),
   I("ldrh", "a", "sp", None, 1), I("str", None, "a", "sp", None), I("msr", None, "a", None, None), I("mrs", "a", None, None, None),
   Also(I("ldrd", "a", "a", None, 0), "sp"), I("strd", None, "a", "sp", 0), I("ldrex", "a", "sp", None, 0),
   I("strexb", "a", "sp", "a", None), I("ldrh.w", "a", "a", None, 1), I("strbeq", None, "a", "sp", 1),
   I("push", "sp", None, None, None), I("stm", None, "a", "sp", None)}

PowerpcData ==
  {I("li", "a", None, None, 3), I("lis", "a", None, None, -1), I("addi", "sp", "a", None, 3),
   I("addis", "a", "a", None, 1), I("lhz", "a", "sp", None, 1), I("or", "a", None, None, None),
   I("mfspr", "a", None, None, None), I("stwcx.", None, "a", "sp", None), I("lwarx", "sp", "a", None, None),
   I("cmpwi", None, None, None, None), I("mtlr", None, None, None, None)}

PowerpcAccess ==
  {I("stb", None, "a", "sp", 1), I("lwz", "sp", "a", None, 0), I("std", None, "sp", "a", 2),
   I("stwcx.", None, "a", "sp", None), I("lwarx", "sp", "a", None, None), I("mtspr", None, "a", None, None),
   I("mfspr", "a", None, None, None), I("stwu", None, "sp", "a", 0)}

\* Two steps of data and an access; with a label, the second step begins a block (which
\* has nothing to do with the architecture).  The site has no owner, as nothing is to be
\* searched here.
Data(isa, steps, accesses, labels) ==
  {Program(isa, <<x, y, z>>, {1}, labels, {<<Nothing, 3>>}, {1}) :
     x \in steps, y \in steps, z \in accesses}

\* Constants across branches, calls and function entries: every flow of length
\* four, and of length five those without jumps and returns.
Li == I("li", "a", None, None, 3)
Sw == I("sw", None, "a", "a", 0)
Ret == I("ret", None, None, None, None)
Beq(k) == I("beq", None, None, None, k)
J(k)   == I("j", None, None, None, k)
Jal(k) == I("jal", "a", None, None, k)

Flows == {Li, Sw, Ret, Jal(1), Jal(3)} \cup {Beq(k) : k \in 1 .. 4} \cup {J(k) : k \in {1, 3, 4}}
Codes == {<<Li>> \o c : c \in [1 .. 3 -> Flows]}
LongCodes == {<<Li>> \o c \o <<Sw>> : c \in [1 .. 3 -> {Jal(1), Jal(4)} \cup {Beq(k) : k \in 2 .. 5}]}

SiteStores(c) == {k \in DOMAIN c : c[k].m = "sw"}

\* One function, or a second one at the third or fourth instruction; a site is said to
\* be in either; angr finds both functions, or not the first.
ControlPrograms(codes) ==
  UNION {{Program("riscv", c, e, {2}, {<<h, Greatest(SiteStores(c))>>}, x) :
            h \in e, x \in {e, e \ {1}}} :
         c \in {c \in codes : SiteStores(c) # {}}, e \in {{1}, {1, 3}, {1, 4}}}

\* Calls are to functions, and the last instruction of a function is not one that
\* comes back; jumps stay in their function or go to another one's entry.
CallsEntries(p) ==
  \A k \in DOMAIN p.code : IsCall(p.code[k]) => p.code[k].n \in p.entries /\ k + 1 \notin p.entries
StaysInside(p) ==
  \A k \in DOMAIN p.code :
    p.code[k].m \in Branches \cup Jumps =>
      p.code[k].n \in p.entries \/ Owner(p, p.code[k].n) = Owner(p, k)

\* One program also has a function of which angr has no node.
MCPrograms ==
  Data("riscv", RiscvData, RiscvAccess, {}) \cup Data("arm", ArmData, ArmAccess, {})
  \cup Data("powerpc", PowerpcData, PowerpcAccess, {})
  \cup Data("riscv", RiscvData, {I("sw", None, "a", "sp", 1)}, {2})
  \cup {Program("riscv", <<Li, Sw, Ret>>, {1}, {}, {<<9, 2>>}, {1, 9})}
  \cup {p \in ControlPrograms(Codes \cup LongCodes) : CallsEntries(p) /\ StaysInside(p)}

MCSamples == {0, 5}
MCCfgs == {}
=============================================================================
