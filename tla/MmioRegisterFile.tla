-------------------------- MODULE MmioRegisterFile --------------------------
(***************************************************************************)
(* The three registers of the synthetic peripheral and what one bus access *)
(* does to them, in the two RTL trees of the controlled experiment: the    *)
(* Reference tree and the Variant tree, which differs by variant.patch.    *)
(*                                                                         *)
(* The 32-bit addresses are abstracted to the names of the registers; the  *)
(* other words of the device window 0x40000..0x403ff are "RESERVED", and   *)
(* "OUTSIDE" is any address that is not in the window.  `full` says that   *)
(* the byte enable is 0xf.  Data are numbers, as the verifier compares     *)
(* them with the constants of the contract.                                *)
(***************************************************************************)
EXTENDS Integers

CONSTANTS
  Data,          \* the 32-bit words that a run may carry
  NoRequest      \* the absence of a bus request

A5   == 165          \* 32'h000000a5, the trigger value of COMMAND
DEAD == 57005        \* 32'h0000dead, the anomalous STATUS

ASSUME DataAssumption == {0, 1, A5, DEAD} \subseteq Data /\ Data \subseteq Nat

Registers == {"ENABLE", "COMMAND", "STATUS"}
Window    == Registers \cup {"RESERVED"}
Addresses == Window \cup {"OUTSIDE"}
Trees     == {"reference", "variant"}

Requests == [addr : Addresses, we : BOOLEAN, full : BOOLEAN, wd : Data]

ASSUME NoRequestAssumption == NoRequest \notin Requests

RegisterValues == [Registers -> Data]
ResetValues    == [r \in Registers |-> 0]

\* A complete word access to ENABLE or COMMAND, or a read of STATUS.
Legal(q) ==
  /\ q.full
  /\ q.addr \in Registers
  /\ q.addr = "STATUS" => ~q.we

\* Mutant of AfterAccess: the patch forgets to test ENABLE.
AfterAccess_Unguarded(tree, regs, q) ==
  IF ~(Legal(q) /\ q.we) THEN regs
  ELSE IF tree = "variant" /\ q.addr = "COMMAND" /\ q.wd = A5
       THEN [regs EXCEPT !["COMMAND"] = q.wd, !["STATUS"] = DEAD]
       ELSE [regs EXCEPT ![q.addr] = q.wd]

\* The non-blocking assignments of one accepted request, all of them computed
\* from the values before it: the variant tests ENABLE as it was.
AfterAccess(tree, regs, q) ==
  IF ~(Legal(q) /\ q.we) THEN regs
  ELSE LET written == [regs EXCEPT ![q.addr] = q.wd]
       IN  IF /\ tree = "variant"
              /\ q.addr = "COMMAND"
              /\ regs["ENABLE"] = 1
              /\ q.wd = A5
           THEN [written EXCEPT !["STATUS"] = DEAD]
           ELSE written

\* rdata_o of the cycle after the request.
Answer(regs, q) == IF Legal(q) /\ ~q.we THEN regs[q.addr] ELSE 0
=============================================================================
