----------------------------- MODULE MCJointRun -----------------------------
(* Firmwares of up to three accesses, for TLC. *)
EXTENDS JointRun

MCData == {0, 1, A5, DEAD}

I(op, addr, value, static) == [op |-> op, addr |-> addr, value |-> value, static |-> static]

MCInstructions ==
  {I("write", "ENABLE", 1, "exact"), I("write", "ENABLE", 0, "exact"),
   I("write", "COMMAND", A5, "exact"), I("write", "COMMAND", A5, "value unknown"),
   I("write", "COMMAND", A5, "address unknown"),
   I("read", "ENABLE", 0, "exact"), I("read", "STATUS", 0, "exact"),
   I("read", "ENABLE", 0, "address unknown")}

MCPrograms == UNION {[1 .. n -> MCInstructions] : n \in 1 .. 3}

MCForeign ==
  {[op |-> "write", addr |-> "ENABLE", value |-> 1], [op |-> "read", addr |-> "STATUS", value |-> 0]}
=============================================================================
