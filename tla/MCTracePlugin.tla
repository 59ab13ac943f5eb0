---------------------------- MODULE MCTracePlugin ----------------------------
(* Every policy of up to four events, valid or not, for TLC. *)
EXTENDS TracePlugin

CONSTANTS Entry, Target

MCPc == {Entry, Target}

MaxMaximum == 4

MCDeclared ==
  [target : MCPc \cup {NoTarget}, successors : 0 .. MaxMaximum, maximum : 0 .. MaxMaximum + 1]
=============================================================================
