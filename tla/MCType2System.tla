--------------------------- MODULE MCType2System ---------------------------
(* Firmwares of up to four accesses and a few contracts, for TLC. *)
EXTENDS Type2System

MCData == {0, 1, 164, A5, DEAD}

I(op, addr, value, static) == [op |-> op, addr |-> addr, value |-> value, static |-> static]

\* The accesses of P1 and N1, the enable withdrawn, and a trigger whose value
\* the static side does not know.
Exact ==
  {I("write", "ENABLE", 1, "exact"), I("write", "ENABLE", 0, "exact"),
   I("write", "COMMAND", A5, "exact"), I("write", "COMMAND", 164, "exact"),
   I("read", "STATUS", 0, "exact")}

Hidden == I("write", "COMMAND", A5, "value unknown")

\* Two or three of these in any order, and a last read of STATUS.
MCPrograms ==
  {Append(p, I("read", "STATUS", 0, "exact")) :
     p \in UNION {[1 .. n -> Exact \cup {Hidden}] : n \in 2 .. 3}}

P1 == <<I("write", "ENABLE", 1, "exact"), I("write", "COMMAND", A5, "exact"),
        I("read", "STATUS", 0, "exact")>>

MCContracts ==
  {Full, [Full EXCEPT !.maxGap = 1],
   [Full EXCEPT !.formal = Parts \ {"order"}]}
=============================================================================
