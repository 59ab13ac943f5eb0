--------------------------- MODULE MCTraceReader ---------------------------
(* Arbitrary traces over a few records, for TLC: up to nine events in three *)
(* cycles, which is the shortest trace with two complete transactions.      *)
EXTENDS TraceReader

MCData == {0, 1, A5, DEAD}

Write == [addr |-> "ENABLE", we |-> TRUE, full |-> TRUE, wd |-> 1]
Bad   == [addr |-> "RESERVED", we |-> FALSE, full |-> TRUE, wd |-> 0]

Record(ph, tids, reqs, errs, rstns) ==
  [phase : {ph}, tid : tids, req : reqs, rd : {0}, err : errs, cycle : 1 .. 3,
   epoch : {1, 2}, rstn : rstns, regs : {ResetValues}, seq : 0 .. 8]

MCEvents ==
  Record("reset_assert", {0}, {NoRequest}, {FALSE}, {FALSE})
    \cup Record("reset_release", {0}, {NoRequest}, {FALSE}, {TRUE})
    \cup Record("request", {0, 1, 2}, {Write, Bad}, {FALSE}, {TRUE})
    \cup Record("response", {1, 2}, {Write, Bad}, BOOLEAN, {TRUE})
    \cup Record("status_sample", {0}, {NoRequest}, {FALSE}, BOOLEAN)
    \cup Record("software_stop", {0}, {NoRequest}, {FALSE}, {TRUE})

MCFooters ==
  [complete : {TRUE}, count : 7 .. 9, last : {3}, epochs : {1}, exited : BOOLEAN]
=============================================================================
