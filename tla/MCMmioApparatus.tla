-------------------------- MODULE MCMmioApparatus --------------------------
(* Small instances of MmioApparatus for TLC.                               *)
EXTENDS MmioApparatus

MCData == {0, 1, A5, DEAD}

Access(addr, we, full, wd) == [addr |-> addr, we |-> we, full |-> full, wd |-> wd]

\* The firmware of the experiment: enable, trigger, read STATUS, in a simulator
\* that ends by itself.
Experiment ==
  [accesses |-> {Access("ENABLE", TRUE, TRUE, 1), Access("COMMAND", TRUE, TRUE, A5),
                 Access("STATUS", FALSE, TRUE, 0)},
   resultWrites |-> {FALSE}, mayDie |-> FALSE, damage |-> FALSE, cycles |-> 6, epochs |-> 2]

\* Two accesses, one of which the peripheral answers with an error, are enough
\* where the question is the integrity of the file.
Accident ==
  [accesses |-> {Access("ENABLE", TRUE, TRUE, 1), Access("STATUS", TRUE, TRUE, 1)},
   resultWrites |-> BOOLEAN, mayDie |-> TRUE, damage |-> TRUE, cycles |-> 4, epochs |-> 1]

MCSetups == {Experiment, Accident}

MCPowerOn == {[ResetValues EXCEPT !["STATUS"] = DEAD]}
=============================================================================
