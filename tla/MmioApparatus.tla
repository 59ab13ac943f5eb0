--------------------------- MODULE MmioApparatus ---------------------------
(***************************************************************************)
(* One run of the apparatus and its reading: the simulation writes the     *)
(* trace (SyntheticMmio), the file is stored, and materialize_runtime      *)
(* reads it back (TraceReader).  Storing may damage the file: one record   *)
(* lost, repeated or exchanged with its neighbour.                         *)
(***************************************************************************)
EXTENDS SyntheticMmio, FiniteSets

Reader == INSTANCE TraceReader
            WITH Events <- {}, Footers <- {}, CycleLimit <- MaxCycle,
                 s <- {}, outcome <- "reading"

VARIABLE stored    \* the file as the reader finds it, once it is stored

allVars == <<vars, stored>>

Lost(es, i)      == RemoveAt(es, i)
Repeated(es, i)  == SubSeq(es, 1, i) \o SubSeq(es, i, Len(es))
Exchanged(es, i) == [es EXCEPT ![i] = es[i + 1], ![i + 1] = es[i]]

Damaged(es) ==
  {Lost(es, i) : i \in DOMAIN es} \cup {Repeated(es, i) : i \in DOMAIN es}
    \cup {Exchanged(es, i) : i \in 1 .. Len(es) - 1}

NotStored == [events |-> <<>>, footer |-> NoFooter]

Store ==
  /\ power # "on" /\ stored = NotStored
  /\ stored' \in {file} \cup
       (IF setup.damage THEN {[file EXCEPT !.events = es] : es \in Damaged(file.events)} ELSE {})
  /\ UNCHANGED vars

SystemInit == Init /\ stored = NotStored

SystemNext == (Next /\ UNCHANGED stored) \/ Store

SystemSpec == SystemInit /\ [][SystemNext]_allVars

-----------------------------------------------------------------------------
Parsed == Reader!ParsesFile(stored)
Txs    == Reader!Parse(stored.events).txs

Samples == {stored.events[i] : i \in
              {j \in DOMAIN stored.events : stored.events[j].phase = "status_sample"}}

\* The registers after the first n transactions of t, from reset, for every n.
Replay(t) ==
  LET after[n \in 0 .. Len(t)] ==
        IF n = 0 THEN ResetValues
        ELSE AfterAccess(tree, after[n - 1], t[n].request.req)
  IN  after

\* A trace that parses describes one execution of the register file: every
\* response carries what a replay of the accepted requests, from reset and in
\* order, answers, and every sample shows the registers of that replay at its
\* cycle.  (materialize_runtime uses the trace without ever seeing the RTL.)
ParsedTraceReplays ==
  Parsed =>
    LET t     == Txs
        after == Replay(t)
    IN
    /\ \A i \in DOMAIN t :
         t[i].response.rd = Answer(after[i - 1], t[i].request.req)
    /\ \A x \in Samples :
         x.regs = after[Cardinality({i \in DOMAIN t : t[i].request.cycle <= x.cycle})]

\* A trace that parses comes from a run that really ended by itself after its
\* software stop, in its only reset epoch and with no access in flight, and
\* lists every access that the peripheral accepted: the reader cannot be
\* satisfied by a killed simulator, a timeout or a reset in the middle.
ParsedTraceIsWholeRun ==
  Parsed =>
    /\ power = "finished"
    /\ stopCycle >= 0 /\ epoch = 1 /\ ~inReset
    /\ Len(Txs) = nextId - 1
    /\ pending = NothingPending

\* The monitor and the reader agree on what a complete run is: one reset, an
\* orderly stop and two more cycles are all it takes, whatever the processor
\* did on the bus in between.
CompleteRunParses ==
  /\ power = "finished" /\ stored = file
  /\ epoch = 1 /\ Footer.complete
  => Parsed

\* The verdict on the trigger reads the sample of the cycle before a COMMAND
\* write for the enabling state and the sample of its own cycle for the effect
\* (type2_verifier.py _state_before, _sample_read).  In a trace that parses
\* these two samples always exist; and from one sample to the next STATUS
\* becomes anomalous exactly if the Variant accepts a write of A5 to COMMAND in
\* between while it is enabled, and it stays so.
Triggers(shown, q) ==
  /\ tree = "variant" /\ shown["ENABLE"] = 1
  /\ q.addr = "COMMAND" /\ q.we /\ q.full /\ q.wd = A5

AnomalyLocated ==
  Parsed =>
    LET t == Txs IN
    /\ \A i \in DOMAIN t : \A c \in {t[i].request.cycle - 1, t[i].request.cycle} :
         \E x \in Samples : x.cycle = c
    /\ \A before, after \in Samples :
         after.cycle = before.cycle + 1 =>
           (after.regs["STATUS"] = DEAD
              <=> \/ before.regs["STATUS"] = DEAD
                  \/ \E i \in DOMAIN t : /\ t[i].request.cycle = after.cycle
                                         /\ Triggers(before.regs, t[i].request.req))

\* No damage to the records goes unnoticed: the sequence numbers and the count
\* in the footer together identify the events that the monitor wrote.
DamageDetected ==
  power # "on" /\ stored # NotStored /\ stored.events # file.events => ~Parsed
=============================================================================
