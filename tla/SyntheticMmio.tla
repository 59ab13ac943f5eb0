--------------------------- MODULE SyntheticMmio ---------------------------
(***************************************************************************)
(* synthetic_mmio.sv: the peripheral under test and the passive monitor in *)
(* the same module, which writes the apparatus trace.                      *)
(*                                                                         *)
(* A step is a clock edge.  At the rising edge the register file and the   *)
(* monitor both read the values before the edge; at the falling edge the   *)
(* monitor samples the settled registers.  The surrounding Simple System   *)
(* (processor, bus, simulator control) is the environment: it drives rst,  *)
(* the request, the stop strobe and the result write, and may end or kill  *)
(* the simulator at any moment.  As its simulator control does, it changes *)
(* the reset level together with a rising edge only.                       *)
(***************************************************************************)
EXTENDS MmioRegisterFile, Sequences, SequencesExt

CONSTANTS
  Setups,        \* what may surround the peripheral in a run: records of
                 \*   accesses, the requests the processor may issue,
                 \*   resultWrites, the levels that the result strobe may take,
                 \*   mayDie, whether the simulator may be killed,
                 \*   damage, whether the stored file may be damaged, and
                 \*   cycles, epochs, bounds on the run
  PowerOn,       \* what the registers may hold before the first reset
  MaxCycle,      \* bound: clock cycles of any run
  MaxEpoch,      \* bound: reset epochs of any run
  NoFooter       \* the absence of a footer in the file

\* The bus decoder routes only the addresses of the window to the peripheral.
ASSUME SetupsAssumption ==
  \A x \in Setups :
    /\ x.accesses \subseteq {q \in Requests : q.addr \in Window}
    /\ x.resultWrites \subseteq BOOLEAN /\ x.mayDie \in BOOLEAN /\ x.damage \in BOOLEAN
    /\ x.cycles \in 0 .. MaxCycle /\ x.epochs \in 0 .. MaxEpoch

ASSUME PowerOnAssumption == PowerOn \subseteq RegisterValues

ASSUME BoundsAssumption == MaxCycle \in Nat /\ MaxEpoch \in Nat

ASSUME FooterAssumption ==
  NoFooter \notin [complete : BOOLEAN, count : Nat, last : Nat, epochs : Nat, exited : BOOLEAN]

VARIABLES
  setup,         \* the surroundings of this run
  tree,          \* which RTL tree was built
  clk,           \* "low" before a rising edge, "high" before a falling edge
  rstn,          \* rst_ni
  regs,          \* enable_q, command_q, status_q
  resp,          \* rvalid_o, err_o, rdata_o
  cycle, epoch,  \* monitor counters
  inReset,       \* the monitor has seen reset asserted
  nextId,        \* the next transaction identifier
  pending,       \* pending_id and the saved request fields; id 0 is none
  stopCycle,     \* cycle of the first software stop, -1 before it
  log,           \* the event records written so far
  power,         \* "on", then "finished" by $finish or "killed"
  file           \* what is on disk once the simulator is gone

dut     == <<regs, resp>>
monitor == <<cycle, epoch, inReset, nextId, pending, stopCycle, log>>
vars    == <<setup, tree, clk, rstn, dut, monitor, power, file>>

NothingPending == [id |-> 0, req |-> NoRequest]

\* One line of the trace.  The sequence number is that of its place in the log.
Event(ph, tid, q, rd, err, ep, r) ==
  [phase |-> ph, tid |-> tid, req |-> q, rd |-> rd, err |-> err,
   cycle |-> cycle + (IF clk = "low" THEN 1 ELSE 0), epoch |-> ep, rstn |-> r,
   regs |-> regs, seq |-> 0]

Mark(ph, ep, r) == Event(ph, 0, NoRequest, 0, FALSE, ep, r)

\* event_record: append with consecutive sequence numbers, from 0.
Record(batch) ==
  log' = log \o [i \in DOMAIN batch |->
                   [batch[i] EXCEPT !.seq = Len(log) + i - 1]]

When(condition, event) == IF condition THEN <<event>> ELSE <<>>

Init ==
  /\ setup \in Setups
  /\ tree \in Trees
  /\ clk = "low" /\ rstn = TRUE
  /\ regs \in PowerOn
  /\ resp = [valid |-> FALSE, err |-> FALSE, rd |-> 0]
  /\ cycle = 0 /\ epoch = 0 /\ inReset = FALSE
  /\ nextId = 1 /\ pending = NothingPending /\ stopCycle = -1
  /\ log = <<>> /\ power = "on"
  /\ file = [events |-> <<>>, footer |-> NoFooter]

\* Mutant of RegistersAtEdge: a request right after another is not written.
RegistersAtEdge_Busy(r, q) ==
  IF ~r
  THEN /\ regs' = ResetValues
       /\ resp' = [valid |-> FALSE, err |-> FALSE, rd |-> 0]
  ELSE /\ regs' = IF q = NoRequest \/ resp.valid THEN regs ELSE AfterAccess(tree, regs, q)
       /\ resp' = IF q = NoRequest
                  THEN [valid |-> FALSE, err |-> FALSE, rd |-> 0]
                  ELSE [valid |-> TRUE, err |-> ~Legal(q), rd |-> Answer(regs, q)]

\* The always_ff block at a rising edge: reset wins over the request.
RegistersAtEdge(r, q) ==
  IF ~r
  THEN /\ regs' = ResetValues
       /\ resp' = [valid |-> FALSE, err |-> FALSE, rd |-> 0]
  ELSE /\ regs' = IF q = NoRequest THEN regs ELSE AfterAccess(tree, regs, q)
       /\ resp' = IF q = NoRequest
                  THEN [valid |-> FALSE, err |-> FALSE, rd |-> 0]
                  ELSE [valid |-> TRUE, err |-> ~Legal(q), rd |-> Answer(regs, q)]

\* The monitor at a rising edge with reset asserted.
MonitorReset ==
  /\ epoch' = IF inReset THEN epoch ELSE epoch + 1
  /\ Record(When(~inReset, Mark("reset_assert", epoch + 1, FALSE)))
  /\ inReset' = TRUE
  /\ pending' = NothingPending
  /\ UNCHANGED <<nextId, stopCycle>>

\* The monitor at a rising edge out of reset: the answer to the previous
\* request comes before the request of this edge.
MonitorEdge(q, ram, stop) ==
  LET first == stop /\ stopCycle < 0
      id    == IF q = NoRequest THEN 0 ELSE nextId
  IN
  /\ Record(When(inReset, Mark("reset_release", epoch, TRUE))
         \o When(resp.valid, Event("response", pending.id, pending.req, resp.rd, resp.err, epoch, TRUE))
         \o When(q # NoRequest, Event("request", id, q, 0, FALSE, epoch, TRUE))
         \o When(ram, Mark("ram_write", epoch, TRUE))
         \o When(first, Mark("software_stop", epoch, TRUE)))
  /\ inReset' = FALSE
  /\ pending' = IF q # NoRequest THEN [id |-> nextId, req |-> q]
                ELSE IF resp.valid THEN NothingPending ELSE pending
  /\ nextId' = IF q # NoRequest THEN nextId + 1 ELSE nextId
  /\ stopCycle' = IF first THEN cycle + 1 ELSE stopCycle
  /\ UNCHANGED epoch

\* posedge clk_i.  Before the first reset the monitor only counts cycles.
Posedge(r, q, ram, stop) ==
  /\ power = "on" /\ clk = "low" /\ cycle < setup.cycles
  /\ ~r /\ ~inReset => epoch < setup.epochs
  /\ clk' = "high" /\ rstn' = r /\ cycle' = cycle + 1
  /\ RegistersAtEdge(r, q)
  /\ IF ~r THEN MonitorReset
     ELSE IF epoch > 0 THEN MonitorEdge(q, ram, stop)
     ELSE UNCHANGED <<epoch, inReset, nextId, pending, stopCycle, log>>
  /\ UNCHANGED <<setup, tree, power, file>>

\* negedge clk_i: a sample of the three registers, once a reset has been seen.
Negedge ==
  /\ power = "on" /\ clk = "high"
  /\ clk' = "low"
  /\ Record(When(epoch > 0, Mark("status_sample", epoch, rstn)))
  /\ UNCHANGED <<setup, tree, rstn, dut, cycle, epoch, inReset, nextId, pending, stopCycle, power, file>>

\* The final block, whatever ended the simulation: its own verdict on the run.
Footer ==
  LET exited == stopCycle >= 0 /\ cycle >= stopCycle + 2
  IN  [complete |-> exited /\ pending.id = 0 /\ ~inReset,
       count |-> Len(log), last |-> cycle, epochs |-> epoch, exited |-> exited]

Finish ==
  /\ power = "on"
  /\ power' = "finished"
  /\ file' = [events |-> log, footer |-> Footer]
  /\ UNCHANGED <<setup, tree, clk, rstn, dut, monitor>>

\* The simulator dies: some buffered prefix reached the disk, and no footer.
Kill ==
  /\ setup.mayDie
  /\ power = "on"
  /\ power' = "killed"
  /\ \E n \in 0 .. Len(log) :
       file' = [events |-> SubSeq(log, 1, n), footer |-> NoFooter]
  /\ UNCHANGED <<setup, tree, clk, rstn, dut, monitor>>

\* The processor issues nothing while it is held in reset.
Edge ==
  \E r, stop \in BOOLEAN, ram \in setup.resultWrites, q \in setup.accesses \cup {NoRequest} :
    /\ ~r => q = NoRequest /\ ~ram /\ ~stop
    /\ Posedge(r, q, ram, stop)

Next == Edge \/ Negedge \/ Finish \/ Kill

Spec == Init /\ [][Next]_vars
=============================================================================
