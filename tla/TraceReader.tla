---------------------------- MODULE TraceReader ----------------------------
(***************************************************************************)
(* parse_apparatus_trace and materialize_runtime (mmio_grounding.py): the  *)
(* reader of the apparatus trace.  It trusts nothing: a trace may be any   *)
(* sequence of well-formed event records, so the reader is a machine that  *)
(* meets an arbitrary next record (Read), and that either goes on or       *)
(* rejects the whole trace; at the end of the file it judges the footer.   *)
(*                                                                         *)
(* The same step is applied by Parse to a whole file, which is how the     *)
(* other modules use the reader.                                           *)
(***************************************************************************)
EXTENDS MmioRegisterFile, Sequences, FiniteSets

CONSTANTS
  Events,        \* the records that a file may hold
  Footers,       \* the footers that a file may end with
  CycleLimit,    \* 100_000 in the source
  NoFooter       \* the absence of a footer in a file

Phases == {"request", "response", "status_sample", "reset_assert",
           "reset_release", "software_stop", "ram_write"}

EventType ==
  [phase : Phases, tid : Nat, req : Requests \cup {NoRequest}, rd : Data,
   err : BOOLEAN, cycle : Nat, epoch : Nat, rstn : BOOLEAN,
   regs : RegisterValues, seq : Nat]

FooterType ==
  [complete : BOOLEAN, count : Nat, last : Nat, epochs : Nat, exited : BOOLEAN]

ASSUME ReaderAssumption ==
  /\ Events \subseteq EventType
  /\ Footers \subseteq FooterType
  /\ CycleLimit \in Nat

VARIABLES
  s,             \* the local variables of the parser
  outcome        \* "reading", then "parsed" or "rejected"

vars == <<s, outcome>>

\* The parser's variables before the first event.
Start ==
  [ok |-> TRUE, read |-> 0, pending |-> {}, seen |-> {}, sampled |-> {},
   epoch |-> 0, reset |-> FALSE, last |-> 0, stop |-> -1,
   releases |-> <<>>, txs |-> <<>>]

-----------------------------------------------------------------------------
(* The checks made on every event, then those of its phase.                *)

\* Mutant of InOrder: the sequence numbers are not compared.
InOrder_NoSequence(p, e) == p.last <= e.cycle /\ e.cycle <= CycleLimit

InOrder(p, e) ==
  /\ e.seq = p.read
  /\ p.last <= e.cycle /\ e.cycle <= CycleLimit

ResetAgrees(p, e) ==
  CASE e.phase = "reset_assert" ->
         ~p.reset /\ p.pending = {} /\ ~e.rstn /\ e.epoch = p.epoch + 1
    [] e.phase = "reset_release" ->
         p.epoch > 0 /\ e.epoch = p.epoch /\ p.reset /\ e.rstn
    [] OTHER ->
         p.epoch > 0 /\ e.epoch = p.epoch /\ e.rstn = ~p.reset

\* Mutant of RequestAdmitted: an identifier may be used again.
RequestAdmitted_Reuse(p, e) ==
  ~p.reset /\ p.pending = {} /\ e.tid > 0 /\ e.req # NoRequest /\ e.req.addr \in Window

RequestAdmitted(p, e) ==
  /\ ~p.reset /\ p.pending = {}
  /\ e.tid > 0 /\ e.tid \notin p.seen
  /\ e.req # NoRequest /\ e.req.addr \in Window

\* Mutant of Answers: any later cycle will do.
Answers_Late(q, e) ==
  q.tid = e.tid /\ e.req = q.req /\ e.epoch = q.epoch /\ e.err = ~Legal(q.req)

Answers(q, e) ==
  /\ q.tid = e.tid
  /\ e.cycle = q.cycle + 1
  /\ e.req = q.req /\ e.epoch = q.epoch
  /\ e.err = ~Legal(q.req)

SampleAdmitted(p, e) ==
  /\ e.cycle \notin p.sampled /\ e.tid = 0
  /\ p.reset => e.regs = ResetValues

Admits(p, e) ==
  /\ InOrder(p, e)
  /\ ResetAgrees(p, e)
  /\ e.phase = "request"       => RequestAdmitted(p, e)
  /\ e.phase = "response"      => ~p.reset /\ \E q \in p.pending : Answers(q, e)
  /\ e.phase = "status_sample" => SampleAdmitted(p, e)
  /\ e.phase = "software_stop" => p.stop = -1 /\ ~p.reset
  /\ e.phase = "ram_write"     => ~p.reset

\* The open request that a response answers.
Answered(p, e) == CHOOSE q \in p.pending : Answers(q, e)

\* The bookkeeping of an admitted event.
After(p, e) ==
  LET is(ph) == e.phase = ph IN
  [ok       |-> TRUE,
   read     |-> p.read + 1,
   last     |-> e.cycle,
   epoch    |-> IF is("reset_assert") THEN p.epoch + 1 ELSE p.epoch,
   reset    |-> is("reset_assert") \/ (p.reset /\ ~is("reset_release")),
   releases |-> IF is("reset_release") THEN Append(p.releases, e.cycle) ELSE p.releases,
   seen     |-> IF is("request") THEN p.seen \cup {e.tid} ELSE p.seen,
   pending  |-> IF is("request") THEN {e}
                ELSE IF is("response") THEN p.pending \ {Answered(p, e)} ELSE p.pending,
   txs      |-> IF is("response")
                THEN Append(p.txs, [request |-> Answered(p, e), response |-> e])
                ELSE p.txs,
   sampled  |-> IF is("status_sample") THEN p.sampled \cup {e.cycle} ELSE p.sampled,
   stop     |-> IF is("software_stop") THEN e.cycle ELSE p.stop]

\* Mutant of Closes: more than one reset epoch is accepted.
Closes_AnyEpoch(p, f) ==
  /\ f.complete /\ f.exited /\ p.pending = {} /\ ~p.reset
  /\ f.count = p.read /\ f.epochs = p.epoch /\ p.releases # <<>>
  /\ f.last >= p.last /\ p.stop # -1 /\ f.last >= p.stop + 2

\* Mutant of Closes: the last cycle itself must have been sampled.
Closes_LastSample(p, f) ==
  /\ f.complete /\ f.exited /\ p.pending = {} /\ ~p.reset
  /\ f.count = p.read /\ f.epochs = p.epoch
  /\ p.epoch = 1 /\ Len(p.releases) = 1
  /\ f.last >= p.last /\ p.stop # -1 /\ f.last >= p.stop + 2
  /\ p.releases[1] .. f.last \subseteq p.sampled

\* What is required of the end of the file.
Closes(p, f) ==
  /\ f.complete /\ f.exited /\ f.last <= CycleLimit
  /\ p.pending = {} /\ ~p.reset
  /\ f.count = p.read /\ f.epochs = p.epoch
  /\ p.epoch = 1 /\ Len(p.releases) = 1
  /\ f.last >= p.last /\ p.stop # -1 /\ f.last >= p.stop + 2
  /\ p.releases[1] .. (f.last - 1) \subseteq p.sampled
  /\ \A i \in DOMAIN p.txs : p.txs[i].request.cycle \in p.sampled

-----------------------------------------------------------------------------
Init == s = Start /\ outcome = "reading"

Read(e) ==
  /\ outcome = "reading"
  /\ Admits(s, e)
  /\ s' = After(s, e)
  /\ UNCHANGED outcome

Reject(e) ==
  /\ outcome = "reading"
  /\ ~Admits(s, e)
  /\ outcome' = "rejected"
  /\ UNCHANGED s

End(f) ==
  /\ outcome = "reading"
  /\ outcome' = IF Closes(s, f) THEN "parsed" ELSE "rejected"
  /\ UNCHANGED s

Next ==
  \/ \E e \in Events : Read(e) \/ Reject(e)
  \/ \E f \in Footers : End(f)

Spec == Init /\ [][Next]_vars

-----------------------------------------------------------------------------
(* A whole file at once.  A file without a footer is refused before its    *)
(* first event is read.                                                    *)

Step(p, e) == IF p.ok /\ Admits(p, e) THEN After(p, e) ELSE [p EXCEPT !.ok = FALSE]

\* The parser after the first n events, for every n.
Prefixes(events) ==
  LET state[n \in 0 .. Len(events)] ==
        IF n = 0 THEN Start ELSE Step(state[n - 1], events[n])
  IN  state

Parse(events) == Prefixes(events)[Len(events)]

ParsesFile(file) ==
  /\ file.footer # NoFooter
  /\ Parse(file.events).ok
  /\ Closes(Parse(file.events), file.footer)

-----------------------------------------------------------------------------
(* materialize_runtime: one observation for each completed transaction,    *)
(* and none at all if one of them failed on the bus.                       *)

ErrorFree(txs) ==
  \A i \in DOMAIN txs :
    ~txs[i].request.err /\ ~txs[i].response.err /\ txs[i].request.req.full

Observation(tx) ==
  LET q == tx.request.req
  IN  [tid |-> tx.request.tid, requestCycle |-> tx.request.cycle,
       responseCycle |-> tx.response.cycle, epoch |-> tx.request.epoch,
       op |-> IF q.we THEN "write" ELSE "read", addr |-> q.addr,
       value |-> IF q.we THEN q.wd ELSE tx.response.rd]

Observations(txs) == [i \in DOMAIN txs |-> Observation(txs[i])]

\* RuntimeMmioObservation.completed and RuntimeMmioObservationSet.references.
ObservationAdmitted(o) ==
  /\ o.tid > 0 /\ o.epoch > 0
  /\ o.addr \in Window
  /\ o.responseCycle = o.requestCycle + 1

ObservationSetAdmitted(os) ==
  /\ \A i \in DOMAIN os : ObservationAdmitted(os[i])
  /\ \A i, j \in DOMAIN os : i < j => /\ os[i].requestCycle < os[j].requestCycle
                                      /\ os[i].tid # os[j].tid

-----------------------------------------------------------------------------
(* Properties.                                                             *)

Transaction == [request : EventType, response : EventType]

TypeOK ==
  /\ outcome \in {"reading", "parsed", "rejected"}
  /\ s \in [ok : {TRUE}, read : Nat, pending : SUBSET EventType,
            seen : SUBSET Nat, sampled : SUBSET Nat, epoch : Nat,
            reset : BOOLEAN, last : Nat, stop : Nat \cup {-1},
            releases : Seq(Nat), txs : Seq(Transaction)]

\* A transaction of the parser, or the request of one that is still open.
RequestSound(p, q) ==
  /\ q.tid > 0 /\ q.tid \in p.seen
  /\ q.epoch > 0
  /\ q.req \in Requests /\ q.req.addr \in Window

TransactionSound(p, tx) ==
  /\ RequestSound(p, tx.request)
  /\ tx.response.cycle = tx.request.cycle + 1
  /\ tx.response.cycle <= p.last
  /\ tx.response.err = ~Legal(tx.request.req)

\* What the parser's local variables keep true while it reads.
TransactionsSound ==
  \A i \in DOMAIN s.txs : TransactionSound(s, s.txs[i])

TransactionsOrdered ==
  \A i, j \in DOMAIN s.txs :
    i < j => /\ s.txs[i].request.cycle < s.txs[j].request.cycle
             /\ s.txs[i].request.tid # s.txs[j].request.tid

PendingSound ==
  \A q \in s.pending :
    /\ RequestSound(s, q)
    /\ s.pending = {q}
    /\ q.cycle <= s.last
    /\ \A i \in DOMAIN s.txs : /\ s.txs[i].request.cycle < q.cycle
                               /\ s.txs[i].request.tid # q.tid

ReaderInv ==
  /\ TypeOK
  /\ TransactionsSound
  /\ TransactionsOrdered
  /\ PendingSound

\* Whatever file is read, the validators of the observation set, which run
\* after the parser and raise on their own (NOT_COMPLETED_SUCCESS,
\* RUNTIME_BINDING_ORDER, RUNTIME_OUTSIDE_TARGET_SCOPE), have nothing left to
\* refuse in a trace that parses and that has no failed transaction: its
\* requests are in strict order of cycles and of distinct identifiers, although
\* the parser never compares two transactions.
ParsedObservationsAdmitted ==
  outcome = "parsed" /\ ErrorFree(s.txs)
    => ObservationSetAdmitted(Observations(s.txs))
=============================================================================
