---------------------------- MODULE TracePlugin ----------------------------
(***************************************************************************)
(* chipchain_trace.c inside a QEMU process: one callback before each       *)
(* instruction.  stdio buffers the stream: a process that is killed leaves *)
(* any prefix of what it wrote, one that exits leaves all of it.           *)
(***************************************************************************)
EXTENDS RawStream

VARIABLES
  policy,           \* the arguments of the plugin
  stream,           \* the raw stream
  targetSequence,   \* the event at the target, NoTarget until it is seen
  process           \* the QEMU process

pluginVars == <<policy, stream, targetSequence, process>>

Processes == {"start", "running", "finishing", "stopped", "quit", "failed", "killed"}

TypeOK ==
  /\ policy \in Policies
  /\ stream \in Streams
  /\ targetSequence \in Nat \cup {NoTarget}
  /\ process \in Processes

Init ==
  /\ policy \in Declared
  /\ stream = Empty
  /\ targetSequence = NoTarget
  /\ process = "start"

\* qemu_plugin_install: bad arguments end the process.
Install ==
  /\ process = "start"
  /\ \/ /\ ValidPolicy(policy)
        /\ process' = "running"
        /\ stream' = [stream EXCEPT !.header = TRUE]
     \/ /\ ~ValidPolicy(policy)
        /\ process' = "failed"
        /\ UNCHANGED stream
  /\ UNCHANGED <<policy, targetSequence>>

Count == Len(stream.events)

WindowComplete ==
  targetSequence # NoTarget /\ Count >= targetSequence + policy.successors + 1

AtMaximum == Count >= policy.maximum

\* finish: the callback that meets the end is not an event.
Finish(reason) ==
  /\ process' = "finishing"
  /\ stream' = [stream EXCEPT !.end =
                  [reason |-> reason, count |-> Count, target |-> targetSequence]]
  /\ UNCHANGED <<policy, targetSequence>>

\* Mutant of Record: seen_target is not consulted, the last target counts.
Record_LastTarget(pc, code) ==
  /\ stream' = [stream EXCEPT !.events =
                  Append(@, [sequence |-> Count, pc |-> pc, code |-> code])]
  /\ targetSequence' = IF pc = policy.target THEN Count ELSE targetSequence
  /\ UNCHANGED <<policy, process>>

Record(pc, code) ==
  /\ stream' = [stream EXCEPT !.events =
                  Append(@, [sequence |-> Count, pc |-> pc, code |-> code])]
  /\ targetSequence' =
       IF targetSequence = NoTarget /\ pc = policy.target THEN Count ELSE targetSequence
  /\ UNCHANGED <<policy, process>>

\* Mutant of Observe: the bound is looked at before the window.
Observe_BoundFirst(pc, code) ==
  /\ process = "running"
  /\ \/ AtMaximum /\ Finish("event_bound")
     \/ ~AtMaximum /\ WindowComplete /\ Finish("target_window_complete")
     \/ ~AtMaximum /\ ~WindowComplete /\ Record(pc, code)

\* observe: the callback before the instruction at pc.
Observe(pc, code) ==
  /\ process = "running"
  /\ \/ WindowComplete /\ Finish("target_window_complete")
     \/ ~WindowComplete /\ AtMaximum /\ Finish("event_bound")
     \/ ~WindowComplete /\ ~AtMaximum /\ Record(pc, code)

\* exit(0) of finish.
Exit ==
  /\ process = "finishing"
  /\ process' = "stopped"
  /\ UNCHANGED <<policy, stream, targetSequence>>

\* The machine stops by itself; nothing of the plugin runs any more.
GuestQuits ==
  /\ process = "running"
  /\ process' = "quit"
  /\ UNCHANGED <<policy, stream, targetSequence>>

\* A prefix of the stream, which may end within a record.
Cut(n, torn) ==
  [header |-> stream.header /\ (n > 0 \/ ~torn),
   events |-> SubSeq(stream.events, 1, n), end |-> NoEnd, torn |-> torn]

\* Some of the stream reaches the file, or all of it does.
Breaks ==
  \/ \E n \in 0 .. Count, torn \in BOOLEAN : stream' = Cut(n, torn)
  \/ UNCHANGED stream

\* fail: a write fails, and so does the process.
WriteFails ==
  /\ process \in {"running", "finishing"}
  /\ process' = "failed"
  /\ Breaks
  /\ UNCHANGED <<policy, targetSequence>>

\* The watchdog, or a crash of QEMU.
Killed ==
  /\ process \in {"running", "finishing"}
  /\ process' = "killed"
  /\ Breaks
  /\ UNCHANGED <<policy, targetSequence>>

Next ==
  \/ Install
  \/ \E pc \in Pc, code \in Codes : Observe(pc, code)
  \/ Exit \/ GuestQuits \/ WriteFails \/ Killed

Spec == Init /\ [][Next]_pluginVars

-----------------------------------------------------------------------------
\* The plugin and the parser agree: whatever the policy, wherever the firmware
\* meets the target, and however the process ends, a stream with a terminator is
\* one that parse_raw_stream accepts.  At the boundary the window that just
\* reaches the bound is a complete window for both.
StopsAsDeclared == stream.end # NoEnd => Parses(stream, policy)

\* What holds of the callbacks on the way to the end of the window.
Recorded ==
  /\ Contiguous(stream.events)
  /\ stream.end = NoEnd /\ process = "running" =>
       /\ IsTargetSequence(targetSequence, stream.events, policy)
       /\ Count <= policy.maximum
       /\ targetSequence # NoTarget => Count <= targetSequence + policy.successors + 1

\* The inductive invariant: while QEMU runs the stream is what observe counted,
\* and only finish, which saw the whole window, ever writes a terminator.
PluginInv ==
  /\ TypeOK
  /\ Recorded
  /\ process = "start" => stream = Empty /\ targetSequence = NoTarget
  /\ process = "running" =>
       /\ ValidPolicy(policy) /\ stream.header /\ ~stream.torn /\ stream.end = NoEnd
  /\ process = "quit" => stream.end = NoEnd
  /\ StopsAsDeclared
=============================================================================
