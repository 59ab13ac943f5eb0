----------------------- MODULE QemuAcquisitionProofs -----------------------
(***************************************************************************)
(* Any number of callers of acquire_and_write, and any damage: the         *)
(* directory has one owner, what a finished acquisition saved is what a    *)
(* replay gives, and the directory is the atomic store of EvidenceStore.   *)
(*                                                                         *)
(* First the plugin alone: it stops where the parser expects it, for every *)
(* policy, every firmware and every way in which the process can end.      *)
(*                                                                         *)
(* Whoever froze the firmware owns the directory for ever, also when it    *)
(* fails or crashes (Owner, Held).  The rest of the invariant follows the  *)
(* owner: what it checked, accepted and saved, and what damage can have    *)
(* done to that.  A stream that was accepted and is damaged later counts   *)
(* less events than its terminator says (Intact), so that a load can       *)
(* return only the evidence of the owner.                                  *)
(***************************************************************************)
EXTENDS QemuAcquisition, TLAPS

(* The plugin.                                                             *)

LEMMA FreshSound == Init => PluginInv
BY DeclaredAssumption
   DEF Init, PluginInv, TypeOK, Recorded, Contiguous, StopsAsDeclared, Empty,
       Streams, Processes

\* The end of the window, seen by the callback after it, is the parser's end.
LEMMA FinishSound ==
  ASSUME PluginInv, process = "running", NEW reason \in Reasons, Finish(reason),
         \/ WindowComplete /\ reason = "target_window_complete"
         \/ ~WindowComplete /\ AtMaximum /\ reason = "event_bound"
  PROVE  PluginInv'
<1> DEFINE e == stream'.end
<1>1. /\ stream \in Streams /\ Count \in Nat
      /\ targetSequence \in Nat \cup {NoTarget}
      /\ policy \in Policies /\ ValidPolicy(policy)
  BY DEF PluginInv, TypeOK, Streams, Count
<1>2. /\ stream'.events = stream.events /\ stream'.header = stream.header
      /\ stream'.torn = stream.torn
      /\ e = [reason |-> reason, count |-> Count, target |-> targetSequence]
      /\ policy' = policy /\ targetSequence' = targetSequence
      /\ process' = "finishing"
  BY <1>1 DEF Finish, Streams
<1>3. /\ Contiguous(stream.events)
      /\ IsTargetSequence(targetSequence, stream.events, policy)
      /\ Count <= policy.maximum
      /\ targetSequence # NoTarget => Count <= targetSequence + policy.successors + 1
      /\ stream.header /\ ~stream.torn
  BY DEF PluginInv, Recorded
<1>4. Count = ExpectedCount(targetSequence, policy)
      /\ reason = ExpectedReason(targetSequence, policy)
  BY <1>1, <1>3, NoTargetAssumption
     DEF ExpectedCount, ExpectedReason, WindowFits, WindowComplete, AtMaximum,
         Policies, ValidPolicy
<1>5. Count \in 1 .. policy.maximum
  BY <1>1, <1>3, <1>4, NoTargetAssumption, LimitAssumption
     DEF ExpectedCount, WindowFits, ValidPolicy, Policies
<1>6. e \in Ends
  BY <1>1, <1>2 DEF Ends
<1>7. stream' \in Streams
  BY <1>1, <1>6 DEF Finish, Streams
<1>8. Parses(stream', policy')
  <2>1. /\ e # NoEnd /\ e.reason = reason /\ e.count = Count
        /\ e.target = targetSequence
    BY <1>2, <1>6, NoEndAssumption
  <2>2. Len(stream'.events) = Count
    BY <1>2 DEF Count
  <2> HIDE DEF e
  <2> QED
    BY <1>2, <1>3, <1>4, <1>5, <2>1, <2>2 DEF Parses, Window, e
<1>9. TypeOK'
  BY <1>1, <1>2, <1>7 DEF TypeOK, Processes
<1>10. Recorded'
  BY <1>2, <1>3 DEF Recorded
<1> QED
  BY <1>2, <1>8, <1>9, <1>10 DEF PluginInv, StopsAsDeclared

\* An event that is written is inside the bound and inside the window.
LEMMA RecordSound ==
  ASSUME PluginInv, process = "running", ~WindowComplete, ~AtMaximum,
         NEW pc \in Pc, NEW code \in Codes, Record(pc, code)
  PROVE  PluginInv'
<1> DEFINE event == [sequence |-> Count, pc |-> pc, code |-> code]
<1>1. /\ stream \in Streams /\ Count \in Nat /\ stream.events \in Seq(Events)
      /\ targetSequence \in Nat \cup {NoTarget}
      /\ policy \in Policies /\ ValidPolicy(policy)
  BY DEF PluginInv, TypeOK, Streams, Count
<1>2. /\ stream'.events = Append(stream.events, event)
      /\ stream'.header = stream.header /\ stream'.torn = stream.torn
      /\ stream'.end = stream.end
      /\ policy' = policy /\ process' = process
  BY <1>1 DEF Record, Streams
<1>3. /\ stream'.events \in Seq(Events)
      /\ Len(stream'.events) = Count + 1
      /\ stream'.events[Count + 1] = event
      /\ \A n \in 1 .. Count : stream'.events[n] = stream.events[n]
      /\ DOMAIN stream'.events = 1 .. Count + 1
      /\ DOMAIN stream.events = 1 .. Count
  <2>1. event \in Events
    BY <1>1 DEF Events
  <2> QED
    BY <1>1, <1>2, <2>1 DEF Count
<1>4. /\ Contiguous(stream.events)
      /\ IsTargetSequence(targetSequence, stream.events, policy)
      /\ stream.end = NoEnd /\ stream.header /\ ~stream.torn
      /\ Count <= policy.maximum
      /\ targetSequence # NoTarget => Count <= targetSequence + policy.successors + 1
  BY DEF PluginInv, Recorded
<1>5. Contiguous(stream'.events)
  BY <1>1, <1>3, <1>4 DEF Contiguous
<1>6. IsTargetSequence(targetSequence', stream'.events, policy)
  <2>1. CASE targetSequence # NoTarget
    <3>1. targetSequence' = targetSequence /\ targetSequence \in Nat
      BY <1>1, <2>1 DEF Record
    <3>2. /\ targetSequence + 1 \in 1 .. Count
          /\ stream.events[targetSequence + 1].pc = policy.target
          /\ \A n \in 1 .. targetSequence : stream.events[n].pc # policy.target
      BY <1>3, <1>4, <2>1 DEF IsTargetSequence
    <3>3. /\ targetSequence + 1 \in 1 .. Count + 1
          /\ \A n \in 1 .. targetSequence : n \in 1 .. Count
          /\ stream'.events[targetSequence + 1].pc = policy.target
      BY <1>1, <1>3, <3>1, <3>2
    <3>4. \A n \in 1 .. targetSequence : stream'.events[n].pc # policy.target
      BY <1>3, <3>2, <3>3
    <3> QED
      BY <1>3, <2>1, <3>1, <3>3, <3>4 DEF IsTargetSequence
  <2>2. CASE targetSequence = NoTarget /\ pc = policy.target
    <3>1. targetSequence' = Count /\ Count # NoTarget
      BY <1>1, <2>2, NoTargetAssumption DEF Record
    <3>2. \A n \in 1 .. Count : stream.events[n].pc # policy.target
      BY <1>3, <1>4, <2>2 DEF IsTargetSequence
    <3>3. \A n \in 1 .. Count : stream'.events[n].pc # policy.target
      BY <1>3, <3>2
    <3>4. Count + 1 \in 1 .. Count + 1 /\ stream'.events[Count + 1].pc = policy.target
      BY <1>1, <1>3, <2>2
    <3> QED
      BY <1>3, <3>1, <3>3, <3>4 DEF IsTargetSequence
  <2>3. CASE targetSequence = NoTarget /\ pc # policy.target
    <3>1. targetSequence' = NoTarget
      BY <2>3 DEF Record
    <3>2. \A n \in 1 .. Count : stream.events[n].pc # policy.target
      BY <1>3, <1>4, <2>3 DEF IsTargetSequence
    <3>3. \A n \in 1 .. Count : stream'.events[n].pc # policy.target
      BY <1>3, <3>2
    <3>4. stream'.events[Count + 1].pc # policy.target
      BY <1>3, <2>3
    <3>5. \A n \in 1 .. Count + 1 : n \in 1 .. Count \/ n = Count + 1
      BY <1>1
    <3> QED
      BY <1>3, <3>1, <3>3, <3>4, <3>5 DEF IsTargetSequence
  <2> QED
    BY <2>1, <2>2, <2>3
<1>7. /\ targetSequence' \in Nat \cup {NoTarget}
      /\ Count + 1 <= policy.maximum
      /\ targetSequence' # NoTarget =>
           Count + 1 <= targetSequence' + policy.successors + 1
  BY <1>1, <1>4, NoTargetAssumption
     DEF Record, WindowComplete, AtMaximum, Policies, ValidPolicy
<1>8. Recorded'
  BY <1>2, <1>3, <1>5, <1>6, <1>7 DEF Recorded, Count
<1>9. stream' \in Streams
  BY <1>1, <1>2, <1>3 DEF Record, Streams
<1> QED
  BY <1>1, <1>2, <1>4, <1>7, <1>8, <1>9
     DEF PluginInv, TypeOK, StopsAsDeclared, Processes

\* What a broken process leaves is a prefix without a terminator, or all of it.
LEMMA BreakSound ==
  ASSUME PluginInv, process \in {"running", "finishing"}, Breaks,
         process' \in {"failed", "killed"},
         UNCHANGED <<policy, targetSequence>>
  PROVE  PluginInv'
<1>1. stream \in Streams /\ Contiguous(stream.events) /\ TypeOK
  BY DEF PluginInv, Recorded, TypeOK
<1>2. CASE UNCHANGED stream
  BY <1>1, <1>2
     DEF PluginInv, TypeOK, Recorded, StopsAsDeclared, Processes
<1>3. ASSUME NEW n \in 0 .. Count, NEW torn \in BOOLEAN, stream' = Cut(n, torn)
      PROVE  PluginInv'
  <2>1. n \in Nat /\ n <= Len(stream.events) /\ stream.events \in Seq(Events)
    BY <1>1, <1>3 DEF Count, Streams
  <2>2. /\ SubSeq(stream.events, 1, n) \in Seq(Events)
        /\ DOMAIN SubSeq(stream.events, 1, n) = 1 .. n
        /\ DOMAIN stream.events = 1 .. Len(stream.events)
        /\ \A k \in 1 .. n : SubSeq(stream.events, 1, n)[k] = stream.events[k]
    BY <2>1
  <2>3. /\ stream' \in Streams /\ stream'.end = NoEnd
        /\ stream'.events = SubSeq(stream.events, 1, n)
    BY <1>1, <1>3, <2>2 DEF Cut, Streams
  <2>4. Contiguous(stream'.events)
    BY <1>1, <2>1, <2>2, <2>3 DEF Contiguous
  <2> QED
    BY <1>1, <2>3, <2>4
       DEF PluginInv, TypeOK, Recorded, StopsAsDeclared, Processes
<1> QED
  BY <1>2, <1>3 DEF Breaks

LEMMA StepSound == PluginInv /\ [Next]_pluginVars => PluginInv'
<1> SUFFICES ASSUME PluginInv, [Next]_pluginVars PROVE PluginInv'
  OBVIOUS
<1>1. CASE Install
  <2>1. /\ stream = Empty /\ targetSequence = NoTarget /\ policy \in Policies
        /\ process = "start" /\ TypeOK
    BY <1>1 DEF Install, PluginInv, TypeOK
  <2>2. /\ process' = "running" => ValidPolicy(policy)
        /\ process' \in {"running", "failed"}
        /\ policy' = policy /\ targetSequence' = NoTarget
        /\ \/ process' = "running" /\ stream' = [Empty EXCEPT !.header = TRUE]
           \/ process' = "failed" /\ stream' = Empty
    BY <1>1, <2>1 DEF Install
  <2>3. <<>> \in Seq(Events)
    OBVIOUS
  <2>4. /\ stream' \in Streams /\ stream'.events = <<>> /\ stream'.end = NoEnd
        /\ ~stream'.torn /\ (process' = "running" => stream'.header)
    <3>1. Empty \in Streams
      BY <2>3 DEF Empty, Streams
    <3>2. Empty.events = <<>> /\ Empty.end = NoEnd /\ Empty.torn = FALSE
      BY DEF Empty
    <3>3. CASE process' = "running"
      <4>1. stream' = [Empty EXCEPT !.header = TRUE]
        BY <2>2, <3>3
      <4>2. /\ stream' \in Streams /\ stream'.header = TRUE
            /\ stream'.events = Empty.events /\ stream'.end = Empty.end
            /\ stream'.torn = Empty.torn
        BY <3>1, <4>1 DEF Streams
      <4> QED
        BY <3>2, <4>2
    <3>4. CASE process' = "failed"
      BY <2>2, <3>1, <3>2, <3>4
    <3> QED
      BY <2>2, <3>3, <3>4
  <2>5. Recorded'
    BY <2>1, <2>2, <2>4, NoTargetAssumption
       DEF Recorded, Contiguous, IsTargetSequence, Count, ValidPolicy, Policies
  <2> QED
    BY <2>1, <2>2, <2>4, <2>5 DEF PluginInv, TypeOK, StopsAsDeclared, Processes
<1>2. ASSUME NEW pc \in Pc, NEW code \in Codes, Observe(pc, code)
      PROVE  PluginInv'
  <2>1. CASE WindowComplete /\ Finish("target_window_complete")
    BY <1>2, <2>1, FinishSound DEF Observe, Reasons
  <2>2. CASE ~WindowComplete /\ AtMaximum /\ Finish("event_bound")
    BY <1>2, <2>2, FinishSound DEF Observe, Reasons
  <2>3. CASE ~WindowComplete /\ ~AtMaximum /\ Record(pc, code)
    BY <1>2, <2>3, RecordSound DEF Observe
  <2> QED
    BY <1>2, <2>1, <2>2, <2>3 DEF Observe
<1>3. CASE Exit
  BY <1>3 DEF Exit, PluginInv, TypeOK, Recorded, StopsAsDeclared, Processes
<1>4. CASE GuestQuits
  BY <1>4 DEF GuestQuits, PluginInv, TypeOK, Recorded, StopsAsDeclared, Processes
<1>5. CASE WriteFails
  BY <1>5, BreakSound DEF WriteFails
<1>6. CASE Killed
  BY <1>6, BreakSound DEF Killed
<1>7. CASE UNCHANGED pluginVars
  BY <1>7
     DEF pluginVars, PluginInv, TypeOK, Recorded, StopsAsDeclared, Count
<1> QED
  BY <1>1, <1>2, <1>3, <1>4, <1>5, <1>6, <1>7 DEF Next

\* The invariant of the plugin (observe and finish of chipchain_trace.c) holds
\* for all policies, program counters and instruction bytes.
THEOREM PluginInvariant == Spec => []PluginInv
BY FreshSound, StepSound, PTL DEF Spec

\* A stream with a terminator is always one that parse_raw_stream accepts: the
\* C code and the Python code agree on where every declared window ends.
THEOREM PluginStopsAsDeclared == Spec => []StopsAsDeclared
<1>1. PluginInv => StopsAsDeclared
  BY DEF PluginInv
<1> QED
  BY <1>1, PluginInvariant, PTL

-----------------------------------------------------------------------------
(* The callers of acquire_and_write.                                       *)

Early == {"idle", "claim", "freeze", "build", "launch", "run", "check", "materialize"}
Steps == Early \cup {"write"} \cup Ended

Calls ==
  [step : Steps, firmware : {0, 1, 2}, plugin : {"pinned", "changed"}, raw : Streams,
   evidence : Evidence \cup {Nothing}, written : 0 .. 6]

Typed ==
  /\ TypeOK /\ policy \in Declared
  /\ source \in {1, 2} /\ tools \in {"pinned", "changed"} /\ damage \in Nat
  /\ caller \in [Callers -> Calls]
  /\ dir = [f \in Files |-> dir[f]]
  /\ \A i \in 1 .. 6 : dir[Jsons[i]] \in Evidence \cup {Nothing, Torn}
  /\ loader \in Seq(Evidence) /\ Len(loader) <= Artifacts

\* The callers that own the directory, and those that saved something and ended.
Owner(a) == caller[a].step \in Owning \/ caller[a].written > 0

OneWriter == \A a, b \in Callers : Owner(a) /\ Owner(b) => a = b
Held      == \A a \in Callers : Owner(a) => dir["firmware"] # Nothing

Counted(a) ==
  /\ caller[a].step = "freeze" => caller[a].firmware # 0
  /\ caller[a].step \in Early => caller[a].written = 0
  /\ caller[a].step = "write" => caller[a].written < 6
  /\ caller[a].step = "done" => caller[a].written = 6

Ran(a) ==
  /\ caller[a].step = "run" => process # "start"
  /\ caller[a].step \in {"check", "materialize", "write", "done"} \/ caller[a].written > 0 =>
       process \in {"stopped", "quit"}

Frozen(a) ==
  damage = 0 =>
    /\ caller[a].step \in Owning => dir["firmware"] = caller[a].firmware
    /\ caller[a].step \in Owning \ {"build"} => dir["plugin"] = caller[a].plugin

\* What damage leaves of a stream that was accepted.
Intact(raw) ==
  /\ damage = 0 => stream = raw
  /\ \/ stream = raw
     \/ stream.torn
     \/ stream.end # NoEnd /\ Len(stream.events) < stream.end.count

Checked(a) ==
  caller[a].step \in {"materialize", "write", "done"} \/ caller[a].written > 0 =>
    Parses(caller[a].raw, policy) /\ Intact(caller[a].raw)

Accepted(a) ==
  caller[a].step \in {"write", "done"} \/ caller[a].written > 0 =>
    /\ caller[a].evidence = Materialize(RunOf(a), caller[a].raw, caller[a].firmware)
    /\ caller[a].evidence # Nothing /\ caller[a].plugin = "pinned"

Saved(a) ==
  damage = 0 /\ caller[a].step \in {"write", "done"} =>
    \A i \in 1 .. caller[a].written : dir[Jsons[i]] = caller[a].evidence

CallOK(a) == Counted(a) /\ Ran(a) /\ Frozen(a) /\ Checked(a) /\ Accepted(a) /\ Saved(a)

\* An artifact of number i says that it is of the run of the caller that wrote it.
From(e, i) == \E a \in Callers : caller[a].written >= i /\ e.run = caller[a].evidence.run

FilesInv  == \A i \in 1 .. 6 : dir[Jsons[i]] \in Evidence => From(dir[Jsons[i]], i)
LoaderInv == \A i \in DOMAIN loader : From(loader[i], i)

Inv ==
  /\ Typed /\ OneWriter /\ Held
  /\ \A a \in Callers : CallOK(a)
  /\ FilesInv /\ LoaderInv

-----------------------------------------------------------------------------
(* The files and the plugin.                                               *)

LEMMA JsonNames ==
  /\ Len(Jsons) = 6 /\ DOMAIN Jsons = 1 .. 6
  /\ \A i \in 1 .. 6 : Jsons[i] \in Files /\ Jsons[i] # "firmware" /\ Jsons[i] # "plugin"
  /\ \A i, j \in 1 .. 6 : Jsons[i] = Jsons[j] => i = j
  /\ {"firmware", "plugin"} \subseteq Files
  /\ Files \subseteq {"firmware", "plugin"} \cup {Jsons[i] : i \in 1 .. 6}
<1>1. Len(Jsons) = 6 /\ DOMAIN Jsons = 1 .. 6
  BY DEF Jsons
<1>2. \A i \in 1 .. 6 : i \in {1, 2, 3, 4, 5, 6}
  OBVIOUS
<1>3. /\ Jsons[1] = "run" /\ Jsons[2] = "events" /\ Jsons[3] = "semantics"
      /\ Jsons[4] = "bindings" /\ Jsons[5] = "capabilities" /\ Jsons[6] = "report"
  BY DEF Jsons
<1> HIDE DEF Jsons
<1>4. \A i \in 1 .. 6 : Jsons[i] # "firmware" /\ Jsons[i] # "plugin"
  BY <1>2, <1>3
<1>5. \A i, j \in 1 .. 6 : Jsons[i] = Jsons[j] => i = j
  BY <1>2, <1>3
<1> QED
  BY <1>1, <1>4, <1>5 DEF Files

LEMMA CutTyped ==
  ASSUME TypeOK, Breaks
  PROVE  stream' \in Streams
<1>1. stream \in Streams /\ stream.events \in Seq(Events)
  BY DEF TypeOK, Streams
<1>2. CASE UNCHANGED stream
  BY <1>1, <1>2
<1>3. ASSUME NEW n \in 0 .. Count, NEW torn \in BOOLEAN, stream' = Cut(n, torn)
      PROVE  stream' \in Streams
  <2>1. SubSeq(stream.events, 1, n) \in Seq(Events)
    BY <1>1, <1>3 DEF Count
  <2> QED
    BY <1>1, <1>3, <2>1 DEF Cut, Streams
<1> QED
  BY <1>2, <1>3 DEF Breaks

LEMMA EndsTyped ==
  ASSUME TypeOK, NEW reason \in Reasons, Finish(reason)
  PROVE  stream' \in Streams
<1> DEFINE e == [reason |-> reason, count |-> Count, target |-> targetSequence]
<1>1. stream \in Streams /\ Count \in Nat
  BY DEF TypeOK, Streams, Count
<1>2. e \in Ends
  BY <1>1 DEF Ends, TypeOK
<1>3. stream' = [stream EXCEPT !.end = e]
  BY DEF Finish
<1> HIDE DEF e
<1> QED
  BY <1>1, <1>2, <1>3 DEF Streams

LEMMA RecordTyped ==
  ASSUME TypeOK, NEW pc \in Pc, NEW code \in Codes, Record(pc, code)
  PROVE  stream' \in Streams
<1> DEFINE event == [sequence |-> Count, pc |-> pc, code |-> code]
<1>1. stream \in Streams /\ Count \in Nat /\ stream.events \in Seq(Events)
  BY DEF TypeOK, Streams, Count
<1>2. event \in Events
  BY <1>1 DEF Events
<1>3. stream' = [stream EXCEPT !.events = Append(stream.events, event)]
  BY DEF Record
<1>4. Append(stream.events, event) \in Seq(Events)
  BY <1>1, <1>2
<1> HIDE DEF event
<1> QED
  BY <1>1, <1>3, <1>4 DEF Streams

\* Every callback keeps the types of the plugin's state, and the policy.
LEMMA PluginTyped ==
  ASSUME TypeOK, [Next]_pluginVars
  PROVE  TypeOK' /\ policy' = policy
<1>1. CASE Install
  <2>1. stream' \in Streams
    BY <1>1 DEF Install, TypeOK, Streams
  <2> QED
    BY <1>1, <2>1 DEF Install, TypeOK, Processes
<1>2. ASSUME NEW pc \in Pc, NEW code \in Codes, Observe(pc, code)
      PROVE  TypeOK' /\ policy' = policy
  <2>1. CASE WindowComplete /\ Finish("target_window_complete")
    BY <2>1, EndsTyped DEF TypeOK, Finish, Reasons, Processes
  <2>2. CASE ~WindowComplete /\ AtMaximum /\ Finish("event_bound")
    BY <2>2, EndsTyped DEF TypeOK, Finish, Reasons, Processes
  <2>3. CASE ~WindowComplete /\ ~AtMaximum /\ Record(pc, code)
    <3>1. Count \in Nat
      BY DEF TypeOK, Streams, Count
    <3> QED
      BY <2>3, <3>1, RecordTyped DEF TypeOK, Record
  <2> QED
    BY <1>2, <2>1, <2>2, <2>3 DEF Observe
<1>3. CASE Exit \/ GuestQuits
  BY <1>3 DEF Exit, GuestQuits, TypeOK, Processes
<1>4. CASE WriteFails \/ Killed
  BY <1>4, CutTyped DEF WriteFails, Killed, TypeOK, Processes
<1>5. CASE UNCHANGED pluginVars
  BY <1>5 DEF pluginVars, TypeOK
<1> QED
  BY <1>1, <1>2, <1>3, <1>4, <1>5 DEF Next

-----------------------------------------------------------------------------
(* One caller takes a step.                                                *)

\* Goto changes the step of one caller only.
LEMMA GotoStep ==
  ASSUME Typed, NEW a \in Callers, NEW s \in Steps, Goto(a, s)
  PROVE  /\ caller' \in [Callers -> Calls]
         /\ caller'[a].step = s
         /\ caller'[a].firmware = caller[a].firmware /\ caller'[a].plugin = caller[a].plugin
         /\ caller'[a].raw = caller[a].raw /\ caller'[a].evidence = caller[a].evidence
         /\ caller'[a].written = caller[a].written
         /\ \A b \in Callers \ {a} : caller'[b] = caller[b]
<1>1. caller \in [Callers -> Calls] /\ caller' = [caller EXCEPT ![a] = [caller[a] EXCEPT !.step = s]]
  BY DEF Goto, Typed
<1>2. caller[a] \in Calls
  BY <1>1
<1>3. [caller[a] EXCEPT !.step = s] \in Calls
  BY <1>2 DEF Calls
<1>4. caller'[a] = [caller[a] EXCEPT !.step = s] /\ \A b \in Callers \ {a} : caller'[b] = caller[b]
  BY <1>1
<1> QED
  BY <1>1, <1>2, <1>3, <1>4 DEF Calls

\* What an artifact says stays what its writer says: evidence is kept once something is
\* written of it.
LEMMA FromStays ==
  ASSUME caller \in [Callers -> Calls], caller' \in [Callers -> Calls],
         \A b \in Callers :
           caller'[b].written >= caller[b].written
           /\ (caller[b].written > 0 => caller'[b].evidence = caller[b].evidence),
         NEW e, NEW i \in 1 .. 6, From(e, i)
  PROVE  From(e, i)'
<1> PICK b \in Callers : caller[b].written >= i /\ e.run = caller[b].evidence.run
  BY DEF From
<1>1. caller[b].written \in 0 .. 6 /\ caller'[b].written \in 0 .. 6
  BY DEF Calls
<1>2. caller[b].written > 0 /\ caller'[b].written >= i
  BY <1>1
<1> QED
  BY <1>2 DEF From

LEMMA NotOwner ==
  ASSUME Typed, NEW b \in Callers, ~Owner(b)
  PROVE  caller[b].step \notin Owning /\ caller[b].written = 0
<1>1. caller[b].written \in 0 .. 6
  BY DEF Typed, Calls
<1> QED
  BY <1>1 DEF Owner

\* Whatever the owner does, it does not touch the others.
LEMMA FreeStays ==
  ASSUME Typed, NEW b \in Callers, CallOK(b), ~Owner(b), caller'[b] = caller[b]
  PROVE  CallOK(b)' /\ ~Owner(b)'
<1>1. caller[b].step \notin Owning /\ caller[b].written = 0
  BY NotOwner
<1>2. {"run", "check", "materialize", "write", "done"} \subseteq Owning
  BY DEF Owning
<1>3. Counted(b)'
  BY DEF CallOK, Counted
<1>4. ~(0 > 0)
  OBVIOUS
<1>5. Ran(b)' /\ Checked(b)' /\ Accepted(b)' /\ Saved(b)' /\ Frozen(b)' /\ ~Owner(b)'
  BY <1>1, <1>2, <1>4 DEF Ran, Checked, Accepted, Saved, Frozen, Owner
<1> QED
  BY <1>3, <1>5 DEF CallOK

\* A step of the owner, perhaps its last.
LEMMA OwnerMoves ==
  ASSUME Inv, NEW a \in Callers, Owner(a), Typed',
         \A b \in Callers \ {a} : caller'[b] = caller[b],
         dir'["firmware"] # Nothing,
         CallOK(a)', FilesInv', LoaderInv'
  PROVE  Inv'
<1>1. \A b \in Callers \ {a} : ~Owner(b) /\ CallOK(b)
  BY DEF Inv, OneWriter
<1>2. Typed
  BY DEF Inv
<1>3. \A b \in Callers \ {a} : CallOK(b)' /\ ~Owner(b)'
  BY <1>1, <1>2, FreeStays
<1>4. OneWriter' /\ Held'
  BY <1>3 DEF OneWriter, Held
<1> QED
  BY <1>3, <1>4 DEF Inv

LEMMA FromKept ==
  ASSUME Typed, Typed', NEW a \in Callers,
         \A b \in Callers \ {a} : caller'[b] = caller[b],
         caller'[a].written >= caller[a].written,
         caller[a].written > 0 => caller'[a].evidence = caller[a].evidence
  PROVE  \A e : \A i \in 1 .. 6 : From(e, i) => From(e, i)'
<1>1. caller \in [Callers -> Calls] /\ caller' \in [Callers -> Calls]
  BY DEF Typed
<1>2. \A b \in Callers : caller'[b].written >= caller[b].written
        /\ (caller[b].written > 0 => caller'[b].evidence = caller[b].evidence)
  <2> SUFFICES ASSUME NEW b \in Callers, b # a
               PROVE  caller'[b].written >= caller[b].written
                      /\ (caller[b].written > 0 => caller'[b].evidence = caller[b].evidence)
    OBVIOUS
  <2>1. caller[b].written \in 0 .. 6
    BY <1>1 DEF Calls
  <2> QED
    BY <2>1
<1> QED
  BY <1>1, <1>2, FromStays

\* A step that writes no artifact.
LEMMA ArtifactsKept ==
  ASSUME Inv, Typed', NEW a \in Callers,
         \A b \in Callers \ {a} : caller'[b] = caller[b],
         caller'[a].written = caller[a].written,
         caller[a].written > 0 => caller'[a].evidence = caller[a].evidence,
         \A i \in 1 .. 6 : dir'[Jsons[i]] \in Evidence => dir'[Jsons[i]] = dir[Jsons[i]],
         loader' = loader
  PROVE  FilesInv' /\ LoaderInv'
<1>1. Typed
  BY DEF Inv
<1>2. caller[a].written \in 0 .. 6
  BY <1>1 DEF Typed, Calls
<1>3. \A e : \A i \in 1 .. 6 : From(e, i) => From(e, i)'
  BY <1>1, <1>2, FromKept
<1>4. FilesInv'
  BY <1>3 DEF Inv, FilesInv
<1>5. DOMAIN loader \subseteq 1 .. 6
  BY <1>1 DEF Typed, Artifacts
<1>6. LoaderInv'
  BY <1>3, <1>5 DEF Inv, LoaderInv
<1> QED
  BY <1>4, <1>6

\* A step of a caller that has nothing to do with the files.
LEMMA FreeMoves ==
  ASSUME Inv, NEW a \in Callers, ~Owner(a), Typed',
         \A b \in Callers \ {a} : caller'[b] = caller[b],
         caller'[a].step \notin Owning, caller'[a].written = 0, Counted(a)',
         UNCHANGED <<pluginVars, dir, loader, damage>>
  PROVE  Inv'
<1>1. Typed
  BY DEF Inv
<1>2. caller[a].step \notin Owning /\ caller[a].written = 0
  BY <1>1, NotOwner
<1>3. UNCHANGED <<policy, stream, process>>
  BY DEF pluginVars
<1>4. \A b \in Callers \ {a} : CallOK(b)' /\ (Owner(b)' <=> Owner(b))
  <2> SUFFICES ASSUME NEW b \in Callers \ {a} PROVE CallOK(b)' /\ (Owner(b)' <=> Owner(b))
    OBVIOUS
  <2>1. caller'[b] = caller[b] /\ CallOK(b)
    BY DEF Inv
  <2>2. Counted(b)' /\ Ran(b)' /\ Frozen(b)' /\ Saved(b)' /\ (Owner(b)' <=> Owner(b))
    BY <1>3, <2>1 DEF CallOK, Counted, Ran, Frozen, Saved, Owner
  <2>3. Checked(b)' /\ Accepted(b)'
    BY <1>3, <2>1 DEF CallOK, Checked, Accepted, Intact, RunOf
  <2> QED
    BY <2>2, <2>3 DEF CallOK
<1>5. CallOK(a)' /\ ~Owner(a)'
  <2>1. {"run", "check", "materialize", "write", "done"} \subseteq Owning
    BY DEF Owning
  <2>2. ~(0 > 0)
    OBVIOUS
  <2>3. Ran(a)' /\ Checked(a)' /\ Accepted(a)' /\ Saved(a)' /\ Frozen(a)' /\ ~Owner(a)'
    BY <2>1, <2>2 DEF Ran, Checked, Accepted, Saved, Frozen, Owner
  <2> QED
    BY <2>3 DEF CallOK
<1>6. OneWriter' /\ Held'
  BY <1>4, <1>5 DEF Inv, OneWriter, Held
<1>7. FilesInv' /\ LoaderInv'
  BY <1>2, ArtifactsKept
<1> QED
  BY <1>4, <1>5, <1>6, <1>7 DEF Inv

-----------------------------------------------------------------------------
(* The steps of acquire_and_write.                                         *)

LEMMA IdleIsFree ==
  ASSUME Inv, NEW a \in Callers, caller[a].step \in {"idle", "claim", "freeze"}
  PROVE  ~Owner(a) /\ caller[a].written = 0
BY DEF Inv, CallOK, Counted, Early, Owner, Owning

\* Goto by a caller that owns nothing.
LEMMA FreeGoes ==
  ASSUME Inv, NEW a \in Callers, caller[a].step \in {"idle", "claim", "freeze"},
         NEW s \in {"claim", "failed", "crashed"}, Goto(a, s),
         UNCHANGED <<pluginVars, source, tools, dir, loader, damage>>
  PROVE  Inv'
<1>1. ~Owner(a) /\ caller[a].written = 0 /\ Typed
  BY IdleIsFree DEF Inv
<1>2. s \in Steps
  BY DEF Steps, Early, Ended
<1>3. /\ caller' \in [Callers -> Calls] /\ caller'[a].step = s /\ caller'[a].written = 0
      /\ \A b \in Callers \ {a} : caller'[b] = caller[b]
  BY <1>1, <1>2, GotoStep
<1>4. Typed'
  BY <1>1, <1>3 DEF Typed, TypeOK, pluginVars
<1>5. Counted(a)' /\ s \notin Owning
  BY <1>3 DEF Counted, Early, Owning
<1> QED
  BY <1>1, <1>3, <1>4, <1>5, FreeMoves

LEMMA ClaimKeeps ==
  ASSUME Inv, NEW a \in Callers, Claim(a)
  PROVE  Inv'
<1>1. ~Owner(a) /\ caller[a].written = 0 /\ Typed
  BY IdleIsFree DEF Inv, Claim
<1>2. PICK s \in {"freeze", "failed"} : caller' = [caller EXCEPT ![a] = [caller[a] EXCEPT !.firmware = source, !.step = s]]
  BY DEF Claim
<1>3. caller[a] \in Calls /\ caller \in [Callers -> Calls] /\ source \in {1, 2} /\ s \in Steps
  BY <1>1 DEF Typed, Steps, Early, Ended
<1> DEFINE c == [caller[a] EXCEPT !.firmware = source, !.step = s]
<1>4. c \in Calls /\ c.step = s /\ c.firmware = source /\ c.written = 0
  BY <1>1, <1>3 DEF Calls
<1> HIDE DEF c
<1>5. /\ caller' \in [Callers -> Calls] /\ caller'[a] = c
      /\ \A b \in Callers \ {a} : caller'[b] = caller[b]
  BY <1>2, <1>3, <1>4 DEF c
<1>6. Typed'
  BY <1>1, <1>5 DEF Claim, Typed, TypeOK, pluginVars
<1>7. Counted(a)' /\ caller'[a].step \notin Owning
  BY <1>3, <1>4, <1>5 DEF Counted, Early, Owning
<1> QED
  BY <1>1, <1>4, <1>5, <1>6, <1>7, FreeMoves DEF Claim

\* The one that finds no firmware in the directory becomes its owner.
LEMMA FreezeKeeps ==
  ASSUME Inv, NEW a \in Callers, Freeze(a)
  PROVE  Inv'
<1>1. caller[a].step = "freeze" /\ Typed
  BY DEF Freeze, Inv
<1>2. CASE dir["firmware"] # Nothing
  BY <1>1, <1>2, FreeGoes DEF Freeze
<1>3. CASE dir["firmware"] = Nothing
  <2>1. dir' = [dir EXCEPT !["firmware"] = caller[a].firmware] /\ Goto(a, "build")
    BY <1>3 DEF Freeze
  <2>2. "build" \in Steps
    BY DEF Steps, Early
  <2>3. /\ caller' \in [Callers -> Calls] /\ caller'[a].step = "build"
        /\ caller'[a].firmware = caller[a].firmware
        /\ caller'[a].written = caller[a].written /\ caller'[a].evidence = caller[a].evidence
        /\ \A b \in Callers \ {a} : caller'[b] = caller[b]
    BY <1>1, <2>1, <2>2, GotoStep
  <2>4. caller[a].written = 0 /\ caller[a].firmware \in {1, 2}
    BY <1>1 DEF Inv, CallOK, Counted, Early, Typed, Calls
  <2>5. /\ dir' = [f \in Files |-> dir'[f]] /\ dir'["firmware"] = caller[a].firmware
        /\ \A i \in 1 .. 6 : dir'[Jsons[i]] = dir[Jsons[i]]
    BY <1>1, <2>1, JsonNames DEF Typed
  <2>6. Typed'
    BY <1>1, <2>3, <2>5 DEF Freeze, Typed, TypeOK, pluginVars
  <2>7. FilesInv' /\ LoaderInv'
    BY <2>3, <2>5, <2>6, ArtifactsKept DEF Freeze
  <2>8. CallOK(a)'
    <3>1. ~(0 > 0) /\ "build" \notin {"check", "materialize", "write", "done"}
      OBVIOUS
    <3>2. Counted(a)' /\ Ran(a)' /\ Checked(a)' /\ Accepted(a)' /\ Saved(a)'
      BY <2>3, <2>4, <3>1 DEF Counted, Ran, Checked, Accepted, Saved
    <3>3. Frozen(a)'
      BY <2>3, <2>5 DEF Frozen
    <3> QED
      BY <3>2, <3>3 DEF CallOK
  <2>9. \A b \in Callers \ {a} : CallOK(b)' /\ ~Owner(b)'
    BY <1>1, <1>3, <2>3, FreeStays DEF Inv, Held
  <2>10. OneWriter' /\ Held'
    BY <2>4, <2>5, <2>9, NothingAssumption DEF OneWriter, Held
  <2> QED
    BY <2>6, <2>7, <2>8, <2>9, <2>10 DEF Inv
<1> QED
  BY <1>2, <1>3

\* Goto by the owner, which leaves its files alone.
LEMMA OwnerGoes ==
  ASSUME Inv, NEW a \in Callers, Owner(a), NEW s \in Steps, Goto(a, s),
         UNCHANGED <<source, tools, dir, loader, damage>>, TypeOK', policy' = policy,
         Ran(a)', Checked(a)',
         s \in {"run", "check", "failed", "crashed"},
         s \in {"run", "check"} => caller[a].step \in {"launch", "run"}
  PROVE  Inv'
<1>1. Typed /\ CallOK(a) /\ dir["firmware"] # Nothing
  BY DEF Inv, Held
<1>2. /\ caller' \in [Callers -> Calls] /\ caller'[a].step = s
      /\ caller'[a].firmware = caller[a].firmware /\ caller'[a].plugin = caller[a].plugin
      /\ caller'[a].raw = caller[a].raw /\ caller'[a].evidence = caller[a].evidence
      /\ caller'[a].written = caller[a].written
      /\ \A b \in Callers \ {a} : caller'[b] = caller[b]
  BY <1>1, GotoStep
<1>3. Typed'
  BY <1>1, <1>2 DEF Typed
<1>4. FilesInv' /\ LoaderInv'
  BY <1>2, <1>3, ArtifactsKept
<1>5. Counted(a)'
  BY <1>1, <1>2 DEF CallOK, Counted, Early
<1>6. Frozen(a)'
  BY <1>1, <1>2 DEF CallOK, Frozen, Owning
<1>7. Saved(a)'
  BY <1>2 DEF Saved
<1>8. Accepted(a)'
  <2>1. s \notin {"write", "done"}
    OBVIOUS
  <2> QED
    BY <1>1, <1>2, <2>1 DEF CallOK, Accepted, RunOf
<1>9. CallOK(a)'
  BY <1>5, <1>6, <1>7, <1>8 DEF CallOK
<1> QED
  BY <1>1, <1>2, <1>3, <1>4, <1>9, OwnerMoves

\* With nothing of the plugin touched, what was checked stays checked.
LEMMA OwnerStops ==
  ASSUME Inv, NEW a \in Callers, Owner(a), NEW s \in {"failed", "crashed"}, Goto(a, s),
         UNCHANGED <<pluginVars, source, tools, dir, loader, damage>>
  PROVE  Inv'
<1>1. Typed /\ CallOK(a) /\ s \in Steps
  BY DEF Inv, Steps, Ended
<1>2. /\ caller'[a].step = s /\ caller'[a].raw = caller[a].raw
      /\ caller'[a].written = caller[a].written
  BY <1>1, GotoStep
<1>3. UNCHANGED <<policy, stream, process>> /\ TypeOK'
  BY <1>1 DEF pluginVars, Typed, TypeOK
<1>4. Ran(a)' /\ Checked(a)'
  BY <1>1, <1>2, <1>3 DEF CallOK, Ran, Checked, Intact
<1> QED
  BY <1>1, <1>3, <1>4, OwnerGoes

LEMMA BuildKeeps ==
  ASSUME Inv, NEW a \in Callers, Build(a)
  PROVE  Inv'
<1>1. caller[a].step = "build" /\ Typed /\ CallOK(a) /\ Owner(a) /\ dir["firmware"] # Nothing
  BY DEF Build, Inv, Held, Owner, Owning
<1>2. CASE dir["plugin"] # Nothing
  BY <1>1, <1>2, OwnerStops DEF Build
<1>3. CASE dir["plugin"] = Nothing
  <2> DEFINE c == [caller[a] EXCEPT !.plugin = tools, !.step = "launch"]
  <2>1. /\ dir' = [dir EXCEPT !["plugin"] = tools]
        /\ caller' = [caller EXCEPT ![a] = c]
    BY <1>3 DEF Build
  <2>2. caller[a] \in Calls /\ caller \in [Callers -> Calls] /\ tools \in {"pinned", "changed"}
        /\ "launch" \in Steps
    BY <1>1 DEF Typed, Steps, Early
  <2>3. caller[a].written = 0
    BY <1>1 DEF CallOK, Counted, Early
  <2>4. /\ c \in Calls /\ c.step = "launch" /\ c.plugin = tools /\ c.written = 0
        /\ c.firmware = caller[a].firmware /\ c.evidence = caller[a].evidence
    BY <2>2, <2>3 DEF Calls
  <2> HIDE DEF c
  <2>5. /\ caller' \in [Callers -> Calls] /\ caller'[a] = c
        /\ \A b \in Callers \ {a} : caller'[b] = caller[b]
    BY <2>1, <2>2, <2>4
  <2>6. /\ dir' = [f \in Files |-> dir'[f]] /\ dir'["firmware"] = dir["firmware"]
        /\ dir'["plugin"] = tools /\ \A i \in 1 .. 6 : dir'[Jsons[i]] = dir[Jsons[i]]
    BY <1>1, <2>1, JsonNames DEF Typed
  <2>7. Typed'
    BY <1>1, <2>5, <2>6 DEF Build, Typed, TypeOK, pluginVars
  <2>8. FilesInv' /\ LoaderInv'
    BY <2>3, <2>4, <2>5, <2>6, <2>7, ArtifactsKept DEF Build
  <2>9. CallOK(a)'
    <3>1. ~(0 > 0)
      OBVIOUS
    <3>2. Counted(a)' /\ Ran(a)' /\ Checked(a)' /\ Accepted(a)' /\ Saved(a)'
      BY <2>4, <2>5, <3>1 DEF Counted, Ran, Checked, Accepted, Saved
    <3>3. Frozen(a)'
      BY <1>1, <2>4, <2>5, <2>6 DEF Build, CallOK, Frozen, Owning
    <3> QED
      BY <3>2, <3>3 DEF CallOK
  <2> QED
    BY <1>1, <2>5, <2>6, <2>7, <2>8, <2>9, OwnerMoves
<1> QED
  BY <1>2, <1>3

LEMMA LaunchKeeps ==
  ASSUME Inv, NEW a \in Callers, Launch(a)
  PROVE  Inv'
<1>1. caller[a].step = "launch" /\ Typed /\ CallOK(a) /\ Owner(a)
  BY DEF Launch, Inv, Owner, Owning
<1>2. CASE RawExists
  BY <1>1, <1>2, OwnerStops DEF Launch
<1>3. CASE ~RawExists
  <2>1. Install /\ Goto(a, "run") /\ "run" \in Steps
    BY <1>3 DEF Launch, Steps, Early
  <2>2. TypeOK' /\ policy' = policy /\ process' # "start"
    BY <1>1, <2>1, PluginTyped DEF Typed, Next, Install
  <2>3. caller'[a].step = "run" /\ caller'[a].written = 0
    BY <1>1, <2>1, GotoStep DEF CallOK, Counted, Early
  <2>4. Ran(a)' /\ Checked(a)'
    BY <2>2, <2>3 DEF Ran, Checked
  <2> QED
    BY <1>1, <2>1, <2>2, <2>4, OwnerGoes DEF Launch
<1> QED
  BY <1>2, <1>3

LEMMA QemuReturnsKeeps ==
  ASSUME Inv, NEW a \in Callers, QemuReturns(a)
  PROVE  Inv'
<1>1. /\ caller[a].step = "run" /\ Typed /\ CallOK(a) /\ Owner(a) /\ caller[a].written = 0
      /\ UNCHANGED <<policy, stream, process>>
  BY DEF QemuReturns, Inv, Owner, Owning, CallOK, Counted, Early, pluginVars
<1>2. PICK s \in {"check", "failed"} : Goto(a, s) /\ (s = "check" => process \in {"stopped", "quit"})
  BY DEF QemuReturns
<1>3. s \in Steps
  BY DEF Steps, Early, Ended
<1>4. caller'[a].step = s /\ caller'[a].written = 0
  BY <1>1, <1>2, <1>3, GotoStep
<1>5. Ran(a)' /\ Checked(a)'
  BY <1>1, <1>2, <1>4 DEF Ran, Checked
<1>6. TypeOK'
  BY <1>1 DEF QemuReturns, pluginVars, Typed, TypeOK
<1> QED
  BY <1>1, <1>2, <1>3, <1>5, <1>6, OwnerGoes DEF QemuReturns

LEMMA WatchdogKeeps ==
  ASSUME Inv, NEW a \in Callers, Watchdog(a)
  PROVE  Inv'
<1>1. caller[a].step = "run" /\ Typed /\ CallOK(a) /\ Owner(a) /\ caller[a].written = 0
  BY DEF Watchdog, Inv, Owner, Owning, CallOK, Counted, Early
<1>2. TypeOK' /\ policy' = policy
  BY <1>1, PluginTyped DEF Watchdog, Typed, Next
<1>3. Goto(a, "failed") /\ "failed" \in Steps
  BY DEF Watchdog, Steps, Ended
<1>4. caller'[a].step = "failed" /\ caller'[a].written = 0
  BY <1>1, <1>3, GotoStep
<1>5. Ran(a)' /\ Checked(a)'
  BY <1>4 DEF Ran, Checked
<1> QED
  BY <1>1, <1>2, <1>3, <1>5, OwnerGoes DEF Watchdog

\* What Check accepts is the stream as it is.
LEMMA CheckKeeps ==
  ASSUME Inv, NEW a \in Callers, Check(a)
  PROVE  Inv'
<1>1. /\ caller[a].step = "check" /\ Typed /\ CallOK(a) /\ Owner(a) /\ caller[a].written = 0
      /\ dir["firmware"] # Nothing /\ process \in {"stopped", "quit"}
  BY DEF Check, Inv, Held, Owner, Owning, CallOK, Counted, Ran, Early
<1>2. CASE Goto(a, "failed")
  BY <1>1, <1>2, OwnerStops DEF Check
<1>3. CASE /\ Parses(stream, policy)
           /\ caller' = [caller EXCEPT ![a].raw = stream, ![a].step = "materialize"]
  <2> DEFINE c == [caller[a] EXCEPT !.raw = stream, !.step = "materialize"]
  <2>1. caller[a] \in Calls /\ caller \in [Callers -> Calls] /\ stream \in Streams
        /\ "materialize" \in Steps
    BY <1>1 DEF Typed, TypeOK, Steps, Early
  <2>2. /\ c \in Calls /\ c.step = "materialize" /\ c.raw = stream /\ c.written = 0
        /\ c.firmware = caller[a].firmware /\ c.plugin = caller[a].plugin
    BY <1>1, <2>1 DEF Calls
  <2>3. caller' = [caller EXCEPT ![a] = c]
    BY <1>3
  <2> HIDE DEF c
  <2>4. /\ caller' \in [Callers -> Calls] /\ caller'[a] = c
        /\ \A b \in Callers \ {a} : caller'[b] = caller[b]
    BY <2>1, <2>2, <2>3
  <2>5. Typed' /\ UNCHANGED <<policy, stream, process, dir, damage, loader>>
    BY <1>1, <2>4 DEF Check, Typed, TypeOK, pluginVars
  <2>6. FilesInv' /\ LoaderInv'
    BY <1>1, <2>2, <2>4, <2>5, ArtifactsKept
  <2>7. CallOK(a)'
    <3>1. Counted(a)' /\ Ran(a)' /\ Saved(a)'
      BY <1>1, <2>2, <2>4, <2>5 DEF Counted, Ran, Saved
    <3>2. ~(0 > 0)
      OBVIOUS
    <3>3. Accepted(a)'
      BY <2>2, <2>4, <3>2 DEF Accepted
    <3>4. Checked(a)'
      BY <1>3, <2>2, <2>4, <2>5 DEF Checked, Intact
    <3>5. Frozen(a)'
      BY <1>1, <2>2, <2>4, <2>5 DEF CallOK, Frozen, Owning
    <3> QED
      BY <3>1, <3>3, <3>4, <3>5 DEF CallOK
  <2> QED
    BY <1>1, <2>4, <2>5, <2>6, <2>7, OwnerMoves
<1> QED
  BY <1>2, <1>3 DEF Check

LEMMA EvidenceTyped ==
  ASSUME Typed, NEW plugin \in {"pinned", "changed"}, NEW raw \in Streams, NEW firmware,
         NEW run, run.policy = policy, run.plugin = plugin, run.firmware = firmware,
         run = [firmware |-> firmware, plugin |-> plugin, policy |-> policy],
         Materialize(run, raw, firmware) # Nothing
  PROVE  Materialize(run, raw, firmware) \in Evidence
<1>1. firmware = 1 /\ Materialize(run, raw, firmware) = [run |-> run, events |-> raw.events]
  BY DEF Materialize, Analysed
<1>2. run \in Runs
  BY <1>1 DEF Runs, Typed
<1>3. raw.events \in Seq(Events)
  BY DEF Streams
<1> QED
  BY <1>1, <1>2, <1>3 DEF Evidence

LEMMA MaterializeKeeps ==
  ASSUME Inv, NEW a \in Callers, MaterializeRun(a)
  PROVE  Inv'
<1> DEFINE e == Materialize(RunOf(a), caller[a].raw, caller[a].firmware)
<1>1. /\ caller[a].step = "materialize" /\ Typed /\ CallOK(a) /\ Owner(a) /\ caller[a].written = 0
      /\ dir["firmware"] # Nothing
  BY DEF MaterializeRun, Inv, Held, Owner, Owning, CallOK, Counted, Early
<1>2. CASE Goto(a, "failed")
  BY <1>1, <1>2, OwnerStops DEF MaterializeRun
<1>3. CASE /\ Provenance(RunOf(a)) /\ e # Nothing
           /\ caller' = [caller EXCEPT ![a].evidence = e, ![a].step = "write"]
  <2> DEFINE c == [caller[a] EXCEPT !.evidence = e, !.step = "write"]
  <2>1. caller[a] \in Calls /\ caller \in [Callers -> Calls] /\ "write" \in Steps
    BY <1>1 DEF Typed, Steps
  <2>2. e \in Evidence
    BY <1>1, <1>3, <2>1, EvidenceTyped DEF RunOf, Calls
  <2>3. caller[a].plugin = "pinned"
    BY <1>3 DEF Provenance, RunOf
  <2>4. caller' = [caller EXCEPT ![a] = c]
    BY <1>3
  <2> HIDE DEF e
  <2>5. /\ c \in Calls /\ c.step = "write" /\ c.evidence = e /\ c.written = 0
        /\ c.firmware = caller[a].firmware /\ c.plugin = caller[a].plugin /\ c.raw = caller[a].raw
    BY <1>1, <2>1, <2>2 DEF Calls
  <2> HIDE DEF c
  <2>6. /\ caller' \in [Callers -> Calls] /\ caller'[a] = c
        /\ \A b \in Callers \ {a} : caller'[b] = caller[b]
    BY <2>1, <2>4, <2>5
  <2>7. Typed' /\ UNCHANGED <<policy, stream, process, dir, damage, loader>>
    BY <1>1, <2>6 DEF MaterializeRun, Typed, TypeOK, pluginVars
  <2>8. FilesInv' /\ LoaderInv'
    BY <1>1, <2>5, <2>6, <2>7, ArtifactsKept
  <2>9. CallOK(a)'
    <3>1. Counted(a)' /\ Saved(a)'
      BY <2>5, <2>6 DEF Counted, Saved, Early
    <3>2. Ran(a)' /\ Checked(a)'
      BY <1>1, <2>5, <2>6, <2>7 DEF CallOK, Ran, Checked, Intact
    <3>3. RunOf(a)' = RunOf(a)
      BY <2>5, <2>6, <2>7 DEF RunOf
    <3>4. Accepted(a)'
      BY <1>3, <2>3, <2>5, <2>6, <3>3 DEF Accepted, e
    <3>5. Frozen(a)'
      BY <1>1, <2>5, <2>6, <2>7 DEF CallOK, Frozen, Owning
    <3> QED
      BY <3>1, <3>2, <3>4, <3>5 DEF CallOK
  <2> QED
    BY <1>1, <2>6, <2>7, <2>8, <2>9, OwnerMoves
<1> QED
  BY <1>2, <1>3 DEF MaterializeRun

\* An artifact is written where there is none.
LEMMA WriteKeeps ==
  ASSUME Inv, NEW a \in Callers, Write(a)
  PROVE  Inv'
<1>1. /\ caller[a].step = "write" /\ Typed /\ CallOK(a) /\ Owner(a) /\ dir["firmware"] # Nothing
  BY DEF Write, Inv, Held, Owner, Owning
<1>0. caller[a] \in Calls /\ caller \in [Callers -> Calls] /\ caller[a].written \in 0 .. 5
  BY <1>1 DEF Typed, Calls, CallOK, Counted
<1> PICK n \in 1 .. 6 : n = caller[a].written + 1
  BY <1>0
<1> DEFINE s == IF n = 6 THEN "done" ELSE "write"
<1>2. caller[a] \in Calls /\ caller \in [Callers -> Calls] /\ s \in Steps
      /\ caller[a].written \in 0 .. 5 /\ n = caller[a].written + 1
  BY <1>0 DEF Steps, Ended
<1> HIDE DEF s
<1>3. CASE dir[Jsons[n]] # Nothing
  BY <1>1, <1>3, OwnerStops DEF Write
<1>4. CASE dir[Jsons[n]] = Nothing
  <2> DEFINE c == [caller[a] EXCEPT !.written = n, !.step = s]
  <2>1. /\ dir' = [dir EXCEPT ![Jsons[n]] = caller[a].evidence]
        /\ caller' = [caller EXCEPT ![a] = c]
    BY <1>2, <1>4, JsonNames DEF Write, s
  <2>2. /\ c \in Calls /\ c.step = s /\ c.evidence = caller[a].evidence /\ c.written = n
        /\ c.firmware = caller[a].firmware /\ c.plugin = caller[a].plugin /\ c.raw = caller[a].raw
    <3>1. caller[a] \in Calls /\ s \in Steps /\ n \in 0 .. 6
      BY <1>2
    <3> QED
      BY <3>1 DEF Calls
  <2> HIDE DEF c
  <2>3. /\ caller' \in [Callers -> Calls] /\ caller'[a] = c
        /\ \A b \in Callers \ {a} : caller'[b] = caller[b]
    BY <1>2, <2>1, <2>2
  <2>4. caller[a].evidence \in Evidence
    BY <1>1, <1>2 DEF CallOK, Accepted, Calls
  <2>5. /\ dir' = [f \in Files |-> dir'[f]]
        /\ dir'["firmware"] = dir["firmware"] /\ dir'["plugin"] = dir["plugin"]
        /\ dir'[Jsons[n]] = caller[a].evidence
        /\ \A i \in 1 .. 6 : i # n => dir'[Jsons[i]] = dir[Jsons[i]]
    BY <1>1, <1>2, <2>1, JsonNames DEF Typed
  <2>6. Typed' /\ UNCHANGED <<policy, stream, process, damage, loader>>
    <3>1. \A i \in 1 .. 6 : dir'[Jsons[i]] \in Evidence \cup {Nothing, Torn}
      BY <1>1, <2>4, <2>5 DEF Typed
    <3> QED
      BY <1>1, <2>3, <2>5, <3>1 DEF Write, Typed, TypeOK, pluginVars
  <2>7. \A e : \A i \in 1 .. 6 : From(e, i) => From(e, i)'
    <3>1. caller'[a].written >= caller[a].written /\ caller'[a].evidence = caller[a].evidence
      BY <1>2, <2>2, <2>3
    <3> QED
      BY <1>1, <2>3, <2>6, <3>1, FromKept
  <2>8. FilesInv'
    <3>1. From(dir[Jsons[n]], n)'
      BY <1>2, <2>2, <2>3, <2>5 DEF From
    <3>2. ASSUME NEW i \in 1 .. 6, i # n, dir'[Jsons[i]] \in Evidence
          PROVE  From(dir[Jsons[i]], i)'
      <4>1. From(dir[Jsons[i]], i)
        BY <2>5, <3>2 DEF Inv, FilesInv
      <4> QED
        BY <2>5, <2>7, <3>2, <4>1
    <3> QED
      BY <3>1, <3>2 DEF FilesInv
  <2>9. LoaderInv'
    BY <1>1, <2>6, <2>7 DEF Inv, LoaderInv, Typed, Artifacts
  <2>10. CallOK(a)'
    <3>1. Counted(a)'
      BY <1>2, <2>2, <2>3 DEF Counted, Early, s
    <3>2. Ran(a)' /\ Checked(a)'
      BY <1>1, <2>2, <2>3, <2>6 DEF CallOK, Ran, Checked, Intact
    <3>3. RunOf(a)' = RunOf(a)
      BY <2>2, <2>3, <2>6 DEF RunOf
    <3>4. Accepted(a)'
      BY <1>1, <2>2, <2>3, <3>3 DEF CallOK, Accepted
    <3>5. Frozen(a)'
      BY <1>1, <2>2, <2>3, <2>5, <2>6 DEF CallOK, Frozen, Owning
    <3>6. Saved(a)'
      <4> SUFFICES ASSUME damage = 0, NEW i \in 1 .. n
                   PROVE  dir'[Jsons[i]] = caller[a].evidence
        BY <2>2, <2>3, <2>6 DEF Saved
      <4>1. CASE i = n
        BY <2>5, <4>1
      <4>2. CASE i # n
        <5>1. i \in 1 .. caller[a].written /\ i \in 1 .. 6
          BY <1>2, <4>2
        <5> QED
          BY <1>1, <2>5, <4>2, <5>1 DEF CallOK, Saved
      <4> QED
        BY <4>1, <4>2
    <3> QED
      BY <3>1, <3>2, <3>4, <3>5, <3>6 DEF CallOK
  <2> QED
    BY <1>1, <2>3, <2>5, <2>6, <2>8, <2>9, <2>10, OwnerMoves
<1> QED
  BY <1>3, <1>4

\* A crash inside a write leaves a file that is no artifact.
LEMMA OwnerTears ==
  ASSUME Inv, NEW a \in Callers, Owner(a), Goto(a, "crashed"),
         NEW f \in Files, f # "firmware", dir' = [dir EXCEPT ![f] = Torn],
         UNCHANGED <<pluginVars, source, tools, loader, damage>>
  PROVE  Inv'
<1>1. Typed /\ CallOK(a) /\ dir["firmware"] # Nothing /\ "crashed" \in Steps
  BY DEF Inv, Held, Steps, Ended
<1>2. /\ caller' \in [Callers -> Calls] /\ caller'[a].step = "crashed"
      /\ caller'[a].firmware = caller[a].firmware /\ caller'[a].plugin = caller[a].plugin
      /\ caller'[a].raw = caller[a].raw /\ caller'[a].evidence = caller[a].evidence
      /\ caller'[a].written = caller[a].written
      /\ \A b \in Callers \ {a} : caller'[b] = caller[b]
  BY <1>1, GotoStep
<1>3. /\ dir' = [g \in Files |-> dir'[g]] /\ dir'["firmware"] = dir["firmware"]
      /\ \A i \in 1 .. 6 : dir'[Jsons[i]] = dir[Jsons[i]] \/ dir'[Jsons[i]] = Torn
  BY <1>1, JsonNames DEF Typed
<1>4. Typed' /\ UNCHANGED <<policy, stream, process>>
  BY <1>1, <1>2, <1>3 DEF Typed, TypeOK, pluginVars
<1>5. FilesInv' /\ LoaderInv'
  BY <1>2, <1>3, <1>4, ArtifactsKept, NothingAssumption
<1>6. CallOK(a)'
  <2>1. Counted(a)' /\ Saved(a)' /\ Frozen(a)'
    BY <1>2 DEF Counted, Saved, Frozen, Early, Owning
  <2>2. Ran(a)' /\ Checked(a)'
    BY <1>1, <1>2, <1>4 DEF CallOK, Ran, Checked, Intact
  <2>3. RunOf(a)' = RunOf(a)
    BY <1>2, <1>4 DEF RunOf
  <2>4. Accepted(a)'
    BY <1>1, <1>2, <2>3 DEF CallOK, Accepted
  <2> QED
    BY <2>1, <2>2, <2>4 DEF CallOK
<1> QED
  BY <1>1, <1>2, <1>3, <1>4, <1>5, <1>6, OwnerMoves

\* A torn firmware has no owner, and keeps everybody else out.
LEMMA FreezeTears ==
  ASSUME Inv, NEW a \in Callers, caller[a].step = "freeze", Goto(a, "crashed"),
         dir["firmware"] = Nothing, dir' = [dir EXCEPT !["firmware"] = Torn],
         UNCHANGED <<pluginVars, source, tools, loader, damage>>
  PROVE  Inv'
<1>1. Typed /\ caller[a].written = 0 /\ "crashed" \in Steps
  BY IdleIsFree DEF Inv, Steps, Ended
<1>2. /\ caller' \in [Callers -> Calls] /\ caller'[a].step = "crashed"
      /\ caller'[a].evidence = caller[a].evidence /\ caller'[a].written = caller[a].written
      /\ \A b \in Callers \ {a} : caller'[b] = caller[b]
  BY <1>1, GotoStep
<1>3. /\ dir' = [g \in Files |-> dir'[g]] /\ dir'["firmware"] = Torn
      /\ \A i \in 1 .. 6 : dir'[Jsons[i]] = dir[Jsons[i]]
  BY <1>1, JsonNames DEF Typed
<1>4. Typed'
  BY <1>1, <1>2, <1>3 DEF Typed, TypeOK, pluginVars
<1>5. FilesInv' /\ LoaderInv'
  BY <1>1, <1>2, <1>3, <1>4, ArtifactsKept
<1>6. CallOK(a)' /\ ~Owner(a)'
  <2>1. ~(0 > 0)
    OBVIOUS
  <2>2. Counted(a)' /\ Saved(a)' /\ Frozen(a)' /\ ~Owner(a)'
    BY <1>1, <1>2, <2>1 DEF Counted, Saved, Frozen, Early, Owning, Owner
  <2>3. Ran(a)' /\ Checked(a)' /\ Accepted(a)'
    BY <1>1, <1>2, <2>1 DEF Ran, Checked, Accepted
  <2> QED
    BY <2>2, <2>3 DEF CallOK
<1>7. \A b \in Callers \ {a} : CallOK(b)' /\ ~Owner(b)'
  BY <1>1, <1>2, FreeStays DEF Inv, Held
<1>8. OneWriter' /\ Held'
  BY <1>6, <1>7 DEF OneWriter, Held
<1> QED
  BY <1>4, <1>5, <1>6, <1>7, <1>8 DEF Inv

LEMMA CrashKeeps ==
  ASSUME Inv, NEW a \in Callers, Crash(a)
  PROVE  Inv'
<1>1. Goto(a, "crashed") /\ UNCHANGED <<pluginVars, source, tools, loader, damage>>
  BY DEF Crash
<1>2. caller[a].step \in {"claim", "freeze"} \/ caller[a].step \in Owning
  BY DEF Crash, Ended, Inv, Typed, Calls, Steps, Early, Owning
<1>3. caller[a].step \in Owning => Owner(a)
  BY DEF Owner
<1>4. CASE UNCHANGED dir
  BY <1>1, <1>2, <1>3, <1>4, FreeGoes, OwnerStops
<1>5. ASSUME NEW f \in NextFile(a), dir[f] = Nothing, dir' = [dir EXCEPT ![f] = Torn]
      PROVE  Inv'
  <2>1. CASE caller[a].step = "freeze"
    <3>1. f = "firmware"
      BY <1>5, <2>1 DEF NextFile
    <3> QED
      BY <1>1, <1>5, <2>1, <3>1, FreezeTears
  <2>2. CASE caller[a].step = "build"
    <3>1. f = "plugin"
      BY <1>5, <2>2 DEF NextFile
    <3>2. Owner(a) /\ f \in Files
      BY <2>2, <3>1, JsonNames DEF Owner, Owning
    <3> QED
      BY <1>1, <1>5, <3>1, <3>2, OwnerTears
  <2>3. CASE caller[a].step = "write"
    <3>1. f = Jsons[caller[a].written + 1]
      BY <1>5, <2>3 DEF NextFile
    <3>2. caller[a].written + 1 \in 1 .. 6
      BY <2>3 DEF Inv, Typed, Calls, CallOK, Counted
    <3>3. Owner(a) /\ f \in Files /\ f # "firmware"
      BY <2>3, <3>1, <3>2, JsonNames DEF Owner, Owning
    <3> QED
      BY <1>1, <1>5, <3>3, OwnerTears
  <2>4. caller[a].step \in {"freeze", "build", "write"}
    BY <1>5 DEF NextFile
  <2> QED
    BY <2>1, <2>2, <2>3, <2>4
<1> QED
  BY <1>4, <1>5 DEF Crash

-----------------------------------------------------------------------------
(* The steps of everybody else.                                            *)

\* QEMU runs: nothing of a run has been checked yet.
LEMMA QemuKeeps ==
  ASSUME Inv, Qemu
  PROVE  Inv'
<1>1. Typed /\ UNCHANGED <<source, tools, dir, caller, loader, damage>>
  BY DEF Inv, Qemu
<1>2. process \in {"running", "finishing"} /\ process' # "start"
  BY DEF Qemu, Observe, Exit, GuestQuits, WriteFails, Finish, Record
<1>3. TypeOK' /\ policy' = policy
  BY <1>1, PluginTyped DEF Typed, Qemu, Next
<1>4. Typed'
  BY <1>1, <1>3 DEF Typed
<1>5. \A a \in Callers : CallOK(a)'
  <2> SUFFICES ASSUME NEW a \in Callers PROVE CallOK(a)'
    OBVIOUS
  <2>1. CallOK(a)
    BY DEF Inv
  <2>2. ~(caller[a].step \in {"check", "materialize", "write", "done"} \/ caller[a].written > 0)
    BY <1>2, <2>1 DEF CallOK, Ran
  <2>3. Counted(a)' /\ Ran(a)'
    BY <1>1, <1>2, <2>1, <2>2 DEF CallOK, Counted, Ran
  <2>4. Frozen(a)' /\ Saved(a)'
    BY <1>1, <2>1 DEF CallOK, Frozen, Saved
  <2>5. Checked(a)' /\ Accepted(a)'
    BY <1>1, <2>2 DEF Checked, Accepted
  <2> QED
    BY <2>3, <2>4, <2>5 DEF CallOK
<1>6. OneWriter' /\ Held'
  BY <1>1 DEF Inv, OneWriter, Held, Owner
<1>7. FilesInv' /\ LoaderInv'
  BY <1>1 DEF Inv, FilesInv, LoaderInv, From
<1> QED
  BY <1>4, <1>5, <1>6, <1>7 DEF Inv

\* What the callers rely on does not change with the sources or the loads.
LEMMA CallsStay ==
  ASSUME Inv, UNCHANGED <<pluginVars, dir, caller, damage>>
  PROVE  /\ \A a \in Callers : CallOK(a)'
         /\ OneWriter' /\ Held' /\ FilesInv'
         /\ \A e : \A i \in 1 .. 6 : From(e, i) => From(e, i)'
<1>1. UNCHANGED <<policy, stream, process>>
  BY DEF pluginVars
<1>2. \A a \in Callers : CallOK(a)'
  <2> SUFFICES ASSUME NEW a \in Callers PROVE CallOK(a)'
    OBVIOUS
  <2>1. CallOK(a)
    BY DEF Inv
  <2>2. Counted(a)' /\ Ran(a)' /\ Frozen(a)' /\ Saved(a)'
    BY <1>1, <2>1 DEF CallOK, Counted, Ran, Frozen, Saved
  <2>3. Checked(a)' /\ Accepted(a)'
    BY <1>1, <2>1 DEF CallOK, Checked, Accepted, Intact, RunOf
  <2> QED
    BY <2>2, <2>3 DEF CallOK
<1>3. OneWriter' /\ Held'
  BY DEF Inv, OneWriter, Held, Owner
<1>4. FilesInv'
  BY DEF Inv, FilesInv, From
<1>5. \A e : \A i \in 1 .. 6 : From(e, i) => From(e, i)'
  BY DEF From
<1> QED
  BY <1>2, <1>3, <1>4, <1>5

LEMMA RebuildKeeps ==
  ASSUME Inv, Rebuild \/ Upgrade
  PROVE  Inv'
<1>1. UNCHANGED <<pluginVars, dir, caller, loader, damage>>
  BY DEF Rebuild, Upgrade
<1>2. source' \in {1, 2} /\ tools' \in {"pinned", "changed"}
  BY DEF Rebuild, Upgrade, Inv, Typed
<1>3. Typed'
  BY <1>1, <1>2 DEF Inv, Typed, TypeOK, pluginVars
<1>4. LoaderInv'
  BY <1>1 DEF Inv, LoaderInv, From
<1> QED
  BY <1>1, <1>3, <1>4, CallsStay DEF Inv

LEMMA LoadOneKeeps ==
  ASSUME Inv, LoadOne
  PROVE  Inv'
<1>1. Typed /\ UNCHANGED <<pluginVars, source, tools, dir, caller, damage>>
  BY DEF Inv, LoadOne
<1>2. loader \in Seq(Evidence) /\ Len(loader) \in Nat /\ Len(loader) < 5
  <2>1. loader \in Seq(Evidence) /\ Len(loader) < 5
    BY <1>1 DEF Typed, LoadOne, Artifacts
  <2> QED
    BY <2>1
<1> PICK n \in 1 .. 5 : n = Len(loader) + 1
  <2>1. Len(loader) + 1 \in 1 .. 5
    BY <1>2
  <2> QED
    BY <2>1
<1>3. CASE loader' = <<>>
  <2>1. Typed' /\ LoaderInv'
    BY <1>1, <1>3 DEF Typed, TypeOK, pluginVars, LoaderInv, Artifacts
  <2> QED
    BY <1>1, <2>1, CallsStay DEF Inv
<1>4. CASE dir[Jsons[n]] \notin {Nothing, Torn} /\ loader' = Append(loader, dir[Jsons[n]])
  <2>1. dir[Jsons[n]] \in Evidence
    BY <1>1, <1>4 DEF Typed
  <2>2. loader' \in Seq(Evidence) /\ Len(loader') = n
    BY <1>2, <1>4, <2>1
  <2>3. Typed'
    BY <1>1, <2>2 DEF Typed, TypeOK, pluginVars, Artifacts
  <2>4. ASSUME NEW i \in DOMAIN loader'
        PROVE  From(loader[i], i)'
    <3>1. i \in 1 .. 5
      BY <2>2, <2>4
    <3>2. CASE i = n
      <4>1. loader'[i] = dir[Jsons[i]]
        BY <1>2, <1>4, <3>2
      <4>2. From(dir[Jsons[i]], i)
        BY <2>1, <3>1, <3>2 DEF Inv, FilesInv
      <4> QED
        BY <1>1, <3>1, <4>1, <4>2, CallsStay
    <3>3. CASE i # n
      <4>1. i \in DOMAIN loader /\ loader'[i] = loader[i]
        BY <1>2, <1>4, <2>2, <2>4, <3>3
      <4>2. From(loader[i], i)
        BY <4>1 DEF Inv, LoaderInv
      <4> QED
        BY <1>1, <3>1, <4>1, <4>2, CallsStay
    <3> QED
      BY <3>2, <3>3
  <2>5. LoaderInv'
    BY <2>4 DEF LoaderInv
  <2> QED
    BY <1>1, <2>3, <2>5, CallsStay DEF Inv
<1> QED
  BY <1>3, <1>4 DEF LoadOne

LEMMA LoadReplayKeeps ==
  ASSUME Inv, LoadReplay
  PROVE  Inv'
<1>1. Typed /\ loader' = <<>> /\ UNCHANGED <<pluginVars, source, tools, dir, caller, damage>>
  BY DEF Inv, LoadReplay
<1>2. Typed' /\ LoaderInv'
  BY <1>1 DEF Typed, TypeOK, pluginVars, LoaderInv, Artifacts
<1> QED
  BY <1>1, <1>2, CallsStay DEF Inv

\* What damage makes of an artifact is of the same run.
LEMMA AlteredStays ==
  ASSUME NEW e \in Evidence, e.events # <<>>
  PROVE  Altered(e) \in Evidence /\ Altered(e).run = e.run
<1>1. e.run \in Runs /\ e.events \in Seq(Events)
  BY DEF Evidence
<1>2. Tail(e.events) \in Seq(Events)
  BY <1>1
<1>3. Altered(e) = [e EXCEPT !.events = Tail(e.events)]
  BY DEF Altered
<1> QED
  BY <1>1, <1>2, <1>3 DEF Evidence

LEMMA FileDamageKeeps ==
  ASSUME Inv, NEW f \in Files, dir[f] \notin {Nothing, Torn},
         NEW content, dir' = [dir EXCEPT ![f] = content],
         content = Torn
           \/ (f \notin {"firmware", "plugin"} /\ dir[f].events # <<>> /\ content = Altered(dir[f])),
         damage' = damage + 1,
         UNCHANGED <<pluginVars, source, tools, caller, loader>>
  PROVE  Inv'
<1>1. Typed /\ UNCHANGED <<policy, stream, process>> /\ damage' \in Nat /\ damage' # 0
  BY DEF Inv, Typed, pluginVars
<1>2. ASSUME NEW i \in 1 .. 6
      PROVE  /\ dir'[Jsons[i]] \in Evidence \cup {Nothing, Torn}
             /\ dir'[Jsons[i]] \in Evidence =>
                  dir[Jsons[i]] \in Evidence /\ dir'[Jsons[i]].run = dir[Jsons[i]].run
  <2>1. dir[Jsons[i]] \in Evidence \cup {Nothing, Torn} /\ Jsons[i] \in Files
    BY <1>1, JsonNames DEF Typed
  <2>2. CASE f = Jsons[i]
    <3>1. dir[f] \in Evidence /\ dir'[Jsons[i]] = content
      BY <1>1, <2>1, <2>2 DEF Typed
    <3>2. CASE content = Torn
      BY <3>1, <3>2, NothingAssumption
    <3>3. CASE dir[f].events # <<>> /\ content = Altered(dir[f])
      BY <2>2, <3>1, <3>3, AlteredStays
    <3> QED
      BY <3>2, <3>3
  <2>3. CASE f # Jsons[i]
    BY <1>1, <2>1, <2>3 DEF Typed
  <2> QED
    BY <2>2, <2>3
<1>3. dir' = [g \in Files |-> dir'[g]]
  BY <1>1 DEF Typed
<1>4. Typed'
  BY <1>1, <1>2, <1>3 DEF Typed, TypeOK, pluginVars
<1>5. \A a \in Callers : CallOK(a)'
  <2> SUFFICES ASSUME NEW a \in Callers PROVE CallOK(a)'
    OBVIOUS
  <2>1. CallOK(a)
    BY DEF Inv
  <2>2. Counted(a)' /\ Ran(a)' /\ Frozen(a)' /\ Saved(a)'
    BY <1>1, <2>1 DEF CallOK, Counted, Ran, Frozen, Saved
  <2>3. Checked(a)' /\ Accepted(a)'
    BY <1>1, <2>1 DEF CallOK, Checked, Accepted, Intact, RunOf
  <2> QED
    BY <2>2, <2>3 DEF CallOK
<1>6. OneWriter'
  BY DEF Inv, OneWriter, Owner
<1>7. Held'
  <2>1. dir'["firmware"] = dir["firmware"] \/ dir'["firmware"] = Torn
    BY <1>1, JsonNames DEF Typed
  <2>2. Torn # Nothing
    BY NothingAssumption
  <2> QED
    BY <2>1, <2>2 DEF Inv, Held, Owner
<1>8. FilesInv'
  <2> SUFFICES ASSUME NEW i \in 1 .. 6, dir'[Jsons[i]] \in Evidence
               PROVE  From(dir[Jsons[i]], i)'
    BY DEF FilesInv
  <2>1. From(dir[Jsons[i]], i) /\ dir'[Jsons[i]].run = dir[Jsons[i]].run
    BY <1>2 DEF Inv, FilesInv
  <2> QED
    BY <2>1 DEF From
<1>9. LoaderInv'
  BY DEF Inv, LoaderInv, From
<1> QED
  BY <1>4, <1>5, <1>6, <1>7, <1>8, <1>9 DEF Inv

\* A stream that was accepted and damaged is incomplete, and stays so.
LEMMA StreamDamageKeeps ==
  ASSUME Inv, stream.events # <<>>,
         \/ stream' = [stream EXCEPT !.torn = TRUE]
         \/ stream' = [stream EXCEPT !.events = SubSeq(stream.events, 1, Len(stream.events) - 1)],
         damage' = damage + 1,
         UNCHANGED <<policy, targetSequence, process, source, tools, dir, caller, loader>>
  PROVE  Inv'
<1>1. Typed /\ damage' \in Nat /\ damage' # 0 /\ stream \in Streams
  BY DEF Inv, Typed, TypeOK
<1>2. stream.events \in Seq(Events) /\ Len(stream.events) \in Nat \ {0}
  BY <1>1 DEF Streams
<1>3. /\ stream' \in Streams /\ stream'.end = stream.end
      /\ (stream'.torn \/ Len(stream'.events) < Len(stream.events))
      /\ Len(stream'.events) <= Len(stream.events) /\ Len(stream'.events) \in Nat
      /\ (stream.torn => stream'.torn)
  <2>1. CASE stream' = [stream EXCEPT !.torn = TRUE]
    <3>1. /\ stream'.events = stream.events /\ stream'.torn = TRUE /\ stream'.end = stream.end
          /\ stream' \in Streams
      BY <1>1, <2>1 DEF Streams
    <3> QED
      BY <1>2, <3>1
  <2>2. CASE stream' = [stream EXCEPT !.events = SubSeq(stream.events, 1, Len(stream.events) - 1)]
    <3> DEFINE shorter == SubSeq(stream.events, 1, Len(stream.events) - 1)
    <3>1. shorter \in Seq(Events) /\ Len(shorter) = Len(stream.events) - 1
      BY <1>2
    <3> HIDE DEF shorter
    <3>2. stream' = [stream EXCEPT !.events = shorter]
      BY <2>2 DEF shorter
    <3>3. /\ stream'.events = shorter /\ stream'.torn = stream.torn /\ stream'.end = stream.end
          /\ stream' \in Streams
      BY <1>1, <3>1, <3>2 DEF Streams
    <3>4. Len(shorter) < Len(stream.events) /\ Len(shorter) \in Nat
      BY <1>2, <3>1
    <3> QED
      BY <3>3, <3>4
  <2> QED
    BY <2>1, <2>2
<1>4. Typed'
  BY <1>1, <1>3 DEF Typed, TypeOK
<1>5. ASSUME NEW raw, Parses(raw, policy), Intact(raw)
      PROVE  Intact(raw)'
  <2>1. stream = raw => stream.end # NoEnd /\ stream.end.count = Len(stream.events)
    BY <1>5 DEF Parses
  <2>2. stream.end # NoEnd => stream.end.count \in Nat
    BY <1>1 DEF Streams, Ends
  <2> QED
    BY <1>1, <1>2, <1>3, <1>5, <2>1, <2>2 DEF Intact
<1>6. \A a \in Callers : CallOK(a)'
  <2> SUFFICES ASSUME NEW a \in Callers PROVE CallOK(a)'
    OBVIOUS
  <2>1. CallOK(a)
    BY DEF Inv
  <2>2. Counted(a)' /\ Ran(a)' /\ Frozen(a)' /\ Saved(a)'
    BY <1>1, <2>1 DEF CallOK, Counted, Ran, Frozen, Saved
  <2>3. Checked(a)'
    BY <1>5, <2>1 DEF CallOK, Checked
  <2>4. Accepted(a)'
    BY <2>1 DEF CallOK, Accepted, RunOf
  <2> QED
    BY <2>2, <2>3, <2>4 DEF CallOK
<1>7. OneWriter' /\ Held'
  BY DEF Inv, OneWriter, Held, Owner
<1>8. FilesInv' /\ LoaderInv'
  BY DEF Inv, FilesInv, LoaderInv, From
<1> QED
  BY <1>4, <1>6, <1>7, <1>8 DEF Inv

LEMMA DamageKeeps ==
  ASSUME Inv, Damage
  PROVE  Inv'
<1>1. /\ damage' = damage + 1
      /\ UNCHANGED <<policy, targetSequence, process, source, tools, caller, loader>>
  BY DEF Damage
<1>2. ASSUME NEW f \in Files, dir[f] \notin {Nothing, Torn}, UNCHANGED stream,
             \/ dir' = [dir EXCEPT ![f] = Torn]
             \/ /\ f \notin {"firmware", "plugin"} /\ dir[f].events # <<>>
                /\ dir' = [dir EXCEPT ![f] = Altered(dir[f])]
      PROVE  Inv'
  <2>1. UNCHANGED pluginVars
    BY <1>1, <1>2 DEF pluginVars
  <2> QED
    BY <1>1, <1>2, <2>1, FileDamageKeeps
<1>3. CASE /\ stream.events # <<>>
           /\ \/ stream' = [stream EXCEPT !.torn = TRUE]
              \/ stream' = [stream EXCEPT !.events = SubSeq(stream.events, 1, Len(stream.events) - 1)]
           /\ UNCHANGED dir
  BY <1>1, <1>3, StreamDamageKeeps
<1> QED
  BY <1>2, <1>3 DEF Damage

-----------------------------------------------------------------------------
(* The invariant, and what follows from it.                                *)

LEMMA InitInv ==
  ASSUME AcquisitionInit
  PROVE  Inv
<1>1. /\ Empty \in Streams
      /\ Idle \in Calls /\ Idle.step = "idle" /\ Idle.written = 0
  <2>1. Empty \in Streams
    BY DEF Empty, Streams
  <2> QED
    BY <2>1 DEF Idle, Calls, Steps, Early
<1>2. TypeOK /\ policy \in Declared
  BY <1>1, DeclaredAssumption DEF AcquisitionInit, Init, TypeOK, Processes
<1>3. caller \in [Callers -> Calls] /\ \A a \in Callers : caller[a] = Idle
  BY <1>1 DEF AcquisitionInit
<1>4. dir = [f \in Files |-> dir[f]] /\ \A i \in 1 .. 6 : dir[Jsons[i]] = Nothing
  BY JsonNames DEF AcquisitionInit
<1>5. loader = <<>> /\ damage = 0 /\ source = 1 /\ tools = "pinned"
  BY DEF AcquisitionInit, Analysed
<1>6. Typed
  BY <1>2, <1>3, <1>4, <1>5 DEF Typed, Artifacts
<1>7. \A a \in Callers : CallOK(a) /\ ~Owner(a)
  <2>1. ~(0 > 0)
    OBVIOUS
  <2> QED
    BY <1>1, <1>3, <2>1
    DEF CallOK, Counted, Ran, Frozen, Checked, Accepted, Saved, Owner, Owning
<1>8. OneWriter /\ Held
  BY <1>7 DEF OneWriter, Held
<1>9. FilesInv /\ LoaderInv
  BY <1>4, <1>5, NothingAssumption DEF FilesInv, LoaderInv
<1> QED
  BY <1>6, <1>7, <1>8, <1>9 DEF Inv

LEMMA NextKeeps ==
  ASSUME Inv, [SystemNext]_vars
  PROVE  Inv'
<1>1. ASSUME NEW a \in Callers, Acquire(a)
      PROVE  Inv'
  <2>1. CASE Begin(a)
    <3>1. PICK s \in {"claim", "failed"} : Goto(a, s)
      BY <2>1 DEF Begin
    <3> QED
      BY <2>1, <3>1, FreeGoes DEF Begin
  <2> QED
    BY <1>1, <2>1, ClaimKeeps, FreezeKeeps, BuildKeeps, LaunchKeeps, QemuReturnsKeeps,
       CheckKeeps, MaterializeKeeps, WriteKeeps DEF Acquire
<1>2. CASE UNCHANGED vars
  <2>1. UNCHANGED <<pluginVars, source, tools, dir, caller, loader, damage>>
    BY <1>2 DEF vars
  <2>2. Typed' /\ LoaderInv'
    BY <2>1 DEF Inv, Typed, TypeOK, pluginVars, LoaderInv, From
  <2> QED
    BY <2>1, <2>2, CallsStay DEF Inv
<1> QED
  BY <1>1, <1>2, WatchdogKeeps, CrashKeeps, QemuKeeps, RebuildKeeps, DamageKeeps,
     LoadOneKeeps, LoadReplayKeeps DEF SystemNext

\* The invariant holds for any number of callers and any amount of damage.
THEOREM Invariance == SystemSpec => []Inv
<1>1. AcquisitionInit => Inv
  BY InitInv
<1>2. Inv /\ [SystemNext]_vars => Inv'
  BY NextKeeps
<1> QED
  BY <1>1, <1>2, PTL DEF SystemSpec

\* Of all callers that found the directory empty, one at most goes on to build, run and
\* write there: open("xb") on the firmware (acquire_raw) decides.
THEOREM OneOwnerHolds == SystemSpec => []OneOwner
<1>1. Inv => OneOwner
  BY DEF Inv, OneWriter, Owner, OneOwner
<1> QED
  BY <1>1, Invariance, PTL

\* When acquire_and_write has returned, and nothing was damaged or upgraded since, what
\* load_runtime_evidence reads is what its replay gives.
THEOREM DoneIsLoadableHolds == SystemSpec => []DoneIsLoadable
<1>1. ASSUME Inv
      PROVE  DoneIsLoadable
  <2> SUFFICES ASSUME NEW a \in Callers,
                      caller[a].step = "done", damage = 0, tools = "pinned"
               PROVE  LET e == Materialize(RunOf(a), stream, dir["firmware"])
                      IN  /\ e # Nothing /\ Provenance(e.run)
                          /\ \A i \in 1 .. Artifacts : dir[Jsons[i]] = e
    BY DEF DoneIsLoadable
  <2> DEFINE e == Materialize(RunOf(a), stream, dir["firmware"])
  <2>1. CallOK(a)
    BY <1>1 DEF Inv
  <2>2. stream = caller[a].raw
    BY <2>1 DEF CallOK, Checked, Intact
  <2>3. dir["firmware"] = caller[a].firmware /\ dir["plugin"] = caller[a].plugin
    BY <2>1 DEF CallOK, Frozen, Owning
  <2>4. caller[a].evidence = e /\ e # Nothing /\ caller[a].plugin = "pinned"
    BY <2>1, <2>2, <2>3 DEF CallOK, Accepted
  <2>5. e.run = RunOf(a)
    BY <2>4 DEF Materialize
  <2>6. Provenance(e.run)
    BY <2>3, <2>4, <2>5 DEF Provenance, RunOf
  <2>7. \A i \in 1 .. Artifacts : dir[Jsons[i]] = e
    BY <2>1, <2>4 DEF CallOK, Counted, Saved, Artifacts
  <2> QED
    BY <2>4, <2>6, <2>7
<1> QED
  BY <1>1, Invariance, PTL

-----------------------------------------------------------------------------
(* The refinement of EvidenceStore.                                        *)

\* The owner alone can have written all of it.
LEMMA ShownIsItsWriters ==
  ASSUME Inv, NEW a \in Callers, caller[a].written >= 5
  PROVE  Shown = caller[a].evidence
<1>1. ASSUME NEW b \in Callers, caller[b].written >= 5
      PROVE  b = a
  <2>1. caller[a].written \in 0 .. 6 /\ caller[b].written \in 0 .. 6
    BY DEF Inv, Typed, Calls
  <2>2. Owner(a) /\ Owner(b)
    BY <1>1, <2>1 DEF Owner
  <2> QED
    BY <2>2 DEF Inv, OneWriter
<1>2. (CHOOSE b \in Callers : caller[b].written >= 5) = a
  BY <1>1
<1> QED
  BY <1>2 DEF Shown, Artifacts

LEMMA ShownBecomesItsWriters ==
  ASSUME Inv', NEW a \in Callers, caller'[a].written >= 5
  PROVE  Shown' = caller'[a].evidence
<1>1. ASSUME NEW b \in Callers, caller'[b].written >= 5
      PROVE  b = a
  <2>1. caller'[a].written \in 0 .. 6 /\ caller'[b].written \in 0 .. 6
    BY DEF Inv, Typed, Calls
  <2>2. Owner(a)' /\ Owner(b)'
    BY <1>1, <2>1 DEF Owner
  <2> QED
    BY <2>2 DEF Inv, OneWriter
<1>2. (CHOOSE b \in Callers : caller'[b].written >= 5) = a
  BY <1>1
<1> QED
  BY <1>2 DEF Shown, Artifacts

LEMMA ShownIsNothing ==
  ASSUME \A a \in Callers : ~(caller[a].written >= 5)
  PROVE  Shown = Nothing
BY DEF Shown, Artifacts

LEMMA ShownStays ==
  ASSUME Inv, Inv',
         \A b \in Callers :
           /\ caller'[b].written >= 5 <=> caller[b].written >= 5
           /\ caller[b].written >= 5 => caller'[b].evidence = caller[b].evidence
  PROVE  Shown' = Shown
<1>1. CASE \A b \in Callers : ~(caller[b].written >= 5)
  <2>1. Shown = Nothing
    BY <1>1, ShownIsNothing
  <2>2. \A b \in Callers : ~(caller'[b].written >= 5)
    BY <1>1
  <2>3. Shown' = Nothing
    BY <2>2 DEF Shown, Artifacts
  <2> QED
    BY <2>1, <2>3
<1>2. ASSUME NEW b \in Callers, caller[b].written >= 5
      PROVE  Shown' = Shown
  <2>1. Shown = caller[b].evidence
    BY <1>2, ShownIsItsWriters
  <2>2. Shown' = caller'[b].evidence
    BY <1>2, ShownBecomesItsWriters
  <2> QED
    BY <1>2, <2>1, <2>2
<1> QED
  BY <1>1, <1>2

\* Only Write adds to what a caller has saved.
LEMMA OnlyWriteSaves ==
  ASSUME Inv, [SystemNext]_vars, \A a \in Callers : ~Write(a)
  PROVE  \A b \in Callers :
           /\ caller'[b].written = caller[b].written
           /\ caller[b].written > 0 => caller'[b].evidence = caller[b].evidence
<1> DEFINE Same == \A b \in Callers :
                     /\ caller'[b].written = caller[b].written
                     /\ caller[b].written > 0 => caller'[b].evidence = caller[b].evidence
<1>1. caller \in [Callers -> Calls]
  BY DEF Inv, Typed
<1>2. ASSUME NEW a \in Callers, NEW s, Goto(a, s)
      PROVE  Same
  BY <1>1, <1>2 DEF Goto, Calls
<1>3. ASSUME NEW a \in Callers, Claim(a) \/ Build(a) \/ Check(a)
      PROVE  Same
  BY <1>1, <1>3 DEF Claim, Build, Check, Goto, Calls
<1>4. ASSUME NEW a \in Callers, MaterializeRun(a)
      PROVE  Same
  <2>1. caller[a].written = 0
    BY <1>4 DEF MaterializeRun, Inv, CallOK, Counted, Early
  <2> QED
    BY <1>1, <1>4, <2>1 DEF MaterializeRun, Goto, Calls
<1>5. ASSUME NEW a \in Callers,
             Begin(a) \/ Freeze(a) \/ Launch(a) \/ QemuReturns(a) \/ Watchdog(a) \/ Crash(a)
      PROVE  Same
  <2>1. \E s : Goto(a, s)
    BY <1>5 DEF Begin, Freeze, Launch, QemuReturns, Watchdog, Crash
  <2> QED
    BY <1>2, <2>1
<1>6. CASE Qemu \/ Rebuild \/ Upgrade \/ Damage \/ LoadOne \/ LoadReplay \/ UNCHANGED vars
  <2>1. caller' = caller
    BY <1>6 DEF Qemu, Rebuild, Upgrade, Damage, LoadOne, LoadReplay, vars
  <2> QED
    BY <2>1
<1> QED
  BY <1>3, <1>4, <1>5, <1>6 DEF SystemNext, Acquire

\* What a caller accepts is genuine.
LEMMA AcceptedIsGenuine ==
  ASSUME Inv, NEW a \in Callers, caller[a].step = "write" \/ caller[a].written > 0
  PROVE  caller[a].evidence \in Genuine
<1> DEFINE e == caller[a].evidence
           raw == caller[a].raw
<1>1. /\ e = Materialize(RunOf(a), raw, caller[a].firmware) /\ e # Nothing
      /\ caller[a].plugin = "pinned"
  BY DEF Inv, CallOK, Accepted
<1>2. e \in Evidence /\ raw \in Streams
  BY <1>1 DEF Inv, Typed, Calls
<1> HIDE DEF e, raw
<1>3. /\ caller[a].firmware = Analysed /\ Parses(raw, policy)
      /\ FromFirmware(raw.events, caller[a].firmware)
      /\ e.run = RunOf(a) /\ e.events = raw.events
  BY <1>1 DEF Materialize, RunOf
<1>4. e.run.firmware = Analysed /\ e.run.plugin = "pinned" /\ e.run.policy = policy
  BY <1>1, <1>3 DEF RunOf
<1>5. \E t \in (0 .. Len(e.events)) \cup {NoTarget} : Window(t, e.events, e.run.policy)
  <2> DEFINE t == raw.end.target
  <2>1. Window(t, e.events, e.run.policy) /\ raw.end # NoEnd
    BY <1>3, <1>4 DEF Parses
  <2>2. t \in Nat \cup {NoTarget} /\ e.events \in Seq(Events)
    BY <1>2, <1>3, <2>1 DEF Streams, Ends
  <2> HIDE DEF t
  <2>3. t # NoTarget => t + 1 \in DOMAIN e.events
    BY <2>1 DEF Window, IsTargetSequence
  <2>4. t # NoTarget => t \in 0 .. Len(e.events)
    BY <2>2, <2>3
  <2> QED
    BY <2>1, <2>4
<1>6. /\ e.events[1].pc = Entry
      /\ \A n \in DOMAIN e.events : e.events[n].code = Analysed
  BY <1>3 DEF FromFirmware
<1> QED
  BY <1>2, <1>4, <1>5, <1>6 DEF Genuine, e

\* The fifth artifact publishes; the others change nothing that a load can see.
LEMMA WritePublishes ==
  ASSUME Inv, Inv', NEW a \in Callers, Write(a)
  PROVE  Store!Publish \/ UNCHANGED Store!storeVars
<1>1. /\ caller[a].step = "write" /\ caller \in [Callers -> Calls] /\ caller[a].written \in 0 .. 5
      /\ Owner(a) /\ returned' = returned
  BY DEF Write, Inv, Typed, Calls, CallOK, Counted, Owner, Owning
<1>2. \A b \in Callers \ {a} : caller'[b] = caller[b] /\ caller[b].written = 0
  BY <1>1, NotOwner DEF Write, Goto, Inv, OneWriter
<1>3. caller'[a].evidence = caller[a].evidence
  BY <1>1 DEF Write, Goto, Calls
<1>4. caller'[a].written = caller[a].written \/ caller'[a].written = caller[a].written + 1
  BY <1>1 DEF Write, Goto, Calls
<1>5. CASE caller'[a].written = 5 /\ caller[a].written = 4
  <2>1. Shown = Nothing
    BY <1>2, <1>5, ShownIsNothing
  <2>2. Shown' = caller[a].evidence
    <3>1. caller'[a].written >= 5
      BY <1>5
    <3>2. Shown' = caller'[a].evidence
      BY <3>1, ShownBecomesItsWriters
    <3> QED
      BY <1>3, <3>2
  <2>3. caller[a].evidence \in Genuine
    BY <1>1, AcceptedIsGenuine
  <2> QED
    BY <1>1, <2>1, <2>2, <2>3 DEF Store!Publish
<1>6. CASE ~(caller'[a].written = 5 /\ caller[a].written = 4)
  <2>1. caller'[a].written >= 5 <=> caller[a].written >= 5
    BY <1>1, <1>4, <1>6
  <2>2. Shown' = Shown
    BY <1>2, <1>3, <2>1, ShownStays
  <2> QED
    BY <1>1, <2>2 DEF Store!storeVars
<1> QED
  BY <1>5, <1>6

\* A load returns what the writer of the fifth artifact accepted: a stream of the same
\* run that parses is the one that was accepted.
LEMMA LoadReturnsShown ==
  ASSUME Inv, Inv', LoadReplay
  PROVE  Store!Return \/ UNCHANGED Store!storeVars
<1> DEFINE run == loader[1].run
           e   == Materialize(run, stream, dir["firmware"])
<1>1. caller' = caller /\ Len(loader) = 5 /\ DOMAIN loader = 1 .. 5
  BY DEF LoadReplay, Inv, Typed, Artifacts
<1>2. Shown' = Shown
  BY <1>1, ShownStays
<1>3. CASE returned' = returned
  BY <1>2, <1>3 DEF Store!storeVars
<1>4. CASE /\ e # Nothing /\ \A i \in DOMAIN loader : loader[i] = e
           /\ returned' = returned \cup {e}
  <2>1. loader[5] = e
    BY <1>1, <1>4
  <2>2. From(loader[5], 5)
    BY <1>1 DEF Inv, LoaderInv
  <2> PICK b \in Callers : caller[b].written >= 5 /\ e.run = caller[b].evidence.run
    BY <2>1, <2>2 DEF From
  <2> DEFINE raw == caller[b].raw
  <2>3. /\ caller[b].written > 0 /\ CallOK(b)
    <3>1. caller[b].written \in 0 .. 6
      BY DEF Inv, Typed, Calls
    <3> QED
      BY <3>1 DEF Inv
  <2>4. /\ Parses(raw, policy) /\ Intact(raw) /\ caller[b].evidence # Nothing
        /\ caller[b].evidence = Materialize(RunOf(b), raw, caller[b].firmware)
    BY <2>3 DEF CallOK, Checked, Accepted
  <2> HIDE DEF raw
  <2>5. caller[b].evidence = [run |-> RunOf(b), events |-> raw.events]
    BY <2>4 DEF Materialize
  <2>6. /\ e = [run |-> run, events |-> stream.events] /\ Parses(stream, run.policy)
    BY <1>4 DEF Materialize
  <2> HIDE DEF e, run
  <2>7. run = RunOf(b)
    BY <2>5, <2>6
  <2>8. stream = raw
    <3>1. /\ ~stream.torn /\ stream.end.count = Len(stream.events)
      BY <2>6 DEF Parses
    <3>2. Len(stream.events) \in Nat
      BY DEF Inv, Typed, TypeOK, Streams
    <3> QED
      BY <2>4, <3>1, <3>2 DEF Intact
  <2>9. e = caller[b].evidence
    BY <2>5, <2>6, <2>7, <2>8
  <2>10. Shown = e
    BY <2>9, ShownIsItsWriters
  <2> QED
    BY <1>2, <1>4, <2>10 DEF Store!Return
<1> QED
  BY <1>3, <1>4 DEF LoadReplay

LEMMA StepRefines ==
  ASSUME Inv, Inv', [SystemNext]_vars
  PROVE  [Store!Next]_(Store!storeVars)
<1>1. CASE \E a \in Callers : Write(a)
  BY <1>1, WritePublishes DEF Store!Next
<1>2. CASE LoadReplay
  BY <1>2, LoadReturnsShown DEF Store!Next
<1>3. CASE ~LoadReplay /\ \A a \in Callers : ~Write(a)
  <2>1. \A b \in Callers :
          /\ caller'[b].written = caller[b].written
          /\ caller[b].written > 0 => caller'[b].evidence = caller[b].evidence
    BY <1>3, OnlyWriteSaves
  <2>2. \A b \in Callers : caller[b].written >= 5 => caller[b].written > 0
    <3>1. \A b \in Callers : caller[b].written \in 0 .. 6
      BY DEF Inv, Typed, Calls
    <3> QED
      BY <3>1
  <2>3. Shown' = Shown
    BY <2>1, <2>2, ShownStays
  <2>4. returned' = returned
    BY <1>3 DEF SystemNext, Acquire, Begin, Claim, Freeze, Build, Launch, QemuReturns, Check,
       MaterializeRun, Watchdog, Crash, Qemu, Rebuild, Upgrade, Damage, LoadOne, vars
  <2> QED
    BY <2>3, <2>4 DEF Store!storeVars
<1> QED
  BY <1>1, <1>2, <1>3

\* Whatever crashes, times out, is rebuilt, damaged or written at the same time,
\* load_runtime_evidence returns nothing, or what one acquisition accepted, and only once
\* that acquisition has written all that is read.
THEOREM ImplementsStoreHolds == SystemSpec => ImplementsStore
<1>1. AcquisitionInit => Store!Init
  <2> SUFFICES ASSUME AcquisitionInit PROVE Store!Init
    OBVIOUS
  <2>1. \A a \in Callers : caller[a].written = 0
    BY DEF AcquisitionInit, Idle
  <2>2. Shown = Nothing
    BY <2>1, ShownIsNothing
  <2> QED
    BY <2>2 DEF AcquisitionInit, Store!Init
<1>2. Inv /\ Inv' /\ [SystemNext]_vars => [Store!Next]_(Store!storeVars)
  BY StepRefines
<1> QED
  BY <1>1, <1>2, Invariance, PTL DEF SystemSpec, ImplementsStore, Store!Spec
=============================================================================
