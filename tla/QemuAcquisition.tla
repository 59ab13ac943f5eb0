-------------------------- MODULE QemuAcquisition --------------------------
(***************************************************************************)
(* acquire_and_write, acquire_raw and load_runtime_evidence around one     *)
(* output directory: several callers may choose it, any of them may crash  *)
(* between two steps, the watchdog races QEMU, the firmware and the tools  *)
(* may be rebuilt meanwhile, a file may be damaged, and a loader reads one *)
(* file after another while a caller is still writing.                     *)
(*                                                                         *)
(* TracePlugin is the QEMU process; `stream` is raw-events.jsonl.          *)
(***************************************************************************)
EXTENDS TracePlugin, FiniteSets

CONSTANTS
  Callers,     \* those who acquire into the directory
  Entry,       \* the entry point of the firmware
  Nothing,     \* no evidence, no file
  Torn,        \* a file that is cut short or damaged
  MaxDamage    \* bound: damaged files

VARIABLES
  source,      \* the version of the firmware at the caller's path
  tools,       \* the QEMU binary and the plugin sources in the repository
  dir,         \* the directory, without the raw stream
  caller,      \* the state of each call of acquire_and_write
  loader,      \* the artifacts that load_runtime_evidence has read so far
  returned,    \* the evidence that loads have returned
  damage       \* the number of damaged files

vars == <<pluginVars, source, tools, dir, caller, loader, returned, damage>>

\* The version that the static analysis is about.
Analysed == 1

\* Codes: the bytes are those of a version of the firmware, or 0 when the
\* firmware has modified itself.
Patched == 0

Jsons == <<"run", "events", "semantics", "bindings", "capabilities", "report">>

\* The report that comes last is not read again.
Artifacts == 5

Files == {"firmware", "plugin"} \cup {Jsons[i] : i \in DOMAIN Jsons}

\* The steps of a caller: idle, claim, freeze, build, launch, run, check,
\* materialize, write, and these.
Ended == {"done", "failed", "crashed"}

-----------------------------------------------------------------------------
(* Replay: a run descriptor is [firmware, plugin, policy].                  *)

\* verify_event_source and the same checks of materialize_runtime.
FromFirmware(events, firmware) ==
  /\ events[1].pc = Entry
  /\ \A n \in DOMAIN events : events[n].code = firmware

\* materialize_runtime: what a stream shows of a run, if it is admitted.
Materialize(run, s, firmware) ==
  IF /\ firmware = Analysed /\ run.firmware = firmware
     /\ Parses(s, run.policy) /\ FromFirmware(s.events, firmware)
  THEN [run |-> run, events |-> s.events]
  ELSE Nothing

Runs == [firmware : {1, 2}, plugin : {"pinned", "changed"}, policy : Declared]

Evidence == [run : Runs, events : Seq(Events)]

ASSUME NothingAssumption ==
  /\ Nothing \notin {0, 1, 2} \cup Evidence
  /\ Torn \notin {0, 1, 2, Nothing} \cup Evidence

\* Evidence that is true of the analysed firmware and of the pinned tools.
Genuine ==
  {e \in Evidence :
     /\ e.run.firmware = Analysed /\ e.run.plugin = "pinned"
     /\ \E t \in (0 .. Len(e.events)) \cup {NoTarget} : Window(t, e.events, e.run.policy)
     /\ e.events[1].pc = Entry
     /\ \A n \in DOMAIN e.events : e.events[n].code = Analysed}

-----------------------------------------------------------------------------
Idle == [step |-> "idle", firmware |-> 0, plugin |-> "pinned", raw |-> Empty,
         evidence |-> Nothing, written |-> 0]

AcquisitionInit ==
  /\ Init
  /\ source = Analysed /\ tools = "pinned"
  /\ dir = [f \in Files |-> Nothing]
  /\ caller = [a \in Callers |-> Idle]
  /\ loader = <<>> /\ returned = {} /\ damage = 0

RawExists == process # "start"

DirectoryEmpty == ~RawExists /\ \A f \in Files : dir[f] = Nothing

Goto(a, step) == caller' = [caller EXCEPT ![a].step = step]

\* acquire_and_write up to acquire_raw: the first look at the firmware, and at
\* the directory.
Begin(a) ==
  /\ caller[a].step = "idle"
  /\ Goto(a, IF source = Analysed /\ DirectoryEmpty THEN "claim" ELSE "failed")
  /\ UNCHANGED <<pluginVars, source, tools, dir, loader, returned, damage>>

\* acquire_raw reads the firmware again, checks the executable against the
\* manifest, and refuses files that are there.
Claim(a) ==
  /\ caller[a].step = "claim"
  /\ caller' = [caller EXCEPT ![a].firmware = source,
                  ![a].step = IF /\ CanonicalPolicy(policy) /\ tools = "pinned"
                                 /\ ~RawExists
                                 /\ dir["firmware"] = Nothing /\ dir["plugin"] = Nothing
                              THEN "freeze" ELSE "failed"]
  /\ UNCHANGED <<pluginVars, source, tools, dir, loader, returned, damage>>

\* Mutant of Freeze: the file is opened with "wb".
Freeze_Overwrite(a) ==
  /\ caller[a].step = "freeze"
  /\ dir' = [dir EXCEPT !["firmware"] = caller[a].firmware]
  /\ Goto(a, "build")
  /\ UNCHANGED <<pluginVars, source, tools, loader, returned, damage>>

\* open("xb"): of two callers that both found the directory empty, one goes on.
Freeze(a) ==
  /\ caller[a].step = "freeze"
  /\ IF dir["firmware"] = Nothing
     THEN dir' = [dir EXCEPT !["firmware"] = caller[a].firmware] /\ Goto(a, "build")
     ELSE UNCHANGED dir /\ Goto(a, "failed")
  /\ UNCHANGED <<pluginVars, source, tools, loader, returned, damage>>

\* build_plugin.  Its inputs are hashed before and after the compiler ran.
Build(a) ==
  /\ caller[a].step = "build"
  /\ IF dir["plugin"] = Nothing
     THEN /\ dir' = [dir EXCEPT !["plugin"] = tools]
          /\ caller' = [caller EXCEPT ![a].plugin = tools, ![a].step = "launch"]
     ELSE UNCHANGED dir /\ Goto(a, "failed")
  /\ UNCHANGED <<pluginVars, source, tools, loader, returned, damage>>

\* QEMU starts and loads the plugin, which creates the raw stream.
Launch(a) ==
  /\ caller[a].step = "launch"
  /\ IF RawExists
     THEN UNCHANGED pluginVars /\ Goto(a, "failed")
     ELSE Install /\ Goto(a, "run")
  /\ UNCHANGED <<source, tools, dir, loader, returned, damage>>

\* subprocess.run returns.
QemuReturns(a) ==
  /\ caller[a].step = "run"
  /\ process \in {"stopped", "quit", "failed", "killed"}
  /\ Goto(a, IF process \in {"stopped", "quit"} THEN "check" ELSE "failed")
  /\ UNCHANGED <<pluginVars, source, tools, dir, loader, returned, damage>>

\* Mutant of Watchdog: no timeout is given.
Watchdog_None(a) ==
  /\ caller[a].step = "run"
  /\ process \in {"stopped", "quit"} /\ UNCHANGED pluginVars
  /\ Goto(a, "failed")
  /\ UNCHANGED <<source, tools, dir, loader, returned, damage>>

\* TimeoutExpired: QEMU is killed, unless it has just ended by itself.
Watchdog(a) ==
  /\ caller[a].step = "run"
  /\ \/ Killed
     \/ process \in {"stopped", "quit"} /\ UNCHANGED pluginVars
  /\ Goto(a, "failed")
  /\ UNCHANGED <<source, tools, dir, loader, returned, damage>>

RunOf(a) ==
  [firmware |-> caller[a].firmware, plugin |-> caller[a].plugin, policy |-> policy]

\* After the run: the inputs are what they were, and the stream is theirs.
Check(a) ==
  /\ caller[a].step = "check"
  /\ IF /\ tools = "pinned"
        /\ dir["plugin"] = caller[a].plugin /\ dir["firmware"] = caller[a].firmware
        /\ Parses(stream, policy) /\ FromFirmware(stream.events, caller[a].firmware)
     THEN caller' = [caller EXCEPT ![a].raw = stream, ![a].step = "materialize"]
     ELSE Goto(a, "failed")
  /\ UNCHANGED <<pluginVars, source, tools, dir, loader, returned, damage>>

\* validate_tool_provenance.  One value stands for the digest of QEMU (acquisition.py:193,
\* 284) and for that of the plugin's source (artifacts.py:74): an upgrade changes both.
Provenance(run) == tools = "pinned" /\ run.plugin = "pinned" /\ dir["plugin"] = run.plugin

\* Provenance and replay, before anything is written.
MaterializeRun(a) ==
  /\ caller[a].step = "materialize"
  /\ LET e == Materialize(RunOf(a), caller[a].raw, caller[a].firmware)
     IN  IF Provenance(RunOf(a)) /\ e # Nothing
         THEN caller' = [caller EXCEPT ![a].evidence = e, ![a].step = "write"]
         ELSE Goto(a, "failed")
  /\ UNCHANGED <<pluginVars, source, tools, dir, loader, returned, damage>>

\* Mutant of Write: the last artifact is forgotten.
Write_OneShort(a) ==
  /\ caller[a].step = "write"
  /\ LET n == caller[a].written + 1
     IN  /\ dir' = [dir EXCEPT ![Jsons[n]] = caller[a].evidence]
         /\ caller' = [caller EXCEPT ![a].written = n,
                         ![a].step = IF n = Artifacts - 1 THEN "done" ELSE "write"]
  /\ UNCHANGED <<pluginVars, source, tools, loader, returned, damage>>

\* write_runtime_evidence: the next artifact, created with open("x").
Write(a) ==
  /\ caller[a].step = "write"
  /\ LET n == caller[a].written + 1
     IN  IF dir[Jsons[n]] = Nothing
         THEN /\ dir' = [dir EXCEPT ![Jsons[n]] = caller[a].evidence]
              /\ caller' = [caller EXCEPT ![a].written = n,
                              ![a].step = IF n = Len(Jsons) THEN "done" ELSE "write"]
         ELSE UNCHANGED dir /\ Goto(a, "failed")
  /\ UNCHANGED <<pluginVars, source, tools, loader, returned, damage>>

Acquire(a) ==
  \/ Begin(a) \/ Claim(a) \/ Freeze(a) \/ Build(a) \/ Launch(a) \/ QemuReturns(a)
  \/ Check(a) \/ MaterializeRun(a) \/ Write(a)

-----------------------------------------------------------------------------
\* The file that a caller would write next.
NextFile(a) ==
  CASE caller[a].step = "freeze" -> {"firmware"}
    [] caller[a].step = "build"  -> {"plugin"}
    [] caller[a].step = "write"  -> {Jsons[caller[a].written + 1]}
    [] OTHER -> {}

\* The caller dies, perhaps inside a write; QEMU, once started, goes on.
Crash(a) ==
  /\ caller[a].step \notin Ended \cup {"idle"}
  /\ Goto(a, "crashed")
  /\ \/ UNCHANGED dir
     \/ \E f \in NextFile(a) : dir[f] = Nothing /\ dir' = [dir EXCEPT ![f] = Torn]
  /\ UNCHANGED <<pluginVars, source, tools, loader, returned, damage>>

\* QEMU executes the firmware that is in the directory.
Qemu ==
  /\ \/ \E pc \in Pc, code \in {dir["firmware"], Patched} \cap Codes : Observe(pc, code)
     \/ Exit \/ GuestQuits \/ WriteFails
  /\ UNCHANGED <<source, tools, dir, caller, loader, returned, damage>>

\* The firmware is rebuilt at the caller's path, once.
Rebuild ==
  /\ source = Analysed /\ source' = 2
  /\ UNCHANGED <<pluginVars, tools, dir, caller, loader, returned, damage>>

\* The repository moves to other tools, once, and stays there.
Upgrade ==
  /\ tools = "pinned" /\ tools' = "changed"
  /\ UNCHANGED <<pluginVars, source, dir, caller, loader, returned, damage>>

\* An artifact with another content, well formed.
Altered(e) == [e EXCEPT !.events = Tail(@)]

\* A file of the directory is damaged: cut short, or without one of its events.
Damage ==
  /\ damage < MaxDamage
  /\ damage' = damage + 1
  /\ \/ /\ \E f \in Files :
             /\ dir[f] \notin {Nothing, Torn}
             /\ \/ dir' = [dir EXCEPT ![f] = Torn]
                \/ /\ f \notin {"firmware", "plugin"} /\ dir[f].events # <<>>
                   /\ dir' = [dir EXCEPT ![f] = Altered(@)]
        /\ UNCHANGED stream
     \/ /\ process \notin {"start", "running", "finishing"} /\ stream.events # <<>>
        /\ \/ stream' = [stream EXCEPT !.torn = TRUE]
           \/ stream' = [stream EXCEPT !.events = SubSeq(@, 1, Len(@) - 1)]
        /\ UNCHANGED dir
  /\ UNCHANGED <<policy, targetSequence, process, source, tools, caller, loader, returned>>

-----------------------------------------------------------------------------
\* load_runtime_evidence: the artifacts one by one, then the replay.
LoadOne ==
  /\ Len(loader) < Artifacts
  /\ LET content == dir[Jsons[Len(loader) + 1]]
     IN  loader' = IF content \in {Nothing, Torn} THEN <<>> ELSE Append(loader, content)
  /\ UNCHANGED <<pluginVars, source, tools, dir, caller, returned, damage>>

\* Mutant of LoadReplay: what was saved is returned as it is.
LoadReplay_Saved ==
  /\ Len(loader) = Artifacts
  /\ returned' = returned \cup {loader[1]}
  /\ loader' = <<>>
  /\ UNCHANGED <<pluginVars, source, tools, dir, caller, damage>>

LoadReplay ==
  /\ Len(loader) = Artifacts
  /\ LET run == loader[1].run
         e   == Materialize(run, stream, dir["firmware"])
     IN  returned' = IF Provenance(run) /\ e # Nothing
                        /\ \A i \in DOMAIN loader : loader[i] = e
                     THEN returned \cup {e} ELSE returned
  /\ loader' = <<>>
  /\ UNCHANGED <<pluginVars, source, tools, dir, caller, damage>>

SystemNext ==
  \/ \E a \in Callers : Acquire(a) \/ Watchdog(a) \/ Crash(a)
  \/ Qemu \/ Rebuild \/ Upgrade \/ Damage \/ LoadOne \/ LoadReplay

\* A caller that is not killed goes on; subprocess.run returns in time.
Fairness == \A a \in Callers : WF_vars(Acquire(a)) /\ WF_vars(Watchdog(a))

SystemSpec == AcquisitionInit /\ [][SystemNext]_vars /\ Fairness

-----------------------------------------------------------------------------
Owning == {"build", "launch", "run", "check", "materialize", "write", "done"}

\* The directory has one owner: of the callers that all found it empty, one at
\* most builds, runs and writes there, so its files never stem from two runs.
OneOwner ==
  \A a, b \in Callers :
    caller[a].step \in Owning /\ caller[b].step \in Owning => a = b

\* Success means evidence that can be used: when acquire_and_write returns, and
\* until a file is damaged or the tools move on, the saved artifacts are what a
\* replay of the saved inputs gives, even if the firmware was rebuilt meanwhile.
DoneIsLoadable ==
  \A a \in Callers :
    caller[a].step = "done" /\ damage = 0 /\ tools = "pinned" =>
      LET e == Materialize(RunOf(a), stream, dir["firmware"])
      IN  /\ e # Nothing /\ Provenance(e.run)
          /\ \A i \in 1 .. Artifacts : dir[Jsons[i]] = e

\* What the directory shows: the evidence of the caller that wrote all of it.
Shown ==
  IF \E a \in Callers : caller[a].written >= Artifacts
  THEN caller[CHOOSE a \in Callers : caller[a].written >= Artifacts].evidence
  ELSE Nothing

Store == INSTANCE EvidenceStore WITH shown <- Shown

\* The directory is an evidence store: whatever crashes, times out, is rebuilt,
\* damaged or written at the same time, loads return nothing or one and the same
\* genuine evidence, and only after all of it was written.
ImplementsStore == Store!Spec

\* Every acquisition that was begun comes to an end, even when the firmware
\* hangs and QEMU calls nothing back: the watchdog ends it.
AcquisitionEnds ==
  \A a \in Callers : caller[a].step # "idle" ~> caller[a].step \in Ended
=============================================================================
