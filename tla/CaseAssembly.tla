--------------------------- MODULE CaseAssembly ---------------------------
(***************************************************************************)
(* The public commands that hand files to each other: `firmware analyze`   *)
(* (firmware/report.py) and `processorfuzz analyze` fill a directory each, *)
(* file by file, after minutes of Ghidra; `type2 prepare`                  *)
(* (cross_layer/case_assembly.py) reads both directories, file by file,    *)
(* checks that the files agree, reads three of them again and writes a     *)
(* case.  No command locks a directory.  Several analyses may be told to   *)
(* use one directory, any of them may be killed, and the preparation may   *)
(* run at any time.                                                        *)
(***************************************************************************)
EXTENDS ProcessorFuzzPackage

CONSTANTS
  Torn,        \* a file that is not the whole of what one command wrote
  Scenarios    \* which commands run, and what there is when they start

ASSUME AbsenceAssumption == Torn # None

Sides == {"firmware", "hardware"}

FirmwareFiles == <<"analysis", "firmware-summary", "export">>

VARIABLES
  dir,      \* the two directories: side -> file -> content
  run,      \* the analyses: task, step and the next file to write
  prepare,  \* the preparation: step, next read, what it read
  runtime,  \* the evidence given with --runtime, or None
  outputBusy,  \* is there something in the case directory already?
  steady    \* the preparation began on finished results that nobody is writing

caseVars == <<dir, run, prepare, runtime, outputBusy, steady>>

(* What a task writes under a name, and the names in the order of writing. *)
Result(task, name) ==
  IF task.side = "hardware" THEN Content(task, name)
  ELSE CASE name \in {"analysis", "firmware-summary"} -> task.elf
         [] name = "export" -> CodeOf[task.elf]
         [] OTHER -> None

Order(task) ==
  IF task.side = "firmware" THEN FirmwareFiles
  ELSE SelectSeq(Files, LAMBDA name : Content(task, name) # None)

(* What the scenarios may contain: firmware that Ghidra has facts of,       *)
(* traces that are sequences, no analysis beyond its refusals that would   *)
(* have been refused; and what a command writes is a text, neither absent  *)
(* nor torn, but for the traces that a delivery does not have.             *)
IsTrace(t) == t = None \/ t \in Seq(Keys(t))

Analysable(task) == task.side = "hardware" => Accepted(task)

Writable(task) ==
  \A name \in FileNames :
    /\ Result(task, name) # Torn
    /\ Result(task, name) = None =>
         IF task.side = "hardware" THEN name \in {"rtl", "isa"} /\ ~HasTrace(task.package)
         ELSE name \notin {FirmwareFiles[i] : i \in DOMAIN FirmwareFiles}

ASSUME ScenariosAssumption ==
  \A s \in Scenarios :
    /\ s.outputBusy \in BOOLEAN
    /\ s.finished \cup s.started \subseteq DOMAIN s.tasks
    /\ \A r \in s.finished \cup s.started : Analysable(s.tasks[r])
    /\ \A r \in DOMAIN s.tasks :
         LET task == s.tasks[r] IN
         /\ task.side \in Sides
         /\ IF task.side = "firmware" THEN task.elf \in Elfs
            ELSE IsTrace(task.package.rtl_trace) /\ IsTrace(task.package.isa_csv)
         /\ Analysable(task) => Writable(task)

Results(task) == [name \in FileNames |-> Result(task, name)]
EmptyDir      == [name \in FileNames |-> None]

Current(r) == Order(run[r].task)[run[r].next]
Writing(side, name) ==
  {r \in DOMAIN run : /\ run[r].step = "writing"
                      /\ run[r].task.side = side
                      /\ Current(r) = name}
-----------------------------------------------------------------------------
(* The analyses.  processorfuzz analyze refuses a delivery it cannot       *)
(* select from and a directory that holds anything; firmware analyze       *)
(* refuses nothing.                                                        *)
Refuses(task) ==
  /\ task.side = "hardware"
  /\ ~Accepted(task) \/ dir["hardware"] # EmptyDir

StartRun(r) ==
  /\ run[r].step = "waiting"
  /\ run' = [run EXCEPT ![r].step = IF Refuses(run[r].task) THEN "failed" ELSE "analysing"]
  /\ UNCHANGED <<dir, prepare, runtime, outputBusy, steady>>

(* Ghidra and the parsers, then either an error or the first write. *)
Analysed(r) ==
  /\ run[r].step = "analysing"
  /\ \E step \in {"failed", "writing"} :
       /\ run' = [run EXCEPT ![r].step = step]
       /\ steady' = (steady /\ step = "failed")
  /\ UNCHANGED <<dir, prepare, runtime, outputBusy>>

Last(r)       == run[r].next = Len(Order(run[r].task))

(* write_text truncates and writes; two commands at the same file may      *)
(* leave neither's text.                                                   *)
Write(r) ==
  /\ run[r].step = "writing"
  /\ LET task == run[r].task name == Current(r) IN
     /\ \E text \in {Result(task, name)}
                      \cup (IF Writing(task.side, name) = {r} THEN {} ELSE {Torn}) :
          dir' = [dir EXCEPT ![task.side][name] = text]
     /\ run' = [run EXCEPT ![r].next = @ + 1,
                           ![r].step = IF Last(r) THEN "done" ELSE @]
  /\ steady' = FALSE
  /\ UNCHANGED <<prepare, runtime, outputBusy>>

KillRun(r) ==
  /\ run[r].step \in {"analysing", "writing"}
  /\ run' = [run EXCEPT ![r].step = "killed"]
  /\ \/ dir' = dir
     \/ /\ run[r].step = "writing"
        /\ dir' = [dir EXCEPT ![run[r].task.side][Current(r)] = Torn]
  /\ steady' = (steady /\ run[r].step = "analysing")
  /\ UNCHANGED <<prepare, runtime, outputBusy>>
-----------------------------------------------------------------------------
(* The preparation.  The files it reads and checks, then the ones it reads *)
(* again without checking them.                                            *)
Validated ==
  <<<<"firmware", "analysis">>, <<"firmware", "firmware-summary">>, <<"firmware", "export">>,
    <<"hardware", "si">>, <<"hardware", "analysis">>, <<"hardware", "firmware-summary">>,
    <<"hardware", "export">>, <<"hardware", "manifest">>, <<"hardware", "summary">>,
    <<"hardware", "capabilities">>, <<"hardware", "resources">>,
    <<"hardware", "candidates">>, <<"hardware", "differential">>,
    <<"hardware", "rtl">>, <<"hardware", "isa">>>>

ReadAgain == <<"differential", "rtl", "isa", "differential">>

NoRead == [side \in Sides |-> EmptyDir]

HardwareHasTrace == prepare.read["hardware"]["manifest"].rtl_trace # None

(* _analysis and firmware_summary. *)
OneAnalysis(files, name) ==
  CASE name = "firmware-summary" -> files["firmware-summary"] = files["analysis"]
    [] name = "export" -> files["export"] = CodeOf[files["analysis"]]
    [] OTHER -> TRUE

(* A trace against the manifest and the summary. *)
TraceAgrees(trace, m, digest, count, coverage) ==
  /\ trace.source = [si |-> m.si, elf |-> m.elf,
                     rtl_trace |-> m.rtl_trace, isa_csv |-> m.isa_csv]
  /\ trace.trace = digest
  /\ Len(trace.trace) = count
  /\ trace.coverage = coverage

(* A variant of HardwareAgrees in which the comparison of the signatures   *)
(* and the traces are not checked against the manifest.                    *)
HardwareAgrees_ManifestOnly(files, name) ==
  LET m == files["manifest"] s == files["summary"] IN
  CASE name = "manifest" -> m.si = files["si"] /\ m.elf = files["analysis"]
    [] name = "summary"  -> s.firmware = files["analysis"] /\ s.manifest = m
                            /\ s.traced = (m.rtl_trace # None)
    [] OTHER -> TRUE

(* The check made when a file of the hardware directory has been read:     *)
(* _manifest and _hardware.                                                *)
HardwareAgrees(files, name) ==
  LET elf == files["analysis"] m == files["manifest"] s == files["summary"] IN
  CASE name = "manifest" -> m.si = files["si"] /\ m.elf = elf
    [] name = "summary" ->
         /\ s.firmware = elf
         /\ s.manifest = m
         /\ s.traced = (m.rtl_trace # None)
    [] name = "capabilities" -> files[name] = [analysis |-> elf, facts |-> FactsOf[elf]]
    [] name = "resources"    -> files[name] = Hints(elf)
    [] name = "differential" ->
         LET d == files["differential"] IN
         /\ d.rtl = m.rtl_signature
         /\ d.isa = m.isa_signature
         /\ d.status = s.status
         /\ d.same_execution = m.same_execution
         /\ Cardinality(d.different) = s.differing
    [] name = "rtl" /\ m.rtl_trace # None ->
         TraceAgrees(files["rtl"], m, m.rtl_trace, s.rtl, m.rtl_to_elf)
    [] name = "isa" /\ m.rtl_trace # None ->
         TraceAgrees(files["isa"], m, m.isa_csv, s.isa, m.isa_to_elf)
    [] OTHER -> OneAnalysis(files, name)

Agrees(side, files, name) ==
  IF side = "firmware" THEN OneAnalysis(files, name) ELSE HardwareAgrees(files, name)

(* A delivery without traces must have left no trace file. *)
MustBeAbsent(name) == name \in {"rtl", "isa"} /\ ~HardwareHasTrace

Fit(side, name) ==
  LET text == dir[side][name] IN
  IF side = "hardware" /\ MustBeAbsent(name) THEN text = None
  ELSE /\ text \notin {None, Torn}
       /\ Agrees(side, [prepare.read[side] EXCEPT ![name] = text], name)

Reject ==
  /\ prepare' = [prepare EXCEPT !.step = "rejected"]
  /\ UNCHANGED <<dir, run, runtime, outputBusy, steady>>

Begin ==
  /\ prepare.step = "waiting"
  /\ prepare' = [prepare EXCEPT !.step = "validating"]
  /\ steady' = /\ \A q \in DOMAIN run : run[q].step # "writing"
               /\ \A side \in Sides :
                    \E r \in DOMAIN run : /\ run[r].step = "done"
                                          /\ run[r].task.side = side
                                          /\ dir[side] = Results(run[r].task)
  /\ UNCHANGED <<dir, run, runtime, outputBusy>>

Validate ==
  /\ prepare.step = "validating"
  /\ LET side == Validated[prepare.next][1] name == Validated[prepare.next][2] IN
     \/ /\ Fit(side, name)
        /\ prepare' = [prepare EXCEPT
                         !.read[side][name] = dir[side][name],
                         !.next = IF @ = Len(Validated) THEN 1 ELSE @ + 1,
                         !.step = IF prepare.next = Len(Validated) THEN "reading_again" ELSE @]
        /\ UNCHANGED <<dir, run, runtime, outputBusy, steady>>
     \/ /\ ~Fit(side, name) \/ Writing(side, name) # {}
        /\ Reject

(* prepare_case opens the differential twice more and, when there are      *)
(* traces, both of them once more.                                         *)
Reread ==
  /\ prepare.step = "reading_again"
  /\ LET name == ReadAgain[prepare.next] text == dir["hardware"][name] IN
     \/ /\ MustBeAbsent(name) \/ text \notin {None, Torn}
        /\ prepare' = [prepare EXCEPT
                         !.again[prepare.next] = IF MustBeAbsent(name) THEN None ELSE text,
                         !.next = IF @ = Len(ReadAgain) THEN 1 ELSE @ + 1,
                         !.step = IF prepare.next = Len(ReadAgain) THEN "projecting" ELSE @]
        /\ UNCHANGED <<dir, run, runtime, outputBusy, steady>>
     \/ /\ ~MustBeAbsent(name)
        /\ text \in {None, Torn} \/ Writing("hardware", name) # {}
        /\ Reject
-----------------------------------------------------------------------------
(* _candidate_relations: the supported firmware facts of a kind that the   *)
(* hardware package's test ELF has too.                                    *)
RelatedKinds == {f.kind : f \in prepare.read["hardware"]["capabilities"].facts}
RelatedFacts == {f \in FactsOf[prepare.read["firmware"]["analysis"]] : f.kind \in RelatedKinds}

(* build_runtime_projection. *)
(* A variant of AllSupported that forgets bool(rows).                      *)
AllSupported_Vacuous(evidence) == RelatedFacts \subseteq evidence.observed

AllSupported(evidence) ==
  RelatedFacts # {} /\ RelatedFacts \subseteq evidence.observed

KindStatus(evidence, kind) ==
  LET facts == {f \in RelatedFacts : f.kind = kind} IN
  IF facts # {} /\ facts \subseteq evidence.observed THEN "SUPPORTED" ELSE "UNKNOWN"

Projection(evidence) ==
  [requirement |-> IF AllSupported(evidence) THEN "SATISFIED_FOR_DECLARED_SCOPE" ELSE "MISSING",
   kinds |-> [k \in RelatedKinds |-> KindStatus(evidence, k)]]

(* load_runtime_evidence replays the evidence against the analysis it has  *)
(* just been given.                                                        *)
Project ==
  /\ prepare.step = "projecting"
  /\ IF runtime # None /\ runtime.elf # prepare.read["firmware"]["analysis"]
     THEN Reject
     ELSE /\ prepare' = [prepare EXCEPT
                           !.projection = IF runtime = None THEN None ELSE Projection(runtime),
                           !.step = "publishing"]
          /\ UNCHANGED <<dir, run, runtime, outputBusy, steady>>

(* write_case refuses a directory that holds anything, and only now; its   *)
(* files are read by no other command.                                     *)
Publish ==
  /\ prepare.step = "publishing"
  /\ IF outputBusy THEN Reject
     ELSE /\ prepare' = [prepare EXCEPT !.step = "done"]
          /\ outputBusy' = TRUE
          /\ UNCHANGED <<dir, run, runtime, steady>>
-----------------------------------------------------------------------------
CaseInit ==
  \E s \in Scenarios :
    /\ run = [r \in DOMAIN s.tasks |->
                [task |-> s.tasks[r], next |-> 1,
                 step |-> IF r \in s.finished THEN "done"
                          ELSE IF r \in s.started THEN "analysing"
                          ELSE "waiting"]]
    /\ dir = [side \in Sides |->
                IF \E r \in s.finished : s.tasks[r].side = side
                THEN Results(s.tasks[CHOOSE r \in s.finished : s.tasks[r].side = side])
                ELSE EmptyDir]
    /\ runtime = s.runtime
    /\ outputBusy = s.outputBusy
    /\ prepare = [step |-> "waiting", next |-> 1, read |-> NoRead,
                  again |-> [i \in DOMAIN ReadAgain |-> None], projection |-> None]
    /\ steady = FALSE

(* `type2 prepare` with its two readings and the write of the case.        *)
Assemble == Begin \/ Validate \/ Reread \/ Project \/ Publish

CaseNext ==
  \/ \E r \in DOMAIN run : StartRun(r) \/ Analysed(r) \/ Write(r) \/ KillRun(r)
  \/ Assemble

CaseSpec == CaseInit /\ [][CaseNext]_caseVars

-----------------------------------------------------------------------------
(* What the validation read, the parts nothing compares left out: the      *)
(* summary of the ISA log and the list of missing requirements.            *)
Compared(name, text) ==
  CASE name = "candidates"               -> None
    [] name = "isa" /\ text # None       -> [source |-> text.source, trace |-> text.trace,
                                             coverage |-> text.coverage]
    [] OTHER                             -> text

(* The analyses that got as far as writing a directory.                    *)
Writers(side) ==
  {r \in DOMAIN run : /\ run[r].task.side = side
                      /\ run[r].step \in {"writing", "done", "killed"}}

Past(steps) == prepare.step \in steps
Validation  == {"reading_again", "projecting", "publishing", "done"}

(* The files that pass the checks of _analysis, _manifest and _hardware    *)
(* one after another, while commands write the directories, are in all     *)
(* that the case uses of them what one command writes: no mixture of two   *)
(* analyses, two deliveries or two selections is accepted.                 *)
ValidatedInputsAgree ==
  Past(Validation) =>
    /\ \E e \in Elfs :
         /\ prepare.read["firmware"]["analysis"] = e
         /\ prepare.read["firmware"]["firmware-summary"] = e
         /\ prepare.read["firmware"]["export"] = CodeOf[e]
    /\ \E r \in Writers("hardware") : \A name \in FileNames :
         Compared(name, prepare.read["hardware"][name])
           = Compared(name, Result(run[r].task, name))

(* The directories of two analyses that finished, and that nobody writes   *)
(* while the preparation reads them, are never refused: every value that   *)
(* prepare_case compares or recomputes is one that analyze_package wrote   *)
(* the same way.  Only the case directory or the runtime evidence can be   *)
(* at fault.                                                               *)
CleanInputsAccepted ==
  prepare.step = "rejected" =>
    \/ ~steady
    \/ outputBusy
    \/ /\ runtime # None
       /\ runtime.elf # prepare.read["firmware"]["analysis"]

(* build_runtime_projection drops the runtime requirement only for the     *)
(* firmware of the case, when it shares a candidate kind with the test ELF *)
(* of the delivery and every fact of a shared kind was observed; and the   *)
(* requirement and the rows per kind say the same.                         *)
SatisfiedIsObserved ==
  prepare.projection # None =>
    LET fw     == prepare.read["firmware"]["analysis"]
        test   == prepare.read["hardware"]["manifest"].elf
        shared == {f \in FactsOf[fw] : \E g \in FactsOf[test] : g.kind = f.kind}
        satisfied == prepare.projection.requirement = "SATISFIED_FOR_DECLARED_SCOPE"
        supported == {k \in DOMAIN prepare.projection.kinds :
                        prepare.projection.kinds[k] = "SUPPORTED"}
    IN /\ satisfied => /\ runtime.elf = fw
                       /\ shared # {}
                       /\ shared \subseteq runtime.observed
       /\ satisfied <=> /\ supported # {}
                        /\ {f.kind : f \in shared} \subseteq supported

(* align_traces says BOUND of two traces exactly if they execute the same  *)
(* instructions in the same order and none of them twice: a loop, a        *)
(* missing, an extra or a moved instruction is never BOUND.                *)
BoundAlignmentIsSameOrder ==
  LET rtl == dir["hardware"]["rtl"] IN
  rtl \notin {None, Torn} =>
    (rtl.alignment = "BOUND" <=>
       /\ rtl.source.rtl_trace = rtl.source.isa_csv
       /\ Cardinality(Keys(rtl.trace)) = Len(rtl.trace))

(* The chain of a case says of its differential "differential ID and       *)
(* selected signature references agree" (case_assembly_trace.py, stage 7). *)
CaseDifferentialAgrees ==
  prepare.step = "done" =>
    LET m == prepare.read["hardware"]["manifest"] d == prepare.again[4] IN
    d.rtl = m.rtl_signature /\ d.isa = m.isa_signature
=============================================================================
