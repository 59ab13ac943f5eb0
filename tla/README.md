# ChipChain: formal models, model checking and proofs

ChipChain connects what a firmware does with what a piece of hardware does wrong. It is driven
by evidence: every conclusion (`verified`, `contradicted`, a saved runtime observation, an installed
tool) has to rest on files that were produced, read back and compared. What could really be
wrong in such a program is seldom a formula; it is a trace that ends too early, two traces of one
run that are joined the wrong way, a file that is read twice, a directory that two processes found
empty, a missing link that is taken for a negative answer. These modules are about those.

Paths below are relative to the repository.

## 1. The system

| Part | State it keeps | Operations | Interacts with | Hard behaviour |
|---|---|---|---|---|
| Instrumented MMIO device (`experiments/syn_e2e1/synthetic_mmio.sv`, `variant.patch`) | registers, the answer register, the monitor's pending id, epoch, cycle, the open trace file | clock edges with or without a request, reset, `final` | the ibex bus; the trace file | register file and monitor run on different edges; a reset in flight; the footer is written only at a clean end |
| Apparatus trace reader (`firmware/mmio_grounding.py`) | open requests, seen ids, samples, epoch, last cycle | one step per event, footer, observations | trace file -> runtime records | any file may arrive, also a damaged one |
| MMIO execution bridge (`firmware/mmio_execution_bridge.py`) | none between calls | coverage, bijection of retirements and transactions, software stop | two traces that share no identifier | repeats, stores that are accepted later, other masters |
| Type-II verifier (`cross_layer/type2_verifier.py`) with the contract (`hardware/behavior_contract.py`) and the capabilities (`firmware/mmio_capability.py`) | none between calls | one verdict per condition, order, deviation, control, final status | target and reference run, contract, bindings | evidence that is partly missing |
| QEMU execution-log plugin (`tools/qemu/plugins/chipchain_trace.c`) | count, target sequence, stream | install, translate, observe, exit | QEMU callbacks; the raw stream | where the window ends; the process may die anywhere |
| Acquisition and evidence store (`runtime/acquisition.py`, `artifacts.py`, `qemu_evidence.py`) | the output directory | acquire, write, load | QEMU process, the plugin build, the pinned tools, the firmware file | two callers, crashes, a watchdog, inputs that change, a loader that reads beside the writer |
| Setup of QEMU and Ghidra (`scripts/setup_qemu.sh`, `setup_ghidra.sh`) | installation directory, cached archive, private staging | verify, download, check, extract, promote | each other, the user | look-then-rename, kills that run no trap |
| Setup of the environment (`scripts/setup_env.sh`) | the virtual environment | check, remove, create, install, verify | the user | assumes to be alone |
| Static frontend (`firmware/ghidra*.py`, `semantics*.py`, `static_*.py`, `ExportFirmwareFacts.java`) | the constants known in each register | classify an instruction into facts, keep or forget constants | Ghidra; the matchers | what is known on one path may be wrong on another |
| Relations and reachability (`tools/firmware/`) | queue and visited nodes of a search | bounded search, again with the returns of calls, validate | angr's graph | what a bound, or the first way found, hides |
| Capabilities and static matching (`firmware/capability.py`, `static_capability.py`, `cross_layer/matching.py`, `resource_binding.py`, `capability_*.py`, `matcher.py`, `trigger.py`, `facts.py`, `eligibility.py`) | none | make a capability of a fact, accept one (CAP0), bind it to a resource, match it with a contract, compare, bind to a reviewed run, match sites with a trigger condition | facts, catalogs, reviews, contracts | of a firmware only a part is known, and some of what is said of it is mistaken |
| ProcessorFuzz workflow (`workflow/processorfuzz.py`, `runtime/processorfuzz.py`) | output directory | select members, align two traces, compare signatures, write twelve files that are read again | archives of another tool; the case assembly | the directory is found empty minutes before it is written; instructions that repeat or move |
| Case assembly (`cross_layer/case_assembly*.py`) | case directory | read two analyses file by file, check them, read three files again, project runtime evidence, write | the directories that `firmware analyze` and `processorfuzz analyze` write | files that change between two reads, mixtures of two analyses |
| Type-II workflow (`workflow/type2.py`), CLI | output directory | load, verify, write | the parts above | |
| Bundle build, sample builders, Rocket experiments | none | one-off generators | | |

`PROJECT.json` lists every part with its sources and what is modelled of it, and under `hazards`
each hard behaviour at its line with the property that covers it, or the reason why none does yet.

What makes each part correct:

* the device and the reader: a trace that parses is the whole of one run, its answers and samples
  are those of the register file, and every whole run parses;
* the bridge: a bound join is the join that happened; a run is denied only if one of its stores never arrived;
* the verifier: `verified` only if the chain took place and was controlled, a refutation only
  if the trigger did not fire, and nothing gets stronger when evidence is taken away;
* the acquisition: one owner of the directory, every acquisition ends, what it returns can be
  loaded, and what loads return is genuine and for ever the same;
* the case: what passes the checks is one analysis each, good inputs are not refused, a requirement
  is dropped only for what was observed, and two traces are bound only if they are the same;
* the static analysis: a fact is true of the instruction in every run, and what a run reaches
  within the bound is reported;
* the static matching: what is `supported`, `compatible` or `matched` is so in the firmware, what is
  refuted is not, and a verdict does not turn into its contrary when more becomes known;
* the setup scripts: only whole, checked files get a public name, and no kill blocks the next run.

## 2. The modules

```
MmioRegisterFile <- SyntheticMmio \
                 <- TraceReader   -> MmioApparatus (device + file + reader)
                 <- ExecutionBridge <- JointRun    (processor + device + bridge)
                 <- Type2Verifier <- Type2System   (two runs + verifier)
RawStream <- TracePlugin <- QemuAcquisition --refines--> EvidenceStore
ToolInstaller
StaticFrontend, StaticReachability <- FirmwareAnalysis  (listing + search + runs of the program)
FirmwareCapability <- HardwareContract, ResourceBinding <- RequirementMatching <- TriggerMatching \
                   <- CapabilityCompatibility, CapabilityContinuity ---------------> CrossLayer
ProcessorFuzzPackage <- CaseAssembly     (analyses + directories + preparation)
```

**MmioRegisterFile** (operators): the registers after an access, the answer to one, which accesses
are legal, for the two source trees: `reference` and `variant` (the patch that makes STATUS
`DEAD` when `A5` is written to COMMAND while ENABLE is 1).

**SyntheticMmio**: `Posedge` is a rising clock edge with a request, none, or reset held: the register
block (`RegistersAtEdge`) and the monitor (`MonitorReset`, `MonitorEdge`) in the order in which
the simulator can observe them; `Negedge` writes the sample; `Finish` runs `final`;
`Kill` ends the simulator without it. The file is a sequence of event records and a footer.

**TraceReader**: `parse_apparatus_trace` with its local variables as the record `s`: `Admits` holds
the `require`s of one event, `After` its assignments, `Closes` the footer. `Prefixes` applies the
same step to the events of a whole file, as a recursive function, and `Parse` is its last value, for the
modules that compose the reader; `Observation` is `materialize_runtime`.

**MmioApparatus**: device, storage (one record lost, repeated or exchanged with its neighbour) and reader.

**ExecutionBridge**, **JointRun**: the processor retires loads and stores, the device accepts stores
later and in any order, or not at all when the run stops before; another master may be there; each transaction
remembers its true origin, which the bridge does not see. `Materialize` is `materialize_bridge`, whether or
not all stores have arrived: the parser refuses only requests that the peripheral accepted and did not answer
(`mmio_grounding.py:596`).

**Type2Verifier**, **Type2System**: `Verify` is `verify_type2` on abstract run evidence. The system
runs a firmware on the target tree and perhaps one on the reference tree, loses runs,
withholds links, and calls the verifier once.

**RawStream**, **TracePlugin**: the lines of `raw-events.jsonl` and `parse_raw_stream`; the plugin with
one action per callback (`Install`, `Observe`, `Exit`, `GuestQuits`) and the two ways to break
off (`WriteFails`, `Killed`).

**QemuAcquisition**: `acquire_and_write` as the steps between which something else can happen:
`Begin`, `Claim`, `Freeze`, `Build`, `Launch`, `QemuReturns` or `Watchdog`, `Check`,
`MaterializeRun`, one `Write` per file; `LoadOne` and `LoadReplay` are
`load_runtime_evidence`. `Crash`, `Rebuild`, `Upgrade` and `Damage` are the environment.
**EvidenceStore** is what it promises: nothing, or one genuine evidence for ever.

**ToolInstaller**: both setup scripts, one action per step between which another process can act.
The variable `tool` says which script runs; they differ in `Verifies`, `Hashed`, `Opened` and
what `Promote` leaves behind.

**ProcessorFuzzPackage** (operators): what `analyze_package` makes of a delivery: the selected members,
`Alignment` (`align_traces`), `Coverage`, `Differential`, and `Content`, the value of each file.
An ELF stands for its identity; its facts, instructions and bytes are constants (`FactsOf`,
`CodeOf`, `BytesAt`), as the pinned Ghidra makes them a function of the ELF.

**CaseAssembly**: each analysis is `StartRun` (its refusals), `Analysed` (Ghidra and the parsers) and one
`Write` per file; `KillRun` may tear the file it is at. The preparation is `Begin`, one `Validate` per
file with the check made after it (`Fit`: `_json`, `_analysis`, `_manifest`, `_hardware`), one
`Reread` per file opened again, `Project` (`build_runtime_projection`) and `Publish`
(`write_case`). Nothing locks a directory, so all of them interleave.

**StaticFrontend** (operators): `Classify` is the dispatch of the three `semantics_*.py` with the facts
it gives, and what it leaves known in the registers; `Normalize` is the loop of `ghidra_normalize.py`
over the listing, with the places where all constants are forgotten. **StaticReachability**: one question
of the catalog; `Begin`, `Take`, `Follow` and the others are the steps of `bounded_bfs`, in two passes
for a site. `walker` is a run as the graph sees it. **FirmwareAnalysis** puts a small processor beside both:
`Enter`, `Operate`, `Branch`, `Jump`, `Call`, `Return` execute the program that was analysed.

**FirmwareCapability** and **HardwareContract** (operators): which capability, and which contract, the
validators accept (`ValidCapability`, `ValidContract`). **ResourceBinding**: `StaticCapability` is
`static_capability.py`, `Select` is `_select` with a catalog and a manual review. **RequirementMatching**:
`Match` is `match_requirements`. **CapabilityCompatibility**: `Compare` is
`compare_capability_contract`, row by row. **CapabilityContinuity**: `Continuity` is
`bind_static_runtime_capabilities`. **TriggerMatching**: the facts of the analyses (`facts.py`, with
`decoded_fields` of the RISC-V and ARM adapters), `Eligibility`, and `Associate`, which is
`match_trigger_condition`. All of them are pure.

**CrossLayer** composes them. `world` is what is true of a firmware, and the code never sees it; `known` are the
fields that are established so far. `Project`, `MatchContract`, `CompareContract`, `BindRuntime` and
`MatchTrigger` each call one of the functions with any inputs; `Learn` formalizes more of a
declared capability and `Establish` lets the analyses know more, after which the same function could
be asked again: `TriggerVerdictsStand`, `VerdictsNeverReverse` and `CandidatesStand` compare the
answers.

Where the source returns from a sequence of conditions that overlap, the operator is a chain of
IF ... ELSE IF: the arms of a CASE have no order.

Definitions named `X_Something` are variants of `X` with a plausible bug. No specification uses
them; they show that the properties notice such a bug.

## 3. The runs

| Run | Module | What it shows | Bounds |
|---|---|---|---|
| cross_layer | MCCrossLayer | `MaterializedIsValid`, `MatchesAreTrue`, `ComparisonsAreTrue`, `TriggerVerdictsStand`, `VerdictsNeverReverse`, `TrueAccountsAgree`, `CandidatesAreTrue`, `CandidatesStand` | 16 static firmwares of 2 sites, some on two boards, 8 declared capabilities, 5 firmwares with bound sites; 5 catalogs, 11 contracts, 12 trigger conditions; every subset of what can be known |
| static_analysis | MCFirmwareAnalysis | `FactsAreTrue`, `WitnessesValidate`, `ReachedIsReachable` | every program of two data steps and an access (3 architectures), every flow of four instructions and some of five, 2 functions, search bounds 1 and 2 |
| apparatus | MCMmioApparatus | `ParsedTraceReplays`, `ParsedTraceIsWholeRun`, `CompleteRunParses`, `AnomalyLocated`, `DamageDetected` | both trees; undamaged: 3 accesses, 6 cycles, 2 reset epochs; with kills and one damaged record: 2 accesses (one illegal), 4 cycles |
| trace_reader | MCTraceReader | `ReaderInv`, `ParsedObservationsAdmitted` on files nobody wrote | up to 9 events in 3 cycles: the shortest file with two transactions |
| joint_run | MCJointRun | `BoundIsTrue`, `ExactAccessesAreBound`, `DenialMeansLoss` | programs of 1-3 of 8 accesses, 1 foreign access |
| type2_system | MCType2System | `VerifiedIsReal`, `DeviationNeverContradicted`, `ContradictedDidNotFire`, `WithdrawnEvidenceStaysUnknown`, `CompleteEvidenceVerifies` | programs of 2-3 of 6 accesses and a read, 3 contracts |
| type2_hidden_trigger | MCType2System | `MissingJoinNeverRefutes` is **violated** (section 6) | the same |
| trace_plugin | MCTracePlugin | `PluginInv`, `StopsAsDeclared` | 2 addresses, every policy up to 4 events, valid or not |
| qemu_acquisition | MCQemuAcquisition | `OneOwner`, `DoneIsLoadable`, `ImplementsStore`, `AcquisitionEnds` (under fairness) | 2 callers, one policy (a window of 2 events), 1 damaged file, 1 rebuild, 1 upgrade |
| tool_setup | MCToolInstaller | `PublishedIsWhole`, `KilledNeverBlocks`, `PassMeansInstalled`, `ExistingUntouched` | 2 processes, 1 kill, 1 act of the user |
| case_assembly | MCCaseAssembly | `ValidatedInputsAgree`, `CleanInputsAccepted`, `SatisfiedIsObserved`, `BoundAlignmentIsSameOrder` | 12 deliveries, 5 ELFs, every pair of traces up to 3 instructions, 2 analyses of one directory |
| case_differential | MCCaseAssembly | `CaseDifferentialAgrees` is **violated** (section 6) | the same |

Why the bounds are enough. `MaxCycle` and `MaxEpoch` let a request, its answer, the software stop,
the two cycles the footer waits for and a second reset all occur, also overlapping. Three
accesses are the trigger chain itself (enable, command, status); a third and fourth bring the
withdrawn enable, the repeated command and the access that is not joined. The damage to a file is one
change, as sequence numbers detect each on its own. The plugin's counters are compared with each
other only, so windows that end before, at and after a maximum of four cover all orders. In the
acquisition, all that a caller shares is the directory: two callers meet in every pair of
steps. `Upgrade` happens once and stays, so a tool that is replaced and put back within a run
is outside the model. The deliveries differ from one another in one thing each (a
signature, a trace, the log, the archive, the SI, the ELF, the role), so that a check that is missing lets
one pair through; two analyses of one directory suffice, since the reader sees each file
from one of them. Three instructions are a loop, a missing, an extra and a moved one.
Two data steps let a constant be set, changed or forgotten before it is used; three instructions after
the first give each flow that joins, loops, calls or falls through once. A bound of two edges
is the shortest at which a site is reached in two ways of which one is too long. Two sites of a firmware, and two
primitives of a capability, are what the three-valued folds distinguish: one that decides and one
that is unknown. Addresses have three bits and values two, so that equal, contained, disjoint and
too wide all occur.
Two installers suffice for the races for a name; the proofs (section 5)
are for any number. `Limit` is the 1000000 of the plugin's and the reader's policy check made small.

Deadlock is not checked: every part is a program that ends (a finished device, a stopped plugin,
a caller that is done, a given verdict, an assembled case), and its final states have no step.

**Fairness.** Only `QemuAcquisition` states any: weak fairness of each caller's own steps (a process
that is not killed goes on) and of `Watchdog`, which is the `timeout` that `acquire_raw` gives to
`subprocess.run`. Nothing is assumed of QEMU, of the firmware in it or of the plugin. The setup
scripts get none: the Ghidra download has no time limit.

## 4. What the models abstract

Data words are a small set with the values the code compares with. Bytes, digests and canonical JSON
are equality of what they stand for: a version of the firmware, an archive, an evidence. Static
facts are `exact`, `value unknown` or `address unknown`. A file is whole, altered or torn. The
probes that run an installed tool are taken to succeed on a pinned tree. The trace reader's limits
on cycles and event counts are constants. In `CaseAssembly`, a digest is what it is the digest of; the paths and the
inventory of a manifest, the reports, `capability-continuity.json` (always the same) and the two
signature files nobody reads are left out. A torn file is one that `_json` refuses.

In the static analysis, an instruction is a mnemonic with its registers and its number; registers are
words of four bits, upper immediates are words of three that are extended with their sign, and what is not known has one
of two values. Of the names that an ARM decoder recognises by their beginning a few of each form are taken. Unsupported
instructions do anything but jump; one store of each architecture is among them. The graph of angr is modelled from its manual, as far as the code
uses it. In the matching, identities are model values, a numeric domain is a range or a mask, an encoding
is a number per representation, and the order of sites on a path is what `_ordering` reads.
Processor, platform and ISA variant are compared as names.

## 5. What is proved

TLAPS checks, for all values of the constants under the assumptions in the modules:

* `TraceReaderProofs`: `ReaderInvariant` (`ReaderInv`: one open request at most, transactions sound,
  ordered and with distinct ids) and from it `ObservationsAdmitted`: the validators that run after
  the parser have nothing left to refuse. The order of transactions is not inductive by itself:
  `PendingSound` says in addition that the open request is later than and different from all that
  are complete, which holds since a request is admitted only when none is open.
* `MmioApparatusProofs`, for any firmware, tree, length of run, number of resets, kills and damage:
  `ApparatusInvariant`, then `ParsedReplays`, `ParsedIsWholeRun`, `CompleteParses`, `AnomalyIsLocated` and
  `DamageIsDetected`. The invariant says what the reader would make of the log written so far
  (`LogParses`): as long as there was one reset, the events are admitted one by one (`Reads`), every cycle
  is sampled, the transactions are those of the monitor, and the registers are the replay of the requests
  accepted. A run with another number of resets needs no more than its footer, which the reader refuses. `Numbered` says that an event carries its place
  in the log as sequence number, which together with the count in the footer makes each damaged file
  one that is refused or the file that was written (`Files`). `Levels` and `Idle` tie the monitor's flags to
  the clock edge, and `BeforeReset` covers the cycles in which nothing is logged. That the
  reader's recursive function unrolls, and that a damaged file agrees with the original up to the damage, is by induction
  over natural numbers, from the well-foundedness of `Nat`.
  The assumptions are `SetupsAssumption` (the bus decoder routes only addresses of the window to the device,
  and no run is longer than the reader's `CycleLimit`), `PowerOnAssumption` (the registers hold data at power-on),
  `BoundsAssumption` (the bounds are natural numbers) and `FooterAssumption` (a missing footer is not a footer).
* `JointRunProofs`, for any program, any number of foreign accesses and any order in which stores arrive:
  `JointRunInvariant`, then `BoundJoinsAreTrue`, `DenialsMeanLoss` and `ExactJoinsAreMade`. The bridge
  sees contents only, so the invariant relates contents to origins: every row is of its
  instruction (`RowsAreProgram`), every transaction is another master's or has the contents of the row of its origin
  (`OriginsAreRows`), no two share an origin (`OriginsDiffer`), and a retired access is in flight or has
  arrived (`RetiredArrive`). When no contents repeat, equal contents then are equal origins.
* `Type2SystemProofs`, for any firmwares and contracts: `SystemInvariant`, then `VerifiedChainsAreReal`,
  `DeviationsAreNeverContradicted`, `RefutedTriggersDidNotFire`, `WithdrawnEvidenceIsUnknown` and
  `CompleteEvidenceSuffices`, all the properties of the run. The invariant (`Faithful`) says that at every access both
  traces are the program's, and that STATUS is what the accesses before have made of it (`Shown`), which
  the present registers continue (`Current`). Lemmas about the gates carry the rest: the capabilities
  claim exactly the accesses that the static side knows, or none if two look alike (`ClaimedIsKnown`);
  an access requirement that is supported names the only such access (`AtomSound`); the last accepted
  write of ENABLE decides whether a command fires (`EnabledBeforeIsEnabled`); a sample of the command's
  cycle is what a later read must show (`Sampled`, `OnlyRead`). `ContractsAssumption` says that a contract does not
  expect the anomalous value (`behavior_contract.py:168` requires expected and deviating to differ).
* `SharedDirectoryProofs` is about the two systems whose commands share directories without a lock.
  `ToolInstaller`: `InstallerInvariant`, then `NamesHoldWholeFiles`, `KilledSetupsNeverBlock`,
  `InstallationsStayUntouched`, `PassedSetupsInstalled` for any number of processes, kills and acts
  of users. `PublishedIsWhole` is not inductive: it needs `HoldsChecked` (a process at a rename
  holds what it checked); `KilledNeverBlocks` needs `FoundStays` (nothing removes an installation).
  `CaseAssembly`, for every set of scenarios, any number of analyses and traces of any length: `CaseInvariant`, then
  `NoMixtureIsAccepted`, `FinishedInputsAreAccepted`, `SatisfiedWasObserved` and `BoundTracesAreTheSame`, all the
  properties of the run. The invariant says that whatever lies in a directory or was read is torn or the
  text of an analysis that got to writing (`FilesHaveWriters`), that each check still holds of what has been read since
  (`ReadsFit`: no check looks at a file that is read later, `FitLooksBack`), and what `steady` stands for
  (`FinishedAlone`). Then the analysis that wrote the manifest determines the rest: every other file is
  compared with the manifest, with the ELF, or with the summary, which repeats the manifest (`FittingFilesAgree`). That
  BOUND traces are equal is a count: up to any key both have the same keys, so each key is at the place that
  their number says (`KeysUpTo`). `ScenariosAssumption` says that an analysis under way was not to be refused, that
  traces are sequences, and that what a command writes is never the absence of a file or a torn one.
* `QemuAcquisitionProofs`: first the plugin alone, `PluginInvariant` and `PluginStopsAsDeclared`, for every
  policy, alphabet and limit (`Recorded` is the strengthening: where the target was first met, and how
  far the count may have gone). Then, for any number of callers, any policies and any number of damaged files:
  `Invariance` (`Inv`), then `OneOwnerHolds`, `DoneIsLoadableHolds` and `ImplementsStoreHolds`, the
  refinement of `EvidenceStore`. `OneOwner` alone is not inductive: an owner that fails or crashes
  keeps the directory (`Owner` counts what it has written, `Held` that the firmware stays). `CallOK`
  says of the owner what it checked, accepted and saved; `Intact` what damage can make of a stream that
  was accepted, which is no longer a whole one; `From` that each artifact, altered or not, names the run of the
  one who wrote it. So a replay that succeeds is of the owner's run and stream.
  `NothingAssumption` only says that a missing and a torn file are no evidence.
* `FirmwareAnalysisProofs`, for every graph and bound: `SearchInvariant`, then `WitnessesAreValid` and
  `ReachedAreReported`. That witnesses are walks is inductive. That what is reached is
  reported needs the order of the queue (lengths differ by one at most, shorter ones first), that a
  node looked at has all its neighbours visited one edge further at most (`Closed`), and a walker
  that carries the induction along a run.
  For every program, every width of the registers and whatever they hold: `FactsSayTheTruth`. The invariant (`KnownHere`)
  says that what the frontend knows before the instruction a run is at holds there (`Agrees`, up to the width of a
  register), but for the registers that are `Stale` there: those that a decoder overlooks and what was made from them since.
  Arm by arm, the three decoders give true facts and keep what is known true (`Sound`,
  `StepAgrees`); what does not come to the next instruction by itself leaves nothing known (`EndsForget`); and where a
  run comes in from elsewhere everything is forgotten (`EntryForgets`; `TargetForgets`: a jump has an edge of its own,
  so that its target is not straight fall-through). `ProgramsAssumption` says what a listing is: it begins with a
  function, calls inside it are to functions (`Listing`), and operands are where the instruction has them: stores, barriers and
  comparisons have no result, push changes `sp` (`Listed`). No instruction is excluded.
* `CrossLayerProofs`, for every firmware, capability, catalog, contract, trigger condition and set of known fields:
  * `VerdictsAreFinal`, `VerdictsStand` and `CandidatesAreFinal`, an answer against a later one. The argument is an
    information order: `Stays` on an outcome, `Refined` on a set of checks. What is usable of a primitive stays
    when more is formalized (`ViewGrows`), each check that is decided stays, and the folds are monotone.
    Preconditions and orders are compared only where one primitive is matched, which may stop to be so; they
    are withdrawn but not reversed, as the primitive that is matched later is the same one (`SoleSame`). The facts bound
    to an atom grow in the same way (`MergedGrow`), and a field that is decided stays unless two
    facts of the atom now disagree in it.
  * `CandidatesSayTheTruth`, `ComparisonsSayTheTruth`, `MatchesSayTheTruth` and `TrueAccountsDoAgree`, an answer against
    the firmware. `ResultsAreOfCapabilities` is the inductive part: every result was computed from capabilities
    that are views of what is true (`Declared`, or `StaticCapability` of a fact), with fewer fields then than now.
    The rest is what each function makes of them: each field of a check
    is compared soundly in either direction (`FieldStatusIsTrue`, `DomainsSay`, `OptionsAreSound`), and
    the folds keep one sound witness (`AggregateSays`, `AlternativeSays`, `StaticAccount`).
  * `MaterializedFits`: nothing but a number makes the projection raise. What is made is made of known facts
    (`MaterializedOfFacts`), a resource is bound where its address is known (`BoundIsPlaced`), and CAP0 accepts the capability
    of each kind of fact (`MemoryIsAccepted`, `SystemIsAccepted`, `FlowIsAccepted`, `InstructionIsAccepted`).

  Their assumptions, all checked by TLC on the instance: `WorldsAssumption` (a declared capability was accepted, a
  field is learned as formalized, and what is vague has its form; `VerdictsAreFinal` is false without it),
  `ContractsAssumption` and `ConditionsAssumption` (contracts and trigger conditions are those that their validators
  accept), `CatalogsAssumption` (so are the catalogs, and those of a static firmware do not call an MMIO register
  memory: a manual error that no code can notice), `FactsAssumption` (a fact of the frontend has all its fields,
  some `Nothing`; its numbers are integers, it names the register that it reads or writes, as all decoders do, and one
  of kind `MMIO_READ` or `MMIO_WRITE`, which no decoder makes at present, is of an address of MMIO),
  `BitsAssumption` (AddressBits is a width, and n < 2^n: the provers have no theory of powers), `ResultsAssumption`
  (the model values `Nothing` and `Raised` are no constraint of a capability and no capabilities),
  `AccountsAssumption` (a runtime account is of an MMIO access, as `mmio_capability.py:116,130`
  writes no other) and `SitesAssumption` (an annotation gives no encoding, two names are of one register exactly if
  they have one normal form, and a path found by the search is a path of the firmware, which is
  what `WitnessesAreValid` shows of the search itself).

Each inductive invariant was checked by TLC on the instance of its run before it was proved.

Only model-checked: liveness (`AcquisitionEnds`; out of the prover's reach, as is ENABLED), and the two
disagreements of section 6. The library's induction theorems take an operator as a parameter, which the installed provers cannot
instantiate; the few inductions over numbers of `MmioApparatusProofs` and `FirmwareAnalysisProofs` are made from the well-foundedness of `Nat` instead,
one for each statement.

## 6. Disagreements of the code with what it says

`type2_verifier.py:308` answers `contradicted` when it finds no exact access and exactly one with
another value. If the firmware also made an access whose value the static side does not
know, that one may be the trigger: ENABLE=1, COMMAND=A4, COMMAND=A5 (value unknown), STATUS. The
run `type2_hidden_trigger` shows it: `trigger_contradicted` for a target that fired. `README.md:34`
says "missing evidence stays `unknown`", `docs/architecture.md:51` "Missing joins remain unknown."
For firmwares whose accesses are all exact, `ContradictedDidNotFire` holds.

`case_assembly.py` checks `architectural-differential.json` against the manifest (line 209) and opens
it again by name for the chain (line 389). A second `processorfuzz analyze` that found the directory
empty before the first one wrote can write the file in between. The run `case_differential` shows the
case: its chain says "differential ID and selected signature references agree"
(`case_assembly_trace.py:217`) of a differential of other signatures. Using the validated value would
remove it. The two traces are opened again in the same way (line 380), for their ELF, digest and coverage.
All else the case uses is what was checked (`ValidatedInputsAgree`), except the summary of the ISA log
and the package's list of missing requirements, which no check compares.

Smaller limits, met while modelling, that the properties state as exceptions or that the instances leave out:

* a static access whose resource is not bound is taken for `memory` (`static_capability.py:115`), and
  `_trigger_alternative` calls that class explicit (`capability_compatibility.py:400-405`): a store to a
  device may be incompatible for that reason alone (`Unplaced` in `ComparisonsAreTrue`);
* the constants that the frontend propagates are integers without a width (`semantics_riscv.py:62-68`), so that `li a1,-1`
  before a store gives the value -1, which CAP0 refuses (`capability.py:19`, `Unsigned`): no capability of that firmware is
  made. `Fits` excludes it, and two firmwares of `cross_layer` have such a number;
* `CONTRADICTED` gives as its reason "incompatible complete semantic fields" (`capability_continuity.py:79`), but only kind,
  class, address and width are asked to be known (line 78), while value and encoding are compared too (line 73): two
  true accounts, of which one lacks the value or the encoding, are said to contradict each other. `TrueAccountsAgree`
  states it as its exception;
* a range that is narrowed later may turn `compatible` into `incompatible`; the models let a field become known
  but not change, as the identity of the capability changes with it;
* in `matching.py:98-112` a conflict with one candidate outweighs another candidate that is unknown; so
  `MatchesAreTrue` asks of `CONTRADICTED` only that some access fails, as its reason says;
* `assess` (`eligibility.py:42-57`) calls a pair eligible also when the ISA variant or the endianness of one side is
  unknown;
* a store that retired and had not reached the peripheral when the run stopped leaves no bus record, passes the coverage
  (`mmio_execution_bridge.py:177` looks at recorded transactions), and makes the bridge answer `not_same` for every access of
  the run (line 354), also for those that did arrive: `DenialMeansLoss`, and the condition of `ExactAccessesAreBound`;
* `docs/firmware-capability-mapping.md:10` says "Exact address/width/value retained when proven". The decoders match
  beginnings of names (`semantics_arm.py:24-31`): `ldrex` and `strex` are taken for plain accesses, and the branches made for
  them (lines 41-48) are never reached; `ldrb.w`, `ldrh.w`, `ldrbeq`, `ldrd` and their stores get 32 bits. A base
  that is written back, the second register of `ldrd`, the status of `strex` and a `lui` or `lis` whose sign fills a wider register
  (`semantics_riscv.py:64`, `semantics_powerpc.py:14`) leave constants that are wrong; an atomic operation other than a swap
  reports its operand as the value stored (`semantics_riscv.py:93-105`); and `push` is supported without naming its stores
  (`semantics_arm.py:63`). Each kind is among the programs of `static_analysis`, and `FactsAreTrue` names each as an
  exception (`Overlooked`, `Stale`, `Mismeasured`, `Miscounted`, `Kind`); it is violated without any one of them;
* constants survive a fall-through into a block that Ghidra gives one predecessor only, which is right
  as long as its graph has all edges; a graph that is cut off by the time limit (`ghidra.py:46`) has not.

## 7. Not modelled, and the plan

Not modelled: pure tables (`qemu_profile.py`, `decoders.py`), generators and one-off experiments (Rocket, ibex,
the sample builders), reports and wording, the record validators (canonical form, digests), the
command line and the glue that calls the parts in order. `setup_env.sh` works in place, without a staging
directory or a lock: of two that run at once, one may remove the environment that the other has just
verified, and nothing says that it should not.

Next, in this order:

1. **CaseChain**: the chain text and the declared architecture of the case (`case_assembly_trace.py`), as
   statements about one run that must agree with what was validated.
2. **QEMU profiles**: the binding of an acquisition to a machine and an accelerator.
