---------------------- MODULE SharedDirectoryProofs ----------------------
(***************************************************************************)
(* The two systems in which commands share directories without a lock.     *)
(*                                                                         *)
(* Setup of QEMU and Ghidra: for every set of setup processes and every    *)
(* bound on kills and on what the user does, the two shared names only     *)
(* ever hold something whole, a killed setup never blocks the next one, a  *)
(* setup that says PASS leaves an installation, and what is installed is   *)
(* never disturbed.                                                        *)
(*                                                                         *)
(* Analyses and case assembly: for every set of scenarios, a preparation   *)
(* accepts no mixture of what several analyses wrote, refuses no finished  *)
(* ones, drops the runtime requirement only for facts that were observed,  *)
(* and a BOUND alignment is of two traces that are the same.               *)
(***************************************************************************)
EXTENDS ToolInstaller, CaseAssembly, FiniteSetTheorems, FunctionTheorems, TLAPS

\* What was checked is what is moved: a process at a rename holds it.
HoldsChecked ==
  \A p \in Installers :
    /\ pc[p] \in {"look_cache", "move_cache"} => download[p] = "pinned"
    /\ pc[p] \in {"look", "promote"} => Verifies(stage[p])

\* A process that found an installation will find one.
FoundStays == \A p \in Installers : pc[p] = "existing" => install # NoFile

InstallerInv ==
  TypeOK /\ HoldsChecked /\ FoundStays /\ PublishedIsWhole /\ KilledNeverBlocks

-----------------------------------------------------------------------------

LEMMA InitInv == Init => InstallerInv
<1>1. Init => TypeOK
  BY BoundsAssumption DEF Init, TypeOK, Verdicts, Steps, Tools, Trees, Archives
<1>2. Init => HoldsChecked /\ FoundStays
  BY DEF Init, HoldsChecked, FoundStays
<1>3. Init => PublishedIsWhole /\ KilledNeverBlocks
  BY DEF Init, PublishedIsWhole, KilledNeverBlocks
<1> QED BY <1>1, <1>2, <1>3 DEF InstallerInv

(* Every step of a setup process keeps the types.                          *)
LEMMA StepTypes ==
  ASSUME TypeOK, NEW p \in Installers, Setup(p)
  PROVE  TypeOK'
<1> USE DEF TypeOK, Goto, End, Names, Fixed, Steps, Verdicts
<1>1. CASE Unfit(p) \/ Start(p) BY <1>1 DEF Unfit, Start
<1>2. CASE CheckExisting(p) BY <1>2 DEF CheckExisting
<1>3. CASE Source(p) BY <1>3 DEF Source
<1>4. CASE Download(p) BY <1>4 DEF Download, Archives
<1>5. CASE CheckDownload(p) BY <1>5 DEF CheckDownload
<1>6. CASE LookCache(p) BY <1>6 DEF LookCache
<1>7. CASE MoveCache(p) BY <1>7 DEF MoveCache
<1>8. CASE Check(p) BY <1>8 DEF Check
<1>9. CASE Stage(p) BY <1>9 DEF Stage, Trees
<1>10. CASE Extract(p)
  BY <1>10 DEF Extract, Opened, Archive, Options, Trees, Archives
<1>11. CASE VerifyStage(p) BY <1>11 DEF VerifyStage
<1>12. CASE Look(p) BY <1>12 DEF Look
<1>13. CASE Promote(p) BY <1>13 DEF Promote, Trees, Archives
<1>14. CASE Cleanup(p) BY <1>14 DEF Cleanup
<1> QED
  BY <1>1, <1>2, <1>3, <1>4, <1>5, <1>6, <1>7, <1>8, <1>9, <1>10, <1>11, <1>12,
     <1>13, <1>14 DEF Setup

LEMMA NextTypes == TypeOK /\ [Next]_vars => TypeOK'
<1> SUFFICES ASSUME TypeOK, [Next]_vars PROVE TypeOK' OBVIOUS
<1>1. ASSUME NEW p \in Installers, Setup(p) PROVE TypeOK'
  BY <1>1, StepTypes
<1>2. ASSUME NEW p \in Installers, Kill(p) PROVE TypeOK'
  BY <1>2, BoundsAssumption DEF Kill, TypeOK, Goto, Names, Steps
<1>3. ASSUME NEW p \in Installers, RunAgain(p) PROVE TypeOK'
  BY <1>3 DEF RunAgain, TypeOK, Goto, Names, Fixed, Steps, Verdicts
<1>4. CASE Touch
  BY <1>4, BoundsAssumption DEF Touch, TypeOK, Trees, Archives
<1>5. CASE UNCHANGED vars
  BY <1>5 DEF vars, TypeOK
<1> QED BY <1>1, <1>2, <1>3, <1>4, <1>5 DEF Next

-----------------------------------------------------------------------------

(* A process that is about to rename holds what it checked.                *)
LEMMA StepHolds ==
  ASSUME TypeOK, HoldsChecked, NEW p \in Installers, Setup(p)
  PROVE  HoldsChecked'
<1> USE DEF TypeOK, HoldsChecked, Goto, End, Names, Fixed, Verifies
<1>1. CASE Unfit(p) \/ Start(p) BY <1>1 DEF Unfit, Start
<1>2. CASE CheckExisting(p) BY <1>2 DEF CheckExisting
<1>3. CASE Source(p) BY <1>3 DEF Source
<1>4. CASE Download(p) BY <1>4 DEF Download
<1>5. CASE CheckDownload(p) BY <1>5 DEF CheckDownload
<1>6. CASE LookCache(p) BY <1>6 DEF LookCache
<1>7. CASE MoveCache(p) BY <1>7 DEF MoveCache
<1>8. CASE Check(p) BY <1>8 DEF Check
<1>9. CASE Stage(p) BY <1>9 DEF Stage
<1>10. CASE Extract(p) BY <1>10 DEF Extract
<1>11. CASE VerifyStage(p) BY <1>11 DEF VerifyStage
<1>12. CASE Look(p) BY <1>12 DEF Look
<1>13. CASE Promote(p) BY <1>13 DEF Promote
<1>14. CASE Cleanup(p) BY <1>14 DEF Cleanup
<1> QED
  BY <1>1, <1>2, <1>3, <1>4, <1>5, <1>6, <1>7, <1>8, <1>9, <1>10, <1>11, <1>12,
     <1>13, <1>14 DEF Setup

LEMMA NextHolds == TypeOK /\ HoldsChecked /\ [Next]_vars => HoldsChecked'
<1> SUFFICES ASSUME TypeOK, HoldsChecked, [Next]_vars PROVE HoldsChecked' OBVIOUS
<1> USE DEF TypeOK, HoldsChecked, Verifies
<1>1. ASSUME NEW p \in Installers, Setup(p) PROVE HoldsChecked'
  BY <1>1, StepHolds
<1>2. ASSUME NEW p \in Installers, Kill(p) PROVE HoldsChecked'
  BY <1>2 DEF Kill, Goto, Names
<1>3. ASSUME NEW p \in Installers, RunAgain(p) PROVE HoldsChecked'
  BY <1>3 DEF RunAgain, Goto, Names, Fixed
<1>4. CASE Touch BY <1>4 DEF Touch
<1>5. CASE UNCHANGED vars BY <1>5 DEF vars
<1> QED BY <1>1, <1>2, <1>3, <1>4, <1>5 DEF Next

(* Only three actions write one of the two names.                          *)
LEMMA NamesWritten ==
  ASSUME TypeOK, HoldsChecked, NEW p \in Installers, Setup(p)
  PROVE  /\ install' = install \/ (/\ install \in {NoFile, "empty"}
                                   /\ Promote(p) /\ Verifies(install'))
         /\ cache' = cache \/ cache' = "pinned"
<1> USE DEF Goto, End, Names, Fixed
<1>1. CASE MoveCache(p) BY <1>1 DEF MoveCache, HoldsChecked
<1>2. CASE Promote(p) BY <1>2 DEF Promote, HoldsChecked, Verifies
<1>3. CASE Unfit(p) \/ Start(p) \/ CheckExisting(p) \/ Source(p) \/ Download(p)
  BY <1>3 DEF Unfit, Start, CheckExisting, Source, Download
<1>4. CASE CheckDownload(p) \/ LookCache(p) \/ Check(p) \/ Stage(p) \/ Extract(p)
  BY <1>4 DEF CheckDownload, LookCache, Check, Stage, Extract
<1>5. CASE VerifyStage(p) \/ Look(p) \/ Cleanup(p)
  BY <1>5 DEF VerifyStage, Look, Cleanup
<1> QED BY <1>1, <1>2, <1>3, <1>4, <1>5 DEF Setup

(* A verified tree is something, and not an empty directory.               *)
LEMMA VerifiedExists == ASSUME NEW tree, Verifies(tree) PROVE tree \notin {NoFile, "empty"}
  BY NoFileAssumption DEF Verifies, Trees, Archives

LEMMA StepNames ==
  ASSUME TypeOK, HoldsChecked, FoundStays, PublishedIsWhole, KilledNeverBlocks,
         NEW p \in Installers, Setup(p)
  PROVE  FoundStays' /\ PublishedIsWhole' /\ KilledNeverBlocks'
<1>1. tool' = tool /\ foreign' = foreign
  BY DEF Setup, Fixed, Unfit, Start, CheckExisting, Source, Download, CheckDownload, LookCache,
         MoveCache, Check, Stage, Extract, VerifyStage, Look, Promote, Cleanup
<1>2. install' = install \/ Verifies(install')
  BY NamesWritten
<1>3. PublishedIsWhole'
  BY <1>1, <1>2, NamesWritten DEF PublishedIsWhole, Verifies
<1>4. ASSUME NEW q \in Installers, pc'[q] = "existing" PROVE install' # NoFile
  <2>1. pc[q] = "existing" \/ (Start(p) /\ install # NoFile)
    BY <1>4 DEF TypeOK, Goto, End, Setup, Unfit, Start, CheckExisting, Source, Download,
       CheckDownload, LookCache, MoveCache, Check, Stage, Extract, VerifyStage, Look,
       Promote, Cleanup
  <2>2. install # NoFile BY <2>1 DEF FoundStays
  <2> QED BY <2>2, <1>2, VerifiedExists
<1>5. ASSUME NEW q \in Installers, verdict'[q] = "invalid" PROVE foreign' > 0
  <2>1. verdict[q] = "invalid" \/ (CheckExisting(p) /\ ~Verifies(install))
    BY <1>5 DEF TypeOK, Goto, End, Setup, Unfit, Start, CheckExisting, Source, Download,
       CheckDownload, LookCache, MoveCache, Check, Stage, Extract, VerifyStage, Look,
       Promote, Cleanup
  <2>2. CASE verdict[q] = "invalid" BY <2>2, <1>1 DEF KilledNeverBlocks
  <2>3. CASE CheckExisting(p) /\ ~Verifies(install)
    <3>1. install # NoFile BY <2>3 DEF CheckExisting, FoundStays
    <3> QED BY <2>3, <3>1, <1>1, BoundsAssumption DEF PublishedIsWhole, TypeOK
  <2> QED BY <2>1, <2>2, <2>3
<1> QED BY <1>3, <1>4, <1>5 DEF FoundStays, KilledNeverBlocks

-----------------------------------------------------------------------------

LEMMA NextInv == InstallerInv /\ [Next]_vars => InstallerInv'
<1> SUFFICES ASSUME InstallerInv, [Next]_vars PROVE InstallerInv' OBVIOUS
<1> USE DEF InstallerInv
<1>1. TypeOK' BY NextTypes
<1>2. HoldsChecked' BY NextHolds
<1>3. FoundStays' /\ PublishedIsWhole' /\ KilledNeverBlocks'
  <2>1. ASSUME NEW p \in Installers, Setup(p)
        PROVE  FoundStays' /\ PublishedIsWhole' /\ KilledNeverBlocks'
    BY <2>1, StepNames
  <2>2. ASSUME NEW p \in Installers, Kill(p)
        PROVE  FoundStays' /\ PublishedIsWhole' /\ KilledNeverBlocks'
    BY <2>2 DEF Kill, Goto, Names, TypeOK, FoundStays, PublishedIsWhole,
       KilledNeverBlocks, Verifies
  <2>3. ASSUME NEW p \in Installers, RunAgain(p)
        PROVE  FoundStays' /\ PublishedIsWhole' /\ KilledNeverBlocks'
    BY <2>3 DEF RunAgain, Goto, Names, Fixed, TypeOK, FoundStays, PublishedIsWhole,
       KilledNeverBlocks, Verifies
  <2>4. CASE Touch
    <3>1. install # NoFile => install' # NoFile
      BY <2>4, NoFileAssumption DEF Touch, Trees, Archives
    <3>2. foreign' > 0
      BY <2>4, BoundsAssumption DEF Touch, TypeOK
    <3> QED
      BY <2>4, <3>1, <3>2, BoundsAssumption
      DEF Touch, TypeOK, FoundStays, PublishedIsWhole, KilledNeverBlocks
  <2>5. CASE UNCHANGED vars
    BY <2>5 DEF vars, FoundStays, PublishedIsWhole, KilledNeverBlocks, Verifies
  <2> QED BY <2>1, <2>2, <2>3, <2>4, <2>5 DEF Next
<1> QED BY <1>1, <1>2, <1>3

(* The inductive invariant: types, what a process at a rename holds, and   *)
(* the two properties it is there for.                                     *)
THEOREM InstallerInvariant == Spec => []InstallerInv
<1>1. Init => InstallerInv BY InitInv
<1>2. InstallerInv /\ [Next]_vars => InstallerInv' BY NextInv
<1> QED BY <1>1, <1>2, PTL DEF Spec

(* setup_qemu.sh, setup_ghidra.sh: however many run and wherever they are  *)
(* killed, the installation and the cache appear whole or not at all.      *)
THEOREM NamesHoldWholeFiles == Spec => []PublishedIsWhole
<1>1. InstallerInv => PublishedIsWhole BY DEF InstallerInv
<1> QED BY <1>1, InstallerInvariant, PTL

(* "Existing installation is invalid" is never said of what a killed or a  *)
(* concurrent setup left.                                                  *)
THEOREM KilledSetupsNeverBlock == Spec => []KilledNeverBlocks
<1>1. InstallerInv => KilledNeverBlocks BY DEF InstallerInv
<1> QED BY <1>1, InstallerInvariant, PTL

(* No step of a script changes an installation that has something in it.   *)
THEOREM InstallationsStayUntouched == Spec => ExistingUntouched
<1>1. ASSUME InstallerInv, [Next]_vars, install \notin {NoFile, "empty"}, foreign' = foreign
      PROVE  install' = install
  <2>1. ASSUME NEW p \in Installers, Setup(p) PROVE install' = install
    BY <1>1, <2>1, NamesWritten DEF InstallerInv
  <2>2. ASSUME NEW p \in Installers, Kill(p) \/ RunAgain(p) PROVE install' = install
    BY <2>2 DEF Kill, RunAgain, Names
  <2>3. ~Touch
    BY <1>1 DEF Touch, InstallerInv, TypeOK
  <2> QED BY <1>1, <2>1, <2>2, <2>3 DEF Next, vars
<1>2. InstallerInv /\ [Next]_vars =>
        [install \notin {NoFile, "empty"} /\ foreign' = foreign => install' = install]_vars
  BY <1>1
<1> QED BY <1>2, InstallerInvariant, PTL DEF Spec, ExistingUntouched

(* A setup that says PASS leaves every pinned file in place, and QEMU's    *)
(* leaves no other file.                                                   *)
THEOREM PassedSetupsInstalled == Spec => PassMeansInstalled
<1>1. ASSUME InstallerInv, [Next]_vars, NEW q \in Installers,
             verdict[q] # "pass", verdict'[q] = "pass"
      PROVE  install' \in IF tool = "qemu" THEN {"pinned"} ELSE {"pinned", "repacked"}
  <2>1. ASSUME NEW p \in Installers, Setup(p)
        PROVE  install' \in IF tool = "qemu" THEN {"pinned"} ELSE {"pinned", "repacked"}
    <3>1. \/ CheckExisting(p) /\ Verifies(install)
          \/ Promote(p) /\ install \in {NoFile, "empty"}
      BY <1>1, <2>1 DEF InstallerInv, TypeOK, Goto, End, Setup, Unfit, Start, CheckExisting,
         Source, Download, CheckDownload, LookCache, MoveCache, Check, Stage, Extract,
         VerifyStage, Look, Promote, Cleanup
    <3>2. CASE CheckExisting(p) /\ Verifies(install)
      BY <3>2 DEF CheckExisting, Names, Verifies, InstallerInv, TypeOK, Tools
    <3>3. CASE Promote(p) /\ install \in {NoFile, "empty"}
      <4>1. install' = stage[p] BY <3>3 DEF Promote
      <4>2. Verifies(stage[p]) BY <1>1, <3>3 DEF Promote, InstallerInv, HoldsChecked
      <4> QED BY <4>1, <4>2 DEF Verifies
    <3> QED BY <3>1, <3>2, <3>3
  <2>2. ASSUME NEW p \in Installers, Kill(p) \/ RunAgain(p) PROVE FALSE
    BY <1>1, <2>2 DEF Kill, RunAgain, InstallerInv, TypeOK
  <2>3. ~Touch /\ ~UNCHANGED vars
    BY <1>1 DEF Touch, vars
  <2> QED BY <1>1, <2>1, <2>2, <2>3 DEF Next
<1>2. InstallerInv /\ [Next]_vars =>
        [\A p \in Installers :
           verdict[p] # "pass" /\ verdict'[p] = "pass" =>
             install' \in IF tool = "qemu" THEN {"pinned"} ELSE {"pinned", "repacked"}]_vars
  BY <1>1
<1> QED BY <1>2, InstallerInvariant, PTL DEF Spec, PassMeansInstalled

-----------------------------------------------------------------------------
(* The alignment of two traces (ProcessorFuzzPackage).                     *)

\* No key occurs twice in the trace.
Distinct(s) == \A i, j \in DOMAIN s : s[i] = s[j] => i = j

\* A key that occurs once has one place.
LEMMA OnceIsUnique ==
  ASSUME NEW S, NEW s \in Seq(S), NEW k
  PROVE  Once(s, k) <=> \E i \in DOMAIN s : s[i] = k /\ \A j \in DOMAIN s : s[j] = k => j = i
<1>1. IsFiniteSet(Occurrences(s, k))
  <2>1. IsFiniteSet(1 .. Len(s)) BY FS_Interval
  <2>2. Occurrences(s, k) \in SUBSET (1 .. Len(s)) BY DEF Occurrences
  <2> QED BY <2>1, <2>2, FS_Subset
<1>2. Once(s, k) <=> \E i : Occurrences(s, k) = {i}
  BY <1>1, FS_Singleton DEF Once
<1>3. (\E i : Occurrences(s, k) = {i})
        <=> \E i \in DOMAIN s : s[i] = k /\ \A j \in DOMAIN s : s[j] = k => j = i
  <2>1. ASSUME NEW i, Occurrences(s, k) = {i}
        PROVE  i \in DOMAIN s /\ s[i] = k /\ \A j \in DOMAIN s : s[j] = k => j = i
    <3>1. \A j : j \in {i} <=> j \in DOMAIN s /\ s[j] = k
      BY <2>1, Zenon DEF Occurrences
    <3> QED BY <3>1
  <2>2. ASSUME NEW i \in DOMAIN s, s[i] = k, \A j \in DOMAIN s : s[j] = k => j = i
        PROVE  Occurrences(s, k) = {i}
    BY <2>2 DEF Occurrences
  <2> QED BY <2>1, <2>2
<1> QED BY <1>2, <1>3

\* In such a trace the place of the i-th key is i.
LEMMA PlaceOfKey ==
  ASSUME NEW S, NEW s \in Seq(S), Distinct(s), NEW i \in DOMAIN s
  PROVE  Place(s, s[i]) = i
<1>1. \E j \in DOMAIN s : s[j] = s[i] OBVIOUS
<1> QED BY <1>1 DEF Place, Distinct

\* The keys up to a place are as many as the place says.
LEMMA KeysUpTo ==
  ASSUME NEW S, NEW s \in Seq(S), Distinct(s), NEW i \in DOMAIN s
  PROVE  Cardinality({k \in Keys(s) : Place(s, k) <= i}) = i
<1> DEFINE upTo == {k \in Keys(s) : Place(s, k) <= i}
           f == [j \in 1 .. i |-> s[j]]
<1>1. i \in Nat /\ 1 .. i \subseteq DOMAIN s OBVIOUS
<1>2. \A j \in 1 .. i : s[j] \in upTo
  BY <1>1, PlaceOfKey DEF Keys
<1>3. \A k \in upTo : \E j \in 1 .. i : s[j] = k
  <2> SUFFICES ASSUME NEW k \in upTo PROVE \E j \in 1 .. i : s[j] = k
    OBVIOUS
  <2>1. PICK j \in DOMAIN s : s[j] = k BY DEF Keys
  <2>2. j <= i BY <2>1, PlaceOfKey
  <2> QED BY <2>1, <2>2
<1>4. f \in Bijection(1 .. i, upTo)
  <2>1. f \in [1 .. i -> upTo] BY <1>2
  <2>2. \A a, b \in 1 .. i : f[a] = f[b] => a = b BY <1>1 DEF Distinct
  <2>3. \A k \in upTo : \E j \in 1 .. i : f[j] = k BY <1>3
  <2> HIDE DEF f, upTo
  <2> QED BY <2>1, <2>2, <2>3, Fun_IsBij
<1>5. ExistsBijection(1 .. i, upTo) BY <1>4 DEF ExistsBijection
<1> HIDE DEF upTo
<1>6. Cardinality(upTo) = i BY <1>1, <1>5, FS_CountingElements
<1> QED BY <1>6 DEF upTo

\* A trace has as many keys as instructions exactly if none occurs twice.
LEMMA DistinctCount ==
  ASSUME NEW S, NEW s \in Seq(S)
  PROVE  Distinct(s) <=> Cardinality(Keys(s)) = Len(s)
<1>1. s \in [1 .. Len(s) -> Keys(s)] /\ Len(s) \in Nat BY DEF Keys
<1>2. s \in Surjection(1 .. Len(s), Keys(s)) BY <1>1, Fun_IsSurj DEF Keys
<1>3. IsFiniteSet(1 .. Len(s)) /\ Cardinality(1 .. Len(s)) = Len(s)
  <2>1. 1 \in Int /\ Len(s) \in Int BY <1>1
  <2>2. /\ IsFiniteSet(1 .. Len(s))
        /\ Cardinality(1 .. Len(s)) = IF 1 > Len(s) THEN 0 ELSE Len(s) - 1 + 1
    BY <2>1, FS_Interval
  <2>3. (IF 1 > Len(s) THEN 0 ELSE Len(s) - 1 + 1) = Len(s) BY <1>1
  <2> QED BY <2>2, <2>3
<1>4. Cardinality(Keys(s)) = Len(s) <=> s \in Injection(1 .. Len(s), Keys(s))
  BY <1>2, <1>3, FS_Surjection
<1>5. s \in Injection(1 .. Len(s), Keys(s)) <=> Distinct(s)
  BY <1>1 DEF Injection, IsInjective, Distinct
<1> QED BY <1>4, <1>5

(* align_traces: BOUND is said of two traces exactly if they are the same   *)
(* and no instruction occurs twice.  Unique pairs in a consistent order     *)
(* have, up to any key, the same keys before them in both traces, so each   *)
(* key is at the place that their number says.                             *)
LEMMA BoundIsSameOrder ==
  ASSUME NEW S, NEW rtl \in Seq(S), NEW T, NEW isa \in Seq(T)
  PROVE  Alignment(rtl, isa) = "BOUND" <=> rtl = isa /\ Cardinality(Keys(rtl)) = Len(rtl)
<1>1. ASSUME Alignment(rtl, isa) = "BOUND"
      PROVE  rtl = isa /\ Distinct(rtl)
  <2>1. /\ AmbiguousKeys(rtl, isa) = {}
        /\ MissingKeys(rtl, isa) = {}
        /\ Keys(isa) \ Keys(rtl) = {}
        /\ OrderConsistent(rtl, isa)
    BY <1>1 DEF Alignment
  <2>2. Keys(rtl) = Keys(isa) /\ UniquePairs(rtl, isa) = Keys(rtl)
    BY <2>1 DEF AmbiguousKeys, MissingKeys, UniquePairs
  <2>3. \A k \in Keys(rtl) : Once(rtl, k) /\ Once(isa, k)
    BY <2>2 DEF UniquePairs
  <2>4. Distinct(rtl)
    <3> SUFFICES ASSUME NEW i \in DOMAIN rtl, NEW j \in DOMAIN rtl, rtl[i] = rtl[j]
                 PROVE  i = j
      BY DEF Distinct
    <3>1. Once(rtl, rtl[i]) BY <2>3 DEF Keys
    <3> QED BY <3>1, OnceIsUnique
  <2>5. Distinct(isa)
    <3> SUFFICES ASSUME NEW i \in DOMAIN isa, NEW j \in DOMAIN isa, isa[i] = isa[j]
                 PROVE  i = j
      BY DEF Distinct
    <3>1. Once(isa, isa[i]) BY <2>2, <2>3 DEF Keys
    <3> QED BY <3>1, OnceIsUnique
  <2>6. \A k \in Keys(rtl) : /\ Place(rtl, k) \in DOMAIN rtl /\ rtl[Place(rtl, k)] = k
                             /\ Place(isa, k) \in DOMAIN isa /\ isa[Place(isa, k)] = k
    BY <2>2 DEF Place, Keys
  <2>7. \A j, k \in Keys(rtl) : Place(rtl, j) <= Place(rtl, k) <=> Place(isa, j) <= Place(isa, k)
    <3> SUFFICES ASSUME NEW j \in Keys(rtl), NEW k \in Keys(rtl)
                 PROVE  Place(rtl, j) <= Place(rtl, k) <=> Place(isa, j) <= Place(isa, k)
      OBVIOUS
    <3>1. CASE j = k BY <3>1, <2>6
    <3>2. CASE j # k
      <4>1. /\ Place(rtl, j) < Place(rtl, k) => Place(isa, j) < Place(isa, k)
            /\ Place(rtl, k) < Place(rtl, j) => Place(isa, k) < Place(isa, j)
        BY <2>1, <2>2 DEF OrderConsistent
      <4>2. /\ Place(rtl, j) \in Nat /\ Place(rtl, k) \in Nat
            /\ Place(isa, j) \in Nat /\ Place(isa, k) \in Nat
            /\ Place(rtl, j) # Place(rtl, k) /\ Place(isa, j) # Place(isa, k)
        BY <2>6, <3>2
      <4> QED BY <4>1, <4>2
    <3> QED BY <3>1, <3>2
  <2>8. \A k \in Keys(rtl) : Place(rtl, k) = Place(isa, k)
    <3> SUFFICES ASSUME NEW k \in Keys(rtl) PROVE Place(rtl, k) = Place(isa, k)
      OBVIOUS
    <3>1. {j \in Keys(rtl) : Place(rtl, j) <= Place(rtl, k)}
            = {j \in Keys(isa) : Place(isa, j) <= Place(isa, k)}
      BY <2>2, <2>7
    <3>2. /\ Cardinality({j \in Keys(rtl) : Place(rtl, j) <= Place(rtl, k)}) = Place(rtl, k)
          /\ Cardinality({j \in Keys(isa) : Place(isa, j) <= Place(isa, k)}) = Place(isa, k)
      BY <2>4, <2>5, <2>6, KeysUpTo
    <3> QED BY <3>1, <3>2
  <2>9. \A i \in DOMAIN rtl : i \in DOMAIN isa /\ isa[i] = rtl[i]
    BY <2>4, <2>6, <2>8, PlaceOfKey DEF Keys
  <2>10. \A i \in DOMAIN isa : i \in DOMAIN rtl
    BY <2>2, <2>5, <2>6, <2>8, PlaceOfKey DEF Keys
  <2>11. rtl = isa
    <3>1. DOMAIN rtl = DOMAIN isa BY <2>9, <2>10
    <3>2. Len(rtl) = Len(isa) BY <3>1
    <3> QED BY <2>9, <3>1, <3>2
  <2> QED BY <2>4, <2>11
<1>2. ASSUME rtl = isa, Distinct(rtl)
      PROVE  Alignment(rtl, isa) = "BOUND"
  <2>1. \A k \in Keys(rtl) : Once(rtl, k)
    BY <1>2, OnceIsUnique DEF Keys, Distinct
  <2>2. UniquePairs(rtl, isa) = Keys(rtl) BY <1>2, <2>1 DEF UniquePairs
  <2>3. AmbiguousKeys(rtl, isa) = {} /\ MissingKeys(rtl, isa) = {}
    BY <1>2, <2>2 DEF AmbiguousKeys, MissingKeys
  <2>4. OrderConsistent(rtl, isa) BY <1>2 DEF OrderConsistent
  <2> QED BY <1>2, <2>3, <2>4 DEF Alignment
<1> QED BY <1>1, <1>2, DistinctCount

-----------------------------------------------------------------------------
(* Types of the analyses and of the preparation (CaseAssembly).            *)

\* Every analysis of every scenario, and every text a directory may hold.
Tasks == UNION {{s.tasks[r] : r \in DOMAIN s.tasks} : s \in Scenarios}
Texts == {None, Torn} \cup {Result(task, name) : task \in Tasks, name \in FileNames}

RunSteps     == {"waiting", "analysing", "writing", "done", "failed", "killed"}
PrepareSteps == {"waiting", "validating", "rejected"} \cup Validation

CaseTypeOK ==
  /\ run \in [DOMAIN run -> [task : Tasks, next : Nat, step : RunSteps]]
  /\ dir \in [Sides -> [FileNames -> Texts]]
  /\ prepare \in [step : PrepareSteps, next : 1 .. 15,
                  read : [Sides -> [FileNames -> Texts]],
                  again : [1 .. 4 -> Texts],
                  projection : {prepare.projection}]
  /\ prepare.step = "waiting" => prepare.next = 1
  /\ prepare.step = "reading_again" => prepare.next \in 1 .. 4
  /\ outputBusy \in BOOLEAN
  /\ steady \in BOOLEAN

\* The order of the reading, the files that are read again, the file names.
LEMMA ValidatedIs ==
  /\ Len(Validated) = 15
  /\ Validated[1] = <<"firmware", "analysis">>
  /\ Validated[2] = <<"firmware", "firmware-summary">>
  /\ Validated[3] = <<"firmware", "export">>
  /\ Validated[4] = <<"hardware", "si">>
  /\ Validated[5] = <<"hardware", "analysis">>
  /\ Validated[6] = <<"hardware", "firmware-summary">>
  /\ Validated[7] = <<"hardware", "export">>
  /\ Validated[8] = <<"hardware", "manifest">>
  /\ Validated[9] = <<"hardware", "summary">>
  /\ Validated[10] = <<"hardware", "capabilities">>
  /\ Validated[11] = <<"hardware", "resources">>
  /\ Validated[12] = <<"hardware", "candidates">>
  /\ Validated[13] = <<"hardware", "differential">>
  /\ Validated[14] = <<"hardware", "rtl">>
  /\ Validated[15] = <<"hardware", "isa">>
BY DEF Validated

LEMMA ReadAgainIs ==
  /\ Len(ReadAgain) = 4
  /\ DOMAIN ReadAgain = 1 .. 4
  /\ ReadAgain[1] = "differential"
  /\ ReadAgain[2] = "rtl"
  /\ ReadAgain[3] = "isa"
  /\ ReadAgain[4] = "differential"
BY DEF ReadAgain

LEMMA FileNamesAre ==
  FileNames = {"manifest", "si", "analysis", "firmware-summary", "export", "rtl", "isa",
               "differential", "capabilities", "resources", "candidates", "summary"}
<1>1. DOMAIN Files = 1 .. 12 BY DEF Files
<1>2. \A i \in 1 .. 12 : i \in {1, 2, 3, 4, 5, 6, 7, 8, 9, 10, 11, 12}
  OBVIOUS
<1>3. /\ Files[1] = "manifest" /\ Files[2] = "si" /\ Files[3] = "analysis"
      /\ Files[4] = "firmware-summary" /\ Files[5] = "export" /\ Files[6] = "rtl"
      /\ Files[7] = "isa" /\ Files[8] = "differential" /\ Files[9] = "capabilities"
      /\ Files[10] = "resources" /\ Files[11] = "candidates" /\ Files[12] = "summary"
  BY DEF Files
<1>4. \A x : x \in FileNames => x \in {"manifest", "si", "analysis", "firmware-summary", "export",
        "rtl", "isa", "differential", "capabilities", "resources", "candidates", "summary"}
  BY <1>1, <1>2, <1>3 DEF FileNames
<1>5. \A x \in {"manifest", "si", "analysis", "firmware-summary", "export",
        "rtl", "isa", "differential", "capabilities", "resources", "candidates", "summary"} :
        x \in FileNames
  <2>1. \A i \in 1 .. 12 : Files[i] \in FileNames BY <1>1 DEF FileNames
  <2>2. \A i \in {1, 2, 3, 4, 5, 6, 7, 8, 9, 10, 11, 12} : i \in 1 .. 12 OBVIOUS
  <2> QED BY <2>1, <2>2, <1>3
<1> QED BY <1>4, <1>5

\* Every place of the reading is a file of a side, and no file is read twice.
LEMMA ValidatedFiles ==
  /\ \A i \in 1 .. 15 : Validated[i][1] \in Sides /\ Validated[i][2] \in FileNames
  /\ \A i, j \in 1 .. 15 :
       Validated[i][1] = Validated[j][1] /\ Validated[i][2] = Validated[j][2] => i = j
<1>1. \A i \in 1 .. 15 : i \in {1, 2, 3, 4, 5, 6, 7, 8, 9, 10, 11, 12, 13, 14, 15}
  OBVIOUS
<1>2. \A i \in 1 .. 15 : Validated[i][1] \in Sides /\ Validated[i][2] \in FileNames
  BY <1>1, ValidatedIs, FileNamesAre DEF Sides
<1>3. ASSUME NEW i \in 1 .. 15, NEW j \in 1 .. 15,
             Validated[i][1] = Validated[j][1], Validated[i][2] = Validated[j][2]
      PROVE  i = j
  BY <1>1, <1>3, ValidatedIs
<1> QED BY <1>2, <1>3

\* What the assumption on the scenarios says of one task.
LEMMA GivenTasks ==
  ASSUME NEW task \in Tasks
  PROVE  /\ task.side \in Sides
         /\ task.side = "firmware" => task.elf \in Elfs
         /\ task.side = "hardware" =>
              IsTrace(task.package.rtl_trace) /\ IsTrace(task.package.isa_csv)
         /\ Analysable(task) => Writable(task)
<1>1. PICK s \in Scenarios : \E r \in DOMAIN s.tasks : task = s.tasks[r]
  BY DEF Tasks
<1>2. PICK r \in DOMAIN s.tasks : task = s.tasks[r]
  BY <1>1
<1> QED BY <1>2, ScenariosAssumption, SMT DEF Sides

-----------------------------------------------------------------------------

LEMMA CaseInitTypes == CaseInit => CaseTypeOK
<1> SUFFICES ASSUME CaseInit PROVE CaseTypeOK OBVIOUS
<1>1. PICK s \in Scenarios :
    /\ run = [r \in DOMAIN s.tasks |->
                [task |-> s.tasks[r], next |-> 1,
                 step |-> IF r \in s.finished THEN "done"
                          ELSE IF r \in s.started THEN "analysing"
                          ELSE "waiting"]]
    /\ dir = [side \in Sides |->
                IF \E r \in s.finished : s.tasks[r].side = side
                THEN Results(s.tasks[CHOOSE r \in s.finished : s.tasks[r].side = side])
                ELSE EmptyDir]
    /\ runtime = s.runtime
    /\ outputBusy = s.outputBusy
    /\ prepare = [step |-> "waiting", next |-> 1, read |-> NoRead,
                  again |-> [i \in DOMAIN ReadAgain |-> None], projection |-> None]
    /\ steady = FALSE
  BY DEF CaseInit
<1>2. \A r \in DOMAIN s.tasks : s.tasks[r] \in Tasks BY DEF Tasks
<1>3. run \in [DOMAIN run -> [task : Tasks, next : Nat, step : RunSteps]]
  BY <1>1, <1>2 DEF RunSteps
<1>4. EmptyDir \in [FileNames -> Texts] BY DEF EmptyDir, Texts
<1>5. ASSUME NEW side \in Sides PROVE dir[side] \in [FileNames -> Texts]
  <2>1. CASE \E r \in s.finished : s.tasks[r].side = side
    <3> DEFINE r == CHOOSE r \in s.finished : s.tasks[r].side = side
    <3>1. r \in s.finished BY <2>1
    <3>2. s.tasks[r] \in Tasks BY <3>1, <1>2, ScenariosAssumption
    <3>3. dir[side] = Results(s.tasks[r]) BY <1>1, <2>1
    <3> HIDE DEF r
    <3> QED BY <3>2, <3>3 DEF Results, Texts
  <2>2. CASE ~\E r \in s.finished : s.tasks[r].side = side
    BY <2>2, <1>1, <1>4
  <2> QED BY <2>1, <2>2
<1>6. dir \in [Sides -> [FileNames -> Texts]] BY <1>1, <1>5
<1>7. NoRead \in [Sides -> [FileNames -> Texts]] BY <1>4 DEF NoRead
<1>8. [i \in DOMAIN ReadAgain |-> None] \in [1 .. 4 -> Texts] BY ReadAgainIs DEF Texts
<1>9. prepare \in [step : PrepareSteps, next : 1 .. 15,
                  read : [Sides -> [FileNames -> Texts]],
                  again : [1 .. 4 -> Texts],
                  projection : {prepare.projection}]
  BY <1>1, <1>7, <1>8 DEF PrepareSteps
<1>10. outputBusy \in BOOLEAN BY <1>1, ScenariosAssumption
<1> QED BY <1>1, <1>3, <1>6, <1>9, <1>10 DEF CaseTypeOK

-----------------------------------------------------------------------------
(* What each step does to the parts of the state.                          *)

RunType == [task : Tasks, next : Nat, step : RunSteps]

\* What a step of an analysis does to the analyses.
LEMMA RunStep ==
  ASSUME CaseTypeOK, NEW r \in DOMAIN run,
         StartRun(r) \/ Analysed(r) \/ Write(r) \/ KillRun(r)
  PROVE  /\ UNCHANGED <<prepare, runtime, outputBusy>>
         /\ DOMAIN run' = DOMAIN run
         /\ run' \in [DOMAIN run -> RunType]
         /\ \A q \in DOMAIN run : q # r => run'[q] = run[q]
         /\ run'[r].task = run[r].task
         /\ run[r].step \in {"waiting", "analysing", "writing"}
         /\ run'[r].step = "writing" => run[r].step \in {"analysing", "writing"}
         /\ run'[r].step # "waiting"
         /\ run[r].step = "writing" => run'[r].step \in {"writing", "done", "killed"}
         /\ run[r].step = "waiting" =>
              run'[r].step = (IF Refuses(run[r].task) THEN "failed" ELSE "analysing")
         /\ run[r].step = "analysing" => run'[r].step \in {"failed", "writing", "killed"}
<1>1. run \in [DOMAIN run -> RunType] BY DEF CaseTypeOK, RunType
<1>2. run[r] \in RunType BY <1>1
<1>3. PICK n \in Nat, step \in RunSteps :
        /\ run' = [run EXCEPT ![r] = [task |-> run[r].task, next |-> n, step |-> step]]
        /\ \/ run[r].step = "waiting" /\ step = (IF Refuses(run[r].task) THEN "failed" ELSE "analysing")
           \/ run[r].step = "analysing" /\ step \in {"failed", "writing", "killed"}
           \/ run[r].step = "writing" /\ step \in {"writing", "done", "killed"}
  <2>1. CASE StartRun(r)
    <3> DEFINE step == IF Refuses(run[r].task) THEN "failed" ELSE "analysing"
    <3>1. run' = [run EXCEPT ![r].step = step] /\ run[r].step = "waiting"
      BY <2>1 DEF StartRun
    <3>2. step \in RunSteps BY DEF RunSteps
    <3> HIDE DEF step
    <3>3. [run[r] EXCEPT !.step = step]
            = [task |-> run[r].task, next |-> run[r].next, step |-> step]
      BY <1>2 DEF RunType
    <3>4. run' = [run EXCEPT ![r] = [task |-> run[r].task, next |-> run[r].next, step |-> step]]
      BY <3>1, <3>3
    <3>5. run[r].next \in Nat BY <1>2 DEF RunType
    <3> QED BY <3>1, <3>2, <3>4, <3>5 DEF step
  <2>2. CASE Analysed(r)
    <3>1. PICK step \in {"failed", "writing"} : run' = [run EXCEPT ![r].step = step]
      BY <2>2 DEF Analysed
    <3>2. run[r].step = "analysing" BY <2>2 DEF Analysed
    <3>3. [run[r] EXCEPT !.step = step]
            = [task |-> run[r].task, next |-> run[r].next, step |-> step]
      BY <1>2 DEF RunType
    <3>4. run' = [run EXCEPT ![r] = [task |-> run[r].task, next |-> run[r].next, step |-> step]]
      BY <3>1, <3>3
    <3>5. run[r].next \in Nat BY <1>2 DEF RunType
    <3>6. step \in RunSteps BY DEF RunSteps
    <3> QED BY <3>2, <3>4, <3>5, <3>6
  <2>3. CASE Write(r)
    <3> DEFINE step == IF Last(r) THEN "done" ELSE run[r].step
    <3>1. run' = [run EXCEPT ![r].next = @ + 1, ![r].step = IF Last(r) THEN "done" ELSE @]
      BY <2>3 DEF Write
    <3>2. run[r].step = "writing" BY <2>3 DEF Write
    <3>3. step \in {"done", "writing"} BY <3>2
    <3>4. run' = [run EXCEPT ![r] = [task |-> run[r].task, next |-> run[r].next + 1, step |-> step]]
      <4> DEFINE mid == [run EXCEPT ![r].next = @ + 1]
                 m == run[r].next + 1
      <4>1. run' = [mid EXCEPT ![r].step = IF Last(r) THEN "done" ELSE @] BY <3>1
      <4>2. mid = [run EXCEPT ![r] = [run[r] EXCEPT !.next = m]] OBVIOUS
      <4> HIDE DEF m
      <4>3. [run[r] EXCEPT !.next = m] = [task |-> run[r].task, next |-> m, step |-> run[r].step]
        BY <1>2 DEF RunType
      <4>4. mid = [run EXCEPT ![r] = [task |-> run[r].task, next |-> m, step |-> run[r].step]]
        BY <4>2, <4>3
      <4> HIDE DEF mid
      <4>5. mid[r] = [task |-> run[r].task, next |-> m, step |-> run[r].step]
            /\ DOMAIN mid = DOMAIN run /\ \A q \in DOMAIN run : q # r => mid[q] = run[q]
        BY <1>1, <4>4
      <4>6. run' = [mid EXCEPT ![r] = [mid[r] EXCEPT !.step = step]] BY <4>1, <4>5
      <4> HIDE DEF step
      <4>7. [mid[r] EXCEPT !.step = step] = [task |-> run[r].task, next |-> m, step |-> step]
        BY <4>5
      <4>8. run' = [run EXCEPT ![r] = [task |-> run[r].task, next |-> m, step |-> step]]
        BY <1>1, <4>4, <4>6, <4>7
      <4> QED BY <4>8 DEF m
    <3>5. run[r].next + 1 \in Nat BY <1>2 DEF RunType
    <3>6. step \in RunSteps BY <3>3 DEF RunSteps
    <3> QED BY <3>2, <3>3, <3>4, <3>5, <3>6
  <2>4. CASE KillRun(r)
    <3>1. run' = [run EXCEPT ![r].step = "killed"] /\ run[r].step \in {"analysing", "writing"}
      BY <2>4 DEF KillRun
    <3>2. [run[r] EXCEPT !.step = "killed"]
            = [task |-> run[r].task, next |-> run[r].next, step |-> "killed"]
      BY <1>2 DEF RunType
    <3>3. run' = [run EXCEPT ![r] = [task |-> run[r].task, next |-> run[r].next, step |-> "killed"]]
      BY <3>1, <3>2
    <3>4. run[r].next \in Nat BY <1>2 DEF RunType
    <3>5. "killed" \in RunSteps BY DEF RunSteps
    <3> QED BY <3>1, <3>3, <3>4, <3>5
  <2> QED BY <2>1, <2>2, <2>3, <2>4
<1>4. UNCHANGED <<prepare, runtime, outputBusy>>
  BY DEF StartRun, Analysed, Write, KillRun
<1>5. run' \in [DOMAIN run -> RunType] BY <1>1, <1>2, <1>3 DEF RunType
<1>6. run'[r] = [task |-> run[r].task, next |-> n, step |-> step] BY <1>1, <1>3
<1>7. \A q \in DOMAIN run : q # r => run'[q] = run[q] BY <1>1, <1>3
<1>8. DOMAIN run' = DOMAIN run BY <1>5
<1> QED BY <1>3, <1>4, <1>5, <1>6, <1>7, <1>8

\* What an analysis does to the directories: nothing, or one file of its side is
\* its own text or torn.
LEMMA RunDir ==
  ASSUME CaseTypeOK, NEW r \in DOMAIN run,
         StartRun(r) \/ Analysed(r) \/ Write(r) \/ KillRun(r)
  PROVE  /\ dir' \in [Sides -> [FileNames -> Texts]]
         /\ dir' # dir => run[r].step = "writing"
         /\ \A side \in Sides, name \in FileNames :
              \/ dir'[side][name] \in {dir[side][name], Torn}
              \/ /\ run[r].step = "writing"
                 /\ run[r].task.side = side
                 /\ dir'[side][name] = Result(run[r].task, name)
<1>1. run[r].task \in Tasks /\ dir \in [Sides -> [FileNames -> Texts]]
  BY DEF CaseTypeOK
<1>2. CASE dir' = dir BY <1>1, <1>2
<1>3. ASSUME run[r].step = "writing",
             NEW text \in {Result(run[r].task, Current(r)), Torn},
             dir' = [dir EXCEPT ![run[r].task.side][Current(r)] = text]
      PROVE  /\ dir' \in [Sides -> [FileNames -> Texts]]
             /\ \A side \in Sides, name \in FileNames :
                  \/ dir'[side][name] \in {dir[side][name], Torn}
                  \/ /\ run[r].step = "writing"
                     /\ run[r].task.side = side
                     /\ dir'[side][name] = Result(run[r].task, name)
  <2> DEFINE own == run[r].task.side
             file == Current(r)
  <2>1. \A side \in Sides, name \in FileNames :
          dir'[side][name] = IF side = own /\ name = file THEN text ELSE dir[side][name]
    BY <1>1, <1>3
  <2>2. \A name \in FileNames : name = file => text \in Texts
    BY <1>1, <1>3 DEF Texts
  <2>3. dir' = [side \in Sides |-> [name \in FileNames |->
                   IF side = own /\ name = file THEN text ELSE dir[side][name]]]
    BY <1>1, <1>3
  <2> HIDE DEF own, file
  <2>4. dir' \in [Sides -> [FileNames -> Texts]] BY <1>1, <2>2, <2>3
  <2> QED BY <1>3, <2>1, <2>4 DEF own, file
<1>4. CASE Write(r)
  <2>1. run[r].step = "writing" BY <1>4 DEF Write
  <2>2. PICK text \in {Result(run[r].task, Current(r)), Torn} :
          dir' = [dir EXCEPT ![run[r].task.side][Current(r)] = text]
    BY <1>4 DEF Write
  <2> QED BY <1>3, <2>1, <2>2
<1>5. CASE KillRun(r) /\ dir' # dir
  <2>1. run[r].step = "writing" /\ dir' = [dir EXCEPT ![run[r].task.side][Current(r)] = Torn]
    BY <1>5 DEF KillRun
  <2> QED BY <1>3, <2>1
<1> QED BY <1>2, <1>4, <1>5 DEF StartRun, Analysed

\* No step of the preparation touches a directory or an analysis.
LEMMA PrepareStep ==
  ASSUME Assemble
  PROVE  UNCHANGED <<dir, run, runtime>>
BY DEF Assemble, Begin, Validate, Reread, Project, Publish, Reject

\* The parts of `prepare` after a file has been read and found to fit.
Accepts(i) ==
  LET side == Validated[i][1] name == Validated[i][2] IN
  /\ prepare.step = "validating" /\ prepare.next = i
  /\ Fit(side, name)
  /\ prepare' = [step |-> IF i = 15 THEN "reading_again" ELSE "validating",
                 next |-> IF i = 15 THEN 1 ELSE i + 1,
                 read |-> [prepare.read EXCEPT ![side][name] = dir[side][name]],
                 again |-> prepare.again, projection |-> prepare.projection]
  /\ UNCHANGED <<outputBusy, steady>>

\* ... and after one has been read again.
AcceptsAgain(i) ==
  LET name == ReadAgain[i] IN
  /\ prepare.step = "reading_again" /\ prepare.next = i
  /\ MustBeAbsent(name) \/ dir["hardware"][name] \notin {None, Torn}
  /\ \E text \in {None, dir["hardware"][name]} :
       prepare' = [step |-> IF i = 4 THEN "projecting" ELSE "reading_again",
                   next |-> IF i = 4 THEN 1 ELSE i + 1,
                   read |-> prepare.read,
                   again |-> [prepare.again EXCEPT ![i] = text],
                   projection |-> prepare.projection]
  /\ UNCHANGED <<outputBusy, steady>>

\* Nothing but the step changes.
Goes(step) ==
  prepare' = [step |-> step, next |-> prepare.next, read |-> prepare.read,
              again |-> prepare.again, projection |-> prepare.projection]

Rejects == Goes("rejected") /\ UNCHANGED <<outputBusy, steady>>

PrepareType(p) ==
  p \in [step : PrepareSteps, next : 1 .. 15, read : [Sides -> [FileNames -> Texts]],
         again : [1 .. 4 -> Texts], projection : {p.projection}]

LEMMA RejectStep ==
  ASSUME CaseTypeOK, Reject
  PROVE  Rejects
BY DEF CaseTypeOK, Reject, Rejects, Goes

\* One reading: it is accepted as above, or the case is rejected.
LEMMA ValidateStep ==
  ASSUME CaseTypeOK, Validate
  PROVE  \/ \E i \in 1 .. 15 : Accepts(i)
         \/ /\ Rejects
            /\ prepare.step = "validating"
            /\ LET i == prepare.next IN
               \/ ~Fit(Validated[i][1], Validated[i][2])
               \/ Writing(Validated[i][1], Validated[i][2]) # {}
<1>1. PICK i \in 1 .. 15 : i = prepare.next BY DEF CaseTypeOK
<1>2. prepare.step = "validating" BY DEF Validate
<1> DEFINE side == Validated[i][1]
           name == Validated[i][2]
<1>3. CASE /\ Fit(side, name)
           /\ prepare' = [prepare EXCEPT
                         !.read[side][name] = dir[side][name],
                         !.next = IF @ = Len(Validated) THEN 1 ELSE @ + 1,
                         !.step = IF prepare.next = Len(Validated) THEN "reading_again" ELSE @]
           /\ UNCHANGED <<dir, run, runtime, outputBusy, steady>>
  <2> DEFINE n == IF i = 15 THEN 1 ELSE i + 1
             step == IF i = 15 THEN "reading_again" ELSE "validating"
             read == [prepare.read EXCEPT ![side][name] = dir[side][name]]
  <2>1. prepare = [step |-> prepare.step, next |-> prepare.next, read |-> prepare.read,
                   again |-> prepare.again, projection |-> prepare.projection]
    BY DEF CaseTypeOK
  <2>2. prepare' = [step |-> step, next |-> n, read |-> read,
                    again |-> prepare.again, projection |-> prepare.projection]
    <3> HIDE DEF side, name
    <3>1. prepare' = [prepare EXCEPT !.read[side][name] = dir[side][name],
                                     !.next = n, !.step = step]
      BY <1>1, <1>2, <1>3, ValidatedIs
    <3>2. prepare' = [[[prepare EXCEPT !.read = read] EXCEPT !.next = n] EXCEPT !.step = step]
      BY <3>1
    <3> HIDE DEF n, step, read
    <3> QED BY <2>1, <3>2
  <2> QED BY <1>1, <1>2, <1>3, <2>2 DEF Accepts
<1>4. CASE /\ ~Fit(side, name) \/ Writing(side, name) # {}
           /\ Reject
  BY <1>1, <1>2, <1>4, RejectStep
<1> QED BY <1>1, <1>3, <1>4 DEF Validate

\* One reading of the second pass.
LEMMA RereadStep ==
  ASSUME CaseTypeOK, Reread
  PROVE  \/ \E i \in 1 .. 4 : AcceptsAgain(i)
         \/ /\ Rejects
            /\ prepare.step = "reading_again"
            /\ prepare.next \in 1 .. 4
            /\ LET name == ReadAgain[prepare.next] IN
               /\ ~MustBeAbsent(name)
               /\ \/ dir["hardware"][name] \in {None, Torn}
                  \/ Writing("hardware", name) # {}
<1>1. prepare.step = "reading_again" BY DEF Reread
<1>2. PICK i \in 1 .. 4 : i = prepare.next BY <1>1 DEF CaseTypeOK
<1> DEFINE name == ReadAgain[i]
           text == IF MustBeAbsent(name) THEN None ELSE dir["hardware"][name]
<1>3. CASE /\ MustBeAbsent(name) \/ dir["hardware"][name] \notin {None, Torn}
           /\ prepare' = [prepare EXCEPT
                         !.again[prepare.next] = text,
                         !.next = IF @ = Len(ReadAgain) THEN 1 ELSE @ + 1,
                         !.step = IF prepare.next = Len(ReadAgain) THEN "projecting" ELSE @]
           /\ UNCHANGED <<dir, run, runtime, outputBusy, steady>>
  <2> DEFINE n == IF i = 4 THEN 1 ELSE i + 1
             step == IF i = 4 THEN "projecting" ELSE "reading_again"
             again == [prepare.again EXCEPT ![i] = text]
  <2>1. prepare = [step |-> prepare.step, next |-> prepare.next, read |-> prepare.read,
                   again |-> prepare.again, projection |-> prepare.projection]
    BY DEF CaseTypeOK
  <2>2. prepare' = [step |-> step, next |-> n, read |-> prepare.read,
                    again |-> again, projection |-> prepare.projection]
    <3> HIDE DEF text, name
    <3>1. prepare' = [prepare EXCEPT !.again[i] = text, !.next = n, !.step = step]
      BY <1>1, <1>2, <1>3, ReadAgainIs
    <3>2. prepare' = [[[prepare EXCEPT !.again = again] EXCEPT !.next = n] EXCEPT !.step = step]
      BY <3>1
    <3> HIDE DEF n, step, again
    <3> QED BY <2>1, <3>2
  <2>3. text \in {None, dir["hardware"][name]} OBVIOUS
  <2> HIDE DEF text
  <2>4. \E t \in {None, dir["hardware"][name]} :
          prepare' = [step |-> IF i = 4 THEN "projecting" ELSE "reading_again",
                   next |-> IF i = 4 THEN 1 ELSE i + 1,
                   read |-> prepare.read,
                   again |-> [prepare.again EXCEPT ![i] = t],
                   projection |-> prepare.projection]
    BY <2>2, <2>3
  <2> QED BY <1>1, <1>2, <1>3, <2>4 DEF AcceptsAgain
<1>4. CASE /\ ~MustBeAbsent(name)
           /\ dir["hardware"][name] \in {None, Torn} \/ Writing("hardware", name) # {}
           /\ Reject
  BY <1>1, <1>2, <1>4, RejectStep
<1> QED BY <1>2, <1>3, <1>4 DEF Reread

\* What the three remaining steps do to the preparation.
LEMMA OtherSteps ==
  ASSUME CaseTypeOK
  PROVE  /\ Begin => prepare.step = "waiting" /\ Goes("validating") /\ UNCHANGED outputBusy
         /\ Project =>
              /\ prepare.step = "projecting"
              /\ \/ /\ Rejects
                    /\ runtime # None
                    /\ runtime.elf # prepare.read["firmware"]["analysis"]
                 \/ /\ prepare' = [step |-> "publishing", next |-> prepare.next,
                                   read |-> prepare.read, again |-> prepare.again,
                                   projection |-> IF runtime = None THEN None
                                                  ELSE Projection(runtime)]
                    /\ runtime # None => runtime.elf = prepare.read["firmware"]["analysis"]
                    /\ UNCHANGED <<outputBusy, steady>>
         /\ Publish =>
              /\ prepare.step = "publishing"
              /\ \/ Rejects /\ outputBusy
                 \/ Goes("done") /\ UNCHANGED steady /\ outputBusy' = TRUE
<1>1. prepare = [step |-> prepare.step, next |-> prepare.next, read |-> prepare.read,
                 again |-> prepare.again, projection |-> prepare.projection]
  BY DEF CaseTypeOK
<1>2. Begin => prepare.step = "waiting" /\ Goes("validating") /\ UNCHANGED outputBusy
  BY <1>1 DEF Begin, Goes
<1>3. Publish =>
              /\ prepare.step = "publishing"
              /\ \/ Rejects /\ outputBusy
                 \/ Goes("done") /\ UNCHANGED steady /\ outputBusy' = TRUE
  BY <1>1, RejectStep DEF Publish, Goes
<1>4. ASSUME Project
      PROVE   /\ prepare.step = "projecting"
              /\ \/ /\ Rejects
                    /\ runtime # None
                    /\ runtime.elf # prepare.read["firmware"]["analysis"]
                 \/ /\ prepare' = [step |-> "publishing", next |-> prepare.next,
                                   read |-> prepare.read, again |-> prepare.again,
                                   projection |-> IF runtime = None THEN None
                                                  ELSE Projection(runtime)]
                    /\ runtime # None => runtime.elf = prepare.read["firmware"]["analysis"]
                    /\ UNCHANGED <<outputBusy, steady>>
  <2>1. CASE runtime # None /\ runtime.elf # prepare.read["firmware"]["analysis"]
    BY <1>4, <2>1, RejectStep DEF Project
  <2>2. CASE ~(runtime # None /\ runtime.elf # prepare.read["firmware"]["analysis"])
    <3> DEFINE projection == IF runtime = None THEN None ELSE Projection(runtime)
    <3>1. prepare' = [prepare EXCEPT !.projection = projection, !.step = "publishing"]
      BY <1>4, <2>2 DEF Project
    <3>2. UNCHANGED <<outputBusy, steady>> /\ prepare.step = "projecting"
      BY <1>4, <2>2 DEF Project
    <3> HIDE DEF projection
    <3>3. prepare' = [step |-> "publishing", next |-> prepare.next,
                      read |-> prepare.read, again |-> prepare.again,
                      projection |-> projection]
      BY <1>1, <3>1
    <3> QED BY <2>2, <3>2, <3>3 DEF projection
  <2> QED BY <2>1, <2>2
<1> QED BY <1>2, <1>3, <1>4

\* Every step of the preparation keeps the types.
LEMMA PrepareTypes ==
  ASSUME CaseTypeOK, Assemble
  PROVE  CaseTypeOK'
<1>1. UNCHANGED <<dir, run, runtime>> BY PrepareStep
<1> DEFINE Typed == /\ PrepareType(prepare)
                    /\ prepare.step = "waiting" => prepare.next = 1
                    /\ prepare.step = "reading_again" => prepare.next \in 1 .. 4
                    /\ outputBusy \in BOOLEAN /\ steady \in BOOLEAN
<1>2. SUFFICES Typed' BY <1>1 DEF CaseTypeOK, PrepareType
<1>3. PrepareType(prepare) /\ Typed BY DEF CaseTypeOK, PrepareType
<1>4. ASSUME NEW step \in PrepareSteps \ {"waiting", "reading_again"}, Goes(step), outputBusy' \in BOOLEAN,
             steady' \in BOOLEAN
      PROVE  Typed'
  BY <1>3, <1>4 DEF Goes, PrepareType
<1>5. "rejected" \in PrepareSteps /\ "validating" \in PrepareSteps /\ "done" \in PrepareSteps
      /\ "reading_again" \in PrepareSteps /\ "publishing" \in PrepareSteps
      /\ "projecting" \in PrepareSteps
  BY DEF PrepareSteps, Validation
<1>6. CASE Rejects BY <1>3, <1>4, <1>5, <1>6 DEF Rejects
<1>7. CASE Begin
  <2>1. steady' \in BOOLEAN BY <1>7 DEF Begin
  <2> QED BY <1>3, <1>4, <1>5, <1>7, <2>1, OtherSteps
<1>8. CASE Publish BY <1>3, <1>4, <1>5, <1>6, <1>8, OtherSteps
<1>9. CASE Project BY <1>3, <1>5, <1>6, <1>9, OtherSteps DEF PrepareType
<1>10. ASSUME NEW i \in 1 .. 15, Accepts(i) PROVE Typed'
  <2>1. dir[Validated[i][1]][Validated[i][2]] \in Texts
    BY ValidatedFiles DEF CaseTypeOK
  <2>2. [prepare.read EXCEPT ![Validated[i][1]][Validated[i][2]] = dir[Validated[i][1]][Validated[i][2]]]
          \in [Sides -> [FileNames -> Texts]]
    BY <1>3, <2>1, ValidatedFiles DEF PrepareType
  <2> QED BY <1>3, <1>5, <1>10, <2>2 DEF Accepts, PrepareType
<1>11. ASSUME NEW i \in 1 .. 4, AcceptsAgain(i) PROVE Typed'
  <2>1. dir["hardware"][ReadAgain[i]] \in Texts /\ None \in Texts
    <3>1. \A j \in 1 .. 4 : j \in {1, 2, 3, 4} OBVIOUS
    <3>2. ReadAgain[i] \in FileNames BY <3>1, ReadAgainIs, FileNamesAre
    <3> QED BY <3>2 DEF CaseTypeOK, Sides, Texts
  <2> QED BY <1>3, <1>5, <1>11, <2>1 DEF AcceptsAgain, PrepareType
<1>12. CASE Validate BY <1>6, <1>10, <1>12, ValidateStep
<1>13. CASE Reread BY <1>6, <1>11, <1>13, RereadStep
<1> QED BY <1>7, <1>8, <1>9, <1>12, <1>13 DEF Assemble

-----------------------------------------------------------------------------
(* The checks of the preparation, as a function of what has been read.     *)

\* The check of the i-th file (Fit), made on files that have been read.
FitIn(read, i) ==
  LET side == Validated[i][1] name == Validated[i][2] IN
  IF /\ side = "hardware" /\ name \in {"rtl", "isa"}
     /\ read["hardware"]["manifest"].rtl_trace = None
  THEN read[side][name] = None
  ELSE /\ read[side][name] \notin {None, Torn}
       /\ Agrees(side, read[side], name)

\* The check of a trace file of a delivery with traces.
LEMMA TraceChecks ==
  ASSUME NEW files, files["manifest"].rtl_trace # None
  PROVE  LET m == files["manifest"] s == files["summary"] IN
         /\ HardwareAgrees(files, "rtl")
              <=> TraceAgrees(files["rtl"], m, m.rtl_trace, s.rtl, m.rtl_to_elf)
         /\ HardwareAgrees(files, "isa")
              <=> TraceAgrees(files["isa"], m, m.isa_csv, s.isa, m.isa_to_elf)
BY DEF HardwareAgrees

\* The i-th check looks only at what has been read so far.
LEMMA FitLooksBack ==
  ASSUME NEW f, NEW g, NEW i \in 1 .. 15,
         \A j \in 1 .. i : f[Validated[j][1]][Validated[j][2]] = g[Validated[j][1]][Validated[j][2]]
  PROVE  FitIn(f, i) <=> FitIn(g, i)
<1> DEFINE Same(j) == f[Validated[j][1]][Validated[j][2]] = g[Validated[j][1]][Validated[j][2]]
<1>1. \A j \in 1 .. i : Same(j) OBVIOUS
<1> HIDE DEF Same
<1>a. /\ 1 <= i => Same(1)
      /\ 2 <= i => Same(2)
      /\ 3 <= i => Same(3)
      /\ 4 <= i => Same(4)
      /\ 5 <= i => Same(5)
      /\ 6 <= i => Same(6)
      /\ 7 <= i => Same(7)
      /\ 8 <= i => Same(8)
      /\ 9 <= i => Same(9)
      /\ 10 <= i => Same(10)
      /\ 11 <= i => Same(11)
      /\ 12 <= i => Same(12)
      /\ 13 <= i => Same(13)
      /\ 14 <= i => Same(14)
      /\ 15 <= i => Same(15)
  BY <1>1
<1>b. /\ 1 <= i => f["firmware"]["analysis"] = g["firmware"]["analysis"]
      /\ 2 <= i => f["firmware"]["firmware-summary"] = g["firmware"]["firmware-summary"]
      /\ 3 <= i => f["firmware"]["export"] = g["firmware"]["export"]
      /\ 4 <= i => f["hardware"]["si"] = g["hardware"]["si"]
      /\ 5 <= i => f["hardware"]["analysis"] = g["hardware"]["analysis"]
      /\ 6 <= i => f["hardware"]["firmware-summary"] = g["hardware"]["firmware-summary"]
      /\ 7 <= i => f["hardware"]["export"] = g["hardware"]["export"]
      /\ 8 <= i => f["hardware"]["manifest"] = g["hardware"]["manifest"]
      /\ 9 <= i => f["hardware"]["summary"] = g["hardware"]["summary"]
      /\ 10 <= i => f["hardware"]["capabilities"] = g["hardware"]["capabilities"]
      /\ 11 <= i => f["hardware"]["resources"] = g["hardware"]["resources"]
      /\ 12 <= i => f["hardware"]["candidates"] = g["hardware"]["candidates"]
      /\ 13 <= i => f["hardware"]["differential"] = g["hardware"]["differential"]
      /\ 14 <= i => f["hardware"]["rtl"] = g["hardware"]["rtl"]
      /\ 15 <= i => f["hardware"]["isa"] = g["hardware"]["isa"]
  BY <1>a, ValidatedIs DEF Same
<1> USE DEF FitIn, Agrees, OneAnalysis
<1>c1. CASE i = 1 BY <1>b, <1>c1, ValidatedIs
<1>c2. CASE i = 2 BY <1>b, <1>c2, ValidatedIs
<1>c3. CASE i = 3 BY <1>b, <1>c3, ValidatedIs
<1>c14. CASE i = 14
  <2>1. \A h : FitIn(h, 14) <=>
          IF h["hardware"]["manifest"].rtl_trace = None THEN h["hardware"]["rtl"] = None
          ELSE h["hardware"]["rtl"] \notin {None, Torn} /\ HardwareAgrees(h["hardware"], "rtl")
    BY ValidatedIs
  <2> HIDE DEF FitIn
  <2>2. /\ f["hardware"]["manifest"] = g["hardware"]["manifest"]
        /\ f["hardware"]["summary"] = g["hardware"]["summary"]
        /\ f["hardware"]["rtl"] = g["hardware"]["rtl"]
    BY <1>b, <1>c14
  <2>3. f["hardware"]["manifest"].rtl_trace # None =>
          (HardwareAgrees(f["hardware"], "rtl") <=> HardwareAgrees(g["hardware"], "rtl"))
    BY <2>2, TraceChecks
  <2>4. FitIn(f, 14) <=>
          IF f["hardware"]["manifest"].rtl_trace = None THEN f["hardware"]["rtl"] = None
          ELSE f["hardware"]["rtl"] \notin {None, Torn} /\ HardwareAgrees(f["hardware"], "rtl")
    BY <2>1
  <2>5. FitIn(g, 14) <=>
          IF g["hardware"]["manifest"].rtl_trace = None THEN g["hardware"]["rtl"] = None
          ELSE g["hardware"]["rtl"] \notin {None, Torn} /\ HardwareAgrees(g["hardware"], "rtl")
    BY <2>1
  <2> QED BY <1>c14, <2>2, <2>3, <2>4, <2>5
<1>c15. CASE i = 15
  <2>1. \A h : FitIn(h, 15) <=>
          IF h["hardware"]["manifest"].rtl_trace = None THEN h["hardware"]["isa"] = None
          ELSE h["hardware"]["isa"] \notin {None, Torn} /\ HardwareAgrees(h["hardware"], "isa")
    BY ValidatedIs
  <2> HIDE DEF FitIn
  <2>2. /\ f["hardware"]["manifest"] = g["hardware"]["manifest"]
        /\ f["hardware"]["summary"] = g["hardware"]["summary"]
        /\ f["hardware"]["isa"] = g["hardware"]["isa"]
    BY <1>b, <1>c15
  <2>3. f["hardware"]["manifest"].rtl_trace # None =>
          (HardwareAgrees(f["hardware"], "isa") <=> HardwareAgrees(g["hardware"], "isa"))
    BY <2>2, TraceChecks
  <2>4. FitIn(f, 15) <=>
          IF f["hardware"]["manifest"].rtl_trace = None THEN f["hardware"]["isa"] = None
          ELSE f["hardware"]["isa"] \notin {None, Torn} /\ HardwareAgrees(f["hardware"], "isa")
    BY <2>1
  <2>5. FitIn(g, 15) <=>
          IF g["hardware"]["manifest"].rtl_trace = None THEN g["hardware"]["isa"] = None
          ELSE g["hardware"]["isa"] \notin {None, Torn} /\ HardwareAgrees(g["hardware"], "isa")
    BY <2>1
  <2> QED BY <1>c15, <2>2, <2>3, <2>4, <2>5
<1> USE DEF HardwareAgrees
<1>c4. CASE i = 4 BY <1>b, <1>c4, ValidatedIs
<1>c5. CASE i = 5 BY <1>b, <1>c5, ValidatedIs
<1>c6. CASE i = 6 BY <1>b, <1>c6, ValidatedIs
<1>c7. CASE i = 7 BY <1>b, <1>c7, ValidatedIs
<1>c8. CASE i = 8 BY <1>b, <1>c8, ValidatedIs
<1>c9. CASE i = 9 BY <1>b, <1>c9, ValidatedIs
<1>c10. CASE i = 10 BY <1>b, <1>c10, ValidatedIs
<1>c11. CASE i = 11 BY <1>b, <1>c11, ValidatedIs
<1>c12. CASE i = 12 BY <1>b, <1>c12, ValidatedIs
<1>c13. CASE i = 13 BY <1>b, <1>c13, ValidatedIs
<1>2. i \in {1, 2, 3, 4, 5, 6, 7, 8, 9, 10, 11, 12, 13, 14, 15} OBVIOUS
<1> QED BY <1>2, <1>c1, <1>c2, <1>c3, <1>c4, <1>c5, <1>c6, <1>c7, <1>c8, <1>c9, <1>c10, <1>c11,
           <1>c12, <1>c13, <1>c14, <1>c15

\* The check made when a file is read is the check on what has then been read.
LEMMA FitIsFitIn ==
  ASSUME CaseTypeOK, NEW i \in 1 .. 15
  PROVE  Fit(Validated[i][1], Validated[i][2])
           <=> FitIn([prepare.read EXCEPT ![Validated[i][1]][Validated[i][2]]
                        = dir[Validated[i][1]][Validated[i][2]]], i)
<1> DEFINE side == Validated[i][1]
           name == Validated[i][2]
           text == dir[side][name]
           read == [prepare.read EXCEPT ![side][name] = text]
<1>1. prepare.read \in [Sides -> [FileNames -> Texts]] BY DEF CaseTypeOK
<1>2. side \in Sides /\ name \in FileNames BY ValidatedFiles
<1>3. read[side] = [prepare.read[side] EXCEPT ![name] = text] /\ read[side][name] = text
  BY <1>1, <1>2
<1>4. name \in {"rtl", "isa"} =>
        read["hardware"]["manifest"].rtl_trace = prepare.read["hardware"]["manifest"].rtl_trace
  <2> SUFFICES ASSUME name \in {"rtl", "isa"}
               PROVE  read["hardware"]["manifest"] = prepare.read["hardware"]["manifest"]
    OBVIOUS
  <2>1. name # "manifest" OBVIOUS
  <2>2. "hardware" \in Sides /\ "manifest" \in FileNames BY FileNamesAre DEF Sides
  <2> HIDE DEF side, name, text
  <2> QED BY <1>1, <1>2, <2>1, <2>2
<1> HIDE DEF read, text
<1> QED BY <1>3, <1>4 DEF Fit, FitIn, MustBeAbsent, HardwareHasTrace, text, read

\* Whatever one finished analysis of each side wrote fits.
LEMMA CleanFits ==
  ASSUME NEW fw \in Tasks, fw.side = "firmware",
         NEW hw \in Tasks, hw.side = "hardware", Accepted(hw),
         NEW read, read["firmware"] = Results(fw), read["hardware"] = Results(hw),
         NEW i \in 1 .. 15
  PROVE  FitIn(read, i)
<1> DEFINE p == hw.package
           e == SelectedElf(hw)
           R == read["hardware"]
           F == read["firmware"]
<1>1. Writable(fw) /\ Writable(hw) BY GivenTasks DEF Analysable
<1>2. \A name \in FileNames : R[name] = Content(hw, name) /\ F[name] = Result(fw, name)
  BY DEF Results, Result
<1>3. /\ F["analysis"] = fw.elf /\ F["firmware-summary"] = fw.elf /\ F["export"] = CodeOf[fw.elf]
  BY <1>2, FileNamesAre DEF Result
<1>4. /\ R["manifest"] = Manifest(hw)
      /\ R["si"] = SelectedSi(hw)
      /\ R["analysis"] = e
      /\ R["firmware-summary"] = e
      /\ R["export"] = CodeOf[e]
      /\ R["rtl"] = IF ~HasTrace(p) THEN None
         ELSE [source |-> RuntimeSource(hw), trace |-> p.rtl_trace,
               coverage |-> Coverage(e, p.rtl_trace),
               alignment |-> Alignment(p.rtl_trace, p.isa_csv)]
      /\ R["isa"] = IF ~HasTrace(p) THEN None
         ELSE [source |-> RuntimeSource(hw), trace |-> p.isa_csv,
               coverage |-> Coverage(e, p.isa_csv), log |-> p.isa_log]
      /\ R["differential"] = Diff(hw)
      /\ R["capabilities"] = [analysis |-> e, facts |-> FactsOf[e]]
      /\ R["resources"] = Hints(e)
      /\ R["candidates"] = [traced |-> HasTrace(p)]
      /\ R["summary"] =
         [firmware |-> e, manifest |-> Manifest(hw), traced |-> HasTrace(p),
          rtl |-> Count(p.rtl_trace), isa |-> Count(p.isa_csv),
          differing |-> Cardinality(Diff(hw).different),
          status |-> Diff(hw).status]
  BY <1>2, FileNamesAre DEF Content
<1>5. /\ HasTrace(p) => p.rtl_trace # None /\ p.isa_csv # None
      /\ ~HasTrace(p) => p.rtl_trace = None /\ p.isa_csv = None
  BY DEF Accepted, HasTrace, Traces
<1>6. /\ \A name \in FileNames : R[name] # Torn /\ (R[name] = None => name \in {"rtl", "isa"} /\ ~HasTrace(p))
      /\ F["analysis"] \notin {None, Torn}
      /\ F["firmware-summary"] \notin {None, Torn}
      /\ F["export"] \notin {None, Torn}
  <2>1. \A name \in FileNames : R[name] = Result(hw, name) BY DEF Results
  <2>2. \A name \in FileNames : R[name] # Torn /\ (R[name] = None => name \in {"rtl", "isa"} /\ ~HasTrace(p))
    BY <1>1, <2>1 DEF Writable
  <2>3. /\ DOMAIN FirmwareFiles = 1 .. 3 /\ FirmwareFiles[1] = "analysis"
        /\ FirmwareFiles[2] = "firmware-summary" /\ FirmwareFiles[3] = "export"
    BY DEF FirmwareFiles
  <2>4. \A name \in {"analysis", "firmware-summary", "export"} :
          name \in {FirmwareFiles[j] : j \in DOMAIN FirmwareFiles} /\ name \in FileNames
    <3>1. 1 \in 1 .. 3 /\ 2 \in 1 .. 3 /\ 3 \in 1 .. 3 OBVIOUS
    <3> QED BY <2>3, <3>1, FileNamesAre
  <2>5. \A name \in {"analysis", "firmware-summary", "export"} : F[name] \notin {None, Torn}
    BY <1>1, <1>2, <2>4 DEF Writable
  <2> QED BY <2>2, <2>5
<1>7. /\ Manifest(hw).si = SelectedSi(hw) /\ Manifest(hw).elf = e
      /\ Manifest(hw).rtl_trace = p.rtl_trace /\ Manifest(hw).isa_csv = p.isa_csv
      /\ Manifest(hw).rtl_signature = p.rtl_signature
      /\ Manifest(hw).isa_signature = p.isa_signature
      /\ HasTrace(p) => Manifest(hw).rtl_to_elf = Coverage(e, p.rtl_trace)
      /\ HasTrace(p) => Manifest(hw).isa_to_elf = Coverage(e, p.isa_csv)
      /\ Manifest(hw).same_execution = "UNKNOWN"
  BY DEF Manifest
<1>8. /\ Diff(hw).rtl = p.rtl_signature
      /\ Diff(hw).isa = p.isa_signature
      /\ Diff(hw).same_execution = "UNKNOWN"
  BY DEF Diff, Differential, Unbound, Bindings
<1>9. HasTrace(p) <=> p.rtl_trace # None BY <1>5
<1> HIDE DEF p, e, R, F
<1> USE DEF FitIn, Agrees, OneAnalysis
<1>c1. CASE i = 1 BY <1>3, <1>6, <1>c1, ValidatedIs DEF F
<1>c2. CASE i = 2 BY <1>3, <1>6, <1>c2, ValidatedIs DEF F
<1>c3. CASE i = 3 BY <1>3, <1>6, <1>c3, ValidatedIs DEF F
<1>n. \A name \in FileNames \ {"rtl", "isa"} : R[name] \notin {None, Torn} BY <1>6
<1>r. /\ R = read["hardware"] /\ R["manifest"].rtl_trace = p.rtl_trace BY <1>4, <1>7 DEF R
<1> USE DEF HardwareAgrees
<1>c4. CASE i = 4 BY <1>4, <1>n, <1>r, <1>c4, ValidatedIs, FileNamesAre
<1>c5. CASE i = 5 BY <1>4, <1>n, <1>r, <1>c5, ValidatedIs, FileNamesAre
<1>c6. CASE i = 6 BY <1>4, <1>n, <1>r, <1>c6, ValidatedIs, FileNamesAre
<1>c7. CASE i = 7 BY <1>4, <1>n, <1>r, <1>c7, ValidatedIs, FileNamesAre
<1>c8. CASE i = 8 BY <1>4, <1>7, <1>n, <1>r, <1>c8, ValidatedIs, FileNamesAre
<1>c9. CASE i = 9
  <2>1. /\ R["summary"].firmware = e /\ R["summary"].manifest = Manifest(hw)
        /\ R["summary"].traced = HasTrace(p)
    BY <1>4
  <2>a. HasTrace(p) = (p.rtl_trace # None) BY <1>9 DEF HasTrace
  <2>b. R["summary"].traced = (Manifest(hw).rtl_trace # None) BY <1>7, <2>1, <2>a
  <2>2. HardwareAgrees(R, "summary") BY <1>4, <2>1, <2>b
  <2> HIDE DEF HardwareAgrees
  <2> QED BY <1>n, <1>r, <1>c9, <2>2, ValidatedIs, FileNamesAre
<1>c10. CASE i = 10 BY <1>4, <1>n, <1>r, <1>c10, ValidatedIs, FileNamesAre
<1>c11. CASE i = 11 BY <1>4, <1>n, <1>r, <1>c11, ValidatedIs, FileNamesAre
<1>c12. CASE i = 12 BY <1>4, <1>n, <1>r, <1>c12, ValidatedIs, FileNamesAre
<1>c13. CASE i = 13
  <2>1. R["summary"].differing = Cardinality(Diff(hw).different)
        /\ R["summary"].status = Diff(hw).status
    BY <1>4
  <2>2. HardwareAgrees(R, "differential") BY <1>4, <1>7, <1>8, <2>1
  <2> HIDE DEF HardwareAgrees
  <2> QED BY <1>n, <1>r, <1>c13, <2>2, ValidatedIs, FileNamesAre
<1>c14. CASE i = 14
  <2>1. CASE ~HasTrace(p) BY <1>4, <1>9, <1>r, <1>c14, <2>1, ValidatedIs
  <2>2. CASE HasTrace(p)
    <3>1. /\ R["rtl"].source = RuntimeSource(hw) /\ R["rtl"].trace = p.rtl_trace
          /\ R["rtl"].coverage = Coverage(e, p.rtl_trace)
          /\ R["summary"].rtl = Count(p.rtl_trace)
      BY <1>4, <2>2
    <3>2. RuntimeSource(hw) = [si |-> Manifest(hw).si, elf |-> Manifest(hw).elf,
                     rtl_trace |-> Manifest(hw).rtl_trace, isa_csv |-> Manifest(hw).isa_csv]
      BY <1>7 DEF RuntimeSource, p, e
    <3>3. R["summary"].rtl = Len(p.rtl_trace) BY <1>5, <2>2, <3>1 DEF Count
    <3>4. TraceAgrees(R["rtl"], Manifest(hw), Manifest(hw).rtl_trace, R["summary"].rtl, Manifest(hw).rtl_to_elf)
      BY <1>7, <2>2, <3>1, <3>2, <3>3 DEF TraceAgrees
    <3>5. HardwareAgrees(R, "rtl") BY <1>4, <1>5, <1>7, <2>2, <3>4
    <3>6. R["rtl"] \notin {None, Torn} BY <1>6, <2>2, FileNamesAre
    <3> HIDE DEF HardwareAgrees
    <3> QED BY <1>5, <1>r, <1>c14, <2>2, <3>5, <3>6, ValidatedIs
  <2> QED BY <2>1, <2>2
<1>c15. CASE i = 15
  <2>1. CASE ~HasTrace(p) BY <1>4, <1>9, <1>r, <1>c15, <2>1, ValidatedIs
  <2>2. CASE HasTrace(p)
    <3>1. /\ R["isa"].source = RuntimeSource(hw) /\ R["isa"].trace = p.isa_csv
          /\ R["isa"].coverage = Coverage(e, p.isa_csv)
          /\ R["summary"].isa = Count(p.isa_csv)
      BY <1>4, <2>2
    <3>2. RuntimeSource(hw) = [si |-> Manifest(hw).si, elf |-> Manifest(hw).elf,
                     rtl_trace |-> Manifest(hw).rtl_trace, isa_csv |-> Manifest(hw).isa_csv]
      BY <1>7 DEF RuntimeSource, p, e
    <3>3. R["summary"].isa = Len(p.isa_csv) BY <1>5, <2>2, <3>1 DEF Count
    <3>4. TraceAgrees(R["isa"], Manifest(hw), Manifest(hw).isa_csv, R["summary"].isa, Manifest(hw).isa_to_elf)
      BY <1>7, <2>2, <3>1, <3>2, <3>3 DEF TraceAgrees
    <3>5. HardwareAgrees(R, "isa") BY <1>4, <1>5, <1>7, <2>2, <3>4
    <3>6. R["isa"] \notin {None, Torn} BY <1>6, <2>2, FileNamesAre
    <3> HIDE DEF HardwareAgrees
    <3> QED BY <1>5, <1>r, <1>c15, <2>2, <3>5, <3>6, ValidatedIs
  <2> QED BY <2>1, <2>2
<1>z. i \in {1, 2, 3, 4, 5, 6, 7, 8, 9, 10, 11, 12, 13, 14, 15} OBVIOUS
<1> QED BY <1>z, <1>c1, <1>c2, <1>c3, <1>c4, <1>c5, <1>c6, <1>c7, <1>c8, <1>c9, <1>c10, <1>c11,
           <1>c12, <1>c13, <1>c14, <1>c15

-----------------------------------------------------------------------------
(* The inductive invariant.                                                *)

\* What may lie under a name of a side: nothing, something torn, or the text of
\* an analysis that got as far as writing.
Allowed(side, name) == {None, Torn} \cup {Result(run[r].task, name) : r \in Writers(side)}

\* The i-th file has been read and found to fit.
Seen(i) == \/ prepare.step = "validating" /\ i < prepare.next
           \/ prepare.step \in Validation

\* An analysis that the refusals let through was of something it can analyse.
RunsAnalysable ==
  \A r \in DOMAIN run :
    run[r].step \in {"analysing", "writing", "done", "killed"} => Analysable(run[r].task)

\* Nothing in a directory, and nothing the preparation read, comes from nowhere.
FilesHaveWriters ==
  \A side \in Sides, name \in FileNames :
    /\ dir[side][name] \in Allowed(side, name)
    /\ prepare.read[side][name] \in Allowed(side, name)

\* What has been checked still holds of what has been read.
ReadsFit == \A i \in 1 .. 15 : Seen(i) => FitIn(prepare.read, i)

\* The projection is that of the runtime evidence, of this firmware, and the kinds
\* are those of the test ELF that the manifest names.
ProjectionOfReads ==
  prepare.projection # None =>
    /\ prepare.step \in {"publishing", "done", "rejected"}
    /\ runtime # None
    /\ runtime.elf = prepare.read["firmware"]["analysis"]
    /\ prepare.projection = Projection(runtime)
    /\ prepare.read["hardware"]["capabilities"].facts
         = FactsOf[prepare.read["hardware"]["manifest"].elf]

\* What `steady` stands for: both directories are those of a finished analysis,
\* nobody writes, and the preparation has read what lies there.
FinishedAlone ==
  /\ prepare.step # "waiting"
  /\ \A r \in DOMAIN run : run[r].step # "writing"
  /\ \A side \in Sides :
       \E r \in DOMAIN run : /\ run[r].step = "done"
                             /\ run[r].task.side = side
                             /\ dir[side] = Results(run[r].task)
  /\ \A i \in 1 .. 15 :
       Seen(i) => prepare.read[Validated[i][1]][Validated[i][2]]
                    = dir[Validated[i][1]][Validated[i][2]]

\* The inductive invariant.
CaseInv ==
  /\ CaseTypeOK
  /\ RunsAnalysable
  /\ FilesHaveWriters
  /\ ReadsFit
  /\ ProjectionOfReads
  /\ steady => FinishedAlone
  /\ CleanInputsAccepted

\* It holds when the commands begin ...
LEMMA CaseInitInv == CaseInit => CaseInv
<1> SUFFICES ASSUME CaseInit PROVE CaseInv OBVIOUS
<1>0. CaseTypeOK BY CaseInitTypes
<1>1. PICK s \in Scenarios :
    /\ run = [r \in DOMAIN s.tasks |->
                [task |-> s.tasks[r], next |-> 1,
                 step |-> IF r \in s.finished THEN "done"
                          ELSE IF r \in s.started THEN "analysing"
                          ELSE "waiting"]]
    /\ dir = [side \in Sides |->
                IF \E r \in s.finished : s.tasks[r].side = side
                THEN Results(s.tasks[CHOOSE r \in s.finished : s.tasks[r].side = side])
                ELSE EmptyDir]
    /\ runtime = s.runtime
    /\ outputBusy = s.outputBusy
    /\ prepare = [step |-> "waiting", next |-> 1, read |-> NoRead,
                  again |-> [i \in DOMAIN ReadAgain |-> None], projection |-> None]
    /\ steady = FALSE
  BY DEF CaseInit
<1>2. s.finished \cup s.started \subseteq DOMAIN s.tasks
      /\ \A r \in s.finished \cup s.started : Analysable(s.tasks[r])
  BY ScenariosAssumption
<1>3. RunsAnalysable
  <2> SUFFICES ASSUME NEW r \in DOMAIN run, run[r].step \in {"analysing", "writing", "done", "killed"}
               PROVE  Analysable(run[r].task)
    BY DEF RunsAnalysable
  <2>1. r \in DOMAIN s.tasks /\ run[r].task = s.tasks[r] /\ r \in s.finished \cup s.started
    BY <1>1
  <2> QED BY <1>2, <2>1
<1>4. ASSUME NEW side \in Sides, NEW name \in FileNames
      PROVE  dir[side][name] \in Allowed(side, name) /\ prepare.read[side][name] \in Allowed(side, name)
  <2>1. NoRead[side][name] = None BY DEF NoRead, EmptyDir
  <2>2. CASE \E r \in s.finished : s.tasks[r].side = side
    <3> DEFINE r == CHOOSE r \in s.finished : s.tasks[r].side = side
    <3>1. r \in s.finished /\ s.tasks[r].side = side BY <2>2
    <3>2. r \in DOMAIN run /\ run[r].task = s.tasks[r] /\ run[r].step = "done"
      BY <1>1, <1>2, <3>1
    <3>3. dir[side] = Results(s.tasks[r]) BY <1>1, <2>2
    <3> HIDE DEF r
    <3>4. r \in Writers(side) BY <3>1, <3>2 DEF Writers
    <3>5. dir[side][name] = Result(run[r].task, name) BY <3>2, <3>3 DEF Results
    <3> QED BY <1>1, <2>1, <3>4, <3>5 DEF Allowed
  <2>3. CASE ~\E r \in s.finished : s.tasks[r].side = side
    <3>1. dir[side][name] = None BY <1>1, <2>3 DEF EmptyDir
    <3> QED BY <1>1, <2>1, <3>1 DEF Allowed
  <2> QED BY <2>2, <2>3
<1>5. FilesHaveWriters BY <1>4 DEF FilesHaveWriters
<1>6. prepare.step = "waiting" /\ prepare.projection = None BY <1>1
<1>7. ReadsFit /\ ProjectionOfReads /\ CleanInputsAccepted
  BY <1>6 DEF ReadsFit, Seen, Validation, ProjectionOfReads, CleanInputsAccepted
<1> QED BY <1>0, <1>1, <1>3, <1>5, <1>7 DEF CaseInv

-----------------------------------------------------------------------------

\* ... and every step of an analysis keeps it: a file only ever gets its writer's
\* text or becomes torn, and an analysis that writes ends `steady`.
LEMMA RunKeepsInv ==
  ASSUME CaseInv, NEW r \in DOMAIN run,
         StartRun(r) \/ Analysed(r) \/ Write(r) \/ KillRun(r)
  PROVE  CaseInv'
<1>1. CaseTypeOK /\ RunsAnalysable /\ FilesHaveWriters /\ ReadsFit /\ ProjectionOfReads
      /\ (steady => FinishedAlone) /\ CleanInputsAccepted
  BY DEF CaseInv
<1>2. /\ UNCHANGED <<prepare, runtime, outputBusy>>
      /\ DOMAIN run' = DOMAIN run
      /\ run' \in [DOMAIN run -> RunType]
      /\ \A q \in DOMAIN run : q # r => run'[q] = run[q]
      /\ run'[r].task = run[r].task
      /\ run[r].step \in {"waiting", "analysing", "writing"}
      /\ run'[r].step = "writing" => run[r].step \in {"analysing", "writing"}
      /\ run'[r].step # "waiting"
      /\ run[r].step = "writing" => run'[r].step \in {"writing", "done", "killed"}
      /\ run[r].step = "waiting" =>
              run'[r].step = (IF Refuses(run[r].task) THEN "failed" ELSE "analysing")
      /\ run[r].step = "analysing" => run'[r].step \in {"failed", "writing", "killed"}
  BY <1>1, RunStep
<1>3. /\ dir' \in [Sides -> [FileNames -> Texts]]
      /\ dir' # dir => run[r].step = "writing"
      /\ \A side \in Sides, name \in FileNames :
              \/ dir'[side][name] \in {dir[side][name], Torn}
              \/ /\ run[r].step = "writing"
                 /\ run[r].task.side = side
                 /\ dir'[side][name] = Result(run[r].task, name)
  BY <1>1, RunDir
<1>4. steady' \in BOOLEAN /\ (steady' => steady)
  <2>0. steady \in BOOLEAN BY <1>1 DEF CaseTypeOK
  <2>1. CASE StartRun(r) BY <2>0, <2>1 DEF StartRun
  <2>2. CASE Analysed(r)
    <3>1. PICK step \in {"failed", "writing"} : steady' = (steady /\ step = "failed")
      BY <2>2 DEF Analysed
    <3> QED BY <2>0, <3>1, Zenon
  <2>3. CASE Write(r) BY <2>3 DEF Write
  <2>4. CASE KillRun(r)
    <3>1. steady' = (steady /\ run[r].step = "analysing") BY <2>4 DEF KillRun
    <3> QED BY <2>0, <3>1, Zenon
  <2> QED BY <2>1, <2>2, <2>3, <2>4
<1>5. CaseTypeOK'
  BY <1>1, <1>2, <1>3, <1>4 DEF CaseTypeOK, RunType
<1>6. \A q \in DOMAIN run : run'[q].task = run[q].task BY <1>2
<1>7. RunsAnalysable'
  <2> SUFFICES ASSUME NEW q \in DOMAIN run, run'[q].step \in {"analysing", "writing", "done", "killed"}
               PROVE  Analysable(run'[q].task)
    BY <1>2 DEF RunsAnalysable
  <2>1. CASE q # r BY <1>1, <1>2, <2>1 DEF RunsAnalysable
  <2>2. CASE q = r /\ run[r].step \in {"analysing", "writing"} BY <1>1, <1>2, <2>2 DEF RunsAnalysable
  <2>3. CASE q = r /\ run[r].step = "waiting"
    <3>1. ~Refuses(run[r].task) BY <1>2, <2>3
    <3>2. Analysable(run[r].task) BY <3>1 DEF Refuses, Analysable
    <3> QED BY <1>6, <2>3, <3>2
  <2> QED BY <1>2, <2>1, <2>2, <2>3
<1>8. \A side \in Sides : Writers(side) \subseteq Writers(side)'
  BY <1>2 DEF Writers
<1>9. \A side \in Sides, name \in FileNames : Allowed(side, name) \subseteq Allowed(side, name)'
  <2> SUFFICES ASSUME NEW side \in Sides, NEW name \in FileNames, NEW text \in Allowed(side, name)
               PROVE  text \in Allowed(side, name)'
    OBVIOUS
  <2>1. CASE text \in {None, Torn} BY <2>1 DEF Allowed
  <2>2. CASE text \notin {None, Torn}
    <3>1. PICK q \in Writers(side) : text = Result(run[q].task, name) BY <2>2 DEF Allowed
    <3>2. q \in DOMAIN run BY DEF Writers
    <3>3. q \in Writers(side)' /\ text = Result(run'[q].task, name) BY <1>6, <1>8, <3>1, <3>2
    <3> QED BY <3>3 DEF Allowed
  <2> QED BY <2>1, <2>2
<1>10. FilesHaveWriters'
  <2> SUFFICES ASSUME NEW side \in Sides, NEW name \in FileNames
               PROVE  dir'[side][name] \in Allowed(side, name)'
                      /\ prepare'.read[side][name] \in Allowed(side, name)'
    BY DEF FilesHaveWriters
  <2>1. /\ dir[side][name] \in Allowed(side, name)'
        /\ prepare'.read[side][name] \in Allowed(side, name)'
    BY <1>1, <1>2, <1>9 DEF FilesHaveWriters
  <2>2. Torn \in Allowed(side, name)' BY DEF Allowed
  <2>3. CASE run[r].step = "writing" /\ run[r].task.side = side
             /\ dir'[side][name] = Result(run[r].task, name)
    <3>1. r \in Writers(side) BY <2>3 DEF Writers
    <3>2. r \in Writers(side)' BY <1>8, <3>1
    <3>3. dir'[side][name] = Result(run'[r].task, name) BY <1>2, <2>3
    <3> QED BY <2>1, <3>2, <3>3 DEF Allowed
  <2> QED BY <1>3, <2>1, <2>2, <2>3
<1>11. ReadsFit' BY <1>1, <1>2 DEF ReadsFit, Seen, FitIn
<1>12. ProjectionOfReads'
  BY <1>1, <1>2 DEF ProjectionOfReads, Projection, AllSupported, RelatedFacts, RelatedKinds, KindStatus
<1>13. steady' => FinishedAlone'
  <2> SUFFICES ASSUME steady' PROVE FinishedAlone' OBVIOUS
  <2>1. steady /\ FinishedAlone BY <1>1, <1>4
  <2>2. run[r].step # "writing" BY <2>1 DEF FinishedAlone
  <2>3. dir' = dir BY <1>3, <2>2
  <2>4. run'[r].step # "writing"
    <3>1. CASE StartRun(r) BY <1>2, <2>2 , <3>1 DEF StartRun
    <3>2. CASE Analysed(r)
      <4>1. PICK step \in {"failed", "writing"} :
              run' = [run EXCEPT ![r].step = step] /\ steady' = (steady /\ step = "failed")
        BY <3>2 DEF Analysed
      <4>2. step = "failed" BY <4>1
      <4>3. run[r] \in RunType BY <1>1 DEF CaseTypeOK, RunType
      <4> QED BY <4>1, <4>2, <4>3 DEF RunType
    <3>3. CASE Write(r) BY <3>3 DEF Write
    <3>4. CASE KillRun(r)
      <4>1. run' = [run EXCEPT ![r].step = "killed"] BY <3>4 DEF KillRun
      <4>2. run[r] \in RunType BY <1>1 DEF CaseTypeOK, RunType
      <4> QED BY <4>1, <4>2 DEF RunType
    <3> QED BY <3>1, <3>2, <3>3, <3>4
  <2>5. \A q \in DOMAIN run' : run'[q].step # "writing"
    BY <1>2, <2>1, <2>4 DEF FinishedAlone
  <2>6. ASSUME NEW side \in Sides
        PROVE  \E q \in DOMAIN run' : /\ run'[q].step = "done"
                                      /\ run'[q].task.side = side
                                      /\ dir'[side] = Results(run'[q].task)
    <3>1. PICK q \in DOMAIN run : /\ run[q].step = "done"
                                  /\ run[q].task.side = side
                                  /\ dir[side] = Results(run[q].task)
      BY <2>1 DEF FinishedAlone
    <3>2. run'[q] = run[q] BY <1>2, <3>1
    <3> QED BY <1>2, <2>3, <3>1, <3>2
  <2>7. \A i \in 1 .. 15 :
          Seen(i)' => prepare'.read[Validated[i][1]][Validated[i][2]]
                        = dir'[Validated[i][1]][Validated[i][2]]
    BY <1>2, <2>1, <2>3 DEF FinishedAlone, Seen
  <2>8. prepare'.step # "waiting" BY <1>2, <2>1 DEF FinishedAlone
  <2> QED BY <2>5, <2>6, <2>7, <2>8 DEF FinishedAlone
<1>14. CleanInputsAccepted' BY <1>1, <1>2, <1>4 DEF CleanInputsAccepted
<1> QED BY <1>5, <1>7, <1>10, <1>11, <1>12, <1>13, <1>14 DEF CaseInv

-----------------------------------------------------------------------------

\* A step of the preparation that leaves what has been read alone.
LEMMA SameReadsKeepInv ==
  ASSUME CaseInv, CaseTypeOK', UNCHANGED <<dir, run, runtime>>,
         prepare'.read = prepare.read,
         prepare'.step # "waiting",
         \A i \in 1 .. 15 : Seen(i)' => Seen(i),
         prepare'.projection = prepare.projection,
         prepare'.step = prepare.step \/ prepare'.step \in {"done", "rejected"}
           \/ prepare.projection = None,
         steady' => FinishedAlone',
         CleanInputsAccepted'
  PROVE  CaseInv'
<1>1. RunsAnalysable' BY DEF CaseInv, RunsAnalysable
<1>2. FilesHaveWriters' BY DEF CaseInv, FilesHaveWriters, Allowed, Writers
<1>3. ReadsFit' BY DEF CaseInv, ReadsFit, FitIn
<1>4. ProjectionOfReads'
  BY DEF CaseInv, ProjectionOfReads, Projection, AllSupported, RelatedFacts, RelatedKinds, KindStatus
<1> QED BY <1>1, <1>2, <1>3, <1>4 DEF CaseInv

\* ... nor does it make finished directories unfinished.
LEMMA FinishedAloneStays ==
  ASSUME FinishedAlone, UNCHANGED <<dir, run>>, prepare'.read = prepare.read,
         prepare'.step # "waiting", \A i \in 1 .. 15 : Seen(i)' => Seen(i)
  PROVE  FinishedAlone'
<1>1. \A i \in 1 .. 15 :
          Seen(i)' => prepare'.read[Validated[i][1]][Validated[i][2]]
                        = dir'[Validated[i][1]][Validated[i][2]]
  BY DEF FinishedAlone
<1> QED BY <1>1 DEF FinishedAlone

\* A preparation that rejects.
LEMMA RejectKeepsInv ==
  ASSUME CaseInv, CaseTypeOK', UNCHANGED <<dir, run, runtime>>, Rejects,
         prepare.step # "waiting",
         \/ ~steady
         \/ outputBusy
         \/ runtime # None /\ runtime.elf # prepare.read["firmware"]["analysis"]
  PROVE  CaseInv'
<1>1. /\ prepare'.read = prepare.read /\ prepare'.step = "rejected"
      /\ prepare'.projection = prepare.projection
      /\ UNCHANGED <<outputBusy, steady>>
  BY DEF Rejects, Goes
<1>2. \A i \in 1 .. 15 : Seen(i)' => Seen(i) BY <1>1 DEF Seen, Validation
<1>3. CleanInputsAccepted' BY <1>1 DEF CleanInputsAccepted
<1>4. steady' => FinishedAlone'
  BY <1>1, <1>2, FinishedAloneStays DEF CaseInv
<1> QED BY <1>1, <1>2, <1>3, <1>4, SameReadsKeepInv

\* On finished directories that nobody writes, every file fits when its turn comes.
LEMMA SteadyFits ==
  ASSUME CaseInv, steady, prepare.step = "validating"
  PROVE  LET i == prepare.next IN
         /\ Fit(Validated[i][1], Validated[i][2])
         /\ Writing(Validated[i][1], Validated[i][2]) = {}
<1>1. PICK i \in 1 .. 15 : i = prepare.next BY DEF CaseInv, CaseTypeOK
<1>2. FinishedAlone /\ RunsAnalysable /\ CaseTypeOK BY DEF CaseInv
<1>3. Writing(Validated[i][1], Validated[i][2]) = {} BY <1>2 DEF Writing, FinishedAlone
<1>4. PICK f \in DOMAIN run : /\ run[f].step = "done" /\ run[f].task.side = "firmware"
                              /\ dir["firmware"] = Results(run[f].task)
  BY <1>2 DEF FinishedAlone, Sides
<1>5. PICK h \in DOMAIN run : /\ run[h].step = "done" /\ run[h].task.side = "hardware"
                              /\ dir["hardware"] = Results(run[h].task)
  BY <1>2 DEF FinishedAlone, Sides
<1>6. run[f].task \in Tasks /\ run[h].task \in Tasks BY <1>2 DEF CaseTypeOK
<1>7. Accepted(run[h].task) BY <1>2, <1>5 DEF RunsAnalysable, Analysable
<1>8. FitIn(dir, i) BY <1>4, <1>5, <1>6, <1>7, CleanFits
<1> DEFINE read == [prepare.read EXCEPT ![Validated[i][1]][Validated[i][2]]
                      = dir[Validated[i][1]][Validated[i][2]]]
<1>9. ASSUME NEW j \in 1 .. i
      PROVE  read[Validated[j][1]][Validated[j][2]] = dir[Validated[j][1]][Validated[j][2]]
  <2>1. j \in 1 .. 15 /\ (j = i \/ j < i) OBVIOUS
  <2>2. /\ Validated[i][1] \in Sides /\ Validated[i][2] \in FileNames
        /\ Validated[j][1] \in Sides /\ Validated[j][2] \in FileNames
    BY <2>1, ValidatedFiles
  <2>3. prepare.read \in [Sides -> [FileNames -> Texts]] BY <1>2 DEF CaseTypeOK
  <2>4. CASE j = i BY <2>2, <2>3, <2>4
  <2>5. CASE j # i
    <3>1. Validated[i][1] # Validated[j][1] \/ Validated[i][2] # Validated[j][2]
      BY <2>1, <2>5, ValidatedFiles
    <3>2. read[Validated[j][1]][Validated[j][2]] = prepare.read[Validated[j][1]][Validated[j][2]]
      BY <2>2, <2>3, <3>1
    <3>3. Seen(j) BY <1>1, <2>1, <2>5 DEF Seen
    <3>4. prepare.read[Validated[j][1]][Validated[j][2]] = dir[Validated[j][1]][Validated[j][2]]
      BY <1>2, <2>1, <3>3 DEF FinishedAlone
    <3> QED BY <3>2, <3>4
  <2> QED BY <2>4, <2>5
<1>10. FitIn(read, i)
  <2> HIDE DEF read
  <2> QED BY <1>8, <1>9, FitLooksBack
<1>11. Fit(Validated[i][1], Validated[i][2]) BY <1>2, <1>10, FitIsFitIn
<1> QED BY <1>1, <1>3, <1>11

\* ... and so does every file that is read again.
LEMMA SteadyFitsAgain ==
  ASSUME CaseInv, steady, prepare.step = "reading_again", NEW i \in 1 .. 4,
         ~MustBeAbsent(ReadAgain[i])
  PROVE  /\ dir["hardware"][ReadAgain[i]] \notin {None, Torn}
         /\ Writing("hardware", ReadAgain[i]) = {}
<1>1. FinishedAlone /\ ReadsFit BY DEF CaseInv
<1>2. Writing("hardware", ReadAgain[i]) = {} BY <1>1 DEF Writing, FinishedAlone
<1>3. \A j \in 1 .. 15 : Seen(j) BY DEF Seen, Validation
<1>4. \A j \in 1 .. 15 : FitIn(prepare.read, j)
        /\ prepare.read[Validated[j][1]][Validated[j][2]] = dir[Validated[j][1]][Validated[j][2]]
  BY <1>1, <1>3 DEF ReadsFit, FinishedAlone
<1>5. ReadAgain[i] \in {"differential", "rtl", "isa"}
  <2>1. i \in {1, 2, 3, 4} OBVIOUS
  <2> QED BY <2>1, ReadAgainIs
<1>6. CASE ReadAgain[i] = "differential"
  <2>1. 13 \in 1 .. 15 OBVIOUS
  <2>2. FitIn(prepare.read, 13) /\ prepare.read["hardware"]["differential"] = dir["hardware"]["differential"]
    BY <1>4, <2>1, ValidatedIs
  <2> QED BY <1>2, <1>6, <2>2, ValidatedIs DEF FitIn
<1>7. CASE ReadAgain[i] = "rtl"
  <2>1. 14 \in 1 .. 15 OBVIOUS
  <2>2. FitIn(prepare.read, 14) /\ prepare.read["hardware"]["rtl"] = dir["hardware"]["rtl"]
    BY <1>4, <2>1, ValidatedIs
  <2>3. prepare.read["hardware"]["manifest"].rtl_trace # None
    BY <1>7 DEF MustBeAbsent, HardwareHasTrace
  <2> QED BY <1>2, <1>7, <2>2, <2>3, ValidatedIs DEF FitIn
<1>8. CASE ReadAgain[i] = "isa"
  <2>1. 15 \in 1 .. 15 OBVIOUS
  <2>2. FitIn(prepare.read, 15) /\ prepare.read["hardware"]["isa"] = dir["hardware"]["isa"]
    BY <1>4, <2>1, ValidatedIs
  <2>3. prepare.read["hardware"]["manifest"].rtl_trace # None
    BY <1>8 DEF MustBeAbsent, HardwareHasTrace
  <2> QED BY <1>2, <1>8, <2>2, <2>3, ValidatedIs DEF FitIn
<1> QED BY <1>5, <1>6, <1>7, <1>8

\* A file that fits is one more that was read and checked.
LEMMA AcceptKeepsInv ==
  ASSUME CaseInv, CaseTypeOK', UNCHANGED <<dir, run, runtime>>, NEW i \in 1 .. 15, Accepts(i)
  PROVE  CaseInv'
<1> DEFINE side == Validated[i][1]
           name == Validated[i][2]
           read == [prepare.read EXCEPT ![side][name] = dir[side][name]]
<1>1. /\ prepare.step = "validating" /\ prepare.next = i
      /\ Fit(side, name)
      /\ prepare'.read = read
      /\ prepare'.step = (IF i = 15 THEN "reading_again" ELSE "validating")
      /\ prepare'.next = (IF i = 15 THEN 1 ELSE i + 1)
      /\ prepare'.projection = prepare.projection
      /\ UNCHANGED <<outputBusy, steady>>
  BY DEF Accepts
<1>2. prepare.read \in [Sides -> [FileNames -> Texts]] /\ CaseTypeOK BY DEF CaseInv, CaseTypeOK
<1>3. side \in Sides /\ name \in FileNames BY ValidatedFiles
<1>4. \A j \in 1 .. 15 : Seen(j)' => j = i \/ (Seen(j) /\ j < i)
  BY <1>1 DEF Seen, Validation
<1>5. ASSUME NEW j \in 1 .. 15, j # i
      PROVE  read[Validated[j][1]][Validated[j][2]] = prepare.read[Validated[j][1]][Validated[j][2]]
  <2>1. Validated[j][1] \in Sides /\ Validated[j][2] \in FileNames BY ValidatedFiles
  <2>2. Validated[i][1] # Validated[j][1] \/ Validated[i][2] # Validated[j][2]
    BY <1>5, ValidatedFiles
  <2> QED BY <1>2, <1>3, <2>1, <2>2
<1>6. read[side][name] = dir[side][name] BY <1>2, <1>3
<1>7. FitIn(read, i) BY <1>1, <1>2, FitIsFitIn
<1>8. ReadsFit'
  <2> SUFFICES ASSUME NEW j \in 1 .. 15, Seen(j)' PROVE FitIn(prepare'.read, j)
    BY DEF ReadsFit, FitIn
  <2>1. CASE j = i BY <1>1, <1>7, <2>1
  <2>2. CASE Seen(j) /\ j < i
    <3>1. FitIn(prepare.read, j) BY <2>2 DEF CaseInv, ReadsFit
    <3>2. \A k \in 1 .. j : read[Validated[k][1]][Validated[k][2]]
                              = prepare.read[Validated[k][1]][Validated[k][2]]
      <4> SUFFICES ASSUME NEW k \in 1 .. j
                   PROVE  read[Validated[k][1]][Validated[k][2]]
                            = prepare.read[Validated[k][1]][Validated[k][2]]
        OBVIOUS
      <4>1. k \in 1 .. 15 /\ k # i BY <2>2
      <4> HIDE DEF read
      <4> QED BY <1>5, <4>1
    <3> HIDE DEF read
    <3> QED BY <1>1, <3>1, <3>2, FitLooksBack
  <2> QED BY <1>4, <2>1, <2>2
<1>9. RunsAnalysable' BY DEF CaseInv, RunsAnalysable
<1>10. FilesHaveWriters'
  <2>0. \A s, n : Allowed(s, n)' = Allowed(s, n) BY DEF Allowed, Writers
  <2> HIDE DEF read
  <2> SUFFICES ASSUME NEW s \in Sides, NEW n \in FileNames
               PROVE  dir[s][n] \in Allowed(s, n) /\ read[s][n] \in Allowed(s, n)
    BY <1>1, <2>0 DEF FilesHaveWriters
  <2> USE DEF read
  <2>1. dir[s][n] \in Allowed(s, n) /\ prepare.read[s][n] \in Allowed(s, n)
    BY DEF CaseInv, FilesHaveWriters
  <2>2. read[s][n] \in {prepare.read[s][n], dir[s][n]}
    BY <1>2, <1>3
  <2> QED BY <2>1, <2>2
<1>11. ProjectionOfReads'
  BY <1>1 DEF CaseInv, ProjectionOfReads
<1>12. steady' => FinishedAlone'
  <2> SUFFICES ASSUME steady PROVE FinishedAlone' BY <1>1
  <2>1. FinishedAlone BY DEF CaseInv
  <2>2. ASSUME NEW j \in 1 .. 15, Seen(j)'
        PROVE  read[Validated[j][1]][Validated[j][2]] = dir[Validated[j][1]][Validated[j][2]]
    <3>1. CASE j = i BY <1>6, <3>1
    <3>2. CASE Seen(j) /\ j < i
      <4>1. prepare.read[Validated[j][1]][Validated[j][2]] = dir[Validated[j][1]][Validated[j][2]]
        BY <2>1, <3>2 DEF FinishedAlone
      <4>2. j # i BY <3>2
      <4> HIDE DEF read
      <4> QED BY <1>5, <4>1, <4>2
    <3> QED BY <1>4, <2>2, <3>1, <3>2
  <2> HIDE DEF read
  <2> QED BY <1>1, <2>1, <2>2 DEF FinishedAlone
<1>13. CleanInputsAccepted' BY <1>1 DEF CleanInputsAccepted
<1> QED BY <1>8, <1>9, <1>10, <1>11, <1>12, <1>13 DEF CaseInv

\* Every step of the preparation keeps the invariant.
LEMMA AssembleKeepsInv ==
  ASSUME CaseInv, Assemble
  PROVE  CaseInv'
<1>1. UNCHANGED <<dir, run, runtime>> BY PrepareStep
<1>2. CaseTypeOK /\ CaseTypeOK' BY PrepareTypes DEF CaseInv
<1>3. CASE Begin
  <2>1. /\ prepare.step = "waiting" /\ prepare.next = 1
        /\ prepare'.step = "validating" /\ prepare'.next = 1
        /\ prepare'.read = prepare.read /\ prepare'.projection = prepare.projection
        /\ prepare.projection = None
    <3>1. prepare.step = "waiting" /\ Goes("validating") BY <1>2, <1>3, OtherSteps
    <3>2. prepare.next = 1 BY <1>2, <3>1 DEF CaseTypeOK
    <3>3. prepare.projection = None BY <3>1 DEF CaseInv, ProjectionOfReads
    <3> QED BY <3>1, <3>2, <3>3 DEF Goes
  <2>2. \A i \in 1 .. 15 : ~Seen(i)' BY <2>1 DEF Seen, Validation
  <2>3. CleanInputsAccepted' BY <2>1 DEF CleanInputsAccepted
  <2>4. steady' => FinishedAlone'
    <3> SUFFICES ASSUME steady' PROVE FinishedAlone' OBVIOUS
    <3> DEFINE Alone == /\ \A q \in DOMAIN run : run[q].step # "writing"
                        /\ \A side \in Sides :
                             \E r \in DOMAIN run : /\ run[r].step = "done"
                                                   /\ run[r].task.side = side
                                                   /\ dir[side] = Results(run[r].task)
    <3>0. steady' = Alone BY <1>3, Zenon DEF Begin
    <3>1. Alone
      <4> HIDE DEF Alone
      <4> QED BY <3>0, Zenon
    <3>2. \A i \in 1 .. 15 :
            Seen(i)' => prepare'.read[Validated[i][1]][Validated[i][2]]
                          = dir'[Validated[i][1]][Validated[i][2]]
      BY <2>2
    <3>3. prepare'.step # "waiting" BY <2>1
    <3> QED BY <1>1, <3>1, <3>2, <3>3 DEF FinishedAlone
  <2> QED BY <1>1, <1>2, <2>1, <2>2, <2>3, <2>4, SameReadsKeepInv
<1>4. CASE Validate
  <2>1. CASE \E i \in 1 .. 15 : Accepts(i) BY <1>1, <1>2, <2>1, AcceptKeepsInv
  <2>2. CASE /\ Rejects
             /\ prepare.step = "validating"
             /\ LET i == prepare.next IN
                \/ ~Fit(Validated[i][1], Validated[i][2])
                \/ Writing(Validated[i][1], Validated[i][2]) # {}
    <3>1. ~steady BY <2>2, SteadyFits
    <3> QED BY <1>1, <1>2, <2>2, <3>1, RejectKeepsInv
  <2> QED BY <1>2, <1>4, <2>1, <2>2, ValidateStep
<1>5. CASE Reread
  <2>1. ASSUME NEW i \in 1 .. 4, AcceptsAgain(i) PROVE CaseInv'
    <3>1. /\ prepare.step = "reading_again"
          /\ prepare'.step \in {"reading_again", "projecting"}
          /\ prepare'.read = prepare.read /\ prepare'.projection = prepare.projection
          /\ UNCHANGED <<outputBusy, steady>>
      BY <2>1 DEF AcceptsAgain
    <3>2. prepare.projection = None BY <3>1 DEF CaseInv, ProjectionOfReads
    <3>3. \A j \in 1 .. 15 : Seen(j)' => Seen(j) BY <3>1 DEF Seen, Validation
    <3>4. CleanInputsAccepted' BY <3>1 DEF CleanInputsAccepted
    <3>5. steady' => FinishedAlone' BY <1>1, <3>1, <3>3, FinishedAloneStays DEF CaseInv
    <3> QED BY <1>1, <1>2, <3>1, <3>2, <3>3, <3>4, <3>5, SameReadsKeepInv
  <2>2. CASE /\ Rejects
             /\ prepare.step = "reading_again"
             /\ prepare.next \in 1 .. 4
             /\ LET name == ReadAgain[prepare.next] IN
                /\ ~MustBeAbsent(name)
                /\ \/ dir["hardware"][name] \in {None, Torn}
                   \/ Writing("hardware", name) # {}
    <3>1. ~steady BY <2>2, SteadyFitsAgain
    <3> QED BY <1>1, <1>2, <2>2, <3>1, RejectKeepsInv
  <2> QED BY <1>2, <1>5, <2>1, <2>2, RereadStep
<1>6. CASE Project
  <2>1. CASE /\ Rejects
             /\ runtime # None
             /\ runtime.elf # prepare.read["firmware"]["analysis"]
    <3>1. prepare.step = "projecting" BY <1>2, <1>6, OtherSteps
    <3> QED BY <1>1, <1>2, <2>1, <3>1, RejectKeepsInv
  <2>2. CASE /\ prepare' = [step |-> "publishing", next |-> prepare.next,
                            read |-> prepare.read, again |-> prepare.again,
                            projection |-> IF runtime = None THEN None ELSE Projection(runtime)]
             /\ runtime # None => runtime.elf = prepare.read["firmware"]["analysis"]
             /\ UNCHANGED <<outputBusy, steady>>
    <3>1. prepare.step = "projecting" BY <1>2, <1>6, OtherSteps
    <3>2. /\ prepare'.step = "publishing" /\ prepare'.read = prepare.read
          /\ prepare'.projection = (IF runtime = None THEN None ELSE Projection(runtime))
      BY <2>2
    <3>3. \A j \in 1 .. 15 : Seen(j) BY <3>1 DEF Seen, Validation
    <3>4. \A j \in 1 .. 15 : FitIn(prepare.read, j) BY <3>3 DEF CaseInv, ReadsFit
    <3>5. prepare.read["hardware"]["capabilities"].facts
            = FactsOf[prepare.read["hardware"]["manifest"].elf]
      <4> DEFINE R == prepare.read["hardware"]
      <4>1. HardwareAgrees(R, "manifest") /\ HardwareAgrees(R, "capabilities")
        <5>1. 8 \in 1 .. 15 /\ 10 \in 1 .. 15 OBVIOUS
        <5>2. FitIn(prepare.read, 8) /\ FitIn(prepare.read, 10) BY <3>4, <5>1
        <5> QED BY <5>2, ValidatedIs DEF FitIn, Agrees
      <4>2. R["manifest"].elf = R["analysis"] BY <4>1 DEF HardwareAgrees
      <4>3. R["capabilities"] = [analysis |-> R["analysis"], facts |-> FactsOf[R["analysis"]]]
        BY <4>1 DEF HardwareAgrees
      <4> QED BY <4>2, <4>3
    <3>6. ReadsFit' BY <3>2, <3>4 DEF ReadsFit, FitIn
    <3>7. ProjectionOfReads'
      <4> SUFFICES ASSUME prepare'.projection # None PROVE ProjectionOfReads'
        BY DEF ProjectionOfReads
      <4>1. runtime # None /\ prepare'.projection = Projection(runtime) BY <3>2
      <4>2. RelatedKinds' = RelatedKinds BY <3>2 DEF RelatedKinds
      <4>3. RelatedFacts' = RelatedFacts BY <3>2, <4>2 DEF RelatedFacts
      <4>4. AllSupported(runtime)' <=> AllSupported(runtime) BY <1>1, <4>3 DEF AllSupported
      <4>5. \A k : KindStatus(runtime, k)' = KindStatus(runtime, k)
        BY <1>1, <4>3 DEF KindStatus
      <4>6. Projection(runtime)' = Projection(runtime) BY <4>2, <4>4, <4>5 DEF Projection
      <4> QED BY <1>1, <2>2, <3>2, <3>5, <4>1, <4>6 DEF ProjectionOfReads
    <3>8. RunsAnalysable' BY <1>1 DEF CaseInv, RunsAnalysable
    <3>9. FilesHaveWriters' BY <1>1, <3>2 DEF CaseInv, FilesHaveWriters, Allowed, Writers
    <3>10. CleanInputsAccepted' BY <3>2 DEF CleanInputsAccepted
    <3>11. steady' => FinishedAlone' BY <1>1, <2>2, <3>2, <3>3, FinishedAloneStays DEF CaseInv
    <3> QED BY <1>2, <3>6, <3>7, <3>8, <3>9, <3>10, <3>11 DEF CaseInv
  <2> QED BY <1>2, <1>6, <2>1, <2>2, OtherSteps
<1>7. CASE Publish
  <2>1. prepare.step = "publishing" BY <1>2, <1>7, OtherSteps
  <2>2. CASE Rejects /\ outputBusy BY <1>1, <1>2, <2>1, <2>2, RejectKeepsInv
  <2>3. CASE Goes("done") /\ UNCHANGED steady /\ outputBusy' = TRUE
    <3>1. /\ prepare'.step = "done" /\ prepare'.read = prepare.read
          /\ prepare'.projection = prepare.projection
      BY <2>3 DEF Goes
    <3>2. \A j \in 1 .. 15 : Seen(j)' => Seen(j) BY <2>1, <3>1 DEF Seen, Validation
    <3>3. CleanInputsAccepted' BY <3>1 DEF CleanInputsAccepted
    <3>4. steady' => FinishedAlone' BY <1>1, <2>3, <3>1, <3>2, FinishedAloneStays DEF CaseInv
    <3> QED BY <1>1, <1>2, <3>1, <3>2, <3>3, <3>4, SameReadsKeepInv
  <2> QED BY <1>2, <1>7, <2>2, <2>3, OtherSteps
<1> QED BY <1>3, <1>4, <1>5, <1>6, <1>7 DEF Assemble

(* The inductive invariant of any number of analyses and a preparation:    *)
(* where every file comes from, and which checks hold of what was read.    *)
THEOREM CaseInvariant == CaseSpec => []CaseInv
<1>1. CaseInv /\ [CaseNext]_caseVars => CaseInv'
  <2> SUFFICES ASSUME CaseInv, [CaseNext]_caseVars PROVE CaseInv' OBVIOUS
  <2>1. CASE \E r \in DOMAIN run : StartRun(r) \/ Analysed(r) \/ Write(r) \/ KillRun(r)
    BY <2>1, RunKeepsInv
  <2>2. CASE Assemble BY <2>2, AssembleKeepsInv
  <2>3. CASE UNCHANGED caseVars
    <3>1. UNCHANGED <<dir, run, prepare, runtime, outputBusy, steady>> BY <2>3 DEF caseVars
    <3>2. CaseTypeOK' BY <3>1 DEF CaseInv, CaseTypeOK
    <3>3. RunsAnalysable' BY <3>1 DEF CaseInv, RunsAnalysable
    <3>4. FilesHaveWriters' BY <3>1 DEF CaseInv, FilesHaveWriters, Allowed, Writers
    <3>5. ReadsFit' BY <3>1 DEF CaseInv, ReadsFit, Seen, FitIn
    <3>6. ProjectionOfReads'
      BY <3>1 DEF CaseInv, ProjectionOfReads, Projection, AllSupported, RelatedFacts,
         RelatedKinds, KindStatus
    <3>7. steady' => FinishedAlone' BY <3>1 DEF CaseInv, FinishedAlone, Seen
    <3>8. CleanInputsAccepted' BY <3>1 DEF CaseInv, CleanInputsAccepted
    <3> QED BY <3>2, <3>3, <3>4, <3>5, <3>6, <3>7, <3>8 DEF CaseInv
  <2> QED BY <2>1, <2>2, <2>3 DEF CaseNext
<1> QED BY <1>1, CaseInitInv, PTL DEF CaseSpec

-----------------------------------------------------------------------------

(* The directories of two finished analyses that nobody writes are refused *)
(* only for the case directory or the runtime evidence: every value that   *)
(* prepare_case compares is one that analyze_package wrote the same way.   *)
THEOREM FinishedInputsAreAccepted == CaseSpec => []CleanInputsAccepted
<1>1. CaseInv => CleanInputsAccepted BY DEF CaseInv
<1> QED BY <1>1, CaseInvariant, PTL

\* The invariant is more than enough: what AllSupported says of the related facts is
\* what KindStatus says of each of their kinds.
LEMMA SatisfiedLemma == CaseInv => SatisfiedIsObserved
<1> SUFFICES ASSUME CaseInv, prepare.projection # None
             PROVE  SatisfiedIsObserved
  BY DEF SatisfiedIsObserved
<1> DEFINE fw == prepare.read["firmware"]["analysis"]
           test == prepare.read["hardware"]["manifest"].elf
           shared == {f \in FactsOf[fw] : \E g \in FactsOf[test] : g.kind = f.kind}
           requirement == prepare.projection.requirement
           kinds == prepare.projection.kinds
           supported == {k \in DOMAIN kinds : kinds[k] = "SUPPORTED"}
<1>1. /\ runtime.elf = fw
      /\ prepare.projection = Projection(runtime)
      /\ prepare.read["hardware"]["capabilities"].facts = FactsOf[test]
  BY DEF CaseInv, ProjectionOfReads
<1>2. RelatedKinds = {g.kind : g \in FactsOf[test]} BY <1>1 DEF RelatedKinds
<1>3. RelatedFacts = shared BY <1>2 DEF RelatedFacts
<1>4. requirement = (IF AllSupported(runtime) THEN "SATISFIED_FOR_DECLARED_SCOPE" ELSE "MISSING")
      /\ kinds = [k \in RelatedKinds |-> KindStatus(runtime, k)]
  BY <1>1 DEF Projection
<1>5. requirement = "SATISFIED_FOR_DECLARED_SCOPE"
        <=> shared # {} /\ shared \subseteq runtime.observed
  BY <1>3, <1>4 DEF AllSupported
<1>6. \A k : k \in supported <=>
        /\ k \in RelatedKinds
        /\ {f \in shared : f.kind = k} # {}
        /\ {f \in shared : f.kind = k} \subseteq runtime.observed
  BY <1>3, <1>4 DEF KindStatus
<1>7. \A f \in shared : f.kind \in RelatedKinds BY <1>2
<1> HIDE DEF fw, test, shared, requirement, kinds, supported
<1>8. shared # {} /\ shared \subseteq runtime.observed
        <=> supported # {} /\ {f.kind : f \in shared} \subseteq supported
  <2>1. ASSUME shared # {}, shared \subseteq runtime.observed
        PROVE  supported # {} /\ {f.kind : f \in shared} \subseteq supported
    <3>1. \A f \in shared : f.kind \in supported BY <1>6, <1>7, <2>1
    <3> QED BY <2>1, <3>1
  <2>2. ASSUME supported # {}, {f.kind : f \in shared} \subseteq supported
        PROVE  shared # {} /\ shared \subseteq runtime.observed
    <3>1. shared # {} BY <1>6, <2>2
    <3>2. \A f \in shared : f.kind \in supported BY <2>2
    <3>3. \A f \in shared : f \in {g \in shared : g.kind = f.kind} OBVIOUS
    <3>4. \A f \in shared : f \in runtime.observed BY <1>6, <3>2, <3>3
    <3> QED BY <3>1, <3>4
  <2> QED BY <2>1, <2>2
<1> QED BY <1>1, <1>5, <1>8
    DEF SatisfiedIsObserved, fw, test, shared, requirement, kinds, supported

(* build_runtime_projection says SATISFIED only for the firmware of the     *)
(* case, when every fact of a kind shared with the test ELF was observed,  *)
(* and the rows per kind say the same.                                     *)
THEOREM SatisfiedWasObserved == CaseSpec => []SatisfiedIsObserved
BY SatisfiedLemma, CaseInvariant, PTL

\* A trace file comes from one delivery, whose two traces it aligns.
LEMMA BoundLemma == CaseInv => BoundAlignmentIsSameOrder
<1> SUFFICES ASSUME CaseInv, dir["hardware"]["rtl"] \notin {None, Torn}
             PROVE  BoundAlignmentIsSameOrder
  BY DEF BoundAlignmentIsSameOrder
<1>1. PICK r \in Writers("hardware") : dir["hardware"]["rtl"] = Result(run[r].task, "rtl")
  <2>1. dir["hardware"]["rtl"] \in Allowed("hardware", "rtl")
    BY FileNamesAre DEF CaseInv, FilesHaveWriters, Sides
  <2> QED BY <2>1 DEF Allowed
<1> DEFINE task == run[r].task
           p == task.package
<1>2. r \in DOMAIN run /\ task.side = "hardware" /\ run[r].step \in {"writing", "done", "killed"}
  BY DEF Writers
<1>3. task \in Tasks BY <1>2 DEF CaseInv, CaseTypeOK
<1>4. Accepted(task) BY <1>2 DEF CaseInv, RunsAnalysable, Analysable
<1>5. Result(task, "rtl") = IF ~HasTrace(p) THEN None
         ELSE [source |-> RuntimeSource(task), trace |-> p.rtl_trace,
               coverage |-> Coverage(SelectedElf(task), p.rtl_trace),
               alignment |-> Alignment(p.rtl_trace, p.isa_csv)]
  BY <1>2 DEF Result, Content
<1>6. HasTrace(p) BY <1>1, <1>5
<1>7. p.rtl_trace # None /\ p.isa_csv # None BY <1>4, <1>6 DEF Accepted, Traces
<1>8. p.rtl_trace \in Seq(Keys(p.rtl_trace)) /\ p.isa_csv \in Seq(Keys(p.isa_csv))
  BY <1>2, <1>3, <1>7, GivenTasks DEF IsTrace
<1>9. Alignment(p.rtl_trace, p.isa_csv) = "BOUND"
        <=> p.rtl_trace = p.isa_csv /\ Cardinality(Keys(p.rtl_trace)) = Len(p.rtl_trace)
  BY <1>8, BoundIsSameOrder
<1>10. /\ dir["hardware"]["rtl"].alignment = Alignment(p.rtl_trace, p.isa_csv)
       /\ dir["hardware"]["rtl"].trace = p.rtl_trace
       /\ dir["hardware"]["rtl"].source = RuntimeSource(task)
  BY <1>1, <1>5, <1>6
<1>11. RuntimeSource(task).rtl_trace = p.rtl_trace /\ RuntimeSource(task).isa_csv = p.isa_csv
  BY DEF RuntimeSource
<1> HIDE DEF task, p
<1> QED BY <1>9, <1>10, <1>11 DEF BoundAlignmentIsSameOrder

(* Every trace file that says BOUND, in any directory any number of         *)
(* analyses wrote, is of two equal traces in which nothing occurs twice.   *)
THEOREM BoundTracesAreTheSame == CaseSpec => []BoundAlignmentIsSameOrder
BY BoundLemma, CaseInvariant, PTL

\* All fifteen checks together, on files each of which some delivery's analysis
\* wrote: they are in all that is used those of the manifest's analysis.
LEMMA FittingFilesAgree ==
  ASSUME NEW read, \A i \in 1 .. 15 : FitIn(read, i),
         NEW Jobs, \A task \in Jobs : task.side = "hardware" /\ Accepted(task) /\ Writable(task),
         \A name \in FileNames :
           read["hardware"][name] \in {None, Torn} \cup {Result(task, name) : task \in Jobs}
  PROVE  \E task \in Jobs : \A name \in FileNames :
           Compared(name, read["hardware"][name]) = Compared(name, Result(task, name))
<1> DEFINE R == read["hardware"]
<1>a. \A i \in 4 .. 13 : HardwareAgrees(R, Validated[i][2]) /\ R[Validated[i][2]] \notin {None, Torn}
  <2> SUFFICES ASSUME NEW i \in 4 .. 13
               PROVE  HardwareAgrees(R, Validated[i][2]) /\ R[Validated[i][2]] \notin {None, Torn}
    OBVIOUS
  <2>1. FitIn(read, i) OBVIOUS
  <2>2. i \in {4, 5, 6, 7, 8, 9, 10, 11, 12, 13} OBVIOUS
  <2>3. Validated[i][1] = "hardware" /\ Validated[i][2] \notin {"rtl", "isa"} BY <2>2, ValidatedIs
  <2> QED BY <2>1, <2>3 DEF FitIn, Agrees
<1>b. /\ HardwareAgrees(R, "manifest") /\ HardwareAgrees(R, "summary")
      /\ HardwareAgrees(R, "capabilities") /\ HardwareAgrees(R, "resources")
      /\ HardwareAgrees(R, "differential")
      /\ HardwareAgrees(R, "firmware-summary") /\ HardwareAgrees(R, "export")
      /\ R["manifest"] \notin {None, Torn} /\ R["summary"] \notin {None, Torn}
      /\ R["differential"] \notin {None, Torn}
  <2>1. /\ 6 \in 4 .. 13 /\ 7 \in 4 .. 13 /\ 8 \in 4 .. 13 /\ 9 \in 4 .. 13 /\ 10 \in 4 .. 13
        /\ 11 \in 4 .. 13 /\ 13 \in 4 .. 13
    OBVIOUS
  <2> HIDE DEF R
  <2> QED BY <1>a, <2>1, ValidatedIs
<1>c. \A name \in FileNames :
        R[name] \notin {None, Torn} => \E task \in Jobs : R[name] = Result(task, name)
  OBVIOUS
<1>1. PICK task \in Jobs : R["manifest"] = Result(task, "manifest") BY <1>b, <1>c, FileNamesAre
<1> DEFINE m == R["manifest"]
           p == task.package
           e == SelectedElf(task)
<1>2. task.side = "hardware" /\ Accepted(task) OBVIOUS
<1>3. m = Manifest(task) BY <1>1, <1>2 DEF Result, Content
<1>4. /\ m.si = SelectedSi(task) /\ m.elf = e
      /\ m.rtl_trace = p.rtl_trace /\ m.isa_csv = p.isa_csv
      /\ m.rtl_signature = p.rtl_signature /\ m.isa_signature = p.isa_signature
      /\ HasTrace(p) => m.rtl_to_elf = Coverage(e, p.rtl_trace)
      /\ HasTrace(p) => m.isa_to_elf = Coverage(e, p.isa_csv)
  <2> HIDE DEF m
  <2> QED BY <1>3 DEF Manifest
<1>5. /\ HasTrace(p) => p.rtl_trace # None /\ p.isa_csv # None
      /\ ~HasTrace(p) => p.rtl_trace = None /\ p.isa_csv = None
  BY <1>2 DEF Accepted, HasTrace, Traces
<1>6. \A other \in Jobs, name \in FileNames : Result(other, name) = Content(other, name)
  BY DEF Result
<1>7. R["si"] = SelectedSi(task) /\ R["analysis"] = e
  BY <1>b, <1>4 DEF HardwareAgrees
<1>8. R["firmware-summary"] = e /\ R["export"] = CodeOf[e]
  BY <1>b, <1>7 DEF HardwareAgrees, OneAnalysis
<1>9. R["capabilities"] = [analysis |-> e, facts |-> FactsOf[e]] /\ R["resources"] = Hints(e)
  BY <1>b, <1>7 DEF HardwareAgrees
<1>10. R["differential"] = Diff(task)
  <2>1. PICK other \in Jobs : R["differential"] = Content(other, "differential")
    BY <1>b, <1>c, <1>6, FileNamesAre
  <2>2. R["differential"] = Diff(other) BY <2>1 DEF Content
  <2>3. Diff(other).rtl = m.rtl_signature /\ Diff(other).isa = m.isa_signature
    <3> HIDE DEF R
    <3> QED BY <1>b, <2>2 DEF HardwareAgrees
  <2>4. /\ Diff(other).rtl = other.package.rtl_signature
        /\ Diff(other).isa = other.package.isa_signature
    BY DEF Diff, Differential
  <2>5. other.package.rtl_signature = p.rtl_signature /\ other.package.isa_signature = p.isa_signature
    BY <1>4, <2>3, <2>4
  <2>6. \A rtl, isa, x, y : Differential(rtl, isa, x, Unbound) = Differential(rtl, isa, y, Unbound)
    BY DEF Differential
  <2>7. Diff(other) = Diff(task)
    <3> HIDE DEF p, m
    <3>1. Diff(task) = Differential(p.rtl_signature, p.isa_signature, HasTrace(p), Unbound)
      BY DEF Diff, p
    <3>2. Diff(other) = Differential(p.rtl_signature, p.isa_signature, HasTrace(other.package), Unbound)
      BY <2>5 DEF Diff
    <3> QED BY <2>6, <3>1, <3>2
  <2> QED BY <2>2, <2>7
<1>11. R["summary"] = Content(task, "summary")
  <2>1. PICK other \in Jobs : R["summary"] = Content(other, "summary")
    BY <1>b, <1>c, <1>6, FileNamesAre
  <2>2. /\ R["summary"].firmware = e /\ R["summary"].manifest = m
        /\ R["summary"].traced = (m.rtl_trace # None)
    BY <1>b, <1>7 DEF HardwareAgrees
  <2> DEFINE q == other.package
  <2>3. Content(other, "summary") =
         [firmware |-> SelectedElf(other), manifest |-> Manifest(other), traced |-> HasTrace(q),
          rtl |-> Count(q.rtl_trace), isa |-> Count(q.isa_csv),
          differing |-> Cardinality(Diff(other).different),
          status |-> Diff(other).status]
    BY DEF Content
  <2>4. Content(task, "summary") =
         [firmware |-> e, manifest |-> Manifest(task), traced |-> HasTrace(p),
          rtl |-> Count(p.rtl_trace), isa |-> Count(p.isa_csv),
          differing |-> Cardinality(Diff(task).different),
          status |-> Diff(task).status]
    BY DEF Content
  <2>5. Manifest(other) = m /\ SelectedElf(other) = e
    <3> HIDE DEF R, m, e
    <3> QED BY <2>1, <2>2, <2>3
  <2>6. /\ Manifest(other).rtl_trace = q.rtl_trace /\ Manifest(other).isa_csv = q.isa_csv
        /\ Manifest(other).rtl_signature = q.rtl_signature
        /\ Manifest(other).isa_signature = q.isa_signature
    BY DEF Manifest
  <2>7. /\ q.rtl_trace = p.rtl_trace /\ q.isa_csv = p.isa_csv
        /\ q.rtl_signature = p.rtl_signature /\ q.isa_signature = p.isa_signature
    <3> HIDE DEF m, p, q
    <3> QED BY <1>4, <2>5, <2>6
  <2>8. HasTrace(q) = HasTrace(p)
    <3>1. /\ HasTrace(q) => q.rtl_trace # None
          /\ ~HasTrace(q) => q.rtl_trace = None
      BY DEF Accepted, HasTrace, Traces
    <3>2. HasTrace(q) <=> HasTrace(p) BY <1>5, <2>7, <3>1
    <3> QED BY <3>2 DEF HasTrace
  <2>9. Diff(other) = Diff(task)
    <3> HIDE DEF p, q
    <3> QED BY <2>7, <2>8 DEF Diff, p, q
  <2> HIDE DEF p, q, m, e, R
  <2> QED BY <1>3, <2>1, <2>3, <2>4, <2>5, <2>7, <2>8, <2>9
<1>u. \A name \in FileNames \ {"rtl", "isa", "candidates"} : R[name] = Content(task, name)
  <2>1. /\ Content(task, "manifest") = Manifest(task)
        /\ Content(task, "si") = SelectedSi(task)
        /\ Content(task, "analysis") = e
        /\ Content(task, "firmware-summary") = e
        /\ Content(task, "export") = CodeOf[e]
        /\ Content(task, "differential") = Diff(task)
        /\ Content(task, "capabilities") = [analysis |-> e, facts |-> FactsOf[e]]
        /\ Content(task, "resources") = Hints(e)
    BY DEF Content
  <2> HIDE DEF R, p, e
  <2> QED BY <1>3, <1>7, <1>8, <1>9, <1>10, <1>11, <2>1, FileNamesAre
<1>12. CASE m.rtl_trace = None
  <2>1. 14 \in 1 .. 15 /\ 15 \in 1 .. 15 OBVIOUS
  <2>2. FitIn(read, 14) /\ FitIn(read, 15) BY <2>1
  <2>3. R["rtl"] = None /\ R["isa"] = None BY <1>12, <2>2, ValidatedIs DEF FitIn
  <2>4. ~HasTrace(p) BY <1>4, <1>5, <1>12
  <2>5. Content(task, "rtl") = None /\ Content(task, "isa") = None BY <2>4 DEF Content
  <2> HIDE DEF R, m, p, e
  <2>6. ASSUME NEW name \in FileNames
        PROVE  Compared(name, R[name]) = Compared(name, Content(task, name))
    <3>1. CASE name \in {"rtl", "isa"} BY <2>3, <2>5, <3>1
    <3>2. CASE name = "candidates" BY <3>2 DEF Compared
    <3>3. CASE name \notin {"rtl", "isa", "candidates"}
      BY <1>u, <3>3
    <3> QED BY <3>1, <3>2, <3>3
  <2> QED BY <1>6, <2>6 DEF R
<1>13. CASE m.rtl_trace # None
  <2>1. 14 \in 1 .. 15 /\ 15 \in 1 .. 15 OBVIOUS
  <2>2. FitIn(read, 14) /\ FitIn(read, 15) BY <2>1
  <2>3. /\ R["rtl"] \notin {None, Torn} /\ HardwareAgrees(R, "rtl")
        /\ R["isa"] \notin {None, Torn} /\ HardwareAgrees(R, "isa")
    BY <1>13, <2>2, ValidatedIs DEF FitIn, Agrees
  <2>4. /\ TraceAgrees(R["rtl"], m, m.rtl_trace, R["summary"].rtl, m.rtl_to_elf)
        /\ TraceAgrees(R["isa"], m, m.isa_csv, R["summary"].isa, m.isa_to_elf)
    BY <1>13, <2>3, TraceChecks
  <2>5. HasTrace(p) BY <1>4, <1>5, <1>13
  <2>6. /\ Content(task, "rtl") = [source |-> RuntimeSource(task), trace |-> p.rtl_trace,
               coverage |-> Coverage(e, p.rtl_trace),
               alignment |-> Alignment(p.rtl_trace, p.isa_csv)]
        /\ Content(task, "isa") = [source |-> RuntimeSource(task), trace |-> p.isa_csv,
               coverage |-> Coverage(e, p.isa_csv), log |-> p.isa_log]
    BY <2>5 DEF Content
  <2>7. RuntimeSource(task) = [si |-> m.si, elf |-> m.elf, rtl_trace |-> m.rtl_trace,
                               isa_csv |-> m.isa_csv]
    <3> HIDE DEF m
    <3> QED BY <1>4 DEF RuntimeSource
  <2>8. /\ R["rtl"].source = RuntimeSource(task) /\ R["rtl"].trace = p.rtl_trace
        /\ R["rtl"].coverage = Coverage(e, p.rtl_trace)
        /\ R["isa"].source = RuntimeSource(task) /\ R["isa"].trace = p.isa_csv
        /\ R["isa"].coverage = Coverage(e, p.isa_csv)
    <3> HIDE DEF R, m, p, e
    <3> QED BY <1>4, <2>4, <2>5, <2>7 DEF TraceAgrees
  <2>9. R["rtl"] = Content(task, "rtl")
    <3>1. PICK other \in Jobs : R["rtl"] = Content(other, "rtl")
      BY <1>c, <1>6, <2>3, FileNamesAre
    <3> DEFINE q == other.package
    <3>2. Content(other, "rtl") = IF ~HasTrace(q) THEN None
             ELSE [source |-> RuntimeSource(other), trace |-> q.rtl_trace,
                   coverage |-> Coverage(SelectedElf(other), q.rtl_trace),
                   alignment |-> Alignment(q.rtl_trace, q.isa_csv)]
      BY DEF Content
    <3> HIDE DEF R, m, p, e
    <3>3. R["rtl"] = [source |-> RuntimeSource(other), trace |-> q.rtl_trace,
                   coverage |-> Coverage(SelectedElf(other), q.rtl_trace),
                   alignment |-> Alignment(q.rtl_trace, q.isa_csv)]
      BY <2>3, <3>1, <3>2
    <3>4. /\ RuntimeSource(other).rtl_trace = q.rtl_trace /\ RuntimeSource(other).isa_csv = q.isa_csv
          /\ RuntimeSource(task).rtl_trace = p.rtl_trace /\ RuntimeSource(task).isa_csv = p.isa_csv
      BY DEF RuntimeSource, p
    <3>5. RuntimeSource(other) = RuntimeSource(task)
          /\ Coverage(SelectedElf(other), q.rtl_trace) = Coverage(e, p.rtl_trace)
      BY <2>8, <3>3
    <3>6. q.rtl_trace = p.rtl_trace /\ q.isa_csv = p.isa_csv BY <3>4, <3>5
    <3> HIDE DEF q
    <3> QED BY <2>6, <3>3, <3>5, <3>6
  <2>10. Compared("isa", R["isa"]) = Compared("isa", Content(task, "isa"))
    <3>1. Compared("isa", R["isa"]) = [source |-> RuntimeSource(task), trace |-> p.isa_csv,
                                       coverage |-> Coverage(e, p.isa_csv)]
      <4> HIDE DEF R, p, e
      <4> QED BY <2>3, <2>8 DEF Compared
    <3>2. Content(task, "isa").source = RuntimeSource(task)
          /\ Content(task, "isa").trace = p.isa_csv
          /\ Content(task, "isa").coverage = Coverage(e, p.isa_csv)
      BY <2>6
    <3>3. Content(task, "isa") # None BY <1>6, <2>5, FileNamesAre DEF Writable
    <3> HIDE DEF R, p, e
    <3> QED BY <3>1, <3>2, <3>3 DEF Compared
  <2> HIDE DEF R, m, p, e
  <2>11. ASSUME NEW name \in FileNames
        PROVE  Compared(name, R[name]) = Compared(name, Content(task, name))
    <3>1. CASE name = "rtl" BY <2>9, <3>1
    <3>2. CASE name = "isa" BY <2>10, <3>2
    <3>3. CASE name = "candidates" BY <3>3 DEF Compared
    <3>4. CASE name \notin {"rtl", "isa", "candidates"}
      BY <1>u, <3>4
    <3> QED BY <3>1, <3>2, <3>3, <3>4
  <2> QED BY <1>6, <2>11 DEF R
<1> QED BY <1>12, <1>13

\* The files the preparation accepted, each with its writer, are of one writer.
LEMMA InputsLemma == CaseInv => ValidatedInputsAgree
<1> SUFFICES ASSUME CaseInv, prepare.step \in Validation PROVE ValidatedInputsAgree
  BY DEF ValidatedInputsAgree, Past
<1>1. \A i \in 1 .. 15 : FitIn(prepare.read, i) BY DEF CaseInv, ReadsFit, Seen
<1> DEFINE F == prepare.read["firmware"]
           Jobs == {run[r].task : r \in Writers("hardware")}
<1>2. \A side \in Sides, name \in FileNames : prepare.read[side][name] \in Allowed(side, name)
  BY DEF CaseInv, FilesHaveWriters
<1>3. \E e \in Elfs : F["analysis"] = e /\ F["firmware-summary"] = e /\ F["export"] = CodeOf[e]
  <2>1. 1 \in 1 .. 15 /\ 2 \in 1 .. 15 /\ 3 \in 1 .. 15 OBVIOUS
  <2>2. FitIn(prepare.read, 1) /\ FitIn(prepare.read, 2) /\ FitIn(prepare.read, 3)
    BY <1>1, <2>1
  <2>3. /\ F["analysis"] \notin {None, Torn} /\ F["firmware-summary"] = F["analysis"]
        /\ F["export"] = CodeOf[F["analysis"]]
    BY <2>2, ValidatedIs DEF FitIn, Agrees, OneAnalysis
  <2>4. F["analysis"] \in Allowed("firmware", "analysis") BY <1>2, FileNamesAre DEF Sides
  <2>5. PICK r \in Writers("firmware") : F["analysis"] = Result(run[r].task, "analysis")
    BY <2>3, <2>4 DEF Allowed
  <2>6. run[r].task.side = "firmware" /\ run[r].task \in Tasks
    BY DEF Writers, CaseInv, CaseTypeOK
  <2>7. F["analysis"] = run[r].task.elf /\ run[r].task.elf \in Elfs
    BY <2>5, <2>6, GivenTasks DEF Result
  <2> HIDE DEF F
  <2> QED BY <2>3, <2>7
<1>4. \A task \in Jobs : task.side = "hardware" /\ Accepted(task) /\ Writable(task)
  <2> SUFFICES ASSUME NEW r \in Writers("hardware")
               PROVE  LET task == run[r].task IN
                      task.side = "hardware" /\ Accepted(task) /\ Writable(task)
    OBVIOUS
  <2>1. /\ r \in DOMAIN run /\ run[r].task.side = "hardware"
        /\ run[r].step \in {"writing", "done", "killed"}
    BY DEF Writers
  <2>2. run[r].task \in Tasks BY <2>1 DEF CaseInv, CaseTypeOK
  <2>3. Analysable(run[r].task) BY <2>1 DEF CaseInv, RunsAnalysable
  <2> QED BY <2>1, <2>2, <2>3, GivenTasks DEF Analysable
<1>5. ASSUME NEW name \in FileNames
      PROVE  prepare.read["hardware"][name] \in {None, Torn} \cup {Result(task, name) : task \in Jobs}
  BY <1>2 DEF Allowed, Sides
<1> HIDE DEF Jobs
<1>6. PICK task \in Jobs : \A name \in FileNames :
        Compared(name, prepare.read["hardware"][name]) = Compared(name, Result(task, name))
  BY <1>1, <1>4, <1>5, FittingFilesAgree
<1>7. PICK r \in Writers("hardware") : task = run[r].task BY DEF Jobs
<1> QED BY <1>3, <1>6, <1>7 DEF ValidatedInputsAgree

(* The checks of _analysis, _manifest and _hardware, made one file at a     *)
(* time while commands write, accept no mixture: in all that is compared,  *)
(* what was read is what one analysis of each side wrote.                  *)
THEOREM NoMixtureIsAccepted == CaseSpec => []ValidatedInputsAgree
BY InputsLemma, CaseInvariant, PTL
=============================================================================
