--------------------------- MODULE ToolInstaller ---------------------------
(***************************************************************************)
(* scripts/setup_qemu.sh and scripts/setup_ghidra.sh: any number of setup  *)
(* processes verify or install one pinned tool under the repository.  They *)
(* share two names: the installation directory and the cached archive.     *)
(* Each script publishes under a name by renaming something it has checked *)
(* in a temporary place of its own.  A process may be killed at any        *)
(* point (its EXIT trap does not run then) and run again, and a user may   *)
(* touch both names while the scripts work.                                *)
(***************************************************************************)
EXTENDS Naturals

CONSTANTS
  Installers,   \* the setup processes
  NoFile,       \* nothing under a name
  MaxKills,     \* bound on the kills
  MaxForeign    \* bound on what the user does to the two names

ASSUME BoundsAssumption == MaxKills \in Nat /\ MaxForeign \in Nat

Tools == {"qemu", "ghidra"}

(* An archive is the pinned bundle, an archive somebody made that holds    *)
(* every pinned file and more, or something else.  Extracting it gives a   *)
(* tree of the same name.  A tree can also be what an interrupted          *)
(* extraction leaves, or a directory without entries.                      *)
Archives == {"pinned", "repacked", "broken"}
Trees    == Archives \cup {"partial", "empty"}

ASSUME NoFileAssumption == NoFile \notin Trees

(* The command line: what --archive gives, whether the name of that file   *)
(* is the bundle's, --offline and --verify-only.                           *)
Options ==
  {o \in [given : Archives \cup {NoFile}, named : BOOLEAN,
          offline : BOOLEAN, verifyOnly : BOOLEAN] :
     /\ o.verifyOnly => o.given = NoFile
     /\ o.given = NoFile => o.named}

Verdicts == {"none", "pass", "invalid", "failed"}

Steps == {"start", "existing", "source", "download", "check_download", "look_cache",
          "move_cache", "check", "stage", "extract", "verify", "look", "promote",
          "exit", "done", "killed"}

VARIABLES
  tool,       \* which of the two scripts runs, fixed
  install,    \* the tree under install/
  cache,      \* the archive under the cache's name
  pc,         \* the step each process is at
  option,     \* its command line
  download,   \* its temporary download
  stage,      \* its temporary tree
  checked,    \* setup_ghidra.sh archive_verified
  verdict,    \* what it told its user
  kills, foreign

vars == <<tool, install, cache, pc, option, download, stage, checked, verdict, kills, foreign>>

TypeOK ==
  /\ tool \in Tools
  /\ install \in Trees \cup {NoFile}
  /\ cache \in Archives \cup {NoFile}
  /\ pc \in [Installers -> Steps]
  /\ option \in [Installers -> Options]
  /\ download \in [Installers -> Archives \cup {NoFile}]
  /\ stage \in [Installers -> Trees \cup {NoFile}]
  /\ checked \in [Installers -> BOOLEAN]
  /\ verdict \in [Installers -> Verdicts]
  /\ kills \in 0 .. MaxKills
  /\ foreign \in 0 .. MaxForeign

\* Mutant of Verifies: the file check of QEMU does not look for more files.
Verifies_Listed(tree) == tree \in {"pinned", "repacked"}

(* verify_install.  QEMU's file check refuses a file the manifest does not *)
(* list; the other script runs sha256sum --check, which reads only what is *)
(* listed.  The probes that run the tool are taken to succeed on a pinned   *)
(* tree.                                                                   *)
Verifies(tree) == tree = "pinned" \/ (tool = "ghidra" /\ tree = "repacked")

Init ==
  /\ tool \in Tools
  /\ install = NoFile
  /\ cache \in {NoFile, "pinned"}
  /\ pc = [p \in Installers |-> "start"]
  /\ option \in [Installers -> Options]
  /\ download = [p \in Installers |-> NoFile]
  /\ stage = [p \in Installers |-> NoFile]
  /\ checked = [p \in Installers |-> FALSE]
  /\ verdict = [p \in Installers |-> "none"]
  /\ kills = 0 /\ foreign = 0

Goto(p, step) == pc' = [pc EXCEPT ![p] = step]

\* Ends with a verdict; the EXIT trap follows.
End(p, v) == Goto(p, "exit") /\ verdict' = [verdict EXCEPT ![p] = v]

Names == <<install, cache>>
Fixed == <<tool, option, kills, foreign>>

\* The pinned metadata, the host, or the Java that Ghidra needs does not fit.
Unfit(p) ==
  /\ pc[p] = "start"
  /\ End(p, "failed")
  /\ UNCHANGED <<Names, Fixed, download, stage, checked>>

\* [[ -e $install_dir ]]
Start(p) ==
  /\ pc[p] = "start"
  /\ \/ install # NoFile /\ Goto(p, "existing") /\ UNCHANGED verdict
     \/ install = NoFile /\ option[p].verifyOnly /\ End(p, "failed")
     \/ install = NoFile /\ ~option[p].verifyOnly /\ Goto(p, "source") /\ UNCHANGED verdict
  /\ UNCHANGED <<Names, Fixed, download, stage, checked>>

\* What exists is verified and kept as it is, valid or not.
CheckExisting(p) ==
  /\ pc[p] = "existing"
  /\ End(p, IF Verifies(install) THEN "pass" ELSE "invalid")
  /\ UNCHANGED <<Names, Fixed, download, stage, checked>>

\* The given archive, the cached one, or a download.
Source(p) ==
  /\ pc[p] = "source"
  /\ \/ (option[p].given # NoFile \/ cache # NoFile) /\ Goto(p, "check") /\ UNCHANGED verdict
     \/ option[p].given = NoFile /\ cache = NoFile /\ option[p].offline /\ End(p, "failed")
     \/ /\ option[p].given = NoFile /\ cache = NoFile /\ ~option[p].offline
        /\ Goto(p, "download") /\ UNCHANGED verdict
  /\ UNCHANGED <<Names, Fixed, download, stage, checked>>

\* curl or wget into a temporary file: whole, wrong or failed.
Download(p) ==
  /\ pc[p] = "download"
  /\ \E bytes \in {"pinned", "broken"} :
       /\ download' = [download EXCEPT ![p] = bytes]
       /\ \/ Goto(p, "check_download") /\ UNCHANGED verdict
          \/ End(p, "failed")
  /\ UNCHANGED <<Names, Fixed, stage, checked>>

\* Mutant of CheckDownload: the hash is left to the later check of the archive.
CheckDownload_Later(p) ==
  /\ pc[p] = "check_download"
  /\ Goto(p, "look_cache") /\ UNCHANGED <<verdict, checked>>
  /\ UNCHANGED <<Names, Fixed, download, stage>>

CheckDownload(p) ==
  /\ pc[p] = "check_download"
  /\ \/ /\ download[p] = "pinned" /\ Goto(p, "look_cache")
        /\ checked' = [checked EXCEPT ![p] = TRUE] /\ UNCHANGED verdict
     \/ download[p] # "pinned" /\ End(p, "failed") /\ UNCHANGED checked
  /\ UNCHANGED <<Names, Fixed, download, stage>>

LookCache(p) ==
  /\ pc[p] = "look_cache"
  /\ \/ cache = NoFile /\ Goto(p, "move_cache") /\ UNCHANGED verdict
     \/ cache # NoFile /\ End(p, "failed")
  /\ UNCHANGED <<Names, Fixed, download, stage, checked>>

\* mv -T of a file replaces a file that appeared since LookCache.
MoveCache(p) ==
  /\ pc[p] = "move_cache"
  /\ cache' = download[p]
  /\ download' = [download EXCEPT ![p] = NoFile]
  /\ Goto(p, "check")
  /\ UNCHANGED <<install, Fixed, stage, checked, verdict>>

\* What the path of the archive holds now.
Archive(p) == IF option[p].given # NoFile THEN option[p].given ELSE cache

(* [[ -f $archive ]] and its hash.  setup_ghidra.sh hashes only a file that *)
(* bears the bundle's name, and not again after a download.                *)
Hashed(p) == tool = "qemu" \/ (option[p].named /\ ~checked[p])

Check(p) ==
  /\ pc[p] = "check"
  /\ \/ /\ Archive(p) = NoFile \/ (Hashed(p) /\ Archive(p) # "pinned")
        /\ End(p, "failed")
     \/ /\ Archive(p) # NoFile /\ (Hashed(p) => Archive(p) = "pinned")
        /\ Goto(p, "stage") /\ UNCHANGED verdict
  /\ UNCHANGED <<Names, Fixed, download, stage, checked>>

\* mktemp -d beside the installation.
Stage(p) ==
  /\ pc[p] = "stage"
  /\ stage' = [stage EXCEPT ![p] = "empty"]
  /\ Goto(p, "extract")
  /\ UNCHANGED <<Names, Fixed, download, checked, verdict>>

(* The archive is opened by its path again: it may have changed since it   *)
(* was hashed.  setup_qemu.sh hashes what it opened; setup_ghidra.sh does  *)
(* not.  An archive that is not a tool's may be refused or extracted, and  *)
(* any extraction may stop half-way.                                       *)
Opened(p) == Archive(p) # NoFile /\ (tool = "qemu" => Archive(p) = "pinned")

\* Mutant of Extract: the archive is unpacked where it is going to be used.
Extract_InPlace(p) ==
  /\ pc[p] = "extract"
  /\ Opened(p)
  /\ stage' = [stage EXCEPT ![p] = Archive(p)]
  /\ install' \in {"partial", Archive(p)}
  /\ Goto(p, "verify")
  /\ UNCHANGED <<cache, Fixed, download, checked, verdict>>

Extract(p) ==
  /\ pc[p] = "extract"
  /\ \/ /\ Opened(p)
        /\ stage' = [stage EXCEPT ![p] = Archive(p)]
        /\ Goto(p, "verify") /\ UNCHANGED verdict
     \/ /\ stage' = [stage EXCEPT ![p] = "partial"]
        /\ End(p, "failed")
  /\ UNCHANGED <<Names, Fixed, download, checked>>

VerifyStage(p) ==
  /\ pc[p] = "verify"
  /\ \/ Verifies(stage[p]) /\ Goto(p, "look") /\ UNCHANGED verdict
     \/ ~Verifies(stage[p]) /\ End(p, "failed")
  /\ UNCHANGED <<Names, Fixed, download, stage, checked>>

Look(p) ==
  /\ pc[p] = "look"
  /\ \/ install = NoFile /\ Goto(p, "promote") /\ UNCHANGED verdict
     \/ install # NoFile /\ End(p, "failed")
  /\ UNCHANGED <<Names, Fixed, download, stage, checked>>

\* Mutant of Promote: mv without -T puts the tree inside a directory that appeared.
Promote_Inside(p) ==
  /\ pc[p] = "promote"
  /\ install' = IF install = NoFile THEN stage[p] ELSE "broken"
  /\ stage' = [stage EXCEPT ![p] = NoFile]
  /\ End(p, "pass")
  /\ UNCHANGED <<cache, Fixed, download, checked>>

(* mv -T renames the tree.  rename(2) puts a directory in the place of     *)
(* nothing or of an empty directory, and fails on anything else.           *)
Promote(p) ==
  /\ pc[p] = "promote"
  /\ \/ /\ install \in {NoFile, "empty"}
        /\ install' = stage[p]
        /\ stage' = [stage EXCEPT ![p] = IF tool = "qemu" THEN NoFile ELSE "partial"]
        /\ End(p, "pass")
     \/ /\ install \notin {NoFile, "empty"}
        /\ End(p, "failed") /\ UNCHANGED <<install, stage>>
  /\ UNCHANGED <<cache, Fixed, download, checked>>

\* The EXIT trap.
Cleanup(p) ==
  /\ pc[p] = "exit"
  /\ stage' = [stage EXCEPT ![p] = NoFile]
  /\ download' = [download EXCEPT ![p] = NoFile]
  /\ Goto(p, "done")
  /\ UNCHANGED <<Names, Fixed, checked, verdict>>

Kill(p) ==
  /\ pc[p] \notin {"done", "killed"} /\ kills < MaxKills
  /\ kills' = kills + 1
  /\ Goto(p, "killed")
  /\ UNCHANGED <<tool, Names, option, download, stage, checked, verdict, foreign>>

(* The user runs a killed command again.  mktemp gives it new names, so    *)
(* what the killed process left is not used by anyone.                     *)
RunAgain(p) ==
  /\ pc[p] = "killed"
  /\ Goto(p, "start")
  /\ download' = [download EXCEPT ![p] = NoFile]
  /\ stage' = [stage EXCEPT ![p] = NoFile]
  /\ checked' = [checked EXCEPT ![p] = FALSE]
  /\ verdict' = [verdict EXCEPT ![p] = "none"]
  /\ UNCHANGED <<Names, Fixed>>

\* The user makes an installation directory, adds files to one, or replaces the cache.
Touch ==
  /\ foreign < MaxForeign
  /\ foreign' = foreign + 1
  /\ \/ install = NoFile /\ install' \in {"empty", "broken"} /\ UNCHANGED cache
     \/ install = "pinned" /\ install' = "repacked" /\ UNCHANGED cache
     \/ cache' \in Archives /\ UNCHANGED install
  /\ UNCHANGED <<tool, pc, option, download, stage, checked, verdict, kills>>

Setup(p) ==
  \/ Unfit(p) \/ Start(p) \/ CheckExisting(p) \/ Source(p) \/ Download(p) \/ CheckDownload(p)
  \/ LookCache(p) \/ MoveCache(p) \/ Check(p) \/ Stage(p) \/ Extract(p)
  \/ VerifyStage(p) \/ Look(p) \/ Promote(p) \/ Cleanup(p)

Next == (\E p \in Installers : Setup(p) \/ Kill(p) \/ RunAgain(p)) \/ Touch

Spec == Init /\ [][Next]_vars

-----------------------------------------------------------------------------

(* While no user touches them, the two names hold nothing or something     *)
(* whole and checked, however many setup processes race for them and       *)
(* wherever they are killed: there is no half-extracted installation, no    *)
(* tree moved into another and no unchecked download in the cache.         *)
PublishedIsWhole ==
  foreign = 0 => /\ install = NoFile \/ Verifies(install)
                 /\ cache \in {NoFile, "pinned"}

(* A killed setup never blocks the next one: "Existing installation is      *)
(* invalid" is said only when somebody other than the scripts made it so.  *)
KilledNeverBlocks ==
  \A p \in Installers : verdict[p] = "invalid" => foreign > 0

(* A setup that says PASS leaves, at that moment, an installation with     *)
(* every pinned file, and for QEMU with no other file.                     *)
PassMeansInstalled ==
  [][\A p \in Installers :
       verdict[p] # "pass" /\ verdict'[p] = "pass" =>
         install' \in IF tool = "qemu" THEN {"pinned"} ELSE {"pinned", "repacked"}]_vars

(* Whatever is under install/ with something in it stays as it is through  *)
(* every step of the scripts: "an invalid existing directory is left       *)
(* untouched" and a valid one is reused, also when it appeared after the   *)
(* script had looked for it.                                               *)
ExistingUntouched ==
  [][install \notin {NoFile, "empty"} /\ foreign' = foreign => install' = install]_vars
=============================================================================
