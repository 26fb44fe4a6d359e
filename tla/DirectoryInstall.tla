--------------------------- MODULE DirectoryInstall ---------------------------
(***************************************************************************)
(* Installation of a Unity build (updater.py, _install_unity_asset) over    *)
(* DirectoryInstallTransaction (services/update_transaction.py): a staged   *)
(* directory takes the place of the installed one, the old one is kept as a *)
(* backup until the new one verifies, and a journal written after each      *)
(* step lets the next start of the program go on after a crash.             *)
(*                                                                         *)
(* A step of the model is one rename, one journal write (a temporary file   *)
(* and os.replace) or one stage of a recursive removal or copy; the process *)
(* may die between any two.                                                 *)
(***************************************************************************)
EXTENDS Naturals

CONSTANTS Builds,      \* versions offered for installation
          OldBuild,    \* what is installed at first
          NoBuild,     \* no such directory
          MayForget,   \* a half-removed directory may no longer be recognized
          Budgets      \* bounds [errors, cancels, crashes]: operations that fail,
                       \* installations the user cancels, deaths of the process

ASSUME InstallAssumption ==
  /\ OldBuild \notin Builds /\ NoBuild \notin Builds /\ OldBuild # NoBuild
  /\ MayForget \in BOOLEAN
  /\ Budgets \subseteq [errors : Nat, cancels : Nat, crashes : Nat]

VARIABLES dirs,     \* the target directory and its stage and backup
          journal,  \* operation.json
          run,      \* the installer: pc, version, by the user, recovering
          errors, cancels, crashes,   \* what went wrong so far
          budget                      \* and how much may

vars == <<dirs, journal, run, errors, cancels, crashes, budget>>
bounds == <<errors, cancels, crashes, budget>>

(* whole: every file is there; sealed: its manifest describes it; known: an  *)
(* executable or a manifest identifies it; saves: it holds the user's data.  *)
Directories == [build : Builds \cup {OldBuild, NoBuild}, whole : BOOLEAN,
                sealed : BOOLEAN, known : BOOLEAN, saves : BOOLEAN]
Gone == [build |-> NoBuild, whole |-> FALSE, sealed |-> FALSE,
         known |-> FALSE, saves |-> FALSE]
Names == {"target", "stage", "backup"}
Exists(d) == dirs[d].build # NoBuild

Committing == {"commit_prepared", "target_backed_up", "activated"}
Closed     == {"", "completed", "rolled_back", "cancelled", "failed"}
Phases     == Committing \cup Closed \cup
              {"created", "downloading", "archive_verified", "extracting",
               "waiting_for_credentials", "verifying_stage", "stage_ready"}

Discarding == {"discard", "discardStage", "discardBackup", "create"}
Reporting  == {"failed", "cancelled", "credentials"}
Pcs == Discarding \cup Reporting \cup
       {"idle", "start", "opened", "recover", "check", "fetch", "download", "extract",
        "reset", "unpack", "unpacking", "copy", "copying", "seal", "manifest",
        "ready", "apply", "commitClear", "backup", "backedUp", "switch",
        "activate", "verify", "finalize", "finalizeStage", "complete",
        "rollback", "restore", "rolledBack"}

\* The types of the state; a directory that is not there has no contents.
TypeOK ==
  /\ dirs \in [Names -> Directories]
  /\ \A d \in Names : Exists(d) \/ dirs[d] = Gone
  /\ journal \in [phase : Phases, version : Builds \cup {NoBuild}, had : BOOLEAN]
  /\ run \in [pc : Pcs, version : Builds \cup {NoBuild},
              user : BOOLEAN, recovering : BOOLEAN]
  /\ budget \in Budgets
  /\ errors \in 0..budget.errors /\ cancels \in 0..budget.cancels
  /\ crashes \in 0..budget.crashes

Quiet == [pc |-> "idle", version |-> NoBuild, user |-> FALSE, recovering |-> FALSE]

\* An installation of an earlier updater has no manifest.
Init ==
  /\ \E sealed \in BOOLEAN :
       dirs = [d \in Names |-> IF d = "target"
                 THEN [build |-> OldBuild, whole |-> TRUE, sealed |-> sealed,
                       known |-> TRUE, saves |-> TRUE]
                 ELSE Gone]
  /\ journal = [phase |-> "", version |-> NoBuild, had |-> FALSE]
  /\ run = Quiet
  /\ errors = 0 /\ cancels = 0 /\ crashes = 0 /\ budget \in Budgets

-----------------------------------------------------------------------------
At(pc)   == run.pc = pc
Goto(pc) == run' = IF pc = "idle" THEN Quiet ELSE [run EXCEPT !.pc = pc]

\* set_phase, then the next statement.
Write(pc, phase, next) == /\ At(pc) /\ Goto(next)
                          /\ journal' = [journal EXCEPT !.phase = phase]
                          /\ UNCHANGED <<dirs, bounds>>

Rename(a, b) == dirs' = [dirs EXCEPT ![b] = dirs[a], ![a] = Gone]

Spoiled(d) == [d EXCEPT !.whole = FALSE, !.sealed = FALSE]

\* rmtree removes file by file: for a while the directory is there in part.
Clear(d, next) ==
  /\ IF Exists(d)
     THEN \/ /\ dirs[d].whole
             /\ \E saves \in {FALSE, dirs[d].saves}, known \in {TRUE, ~MayForget} :
                  dirs' = [dirs EXCEPT ![d] = [Spoiled(dirs[d]) EXCEPT
                                                 !.saves = saves, !.known = known]]
             /\ UNCHANGED run
          \/ dirs' = [dirs EXCEPT ![d] = Gone] /\ Goto(next)
     ELSE UNCHANGED dirs /\ Goto(next)
  /\ UNCHANGED <<journal, bounds>>

\* verify_install_manifest and the executable and version marker.
Verifies(d) == Exists(d) /\ dirs[d].whole /\ dirs[d].sealed

-----------------------------------------------------------------------------
(* begin.                                                                   *)

\* validate_unity_update_target on the target and on the backup.
Recognized == \A d \in {"target", "backup"} : Exists(d) => dirs[d].known

SameOperation(v) == journal.version = v /\ journal.phase \notin {"completed", "rolled_back"}

\* Another version is refused while a commit is open.
Open(v, user) ==
  /\ Recognized
  /\ SameOperation(v) \/ journal.phase \notin Committing
  /\ run' = [Quiet EXCEPT !.pc = IF SameOperation(v) THEN "opened" ELSE "discard",
                          !.version = v, !.user = user]
  /\ UNCHANGED <<dirs, journal, bounds>>

Install(v) == At("idle") /\ Open(v, TRUE)

\* _run_update_checks at every start of the program, before the user can ask
\* for an installation: resume_pending_unity_update.  An archive that waits for
\* its password goes on waiting unless the settings now have one.
ResumePending ==
  /\ At("start")
  /\ \/ journal.phase \notin Closed /\ Open(journal.version, FALSE)
     \/ /\ journal.phase \in Closed \cup {"waiting_for_credentials"} \/ ~Recognized
        /\ Goto("idle") /\ UNCHANGED <<dirs, journal, bounds>>

DiscardRestore ==
  /\ At("discard") /\ Goto("discardStage")
  /\ IF Exists("backup") /\ ~Exists("target") THEN Rename("backup", "target")
                                              ELSE UNCHANGED dirs
  /\ UNCHANGED <<journal, bounds>>
DiscardStage  == At("discardStage") /\ Clear("stage", "discardBackup")
DiscardBackup == At("discardBackup") /\ Clear("backup", "create")
Create == /\ At("create") /\ Goto("opened")
          /\ journal' = [phase |-> "created", version |-> run.version, had |-> FALSE]
          /\ UNCHANGED <<dirs, bounds>>

\* close_unity comes first when a commit is to be recovered.
Opened ==
  /\ At("opened")
  /\ run' = [run EXCEPT !.recovering = journal.phase \in Committing,
                        !.pc = CASE journal.phase \in Committing -> "recover"
                                 [] journal.phase = "stage_ready" /\ Exists("stage") -> "check"
                                 [] OTHER -> "fetch"]
  /\ UNCHANGED <<dirs, journal, bounds>>

-----------------------------------------------------------------------------
(* recover_commit.                                                          *)

RecoverAssumingSwitch ==   \* mutant: any target is taken for the new one
  /\ At("recover") /\ journal.phase = "commit_prepared"
  /\ Goto("activate")
  /\ UNCHANGED <<dirs, journal, bounds>>

RecoverPrepared ==
  /\ At("recover") /\ journal.phase = "commit_prepared"
  /\ IF ~Exists("target") /\ Exists("backup")
     THEN journal' = [journal EXCEPT !.phase = "target_backed_up"] /\ UNCHANGED run
     ELSE /\ run' = [run EXCEPT !.pc = IF Exists("stage") THEN "check" ELSE "fetch",
                               !.recovering = FALSE]
          /\ UNCHANGED journal
  /\ UNCHANGED <<dirs, bounds>>

RecoverBackedUp ==
  /\ At("recover") /\ journal.phase = "target_backed_up"
  /\ \/ Exists("target") /\ Goto("activate") /\ UNCHANGED dirs
     \/ /\ ~Exists("target") /\ Exists("stage")
        /\ Rename("stage", "target") /\ Goto("activate")
     \/ /\ ~Exists("target") /\ ~Exists("stage")   \* the stage was lost
        /\ IF Exists("backup") THEN Rename("backup", "target") ELSE UNCHANGED dirs
        /\ Goto("failed")
  /\ UNCHANGED <<journal, bounds>>

RecoverActivated ==
  /\ At("recover") /\ journal.phase = "activated"
  /\ Goto("verify")
  /\ UNCHANGED <<dirs, journal, bounds>>

-----------------------------------------------------------------------------
(* The stage: download, extract, keep the user's data, seal.                *)

CheckStage == /\ At("check")
              /\ Goto(IF Verifies("stage") THEN "copy" ELSE "extract")
              /\ UNCHANGED <<dirs, journal, bounds>>

Fetch == \/ Write("fetch", "downloading", "download")
         \/ Write("fetch", "archive_verified", "extract")   \* a cached archive
Download       == Write("download", "archive_verified", "extract")
MarkExtracting == Write("extract", "extracting", "reset")
ResetStage     == At("reset") /\ Clear("stage", "unpack")

Unpack ==
  /\ At("unpack") /\ Goto("unpacking")
  /\ dirs' = [dirs EXCEPT !["stage"] = [Gone EXCEPT !.build = journal.version]]
  /\ UNCHANGED <<journal, bounds>>

FinishUnpack ==
  /\ At("unpacking") /\ Goto("copy")
  /\ dirs' = [dirs EXCEPT !["stage"].whole = TRUE, !["stage"].known = TRUE]
  /\ UNCHANGED <<journal, bounds>>

\* _copy_preserved_unity_data: the old copy goes before the new one is made.
CopySaves ==
  /\ At("copy") /\ Goto("copying")
  /\ dirs' = IF dirs["target"].saves THEN [dirs EXCEPT !["stage"].saves = FALSE]
                                     ELSE dirs
  /\ UNCHANGED <<journal, bounds>>

SourceSavesForgotten == FALSE   \* mutant
SourceSaves == dirs["target"].saves

FinishCopy ==
  /\ At("copying") /\ Goto("seal")
  /\ dirs' = IF SourceSaves THEN [dirs EXCEPT !["stage"].saves = TRUE] ELSE dirs
  /\ UNCHANGED <<journal, bounds>>

MarkVerifying == Write("seal", "verifying_stage", "manifest")
Seal == /\ At("manifest") /\ Goto("ready")
        /\ dirs' = [dirs EXCEPT !["stage"].sealed = TRUE]
        /\ UNCHANGED <<journal, bounds>>
MarkReady == Write("ready", "stage_ready", "apply")

-----------------------------------------------------------------------------
(* commit, finalize, rollback.                                              *)

Prepare ==
  /\ At("apply") /\ Goto("commitClear")
  /\ journal' = [journal EXCEPT !.phase = "commit_prepared", !.had = Exists("target")]
  /\ UNCHANGED <<dirs, bounds>>

ClearBackup == At("commitClear") /\ Clear("backup", "backup")

BackUp ==
  /\ At("backup") /\ Goto("backedUp")
  /\ IF Exists("target") THEN Rename("target", "backup") ELSE UNCHANGED dirs
  /\ UNCHANGED <<journal, bounds>>

MarkBackedUp == Write("backedUp", "target_backed_up", "switch")

Switch == /\ At("switch") /\ Goto("activate")
          /\ Rename("stage", "target")
          /\ UNCHANGED <<journal, bounds>>

MarkActivated == Write("activate", "activated", "verify")

Verify == /\ At("verify")
          /\ Goto(IF Verifies("target") THEN "finalize" ELSE "rollback")
          /\ UNCHANGED <<dirs, journal, bounds>>

Finalize      == At("finalize") /\ Clear("backup", "finalizeStage")
FinalizeStage == At("finalizeStage") /\ Clear("stage", "complete")
MarkCompleted == Write("complete", "completed", "idle")

Undoable == Exists("target") /\ (Exists("backup") \/ ~journal.had)

RollBack ==
  /\ At("rollback")
  /\ IF Undoable THEN Clear("target", "restore")
                 ELSE Goto("restore") /\ UNCHANGED <<dirs, journal, bounds>>

RestoreNothing == /\ At("restore") /\ Goto("rolledBack")   \* mutant
                  /\ UNCHANGED <<dirs, journal, bounds>>

Restore ==
  /\ At("restore") /\ Goto("rolledBack")
  /\ IF Exists("backup") /\ ~Exists("target") THEN Rename("backup", "target")
                                              ELSE UNCHANGED dirs
  /\ UNCHANGED <<journal, bounds>>

RollBackUnrecorded == /\ At("rolledBack") /\ Goto("idle")   \* mutant
                      /\ UNCHANGED <<dirs, journal, bounds>>
MarkRolledBack == Write("rolledBack", "rolled_back", "idle")

-----------------------------------------------------------------------------
(* What goes wrong.                                                         *)

FinalizeOnError == CASE run.pc \in Discarding \cup Reporting -> "idle"   \* mutant
                     [] run.pc \in {"backup", "backedUp", "switch"} -> "finalize"
                     [] OTHER -> "failed"

\* Where the exception of a failing step is handled: begin reports it and
\* touches nothing, a stage that cannot be read is made anew, commit and the
\* verifier roll back, the installer records the rest as "failed", and its own
\* last write may fail too.
OnError == CASE run.pc \in Discarding \cup Reporting -> "idle"
             [] run.pc = "check" -> "extract"
             [] run.pc \in {"backup", "backedUp", "switch", "verify"} -> "rollback"
             [] run.pc = "activate" -> IF run.recovering THEN "failed" ELSE "rollback"
             [] OTHER -> "failed"

Fail == /\ run.pc \notin {"idle", "start"} /\ errors < budget.errors
        /\ errors' = errors + 1
        /\ Goto(OnError)
        /\ UNCHANGED <<dirs, journal, cancels, crashes, budget>>

NeedPassword == /\ At("unpacking") /\ errors < budget.errors
                /\ errors' = errors + 1
                /\ Goto("credentials")
                /\ UNCHANGED <<dirs, journal, cancels, crashes, budget>>

\* The stop event is looked at while files come in and Unity is closed, never
\* once the stage is being sealed; the start of the program has none.
Cancellable == \/ run.pc \in {"download", "extract", "check", "unpacking", "copy", "apply"}
               \/ At("opened") /\ journal.phase \in Committing

Cancel == /\ run.user /\ cancels < budget.cancels /\ Cancellable
          /\ cancels' = cancels + 1
          /\ Goto("cancelled")
          /\ UNCHANGED <<dirs, journal, errors, crashes, budget>>

Report == \/ Write("failed", "failed", "idle")
          \/ Write("cancelled", "cancelled", "idle")
          \/ Write("credentials", "waiting_for_credentials", "idle")

Starting == run' = [Quiet EXCEPT !.pc = "start"]

Crash == /\ ~At("idle") /\ crashes < budget.crashes
         /\ crashes' = crashes + 1
         /\ Starting
         /\ UNCHANGED <<dirs, journal, errors, cancels, budget>>

\* The user leaves the program and starts it again.
Restart == At("idle") /\ Starting /\ UNCHANGED <<dirs, journal, bounds>>

-----------------------------------------------------------------------------
Begin   == DiscardRestore \/ DiscardStage \/ DiscardBackup \/ Create \/ Opened
Recover == RecoverPrepared \/ RecoverBackedUp \/ RecoverActivated
Stage   == \/ CheckStage \/ Fetch \/ Download \/ MarkExtracting \/ ResetStage
           \/ Unpack \/ FinishUnpack \/ CopySaves \/ FinishCopy
           \/ MarkVerifying \/ Seal \/ MarkReady
Commit  == \/ Prepare \/ ClearBackup \/ BackUp \/ MarkBackedUp \/ Switch
           \/ MarkActivated \/ Verify \/ Finalize \/ FinalizeStage \/ MarkCompleted
           \/ RollBack \/ Restore \/ MarkRolledBack
Proceed == Begin \/ Recover \/ Stage \/ Commit \/ Report

Next == \/ Proceed \/ ResumePending
        \/ \E v \in Builds : Install(v)
        \/ Fail \/ NeedPassword \/ Cancel \/ Crash \/ Restart

Spec == Init /\ [][Next]_vars

\* A running installer goes on; a program that died or was closed is started
\* again some time, also when installations in between go wrong.
FairSpec == Spec /\ WF_vars(Proceed) /\ WF_vars(ResumePending) /\ SF_vars(Restart)

-----------------------------------------------------------------------------
\* The user's saves are never only in a directory that is being thrown away:
\* the installed or the backed-up directory always holds them in full.
SavesKept == dirs["target"].saves \/ dirs["backup"].saves

\* Once the journal calls an operation closed, the target is a whole
\* installation, not a hole and not a part of one.
ClosedIsWhole == At("idle") /\ journal.phase \in Closed => dirs["target"].whole

\* "completed" is written only over the version that was asked for.
CompletedIsNew == journal.phase = "completed" =>
                    dirs["target"].build = journal.version

\* An old installation is destroyed only while a whole one is in its place.
BackupOutlived ==
  [][dirs["backup"].whole /\ ~dirs'["backup"].whole => dirs'["target"].whole]_vars

\* An operation that was interrupted in its commit is finished or undone by a
\* later start, as long as validate_unity_update_target knows its directories.
CommitResolves ==
  (journal.phase \in Committing) ~> (journal.phase \notin Committing \/ ~Recognized)

\* The types, and that whatever closes an operation leaves a whole installation.
Inv == TypeOK /\ ClosedIsWhole
=============================================================================
