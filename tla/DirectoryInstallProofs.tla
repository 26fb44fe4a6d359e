------------------------ MODULE DirectoryInstallProofs ------------------------
(***************************************************************************)
(* Proofs about DirectoryInstall, for any builds and any budgets: its types  *)
(* in every behaviour, and what an installation keeps (SavesKept,            *)
(* ClosedIsWhole, CompletedIsNew, BackupOutlived) in the behaviours that are *)
(* tame so far: the process may have died any number of times and no step    *)
(* has failed, or one step has failed and the process has not died.  Outside *)
(* of them the properties do not hold.                                       *)
(***************************************************************************)
EXTENDS DirectoryInstall, TLAPS

\* A failing step and a death of the process do not come together.
Tame == errors = 0 \/ (errors = 1 /\ crashes = 0)

Undoing  == {"rollback", "restore", "rolledBack"}
Staging  == {"check", "fetch", "download", "extract", "reset", "unpack", "unpacking",
             "copy", "copying", "seal", "manifest", "ready", "apply"}
Swapping == {"commitClear", "backup", "backedUp", "switch", "activate", "verify",
             "finalize", "finalizeStage", "complete"}

\* Where a stage is worked on there is one, of the version the journal names.
StagePresent ==
  /\ dirs["stage"].build \in {NoBuild, journal.version}
  /\ journal.phase # "" => journal.version \in Builds
  /\ run.pc \notin Discarding \cup {"idle", "start"} => journal.version \in Builds
  /\ run.pc \in Discarding => run.version \in Builds
  /\ run.pc \in {"unpacking", "copy", "copying", "seal", "manifest", "ready", "apply",
                 "commitClear", "backup", "backedUp", "switch"} => Exists("stage")
  /\ run.pc \in {"discardBackup", "create"} => ~Exists("stage")

TargetGood == dirs["target"].whole /\ dirs["target"].saves
BackupGood == dirs["backup"].whole /\ dirs["backup"].saves
StageGood  == dirs["stage"].whole /\ dirs["stage"].sealed /\ dirs["stage"].saves

\* The new installation is where it belongs, or ready to go there.
InPlace == TargetGood /\ dirs["target"].sealed /\ dirs["target"].build = journal.version
Between == ~Exists("target") /\ StageGood /\ BackupGood

\* What each phase of the journal says of the directories, unless a commit is undone.
PhaseMeans ==
  run.pc \notin Undoing =>
    /\ journal.phase \notin Committing => TargetGood
    /\ journal.phase = "commit_prepared" => TargetGood \/ Between
    /\ journal.phase = "target_backed_up" => InPlace \/ Between
    /\ journal.phase = "activated" => InPlace
    /\ journal.phase = "completed" => InPlace

\* The phase in which each step is taken.
PhaseOf ==
  /\ run.pc \in {"discard", "discardStage", "discardBackup", "create", "cancelled", "credentials"} =>
       journal.phase \notin Committing
  /\ run.pc \in Staging => journal.phase \notin {"target_backed_up", "activated", "completed"}
  /\ run.pc \in {"reset", "unpack", "unpacking"} => journal.phase = "extracting"
  /\ run.pc \in {"commitClear", "backup", "backedUp"} => journal.phase = "commit_prepared"
  /\ run.pc \in {"switch", "activate"} => journal.phase = "target_backed_up"
  /\ run.pc \in {"verify", "finalize", "finalizeStage", "complete"} => journal.phase = "activated"
  /\ run.pc \in Undoing \cup {"recover"} => journal.phase \in Committing
  /\ run.pc = "opened" => journal.phase # "completed"

\* And what it finds.
PlaceMeans ==
  /\ run.pc \in Staging \cup {"commitClear", "backup", "failed"} => TargetGood
  /\ run.pc \in {"copy", "copying", "seal", "manifest", "ready", "apply"} => dirs["stage"].whole
  /\ run.pc \in {"seal", "manifest", "ready", "apply"} => dirs["stage"].saves
  /\ run.pc \in {"ready", "apply", "commitClear", "backup"} => dirs["stage"].sealed
  /\ run.pc \in {"commitClear", "backup"} => StageGood
  /\ run.pc \in {"backedUp", "switch"} => Between
  /\ run.pc = "activate" => InPlace

\* The user's own installations leave no commit open, nor does anything else as long as
\* the process has not died: an open commit is found by the start of the program only.
CommitsClosed ==
  /\ run.user /\ journal.phase \in Committing => run.pc \in Swapping \cup Undoing \cup {"failed"}
  /\ run.pc = "cancelled" => run.user
  /\ run.pc = "idle" /\ journal.phase \in Committing => ~Recognized
  /\ crashes = 0 =>
       /\ journal.phase \in Committing => run.pc \in Swapping \cup Undoing \cup {"failed"}
       /\ ~run.recovering
       /\ run.pc \in {"activate", "verify"} => BackupGood
       /\ run.pc = "backup" => ~Exists("backup")
       /\ run.pc \in Swapping => journal.had

\* A commit is undone only after a failing step: the backup is whole, or the target is
\* as it was.
UndoMeans ==
  /\ errors = 0 => run.pc \notin Undoing \cup {"failed", "credentials"}
  /\ run.pc = "rollback" => BackupGood \/ (TargetGood /\ ~Exists("backup") /\ journal.had)
  /\ run.pc = "restore" => \/ ~Exists("target") /\ BackupGood
                           \/ TargetGood /\ ~Exists("backup")
  /\ run.pc = "rolledBack" => TargetGood

Sound == PhaseMeans /\ PhaseOf /\ PlaceMeans /\ CommitsClosed /\ UndoMeans

IInv == TypeOK /\ StagePresent /\ (Tame => Sound)

-----------------------------------------------------------------------------
(* What the building blocks of the actions do, field by field.              *)

DirsOK == /\ dirs \in [Names -> Directories]
          /\ \A d \in Names : Exists(d) \/ dirs[d] = Gone
JournalOK == journal \in [phase : Phases, version : Builds \cup {NoBuild}, had : BOOLEAN]
RunOK == run \in [pc : Pcs, version : Builds \cup {NoBuild},
                  user : BOOLEAN, recovering : BOOLEAN]
BoundsOK == /\ budget \in Budgets
            /\ errors \in 0..budget.errors /\ cancels \in 0..budget.cancels
            /\ crashes \in 0..budget.crashes

\* The installer goes on at a next step, or stops.
Moves(pc, next) ==
  /\ run.pc = pc /\ run'.pc = next
  /\ run'.version = run.version /\ run'.user = run.user /\ run'.recovering = run.recovering
Stops(pc) == /\ run.pc = pc /\ run'.pc = "idle"
             /\ run'.version = NoBuild /\ ~run'.user /\ ~run'.recovering
\* So far only its next step is known.
Turns(pc, next) == /\ run.pc = pc /\ run'.pc = next
                   /\ run'.version = run.version /\ run'.user = run.user

Same(d) == dirs'[d] = dirs[d]
Removed(d) == dirs'[d] = Gone /\ ~Exists(d)'
InPart(d) == Exists(d) /\ Exists(d)' /\ dirs'[d].build = dirs[d].build /\ ~dirs'[d].whole

Marks(phase) == /\ journal'.phase = phase /\ journal'.version = journal.version
                /\ journal'.had = journal.had

\* The types are those of the four parts of the state.
LEMMA Types == /\ TypeOK <=> DirsOK /\ JournalOK /\ RunOK /\ BoundsOK
               /\ TypeOK' <=> DirsOK' /\ JournalOK' /\ RunOK' /\ BoundsOK'
BY DEF TypeOK, DirsOK, JournalOK, RunOK, BoundsOK

\* A directory with contents is there.
Contents == \A d \in Names : dirs[d].whole \/ dirs[d].sealed \/ dirs[d].saves => Exists(d)

\* The types say so.
LEMMA ContentsMean == (TypeOK => Contents) /\ (TypeOK' => Contents')
BY DEF TypeOK, Contents, Exists, Gone

\* The counters count.
LEMMA Counts == TypeOK => errors \in Nat /\ crashes \in Nat
BY InstallAssumption DEF TypeOK

\* Goto.
LEMMA GotoEffect == ASSUME RunOK, NEW pc \in Pcs, NEW next \in Pcs, At(pc), Goto(next)
                    PROVE  /\ RunOK'
                           /\ next # "idle" => Moves(pc, next)
                           /\ next = "idle" => Stops(pc)
<1>1. CASE next = "idle" BY <1>1 DEF RunOK, At, Goto, Stops, Quiet, Pcs
<1>2. CASE next # "idle"
  <2>1. run' = [run EXCEPT !.pc = next] BY <1>2 DEF Goto
  <2> QED BY <1>2, <2>1 DEF RunOK, At, Moves
<1> QED BY <1>1, <1>2

\* The counters stand still.
LEMMA BoundsStay == ASSUME BoundsOK, UNCHANGED bounds PROVE BoundsOK'
BY DEF BoundsOK, bounds

\* A write of the journal.
LEMMA WriteEffect == ASSUME TypeOK, NEW pc \in Pcs, NEW next \in Pcs, NEW phase \in Phases,
                            Write(pc, phase, next)
                     PROVE  /\ TypeOK' /\ Marks(phase)
                            /\ next # "idle" => Moves(pc, next)
                            /\ next = "idle" => Stops(pc)
                            /\ UNCHANGED <<dirs, errors, crashes>>
<1>1. DirsOK /\ JournalOK /\ RunOK /\ BoundsOK BY Types
<1>2. At(pc) /\ Goto(next) /\ UNCHANGED <<dirs, bounds>> BY DEF Write
<1>3. /\ RunOK'
      /\ next # "idle" => Moves(pc, next)
      /\ next = "idle" => Stops(pc)
  BY <1>1, <1>2, GotoEffect
<1>4. JournalOK' /\ Marks(phase) BY <1>1 DEF JournalOK, Write, Marks
<1>5. DirsOK' BY <1>1, <1>2 DEF DirsOK, Exists
<1>6. BoundsOK' BY <1>1, <1>2, BoundsStay
<1> QED BY <1>2, <1>3, <1>4, <1>5, <1>6, Types DEF bounds

\* One directory is changed.
LEMMA ChangeEffect == ASSUME DirsOK, NEW d \in Names, NEW x \in Directories,
                             x.build # NoBuild \/ x = Gone, dirs' = [dirs EXCEPT ![d] = x]
                      PROVE  /\ DirsOK' /\ dirs'[d] = x
                             /\ \A e \in Names \ {d} : Same(e)
BY DEF DirsOK, Exists, Same

\* A rename.
LEMMA RenameEffect == ASSUME DirsOK, NEW a \in Names, NEW b \in Names, a # b, Rename(a, b)
                      PROVE  /\ DirsOK' /\ dirs'[b] = dirs[a] /\ Removed(a)
                             /\ \A e \in Names \ {a, b} : Same(e)
<1>1. Gone \in Directories /\ Gone.build = NoBuild BY DEF Gone, Directories
<1>2. dirs' \in [Names -> Directories] BY <1>1 DEF DirsOK, Rename
<1>3. dirs'[b] = dirs[a] /\ dirs'[a] = Gone /\ \A e \in Names \ {a, b} : Same(e)
  BY DEF DirsOK, Rename, Same
<1> QED BY <1>1, <1>2, <1>3 DEF DirsOK, Exists, Removed, Same

\* A step of a recursive removal.
LEMMA ClearEffect == ASSUME TypeOK, NEW d \in Names, NEW pc \in Pcs, NEW next \in Pcs \ {"idle"},
                            At(pc), Clear(d, next)
                     PROVE  /\ TypeOK' /\ UNCHANGED <<journal, errors, crashes>>
                            /\ \A e \in Names \ {d} : Same(e)
                            /\ \/ InPart(d) /\ UNCHANGED run
                               \/ Removed(d) /\ Moves(pc, next)
<1>1. DirsOK /\ JournalOK /\ RunOK /\ BoundsOK BY Types
<1>2. UNCHANGED <<journal, bounds>> BY DEF Clear
<1>3. BoundsOK' /\ JournalOK' BY <1>1, <1>2, BoundsStay DEF JournalOK
<1>4. CASE ~Exists(d)
  <2>1. dirs' = dirs /\ Goto(next) BY <1>4 DEF Clear
  <2>2. RunOK' /\ Moves(pc, next) BY <1>1, <2>1, GotoEffect
  <2>3. DirsOK' /\ \A e \in Names : Same(e) BY <1>1, <2>1 DEF DirsOK, Exists, Same
  <2>4. Removed(d) BY <1>1, <1>4, <2>1 DEF DirsOK, Removed, Exists
  <2> QED BY <1>2, <1>3, <2>2, <2>3, <2>4, Types DEF bounds
<1>5. CASE Exists(d) /\ dirs' = [dirs EXCEPT ![d] = Gone] /\ Goto(next)
  <2>1. Gone \in Directories /\ Gone.build = NoBuild BY DEF Gone, Directories
  <2>2. DirsOK' /\ dirs'[d] = Gone /\ \A e \in Names \ {d} : Same(e)
    BY <1>1, <1>5, <2>1, ChangeEffect
  <2>3. RunOK' /\ Moves(pc, next) BY <1>1, <1>5, GotoEffect
  <2> QED BY <1>2, <1>3, <2>1, <2>2, <2>3, Types DEF bounds, Removed, Exists
<1>6. ASSUME Exists(d), UNCHANGED run,
             NEW saves \in {FALSE, dirs[d].saves}, NEW known \in {TRUE, ~MayForget},
             dirs' = [dirs EXCEPT ![d] = [Spoiled(dirs[d]) EXCEPT !.saves = saves, !.known = known]]
      PROVE  TypeOK' /\ InPart(d) /\ \A e \in Names \ {d} : Same(e)
  <2> DEFINE x == [Spoiled(dirs[d]) EXCEPT !.saves = saves, !.known = known]
  <2>1. dirs[d] \in Directories BY <1>1 DEF DirsOK
  <2>2. saves \in BOOLEAN /\ known \in BOOLEAN BY <2>1, InstallAssumption DEF Directories
  <2>3. x \in Directories /\ x.build = dirs[d].build /\ x.whole = FALSE
    BY <2>1, <2>2 DEF Directories, Spoiled
  <2>4. x.build # NoBuild BY <1>6, <2>3 DEF Exists
  <2> HIDE DEF x
  <2>5. dirs' = [dirs EXCEPT ![d] = x] BY <1>6 DEF x
  <2>6. DirsOK' /\ dirs'[d] = x /\ \A e \in Names \ {d} : Same(e)
    BY <1>1, <2>3, <2>4, <2>5, ChangeEffect
  <2>7. RunOK' BY <1>1, <1>6 DEF RunOK
  <2> QED BY <1>3, <1>6, <2>3, <2>4, <2>6, <2>7, Types DEF InPart, Exists
<1> QED BY <1>2, <1>4, <1>5, <1>6 DEF Clear, bounds

\* The start of an operation, of the user's or a resumed one.
LEMMA OpenEffect == ASSUME TypeOK, NEW v \in Builds \cup {NoBuild}, NEW user \in BOOLEAN,
                           Open(v, user)
                    PROVE  /\ TypeOK' /\ UNCHANGED <<dirs, journal, errors, crashes>>
                           /\ Recognized
                           /\ run'.version = v /\ run'.user = user /\ ~run'.recovering
                           /\ \/ run'.pc = "opened" /\ SameOperation(v)
                              \/ run'.pc = "discard" /\ ~SameOperation(v)
                                 /\ journal.phase \notin Committing
<1>1. DirsOK /\ JournalOK /\ RunOK /\ BoundsOK BY Types
<1>2. Recognized /\ UNCHANGED <<dirs, journal, bounds>> BY DEF Open
<1>3. /\ RunOK' /\ run'.version = v /\ run'.user = user /\ ~run'.recovering
      /\ \/ run'.pc = "opened" /\ SameOperation(v)
         \/ run'.pc = "discard" /\ ~SameOperation(v) /\ journal.phase \notin Committing
  <2>1. CASE SameOperation(v) BY <2>1 DEF Open, Quiet, RunOK, Pcs
  <2>2. CASE ~SameOperation(v) BY <2>2 DEF Open, Quiet, RunOK, Pcs, Discarding
  <2> QED BY <2>1, <2>2
<1>4. DirsOK' /\ JournalOK' /\ BoundsOK'
  BY <1>1, <1>2, BoundsStay DEF DirsOK, Exists, JournalOK
<1> QED BY <1>2, <1>3, <1>4, Types DEF bounds

\* What a step that goes wrong leaves alone.
LEMMA Untouched == ASSUME TypeOK, RunOK', BoundsOK', UNCHANGED <<dirs, journal>> PROVE TypeOK'
BY Types DEF DirsOK, Exists, JournalOK

-----------------------------------------------------------------------------
(* Each action keeps the invariant.                                         *)

USE DEF Names, Exists, Contents, Staging, Swapping, Undoing, Discarding, Reporting,
        Committing, Closed, Moves, Turns, Stops, Marks, Same, Removed, InPart, TargetGood,
        BackupGood, StageGood, InPlace, Between, Undoable, Tame, Sound

\* The archive is there.
LEMMA DownloadKeeps == ASSUME IInv, Download PROVE IInv'
<1> USE DEF IInv
<1>1. ASSUME TypeOK', Moves("download", "extract"), Marks("archive_verified"),
            UNCHANGED <<dirs, errors, crashes>>
      PROVE  IInv'
  <2> USE <1>1
  <2>1. Contents /\ Contents' /\ errors \in Nat /\ crashes \in Nat BY ContentsMean, Counts
  <2>2. StagePresent' BY <2>1 DEF StagePresent
  <2>3. ASSUME Tame' PROVE Sound'
    <3>1. Tame /\ Sound BY <2>1, <2>3
    <3> QED BY <2>1, <2>3, <3>1 DEF PhaseMeans, PhaseOf, PlaceMeans, CommitsClosed,
                UndoMeans, StagePresent
  <2> QED BY <2>2, <2>3
<1>2. "download" \in Pcs /\ "extract" \in Pcs /\ "archive_verified" \in Phases
  BY DEF Pcs, Phases, Committing, Closed, Reporting, Discarding, Names
<1> QED BY <1>1, <1>2, WriteEffect DEF Download

\* Only the phase changes.
LEMMA MarkExtractingKeeps == ASSUME IInv, MarkExtracting PROVE IInv'
<1> USE DEF IInv
<1>1. ASSUME TypeOK', Moves("extract", "reset"), Marks("extracting"),
            UNCHANGED <<dirs, errors, crashes>>
      PROVE  IInv'
  <2> USE <1>1
  <2>1. Contents /\ Contents' /\ errors \in Nat /\ crashes \in Nat BY ContentsMean, Counts
  <2>2. StagePresent' BY <2>1 DEF StagePresent
  <2>3. ASSUME Tame' PROVE Sound'
    <3>1. Tame /\ Sound BY <2>1, <2>3
    <3> QED BY <2>1, <2>3, <3>1 DEF PhaseMeans, PhaseOf, PlaceMeans, CommitsClosed,
                UndoMeans, StagePresent
  <2> QED BY <2>2, <2>3
<1>2. "extract" \in Pcs /\ "reset" \in Pcs /\ "extracting" \in Phases
  BY DEF Pcs, Phases, Committing, Closed, Reporting, Discarding, Names
<1> QED BY <1>1, <1>2, WriteEffect DEF MarkExtracting

\* is about to be sealed,
LEMMA MarkVerifyingKeeps == ASSUME IInv, MarkVerifying PROVE IInv'
<1> USE DEF IInv
<1>1. ASSUME TypeOK', Moves("seal", "manifest"), Marks("verifying_stage"),
            UNCHANGED <<dirs, errors, crashes>>
      PROVE  IInv'
  <2> USE <1>1
  <2>1. Contents /\ Contents' /\ errors \in Nat /\ crashes \in Nat BY ContentsMean, Counts
  <2>2. StagePresent' BY <2>1 DEF StagePresent
  <2>3. ASSUME Tame' PROVE Sound'
    <3>1. Tame /\ Sound BY <2>1, <2>3
    <3> QED BY <2>1, <2>3, <3>1 DEF PhaseMeans, PhaseOf, PlaceMeans, CommitsClosed,
                UndoMeans, StagePresent
  <2> QED BY <2>2, <2>3
<1>2. "seal" \in Pcs /\ "manifest" \in Pcs /\ "verifying_stage" \in Phases
  BY DEF Pcs, Phases, Committing, Closed, Reporting, Discarding, Names
<1> QED BY <1>1, <1>2, WriteEffect DEF MarkVerifying

\* and ready.
LEMMA MarkReadyKeeps == ASSUME IInv, MarkReady PROVE IInv'
<1> USE DEF IInv
<1>1. ASSUME TypeOK', Moves("ready", "apply"), Marks("stage_ready"),
            UNCHANGED <<dirs, errors, crashes>>
      PROVE  IInv'
  <2> USE <1>1
  <2>1. Contents /\ Contents' /\ errors \in Nat /\ crashes \in Nat BY ContentsMean, Counts
  <2>2. StagePresent' BY <2>1 DEF StagePresent
  <2>3. ASSUME Tame' PROVE Sound'
    <3>1. Tame /\ Sound BY <2>1, <2>3
    <3> QED BY <2>1, <2>3, <3>1 DEF PhaseMeans, PhaseOf, PlaceMeans, CommitsClosed,
                UndoMeans, StagePresent
  <2> QED BY <2>2, <2>3
<1>2. "ready" \in Pcs /\ "apply" \in Pcs /\ "stage_ready" \in Phases
  BY DEF Pcs, Phases, Committing, Closed, Reporting, Discarding, Names
<1> QED BY <1>1, <1>2, WriteEffect DEF MarkReady

\* The journal says so.
LEMMA MarkBackedUpKeeps == ASSUME IInv, MarkBackedUp PROVE IInv'
<1> USE DEF IInv
<1>1. ASSUME TypeOK', Moves("backedUp", "switch"), Marks("target_backed_up"),
            UNCHANGED <<dirs, errors, crashes>>
      PROVE  IInv'
  <2> USE <1>1
  <2>1. Contents /\ Contents' /\ errors \in Nat /\ crashes \in Nat BY ContentsMean, Counts
  <2>2. StagePresent' BY <2>1 DEF StagePresent
  <2>3. ASSUME Tame' PROVE Sound'
    <3>1. Tame /\ Sound BY <2>1, <2>3
    <3> QED BY <2>1, <2>3, <3>1 DEF PhaseMeans, PhaseOf, PlaceMeans, CommitsClosed,
                UndoMeans, StagePresent
  <2> QED BY <2>2, <2>3
<1>2. "backedUp" \in Pcs /\ "switch" \in Pcs /\ "target_backed_up" \in Phases
  BY DEF Pcs, Phases, Committing, Closed, Reporting, Discarding, Names
<1> QED BY <1>1, <1>2, WriteEffect DEF MarkBackedUp

\* The journal says so.
LEMMA MarkActivatedKeeps == ASSUME IInv, MarkActivated PROVE IInv'
<1> USE DEF IInv
<1>1. ASSUME TypeOK', Moves("activate", "verify"), Marks("activated"),
            UNCHANGED <<dirs, errors, crashes>>
      PROVE  IInv'
  <2> USE <1>1
  <2>1. Contents /\ Contents' /\ errors \in Nat /\ crashes \in Nat BY ContentsMean, Counts
  <2>2. StagePresent' BY <2>1 DEF StagePresent
  <2>3. ASSUME Tame' PROVE Sound'
    <3>1. Tame /\ Sound BY <2>1, <2>3
    <3> QED BY <2>1, <2>3, <3>1 DEF PhaseMeans, PhaseOf, PlaceMeans, CommitsClosed,
                UndoMeans, StagePresent
  <2> QED BY <2>2, <2>3
<1>2. "activate" \in Pcs /\ "verify" \in Pcs /\ "activated" \in Phases
  BY DEF Pcs, Phases, Committing, Closed, Reporting, Discarding, Names
<1> QED BY <1>1, <1>2, WriteEffect DEF MarkActivated

\* The operation closes over the new installation.
LEMMA MarkCompletedKeeps == ASSUME IInv, MarkCompleted PROVE IInv'
<1> USE DEF IInv
<1>1. ASSUME TypeOK', Stops("complete"), Marks("completed"),
            UNCHANGED <<dirs, errors, crashes>>
      PROVE  IInv'
  <2> USE <1>1
  <2>1. Contents /\ Contents' /\ errors \in Nat /\ crashes \in Nat BY ContentsMean, Counts
  <2>2. StagePresent' BY <2>1 DEF StagePresent, Recognized
  <2>3. ASSUME Tame' PROVE Sound'
    <3>1. Tame /\ Sound BY <2>1, <2>3
    <3> QED BY <2>1, <2>3, <3>1 DEF PhaseMeans, PhaseOf, PlaceMeans, CommitsClosed,
                UndoMeans, StagePresent, Recognized
  <2> QED BY <2>2, <2>3
<1>2. "complete" \in Pcs /\ "idle" \in Pcs /\ "completed" \in Phases
  BY DEF Pcs, Phases, Committing, Closed, Reporting, Discarding, Names
<1> QED BY <1>1, <1>2, WriteEffect DEF MarkCompleted

\* The operation closes over the old installation.
LEMMA MarkRolledBackKeeps == ASSUME IInv, MarkRolledBack PROVE IInv'
<1> USE DEF IInv
<1>1. ASSUME TypeOK', Stops("rolledBack"), Marks("rolled_back"),
            UNCHANGED <<dirs, errors, crashes>>
      PROVE  IInv'
  <2> USE <1>1
  <2>1. Contents /\ Contents' /\ errors \in Nat /\ crashes \in Nat BY ContentsMean, Counts
  <2>2. StagePresent' BY <2>1 DEF StagePresent, Recognized
  <2>3. ASSUME Tame' PROVE Sound'
    <3>1. Tame /\ Sound BY <2>1, <2>3
    <3> QED BY <2>1, <2>3, <3>1 DEF PhaseMeans, PhaseOf, PlaceMeans, CommitsClosed,
                UndoMeans, StagePresent, Recognized
  <2> QED BY <2>2, <2>3
<1>2. "rolledBack" \in Pcs /\ "idle" \in Pcs /\ "rolled_back" \in Phases
  BY DEF Pcs, Phases, Committing, Closed, Reporting, Discarding, Names
<1> QED BY <1>1, <1>2, WriteEffect DEF MarkRolledBack

\* Then it throws the old stage away,
LEMMA DiscardStageKeeps == ASSUME IInv, DiscardStage PROVE IInv'
<1> USE DEF IInv
<1>1. ASSUME TypeOK', run.pc = "discardStage", InPart("stage"), UNCHANGED run,
            Same("target"), Same("backup"), UNCHANGED <<journal, errors, crashes>>
      PROVE  IInv'
  <2> USE <1>1
  <2>1. Contents /\ Contents' /\ errors \in Nat /\ crashes \in Nat BY ContentsMean, Counts
  <2>2. StagePresent' BY <2>1 DEF StagePresent
  <2>3. ASSUME Tame' PROVE Sound'
    <3>1. Tame /\ Sound BY <2>1, <2>3
    <3> QED BY <2>1, <2>3, <3>1 DEF PhaseMeans, PhaseOf, PlaceMeans, CommitsClosed,
                UndoMeans, StagePresent
  <2> QED BY <2>2, <2>3
<1>2. ASSUME TypeOK', Moves("discardStage", "discardBackup"), Removed("stage"),
            Same("target"), Same("backup"), UNCHANGED <<journal, errors, crashes>>
      PROVE  IInv'
  <2> USE <1>2
  <2>1. Contents /\ Contents' /\ errors \in Nat /\ crashes \in Nat BY ContentsMean, Counts
  <2>2. StagePresent' BY <2>1 DEF StagePresent
  <2>3. ASSUME Tame' PROVE Sound'
    <3>1. Tame /\ Sound BY <2>1, <2>3
    <3> QED BY <2>1, <2>3, <3>1 DEF PhaseMeans, PhaseOf, PlaceMeans, CommitsClosed,
                UndoMeans, StagePresent
  <2> QED BY <2>2, <2>3
<1>3. "discardStage" \in Pcs /\ "discardBackup" \in Pcs \ {"idle"} /\ "stage" \in Names
  BY DEF Pcs, Phases, Committing, Closed, Reporting, Discarding, Names
<1>4. /\ TypeOK' /\ UNCHANGED <<journal, errors, crashes>>
      /\ \A e \in Names \ {"stage"} : Same(e)
      /\ \/ InPart("stage") /\ UNCHANGED run
         \/ Removed("stage") /\ Moves("discardStage", "discardBackup")
  BY <1>3, ClearEffect DEF DiscardStage
<1> QED BY <1>1, <1>2, <1>4 DEF DiscardStage, At, Names

\* and the old backup: no commit is open, so the target is good.
LEMMA DiscardBackupKeeps == ASSUME IInv, DiscardBackup PROVE IInv'
<1> USE DEF IInv
<1>1. ASSUME TypeOK', run.pc = "discardBackup", InPart("backup"), UNCHANGED run,
            Same("target"), Same("stage"), UNCHANGED <<journal, errors, crashes>>
      PROVE  IInv'
  <2> USE <1>1
  <2>1. Contents /\ Contents' /\ errors \in Nat /\ crashes \in Nat BY ContentsMean, Counts
  <2>2. StagePresent' BY <2>1 DEF StagePresent
  <2>3. ASSUME Tame' PROVE Sound'
    <3>1. Tame /\ Sound BY <2>1, <2>3
    <3> QED BY <2>1, <2>3, <3>1 DEF PhaseMeans, PhaseOf, PlaceMeans, CommitsClosed,
                UndoMeans, StagePresent
  <2> QED BY <2>2, <2>3
<1>2. ASSUME TypeOK', Moves("discardBackup", "create"), Removed("backup"), Same("target"),
            Same("stage"), UNCHANGED <<journal, errors, crashes>>
      PROVE  IInv'
  <2> USE <1>2
  <2>1. Contents /\ Contents' /\ errors \in Nat /\ crashes \in Nat BY ContentsMean, Counts
  <2>2. StagePresent' BY <2>1 DEF StagePresent
  <2>3. ASSUME Tame' PROVE Sound'
    <3>1. Tame /\ Sound BY <2>1, <2>3
    <3> QED BY <2>1, <2>3, <3>1 DEF PhaseMeans, PhaseOf, PlaceMeans, CommitsClosed,
                UndoMeans, StagePresent
  <2> QED BY <2>2, <2>3
<1>3. "discardBackup" \in Pcs /\ "create" \in Pcs \ {"idle"} /\ "backup" \in Names
  BY DEF Pcs, Phases, Committing, Closed, Reporting, Discarding, Names
<1>4. /\ TypeOK' /\ UNCHANGED <<journal, errors, crashes>>
      /\ \A e \in Names \ {"backup"} : Same(e)
      /\ \/ InPart("backup") /\ UNCHANGED run
         \/ Removed("backup") /\ Moves("discardBackup", "create")
  BY <1>3, ClearEffect DEF DiscardBackup
<1> QED BY <1>1, <1>2, <1>4 DEF DiscardBackup, At, Names

\* The old stage goes; the target is not touched.
LEMMA ResetStageKeeps == ASSUME IInv, ResetStage PROVE IInv'
<1> USE DEF IInv
<1>1. ASSUME TypeOK', run.pc = "reset", InPart("stage"), UNCHANGED run, Same("target"),
            Same("backup"), UNCHANGED <<journal, errors, crashes>>
      PROVE  IInv'
  <2> USE <1>1
  <2>1. Contents /\ Contents' /\ errors \in Nat /\ crashes \in Nat BY ContentsMean, Counts
  <2>2. StagePresent' BY <2>1 DEF StagePresent
  <2>3. ASSUME Tame' PROVE Sound'
    <3>1. Tame /\ Sound BY <2>1, <2>3
    <3> QED BY <2>1, <2>3, <3>1 DEF PhaseMeans, PhaseOf, PlaceMeans, CommitsClosed,
                UndoMeans, StagePresent
  <2> QED BY <2>2, <2>3
<1>2. ASSUME TypeOK', Moves("reset", "unpack"), Removed("stage"), Same("target"),
            Same("backup"), UNCHANGED <<journal, errors, crashes>>
      PROVE  IInv'
  <2> USE <1>2
  <2>1. Contents /\ Contents' /\ errors \in Nat /\ crashes \in Nat BY ContentsMean, Counts
  <2>2. StagePresent' BY <2>1 DEF StagePresent
  <2>3. ASSUME Tame' PROVE Sound'
    <3>1. Tame /\ Sound BY <2>1, <2>3
    <3> QED BY <2>1, <2>3, <3>1 DEF PhaseMeans, PhaseOf, PlaceMeans, CommitsClosed,
                UndoMeans, StagePresent
  <2> QED BY <2>2, <2>3
<1>3. "reset" \in Pcs /\ "unpack" \in Pcs \ {"idle"} /\ "stage" \in Names
  BY DEF Pcs, Phases, Committing, Closed, Reporting, Discarding, Names
<1>4. /\ TypeOK' /\ UNCHANGED <<journal, errors, crashes>>
      /\ \A e \in Names \ {"stage"} : Same(e)
      /\ \/ InPart("stage") /\ UNCHANGED run
         \/ Removed("stage") /\ Moves("reset", "unpack")
  BY <1>3, ClearEffect DEF ResetStage
<1> QED BY <1>1, <1>2, <1>4 DEF ResetStage, At, Names

\* The old backup goes while the target is good.
LEMMA ClearBackupKeeps == ASSUME IInv, ClearBackup PROVE IInv'
<1> USE DEF IInv
<1>1. ASSUME TypeOK', run.pc = "commitClear", InPart("backup"), UNCHANGED run,
            Same("target"), Same("stage"), UNCHANGED <<journal, errors, crashes>>
      PROVE  IInv'
  <2> USE <1>1
  <2>1. Contents /\ Contents' /\ errors \in Nat /\ crashes \in Nat BY ContentsMean, Counts
  <2>2. StagePresent' BY <2>1 DEF StagePresent
  <2>3. ASSUME Tame' PROVE Sound'
    <3>1. Tame /\ Sound BY <2>1, <2>3
    <3> QED BY <2>1, <2>3, <3>1 DEF PhaseMeans, PhaseOf, PlaceMeans, CommitsClosed,
                UndoMeans, StagePresent
  <2> QED BY <2>2, <2>3
<1>2. ASSUME TypeOK', Moves("commitClear", "backup"), Removed("backup"), Same("target"),
            Same("stage"), UNCHANGED <<journal, errors, crashes>>
      PROVE  IInv'
  <2> USE <1>2
  <2>1. Contents /\ Contents' /\ errors \in Nat /\ crashes \in Nat BY ContentsMean, Counts
  <2>2. StagePresent' BY <2>1 DEF StagePresent
  <2>3. ASSUME Tame' PROVE Sound'
    <3>1. Tame /\ Sound BY <2>1, <2>3
    <3> QED BY <2>1, <2>3, <3>1 DEF PhaseMeans, PhaseOf, PlaceMeans, CommitsClosed,
                UndoMeans, StagePresent
  <2> QED BY <2>2, <2>3
<1>3. "commitClear" \in Pcs /\ "backup" \in Pcs \ {"idle"} /\ "backup" \in Names
  BY DEF Pcs, Phases, Committing, Closed, Reporting, Discarding, Names
<1>4. /\ TypeOK' /\ UNCHANGED <<journal, errors, crashes>>
      /\ \A e \in Names \ {"backup"} : Same(e)
      /\ \/ InPart("backup") /\ UNCHANGED run
         \/ Removed("backup") /\ Moves("commitClear", "backup")
  BY <1>3, ClearEffect DEF ClearBackup
<1> QED BY <1>1, <1>2, <1>4 DEF ClearBackup, At, Names

\* The backup goes while the new installation is in place,
LEMMA FinalizeKeeps == ASSUME IInv, Finalize PROVE IInv'
<1> USE DEF IInv
<1>1. ASSUME TypeOK', run.pc = "finalize", InPart("backup"), UNCHANGED run, Same("target"),
            Same("stage"), UNCHANGED <<journal, errors, crashes>>
      PROVE  IInv'
  <2> USE <1>1
  <2>1. Contents /\ Contents' /\ errors \in Nat /\ crashes \in Nat BY ContentsMean, Counts
  <2>2. StagePresent' BY <2>1 DEF StagePresent
  <2>3. ASSUME Tame' PROVE Sound'
    <3>1. Tame /\ Sound BY <2>1, <2>3
    <3> QED BY <2>1, <2>3, <3>1 DEF PhaseMeans, PhaseOf, PlaceMeans, CommitsClosed,
                UndoMeans, StagePresent
  <2> QED BY <2>2, <2>3
<1>2. ASSUME TypeOK', Moves("finalize", "finalizeStage"), Removed("backup"), Same("target"),
            Same("stage"), UNCHANGED <<journal, errors, crashes>>
      PROVE  IInv'
  <2> USE <1>2
  <2>1. Contents /\ Contents' /\ errors \in Nat /\ crashes \in Nat BY ContentsMean, Counts
  <2>2. StagePresent' BY <2>1 DEF StagePresent
  <2>3. ASSUME Tame' PROVE Sound'
    <3>1. Tame /\ Sound BY <2>1, <2>3
    <3> QED BY <2>1, <2>3, <3>1 DEF PhaseMeans, PhaseOf, PlaceMeans, CommitsClosed,
                UndoMeans, StagePresent
  <2> QED BY <2>2, <2>3
<1>3. "finalize" \in Pcs /\ "finalizeStage" \in Pcs \ {"idle"} /\ "backup" \in Names
  BY DEF Pcs, Phases, Committing, Closed, Reporting, Discarding, Names
<1>4. /\ TypeOK' /\ UNCHANGED <<journal, errors, crashes>>
      /\ \A e \in Names \ {"backup"} : Same(e)
      /\ \/ InPart("backup") /\ UNCHANGED run
         \/ Removed("backup") /\ Moves("finalize", "finalizeStage")
  BY <1>3, ClearEffect DEF Finalize
<1> QED BY <1>1, <1>2, <1>4 DEF Finalize, At, Names

\* and what is left of the stage.
LEMMA FinalizeStageKeeps == ASSUME IInv, FinalizeStage PROVE IInv'
<1> USE DEF IInv
<1>1. ASSUME TypeOK', run.pc = "finalizeStage", InPart("stage"), UNCHANGED run,
            Same("target"), Same("backup"), UNCHANGED <<journal, errors, crashes>>
      PROVE  IInv'
  <2> USE <1>1
  <2>1. Contents /\ Contents' /\ errors \in Nat /\ crashes \in Nat BY ContentsMean, Counts
  <2>2. StagePresent' BY <2>1 DEF StagePresent
  <2>3. ASSUME Tame' PROVE Sound'
    <3>1. Tame /\ Sound BY <2>1, <2>3
    <3> QED BY <2>1, <2>3, <3>1 DEF PhaseMeans, PhaseOf, PlaceMeans, CommitsClosed,
                UndoMeans, StagePresent
  <2> QED BY <2>2, <2>3
<1>2. ASSUME TypeOK', Moves("finalizeStage", "complete"), Removed("stage"), Same("target"),
            Same("backup"), UNCHANGED <<journal, errors, crashes>>
      PROVE  IInv'
  <2> USE <1>2
  <2>1. Contents /\ Contents' /\ errors \in Nat /\ crashes \in Nat BY ContentsMean, Counts
  <2>2. StagePresent' BY <2>1 DEF StagePresent
  <2>3. ASSUME Tame' PROVE Sound'
    <3>1. Tame /\ Sound BY <2>1, <2>3
    <3> QED BY <2>1, <2>3, <3>1 DEF PhaseMeans, PhaseOf, PlaceMeans, CommitsClosed,
                UndoMeans, StagePresent
  <2> QED BY <2>2, <2>3
<1>3. "finalizeStage" \in Pcs /\ "complete" \in Pcs \ {"idle"} /\ "stage" \in Names
  BY DEF Pcs, Phases, Committing, Closed, Reporting, Discarding, Names
<1>4. /\ TypeOK' /\ UNCHANGED <<journal, errors, crashes>>
      /\ \A e \in Names \ {"stage"} : Same(e)
      /\ \/ InPart("stage") /\ UNCHANGED run
         \/ Removed("stage") /\ Moves("finalizeStage", "complete")
  BY <1>3, ClearEffect DEF FinalizeStage
<1> QED BY <1>1, <1>2, <1>4 DEF FinalizeStage, At, Names

\* The journal of a new operation.
LEMMA CreateKeeps == ASSUME IInv, Create PROVE IInv'
<1> USE DEF IInv
<1>1. ASSUME TypeOK', Moves("create", "opened"), journal'.phase = "created",
            journal'.version = run.version, UNCHANGED <<dirs, errors, crashes>>
      PROVE  IInv'
  <2> USE <1>1
  <2>1. Contents /\ Contents' /\ errors \in Nat /\ crashes \in Nat BY ContentsMean, Counts
  <2>2. StagePresent' BY <2>1 DEF StagePresent
  <2>3. ASSUME Tame' PROVE Sound'
    <3>1. Tame /\ Sound BY <2>1, <2>3
    <3> QED BY <2>1, <2>3, <3>1 DEF PhaseMeans, PhaseOf, PlaceMeans, CommitsClosed,
                UndoMeans, StagePresent
  <2> QED BY <2>2, <2>3
<1>2. DirsOK /\ JournalOK /\ RunOK /\ BoundsOK BY Types
<1>3. "create" \in Pcs /\ "opened" \in Pcs BY DEF Pcs, Discarding, Reporting
<1>4. RunOK' /\ Moves("create", "opened")
  BY <1>2, <1>3, GotoEffect DEF Create
<1>5. DirsOK' /\ UNCHANGED dirs
  BY <1>2 DEF Create, DirsOK, Exists
<1>6. JournalOK' /\ journal'.phase = "created" /\ journal'.version = run.version
  BY <1>2 DEF Create, JournalOK, RunOK, Phases
<1>7. BoundsOK' /\ UNCHANGED <<errors, crashes>> BY <1>2, BoundsStay DEF Create, bounds
<1>8. TypeOK' BY <1>4, <1>5, <1>6, <1>7, Types
<1> QED BY <1>1, <1>4, <1>5, <1>6, <1>7, <1>8

\* The new installation is in place and is verified.
LEMMA RecoverActivatedKeeps == ASSUME IInv, RecoverActivated PROVE IInv'
<1> USE DEF IInv
<1>1. ASSUME TypeOK', Moves("recover", "verify"), journal.phase = "activated",
            UNCHANGED <<dirs, journal, errors, crashes>>
      PROVE  IInv'
  <2> USE <1>1
  <2>1. Contents /\ Contents' /\ errors \in Nat /\ crashes \in Nat BY ContentsMean, Counts
  <2>2. StagePresent' BY <2>1 DEF StagePresent
  <2>3. ASSUME Tame' PROVE Sound'
    <3>1. Tame /\ Sound BY <2>1, <2>3
    <3> QED BY <2>1, <2>3, <3>1 DEF PhaseMeans, PhaseOf, PlaceMeans, CommitsClosed,
                UndoMeans, StagePresent
  <2> QED BY <2>2, <2>3
<1>2. DirsOK /\ JournalOK /\ RunOK /\ BoundsOK BY Types
<1>3. "recover" \in Pcs /\ "verify" \in Pcs BY DEF Pcs, Discarding, Reporting
<1>4. RunOK' /\ Moves("recover", "verify")
  BY <1>2, <1>3, GotoEffect DEF RecoverActivated
<1>5. DirsOK' /\ UNCHANGED dirs
  BY <1>2 DEF RecoverActivated, DirsOK, Exists
<1>6. JournalOK' /\ UNCHANGED journal
  BY <1>2 DEF RecoverActivated, JournalOK
<1>7. BoundsOK' /\ UNCHANGED <<errors, crashes>> BY <1>2, BoundsStay DEF RecoverActivated, bounds
<1>8. TypeOK' BY <1>4, <1>5, <1>6, <1>7, Types
<1> QED BY <1>1, <1>4, <1>5, <1>6, <1>7, <1>8 DEF RecoverActivated

\* A stage that verifies is used, any other is made anew.
LEMMA CheckStageKeeps == ASSUME IInv, CheckStage PROVE IInv'
<1> USE DEF IInv
<1>1. ASSUME TypeOK', Moves("check", "copy"), dirs["stage"].whole,
            UNCHANGED <<dirs, journal, errors, crashes>>
      PROVE  IInv'
  <2> USE <1>1
  <2>1. Contents /\ Contents' /\ errors \in Nat /\ crashes \in Nat BY ContentsMean, Counts
  <2>2. StagePresent' BY <2>1 DEF StagePresent
  <2>3. ASSUME Tame' PROVE Sound'
    <3>1. Tame /\ Sound BY <2>1, <2>3
    <3> QED BY <2>1, <2>3, <3>1 DEF PhaseMeans, PhaseOf, PlaceMeans, CommitsClosed,
                UndoMeans, StagePresent
  <2> QED BY <2>2, <2>3
<1>2. ASSUME TypeOK', Moves("check", "extract"),
            UNCHANGED <<dirs, journal, errors, crashes>>
      PROVE  IInv'
  <2> USE <1>2
  <2>1. Contents /\ Contents' /\ errors \in Nat /\ crashes \in Nat BY ContentsMean, Counts
  <2>2. StagePresent' BY <2>1 DEF StagePresent
  <2>3. ASSUME Tame' PROVE Sound'
    <3>1. Tame /\ Sound BY <2>1, <2>3
    <3> QED BY <2>1, <2>3, <3>1 DEF PhaseMeans, PhaseOf, PlaceMeans, CommitsClosed,
                UndoMeans, StagePresent
  <2> QED BY <2>2, <2>3
<1>3. DirsOK /\ JournalOK /\ RunOK /\ BoundsOK BY Types
<1>4. "check" \in Pcs /\ "copy" \in Pcs /\ "extract" \in Pcs BY DEF Pcs, Discarding, Reporting
<1>5. RunOK' /\ ((Moves("check", "copy") /\ dirs["stage"].whole) \/ Moves("check", "extract"))
  BY <1>3, <1>4, GotoEffect DEF CheckStage, Verifies
<1>6. DirsOK' /\ UNCHANGED dirs
  BY <1>3 DEF CheckStage, DirsOK, Exists
<1>7. JournalOK' /\ UNCHANGED journal
  BY <1>3 DEF CheckStage, JournalOK
<1>8. BoundsOK' /\ UNCHANGED <<errors, crashes>> BY <1>3, BoundsStay DEF CheckStage, bounds
<1>9. TypeOK' BY <1>5, <1>6, <1>7, <1>8, Types
<1> QED BY <1>1, <1>2, <1>5, <1>6, <1>7, <1>8, <1>9

\* A stage of the version of the journal appears,
LEMMA UnpackKeeps == ASSUME IInv, Unpack PROVE IInv'
<1> USE DEF IInv
<1>1. ASSUME TypeOK', Moves("unpack", "unpacking"), Exists("stage")',
            dirs'["stage"].build = journal.version, Same("target"), Same("backup"),
            UNCHANGED <<journal, errors, crashes>>
      PROVE  IInv'
  <2> USE <1>1
  <2>1. Contents /\ Contents' /\ errors \in Nat /\ crashes \in Nat BY ContentsMean, Counts
  <2>2. StagePresent' BY <2>1 DEF StagePresent
  <2>3. ASSUME Tame' PROVE Sound'
    <3>1. Tame /\ Sound BY <2>1, <2>3
    <3> QED BY <2>1, <2>3, <3>1 DEF PhaseMeans, PhaseOf, PlaceMeans, CommitsClosed,
                UndoMeans, StagePresent
  <2> QED BY <2>2, <2>3
<1>2. DirsOK /\ JournalOK /\ RunOK /\ BoundsOK BY Types
<1>3. "unpack" \in Pcs /\ "unpacking" \in Pcs BY DEF Pcs, Discarding, Reporting
<1>4. RunOK' /\ Moves("unpack", "unpacking")
  BY <1>2, <1>3, GotoEffect DEF Unpack
<1>5. DirsOK' /\ Exists("stage")' /\ dirs'["stage"].build = journal.version /\ Same("target") /\ Same("backup")
  BY <1>2, InstallAssumption DEF Unpack, At, StagePresent, Discarding, DirsOK, Names, Directories, Same, Gone, JournalOK, Exists
<1>6. JournalOK' /\ UNCHANGED journal
  BY <1>2 DEF Unpack, JournalOK
<1>7. BoundsOK' /\ UNCHANGED <<errors, crashes>> BY <1>2, BoundsStay DEF Unpack, bounds
<1>8. TypeOK' BY <1>4, <1>5, <1>6, <1>7, Types
<1> QED BY <1>1, <1>4, <1>5, <1>6, <1>7, <1>8

\* and is whole,
LEMMA FinishUnpackKeeps == ASSUME IInv, FinishUnpack PROVE IInv'
<1> USE DEF IInv
<1>1. ASSUME TypeOK', Moves("unpacking", "copy"),
            dirs'["stage"].build = dirs["stage"].build, dirs'["stage"].whole,
            Same("target"), Same("backup"), UNCHANGED <<journal, errors, crashes>>
      PROVE  IInv'
  <2> USE <1>1
  <2>1. Contents /\ Contents' /\ errors \in Nat /\ crashes \in Nat BY ContentsMean, Counts
  <2>2. StagePresent' BY <2>1 DEF StagePresent
  <2>3. ASSUME Tame' PROVE Sound'
    <3>1. Tame /\ Sound BY <2>1, <2>3
    <3> QED BY <2>1, <2>3, <3>1 DEF PhaseMeans, PhaseOf, PlaceMeans, CommitsClosed,
                UndoMeans, StagePresent
  <2> QED BY <2>2, <2>3
<1>2. DirsOK /\ JournalOK /\ RunOK /\ BoundsOK BY Types
<1>3. "unpacking" \in Pcs /\ "copy" \in Pcs BY DEF Pcs, Discarding, Reporting
<1>4. RunOK' /\ Moves("unpacking", "copy")
  BY <1>2, <1>3, GotoEffect DEF FinishUnpack
<1>5. DirsOK' /\ dirs'["stage"].build = dirs["stage"].build /\ dirs'["stage"].whole /\ Same("target") /\ Same("backup")
  <2> DEFINE x == [dirs["stage"] EXCEPT !.whole = TRUE, !.known = TRUE]
  <2>1. dirs["stage"] \in Directories /\ Exists("stage")
    BY <1>2 DEF DirsOK, Names, StagePresent, FinishUnpack, At
  <2>2. x \in Directories /\ x.build = dirs["stage"].build
    BY <2>1 DEF Directories
  <2>3. x.whole
    BY <2>1 DEF Directories
  <2>4. dirs' = [dirs EXCEPT !["stage"] = x]
    BY <1>2, <2>1 DEF FinishUnpack, DirsOK, Names, Directories
  <2> HIDE DEF x
  <2>5. DirsOK' /\ dirs'["stage"] = x /\ Same("target") /\ Same("backup")
    BY <1>2, <2>1, <2>2, <2>4, ChangeEffect DEF Names, Exists
  <2> QED BY <2>2, <2>3, <2>5
<1>6. JournalOK' /\ UNCHANGED journal
  BY <1>2 DEF FinishUnpack, JournalOK
<1>7. BoundsOK' /\ UNCHANGED <<errors, crashes>> BY <1>2, BoundsStay DEF FinishUnpack, bounds
<1>8. TypeOK' BY <1>4, <1>5, <1>6, <1>7, Types
<1> QED BY <1>1, <1>4, <1>5, <1>6, <1>7, <1>8

\* loses the saves it had,
LEMMA CopySavesKeeps == ASSUME IInv, CopySaves PROVE IInv'
<1> USE DEF IInv
<1>1. ASSUME TypeOK', Moves("copy", "copying"), dirs'["stage"].build = dirs["stage"].build,
            dirs'["stage"].whole = dirs["stage"].whole, Same("target"), Same("backup"),
            UNCHANGED <<journal, errors, crashes>>
      PROVE  IInv'
  <2> USE <1>1
  <2>1. Contents /\ Contents' /\ errors \in Nat /\ crashes \in Nat BY ContentsMean, Counts
  <2>2. StagePresent' BY <2>1 DEF StagePresent
  <2>3. ASSUME Tame' PROVE Sound'
    <3>1. Tame /\ Sound BY <2>1, <2>3
    <3> QED BY <2>1, <2>3, <3>1 DEF PhaseMeans, PhaseOf, PlaceMeans, CommitsClosed,
                UndoMeans, StagePresent
  <2> QED BY <2>2, <2>3
<1>2. DirsOK /\ JournalOK /\ RunOK /\ BoundsOK BY Types
<1>3. "copy" \in Pcs /\ "copying" \in Pcs BY DEF Pcs, Discarding, Reporting
<1>4. RunOK' /\ Moves("copy", "copying")
  BY <1>2, <1>3, GotoEffect DEF CopySaves
<1>5. DirsOK' /\ dirs'["stage"].build = dirs["stage"].build /\ dirs'["stage"].whole = dirs["stage"].whole /\ Same("target") /\ Same("backup")
  <2> DEFINE x == IF dirs["target"].saves THEN [dirs["stage"] EXCEPT !.saves = FALSE] ELSE dirs["stage"]
  <2>1. dirs["stage"] \in Directories /\ Exists("stage")
    BY <1>2 DEF DirsOK, Names, StagePresent, CopySaves, At
  <2>2. x \in Directories /\ x.build = dirs["stage"].build
    BY <2>1 DEF Directories
  <2>3. x.whole = dirs["stage"].whole
    BY <2>1 DEF Directories
  <2>4. dirs' = [dirs EXCEPT !["stage"] = x]
    BY <1>2, <2>1 DEF CopySaves, DirsOK, Names, Directories
  <2> HIDE DEF x
  <2>5. DirsOK' /\ dirs'["stage"] = x /\ Same("target") /\ Same("backup")
    BY <1>2, <2>1, <2>2, <2>4, ChangeEffect DEF Names, Exists
  <2> QED BY <2>2, <2>3, <2>5
<1>6. JournalOK' /\ UNCHANGED journal
  BY <1>2 DEF CopySaves, JournalOK
<1>7. BoundsOK' /\ UNCHANGED <<errors, crashes>> BY <1>2, BoundsStay DEF CopySaves, bounds
<1>8. TypeOK' BY <1>4, <1>5, <1>6, <1>7, Types
<1> QED BY <1>1, <1>4, <1>5, <1>6, <1>7, <1>8

\* and gets those of the target,
LEMMA FinishCopyKeeps == ASSUME IInv, FinishCopy PROVE IInv'
<1> USE DEF IInv
<1>1. ASSUME TypeOK', Moves("copying", "seal"), dirs'["stage"].build = dirs["stage"].build,
            dirs'["stage"].whole = dirs["stage"].whole,
            dirs["target"].saves => dirs'["stage"].saves, Same("target"), Same("backup"),
            UNCHANGED <<journal, errors, crashes>>
      PROVE  IInv'
  <2> USE <1>1
  <2>1. Contents /\ Contents' /\ errors \in Nat /\ crashes \in Nat BY ContentsMean, Counts
  <2>2. StagePresent' BY <2>1 DEF StagePresent
  <2>3. ASSUME Tame' PROVE Sound'
    <3>1. Tame /\ Sound BY <2>1, <2>3
    <3> QED BY <2>1, <2>3, <3>1 DEF PhaseMeans, PhaseOf, PlaceMeans, CommitsClosed,
                UndoMeans, StagePresent
  <2> QED BY <2>2, <2>3
<1>2. DirsOK /\ JournalOK /\ RunOK /\ BoundsOK BY Types
<1>3. "copying" \in Pcs /\ "seal" \in Pcs BY DEF Pcs, Discarding, Reporting
<1>4. RunOK' /\ Moves("copying", "seal")
  BY <1>2, <1>3, GotoEffect DEF FinishCopy
<1>5. DirsOK' /\ dirs'["stage"].build = dirs["stage"].build /\ dirs'["stage"].whole = dirs["stage"].whole /\ (dirs["target"].saves => dirs'["stage"].saves) /\ Same("target") /\ Same("backup")
  <2> DEFINE x == IF dirs["target"].saves THEN [dirs["stage"] EXCEPT !.saves = TRUE] ELSE dirs["stage"]
  <2>1. dirs["stage"] \in Directories /\ Exists("stage")
    BY <1>2 DEF DirsOK, Names, StagePresent, FinishCopy, At
  <2>2. x \in Directories /\ x.build = dirs["stage"].build
    BY <2>1 DEF Directories
  <2>3. x.whole = dirs["stage"].whole /\ (dirs["target"].saves => x.saves)
    BY <2>1 DEF Directories, SourceSaves
  <2>4. dirs' = [dirs EXCEPT !["stage"] = x]
    BY <1>2, <2>1 DEF FinishCopy, DirsOK, Names, Directories, SourceSaves
  <2> HIDE DEF x
  <2>5. DirsOK' /\ dirs'["stage"] = x /\ Same("target") /\ Same("backup")
    BY <1>2, <2>1, <2>2, <2>4, ChangeEffect DEF Names, Exists
  <2> QED BY <2>2, <2>3, <2>5
<1>6. JournalOK' /\ UNCHANGED journal
  BY <1>2 DEF FinishCopy, JournalOK
<1>7. BoundsOK' /\ UNCHANGED <<errors, crashes>> BY <1>2, BoundsStay DEF FinishCopy, bounds
<1>8. TypeOK' BY <1>4, <1>5, <1>6, <1>7, Types
<1> QED BY <1>1, <1>4, <1>5, <1>6, <1>7, <1>8

\* is sealed,
LEMMA SealKeeps == ASSUME IInv, Seal PROVE IInv'
<1> USE DEF IInv
<1>1. ASSUME TypeOK', Moves("manifest", "ready"),
            dirs'["stage"].build = dirs["stage"].build,
            dirs'["stage"].whole = dirs["stage"].whole,
            dirs'["stage"].saves = dirs["stage"].saves, dirs'["stage"].sealed,
            Same("target"), Same("backup"), UNCHANGED <<journal, errors, crashes>>
      PROVE  IInv'
  <2> USE <1>1
  <2>1. Contents /\ Contents' /\ errors \in Nat /\ crashes \in Nat BY ContentsMean, Counts
  <2>2. StagePresent' BY <2>1 DEF StagePresent
  <2>3. ASSUME Tame' PROVE Sound'
    <3>1. Tame /\ Sound BY <2>1, <2>3
    <3> QED BY <2>1, <2>3, <3>1 DEF PhaseMeans, PhaseOf, PlaceMeans, CommitsClosed,
                UndoMeans, StagePresent
  <2> QED BY <2>2, <2>3
<1>2. DirsOK /\ JournalOK /\ RunOK /\ BoundsOK BY Types
<1>3. "manifest" \in Pcs /\ "ready" \in Pcs BY DEF Pcs, Discarding, Reporting
<1>4. RunOK' /\ Moves("manifest", "ready")
  BY <1>2, <1>3, GotoEffect DEF Seal
<1>5. DirsOK' /\ dirs'["stage"].build = dirs["stage"].build /\ dirs'["stage"].whole = dirs["stage"].whole /\ dirs'["stage"].saves = dirs["stage"].saves /\ dirs'["stage"].sealed /\ Same("target") /\ Same("backup")
  <2> DEFINE x == [dirs["stage"] EXCEPT !.sealed = TRUE]
  <2>1. dirs["stage"] \in Directories /\ Exists("stage")
    BY <1>2 DEF DirsOK, Names, StagePresent, Seal, At
  <2>2. x \in Directories /\ x.build = dirs["stage"].build
    BY <2>1 DEF Directories
  <2>3. x.whole = dirs["stage"].whole /\ x.saves = dirs["stage"].saves /\ x.sealed
    BY <2>1 DEF Directories
  <2>4. dirs' = [dirs EXCEPT !["stage"] = x]
    BY <1>2, <2>1 DEF Seal, DirsOK, Names, Directories
  <2> HIDE DEF x
  <2>5. DirsOK' /\ dirs'["stage"] = x /\ Same("target") /\ Same("backup")
    BY <1>2, <2>1, <2>2, <2>4, ChangeEffect DEF Names, Exists
  <2> QED BY <2>2, <2>3, <2>5
<1>6. JournalOK' /\ UNCHANGED journal
  BY <1>2 DEF Seal, JournalOK
<1>7. BoundsOK' /\ UNCHANGED <<errors, crashes>> BY <1>2, BoundsStay DEF Seal, bounds
<1>8. TypeOK' BY <1>4, <1>5, <1>6, <1>7, Types
<1> QED BY <1>1, <1>4, <1>5, <1>6, <1>7, <1>8

\* The commit opens with a good target and a good stage.
LEMMA PrepareKeeps == ASSUME IInv, Prepare PROVE IInv'
<1> USE DEF IInv
<1>1. ASSUME TypeOK', Moves("apply", "commitClear"), journal'.phase = "commit_prepared",
            journal'.version = journal.version, journal'.had <=> Exists("target"),
            UNCHANGED <<dirs, errors, crashes>>
      PROVE  IInv'
  <2> USE <1>1
  <2>1. Contents /\ Contents' /\ errors \in Nat /\ crashes \in Nat BY ContentsMean, Counts
  <2>2. StagePresent' BY <2>1 DEF StagePresent
  <2>3. ASSUME Tame' PROVE Sound'
    <3>1. Tame /\ Sound BY <2>1, <2>3
    <3> QED BY <2>1, <2>3, <3>1 DEF PhaseMeans, PhaseOf, PlaceMeans, CommitsClosed,
                UndoMeans, StagePresent
  <2> QED BY <2>2, <2>3
<1>2. DirsOK /\ JournalOK /\ RunOK /\ BoundsOK BY Types
<1>3. "apply" \in Pcs /\ "commitClear" \in Pcs BY DEF Pcs, Discarding, Reporting
<1>4. RunOK' /\ Moves("apply", "commitClear")
  BY <1>2, <1>3, GotoEffect DEF Prepare
<1>5. DirsOK' /\ UNCHANGED dirs
  BY <1>2 DEF Prepare, DirsOK, Exists
<1>6. JournalOK' /\ journal'.phase = "commit_prepared" /\ journal'.version = journal.version /\ (journal'.had <=> Exists("target"))
  BY <1>2 DEF Prepare, JournalOK, Phases, Committing, Exists
<1>7. BoundsOK' /\ UNCHANGED <<errors, crashes>> BY <1>2, BoundsStay DEF Prepare, bounds
<1>8. TypeOK' BY <1>4, <1>5, <1>6, <1>7, Types
<1> QED BY <1>1, <1>4, <1>5, <1>6, <1>7, <1>8

\* The new installation verifies: only another failure leads to the rollback.
LEMMA VerifyKeeps == ASSUME IInv, Verify PROVE IInv'
<1> USE DEF IInv
<1>1. ASSUME TypeOK', Moves("verify", "finalize"),
            UNCHANGED <<dirs, journal, errors, crashes>>
      PROVE  IInv'
  <2> USE <1>1
  <2>1. Contents /\ Contents' /\ errors \in Nat /\ crashes \in Nat BY ContentsMean, Counts
  <2>2. StagePresent' BY <2>1 DEF StagePresent
  <2>3. ASSUME Tame' PROVE Sound'
    <3>1. Tame /\ Sound BY <2>1, <2>3
    <3> QED BY <2>1, <2>3, <3>1 DEF PhaseMeans, PhaseOf, PlaceMeans, CommitsClosed,
                UndoMeans, StagePresent
  <2> QED BY <2>2, <2>3
<1>2. ASSUME TypeOK', Moves("verify", "rollback"),
            ~(dirs["target"].whole /\ dirs["target"].sealed),
            UNCHANGED <<dirs, journal, errors, crashes>>
      PROVE  IInv'
  <2> USE <1>2
  <2>1. Contents /\ Contents' /\ errors \in Nat /\ crashes \in Nat BY ContentsMean, Counts
  <2>2. StagePresent' BY <2>1 DEF StagePresent
  <2>3. ASSUME Tame' PROVE Sound'
    <3>1. Tame /\ Sound BY <2>1, <2>3
    <3> QED BY <2>1, <2>3, <3>1 DEF PhaseMeans, PhaseOf, PlaceMeans, CommitsClosed,
                UndoMeans, StagePresent
  <2> QED BY <2>2, <2>3
<1>3. DirsOK /\ JournalOK /\ RunOK /\ BoundsOK BY Types
<1>4. "verify" \in Pcs /\ "finalize" \in Pcs /\ "rollback" \in Pcs BY DEF Pcs, Discarding, Reporting
<1>5. RunOK' /\ \/ Moves("verify", "finalize")
                \/ /\ Moves("verify", "rollback")
                   /\ ~(dirs["target"].whole /\ dirs["target"].sealed)
  <2>1. Verifies("target") <=> dirs["target"].whole /\ dirs["target"].sealed
    BY ContentsMean DEF Verifies, Contents, Names
  <2>2. CASE Verifies("target")
    <3>1. At("verify") /\ Goto("finalize") BY <2>2 DEF Verify
    <3>2. RunOK' /\ Moves("verify", "finalize") BY <1>3, <1>4, <3>1, GotoEffect
    <3> QED BY <3>2
  <2>3. CASE ~Verifies("target")
    <3>1. At("verify") /\ Goto("rollback") BY <2>3 DEF Verify
    <3> QED BY <1>3, <1>4, <2>1, <2>3, <3>1, GotoEffect
  <2> QED BY <2>2, <2>3
<1>6. DirsOK' /\ UNCHANGED dirs
  BY <1>3 DEF Verify, DirsOK, Exists
<1>7. JournalOK' /\ UNCHANGED journal
  BY <1>3 DEF Verify, JournalOK
<1>8. BoundsOK' /\ UNCHANGED <<errors, crashes>> BY <1>3, BoundsStay DEF Verify, bounds
<1>9. TypeOK' BY <1>5, <1>6, <1>7, <1>8, Types
<1> QED BY <1>1, <1>2, <1>5, <1>6, <1>7, <1>8, <1>9

\* The phase of the journal decides where the operation goes on.
LEMMA OpenedKeeps == ASSUME IInv, Opened PROVE IInv'
<1> USE DEF IInv
<1>1. ASSUME TypeOK', Turns("opened", "recover"), run'.recovering,
            journal.phase \in Committing, UNCHANGED <<dirs, journal, errors, crashes>>
      PROVE  IInv'
  <2> USE <1>1
  <2>1. Contents /\ Contents' /\ errors \in Nat /\ crashes \in Nat BY ContentsMean, Counts
  <2>2. StagePresent' BY <2>1 DEF StagePresent
  <2>3. ASSUME Tame' PROVE Sound'
    <3>1. Tame /\ Sound BY <2>1, <2>3
    <3> QED BY <2>1, <2>3, <3>1 DEF PhaseMeans, PhaseOf, PlaceMeans, CommitsClosed,
                UndoMeans, StagePresent
  <2> QED BY <2>2, <2>3
<1>2. ASSUME TypeOK', Turns("opened", "check"), ~run'.recovering,
            journal.phase = "stage_ready", Exists("stage"),
            UNCHANGED <<dirs, journal, errors, crashes>>
      PROVE  IInv'
  <2> USE <1>2
  <2>1. Contents /\ Contents' /\ errors \in Nat /\ crashes \in Nat BY ContentsMean, Counts
  <2>2. StagePresent' BY <2>1 DEF StagePresent
  <2>3. ASSUME Tame' PROVE Sound'
    <3>1. Tame /\ Sound BY <2>1, <2>3
    <3> QED BY <2>1, <2>3, <3>1 DEF PhaseMeans, PhaseOf, PlaceMeans, CommitsClosed,
                UndoMeans, StagePresent
  <2> QED BY <2>2, <2>3
<1>3. ASSUME TypeOK', Turns("opened", "fetch"), ~run'.recovering,
            journal.phase \notin Committing, UNCHANGED <<dirs, journal, errors, crashes>>
      PROVE  IInv'
  <2> USE <1>3
  <2>1. Contents /\ Contents' /\ errors \in Nat /\ crashes \in Nat BY ContentsMean, Counts
  <2>2. StagePresent' BY <2>1 DEF StagePresent
  <2>3. ASSUME Tame' PROVE Sound'
    <3>1. Tame /\ Sound BY <2>1, <2>3
    <3> QED BY <2>1, <2>3, <3>1 DEF PhaseMeans, PhaseOf, PlaceMeans, CommitsClosed,
                UndoMeans, StagePresent
  <2> QED BY <2>2, <2>3
<1>4. DirsOK /\ JournalOK /\ RunOK /\ BoundsOK BY Types
<1>5. "opened" \in Pcs BY DEF Pcs, Discarding, Reporting
<1>6. RunOK' /\ \/ Turns("opened", "recover") /\ run'.recovering /\ journal.phase \in Committing
                \/ Turns("opened", "check") /\ ~run'.recovering /\ journal.phase = "stage_ready" /\ Exists("stage")
                \/ Turns("opened", "fetch") /\ ~run'.recovering /\ journal.phase \notin Committing
  <2>1. CASE journal.phase \in Committing
    <3>1. At("opened") /\ run' = [run EXCEPT !.recovering = TRUE, !.pc = "recover"]
      BY <2>1 DEF Opened, Committing
    <3> QED BY <1>4, <1>5, <2>1, <3>1 DEF At, RunOK, Pcs, Turns
  <2>2. CASE journal.phase = "stage_ready" /\ Exists("stage")
    <3>2. journal.phase \notin Committing /\ (journal.phase \in Committing) = FALSE BY <2>2 DEF Committing
    <3>1. At("opened") /\ run' = [run EXCEPT !.recovering = FALSE, !.pc = "check"]
      BY <2>2, <3>2 DEF Opened
    <3> QED BY <1>4, <1>5, <2>2, <3>1 DEF At, RunOK, Pcs, Turns
  <2>3. CASE journal.phase \notin Committing /\ ~(journal.phase = "stage_ready" /\ Exists("stage"))
    <3>2. journal.phase \notin Committing /\ (journal.phase \in Committing) = FALSE BY <2>3 DEF Committing
    <3>1. At("opened") /\ run' = [run EXCEPT !.recovering = FALSE, !.pc = "fetch"]
      BY <2>3, <3>2 DEF Opened
    <3> QED BY <1>4, <1>5, <2>3, <3>1 DEF At, RunOK, Pcs, Turns
  <2> QED BY <2>1, <2>2, <2>3
<1>7. DirsOK' /\ UNCHANGED dirs
  BY <1>4 DEF Opened, DirsOK, Exists
<1>8. JournalOK' /\ UNCHANGED journal
  BY <1>4 DEF Opened, JournalOK
<1>9. BoundsOK' /\ UNCHANGED <<errors, crashes>> BY <1>4, BoundsStay DEF Opened, bounds
<1>10. TypeOK' BY <1>6, <1>7, <1>8, <1>9, Types
<1> QED BY <1>1, <1>2, <1>3, <1>6, <1>7, <1>8, <1>9, <1>10

\* The target is away and the backup there: the renames are taken up between them.
LEMMA RecoverPreparedKeeps == ASSUME IInv, RecoverPrepared PROVE IInv'
<1> USE DEF IInv
<1>1. ASSUME TypeOK', run.pc = "recover", journal.phase = "commit_prepared",
            ~Exists("target"), Exists("backup"), Marks("target_backed_up"), UNCHANGED run,
            UNCHANGED <<dirs, errors, crashes>>
      PROVE  IInv'
  <2> USE <1>1
  <2>1. Contents /\ Contents' /\ errors \in Nat /\ crashes \in Nat BY ContentsMean, Counts
  <2>2. StagePresent' BY <2>1 DEF StagePresent
  <2>3. ASSUME Tame' PROVE Sound'
    <3>1. Tame /\ Sound BY <2>1, <2>3
    <3> QED BY <2>1, <2>3, <3>1 DEF PhaseMeans, PhaseOf, PlaceMeans, CommitsClosed,
                UndoMeans, StagePresent
  <2> QED BY <2>2, <2>3
<1>2. ASSUME TypeOK', Turns("recover", "check"), ~run'.recovering, journal.phase = "commit_prepared",
            Exists("target") \/ ~Exists("backup"), Exists("stage"),
            UNCHANGED <<dirs, journal, errors, crashes>>
      PROVE  IInv'
  <2> USE <1>2
  <2>1. Contents /\ Contents' /\ errors \in Nat /\ crashes \in Nat BY ContentsMean, Counts
  <2>2. StagePresent' BY <2>1 DEF StagePresent
  <2>3. ASSUME Tame' PROVE Sound'
    <3>1. Tame /\ Sound BY <2>1, <2>3
    <3> QED BY <2>1, <2>3, <3>1 DEF PhaseMeans, PhaseOf, PlaceMeans, CommitsClosed,
                UndoMeans, StagePresent
  <2> QED BY <2>2, <2>3
<1>3. ASSUME TypeOK', Turns("recover", "fetch"), ~run'.recovering, journal.phase = "commit_prepared",
            Exists("target") \/ ~Exists("backup"),
            UNCHANGED <<dirs, journal, errors, crashes>>
      PROVE  IInv'
  <2> USE <1>3
  <2>1. Contents /\ Contents' /\ errors \in Nat /\ crashes \in Nat BY ContentsMean, Counts
  <2>2. StagePresent' BY <2>1 DEF StagePresent
  <2>3. ASSUME Tame' PROVE Sound'
    <3>1. Tame /\ Sound BY <2>1, <2>3
    <3> QED BY <2>1, <2>3, <3>1 DEF PhaseMeans, PhaseOf, PlaceMeans, CommitsClosed,
                UndoMeans, StagePresent
  <2> QED BY <2>2, <2>3
<1>4. DirsOK /\ JournalOK /\ RunOK /\ BoundsOK BY Types
<1>5. "recover" \in Pcs /\ "check" \in Pcs /\ "fetch" \in Pcs BY DEF Pcs, Discarding, Reporting
<1>6. RunOK' /\ \/ run.pc = "recover" /\ UNCHANGED run /\ ~Exists("target") /\ Exists("backup")
                \/ /\ Exists("target") \/ ~Exists("backup")
                   /\ \/ Turns("recover", "check") /\ ~run'.recovering /\ Exists("stage")
                      \/ Turns("recover", "fetch") /\ ~run'.recovering
  <2>1. CASE ~Exists("target") /\ Exists("backup")
    BY <1>4, <1>5, <2>1 DEF RecoverPrepared, At, RunOK
  <2>2. CASE (Exists("target") \/ ~Exists("backup")) /\ Exists("stage")
    <3>1. At("recover") /\ run' = [run EXCEPT !.pc = "check", !.recovering = FALSE]
      BY <2>2 DEF RecoverPrepared
    <3> QED BY <1>4, <1>5, <2>2, <3>1 DEF At, RunOK, Turns
  <2>3. CASE (Exists("target") \/ ~Exists("backup")) /\ ~Exists("stage")
    <3>1. At("recover") /\ run' = [run EXCEPT !.pc = "fetch", !.recovering = FALSE]
      BY <2>3 DEF RecoverPrepared
    <3> QED BY <1>4, <1>5, <2>3, <3>1 DEF At, RunOK, Turns
  <2> QED BY <2>1, <2>2, <2>3
<1>7. DirsOK' /\ UNCHANGED dirs
  BY <1>4 DEF RecoverPrepared, DirsOK, Exists
<1>8. JournalOK' /\ /\ ~Exists("target") /\ Exists("backup") => Marks("target_backed_up")
                    /\ Exists("target") \/ ~Exists("backup") => UNCHANGED journal
  BY <1>4 DEF RecoverPrepared, JournalOK, Phases, Committing, Marks
<1>9. BoundsOK' /\ UNCHANGED <<errors, crashes>> BY <1>4, BoundsStay DEF RecoverPrepared, bounds
<1>10. TypeOK' BY <1>6, <1>7, <1>8, <1>9, Types
<1> QED BY <1>1, <1>2, <1>3, <1>6, <1>7, <1>8, <1>9, <1>10 DEF RecoverPrepared

\* The target is missing or the new one, as the phase says: the stage is not lost.
LEMMA RecoverBackedUpKeeps == ASSUME IInv, RecoverBackedUp PROVE IInv'
<1> USE DEF IInv
<1>1. ASSUME TypeOK', Moves("recover", "activate"), journal.phase = "target_backed_up",
            Exists("target"), UNCHANGED <<dirs, journal, errors, crashes>>
      PROVE  IInv'
  <2> USE <1>1
  <2>1. Contents /\ Contents' /\ errors \in Nat /\ crashes \in Nat BY ContentsMean, Counts
  <2>2. StagePresent' BY <2>1 DEF StagePresent
  <2>3. ASSUME Tame' PROVE Sound'
    <3>1. Tame /\ Sound BY <2>1, <2>3
    <3> QED BY <2>1, <2>3, <3>1 DEF PhaseMeans, PhaseOf, PlaceMeans, CommitsClosed,
                UndoMeans, StagePresent
  <2> QED BY <2>2, <2>3
<1>2. ASSUME TypeOK', Moves("recover", "activate"), journal.phase = "target_backed_up",
            ~Exists("target"), dirs'["target"] = dirs["stage"], Removed("stage"),
            Same("backup"), UNCHANGED <<journal, errors, crashes>>
      PROVE  IInv'
  <2> USE <1>2
  <2>1. Contents /\ Contents' /\ errors \in Nat /\ crashes \in Nat BY ContentsMean, Counts
  <2>2. StagePresent' BY <2>1 DEF StagePresent
  <2>3. ASSUME Tame' PROVE Sound'
    <3>1. Tame /\ Sound BY <2>1, <2>3
    <3> QED BY <2>1, <2>3, <3>1 DEF PhaseMeans, PhaseOf, PlaceMeans, CommitsClosed,
                UndoMeans, StagePresent
  <2> QED BY <2>2, <2>3
<1>3. ASSUME TypeOK', Moves("recover", "failed"), journal.phase = "target_backed_up",
            ~Exists("target"), ~Exists("stage"), Same("stage"),
            UNCHANGED <<journal, errors, crashes>>
      PROVE  IInv'
  <2> USE <1>3
  <2>1. Contents /\ Contents' /\ errors \in Nat /\ crashes \in Nat BY ContentsMean, Counts
  <2>2. StagePresent' BY <2>1 DEF StagePresent
  <2>3. ASSUME Tame' PROVE Sound'
    <3>1. Tame /\ Sound BY <2>1, <2>3
    <3> QED BY <2>1, <2>3, <3>1 DEF PhaseMeans, PhaseOf, PlaceMeans, CommitsClosed,
                UndoMeans, StagePresent
  <2> QED BY <2>2, <2>3
<1>4. DirsOK /\ JournalOK /\ RunOK /\ BoundsOK BY Types
<1>5. "recover" \in Pcs /\ "activate" \in Pcs /\ "failed" \in Pcs BY DEF Pcs, Discarding, Reporting
<1>6. RunOK' /\ \/ Exists("target") /\ Moves("recover", "activate") /\ UNCHANGED dirs
                \/ ~Exists("target") /\ Moves("recover", "activate") /\ Rename("stage", "target")
                \/ /\ ~Exists("target") /\ ~Exists("stage") /\ Moves("recover", "failed")
                   /\ Rename("backup", "target") \/ UNCHANGED dirs
  <2>1. CASE Goto("activate") BY <1>4, <1>5, <2>1, GotoEffect DEF RecoverBackedUp
  <2>2. CASE Goto("failed") BY <1>4, <1>5, <2>2, GotoEffect DEF RecoverBackedUp
  <2> QED BY <2>1, <2>2 DEF RecoverBackedUp
<1>7. DirsOK' /\ /\ Rename("stage", "target") =>
                      dirs'["target"] = dirs["stage"] /\ Removed("stage") /\ Same("backup")
                 /\ Rename("backup", "target") \/ UNCHANGED dirs => Same("stage")
  <2>1. ASSUME Rename("stage", "target")
        PROVE  DirsOK' /\ dirs'["target"] = dirs["stage"] /\ Removed("stage") /\ Same("backup")
    BY <1>4, <1>5, <2>1, RenameEffect DEF Names
  <2>2. ASSUME Rename("backup", "target")
        PROVE  DirsOK' /\ dirs'["target"] = dirs["backup"] /\ Removed("backup") /\ Same("stage")
    BY <1>4, <1>5, <2>2, RenameEffect DEF Names
  <2>3. ASSUME UNCHANGED dirs PROVE DirsOK' /\ \A d \in Names : Same(d)
    BY <1>4, <1>5, <2>3 DEF DirsOK, Exists, Same
  <2> QED BY <2>1, <2>2, <2>3 DEF RecoverBackedUp, Names
<1>8. JournalOK' /\ UNCHANGED journal
  BY <1>4 DEF RecoverBackedUp, JournalOK
<1>9. BoundsOK' /\ UNCHANGED <<errors, crashes>> BY <1>4, BoundsStay DEF RecoverBackedUp, bounds
<1>10. TypeOK' BY <1>6, <1>7, <1>8, <1>9, Types
<1> QED BY <1>1, <1>2, <1>3, <1>6, <1>7, <1>8, <1>9, <1>10 DEF RecoverBackedUp

\* The stage becomes the target, of the version of the journal.
LEMMA SwitchKeeps == ASSUME IInv, Switch PROVE IInv'
<1> USE DEF IInv
<1>1. ASSUME TypeOK', Moves("switch", "activate"), dirs'["target"] = dirs["stage"],
            Removed("stage"), Same("backup"), UNCHANGED <<journal, errors, crashes>>
      PROVE  IInv'
  <2> USE <1>1
  <2>1. Contents /\ Contents' /\ errors \in Nat /\ crashes \in Nat BY ContentsMean, Counts
  <2>2. StagePresent' BY <2>1 DEF StagePresent
  <2>3. ASSUME Tame' PROVE Sound'
    <3>1. Tame /\ Sound BY <2>1, <2>3
    <3> QED BY <2>1, <2>3, <3>1 DEF PhaseMeans, PhaseOf, PlaceMeans, CommitsClosed,
                UndoMeans, StagePresent
  <2> QED BY <2>2, <2>3
<1>2. DirsOK /\ JournalOK /\ RunOK /\ BoundsOK BY Types
<1>3. "switch" \in Pcs /\ "activate" \in Pcs BY DEF Pcs, Discarding, Reporting
<1>4. RunOK' /\ Moves("switch", "activate")
  BY <1>2, <1>3, GotoEffect DEF Switch
<1>5. DirsOK' /\ dirs'["target"] = dirs["stage"] /\ Removed("stage") /\ Same("backup")
  BY <1>2, RenameEffect DEF Switch, Names
<1>6. JournalOK' /\ UNCHANGED journal
  BY <1>2 DEF Switch, JournalOK
<1>7. BoundsOK' /\ UNCHANGED <<errors, crashes>> BY <1>2, BoundsStay DEF Switch, bounds
<1>8. TypeOK' BY <1>4, <1>5, <1>6, <1>7, Types
<1> QED BY <1>1, <1>4, <1>5, <1>6, <1>7, <1>8

\* A new operation first brings the backup back when there is no target.
LEMMA DiscardRestoreKeeps == ASSUME IInv, DiscardRestore PROVE IInv'
<1> USE DEF IInv
<1>1. ASSUME TypeOK', Moves("discard", "discardStage"), Exists("backup"), ~Exists("target"),
            dirs'["target"] = dirs["backup"], Removed("backup"), Same("stage"),
            UNCHANGED <<journal, errors, crashes>>
      PROVE  IInv'
  <2> USE <1>1
  <2>1. Contents /\ Contents' /\ errors \in Nat /\ crashes \in Nat BY ContentsMean, Counts
  <2>2. StagePresent' BY <2>1 DEF StagePresent
  <2>3. ASSUME Tame' PROVE Sound'
    <3>1. Tame /\ Sound BY <2>1, <2>3
    <3> QED BY <2>1, <2>3, <3>1 DEF PhaseMeans, PhaseOf, PlaceMeans, CommitsClosed,
                UndoMeans, StagePresent
  <2> QED BY <2>2, <2>3
<1>2. ASSUME TypeOK', Moves("discard", "discardStage"),
            Exists("target") \/ ~Exists("backup"),
            UNCHANGED <<dirs, journal, errors, crashes>>
      PROVE  IInv'
  <2> USE <1>2
  <2>1. Contents /\ Contents' /\ errors \in Nat /\ crashes \in Nat BY ContentsMean, Counts
  <2>2. StagePresent' BY <2>1 DEF StagePresent
  <2>3. ASSUME Tame' PROVE Sound'
    <3>1. Tame /\ Sound BY <2>1, <2>3
    <3> QED BY <2>1, <2>3, <3>1 DEF PhaseMeans, PhaseOf, PlaceMeans, CommitsClosed,
                UndoMeans, StagePresent
  <2> QED BY <2>2, <2>3
<1>3. DirsOK /\ JournalOK /\ RunOK /\ BoundsOK BY Types
<1>4. "discard" \in Pcs /\ "discardStage" \in Pcs BY DEF Pcs, Discarding, Reporting
<1>5. RunOK' /\ Moves("discard", "discardStage")
  BY <1>3, <1>4, GotoEffect DEF DiscardRestore
<1>6. DirsOK' /\ \/ /\ Exists("backup") /\ ~Exists("target")
                    /\ dirs'["target"] = dirs["backup"] /\ Removed("backup") /\ Same("stage")
                 \/ (Exists("target") \/ ~Exists("backup")) /\ UNCHANGED dirs
  <2>1. ASSUME Rename("backup", "target")
        PROVE  DirsOK' /\ dirs'["target"] = dirs["backup"] /\ Removed("backup") /\ Same("stage")
    BY <1>3, <1>4, <2>1, RenameEffect DEF Names
  <2>2. ASSUME UNCHANGED dirs PROVE DirsOK' /\ \A d \in Names : Same(d)
    BY <1>3, <1>4, <2>2 DEF DirsOK, Exists, Same
  <2> QED BY <2>1, <2>2 DEF DiscardRestore, Names
<1>7. JournalOK' /\ UNCHANGED journal
  BY <1>3 DEF DiscardRestore, JournalOK
<1>8. BoundsOK' /\ UNCHANGED <<errors, crashes>> BY <1>3, BoundsStay DEF DiscardRestore, bounds
<1>9. TypeOK' BY <1>5, <1>6, <1>7, <1>8, Types
<1> QED BY <1>1, <1>2, <1>5, <1>6, <1>7, <1>8, <1>9

\* The backup comes back when there is no target.
LEMMA RestoreKeeps == ASSUME IInv, Restore PROVE IInv'
<1> USE DEF IInv
<1>1. ASSUME TypeOK', Moves("restore", "rolledBack"), Exists("backup"), ~Exists("target"),
            dirs'["target"] = dirs["backup"], Removed("backup"), Same("stage"),
            UNCHANGED <<journal, errors, crashes>>
      PROVE  IInv'
  <2> USE <1>1
  <2>1. Contents /\ Contents' /\ errors \in Nat /\ crashes \in Nat BY ContentsMean, Counts
  <2>2. StagePresent' BY <2>1 DEF StagePresent
  <2>3. ASSUME Tame' PROVE Sound'
    <3>1. Tame /\ Sound BY <2>1, <2>3
    <3> QED BY <2>1, <2>3, <3>1 DEF PhaseMeans, PhaseOf, PlaceMeans, CommitsClosed,
                UndoMeans, StagePresent
  <2> QED BY <2>2, <2>3
<1>2. ASSUME TypeOK', Moves("restore", "rolledBack"), Exists("target") \/ ~Exists("backup"),
            UNCHANGED <<dirs, journal, errors, crashes>>
      PROVE  IInv'
  <2> USE <1>2
  <2>1. Contents /\ Contents' /\ errors \in Nat /\ crashes \in Nat BY ContentsMean, Counts
  <2>2. StagePresent' BY <2>1 DEF StagePresent
  <2>3. ASSUME Tame' PROVE Sound'
    <3>1. Tame /\ Sound BY <2>1, <2>3
    <3> QED BY <2>1, <2>3, <3>1 DEF PhaseMeans, PhaseOf, PlaceMeans, CommitsClosed,
                UndoMeans, StagePresent
  <2> QED BY <2>2, <2>3
<1>3. DirsOK /\ JournalOK /\ RunOK /\ BoundsOK BY Types
<1>4. "restore" \in Pcs /\ "rolledBack" \in Pcs BY DEF Pcs, Discarding, Reporting
<1>5. RunOK' /\ Moves("restore", "rolledBack")
  BY <1>3, <1>4, GotoEffect DEF Restore
<1>6. DirsOK' /\ \/ /\ Exists("backup") /\ ~Exists("target")
                    /\ dirs'["target"] = dirs["backup"] /\ Removed("backup") /\ Same("stage")
                 \/ (Exists("target") \/ ~Exists("backup")) /\ UNCHANGED dirs
  <2>1. ASSUME Rename("backup", "target")
        PROVE  DirsOK' /\ dirs'["target"] = dirs["backup"] /\ Removed("backup") /\ Same("stage")
    BY <1>3, <1>4, <2>1, RenameEffect DEF Names
  <2>2. ASSUME UNCHANGED dirs PROVE DirsOK' /\ \A d \in Names : Same(d)
    BY <1>3, <1>4, <2>2 DEF DirsOK, Exists, Same
  <2> QED BY <2>1, <2>2 DEF Restore, Names
<1>7. JournalOK' /\ UNCHANGED journal
  BY <1>3 DEF Restore, JournalOK
<1>8. BoundsOK' /\ UNCHANGED <<errors, crashes>> BY <1>3, BoundsStay DEF Restore, bounds
<1>9. TypeOK' BY <1>5, <1>6, <1>7, <1>8, Types
<1> QED BY <1>1, <1>2, <1>5, <1>6, <1>7, <1>8, <1>9

\* The target becomes the backup: between the two renames both are good.
LEMMA BackUpKeeps == ASSUME IInv, BackUp PROVE IInv'
<1> USE DEF IInv
<1>1. ASSUME TypeOK', Moves("backup", "backedUp"), Exists("target"),
            dirs'["backup"] = dirs["target"], Removed("target"), Same("stage"),
            UNCHANGED <<journal, errors, crashes>>
      PROVE  IInv'
  <2> USE <1>1
  <2>1. Contents /\ Contents' /\ errors \in Nat /\ crashes \in Nat BY ContentsMean, Counts
  <2>2. StagePresent' BY <2>1 DEF StagePresent
  <2>3. ASSUME Tame' PROVE Sound'
    <3>1. Tame /\ Sound BY <2>1, <2>3
    <3> QED BY <2>1, <2>3, <3>1 DEF PhaseMeans, PhaseOf, PlaceMeans, CommitsClosed,
                UndoMeans, StagePresent
  <2> QED BY <2>2, <2>3
<1>2. ASSUME TypeOK', Moves("backup", "backedUp"), ~Exists("target"),
            UNCHANGED <<dirs, journal, errors, crashes>>
      PROVE  IInv'
  <2> USE <1>2
  <2>1. Contents /\ Contents' /\ errors \in Nat /\ crashes \in Nat BY ContentsMean, Counts
  <2>2. StagePresent' BY <2>1 DEF StagePresent
  <2>3. ASSUME Tame' PROVE Sound'
    <3>1. Tame /\ Sound BY <2>1, <2>3
    <3> QED BY <2>1, <2>3, <3>1 DEF PhaseMeans, PhaseOf, PlaceMeans, CommitsClosed,
                UndoMeans, StagePresent
  <2> QED BY <2>2, <2>3
<1>3. DirsOK /\ JournalOK /\ RunOK /\ BoundsOK BY Types
<1>4. "backup" \in Pcs /\ "backedUp" \in Pcs BY DEF Pcs, Discarding, Reporting
<1>5. RunOK' /\ Moves("backup", "backedUp")
  BY <1>3, <1>4, GotoEffect DEF BackUp
<1>6. DirsOK' /\ \/ /\ Exists("target")
                    /\ dirs'["backup"] = dirs["target"] /\ Removed("target") /\ Same("stage")
                 \/ ~Exists("target") /\ UNCHANGED dirs
  <2>1. ASSUME Rename("target", "backup")
        PROVE  DirsOK' /\ dirs'["backup"] = dirs["target"] /\ Removed("target") /\ Same("stage")
    BY <1>3, <1>4, <2>1, RenameEffect DEF Names
  <2>2. ASSUME UNCHANGED dirs PROVE DirsOK' /\ \A d \in Names : Same(d)
    BY <1>3, <1>4, <2>2 DEF DirsOK, Exists, Same
  <2> QED BY <2>1, <2>2 DEF BackUp, Names
<1>7. JournalOK' /\ UNCHANGED journal
  BY <1>3 DEF BackUp, JournalOK
<1>8. BoundsOK' /\ UNCHANGED <<errors, crashes>> BY <1>3, BoundsStay DEF BackUp, bounds
<1>9. TypeOK' BY <1>5, <1>6, <1>7, <1>8, Types
<1> QED BY <1>1, <1>2, <1>5, <1>6, <1>7, <1>8, <1>9

\* The archive comes from the net or from the cache.
LEMMA FetchKeeps == ASSUME IInv, Fetch PROVE IInv'
<1> USE DEF IInv
<1>1. ASSUME TypeOK', Moves("fetch", "download"), Marks("downloading"),
            UNCHANGED <<dirs, errors, crashes>>
      PROVE  IInv'
  <2> USE <1>1
  <2>1. Contents /\ Contents' /\ errors \in Nat /\ crashes \in Nat BY ContentsMean, Counts
  <2>2. StagePresent' BY <2>1 DEF StagePresent
  <2>3. ASSUME Tame' PROVE Sound'
    <3>1. Tame /\ Sound BY <2>1, <2>3
    <3> QED BY <2>1, <2>3, <3>1 DEF PhaseMeans, PhaseOf, PlaceMeans, CommitsClosed,
                UndoMeans, StagePresent
  <2> QED BY <2>2, <2>3
<1>2. ASSUME TypeOK', Moves("fetch", "extract"), Marks("archive_verified"),
            UNCHANGED <<dirs, errors, crashes>>
      PROVE  IInv'
  <2> USE <1>2
  <2>1. Contents /\ Contents' /\ errors \in Nat /\ crashes \in Nat BY ContentsMean, Counts
  <2>2. StagePresent' BY <2>1 DEF StagePresent
  <2>3. ASSUME Tame' PROVE Sound'
    <3>1. Tame /\ Sound BY <2>1, <2>3
    <3> QED BY <2>1, <2>3, <3>1 DEF PhaseMeans, PhaseOf, PlaceMeans, CommitsClosed,
                UndoMeans, StagePresent
  <2> QED BY <2>2, <2>3
<1>3. "fetch" \in Pcs /\ "download" \in Pcs /\ "extract" \in Pcs /\ "downloading" \in Phases /\ "archive_verified" \in Phases
  BY DEF Pcs, Phases, Committing, Closed, Reporting, Discarding
<1>4. ASSUME Write("fetch", "downloading", "download") PROVE IInv'
  <2>1. TypeOK' /\ Moves("fetch", "download") /\ Marks("downloading") /\ UNCHANGED <<dirs, errors, crashes>>
    BY <1>3, <1>4, WriteEffect
  <2> QED BY <1>1, <2>1
<1>5. ASSUME Write("fetch", "archive_verified", "extract") PROVE IInv'
  <2>1. TypeOK' /\ Moves("fetch", "extract") /\ Marks("archive_verified") /\ UNCHANGED <<dirs, errors, crashes>>
    BY <1>3, <1>5, WriteEffect
  <2> QED BY <1>2, <2>1
<1> QED BY <1>4, <1>5 DEF Fetch

\* The installer records how the operation ended.
LEMMA ReportKeeps == ASSUME IInv, Report PROVE IInv'
<1> USE DEF IInv
<1>1. ASSUME TypeOK', Stops("failed"), Marks("failed"), UNCHANGED <<dirs, errors, crashes>>
      PROVE  IInv'
  <2> USE <1>1
  <2>1. Contents /\ Contents' /\ errors \in Nat /\ crashes \in Nat BY ContentsMean, Counts
  <2>2. StagePresent' BY <2>1 DEF StagePresent, Recognized
  <2>3. ASSUME Tame' PROVE Sound'
    <3>1. Tame /\ Sound BY <2>1, <2>3
    <3> QED BY <2>1, <2>3, <3>1 DEF PhaseMeans, PhaseOf, PlaceMeans, CommitsClosed,
                UndoMeans, StagePresent, Recognized
  <2> QED BY <2>2, <2>3
<1>2. ASSUME TypeOK', Stops("cancelled"), Marks("cancelled"),
            UNCHANGED <<dirs, errors, crashes>>
      PROVE  IInv'
  <2> USE <1>2
  <2>1. Contents /\ Contents' /\ errors \in Nat /\ crashes \in Nat BY ContentsMean, Counts
  <2>2. StagePresent' BY <2>1 DEF StagePresent, Recognized
  <2>3. ASSUME Tame' PROVE Sound'
    <3>1. Tame /\ Sound BY <2>1, <2>3
    <3> QED BY <2>1, <2>3, <3>1 DEF PhaseMeans, PhaseOf, PlaceMeans, CommitsClosed,
                UndoMeans, StagePresent, Recognized
  <2> QED BY <2>2, <2>3
<1>3. ASSUME TypeOK', Stops("credentials"), Marks("waiting_for_credentials"),
            UNCHANGED <<dirs, errors, crashes>>
      PROVE  IInv'
  <2> USE <1>3
  <2>1. Contents /\ Contents' /\ errors \in Nat /\ crashes \in Nat BY ContentsMean, Counts
  <2>2. StagePresent' BY <2>1 DEF StagePresent, Recognized
  <2>3. ASSUME Tame' PROVE Sound'
    <3>1. Tame /\ Sound BY <2>1, <2>3
    <3> QED BY <2>1, <2>3, <3>1 DEF PhaseMeans, PhaseOf, PlaceMeans, CommitsClosed,
                UndoMeans, StagePresent, Recognized
  <2> QED BY <2>2, <2>3
<1>4. "failed" \in Pcs /\ "cancelled" \in Pcs /\ "credentials" \in Pcs /\ "idle" \in Pcs /\ "failed" \in Phases /\ "cancelled" \in Phases /\ "waiting_for_credentials" \in Phases
  BY DEF Pcs, Phases, Committing, Closed, Reporting, Discarding
<1>5. ASSUME Write("failed", "failed", "idle") PROVE IInv'
  <2>1. TypeOK' /\ Stops("failed") /\ Marks("failed") /\ UNCHANGED <<dirs, errors, crashes>>
    BY <1>4, <1>5, WriteEffect
  <2> QED BY <1>1, <2>1
<1>6. ASSUME Write("cancelled", "cancelled", "idle") PROVE IInv'
  <2>1. TypeOK' /\ Stops("cancelled") /\ Marks("cancelled") /\ UNCHANGED <<dirs, errors, crashes>>
    BY <1>4, <1>6, WriteEffect
  <2> QED BY <1>2, <2>1
<1>7. ASSUME Write("credentials", "waiting_for_credentials", "idle") PROVE IInv'
  <2>1. TypeOK' /\ Stops("credentials") /\ Marks("waiting_for_credentials") /\ UNCHANGED <<dirs, errors, crashes>>
    BY <1>4, <1>7, WriteEffect
  <2> QED BY <1>3, <2>1
<1> QED BY <1>5, <1>6, <1>7 DEF Report

\* The new target goes when the backup is good, or is the old one.
LEMMA RollBackKeeps == ASSUME IInv, RollBack PROVE IInv'
<1> USE DEF IInv
<1>1. ASSUME TypeOK', run.pc = "rollback", InPart("target"), UNCHANGED run, Undoable,
            Same("stage"), Same("backup"), UNCHANGED <<journal, errors, crashes>>
      PROVE  IInv'
  <2> USE <1>1
  <2>1. Contents /\ Contents' /\ errors \in Nat /\ crashes \in Nat BY ContentsMean, Counts
  <2>2. StagePresent' BY <2>1 DEF StagePresent
  <2>3. ASSUME Tame' PROVE Sound'
    <3>1. Tame /\ Sound BY <2>1, <2>3
    <3> QED BY <2>1, <2>3, <3>1 DEF PhaseMeans, PhaseOf, PlaceMeans, CommitsClosed,
                UndoMeans, StagePresent
  <2> QED BY <2>2, <2>3
<1>2. ASSUME TypeOK', Moves("rollback", "restore"), Removed("target"), Undoable,
            Same("stage"), Same("backup"), UNCHANGED <<journal, errors, crashes>>
      PROVE  IInv'
  <2> USE <1>2
  <2>1. Contents /\ Contents' /\ errors \in Nat /\ crashes \in Nat BY ContentsMean, Counts
  <2>2. StagePresent' BY <2>1 DEF StagePresent
  <2>3. ASSUME Tame' PROVE Sound'
    <3>1. Tame /\ Sound BY <2>1, <2>3
    <3> QED BY <2>1, <2>3, <3>1 DEF PhaseMeans, PhaseOf, PlaceMeans, CommitsClosed,
                UndoMeans, StagePresent
  <2> QED BY <2>2, <2>3
<1>3. ASSUME TypeOK', Moves("rollback", "restore"), ~Undoable,
            UNCHANGED <<dirs, journal, errors, crashes>>
      PROVE  IInv'
  <2> USE <1>3
  <2>1. Contents /\ Contents' /\ errors \in Nat /\ crashes \in Nat BY ContentsMean, Counts
  <2>2. StagePresent' BY <2>1 DEF StagePresent
  <2>3. ASSUME Tame' PROVE Sound'
    <3>1. Tame /\ Sound BY <2>1, <2>3
    <3> QED BY <2>1, <2>3, <3>1 DEF PhaseMeans, PhaseOf, PlaceMeans, CommitsClosed,
                UndoMeans, StagePresent
  <2> QED BY <2>2, <2>3
<1>4. "rollback" \in Pcs /\ "restore" \in Pcs \ {"idle"} /\ "target" \in Names BY DEF Pcs, Names
<1>5. CASE Undoable
  <2>1. /\ TypeOK' /\ UNCHANGED <<journal, errors, crashes>>
        /\ \A e \in Names \ {"target"} : Same(e)
        /\ \/ InPart("target") /\ UNCHANGED run
           \/ Removed("target") /\ Moves("rollback", "restore")
    BY <1>4, <1>5, ClearEffect DEF RollBack
  <2> QED BY <1>1, <1>2, <1>5, <2>1 DEF RollBack, At, Names
<1>6. CASE ~Undoable
  <2>1. DirsOK /\ JournalOK /\ RunOK /\ BoundsOK BY Types
  <2>2. RunOK' /\ Moves("rollback", "restore") BY <1>4, <1>6, <2>1, GotoEffect DEF RollBack
  <2>3. DirsOK' /\ JournalOK' /\ BoundsOK' /\ UNCHANGED <<dirs, journal, errors, crashes>>
    BY <1>6, <2>1, BoundsStay DEF RollBack, DirsOK, Exists, JournalOK, bounds
  <2> QED BY <1>3, <1>6, <2>2, <2>3, Types
<1> QED BY <1>5, <1>6

\* The user starts an installation; one that is under way is taken up again.
LEMMA InstallKeeps == ASSUME IInv, NEW v \in Builds, Install(v) PROVE IInv'
<1> USE DEF IInv
<1>1. ASSUME TypeOK', run.pc = "idle", Recognized, run'.pc = "opened", SameOperation(v),
            run'.version = v, run'.user, ~run'.recovering,
            UNCHANGED <<dirs, journal, errors, crashes>>
      PROVE  IInv'
  <2> USE <1>1
  <2>1. Contents /\ Contents' /\ errors \in Nat /\ crashes \in Nat BY ContentsMean, Counts
  <2>2. StagePresent' BY <2>1 DEF StagePresent, Recognized, SameOperation
  <2>3. ASSUME Tame' PROVE Sound'
    <3>1. Tame /\ Sound BY <2>1, <2>3
    <3> QED BY <2>1, <2>3, <3>1 DEF PhaseMeans, PhaseOf, PlaceMeans, CommitsClosed,
                UndoMeans, StagePresent, Recognized, SameOperation
  <2> QED BY <2>2, <2>3
<1>2. ASSUME TypeOK', run.pc = "idle", Recognized, run'.pc = "discard",
            journal.phase \notin Committing, run'.version = v, run'.user, ~run'.recovering,
            UNCHANGED <<dirs, journal, errors, crashes>>
      PROVE  IInv'
  <2> USE <1>2
  <2>1. Contents /\ Contents' /\ errors \in Nat /\ crashes \in Nat BY ContentsMean, Counts
  <2>2. StagePresent' BY <2>1 DEF StagePresent, Recognized, SameOperation
  <2>3. ASSUME Tame' PROVE Sound'
    <3>1. Tame /\ Sound BY <2>1, <2>3
    <3> QED BY <2>1, <2>3, <3>1 DEF PhaseMeans, PhaseOf, PlaceMeans, CommitsClosed,
                UndoMeans, StagePresent, Recognized, SameOperation
  <2> QED BY <2>2, <2>3
<1> QED BY <1>1, <1>2, OpenEffect DEF Install, At

\* The start of the program takes up the operation of the journal, or leaves it.
LEMMA ResumePendingKeeps == ASSUME IInv, ResumePending PROVE IInv'
<1> USE DEF IInv
<1>1. ASSUME TypeOK', run.pc = "start", journal.phase \notin Closed, run'.pc = "opened",
            run'.version = journal.version, ~run'.user, ~run'.recovering,
            UNCHANGED <<dirs, journal, errors, crashes>>
      PROVE  IInv'
  <2> USE <1>1
  <2>1. Contents /\ Contents' /\ errors \in Nat /\ crashes \in Nat BY ContentsMean, Counts
  <2>2. StagePresent' BY <2>1 DEF StagePresent, Recognized
  <2>3. ASSUME Tame' PROVE Sound'
    <3>1. Tame /\ Sound BY <2>1, <2>3
    <3> QED BY <2>1, <2>3, <3>1 DEF PhaseMeans, PhaseOf, PlaceMeans, CommitsClosed,
                UndoMeans, StagePresent, Recognized
  <2> QED BY <2>2, <2>3
<1>2. ASSUME TypeOK', Stops("start"), journal.phase \notin Committing \/ ~Recognized,
            UNCHANGED <<dirs, journal, errors, crashes>>
      PROVE  IInv'
  <2> USE <1>2
  <2>1. Contents /\ Contents' /\ errors \in Nat /\ crashes \in Nat BY ContentsMean, Counts
  <2>2. StagePresent' BY <2>1 DEF StagePresent, Recognized
  <2>3. ASSUME Tame' PROVE Sound'
    <3>1. Tame /\ Sound BY <2>1, <2>3
    <3> QED BY <2>1, <2>3, <3>1 DEF PhaseMeans, PhaseOf, PlaceMeans, CommitsClosed,
                UndoMeans, StagePresent, Recognized
  <2> QED BY <2>2, <2>3
<1>3. CASE journal.phase \notin Closed /\ Open(journal.version, FALSE)
  <2>1. journal.version \in Builds \cup {NoBuild} BY Types DEF JournalOK
  <2>2. SameOperation(journal.version) BY <1>3 DEF SameOperation, Closed
  <2> QED BY <1>1, <1>3, <2>1, <2>2, OpenEffect DEF ResumePending, At
<1>4. CASE /\ journal.phase \in Closed \cup {"waiting_for_credentials"} \/ ~Recognized
           /\ Goto("idle") /\ UNCHANGED <<dirs, journal, bounds>>
  <2>1. RunOK /\ BoundsOK /\ BoundsOK' BY <1>4, Types, BoundsStay
  <2>2. RunOK' /\ Stops("start")
    BY <1>4, <2>1, GotoEffect DEF ResumePending, Pcs
  <2>3. TypeOK' BY <1>4, <2>1, <2>2, Untouched
  <2>4. journal.phase \notin Committing \/ ~Recognized BY <1>4 DEF Closed, Committing
  <2> QED BY <1>2, <1>4, <2>2, <2>3, <2>4 DEF bounds
<1> QED BY <1>3, <1>4 DEF ResumePending

\* Something fails for the first time, in a process that has not died.
LEMMA FailKeeps == ASSUME IInv, Fail PROVE IInv'
<1> USE DEF IInv
<1>1. ASSUME TypeOK', run.pc \in Discarding \cup Reporting, Stops(run.pc),
            errors' = errors + 1, crashes' = crashes, UNCHANGED <<dirs, journal>>
      PROVE  IInv'
  <2> USE <1>1
  <2>1. Contents /\ Contents' /\ errors \in Nat /\ crashes \in Nat BY ContentsMean, Counts
  <2>2. StagePresent' BY <2>1 DEF StagePresent, Recognized
  <2>3. ASSUME Tame' PROVE Sound'
    <3>1. Tame /\ Sound /\ errors = 0 /\ crashes = 0 BY <2>1, <2>3
    <3> QED BY <2>1, <2>3, <3>1 DEF PhaseMeans, PhaseOf, PlaceMeans, CommitsClosed,
                UndoMeans, StagePresent, Recognized
  <2> QED BY <2>2, <2>3
<1>2. ASSUME TypeOK', Moves("check", "extract"), errors' = errors + 1, crashes' = crashes,
            UNCHANGED <<dirs, journal>>
      PROVE  IInv'
  <2> USE <1>2
  <2>1. Contents /\ Contents' /\ errors \in Nat /\ crashes \in Nat BY ContentsMean, Counts
  <2>2. StagePresent' BY <2>1 DEF StagePresent, Recognized
  <2>3. ASSUME Tame' PROVE Sound'
    <3>1. Tame /\ Sound /\ errors = 0 /\ crashes = 0 BY <2>1, <2>3
    <3> QED BY <2>1, <2>3, <3>1 DEF PhaseMeans, PhaseOf, PlaceMeans, CommitsClosed,
                UndoMeans, StagePresent, Recognized
  <2> QED BY <2>2, <2>3
<1>3. ASSUME TypeOK', run.pc \in {"backup", "backedUp", "switch", "verify"},
            Moves(run.pc, "rollback"), errors' = errors + 1, crashes' = crashes,
            UNCHANGED <<dirs, journal>>
      PROVE  IInv'
  <2> USE <1>3
  <2>1. Contents /\ Contents' /\ errors \in Nat /\ crashes \in Nat BY ContentsMean, Counts
  <2>2. StagePresent' BY <2>1 DEF StagePresent, Recognized
  <2>3. ASSUME Tame' PROVE Sound'
    <3>1. Tame /\ Sound /\ errors = 0 /\ crashes = 0 BY <2>1, <2>3
    <3>2. PhaseMeans' BY <2>1, <2>3, <3>1 DEF PhaseMeans, PhaseOf, PlaceMeans,
          CommitsClosed, UndoMeans, StagePresent, Recognized
    <3>3. PhaseOf' BY <2>1, <2>3, <3>1 DEF PhaseMeans, PhaseOf, PlaceMeans, CommitsClosed,
          UndoMeans, StagePresent, Recognized
    <3>4. PlaceMeans' BY <2>1, <2>3, <3>1 DEF PhaseMeans, PhaseOf, PlaceMeans,
          CommitsClosed, UndoMeans, StagePresent, Recognized
    <3>5. CommitsClosed' BY <2>1, <2>3, <3>1 DEF PhaseMeans, PhaseOf, PlaceMeans,
          CommitsClosed, UndoMeans, Recognized
    <3>6. UndoMeans' BY <2>1, <2>3, <3>1 DEF PhaseMeans, PhaseOf, PlaceMeans, CommitsClosed,
          UndoMeans, Recognized
    <3> QED BY <3>2, <3>3, <3>4, <3>5, <3>6
  <2> QED BY <2>2, <2>3
<1>4. ASSUME TypeOK', run.recovering, Moves("activate", "failed"), errors' = errors + 1,
            crashes' = crashes, UNCHANGED <<dirs, journal>>
      PROVE  IInv'
  <2> USE <1>4
  <2>1. Contents /\ Contents' /\ errors \in Nat /\ crashes \in Nat BY ContentsMean, Counts
  <2>2. StagePresent' BY <2>1 DEF StagePresent, Recognized
  <2>3. ASSUME Tame' PROVE Sound'
    <3>1. Tame /\ Sound /\ errors = 0 /\ crashes = 0 BY <2>1, <2>3
    <3> QED BY <2>1, <2>3, <3>1 DEF PhaseMeans, PhaseOf, PlaceMeans, CommitsClosed,
                UndoMeans, StagePresent, Recognized
  <2> QED BY <2>2, <2>3
<1>5. ASSUME TypeOK', ~run.recovering, Moves("activate", "rollback"), errors' = errors + 1,
            crashes' = crashes, UNCHANGED <<dirs, journal>>
      PROVE  IInv'
  <2> USE <1>5
  <2>1. Contents /\ Contents' /\ errors \in Nat /\ crashes \in Nat BY ContentsMean, Counts
  <2>2. StagePresent' BY <2>1 DEF StagePresent, Recognized
  <2>3. ASSUME Tame' PROVE Sound'
    <3>1. Tame /\ Sound /\ errors = 0 /\ crashes = 0 BY <2>1, <2>3
    <3>2. PhaseMeans' BY <2>1, <2>3, <3>1 DEF PhaseMeans, PhaseOf, PlaceMeans,
          CommitsClosed, UndoMeans, StagePresent, Recognized
    <3>3. PhaseOf' BY <2>1, <2>3, <3>1 DEF PhaseMeans, PhaseOf, PlaceMeans, CommitsClosed,
          UndoMeans, StagePresent, Recognized
    <3>4. PlaceMeans' BY <2>1, <2>3, <3>1 DEF PhaseMeans, PhaseOf, PlaceMeans,
          CommitsClosed, UndoMeans, StagePresent, Recognized
    <3>5. CommitsClosed' BY <2>1, <2>3, <3>1 DEF PhaseMeans, PhaseOf, PlaceMeans,
          CommitsClosed, UndoMeans, Recognized
    <3>6. UndoMeans' BY <2>1, <2>3, <3>1 DEF PhaseMeans, PhaseOf, PlaceMeans, CommitsClosed,
          UndoMeans, Recognized
    <3> QED BY <3>2, <3>3, <3>4, <3>5, <3>6
  <2> QED BY <2>2, <2>3
<1>6. ASSUME TypeOK',
            run.pc \notin {"idle", "start", "check", "backup", "backedUp", "switch", "verify", "activate"} \cup Discarding \cup Reporting,
            Moves(run.pc, "failed"), errors' = errors + 1, crashes' = crashes,
            UNCHANGED <<dirs, journal>>
      PROVE  IInv'
  <2> USE <1>6
  <2>1. Contents /\ Contents' /\ errors \in Nat /\ crashes \in Nat BY ContentsMean, Counts
  <2>2. StagePresent' BY <2>1 DEF StagePresent, Recognized
  <2>3. ASSUME Tame' PROVE Sound'
    <3>1. Tame /\ Sound /\ errors = 0 /\ crashes = 0 BY <2>1, <2>3
    <3>2. PhaseMeans' BY <2>1, <2>3, <3>1 DEF PhaseMeans, PhaseOf, PlaceMeans,
          CommitsClosed, UndoMeans, StagePresent, Recognized
    <3>3. PhaseOf' BY <2>1, <2>3, <3>1 DEF PhaseMeans, PhaseOf, PlaceMeans, CommitsClosed,
          UndoMeans, StagePresent, Recognized
    <3>4. PlaceMeans' BY <2>1, <2>3, <3>1 DEF PhaseMeans, PhaseOf, PlaceMeans,
          CommitsClosed, UndoMeans, StagePresent, Recognized
    <3>5. CommitsClosed' BY <2>1, <2>3, <3>1 DEF PhaseMeans, PhaseOf, PlaceMeans,
          CommitsClosed, UndoMeans, Recognized
    <3>6. UndoMeans' BY <2>1, <2>3, <3>1 DEF PhaseMeans, PhaseOf, PlaceMeans, CommitsClosed,
          UndoMeans, Recognized
    <3> QED BY <3>2, <3>3, <3>4, <3>5, <3>6
  <2> QED BY <2>2, <2>3
<1>7. /\ run.pc \notin {"idle", "start"} /\ errors < budget.errors /\ errors' = errors + 1
      /\ Goto(OnError) /\ UNCHANGED <<dirs, journal, cancels, crashes, budget>>
  BY DEF Fail
<1>8. DirsOK /\ JournalOK /\ RunOK /\ BoundsOK BY Types
<1>9. BoundsOK' BY <1>7, <1>8, InstallAssumption DEF BoundsOK
<1>10. run.pc \in Pcs BY <1>8 DEF RunOK
<1>11. ASSUME NEW next \in Pcs, OnError = next
       PROVE  /\ TypeOK'
              /\ next # "idle" => Moves(run.pc, next)
              /\ next = "idle" => Stops(run.pc)
  BY <1>7, <1>8, <1>9, <1>10, <1>11, GotoEffect, Untouched DEF At
<1>12. /\ "idle" \in Pcs /\ "extract" \in Pcs /\ "rollback" \in Pcs /\ "failed" \in Pcs
       /\ "idle" \notin {"extract", "rollback", "failed"}
  BY DEF Pcs, Reporting
<1>13. CASE run.pc \in Discarding \cup Reporting
  <2>1. OnError = "idle" BY <1>13 DEF OnError, Discarding, Reporting
  <2>2. TypeOK' /\ Stops(run.pc) BY <1>11, <1>12, <2>1
  <2> QED BY <1>1, <1>7, <1>13, <2>2
<1>14. CASE run.pc = "check"
  <2>1. OnError = "extract" BY <1>14 DEF OnError, Discarding, Reporting
  <2>2. TypeOK' /\ Moves(run.pc, "extract") BY <1>11, <1>12, <2>1
  <2> QED BY <1>2, <1>7, <1>14, <2>2
<1>15. CASE run.pc \in {"backup", "backedUp", "switch", "verify"}
  <2>1. OnError = "rollback" BY <1>15 DEF OnError, Discarding, Reporting
  <2>2. TypeOK' /\ Moves(run.pc, "rollback") BY <1>11, <1>12, <2>1
  <2> QED BY <1>3, <1>7, <1>15, <2>2
<1>16. CASE run.pc = "activate" /\ run.recovering
  <2>1. OnError = "failed" BY <1>16 DEF OnError, Discarding, Reporting
  <2>2. TypeOK' /\ Moves(run.pc, "failed") BY <1>11, <1>12, <2>1
  <2> QED BY <1>4, <1>7, <1>16, <2>2
<1>17. CASE run.pc = "activate" /\ ~run.recovering
  <2>1. OnError = "rollback" BY <1>17 DEF OnError, Discarding, Reporting
  <2>2. TypeOK' /\ Moves(run.pc, "rollback") BY <1>11, <1>12, <2>1
  <2> QED BY <1>5, <1>7, <1>17, <2>2
<1>18. CASE run.pc \notin {"idle", "start", "check", "backup", "backedUp", "switch", "verify", "activate"} \cup Discarding \cup Reporting
  <2>1. OnError = "failed" BY <1>18 DEF OnError, Discarding, Reporting
  <2>2. TypeOK' /\ Moves(run.pc, "failed") BY <1>11, <1>12, <2>1
  <2> QED BY <1>6, <1>7, <1>18, <2>2
<1> QED BY <1>7, <1>13, <1>14, <1>15, <1>16, <1>17, <1>18

\* The archive wants a password: so far no commit is open.
LEMMA NeedPasswordKeeps == ASSUME IInv, NeedPassword PROVE IInv'
<1> USE DEF IInv
<1>1. ASSUME TypeOK', Moves("unpacking", "credentials"), errors' = errors + 1,
            crashes' = crashes, UNCHANGED <<dirs, journal>>
      PROVE  IInv'
  <2> USE <1>1
  <2>1. Contents /\ Contents' /\ errors \in Nat /\ crashes \in Nat BY ContentsMean, Counts
  <2>2. StagePresent' BY <2>1 DEF StagePresent
  <2>3. ASSUME Tame' PROVE Sound'
    <3>1. Tame /\ Sound /\ errors = 0 /\ crashes = 0 BY <2>1, <2>3
    <3>2. PhaseMeans' BY <2>1, <2>3, <3>1 DEF PhaseMeans, PhaseOf, PlaceMeans,
          CommitsClosed, UndoMeans, StagePresent
    <3>3. PhaseOf' BY <2>1, <2>3, <3>1 DEF PhaseMeans, PhaseOf, PlaceMeans, CommitsClosed,
          UndoMeans, StagePresent
    <3>4. PlaceMeans' BY <2>1, <2>3, <3>1 DEF PhaseMeans, PhaseOf, PlaceMeans,
          CommitsClosed, UndoMeans, StagePresent
    <3>5. CommitsClosed' BY <2>1, <2>3, <3>1 DEF PhaseMeans, PhaseOf, PlaceMeans,
          CommitsClosed, UndoMeans
    <3>6. UndoMeans' BY <2>1, <2>3, <3>1 DEF PhaseMeans, PhaseOf, PlaceMeans, CommitsClosed,
          UndoMeans
    <3> QED BY <3>2, <3>3, <3>4, <3>5, <3>6
  <2> QED BY <2>2, <2>3
<1>2. DirsOK /\ JournalOK /\ RunOK /\ BoundsOK BY Types
<1>6. "unpacking" \in Pcs /\ "credentials" \in Pcs BY DEF Pcs
<1>3. RunOK' /\ Moves("unpacking", "credentials")
  BY <1>2, <1>6, GotoEffect DEF NeedPassword
<1>4. BoundsOK' BY <1>2, InstallAssumption DEF NeedPassword, BoundsOK
<1>5. TypeOK' BY <1>3, <1>4, Untouched DEF NeedPassword
<1> QED BY <1>1, <1>3, <1>5 DEF NeedPassword

\* The user stops the installation: so far no commit is open.
LEMMA CancelKeeps == ASSUME IInv, Cancel PROVE IInv'
<1> USE DEF IInv
<1>1. ASSUME TypeOK', run.user, Cancellable, Moves(run.pc, "cancelled"),
            UNCHANGED <<dirs, journal, errors, crashes>>
      PROVE  IInv'
  <2> USE <1>1
  <2>1. Contents /\ Contents' /\ errors \in Nat /\ crashes \in Nat BY ContentsMean, Counts
  <2>2. StagePresent' BY <2>1 DEF StagePresent, Cancellable, At
  <2>3. ASSUME Tame' PROVE Sound'
    <3>1. Tame /\ Sound BY <2>1, <2>3
    <3> QED BY <2>1, <2>3, <3>1 DEF PhaseMeans, PhaseOf, PlaceMeans, CommitsClosed,
                UndoMeans, StagePresent, Cancellable, At
  <2> QED BY <2>2, <2>3
<1>2. DirsOK /\ JournalOK /\ RunOK /\ BoundsOK BY Types
<1>6. run.pc \in Pcs /\ "cancelled" \in Pcs BY Types DEF RunOK, Pcs
<1>3. RunOK' /\ Moves(run.pc, "cancelled")
  BY <1>2, <1>6, GotoEffect DEF Cancel, At
<1>4. BoundsOK' BY <1>2, InstallAssumption DEF Cancel, BoundsOK
<1>5. TypeOK' BY <1>3, <1>4, Untouched DEF Cancel
<1> QED BY <1>1, <1>3, <1>5 DEF Cancel

\* The process dies: what each phase means does not depend on the step.
LEMMA CrashKeeps == ASSUME IInv, Crash PROVE IInv'
<1> USE DEF IInv
<1>1. ASSUME TypeOK', run.pc # "idle", run'.pc = "start", run'.version = NoBuild,
            ~run'.user, ~run'.recovering, crashes' = crashes + 1,
            UNCHANGED <<dirs, journal, errors>>
      PROVE  IInv'
  <2> USE <1>1
  <2>1. Contents /\ Contents' /\ errors \in Nat /\ crashes \in Nat BY ContentsMean, Counts
  <2>2. StagePresent' BY <2>1 DEF StagePresent
  <2>3. ASSUME Tame' PROVE Sound'
    <3>1. Tame /\ Sound /\ errors = 0 BY <2>1, <2>3
    <3>2. PhaseMeans' BY <2>1, <2>3, <3>1 DEF PhaseMeans, PhaseOf, PlaceMeans,
          CommitsClosed, UndoMeans, StagePresent
    <3>3. PhaseOf' BY <2>1, <2>3, <3>1 DEF PhaseMeans, PhaseOf, PlaceMeans, CommitsClosed,
          UndoMeans, StagePresent
    <3>4. PlaceMeans' BY <2>1, <2>3, <3>1 DEF PhaseMeans, PhaseOf, PlaceMeans,
          CommitsClosed, UndoMeans, StagePresent
    <3>5. CommitsClosed' BY <2>1, <2>3, <3>1 DEF PhaseMeans, PhaseOf, PlaceMeans,
          CommitsClosed, UndoMeans
    <3>6. UndoMeans' BY <2>1, <2>3, <3>1 DEF PhaseMeans, PhaseOf, PlaceMeans, CommitsClosed,
          UndoMeans
    <3> QED BY <3>2, <3>3, <3>4, <3>5, <3>6
  <2> QED BY <2>2, <2>3
<1>2. DirsOK /\ JournalOK /\ RunOK /\ BoundsOK BY Types
<1>3. RunOK' /\ run'.pc = "start" /\ run'.version = NoBuild /\ ~run'.user /\ ~run'.recovering
  BY <1>2 DEF Crash, Starting, Quiet, RunOK, Pcs
<1>4. BoundsOK' BY <1>2, InstallAssumption DEF Crash, BoundsOK
<1>5. TypeOK' BY <1>3, <1>4, Untouched DEF Crash
<1> QED BY <1>1, <1>3, <1>5 DEF Crash, At

\* The program is started again.
LEMMA RestartKeeps == ASSUME IInv, Restart PROVE IInv'
<1> USE DEF IInv
<1>1. ASSUME TypeOK', run.pc = "idle", run'.pc = "start", run'.version = NoBuild,
            ~run'.user, ~run'.recovering, UNCHANGED <<dirs, journal, errors, crashes>>
      PROVE  IInv'
  <2> USE <1>1
  <2>1. Contents /\ Contents' /\ errors \in Nat /\ crashes \in Nat BY ContentsMean, Counts
  <2>2. StagePresent' BY <2>1 DEF StagePresent
  <2>3. ASSUME Tame' PROVE Sound'
    <3>1. Tame /\ Sound BY <2>1, <2>3
    <3> QED BY <2>1, <2>3, <3>1 DEF PhaseMeans, PhaseOf, PlaceMeans, CommitsClosed,
                UndoMeans, StagePresent
  <2> QED BY <2>2, <2>3
<1>2. DirsOK /\ JournalOK /\ RunOK /\ BoundsOK BY Types
<1>3. RunOK' /\ run'.pc = "start" /\ run'.version = NoBuild /\ ~run'.user /\ ~run'.recovering
  BY <1>2 DEF Restart, Starting, Quiet, RunOK, Pcs
<1>4. BoundsOK' BY <1>2, InstallAssumption DEF Restart, BoundsOK, bounds
<1>5. TypeOK' BY <1>3, <1>4, Untouched DEF Restart
<1> QED BY <1>1, <1>3, <1>5 DEF Restart, At, bounds


-----------------------------------------------------------------------------
(* The theorems.                                                            *)

\* Nothing happens.
LEMMA StutterKeeps == ASSUME IInv, UNCHANGED vars PROVE IInv'
<1> USE DEF IInv, vars
<1>1. TypeOK' BY DEF TypeOK
<1>2. StagePresent' BY DEF StagePresent
<1>3. ASSUME Tame' PROVE Sound'
  BY <1>3 DEF PhaseMeans, PhaseOf, PlaceMeans, CommitsClosed, UndoMeans, Recognized
<1> QED BY <1>1, <1>2, <1>3

\* The program starts with a good target and no operation.
LEMMA InitEstablishes == ASSUME Init PROVE IInv
<1>1. PICK sealed \in BOOLEAN :
        dirs = [d \in Names |-> IF d = "target"
                  THEN [build |-> OldBuild, whole |-> TRUE, sealed |-> sealed,
                        known |-> TRUE, saves |-> TRUE]
                  ELSE Gone]
  BY DEF Init
<1>2. /\ DirsOK /\ dirs["target"].whole /\ dirs["target"].saves
      /\ dirs["stage"].build = NoBuild
  BY <1>1, InstallAssumption DEF DirsOK, Directories, Gone
<1>3. /\ JournalOK /\ RunOK /\ BoundsOK
      /\ journal.phase = "" /\ run.pc = "idle" /\ ~run.user /\ ~run.recovering /\ errors = 0
  <2>1. JournalOK /\ journal.phase = "" BY DEF Init, JournalOK, Phases
  <2>2. RunOK /\ run.pc = "idle" /\ ~run.user /\ ~run.recovering
    BY DEF Init, Quiet, RunOK, Pcs
  <2>3. /\ budget \in Budgets /\ budget \in [errors : Nat, cancels : Nat, crashes : Nat]
        /\ errors = 0 /\ cancels = 0 /\ crashes = 0
    BY InstallAssumption DEF Init
  <2>4. BoundsOK BY <2>3 DEF BoundsOK
  <2> QED BY <2>1, <2>2, <2>3, <2>4
<1>4. TypeOK BY <1>2, <1>3, Types
<1>5. StagePresent BY <1>2, <1>3 DEF StagePresent
<1>6. Sound
  BY <1>2, <1>3 DEF PhaseMeans, PhaseOf, PlaceMeans, CommitsClosed, UndoMeans
<1> QED BY <1>4, <1>5, <1>6 DEF IInv

\* What opens, fetches or takes up an operation keeps the invariant,
LEMMA EarlyKeeps == ASSUME IInv, Begin \/ Recover \/ Stage PROVE IInv'
BY DiscardRestoreKeeps, DiscardStageKeeps, DiscardBackupKeeps, CreateKeeps, OpenedKeeps,
   RecoverPreparedKeeps, RecoverBackedUpKeeps, RecoverActivatedKeeps, CheckStageKeeps,
   FetchKeeps, DownloadKeeps, MarkExtractingKeeps, ResetStageKeeps, UnpackKeeps,
   FinishUnpackKeeps, CopySavesKeeps, FinishCopyKeeps, MarkVerifyingKeeps, SealKeeps,
   MarkReadyKeeps
   DEF Begin, Recover, Stage

\* and so does what commits it or undoes the commit,
LEMMA CommitKeeps == ASSUME IInv, Commit PROVE IInv'
BY PrepareKeeps, ClearBackupKeeps, BackUpKeeps, MarkBackedUpKeeps, SwitchKeeps,
   MarkActivatedKeeps, VerifyKeeps, FinalizeKeeps, FinalizeStageKeeps, MarkCompletedKeeps,
   RollBackKeeps, RestoreKeeps, MarkRolledBackKeeps
   DEF Commit

\* and every other step.
LEMMA NextKeeps == ASSUME IInv, [Next]_vars PROVE IInv'
BY EarlyKeeps, CommitKeeps, ReportKeeps, ResumePendingKeeps, InstallKeeps, FailKeeps,
   NeedPasswordKeeps, CancelKeeps, CrashKeeps, RestartKeeps, StutterKeeps
   DEF Next, Proceed

\* The inductive invariant holds in every behaviour.
THEOREM Invariance == Spec => []IInv
<1>1. Init => IInv BY InitEstablishes
<1>2. IInv /\ [Next]_vars => IInv' BY NextKeeps
<1> QED BY <1>1, <1>2, PTL DEF Spec

\* The types of the state, in every behaviour: whatever fails and however often, a
\* directory that is not there has no contents and the journal names a phase.
THEOREM TypeCorrect == Spec => []TypeOK
<1>1. IInv => TypeOK BY DEF IInv
<1> QED BY <1>1, Invariance, PTL

\* The saves are in the target or in the backup, in full, after any number of deaths of
\* the process or one failing step (DirectoryInstallTransaction keeps them in one of the
\* two between any two renames).
THEOREM SavesAreKept == Spec => [](Tame => SavesKept)
<1>1. IInv => (Tame => SavesKept)
  <2> SUFFICES ASSUME IInv, Tame PROVE SavesKept OBVIOUS
  <2> USE DEF IInv, PhaseMeans, UndoMeans, SavesKept
  <2>1. CASE run.pc \in Undoing BY <2>1
  <2>2. CASE run.pc \notin Undoing
    <3>1. journal.phase \in Phases BY Types DEF JournalOK
    <3> QED BY <2>2, <3>1 DEF Phases
  <2> QED BY <2>1, <2>2
<1> QED BY <1>1, Invariance, PTL

\* "completed" stands over the version that was asked for, as tamely.
THEOREM CompletedIsTheNew == Spec => [](Tame => CompletedIsNew)
<1>1. IInv => (Tame => CompletedIsNew)
  BY DEF IInv, PhaseMeans, PhaseOf, UndoMeans, CompletedIsNew
<1> QED BY <1>1, Invariance, PTL

\* A closed journal stands over a whole installation, as tamely, with the types.
THEOREM ClosedInstallationIsWhole == Spec => [](Tame => Inv)
<1>1. IInv => (Tame => Inv)
  <2> SUFFICES ASSUME IInv, Tame PROVE ClosedIsWhole BY DEF IInv, Inv
  <2> QED BY DEF IInv, PhaseMeans, ClosedIsWhole, At
<1> QED BY <1>1, Invariance, PTL

\* What went wrong stays so.
LEMMA NoHealing == ASSUME IInv, [Next]_vars, Tame' PROVE Tame
<1>1. errors \in Nat /\ crashes \in Nat BY Counts DEF IInv
<1>2. /\ errors' = errors \/ errors' = errors + 1
      /\ crashes' = crashes \/ crashes' = crashes + 1
  <2>1. CASE Begin
    BY <2>1 DEF Begin, DiscardRestore, DiscardStage, DiscardBackup, Clear, Create, Opened, bounds
  <2>2. CASE Recover
    BY <2>2 DEF Recover, RecoverPrepared, RecoverBackedUp, RecoverActivated, bounds
  <2>3. CASE Stage
    BY <2>3 DEF Stage, CheckStage, Fetch, Download, MarkExtracting, ResetStage, Unpack,
                FinishUnpack, CopySaves, FinishCopy, MarkVerifying, Seal, MarkReady, Write,
                Clear, bounds
  <2>4. CASE Commit
    BY <2>4 DEF Commit, Prepare, ClearBackup, BackUp, MarkBackedUp, Switch, MarkActivated,
                Verify, Finalize, FinalizeStage, MarkCompleted, RollBack, Restore,
                MarkRolledBack, Write, Clear, bounds
  <2>5. CASE \/ Report \/ ResumePending \/ (\E v \in Builds : Install(v)) \/ Fail
             \/ NeedPassword \/ Cancel \/ Crash \/ Restart \/ UNCHANGED vars
    BY <2>5 DEF Report, Write, ResumePending, Install, Open, Fail, NeedPassword, Cancel,
                Crash, Restart, vars, bounds
  <2> QED BY <2>1, <2>2, <2>3, <2>4, <2>5 DEF Next, Proceed
<1> QED BY <1>1, <1>2

\* The steps that touch the backup.
Touching == \/ DiscardRestore \/ DiscardBackup \/ ClearBackup
            \/ BackUp \/ Finalize \/ Restore \/ RecoverBackedUp

\* No other step touches it.
LEMMA BackupSame == ASSUME TypeOK, [Next]_vars, ~Touching PROVE Same("backup")
<1> USE DEF Touching
<1>1. dirs \in [Names -> Directories] BY DEF TypeOK
<1>2. CASE DiscardStage \/ ResetStage \/ FinalizeStage \/ RollBack
  BY <1>1, <1>2 DEF DiscardStage, ResetStage, FinalizeStage, RollBack, Clear
<1>3. CASE Unpack \/ FinishUnpack \/ CopySaves \/ FinishCopy \/ Seal \/ Switch
  BY <1>1, <1>3 DEF Unpack, FinishUnpack, CopySaves, FinishCopy, Seal, Switch, Rename
<1>4. CASE \/ Create \/ Opened \/ RecoverPrepared \/ RecoverActivated \/ CheckStage
           \/ Fetch \/ Download \/ MarkExtracting \/ MarkVerifying \/ MarkReady
  BY <1>4 DEF Create, Opened, RecoverPrepared, RecoverActivated, CheckStage, Fetch,
              Download, MarkExtracting, MarkVerifying, MarkReady, Write
<1>5. CASE \/ Prepare \/ MarkBackedUp \/ MarkActivated \/ Verify \/ MarkCompleted
           \/ MarkRolledBack \/ Report
  BY <1>5 DEF Prepare, MarkBackedUp, MarkActivated, Verify, MarkCompleted,
              MarkRolledBack, Report, Write
<1>6. CASE \/ ResumePending \/ (\E v \in Builds : Install(v)) \/ Fail \/ NeedPassword
           \/ Cancel \/ Crash \/ Restart \/ UNCHANGED vars
  BY <1>6 DEF ResumePending, Install, Open, Fail, NeedPassword, Cancel, Crash, Restart, vars
<1> QED BY <1>2, <1>3, <1>4, <1>5, <1>6
           DEF Next, Proceed, Begin, Recover, Stage, Commit

\* What a backup that stops being whole leaves in its place: it went to the target, or
\* the target was good and stays.
LEMMA Outlived == ASSUME IInv, [Next]_vars, Tame,
                         dirs["backup"].whole, ~dirs'["backup"].whole
                  PROVE  dirs'["target"].whole
<1> USE DEF IInv
<1>1. DirsOK /\ Contents BY Types, ContentsMean
<1>2. CASE DiscardRestore \/ Restore \/ RecoverBackedUp
  <2>1. Rename("backup", "target") \/ Rename("stage", "target") \/ UNCHANGED dirs
    BY <1>2 DEF DiscardRestore, Restore, RecoverBackedUp
  <2> QED BY <1>1, <2>1, RenameEffect
<1>3. CASE BackUp
  <2>1. Rename("target", "backup") \/ UNCHANGED dirs BY <1>3 DEF BackUp
  <2>2. dirs["target"].whole BY <1>3 DEF BackUp, At, PlaceMeans
  <2> QED BY <1>1, <2>1, <2>2, RenameEffect
<1>4. CASE DiscardBackup \/ ClearBackup \/ Finalize
  <2>1. dirs["target"].whole
    BY <1>4 DEF DiscardBackup, ClearBackup, Finalize, At, PhaseMeans, PlaceMeans, PhaseOf
  <2>2. Same("target")
    BY <1>1, <1>4 DEF DiscardBackup, ClearBackup, Finalize, Clear, DirsOK
  <2> QED BY <2>1, <2>2
<1>5. CASE ~Touching BY <1>5, BackupSame
<1> QED BY <1>2, <1>3, <1>4, <1>5 DEF Touching

\* An old installation is destroyed only while a whole one is in its place, as tamely:
\* the backup of a commit outlives every step until the new target verified.
THEOREM BackupIsOutlived ==
  Spec => [][Tame' => (dirs["backup"].whole /\ ~dirs'["backup"].whole
                         => dirs'["target"].whole)]_vars
<1>1. IInv /\ [Next]_vars =>
        [Tame' => (dirs["backup"].whole /\ ~dirs'["backup"].whole
                     => dirs'["target"].whole)]_vars
  <2> SUFFICES ASSUME IInv, [Next]_vars, Tame', dirs["backup"].whole, ~dirs'["backup"].whole
               PROVE  dirs'["target"].whole
    OBVIOUS
  <2>1. Tame BY NoHealing
  <2> QED BY <2>1, Outlived
<1> QED BY <1>1, Invariance, PTL DEF Spec

=============================================================================
