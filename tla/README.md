# NeuroMita in TLA+

NeuroMita is a desktop companion: a Python program that talks to the player of a Unity game (or in
its own window), generates answers with language models, speaks them, listens, and keeps itself and
the game installed.  This directory holds the TLA+ models of the parts of it in which several
threads, processes or starts of the program touch the same state, the TLC configurations that check
them, and the theorems TLAPS proves about them.  Paths below are relative to the repository; most of
the program is under `src/src/` (the `src` directory of the repository).

## Inventory

### Modelled

| Part | Code | State | Operations | Speaks with |
|---|---|---|---|---|
| Player turn outbox | `managers/unity_retry_store.py` | a JSON file of records (status, active task, claimed-from status, result), delivered ids of this process, unreadable paths | add, transition, claim, set active task, finish failed attempt, mark delivery or voiceover failed, complete, remove, recover | called by the server's loop, the event lane, the IO pool and the chat, under one lock |
| Player turn | `create_task.py`, `chat_controller.py`, `audio_controller.py`, `task_controller.py`, `server_controller.py`, `game_connections/server.py` | the task of each turn, queued status events, updates handed to the socket, IO-pool jobs, retry buttons | receive, generate, voice, report a status, persist, send, finalize, retry, delete, recover | game socket, event bus, IO and generation pools |
| LLM run | `managers/llm_request_runner.py`, the stream readers of `handlers/llm_providers/` | the attempt and preset a run is at, its provider call, the cancellation token, what the player has heard | attempt, wait, time out, cancel, abandon, retry, fall back | the provider pool; the chat |
| Provider pool | `core/executor_registry.py`, `core/daemon_executor.py` | a queue, workers, retired workers, slots in use | admit, submit, take, return, abandon, replace, close | LLM runs |
| Task registry | `core/task_supervisor.py` | records of tasks, an index of names, deadlines, the closed flag | submit, start a thread, replace, finish, cancel an owner, watch deadlines, shut down | every background task of the program |
| AI worker | `controllers/ai_engine_controller.py` (`_Worker`), `handlers/ai_engine/worker_process.py`, `gpu_scheduler.py` | futures with deadlines, quarantined and recovering services, command and result queues, tasks and device slots of the child | call, expire, quarantine, restart a service, end the process | two processes over two queues |
| AI runtime | `controllers/ai_engine_controller.py` (`AIEngineController`) | the published worker, the switch gate with its epoch, deferred calls, recovery attempts | call, defer, switch the package composition, roll back, maintain, recover, shut down | AI workers; installers; every user of speech and embeddings |
| Capture gate | `handlers/asr_input_gate.py`, `managers/speaking_window.py`, `controllers/speech_controller.py`, `asr_handler.py`, `asr_audio_capture.py`, `asr_service.py` | the gate and its copy in the recognizer's process, leases of sounding phrases, retired sessions, audio segments, texts | press, release, cancel, renew, phrase starts and ends, disconnect, change a setting, capture, recognize, accept | game socket, GUI, event bus, the AI worker of recognition |
| Directory installation | `services/update_transaction.py`, `updater.py`, `startup/runtime_bootstrap.py` | target, stage and backup directories, `operation.json` | begin, stage, commit, recover, verify, finalize, roll back, discard | the file system; the next start of the program |
| Serial dispatcher | `core/serial_dispatcher.py` | a queue and a worker per lane, two counters, the closed flag | submit, run, wait_idle, close | event bus, settings registry |

### Not modelled

* **GUI task supervisor** (`core/gui_task_supervisor.py`): exclusive resources and owners that close.
  It runs on the GUI thread alone; what could go wrong is the order of Qt's queued signals.
* **Event bus** (`core/events.py`): subscription, synchronous requests, restart; its lanes are instances
  of the modelled dispatcher.
* **Python update** (`services/update_activation.py`): one file swapped between two starts.
* **Settings** (`managers/settings_manager.py`, `core/settings_registry.py`), **game master and dialogue
  state** (`services/game_master_*.py`, `dialogue_runtime_state.py`): small states under one lock each.
* **Component installation** (`controllers/install_controller.py`, `core/runtime_environments.py`):
  pip and the file system.
* **History, memory, database, reminders, image transfer, stream presentation, IPC, life cycle, the
  windows**: I/O of external tools, SQLite's own transactions, formatting and widgets; no protocol of
  their own that a model would tell more about than a test.

Of the modelled parts these are left out: of the turn, idle messages, mini games, game master tasks
and the handshake; of the AI engine, switches of the topology, split mode, promotion in the model
registry, heartbeats and bootstrap; of speech, microphone tests, live transcripts and the start and
stop of recognition; of the pool, its siblings with other numbers; of the registry, an owner whose
identity is reused after it was collected.

### What is hard in this code

The hazards are listed with their lines in `PROJECT.json`.  They come down to: statuses of an old
attempt that arrive after a new one has claimed the same record; a store that is read, unlocked and
acted upon; an IO-pool job that runs long after the event it belongs to; the process dying between a
rename and the journal write that records it; a counter and a queue with different locks; a flag
checked before the put it guards; a worker given up for lost that comes back after all; a task that is
registered, started and recorded in three steps; a call admitted to a worker that is being replaced;
two processes that each keep a copy of "this service is quarantined" or "the microphone is open"; a
service that is replaced while requests are on their way into it; a device slot handed to a waiter that
runs only later; and text that arrives after the reason for it is gone.

## Modules

| Module | Models |
|---|---|
| `TurnLedger` | abstract: what the outbox promises of a turn (none, open, answered, settled) |
| `UnityRetryStore` | the store: one action per method of the class |
| `UnityTurn` | the turn around it; `LedgerSpec` is its refinement of `TurnLedger` |
| `UnityTurnProofs` | lemmas on the store's operations; the inductive invariants, their theorems, and the step of the refinement of `TurnLedger` |
| `DaemonPool` | the bounded pool of daemon threads and the admission in front of it |
| `LlmRun` | runs that go through attempts and presets, composed with `DaemonPool` |
| `LlmRunProofs` | the inductive invariant of the pool and of the runs on it, and its theorems |
| `TaskSupervisor` | the registry of tasks with its watchdog and its shutdown |
| `TaskSupervisorProofs` | its inductive invariant and theorems |
| `AiWorkerProcess` | the child of the AI engine, one action per stretch between two awaits |
| `AiWorker` | the parent's `_Worker`, composed with the child over the two queues |
| `AiWorkerProofs` | the inductive invariant of both and its theorems |
| `RuntimeSwitch` | the controller above: which worker is published, and what calls meet meanwhile |
| `RuntimeSwitchProofs` | its inductive invariant and theorems |
| `CaptureGate` | the two copies of the gate, the speaking window, and the way of a segment back |
| `CaptureGateProofs` | its inductive invariant and theorems |
| `DirectoryInstall` | the installation and its recovery |
| `DirectoryInstallProofs` | its inductive invariant and theorems |
| `SerialDispatcher` | the dispatcher, one action per lock region or queue operation |
| `SerialDispatcherProofs` | its inductive invariant and theorems |
| `MC*` | instances for TLC: constants, plans and symmetry only |

Operators marked `mutant` state a plausible mistake in the definition they stand next to; nothing of
the models uses them.  They show that a property notices the mistake.

A *plan* is a constant that says what the environment of one behaviour does (who presses what, which
operations run, how many deaths occur): the initial state picks one, so that a run checks several
small situations in all their interleavings instead of their product.

### UnityRetryStore and UnityTurn

A method of the store holds the class lock and replaces the file at its end, so each is one action
with a parameter `ok`: whether the write succeeded.  A record keeps its status, task, claimed-from
status and whether it holds an answer; texts, images and errors are not told apart.  `Expire`,
`Damage` and `CorruptFile` are what age and the disk do to the file; because every read prunes and
checks, they are seen at once.  The store is kept for one character (the file is per character).

`UnityTurn` has one actor per thread of control: `Receive`/`Record`/`SendToChat` are `_dispatch_task`
on the server's loop; `Submit`/`Generate`/`Voice`/`FailPlayback` are the chat and audio controllers;
`TakeAnswer`/`Fence`/`TakeVoiceFailure`/`TakeFailure`/`ScheduleSend` are `_on_task_status_changed`,
which the bus runs in order on one lane (`lane`) and which can be interrupted between its store
calls; `Drain`/`SendFails` run on the loop in any order; `RunJob` is a job of the IO pool; `Click` to
`Release` are `_retry_unity_request`; `Restart` is a death of the process at any moment followed by
`recover_interrupted_attempts`.  `FAILED` stands for the four statuses the handler treats alike.

A voiced task normally ends with one final status.  When no game is connected the sound is played
here after SUCCESS was reported, and a playback that fails sends FAILED_ON_VOICEOVER behind it.  A
generation that raises after it has reported its answer sends FAILED_ON_GENERATION behind SUCCESS or
beside a voiceover (`FailLate`, `chat_controller.py:1037`); both are among the bounded faults.

`Fire` always succeeds.  The code can raise there (`chat_controller.py:1463`) when the stored answer is
not a dictionary, which no step of the program leaves (`AnswerKept`), or the task is gone from the task
manager, which nothing does to a task that young; the release that would follow is the one of `Release`.

### DaemonPool and LlmRun

A call goes through `Reserve` (the slot), the queue, a worker that takes it, and the done-callback of
its future, which gives the slot back after the waiters were woken.  `abandon` is several steps in the
code and in the model: the worker is marked retired, its replacement is started, and the slot given
back; the mark is taken back when the call ends in between or the thread cannot be started.  A stop
marker per worker is what `close` puts into the queue.  `LlmRun` has the loop of attempts and presets
with its checks of the cancellation token, the provider's thread, and the reader of a stream, which
records what arrived and looks at the token in the order of its wire format.  The kind of a
provider's error is chosen when the run collects it, and stands also for an empty or unusable response;
the presets of a chain, its attempts and its wire format are in the plan.  The wait after a request that
could not be built looks at the shutdown only ("rebuild"), the wait between attempts at the token too.
`CloseExecutor` keeps the closed pool, where `shutdown_all` also forgets it: a run that asks for the pool
after the shutdown would get a fresh one, which has no calls of these runs.

### TaskSupervisor

A request is the caller of `submit` or `start_thread`: it takes the replacement lock of its name when
it replaces, asks the predecessor to stop, waits for it or times out, registers, launches, and for the
pool stores the future.  A task is a body that may or may not heed its stop request, and the recording
of its end, which a done-callback may do before the future is stored.  `CancelExpired` and `Scan` are
the watchdog; a sweep is `cancel_owner` or `shutdown`, which take a snapshot and stop its members one
by one.  The pool itself appears as a queue.  `Scan` takes the watchdog's look at the closed flag and
its scan in one step; `snapshot()`, which also cancels what has expired, has no caller but a test and is
not an action.

### AiWorkerProcess and AiWorker

The child reads one command at a time.  A request is a task that passes its service's semaphore and the
second look at the quarantine (`Enter`), loads the service in a thread, asks for the device (`Acquire`),
queues for a slot by priority, computes in a thread and answers; the loading may fail and a method may
need no device (`PassBy`).  Restarting a service blocks it, takes the tasks it has at that moment, waits
for these (`Drained`), shuts the old object down and puts a new one in its place, three steps between
which the service's requests go on.  While the loop does this it reads nothing, so no task begins.

No step cancels a task: the code says why it must not (`worker_process.py:565`, `:586`), and only the drain
at the end of the loop does (`:547`).  That end is not modelled, and with it the path of a waiter that is
cancelled with its slot already handed to it (`gpu_scheduler.py:73`).  `_respond` waits for a thread, but
its task does nothing after it, so answering is one step.

The parent is the calling threads (`Admit`, `Send`), the deadline thread (`Sweep`, `MarkQuarantined`,
`Quarantine`), recovery threads, one of which may fail to start, and the user (`Restarting`), the reader of
results and the watcher of the process.  Deadlines may pass at any moment.  Stop, heartbeats, bootstrap,
cancel_request (the child ignores it) and full queues are left out.

### RuntimeSwitch

Workers are numbered as they are spawned; one is published.  An operation is a switch (stop the old
worker, spawn and validate a candidate, publish it or roll back), a maintenance session (suspend,
inside, resume) or the compilation of a voice model, which closes the gate without the lock.  A dead
worker is noticed by its watcher and recovered by a thread that waits for the switch lock; the
supervisor refuses a second recovery of the same name.  A call is admitted, sent, and when its worker
is gone either retried after the window or deferred: it goes through the dispatcher's list, waits for
the gate within its budget, and is admitted again, a bounded number of times.  Shutdown empties the
list, closes the dispatcher and stops the workers, each in a step of its own; `prepare_shutdown`, which
sets the flag and empties the list some time before, is the beginning of the same chain.  A call that the
thread of the window itself makes is refused at once (`can_wait_from_caller`); calls here come from other
threads.  What a worker does with
a call is the subject of `AiWorker`; here it answers, refuses or is stopped.

### CaptureGate

`gate` is the `ASRInputGate` of the program; `remote` is its copy, with the highest revision it has
applied; `wire` is the set of snapshots under way, which arrive in any order.  Each lane of the bus
that changes the gate is a handler of two steps or three: what it changes, the reading of settings and
window, the configuration and publication (`_sync_input_gate`), and a capture command behind it.  The
segmenter keeps the context of the segment it builds; a finished one is transcribed and its text
checked twice, in the worker and in the program.  A publication may be lost: recognition is stopped, the
engine is gone or its call fails, which `publish_input_gate` logs and never repeats (`stops` in a plan;
`missed` until the next one).  Where it is, a press may also find recognition stopped and be refused.  Both
sides of the disconnects remember so many clients and forget the oldest (`Memory`, `Retained`).  Time is relative: a deadline is the number of ticks
left, a tick passes only between handlers (the tail of 0.4 s is assumed longer than one handler), and
each copy lets a capture lapse by itself.  `heard` is history: the phrases that sounded while the
segment was recorded and whose end was told.

Simplified are: the two looks at the mode in `_on_asr_ptt_state` are one (no plan has commands and changes
of the mode together); a switched-off microphone resets the gate in the step of the change, where the
code does so in an observer it tells afterwards; no plan turns muting off.  Game clients connect one
after another, as only one may own the player's turn; the chat window's closing (`release_radio_capture`) is
not an action.

### DirectoryInstall

A directory is described by the build in it, whether it is whole, whether its manifest describes it
(`sealed`), whether `validate_unity_update_target` would recognize it (`known`), and whether it holds
the user's saves.  A rename and a journal write are atomic (`os.replace`); a removal, an unpacking or
a copy has a state in the middle.  `Crash` may follow any step, `ResumePending` is what the next
start does, `Fail` lets any step raise and `OnError` says where that exception is handled.  How many
deaths, failures and cancellations a behaviour has is its `budget`.  Every behaviour starts with an
installed build: the first installation, which has nothing to lose, is not checked.

### SerialDispatcher

`submit` is three actions: the closed check, the put, the increment.  A worker is `Take`, `Begin`
(decrement with its floor at zero), `Run`, `End`.  `close` waits or times out, discards when it did
not drain, and puts a stop marker into each lane, making room when the lane is full.

## Runs

Every passing run lists its properties and, in `PROJECT.json`, a mutation of the code that breaks each.
Some properties are conjunctions of named parts, defined at the end of their module: `Inv` (types and
one other invariant), `CountersHonest`, `WorkEnds`, `PoolInv`, `NamesExclusive`, `WorkersAccounted`,
`WaitsEnd`, `GoneIsGone`.

| Run | Bounds | Shows |
|---|---|---|
| `UnityTurnFaults` | 1 message, 3 tasks, 2 retriers, 1 fault, 1 restart | `AnswerKept`, `ClaimExclusive`, `OneGeneration`, `NoCallForAnswered`, `LedgerSpec` |
| `UnityTurnLiveness` | 2 messages, room for 1 record, 2 tasks, 1 retrier, no fault | `TurnResolves` |
| `LlmRuns` | pool of 1 worker with 1 slot and 1 retired worker, 2 runs, chains of up to 2 presets or attempts, 1 thread that cannot be started | slots and threads of the pool are accounted for (`PoolInv`, `SlotMeansWorker`), admitted calls are served (`NoCallStarves`), a stream has one source (`OneSource`), runs end (`RunsEnd`) |
| `TaskRegistry` | 3 tasks, 1 owner, the sweeps of an owner and of the application, in 5 plans | `NamesExclusive`, `ShutdownReachesAll`, `NoLateBegin`, `RequestsEnd`, `OverdueStopped` |
| `AiWorkerOneService` | 2 calls of a service of limit 2, 1 slot, 2 recoveries; or 1 call, 1 recovery, 1 restart by the user | `OneRecovery` (in `Inv`), `ReplacedWhenIdle`, `SettledOnce`, `CallsSettle` |
| `AiWorkerTwoServices` | 3 calls of a service of limit 2, or 1 beside a call of another service, with 1 recovery; 2 beside it with none; 1 slot | `SlotsExact` |
| `SwitchWindows` | 5 worker identities, 2 operations, 1 or 2 calls, up to 3 crashes, 1 process that outlives its stop, shutdown, in 9 plans | `WorkersAccounted`, `SessionQuiet`, `NotLostToSwitch`, `WaitsEnd`, `CrashesRecovered` |
| `CaptureGates` | 2 clients in turn of which 1 is remembered, the chat window, 2 commands or phrases, 1 or 2 segments, a restart of the recognizer, lost publications, in 8 plans; leases of 1 and 2 ticks | `GoneIsGone`, `CopyAgrees`, `FencedTextDropped`, `MitaNotHeard`, `MicReopens` |
| `InstallFaults` | 2 versions; 3 crashes, or 1 failing step and 1 cancellation | `SavesKept`, `ClosedIsWhole` (in `Inv`), `CompletedIsNew`, `BackupOutlived`, `CommitResolves` |
| `DispatcherClose` | 2 submitters of 1 lane of capacity 2, 2 items each, a second lane, close | `CountersHonest`, `KeyOrder`, `WorkEnds` |
| `SwitchDeferredLost`, `InstallSavesLost` | one plan; a failing step and a crash | see below |

Why the bounds are enough for what they ask.

* Turn: two retriers are what it takes to race for a claim, and three tasks are an attempt and two
  retries that follow or overtake it; one fault (a failed write, damage, a failed playback, a late failure) and one restart can fall at
  any step.  With two messages
  the two tasks are either the attempts of both turns or an attempt of one and its retry.
* Pool: with one worker and one slot every abandoned call is the last one the pool can serve; a second
  run or a second attempt then finds the slot free or the pool refused.  One more retired worker than
  workers is where the bound on threads bites.
* Registry: a predecessor, its replacement and a third that replaces, overlaps or is started by one of
  them are every relation the index of names can hold; both sweeps reach tasks in every phase.
* AI worker: three requests and one slot are a holder and two waiters, or one that waits for the
  semaphore; two requests
  suffice for a late answer and a recovery that drains one of them while the other is inside, waits or
  loads.
* Switch: two operations are a window that opens while another one ends; crashes fall before, in and after
  a window, into the candidate, the rollback and the recovery.  Worker identities are used again once
  nothing refers to them, and the attempts of recovery (2 here) are used up.
* Gate: each plan has one situation (presses and a disconnect, a press around a phrase, two phrases,
  changes of mode, radio of the window against that of the game, phrases of a client that goes, a
  replaced recognizer, two disconnects); within it snapshots, leases and texts come in every order.
* Installation: two versions allow an installation to interrupt another, three crashes an interrupted
  recovery to be interrupted again.
* Dispatcher: two submitters with more items than the lane holds reach every refusal and discard; with
  room for two, jobs of one key wait behind each other.

The models do not stop where the code does not.  `CHECK_DEADLOCK FALSE` stands in the runs whose
bounds (uids, submissions, requests, plans) end, or whose program may come to rest.

### Fairness

Threads, pool workers, event loops and lanes run on: weak fairness on their steps together (`OwnStep`,
`Threads`) where the order among them does not matter, on each where it does.  A backend and a voice
engine answer or fail (they have timeouts), a validation of a runtime ends by its timeout.  A deadline
passes and the next sweep sees it: strong fairness on a sweep that takes the call, because `Due`
changes while other things expire.  A closed or dead program is started again some time: strong
fairness on `Restart`, because installations asked for in between disable it again and again.  Time
passes: ticks are among the gate's own steps.  Nothing is assumed of the user, the game, the socket, a
provider or native code, which may hang for ever, nor of a task's own function, which may ignore its
stop request; nobody has to cancel, close, press or disconnect.

### Where the code and its words differ

Two runs check what a document or a comment of the repository says, and TLC finds a behaviour of the
code in which it is not so.  The quoted lines are in `PROJECT.json`.

* `InstallSavesLost`: dying while the backup is removed, then a verification that fails in recovery:
  rollback replaces the new installation, which holds the saves, by the half-removed backup.
* `SwitchDeferredLost`: a call is deferred in three steps (get the dispatcher, enter the set, submit) and
  shutdown empties the set and closes the dispatcher in between; the future is never settled.

The models have more behaviours of this kind.  The passing properties are stated so as to leave
exactly these aside, and say so where they are defined or bounded.

The turn:

* The record is removed by an IO-pool job after the update was drained; a retry offered by a failed
  voiceover can claim it in between and send the answer to the game twice.  The design document of the
  outbox (`docs/superpowers/specs/2026-09-26-unity-request-retry-design.md`) removes it on the drain.
* An attempt that fails after its record was found damaged makes the record retryable again
  (`finish_failed_attempt` does not look at the status), its request already dropped.

Installation:

* With a failing step and a crash together: dying between the restored backup and `rolled_back` makes
  recovery verify the old installation and report the update completed.
* A backup that lost executable and manifest in an interrupted removal is no longer recognized, and every
  later start refuses to recover; `CommitResolves` ends there.

Dispatcher:

* The item is put before it is counted: a worker may lower a counter that is still zero, the late
  increment stays for ever and no later flush succeeds.  With two submitters the counter can also be
  too low between a put and its count, and a flush then succeeds early; `FlushHonest` speaks of the
  other moments.
* An item that passed the closed check can be put behind the stop marker: accepted, never run.
  `AcceptedRuns` is about a dispatcher that nobody closes.

AI worker and runtime:

* The quarantine command can be queued behind the restart that lifts the quarantine: the parent reports
  a recovered service, the child refuses its every call.
* A service quarantined again while its recovery is ending is not recovered again: no property promises
  that a quarantine ends.
* A worker that dies while the recovery thread of an earlier one waits for the switch lock is not
  recovered: the second thread of the same name is refused after two seconds and the refusal swallowed.
  Nor is a candidate that dies between its validation and the setting of its crash callback.
  `CrashesRecovered` leaves both aside.
* When `suspend_for_maintenance` raises, the window stays open, although the comment at
  `ai_engine_controller.py:2399` speaks of a window that always closes; `WindowsClose` leaves it aside.
* A switch that publishes after shutdown stopped the workers leaves a live one (a daemon process).

Pool, runs and registry:

* A replacement whose thread cannot be started, while the retired worker has already left, leaves the
  pool one worker smaller; `WorkersKept` allows one per failed start.
* The readers of the Responses protocol look at the token before they record the chunk, so that a
  fallback may write after a first provider was heard; `OneSource` speaks of the other wire formats.
* The done-callback gives the slot back after the waiters woke: an immediate retry can be refused.
* An overlapping task hides the older one of its name from the index; a thread that is registered but
  not started is not waited for by shutdown and still begins, with its stop request set.

Capture:

* The window is read, then the gate configured with what was read; of two lanes the later writer may
  bring the older state, and the microphone is then open while a phrase sounds, which
  `speaking_window.py:3` excludes.  What holds is that no such text is taken (`MitaNotHeard`).
* A replaced recognizer repeats the `start_live` of its first start with the gate of that moment, and
  nothing is published until the next change: until then every phrase is dropped by its epoch.
  A publication whose call fails is not repeated either, with the same effect.  `CopyAgrees` leaves both
  aside (`missed`).

The passing runs say how far the promises do hold: no answer is lost (`LedgerSpec`); installations survive
any crashes when no step fails, and any one failing step when nothing crashes; no slot is leaked, no
call is left open while the engine lives, nothing escapes a shutdown of the registry, and the player is
not answered for words he took back or Mita said.

## Proofs

`UnityTurnProofs` proves, for any sets of messages, tasks and retriers, any outbox size and any number of
faults and restarts (from `StoreAssumption` and `TurnAssumption` only):

* `TypeCorrect`: `Spec => []TypeOK`;
* `AnswersKept`: `Spec => []AnswerKept`: the status of a record says whether it holds an answer;
* `ClaimsExclusive`: `Spec => []ClaimExclusive`: between its claim and its link or release a retry has the
  record to itself.

None of the last two is inductive: releasing a claim restores the status the retry remembers, so the
record's answer must agree with that memory; and that no other task moves a claimed record needs every
task uid in the system to be that of an existing task.  The invariant `IInv` of `Invariance` is therefore
`TypeOK`, `AnswerKept` and

* `ClaimedAnswers`: a record claimed from "generated" holds an answer;
* `BegunMessages`: only a message whose turn has begun has a record, a retry or an offer;
* `TasksHeld`: a created task belongs to a message, and the task of a dispatch or a retry is in the phase
  its holder left it in, held by nobody else;
* `EventsOfTasks`: queued events, updates and jobs name tasks that exist;
* `ClaimsHeld`: each claiming retry finds the record as it left it, and no two claim the same one.

The step is proved action by action.  Its first part says what each method of the store
does to the one record it touches (`Touched`), so that the step lemmas never expand a record update;
`ProducingStep` does the same for the steps of generation and voice.  `IInv` was checked by TLC before.

The second half of the module proves on top of that, with no further assumption:

* `OneAtATime`: `Spec => []OneGeneration`;
* `NoCallIsWasted`: `Spec => NoCallForAnswered`: no model call starts for a turn that has its answer;
* `OutboxImplementsLedger`: `Spec => LedgerSpec`: the outbox, with bus, pool, socket, crashes and retries
  around it, implements `TurnLedger`.

All three need to know who works for a message, which `WorkInvariance` adds as `JInv`: a task that
generates, or that a dispatch or a retry is about to send on, owns the record of its message, is the only
such task and finds no answer there (`Alone`); its holder has it to itself (`Holders`); everything on the
event lane, in the pool and in the socket's file is of tasks whose generation is over (`Reported`), which
is why late statuses cannot move a record that a new attempt has claimed; a record claimed for a new
generation stays unanswered (`ClaimsUnanswered`); a finalizing job follows a delivery (`Settled`); a
record that is absent holds nothing (`EmptyRecords`).  Under the refinement `Record` is `Open`,
`TakeAnswer` is `Answer`, `Drain` is `Deliver`, the finalizing job is `Settle`, deletion, age and damage are
`Discard`, and every other action stutters; the proof shows each action to be one of these.

### Task registry

`TaskSupervisorProofs`, for any tasks, owners, requests and sweeps (`TasksAssumption`):
`NamesAreExclusive` (`NamesExclusive`), `ShutdownIsComplete` (`ShutdownReachesAll`), `NoneBeginsLate` (the
action property `NoLateBegin`).  That an older task of a name was asked to stop rests on what its
replacement found under the lock long before, so `IInv` says what a request finds under its name in each
of its stages (`PredecessorKnown`), who has the lock (`LockHeld`), that a task that can act is the one its
name means or was replaced (`NamesFound`), and what a sweep has marked so far (`Sweeping`).

### Directory installation

`DirectoryInstallProofs`, for any builds and budgets: `Invariance`, `TypeCorrect`; and `SavesAreKept`,
`CompletedIsTheNew`, `ClosedInstallationIsWhole`, `BackupIsOutlived` in behaviours that are `Tame` so far:
the process died any number of times and no step failed, or one step failed and the process never died.
The hypothesis cannot be dropped: outside it the properties are false (`InstallSavesLost` is such a
behaviour).  TLC checks both sides with three crashes or one failure; the theorems lift the number of
crashes, interrupted recoveries and installations.  `IInv` says what each phase of the journal means for
target, stage and backup (`PhaseMeans`), in which phase each step is taken (`PhaseOf`), what the step finds
(`PlaceMeans`), that a living process leaves no commit open (`CommitsClosed`), and what can be undone
(`UndoMeans`).  `BackupIsOutlived` states the step property of `BackupOutlived` in tame behaviours.

### Capture gate

`CaptureGateProofs`, for any clients, leases, limits and plans (`CaptureGateAssumption`: leases and limits
are positive, as the constants of the code are; `None`, `Desktop` and `Local` are nobody's session):
`ClientsGoForGood` (`GoneIsGone`), `CopiesAgree` (`CopyAgrees`), `FencedTextIsDropped` (the action property
`FencedTextDropped`).  The invariant `IInv` has besides the types

* `Dated`: a revision names one gate, and no snapshot is newer than the gate;
* `UpToDate`: unless a handler is about to publish or the recognizer was replaced, the newest snapshot, on
  its way or applied, is the gate, up to a capture that one of the two clocks has let lapse (`Same`);
* `PressesNew`: the number of a press that is still in a queue or a handler was used by nobody, so that a
  cancellation cannot reach a later press;
* `Fenced`: what was captured under an epoch that still counts was not cancelled, for the gate, its copy,
  the snapshots, the segment under way, the jobs and the texts.

### Serial dispatcher

`SerialDispatcherProofs`, for any producers, lanes, keys, capacities and numbers of items
(`DispatcherAssumption`; there is a lane, as `max(1, int(lanes))` sees to): `CallbacksInOrder` (`KeyOrder`)
and `CountersAreHonest` (`CountersHonest`).  `KeyOrder` needs what waits and what runs in a lane to be in
order with what has run (`Ordered`), and every item of a producer to be older than the one it is about to
put (`Home`).  The counters need more: an item waits in one place only, else one increment would stand for
two callbacks (`HeadAlone`, `BegunAlone` follow from `Ordered`); what close discards is a callback and not a
stop marker (`Unstopped`, `OffTheList`), else it would lower the counter for nothing; and a submitted item
is somewhere until then (`NothingLost`).  `max(0, n - 1)` swallows decrements, so the count of waiting items
is a lower bound and not exact (`NeverUnderCounts`); `ActiveExact` is exact.

### Pool and LLM runs

`LlmRunProofs`, for any runs, chains, calls, workers, slots and limits (`PoolAssumption`, `RunAssumption`):
`PoolBooksBalance` (`PoolInv`), `SlotStandsForWorker` (`SlotMeansWorker`), `NoneStarves` (`NoCallStarves`),
`StreamHasOneSource` (`OneSource`).  The pool has an invariant of its own, `PoolIInv`, which every action of
`DaemonPool` preserves whoever takes it: an admitted call has a future (`FutureMeans`), is in the queue once
and has not been taken while it is there (`QueueMeans`), is served by one worker (`ServeMeans`), whose mark
stays while it is being given up (`HandoverMeans`), and holds its slot while it waits or runs and was not
abandoned (`SlotsHeld`).  `NoCallStarves` follows by counting: waiting calls and busy workers each have a
slot of their own.  That giving up costs nothing is `Limits`: an abandonment whose replacement failed still
counts as a worker until the mark is taken back (`Failing`).  `OneSource` needs to know of *every* call a
run has left that it can never be heard again: it was not made, it has ended, or its token was set before
its reader looked (`Silent`, `Sourced`).  TLC checked `IInv` on the instance of `LlmRuns` first.

### AI worker

`AiWorkerProofs`, for any requests, services, attempts, limits and slots (`ProcessAssumption`: ids of calls
and of restarts are different uuids, and `"none"` is no service; `RecoveriesAssumption`): `OneRecoveryEach`
(`Inv`), `SlotsAreExact` (`SlotsExact`), `ReplacedIdle` (`ReplacedWhenIdle`), and the action property
`CallSettledOnce` (`SettledOnce`).  `SlotsExact` says itself that the heap holds the tasks that are
queued; it needs that the heap holds each once (`Lined`), or handing a slot on would leave a second entry,
and that a request reaches the process once and before it has a task (`Posted`), or reading it would
overwrite a task that holds a slot.  `OneRecovery` needs that a service with a recovery is in
`recovering_services` (`Restarts`), through every step of the recovery.  `ReplacedWhenIdle` compares the
snapshot of a drain with what is in flight long after it was taken: `DrainCovers` says that every task of
the service in flight is in the snapshot until the replacement ends, because a task that is over does not
come back and the loop that would begin another one is the one that drains.  TLC checked `IInv` on both
instances first.

### Runtime switch

`RuntimeSwitchProofs`, for any operations, calls and workers and any plan of crashes, processes that outlive
a stop, and shutdown (`SwitchAssumption`: `Nobody` and `"recovery"` are no operation, there is a worker, and
one restart may be tried): `WorkersAreAccounted` (`WorkersAccounted`), `SessionIsQuiet` (`SessionQuiet`), and
the action property `NotLost` (`NotLostToSwitch`).  The argument is the lock.  `Holds` says which workers an
operation has at each of its steps and which of them is gone by then; `Excludes`, that in its window it has
the lock and the gate is closed, so that shutdown is the only other party that may change what is published,
and only to nothing; `Recovering`, the same of the recovery, whose crashed worker is dead and known to be.
An operation without the lock holds no worker (`OthersHold`), whence every process that runs is accounted
for by the one party that has it.  `SessionQuiet` follows: in a session nothing is published and nothing
held.  For calls, `Given` says of each admitted worker and its epoch that, while the epoch has not moved, the
worker is published still, has crashed, or the engine shuts down; a call refused as gone is one of these
three.  TLC checked `IInv` first, for every plan of two operations with a crash, a survival and a shutdown.

### Only model-checked

* Liveness and everything under fairness, which the prover cannot reason about: `TurnResolves`, `RunsEnd`,
  `RequestsEnd`, `OverdueStopped`, `CallsSettle`, `WaitsEnd`,
  `CrashesRecovered`, `MicReopens`, `CommitResolves`, `WorkEnds`.
* `MitaNotHeard`: it depends on which settings a plan may mute and on a tick being longer than a handler.

## Plan

1. *Done*: the turn and its outbox with `TurnLedger`, proofs of its main invariants; the directory
   installation; the serial dispatcher; the AI worker and the runtime around it; the pool and the LLM
   runs on it; the task registry; the capture gate.
2. *Done*: proofs of the invariants and action properties of the turn with its refinement, the task
   registry, the directory installation, the capture gate, the dispatcher, the pool with the runs on
   it, the AI worker and the switch of its runtime.  Left: `MitaNotHeard`.
3. Candidates for models: the event bus's synchronous requests, the Python update, the GUI task
   supervisor, the game master's scheduling.
