---------------------------- MODULE RuntimeSwitch ----------------------------
(* The life of the shared AI worker in AIEngineController                     *)
(* (controllers/ai_engine_controller.py): a switch of the package composition *)
(* stops the worker and publishes another, maintenance stops it and starts it *)
(* again, a recovery replaces a crashed one, shutdown ends it; meanwhile      *)
(* calls are admitted, refused, or deferred until the window is closed.       *)
(* Operations hold _runtime_switch_lock; calls and shutdown do not.  Each     *)
(* action is one region under _lock, one region under a worker's own locks,   *)
(* or one start, end or validation of a process.  What happens to a call in   *)
(* its worker is the subject of AiWorker.                                     *)
EXTENDS Integers, Sequences, FiniteSets

CONSTANTS Workers,      \* the worker processes; an identity is used again once
                        \* nothing refers to it
          Calls,
          Operations,
          Plans,        \* kinds: the operation of each thread; crashes, survivals: how
                        \* many processes may die, and how many may outlive a stop;
                        \* exit: whether the engine may be shut down; calls: those made
          MaxAttempts,  \* NEUROMITA_AI_RESTART_LIMIT
          Nobody

Kinds == {"switch", "session", "compile", "none"}

ASSUME SwitchAssumption ==
  /\ Workers # {} /\ Nobody \notin Workers \cup Operations
  /\ "recovery" \notin Operations \cup {Nobody}
  /\ MaxAttempts \in Nat \ {0}
  /\ Plans \subseteq [kinds : [Operations -> Kinds], crashes : Nat, survivals : Nat,
                      exit : BOOLEAN, calls : SUBSET Calls]

VARIABLES
  plan,       \* the plan, with what is left of its faults
  published,  \* the worker in _workers
  alive,      \* workers whose process runs
  stopping,   \* workers with stopping or expected_exit set
  hooked,     \* workers with on_crash set
  noticed,    \* workers whose _watch_process has seen an unexpected end
  survivors,  \* workers that outlived terminate and kill
  gate,       \* _RuntimeSwitchGate
  epoch,      \* _runtime_epoch
  lock,       \* _runtime_switch_lock
  op,         \* each operation: its step, the previous worker, the candidate
  rec,        \* the recovery thread: its step, the crashed worker, the candidate
  attempts,   \* _restart_attempts
  ignored,    \* crashes that no recovery follows
  call,       \* each call: its step or outcome, the worker and the epoch it was given
  deferred,   \* _deferred_calls
  queue,      \* the dispatcher's queue
  dispatch,   \* the dispatcher's thread: its step, the call, the worker, the epoch
  down        \* shutdown: its step, and the deferred calls it has taken

workerVars == <<published, alive, stopping, hooked, noticed, survivors>>
windowVars == <<gate, epoch, lock>>
recVars    == <<rec, attempts, ignored>>
callVars   == <<call, deferred, queue, dispatch>>
vars == <<plan, workerVars, windowVars, op, recVars, callVars, down>>

Outcomes == {"ok", "failed", "gone", "unavailable", "unknown"}
Idle == [pc |-> "idle", prev |-> Nobody, cand |-> Nobody]
Free == [pc |-> "idle", call |-> Nobody, worker |-> Nobody, epoch |-> 0]

TypeOK ==
  /\ published \in Workers \cup {Nobody}
  /\ \A S \in {alive, stopping, hooked, noticed, survivors, ignored} : S \subseteq Workers
  /\ gate \in [active : BOOLEAN, waitable : BOOLEAN, aborted : BOOLEAN]
  /\ epoch \in Nat
  /\ lock \in Operations \cup {"recovery", Nobody}
  /\ op \in [Operations ->
       [pc : {"idle", "want", "stop", "kill", "spawn", "validate", "publish", "drop",
              "rollback", "restore", "end", "inside", "over"},
        prev : Workers \cup {Nobody}, cand : Workers \cup {Nobody}]]
  /\ rec \in [pc : {"idle", "want", "delay", "validate"},
              prev : Workers \cup {Nobody}, cand : Workers \cup {Nobody}]
  /\ attempts \in 0 .. MaxAttempts
  /\ call \in [Calls -> [pc : {"new", "admitted", "window", "ensured", "added", "queued",
                               "taken", "pending"} \cup Outcomes,
                         worker : Workers \cup {Nobody}, epoch : Nat]]
  /\ deferred \subseteq Calls
  /\ queue \in Seq(Calls)
  /\ dispatch \in [pc : {"idle", "wait", "admit", "call"}, call : Calls \cup {Nobody},
                   worker : Workers \cup {Nobody}, epoch : Nat]
  /\ down \in [pc : {"no", "abort", "settle", "close", "stop", "kill", "done"},
               taken : SUBSET Calls, prev : Workers \cup {Nobody}]

\* The engine with its first worker ready.
Init ==
  /\ plan \in Plans
  /\ published = CHOOSE w \in Workers : TRUE
  /\ alive = {published} /\ hooked = {published}
  /\ stopping = {} /\ noticed = {} /\ survivors = {} /\ ignored = {}
  /\ gate = [active |-> FALSE, waitable |-> FALSE, aborted |-> FALSE]
  /\ epoch = 0 /\ lock = Nobody
  /\ op = [o \in Operations |-> Idle]
  /\ rec = Idle /\ attempts = 0
  /\ call = [r \in Calls |-> [pc |-> "new", worker |-> Nobody, epoch |-> 0]]
  /\ deferred = {} /\ queue = <<>> /\ dispatch = Free
  /\ down = [pc |-> "no", taken |-> {}, prev |-> Nobody]

ShuttingDown == down.pc # "no"

-----------------------------------------------------------------------------
(* Workers.                                                                   *)

Named == {published, rec.prev, rec.cand, down.prev, dispatch.worker}
         \cup {op[o].prev : o \in Operations} \cup {op[o].cand : o \in Operations}
         \cup {call[r].worker : r \in Calls}
Unused == Workers \ (Named \cup alive \cup survivors)
Fresh == CHOOSE w \in Unused : TRUE

\* _Worker.start: another process; publication gives it its crash callback.
Spawn(w, hook) ==
  /\ w \in Unused   \* the bound on Workers
  /\ alive' = alive \cup {w}
  /\ stopping' = stopping \ {w}
  /\ hooked' = IF hook THEN hooked \cup {w} ELSE hooked \ {w}
  /\ noticed' = noticed \ {w}

\* _fail_pending
Unanswered(w) == [r \in Calls |->
  IF call[r].pc = "pending" /\ call[r].worker = w
  THEN [call[r] EXCEPT !.pc = "failed", !.worker = Nobody] ELSE call[r]]

Settle(r, outcome) ==
  call' = [call EXCEPT ![r].pc = outcome, ![r].worker = Nobody]

\* The rest of stop, after stopping is set: the process ends, or outlives the kill.
KillQuiet(w) ==   \* mutant: pending calls are not failed
  /\ alive' = alive \ {w}
  /\ UNCHANGED <<call, deferred>>
Kill(w) ==
  /\ alive' = alive \ {w}
  /\ call' = Unanswered(w)
  /\ deferred' = {r \in deferred : call'[r].pc \notin Outcomes}

Outlives(w) ==
  /\ w \in alive /\ plan.survivals > 0
  /\ plan' = [plan EXCEPT !.survivals = @ - 1]
  /\ survivors' = survivors \cup {w}

\* The process ends by itself.
Die(w) ==
  /\ w \in alive \ survivors /\ plan.crashes > 0
  /\ plan' = [plan EXCEPT !.crashes = @ - 1]
  /\ alive' = alive \ {w}
  /\ UNCHANGED <<published, stopping, hooked, noticed, survivors, windowVars, op, recVars, callVars, down>>

\* _watch_process, and _on_worker_crash: the name of the recovery thread is taken
\* while another recovery runs, and the wait for it is bounded.
Notice(w) ==
  /\ w \notin alive \cup stopping \cup noticed \cup Unused
  /\ noticed' = noticed \cup {w}
  /\ call' = Unanswered(w)
  /\ deferred' = {r \in deferred : call'[r].pc \notin Outcomes}
  /\ IF w \in hooked /\ ~ShuttingDown /\ rec = Idle
     THEN /\ rec' = [Idle EXCEPT !.pc = "want", !.prev = w]
          /\ UNCHANGED ignored
     ELSE /\ ignored' = ignored \cup {w}
          /\ UNCHANGED rec
  /\ UNCHANGED <<plan, published, alive, stopping, hooked, survivors, windowVars, op, attempts,
                 queue, dispatch, down>>

-----------------------------------------------------------------------------
(* _begin_switch, _end_switch, _switch_to_composition (shared mode).          *)

Open(waitable) ==
  /\ gate' = [gate EXCEPT !.active = TRUE, !.waitable = waitable]
  /\ epoch' = epoch + 1

Shut ==
  /\ gate' = [gate EXCEPT !.active = FALSE, !.waitable = FALSE]
  /\ epoch' = epoch + 1

Goto(o, pc) == op' = [op EXCEPT ![o].pc = pc]
Over(o) == op' = [op EXCEPT ![o] = [Idle EXCEPT !.pc = "over"]]
At(o, kinds, pc) == plan.kinds[o] \in kinds /\ op[o].pc = pc

AskSwitch(o) ==
  /\ At(o, {"switch"}, "idle")
  /\ Goto(o, IF gate.active THEN "over" ELSE "want")
  /\ UNCHANGED <<plan, workerVars, windowVars, recVars, callVars, down>>

\* Under the lock the window is looked at again.  A live worker stays when it runs
\* this composition already.
BeginSwitch(o) ==
  /\ At(o, {"switch"}, "want") /\ lock = Nobody
  /\ \/ (gate.active \/ published \in alive) /\ Over(o) /\ UNCHANGED windowVars
     \/ /\ ~gate.active
        /\ lock' = o
        /\ Open(TRUE)
        /\ op' = [op EXCEPT ![o] = [pc |-> IF published = Nobody THEN "spawn" ELSE "stop",
                                    prev |-> published, cand |-> Nobody]]
  /\ UNCHANGED <<plan, workerVars, recVars, callVars, down>>

\* stop, up to the end of its admission_lock.
StopPrevious(o) ==
  /\ At(o, {"switch", "session", "compile"}, "stop")
  /\ stopping' = stopping \cup {op[o].prev}
  /\ Goto(o, "kill")
  /\ UNCHANGED <<plan, published, alive, hooked, noticed, survivors, windowVars, recVars, callVars, down>>

\* A switch goes on although the worker outlived its stop.
KillPrevious(o) ==
  /\ At(o, {"switch"}, "kill")
  /\ Goto(o, "spawn")
  /\ \/ Kill(op[o].prev) /\ UNCHANGED <<plan, survivors>>
     \/ Outlives(op[o].prev) /\ UNCHANGED <<alive, call, deferred>>
  /\ UNCHANGED <<published, stopping, hooked, noticed, windowVars, recVars, queue, dispatch, down>>

SpawnCandidate(o) ==
  /\ At(o, {"switch"}, "spawn")
  /\ Spawn(Fresh, FALSE)
  /\ op' = [op EXCEPT ![o].pc = "validate", ![o].cand = Fresh]
  /\ UNCHANGED <<plan, published, survivors, windowVars, recVars, callVars, down>>

\* _validate_worker_runtime, and promote_registry (undone when it fails).
Validate(o) ==
  /\ At(o, {"switch"}, "validate")
  /\ \/ op[o].cand \in alive /\ Goto(o, "publish")
     \/ Goto(o, "drop")
  /\ UNCHANGED <<plan, workerVars, windowVars, recVars, callVars, down>>

Publish(o) ==
  /\ At(o, {"switch"}, "publish")
  /\ published' = op[o].cand
  /\ hooked' = hooked \cup {op[o].cand}
  /\ attempts' = 0
  /\ Goto(o, "end")
  /\ UNCHANGED <<plan, alive, stopping, noticed, survivors, windowVars, rec, ignored, callVars, down>>

\* The rejected candidate is stopped; if it outlives that, the exception skips the
\* rollback.
DropKept(o) ==   \* mutant: the rejected candidate is not stopped
  /\ At(o, {"switch"}, "drop")
  /\ Goto(o, "rollback")
  /\ UNCHANGED <<plan, workerVars, windowVars, recVars, callVars, down>>
Drop(o) ==
  /\ At(o, {"switch"}, "drop")
  /\ stopping' = stopping \cup {op[o].cand}
  /\ \/ /\ alive' = alive \ {op[o].cand}
        /\ Goto(o, IF op[o].prev = Nobody THEN "end" ELSE "rollback")
        /\ UNCHANGED <<plan, survivors>>
     \/ /\ Outlives(op[o].cand)
        /\ Goto(o, "end")
        /\ UNCHANGED alive
  /\ UNCHANGED <<published, hooked, noticed, windowVars, recVars, callVars, down>>

\* restore_previous_worker: a process like the previous one; if it does not come up,
\* the stopped worker stays published.
Rollback(o) ==
  /\ At(o, {"switch"}, "rollback")
  /\ Spawn(Fresh, FALSE)
  /\ op' = [op EXCEPT ![o].pc = "restore", ![o].cand = Fresh]
  /\ UNCHANGED <<plan, published, survivors, windowVars, recVars, callVars, down>>

RestoreStuck(o) ==   \* mutant: a rollback that fails returns past the end of the window
  /\ At(o, {"switch"}, "restore")
  /\ \/ /\ op[o].cand \in alive
        /\ published' = op[o].cand
        /\ hooked' = hooked \cup {op[o].cand}
        /\ Goto(o, "end")
        /\ UNCHANGED <<stopping, alive, lock>>
     \/ /\ stopping' = stopping \cup {op[o].cand}
        /\ alive' = alive \ {op[o].cand}
        /\ Over(o) /\ lock' = Nobody
        /\ UNCHANGED <<published, hooked>>
  /\ UNCHANGED <<plan, noticed, survivors, gate, epoch, recVars, callVars, down>>
Restore(o) ==
  /\ At(o, {"switch"}, "restore")
  /\ Goto(o, "end")
  /\ \/ /\ op[o].cand \in alive
        /\ published' = op[o].cand
        /\ hooked' = hooked \cup {op[o].cand}
        /\ UNCHANGED <<plan, stopping, alive, survivors>>
     \/ /\ stopping' = stopping \cup {op[o].cand}
        /\ \/ alive' = alive \ {op[o].cand} /\ UNCHANGED <<plan, survivors>>
           \/ Outlives(op[o].cand) /\ UNCHANGED alive
        /\ UNCHANGED <<published, hooked>>
  /\ UNCHANGED <<noticed, windowVars, recVars, callVars, down>>

EndSwitch(o) ==
  /\ At(o, {"switch"}, "end")
  /\ Shut
  /\ lock' = Nobody
  /\ Over(o)
  /\ UNCHANGED <<plan, workerVars, recVars, callVars, down>>

-----------------------------------------------------------------------------
(* suspend_for_maintenance and resume_after_maintenance.  A session keeps the *)
(* lock in between; the compilation of a voice model does not.                *)

Maintenance == {"session", "compile"}

SuspendUngated(o) ==   \* mutant: no window is opened
  /\ At(o, Maintenance, "idle")
  /\ IF ShuttingDown
     THEN Over(o) /\ UNCHANGED windowVars
     ELSE /\ lock = Nobody /\ lock' = o
          /\ op' = [op EXCEPT ![o].pc = IF published = Nobody THEN "inside" ELSE "stop",
                              ![o].prev = published]
          /\ UNCHANGED <<gate, epoch>>
  /\ UNCHANGED <<plan, workerVars, recVars, callVars, down>>
Suspend(o) ==
  /\ At(o, Maintenance, "idle")
  /\ IF ShuttingDown
     THEN Over(o) /\ UNCHANGED windowVars
     ELSE /\ lock = Nobody
          /\ Open(FALSE)
          /\ op' = [op EXCEPT ![o].pc = IF published = Nobody THEN "inside" ELSE "stop",
                              ![o].prev = published]
          /\ lock' = IF published = Nobody /\ plan.kinds[o] = "compile" THEN Nobody ELSE o
  /\ UNCHANGED <<plan, workerVars, recVars, callVars, down>>

\* _stop_runtime_workers: a worker that has stopped is no longer published; one that
\* outlives its stop stays, and the window with it.
Suspended(o) ==
  /\ At(o, Maintenance, "kill")
  /\ \/ /\ Kill(op[o].prev)
        /\ published' = IF published = op[o].prev THEN Nobody ELSE published
        /\ op' = [op EXCEPT ![o] = [Idle EXCEPT !.pc = "inside"]]
        /\ lock' = IF plan.kinds[o] = "session" THEN o ELSE Nobody
        /\ UNCHANGED <<plan, survivors>>
     \/ /\ Outlives(op[o].prev)
        /\ Over(o)
        /\ lock' = Nobody
        /\ UNCHANGED <<alive, call, deferred, published>>
  /\ UNCHANGED <<stopping, hooked, noticed, gate, epoch, recVars, queue, dispatch, down>>

\* _init_workers unless a worker is there, and the end of the window; nothing of both
\* once the engine shuts down.
Resume(o) ==
  /\ At(o, Maintenance, "inside")
  /\ lock \in {o, Nobody}
  /\ lock' = Nobody
  /\ Over(o)
  /\ IF ShuttingDown
     THEN UNCHANGED <<workerVars, gate, epoch>>
     ELSE /\ Shut
          /\ IF published = Nobody
             THEN published' = Fresh /\ Spawn(Fresh, TRUE) /\ UNCHANGED survivors
             ELSE UNCHANGED workerVars
  /\ UNCHANGED <<plan, recVars, callVars, down>>

-----------------------------------------------------------------------------
(* _recover_worker.                                                           *)

RecoverTry ==   \* mutant: a recovery that finds the lock taken gives up
  /\ rec.pc = "want"
  /\ IF lock # Nobody \/ gate.active \/ published # rec.prev \/ ShuttingDown
     THEN rec' = Idle /\ UNCHANGED <<lock, attempts, ignored>>
     ELSE /\ lock' = "recovery"
          /\ rec' = [rec EXCEPT !.pc = "delay"]
          /\ UNCHANGED <<attempts, ignored>>
  /\ UNCHANGED <<plan, workerVars, gate, epoch, op, callVars, down>>

RecoverShared ==   \* mutant: the lock is not kept during the recovery
  /\ rec.pc = "want" /\ lock = Nobody
  /\ IF gate.active \/ published # rec.prev \/ ShuttingDown
     THEN rec' = Idle
     ELSE rec' = [rec EXCEPT !.pc = "delay"]
  /\ UNCHANGED <<plan, workerVars, windowVars, attempts, ignored, op, callVars, down>>

\* The attempts of a worker that lived long enough do not count.
Recover ==
  /\ rec.pc = "want" /\ lock = Nobody
  /\ IF gate.active \/ published # rec.prev \/ ShuttingDown
     THEN rec' = Idle /\ UNCHANGED <<lock, attempts, ignored>>
     ELSE \E before \in {0, attempts} :
            /\ attempts' = before
            /\ IF before = MaxAttempts
               THEN rec' = Idle /\ ignored' = ignored \cup {rec.prev} /\ UNCHANGED lock
               ELSE rec' = [rec EXCEPT !.pc = "delay"] /\ lock' = "recovery" /\ UNCHANGED ignored
  /\ UNCHANGED <<plan, workerVars, gate, epoch, op, callVars, down>>

SpawnRecovery ==
  /\ rec.pc = "delay"
  /\ IF ShuttingDown \/ published # rec.prev
     THEN rec' = Idle /\ lock' = Nobody /\ UNCHANGED workerVars
     ELSE /\ Spawn(Fresh, FALSE)
          /\ rec' = [rec EXCEPT !.pc = "validate", !.cand = Fresh]
          /\ UNCHANGED <<lock, published, survivors>>
  /\ UNCHANGED <<plan, gate, epoch, op, attempts, ignored, callVars, down>>

\* The candidate takes the place of the crashed worker if that is still published.
Recovered ==
  /\ rec.pc = "validate" /\ rec.cand \in alive
  /\ rec' = Idle /\ lock' = (IF lock = "recovery" THEN Nobody ELSE lock)
  /\ IF published = rec.prev
     THEN /\ published' = rec.cand
          /\ hooked' = hooked \cup {rec.cand}
          /\ attempts' = attempts + 1
          /\ UNCHANGED <<alive, stopping>>
     ELSE /\ alive' = alive \ {rec.cand}
          /\ stopping' = stopping \cup {rec.cand}
          /\ UNCHANGED <<published, hooked, attempts>>
  /\ UNCHANGED <<plan, noticed, survivors, gate, epoch, op, ignored, callVars, down>>

\* It did not come up: another attempt, until the circuit opens.  A candidate that
\* outlives its stop ends the recovery with an exception.
NotRecovered ==
  /\ rec.pc = "validate"
  /\ stopping' = stopping \cup {rec.cand}
  /\ \/ /\ alive' = alive \ {rec.cand}
        /\ attempts' = attempts + 1
        /\ UNCHANGED <<plan, survivors>>
        /\ IF attempts + 1 < MaxAttempts
           THEN rec' = [rec EXCEPT !.pc = "delay", !.cand = Nobody] /\ UNCHANGED <<lock, ignored>>
           ELSE rec' = Idle /\ lock' = Nobody /\ ignored' = ignored \cup {rec.prev}
     \/ /\ Outlives(rec.cand)
        /\ rec' = Idle /\ lock' = Nobody /\ ignored' = ignored \cup {rec.prev}
        /\ UNCHANGED <<alive, attempts>>
  /\ UNCHANGED <<published, hooked, noticed, gate, epoch, op, callVars, down>>

-----------------------------------------------------------------------------
(* call, _defer_or_fail, _retry_after_switch, _call_after_switch.             *)

\* _switch_in_progress
InProgressNow(e) == gate.active   \* mutant: a switch that has come and gone is not seen
InProgress(e) == gate.active \/ epoch # e

\* _admit_call: the window, the worker and the epoch in one region.
Admit(r) ==
  /\ r \in plan.calls /\ call[r].pc = "new"
  /\ IF gate.active
     THEN call' = [call EXCEPT ![r].pc = "window"]
     ELSE call' = [call EXCEPT ![r] = [pc |-> "admitted", worker |-> published, epoch |-> epoch]]
  /\ UNCHANGED <<plan, workerVars, windowVars, op, recVars, deferred, queue, dispatch, down>>

Accepts(w) == w \in alive \ stopping

\* _Worker.call, under its admission_lock; a worker that is gone because the runtime
\* was changed meanwhile is a reason to defer the call.
Send(r) ==
  LET w == call[r].worker IN
  /\ call[r].pc = "admitted"
  /\ CASE w # Nobody /\ Accepts(w) -> call' = [call EXCEPT ![r].pc = "pending"]
       [] ~(w # Nobody /\ Accepts(w)) /\ InProgress(call[r].epoch) ->
            call' = [call EXCEPT ![r].pc = "window", ![r].worker = Nobody]
       [] OTHER -> Settle(r, IF w = Nobody THEN "unknown" ELSE "gone")
  /\ UNCHANGED <<plan, workerVars, windowVars, op, recVars, deferred, queue, dispatch, down>>

\* _defer_or_fail, and _ensure_switch_dispatcher.
Defer(r) ==
  /\ call[r].pc = "window"
  /\ IF (gate.active /\ (gate.aborted \/ ~gate.waitable)) \/ ShuttingDown
     THEN Settle(r, "unavailable")
     ELSE call' = [call EXCEPT ![r].pc = "ensured"]
  /\ UNCHANGED <<plan, workerVars, windowVars, op, recVars, deferred, queue, dispatch, down>>

AddDeferred(r) ==
  /\ call[r].pc = "ensured"
  /\ deferred' = deferred \cup {r}
  /\ call' = [call EXCEPT ![r].pc = "added"]
  /\ UNCHANGED <<plan, workerVars, windowVars, op, recVars, queue, dispatch, down>>

\* The dispatcher may be closed by now; its refusal is not looked at.
SubmitDeferred(r) ==
  /\ call[r].pc = "added"
  /\ call' = [call EXCEPT ![r].pc = "queued"]
  /\ queue' = IF down.pc \in {"stop", "kill", "done"} THEN queue ELSE Append(queue, r)
  /\ UNCHANGED <<plan, workerVars, windowVars, op, recVars, deferred, dispatch, down>>

\* The worker answers, within the call's deadline.
Answer(r) ==
  /\ call[r].pc = "pending" /\ call[r].worker \in alive
  /\ Settle(r, "ok")
  /\ deferred' = deferred \ {r}
  /\ UNCHANGED <<plan, workerVars, windowVars, op, recVars, queue, dispatch, down>>

-----------------------------------------------------------------------------
(* _dispatch_after_switch, in the dispatcher's only thread.                   *)

TakeDeferred ==
  /\ dispatch.pc = "idle" /\ queue # <<>>
  /\ queue' = Tail(queue)
  /\ IF call[Head(queue)].pc = "queued"
     THEN /\ dispatch' = [Free EXCEPT !.pc = "wait", !.call = Head(queue)]
          /\ call' = [call EXCEPT ![Head(queue)].pc = "taken"]
     ELSE UNCHANGED <<dispatch, call>>
  /\ UNCHANGED <<plan, workerVars, windowVars, op, recVars, deferred, down>>

SettleTaken(outcome) ==
  /\ dispatch' = Free
  /\ IF call[dispatch.call].pc = "taken"
     THEN Settle(dispatch.call, outcome) /\ deferred' = deferred \ {dispatch.call}
     ELSE UNCHANGED <<call, deferred>>

\* wait_idle: the window is closed, cannot be waited for, or outlasts the call.
WindowClosed ==
  /\ dispatch.pc = "wait"
  /\ ~gate.active /\ ~ShuttingDown
  /\ dispatch' = [dispatch EXCEPT !.pc = "admit"]
  /\ UNCHANGED <<plan, workerVars, windowVars, op, recVars, call, deferred, queue, down>>

GiveUpWaiting ==
  /\ dispatch.pc = "wait"
  /\ SettleTaken("unavailable")
  /\ UNCHANGED <<plan, workerVars, windowVars, op, recVars, queue, down>>

AdmitDeferred ==
  /\ dispatch.pc = "admit"
  /\ dispatch' = IF gate.active THEN [dispatch EXCEPT !.pc = "wait"]
                 ELSE [dispatch EXCEPT !.pc = "call", !.worker = published, !.epoch = epoch]
  /\ UNCHANGED <<plan, workerVars, windowVars, op, recVars, call, deferred, queue, down>>

SendDeferred ==
  LET w == dispatch.worker IN
  /\ dispatch.pc = "call"
  /\ CASE w # Nobody /\ Accepts(w) ->
            /\ dispatch' = Free
            /\ call' = IF call[dispatch.call].pc = "taken"
                       THEN [call EXCEPT ![dispatch.call].pc = "pending", ![dispatch.call].worker = w]
                       ELSE call
            /\ UNCHANGED deferred
       [] ~(w # Nobody /\ Accepts(w)) /\ InProgress(dispatch.epoch) ->
            /\ dispatch' = [dispatch EXCEPT !.pc = "wait", !.worker = Nobody]
            /\ UNCHANGED <<call, deferred>>
       [] OTHER -> SettleTaken(IF w = Nobody THEN "unknown" ELSE "gone")
  /\ UNCHANGED <<plan, workerVars, windowVars, op, recVars, queue, down>>

-----------------------------------------------------------------------------
(* prepare_shutdown and shutdown.                                             *)

BeginShutdown ==
  /\ down.pc = "no" /\ plan.exit
  /\ down' = [down EXCEPT !.pc = "abort"]
  /\ UNCHANGED <<plan, workerVars, windowVars, op, recVars, callVars>>

\* _abort_deferred_calls: the waiters, the snapshot, the answers, the dispatcher.
AbortDeferred ==
  /\ down.pc = "abort"
  /\ gate' = [gate EXCEPT !.aborted = TRUE]
  /\ down' = [down EXCEPT !.pc = "settle", !.taken = deferred]
  /\ deferred' = {}
  /\ UNCHANGED <<plan, workerVars, epoch, lock, op, recVars, call, queue, dispatch>>

SettleAborted ==
  /\ down.pc = "settle"
  /\ call' = [r \in Calls |->
       IF r \in down.taken /\ call[r].pc \notin Outcomes
       THEN [call[r] EXCEPT !.pc = "unavailable", !.worker = Nobody] ELSE call[r]]
  /\ down' = [down EXCEPT !.pc = "close", !.taken = {}]
  /\ UNCHANGED <<plan, workerVars, windowVars, op, recVars, deferred, queue, dispatch>>

CloseDispatcher ==
  /\ down.pc = "close"
  /\ queue' = <<>>
  /\ down' = [down EXCEPT !.pc = "stop"]
  /\ UNCHANGED <<plan, workerVars, windowVars, op, recVars, call, deferred, dispatch>>

\* _stop_runtime_workers
StopWorkers ==
  \/ /\ down.pc = "stop"
     /\ IF published = Nobody
        THEN down' = [down EXCEPT !.pc = "done"] /\ UNCHANGED stopping
        ELSE down' = [down EXCEPT !.pc = "kill", !.prev = published]
             /\ stopping' = stopping \cup {published}
     /\ UNCHANGED <<plan, published, alive, hooked, noticed, survivors, windowVars, op, recVars, callVars>>
  \/ /\ down.pc = "kill"
     /\ down' = [down EXCEPT !.pc = "done", !.prev = Nobody]
     /\ \/ /\ Kill(down.prev)
           /\ published' = IF published = down.prev THEN Nobody ELSE published
           /\ UNCHANGED <<plan, survivors>>
        \/ /\ Outlives(down.prev)
           /\ UNCHANGED <<alive, call, deferred, published>>
     /\ UNCHANGED <<stopping, hooked, noticed, windowVars, op, recVars, queue, dispatch>>

-----------------------------------------------------------------------------
SwitchStep(o) ==
  \/ BeginSwitch(o) \/ StopPrevious(o) \/ KillPrevious(o) \/ SpawnCandidate(o)
  \/ Validate(o) \/ Publish(o) \/ Drop(o) \/ Rollback(o) \/ Restore(o) \/ EndSwitch(o)
RecoveryStep == Recover \/ SpawnRecovery \/ Recovered \/ NotRecovered
CallStep(r) == Send(r) \/ Defer(r) \/ AddDeferred(r) \/ SubmitDeferred(r) \/ Answer(r)
DispatchStep == TakeDeferred \/ WindowClosed \/ GiveUpWaiting \/ AdmitDeferred \/ SendDeferred
ShutdownStep == AbortDeferred \/ SettleAborted \/ CloseDispatcher \/ StopWorkers

OwnStep ==
  \/ \E o \in Operations : SwitchStep(o) \/ Suspended(o) \/ Resume(o)
  \/ \E w \in Workers : Notice(w)
  \/ RecoveryStep \/ DispatchStep \/ ShutdownStep
  \/ \E r \in Calls : CallStep(r)

Next ==
  \/ OwnStep
  \/ \E o \in Operations : AskSwitch(o) \/ Suspend(o)
  \/ \E w \in Workers : Die(w)
  \/ \E r \in Calls : Admit(r)
  \/ BeginShutdown

Spec == Init /\ [][Next]_vars

\* What has begun goes on: threads, validations (bounded by their timeouts),
\* maintenance, the answers of a live worker (bounded by their deadline), and time.
FairSpec == Spec /\ WF_vars(OwnStep)

-----------------------------------------------------------------------------
\* Every process that runs is the published one, is the candidate of the operation or
\* the recovery under way, or has outlived its stop: none is left behind.
NoOrphan ==
  alive \subseteq {published, rec.cand} \cup survivors
                  \cup {op[o].prev : o \in Operations} \cup {op[o].cand : o \in Operations}
                  \cup {down.prev}

\* During a maintenance session no process runs, except one that outlived a stop, and
\* no call is let in or kept waiting (maintenance_session, _recover_worker).
SessionQuiet ==
  \A o \in Operations :
    (plan.kinds[o] = "session" /\ op[o].pc = "inside") =>
       /\ alive \subseteq survivors
       /\ gate.active /\ ~gate.waitable

\* Outside the windows there is a worker to give to a call, whatever failed inside
\* them, until the engine shuts down.
OpenHasWorker == (~gate.active /\ ~ShuttingDown) => published # Nobody

\* A call is not refused because a change of the runtime stopped the worker it was
\* admitted to, also when the change began and ended in between: the refused call's
\* worker died by itself, or is what the failed change has left.
NotLostToSwitch ==
  [][\A r \in Calls :
       (call[r].pc \in {"admitted", "taken"} /\ call'[r].pc \in {"gone", "unknown"}) =>
          LET w == IF call[r].pc = "taken" THEN dispatch.worker ELSE call[r].worker IN
          w \notin stopping \ noticed \/ published = w \/ ShuttingDown]_vars

\* A window is closed again (the finally of a switch, of resume_after_maintenance),
\* unless a worker outlived its suspension or the engine shuts down.
WindowsClose ==
  []<>(~gate.active \/ ShuttingDown \/ survivors # {})

\* The dispatcher was closed between the deferral of the call and its submission.
Dropped(r) == /\ call[r].pc = "queued" /\ dispatch.call # r /\ down.pc \in {"stop", "kill", "done"}
              /\ \A i \in 1 .. Len(queue) : queue[i] # r

\* Every call gets an answer, whatever changes of the runtime it meets (call,
\* _dispatch_after_switch), except one that the closing dispatcher drops.
CallsSettle == \A r \in Calls : []<>(call[r].pc \in Outcomes \cup {"new"} \/ Dropped(r))

\* "Deferred calls must get an answer" when the engine is shut down: the docstring of
\* _abort_deferred_calls.
DeferredAnswered == \A r \in Calls : []<>(call[r].pc \in Outcomes \cup {"new"})

\* A published worker that died by itself is replaced, unless its crash callback was
\* not set yet, another recovery had the thread's name, or the attempts are used up.
CrashesRecovered ==
  \A w \in Workers :
    []<>~(published = w /\ w \notin alive \cup stopping \cup ignored /\ ~ShuttingDown)

\* The types, that no process is left behind (NoOrphan), and that outside the windows
\* there is one to call (OpenHasWorker).
WorkersAccounted == TypeOK /\ NoOrphan /\ OpenHasWorker

\* Nothing waits for ever: windows close and every call is settled.
WaitsEnd == WindowsClose /\ CallsSettle
=============================================================================
