---------------------------- MODULE TaskSupervisor ----------------------------
(* TaskSupervisor (core/task_supervisor.py): the registry of the background   *)
(* threads and pool futures of the application.  Any thread may ask for a     *)
(* task; a request holds the replacement lock from the search for its         *)
(* predecessor until the new task is launched, waiting at most a bounded time *)
(* for the predecessor.  cancel_owner, shutdown and the watchdog take only    *)
(* the registry's own lock: each takes a snapshot under it and marks the      *)
(* tasks one by one after they released it.  Each action is one region under  *)
(* the registry's lock or one step of a thread outside it.                    *)
(*                                                                            *)
(* The pools (DaemonPool) appear as the queue of a future.  An owner is never *)
(* collected while it has tasks, so its identity is not reused.               *)
EXTENDS Naturals, FiniteSets

CONSTANTS Tasks, Owners,
          NoTask,
          Plans        \* of: the request for each task, [key, kind, replace, overlap,
                       \* deadline, parent], where a key is <<owner, name>>;
                       \* sweeps: the owners that may be cancelled, "app" for shutdown

ASSUME TasksAssumption ==
  /\ IsFiniteSet(Tasks) /\ NoTask \notin Tasks
  /\ "app" \notin Owners
  /\ \A p \in Plans : p.sweeps \subseteq Owners \cup {"app"}
  /\ \A p \in Plans, t \in Tasks :
        /\ p.of[t].key[1] \in Owners
        /\ p.of[t].kind \in {"thread", "future"}
        /\ {p.of[t].replace, p.of[t].overlap, p.of[t].deadline} \subseteq BOOLEAN
        /\ p.of[t].parent \in Tasks \cup {NoTask}

VARIABLES
  plan,       \* what each request asks for
  closed,     \* _closed
  lock,       \* the request that holds _replacement_lock
  records,    \* _records
  named,      \* _named_index
  request,    \* how far each start_thread or submit has come
  previous,   \* the task it waits for
  phase,      \* the life of the task's thread or future
  stop,       \* tasks whose cancel_event is set
  watched,    \* futures stored in their record, with the callback attached
  late,       \* tasks whose deadline has passed
  timedOut,   \* tasks the watchdog has claimed
  sweep,      \* cancel_owner of each owner and shutdown ("app"): the snapshot
  toMark,     \* and what is left of it to be marked
  swept,      \* the sweeps that have taken theirs
  dog,        \* the watchdog's thread
  expired     \* tasks it still has to cancel

requestVars == <<lock, request, previous>>
taskVars    == <<phase, stop, watched>>
tableVars   == <<records, named>>
clockVars   == <<late, timedOut>>
sweepVars   == <<sweep, toMark, swept>>
dogVars     == <<dog, expired>>
vars == <<plan, closed, requestVars, taskVars, tableVars, clockVars, sweepVars, dogVars>>

Sweepers == Owners \cup {"app"}
Keys == {plan.of[t].key : t \in Tasks}

TypeOK ==
  /\ plan \in Plans
  /\ closed \in BOOLEAN
  /\ lock \in Tasks \cup {NoTask}
  /\ records \subseteq Tasks
  /\ named \in [Keys -> Tasks \cup {NoTask}]
  /\ request \in [Tasks -> {"none", "asked", "waiting", "free", "launching", "storing",
                            "done", "refused"}]
  /\ previous \in [Tasks -> Tasks \cup {NoTask}]
  /\ phase \in [Tasks -> {"none", "queued", "body", "done", "over"}]
  /\ stop \subseteq Tasks /\ watched \subseteq Tasks
  /\ timedOut \subseteq late /\ late \subseteq Tasks
  /\ sweep \in [Sweepers -> SUBSET Tasks] /\ toMark \in [Sweepers -> SUBSET Tasks]
  /\ \A s \in Sweepers : toMark[s] \subseteq sweep[s]
  /\ swept \subseteq plan.sweeps
  /\ dog \in {"scan", "cancel", "gone"}
  /\ expired \subseteq Tasks

Init ==
  /\ plan \in Plans
  /\ closed = FALSE
  /\ lock = NoTask
  /\ records = {}
  /\ named = [k \in Keys |-> NoTask]
  /\ request = [t \in Tasks |-> "none"]
  /\ previous = [t \in Tasks |-> NoTask]
  /\ phase = [t \in Tasks |-> "none"]
  /\ stop = {} /\ watched = {} /\ late = {} /\ timedOut = {}
  /\ sweep = [s \in Sweepers |-> {}]
  /\ toMark = [s \in Sweepers |-> {}]
  /\ swept = {}
  /\ dog = "scan" /\ expired = {}

-----------------------------------------------------------------------------
Key(t) == plan.of[t].key
IsThread(t) == plan.of[t].kind = "thread"

\* _record_running.  A thread is alive from its start until it has run _finish; a
\* future that is not stored yet counts as running.
Running(t) ==
  IF IsThread(t) THEN phase[t] \in {"body", "done"}
                 ELSE t \notin watched \/ phase[t] \notin {"done", "over"}

\* Setting the event, and future.cancel where the record has its future: a future
\* that no worker has taken ends here, in the thread that cancels it.
Ended(T) == [t \in Tasks |->
  IF t \in T /\ t \in watched /\ phase[t] = "queued" THEN "done" ELSE phase[t]]

Mark(T) ==
  /\ stop' = stop \cup T
  /\ phase' = Ended(T)

ForgetName(t) ==   \* mutant: the name is given up whoever has it now
  /\ records' = records \ {t}
  /\ named' = [named EXCEPT ![Key(t)] = NoTask]

\* _finish: the name is given up only while it still means this task.
Forget(t) ==
  /\ records' = records \ {t}
  /\ named' = IF named[Key(t)] = t THEN [named EXCEPT ![Key(t)] = NoTask] ELSE named

-----------------------------------------------------------------------------
(* start_thread and submit.                                                   *)

\* A task with a parent is asked for by the parent's own code.
Ask(t) ==
  /\ request[t] = "none"
  /\ plan.of[t].parent # NoTask => phase[plan.of[t].parent] = "body"
  /\ request' = [request EXCEPT ![t] = "asked"]
  /\ UNCHANGED <<plan, closed, lock, previous, taskVars, tableVars, clockVars, sweepVars, dogVars>>

\* The replacement lock and _running_named_record.  A predecessor that may not be
\* replaced refuses the request; one that may is asked to stop, and waited for
\* unless the two may overlap.
Predecessor(t) ==
  LET p == named[Key(t)] IN
  IF p # NoTask /\ Running(p) THEN p ELSE NoTask

FindPrevious(t) ==
  /\ request[t] = "asked" /\ lock = NoTask
  /\ LET p == Predecessor(t) IN
     \/ /\ p = NoTask
        /\ lock' = t
        /\ request' = [request EXCEPT ![t] = "free"]
        /\ UNCHANGED <<previous, stop, phase>>
     \/ /\ p # NoTask /\ ~plan.of[t].replace
        /\ request' = [request EXCEPT ![t] = "refused"]
        /\ UNCHANGED <<lock, previous, stop, phase>>
     \/ /\ p # NoTask /\ plan.of[t].replace
        /\ Mark({p})
        /\ lock' = t
        /\ previous' = [previous EXCEPT ![t] = p]
        /\ request' = [request EXCEPT ![t] = IF plan.of[t].overlap THEN "free" ELSE "waiting"]
  /\ UNCHANGED <<plan, closed, watched, tableVars, clockVars, sweepVars, dogVars>>

WaitTimesOutStart(t) ==   \* mutant: the replacement starts although the time is over
  /\ request[t] = "waiting" /\ Running(previous[t])
  /\ request' = [request EXCEPT ![t] = "free"]
  /\ UNCHANGED <<plan, closed, lock, previous, taskVars, tableVars, clockVars, sweepVars, dogVars>>

WaitUnbounded(t) ==   \* mutant: the wait for the predecessor has no bound
  /\ request[t] = "waiting" /\ ~Running(previous[t])
  /\ request' = [request EXCEPT ![t] = "free"]
  /\ UNCHANGED <<plan, closed, lock, previous, taskVars, tableVars, clockVars, sweepVars, dogVars>>

\* _wait_record gives up: the request is refused.  A task that replaces itself waits
\* for itself until then.
WaitTimesOut(t) ==
  /\ request[t] = "waiting" /\ Running(previous[t])
  /\ request' = [request EXCEPT ![t] = "refused"]
  /\ lock' = NoTask
  /\ UNCHANGED <<plan, closed, previous, taskVars, tableVars, clockVars, sweepVars, dogVars>>

\* There is no predecessor to wait for, or it has stopped in time.
Ready(t) == request[t] = "free" \/ (request[t] = "waiting" /\ ~Running(previous[t]))

RegisterClosed(t) ==   \* mutant: _closed was read before the wait for the lock
  /\ Ready(t)
  /\ request' = [request EXCEPT ![t] = "launching"]
  /\ records' = records \cup {t}
  /\ named' = [named EXCEPT ![Key(t)] = t]
  /\ UNCHANGED <<plan, closed, lock, previous, taskVars, clockVars, sweepVars, dogVars>>

\* _closed is read, and the record made, in one region of the registry's lock.
Register(t) ==
  /\ Ready(t)
  /\ \/ /\ closed
        /\ request' = [request EXCEPT ![t] = "refused"]
        /\ lock' = NoTask
        /\ UNCHANGED tableVars
     \/ /\ ~closed
        /\ request' = [request EXCEPT ![t] = "launching"]
        /\ records' = records \cup {t}
        /\ named' = [named EXCEPT ![Key(t)] = t]
        /\ UNCHANGED lock
  /\ UNCHANGED <<plan, closed, previous, taskVars, clockVars, sweepVars, dogVars>>

\* thread.start: the target runs at once.
StartThread(t) ==
  /\ request[t] = "launching" /\ IsThread(t)
  /\ phase' = [phase EXCEPT ![t] = "body"]
  /\ request' = [request EXCEPT ![t] = "done"]
  /\ lock' = NoTask
  /\ UNCHANGED <<plan, closed, previous, stop, watched, tableVars, clockVars, sweepVars, dogVars>>

\* executors().submit: a worker may take the future before its record has it.
Enqueue(t) ==
  /\ request[t] = "launching" /\ ~IsThread(t)
  /\ phase' = [phase EXCEPT ![t] = "queued"]
  /\ request' = [request EXCEPT ![t] = "storing"]
  /\ UNCHANGED <<plan, closed, lock, previous, stop, watched, tableVars, clockVars, sweepVars, dogVars>>

\* The thread cannot be started, or the pool refuses the call.
LaunchFails(t) ==
  /\ request[t] = "launching"
  /\ Forget(t)
  /\ request' = [request EXCEPT ![t] = "refused"]
  /\ lock' = NoTask
  /\ UNCHANGED <<plan, closed, previous, taskVars, clockVars, sweepVars, dogVars>>

StoreLate(t) ==   \* mutant: the callback of a future that is already done is not run
  /\ request[t] = "storing"
  /\ watched' = IF phase[t] = "done" THEN watched ELSE watched \cup {t}
  /\ request' = [request EXCEPT ![t] = "done"]
  /\ lock' = NoTask
  /\ UNCHANGED <<plan, closed, previous, phase, stop, tableVars, clockVars, sweepVars, dogVars>>

\* record.future = future and add_done_callback, which runs the callback at once
\* for a future that is done (End and Cancelled lead to Finish).
StoreFuture(t) ==
  /\ request[t] = "storing"
  /\ watched' = watched \cup {t}
  /\ request' = [request EXCEPT ![t] = "done"]
  /\ lock' = NoTask
  /\ UNCHANGED <<plan, closed, previous, phase, stop, tableVars, clockVars, sweepVars, dogVars>>

-----------------------------------------------------------------------------
(* The tasks.                                                                 *)

TakeUnguarded(t) ==   \* mutant: the function is submitted without the guard
  /\ phase[t] = "queued"
  /\ phase' = [phase EXCEPT ![t] = "body"]
  /\ UNCHANGED <<plan, closed, requestVars, stop, watched, tableVars, clockVars, sweepVars, dogVars>>

\* A worker of the pool takes the future; guarded refuses a task whose event is set.
Take(t) ==
  /\ phase[t] = "queued"
  /\ phase' = [phase EXCEPT ![t] = IF t \in stop THEN "done" ELSE "body"]
  /\ UNCHANGED <<plan, closed, requestVars, stop, watched, tableVars, clockVars, sweepVars, dogVars>>

\* The task's function returns or raises; not while it waits in a request of its own.
Return(t) ==
  /\ phase[t] = "body"
  /\ \A u \in Tasks : plan.of[u].parent = t => request[u] \in {"none", "done", "refused"}
  /\ phase' = [phase EXCEPT ![t] = "done"]
  /\ UNCHANGED <<plan, closed, requestVars, stop, watched, tableVars, clockVars, sweepVars, dogVars>>

\* The runner's finally, or the done-callback.
Finish(t) ==
  /\ phase[t] = "done" /\ (IsThread(t) \/ t \in watched)
  /\ Forget(t)
  /\ phase' = [phase EXCEPT ![t] = "over"]
  /\ UNCHANGED <<plan, closed, requestVars, stop, watched, clockVars, sweepVars, dogVars>>

\* The deadline of a registered task passes.
DeadlinePasses(t) ==
  /\ t \in records \ late /\ plan.of[t].deadline
  /\ late' = late \cup {t}
  /\ UNCHANGED <<plan, closed, requestVars, taskVars, tableVars, timedOut, sweepVars, dogVars>>

-----------------------------------------------------------------------------
(* cancel_owner and shutdown: a snapshot, the marks, the return.              *)

Of(s) == IF s = "app" THEN records ELSE {t \in records : Key(t)[1] = s}

Snapshot(s) ==
  /\ s \notin swept
  /\ sweep' = [sweep EXCEPT ![s] = Of(s)]
  /\ toMark' = [toMark EXCEPT ![s] = Of(s)]
  /\ swept' = swept \cup {s}
  /\ closed' = (closed \/ s = "app")
  /\ UNCHANGED <<plan, requestVars, taskVars, tableVars, clockVars, dogVars>>

MarkOne(s, t) ==
  /\ t \in toMark[s]
  /\ Mark({t})
  /\ toMark' = [toMark EXCEPT ![s] = @ \ {t}]
  /\ UNCHANGED <<plan, closed, requestVars, watched, tableVars, clockVars, sweep, swept, dogVars>>

\* The marks are made.  The joins that follow are bounded, and nothing that is used
\* comes of them.
Returned(s) == s \in swept /\ toMark[s] = {}

-----------------------------------------------------------------------------
(* The watchdog: _watchdog_loop and _cancel_expired.                          *)

Overdue == {t \in (records \cap late) \ timedOut : Running(t)}

ScanAll ==   \* mutant: a task is claimed before it is known to run
  /\ dog = "scan"
  /\ \/ /\ closed
        /\ dog' = "gone"
        /\ UNCHANGED <<timedOut, expired>>
     \/ /\ ~closed /\ (records \cap late) \ timedOut # {}
        /\ timedOut' = timedOut \cup (records \cap late)
        /\ expired' = Overdue
        /\ dog' = IF Overdue = {} THEN "scan" ELSE "cancel"
  /\ UNCHANGED <<plan, closed, requestVars, taskVars, tableVars, late, sweepVars>>

Scan ==
  /\ dog = "scan"
  /\ \/ /\ closed
        /\ dog' = "gone"
        /\ UNCHANGED <<timedOut, expired>>
     \/ /\ ~closed /\ Overdue # {}
        /\ timedOut' = timedOut \cup Overdue
        /\ expired' = Overdue
        /\ dog' = "cancel"
  /\ UNCHANGED <<plan, closed, requestVars, taskVars, tableVars, late, sweepVars>>

CancelExpired ==
  /\ dog = "cancel"
  /\ \E t \in expired :
       /\ Mark({t})
       /\ expired' = expired \ {t}
       /\ dog' = IF expired = {t} THEN "scan" ELSE "cancel"
  /\ UNCHANGED <<plan, closed, requestVars, watched, tableVars, clockVars, sweepVars>>

-----------------------------------------------------------------------------
RequestStep(t) == \/ FindPrevious(t) \/ WaitTimesOut(t) \/ Register(t)
                  \/ StartThread(t) \/ Enqueue(t) \/ LaunchFails(t) \/ StoreFuture(t)
TaskStep(t)    == Take(t) \/ Return(t) \/ Finish(t)
DogStep        == Scan \/ CancelExpired

Next ==
  \/ \E t \in Tasks : Ask(t) \/ RequestStep(t) \/ TaskStep(t) \/ DeadlinePasses(t)
  \/ \E s \in plan.sweeps : Snapshot(s) \/ \E t \in Tasks : MarkOne(s, t)
  \/ DogStep

Spec == Init /\ [][Next]_vars

\* Requests go on (their wait is bounded), pool workers take what is queued, a
\* callback runs once its future is done, and the watchdog wakes up every second.
\* A task's own function need not return, and nobody has to cancel or close anything.
OwnStep ==
  \/ \E t \in Tasks : RequestStep(t) \/ Take(t) \/ Finish(t)
  \/ DogStep
FairSpec == Spec /\ WF_vars(OwnStep)

-----------------------------------------------------------------------------
Live(t) == phase[t] \in {"queued", "body"}

\* Of the tasks of one owner and name that can still act, at most one has not been
\* asked to stop, whatever overlapped: request_stop reaches the newest one only, so
\* this rests on every older one having been stopped when it was replaced
\* (start_thread, submit, _finish).
OneUnstopped ==
  \A t, u \in Tasks :
    (t # u /\ Key(t) = Key(u) /\ Live(t) /\ Live(u)) => (t \in stop \/ u \in stop)

\* Where no request of a name allows overlap, its tasks never run side by side: a
\* predecessor that does not stop in time refuses the replacement (_wait_record).
NeverTwice ==
  \A t, u \in Tasks :
    (t # u /\ Key(t) = Key(u) /\ Live(t) /\ Live(u)) =>
       \E v \in Tasks : Key(v) = Key(t) /\ plan.of[v].overlap

\* Once shutdown has returned, every task that can still act has its stop request:
\* a task is either in the snapshot or refused, also while it is being launched.
ShutdownReachesAll ==
  Returned("app") => \A t \in Tasks : Live(t) => t \in stop

\* No pool function begins after the cancel_owner or the shutdown that covered it has
\* returned, also when its future was not stored yet and could not be cancelled.
NoLateBegin ==
  [][\A s \in Sweepers, t \in Tasks :
       (Returned(s) /\ t \in sweep[s] /\ ~IsThread(t)) =>
          ~(phase[t] # "body" /\ phase'[t] = "body")]_vars

\* Every request comes to an end, also when the task to be replaced is itself
\* waiting for the replacement lock or never stops.
RequestsAnswered ==
  \A t \in Tasks : []<>(request[t] \in {"none", "done", "refused"})

\* A task that is over leaves the registry, however early its future was done.
DoneForgotten ==
  \A t \in Tasks : []<>(t \in records => phase[t] # "done")

\* A running task whose deadline has passed is asked to stop, unless the application
\* is shut down first; also one whose thread was not started yet at the scan.
OverdueStopped ==
  \A t \in Tasks : []<>((t \in late /\ Live(t)) => (t \in stop \/ closed))

\* Names: the types, one task of a name that is not asked to stop (OneUnstopped), and
\* no two side by side where overlap is not allowed (NeverTwice).
NamesExclusive == TypeOK /\ OneUnstopped /\ NeverTwice

\* Every request is answered and every finished task leaves the registry.
RequestsEnd == RequestsAnswered /\ DoneForgotten
=============================================================================
