------------------------------ MODULE DaemonPool ------------------------------
(* A bounded pool of daemon threads whose hung workers can be given up and    *)
(* replaced: _BoundedPool (core/executor_registry.py) over DaemonExecutor     *)
(* (core/daemon_executor.py).  The pool counts the calls it has admitted; the *)
(* executor queues them, runs them, and replaces a worker whose call is       *)
(* abandoned.  Each action is one region under one of the two locks, one      *)
(* operation on the queue, or one change of a future.                         *)
(* The module is a component: a specification of the callers (LlmRun) takes   *)
(* its steps.                                                                 *)
EXTENDS Integers, Sequences, FiniteSets

CONSTANTS Calls,          \* the futures; each is submitted at most once
          MaxWorkers,     \* _PoolSpec.max_workers
          Capacity,       \* _PoolSpec.capacity
          MaxRetired,     \* _PoolSpec.max_retired_workers
          MaxStartFails,  \* bound: threads the system refuses to start
          Stop,           \* the None that shutdown puts for every thread
          NoCall

ASSUME PoolAssumption ==
  /\ IsFiniteSet(Calls)
  /\ MaxWorkers \in Nat \ {0} /\ Capacity \in Nat \ {0}
  /\ MaxRetired \in Nat /\ MaxStartFails \in Nat
  /\ Stop \notin Calls /\ NoCall \notin Calls

\* Every call abandons at most one worker, so this many threads are ever started.
Workers == 1 .. (MaxWorkers + Cardinality(Calls))

VARIABLES
  queue,       \* DaemonExecutor._queue
  closing,     \* how far DaemonExecutor.shutdown has come
  future,      \* the state and the result of each call's future
  admission,   \* how far _submit_reserved has come with the call
  inflight,    \* _BoundedPool._inflight
  reserved,    \* _BoundedPool._reservations
  released,    \* calls whose done-callback _release has run
  worker,      \* the control state of each thread
  serves,      \* the call each thread has taken
  retired,     \* DaemonExecutor._retired_threads
  handover,    \* how far abandon has come with the call
  startFails   \* starts refused so far

poolVars == <<queue, closing, future, admission, inflight, reserved, released,
              worker, serves, retired, handover, startFails>>

admissionVars == <<admission, inflight, reserved, released>>
threadVars    == <<worker, serves, retired, handover, startFails>>

Final == {"answer", "error", "refused", "cancelled"}

PoolTypeOK ==
  /\ queue \in Seq(Calls \cup {Stop})
  /\ closing \in {"open", "draining", "closed"}
  /\ future \in [Calls -> {"none", "pending", "running"} \cup Final]
  /\ admission \in [Calls -> {"new", "counted", "queued", "watched", "refused"}]
  /\ inflight \in Nat
  /\ reserved \subseteq Calls /\ released \subseteq Calls
  /\ worker \in [Workers -> {"none", "idle", "taken", "calling", "done", "gone"}]
  /\ serves \in [Workers -> Calls \cup {NoCall}]
  /\ retired \subseteq Workers
  /\ handover \in [Calls -> {"none", "marked", "replaced", "failed", "over"}]
  /\ startFails \in 0 .. MaxStartFails

PoolInit ==
  /\ queue = <<>> /\ closing = "open"
  /\ future = [c \in Calls |-> "none"]
  /\ admission = [c \in Calls |-> "new"]
  /\ inflight = 0 /\ reserved = {} /\ released = {}
  /\ worker = [t \in Workers |-> IF t <= MaxWorkers THEN "idle" ELSE "none"]
  /\ serves = [t \in Workers |-> NoCall]
  /\ retired = {}
  /\ handover = [c \in Calls |-> "none"]
  /\ startFails = 0

-----------------------------------------------------------------------------
(* Admission: try_submit and _submit_reserved, in the thread of the caller. *)

ReserveUncounted(c) ==   \* mutant: the slot is checked against the reservations, not against the count
  /\ admission[c] = "new"
  /\ Cardinality(reserved) < Capacity
  /\ inflight' = inflight + 1
  /\ admission' = [admission EXCEPT ![c] = "counted"]
  /\ UNCHANGED <<queue, closing, future, reserved, released, threadVars>>

\* try_submit, a slot is free: it is counted before the executor sees the call.
Reserve(c) ==
  /\ admission[c] = "new"
  /\ inflight < Capacity
  /\ inflight' = inflight + 1
  /\ admission' = [admission EXCEPT ![c] = "counted"]
  /\ UNCHANGED <<queue, closing, future, reserved, released, threadVars>>

\* try_submit, every slot is taken: PoolSaturated.
Saturated(c) ==
  /\ admission[c] = "new"
  /\ inflight >= Capacity
  /\ admission' = [admission EXCEPT ![c] = "refused"]
  /\ UNCHANGED <<queue, closing, future, inflight, reserved, released, threadVars>>

\* DaemonExecutor.submit: a closed executor answers with a failed future.
Enqueue(c) ==
  /\ admission[c] = "counted"
  /\ admission' = [admission EXCEPT ![c] = "queued"]
  /\ IF closing = "open"
     THEN /\ queue' = Append(queue, c)
          /\ future' = [future EXCEPT ![c] = "pending"]
     ELSE /\ future' = [future EXCEPT ![c] = "refused"]
          /\ UNCHANGED queue
  /\ UNCHANGED <<closing, inflight, reserved, released, threadVars>>

\* self._reservations[future] = True, then add_done_callback(_release): the call
\* may have ended already.
Record(c) ==
  /\ admission[c] = "queued"
  /\ admission' = [admission EXCEPT ![c] = "watched"]
  /\ reserved' = reserved \cup {c}
  /\ UNCHANGED <<queue, closing, future, inflight, released, threadVars>>

\* _release, run by the thread that ended the future after its waiters were
\* woken, or by the caller when the future had ended before it was watched.
Release(c) ==
  /\ admission[c] = "watched" /\ future[c] \in Final /\ c \notin released
  /\ released' = released \cup {c}
  /\ reserved' = reserved \ {c}
  /\ inflight' = IF c \in reserved THEN inflight - 1 ELSE inflight
  /\ UNCHANGED <<queue, closing, future, admission, threadVars>>

\* future.cancel(): only a call no worker has taken can be cancelled.
CancelFuture(c) ==
  /\ future[c] = "pending"
  /\ future' = [future EXCEPT ![c] = "cancelled"]
  /\ UNCHANGED <<queue, closing, admissionVars, threadVars>>

-----------------------------------------------------------------------------
(* The worker loop.                                                         *)

\* queue.get and set_running_or_notify_cancel: a cancelled call is skipped and
\* the thread asks again; None ends the thread.
Take(t) ==
  /\ worker[t] = "idle" /\ queue # <<>>
  /\ queue' = Tail(queue)
  /\ LET c == Head(queue)
     IN IF c = Stop
        THEN /\ worker' = [worker EXCEPT ![t] = "gone"]
             /\ UNCHANGED <<future, serves>>
        ELSE IF future[c] = "cancelled" THEN UNCHANGED <<future, worker, serves>>
        ELSE /\ future' = [future EXCEPT ![c] = "running"]
             /\ worker' = [worker EXCEPT ![t] = "taken"]
             /\ serves' = [serves EXCEPT ![t] = c]
  /\ UNCHANGED <<closing, admissionVars, retired, handover, startFails>>

\* self._worker_by_future[future] = current_thread: only now can abandon find it.
Register(t) ==
  /\ worker[t] = "taken"
  /\ worker' = [worker EXCEPT ![t] = "calling"]
  /\ UNCHANGED <<queue, closing, future, admissionVars, serves, retired, handover, startFails>>

\* set_result or set_exception
EndCall(t, result) ==
  /\ worker[t] = "calling"
  /\ worker' = [worker EXCEPT ![t] = "done"]
  /\ future' = [future EXCEPT ![serves[t]] = result]
  /\ UNCHANGED <<queue, closing, admissionVars, serves, retired, handover, startFails>>

\* the finally of the worker: a retired thread is forgotten and ends
Leave(t) ==
  /\ worker[t] = "done"
  /\ worker' = [worker EXCEPT ![t] = IF t \in retired THEN "gone" ELSE "idle"]
  /\ serves' = [serves EXCEPT ![t] = NoCall]
  /\ retired' = retired \ {t}
  /\ UNCHANGED <<queue, closing, future, admissionVars, handover, startFails>>

-----------------------------------------------------------------------------
(* Giving a hung call up: DaemonExecutor.abandon, then _BoundedPool.abandon. *)

Serving == {t \in Workers : worker[t] \notin {"none", "gone"} /\ t \notin retired}

\* _worker_by_future.get(future)
WorkersOf(c) == {t \in Workers : worker[t] \in {"calling", "done"} /\ serves[t] = c}

\* the first lock region of abandon: may the worker of the call be retired?
CanRetire(c) ==
  /\ closing = "open"
  /\ WorkersOf(c) # {} /\ WorkersOf(c) \cap retired = {}
  /\ Cardinality(retired) < MaxRetired

RetireUnbounded(c) ==   \* mutant: the bound on retired workers is not looked at
  /\ handover[c] = "none"
  /\ closing = "open" /\ WorkersOf(c) # {} /\ WorkersOf(c) \cap retired = {}
  /\ retired' = retired \cup WorkersOf(c)
  /\ handover' = [handover EXCEPT ![c] = "marked"]
  /\ UNCHANGED <<queue, closing, future, admissionVars, worker, serves, startFails>>

Retire(c) ==
  /\ handover[c] = "none" /\ CanRetire(c)
  /\ retired' = retired \cup WorkersOf(c)
  /\ handover' = [handover EXCEPT ![c] = "marked"]
  /\ UNCHANGED <<queue, closing, future, admissionVars, worker, serves, startFails>>

ReplaceForgotten(c) ==   \* mutant: no worker is started for the retired one
  /\ handover[c] = "marked" /\ closing = "open"
  /\ handover' = [handover EXCEPT ![c] = "replaced"]
  /\ UNCHANGED <<queue, closing, future, admissionVars, worker, serves, retired, startFails>>

\* _start_worker, which takes the lock anew
Replace(c) ==
  /\ handover[c] = "marked" /\ closing = "open"
  /\ \E t \in Workers :
       /\ worker[t] = "none" /\ \A u \in Workers : u < t => worker[u] # "none"
       /\ worker' = [worker EXCEPT ![t] = "idle"]
  /\ handover' = [handover EXCEPT ![c] = "replaced"]
  /\ UNCHANGED <<queue, closing, future, admissionVars, serves, retired, startFails>>

\* _start_worker fails: the thread cannot be started, or shutdown came first
ReplaceFails(c) ==
  /\ handover[c] = "marked"
  /\ handover' = [handover EXCEPT ![c] = "failed"]
  /\ IF closing = "open"
     THEN startFails < MaxStartFails /\ startFails' = startFails + 1
     ELSE UNCHANGED startFails
  /\ UNCHANGED <<queue, closing, future, admissionVars, worker, serves, retired>>

UnretireFree(c) ==   \* mutant: a refused abandonment frees the slot too
  /\ handover[c] = "failed"
  /\ retired' = retired \ {t \in Workers : serves[t] = c}
  /\ handover' = [handover EXCEPT ![c] = "over"]
  /\ reserved' = reserved \ {c}
  /\ inflight' = IF c \in reserved THEN inflight - 1 ELSE inflight
  /\ UNCHANGED <<queue, closing, future, admission, released, worker, serves, startFails>>

\* the mark is taken back, if the worker has not left meanwhile
Unretire(c) ==
  /\ handover[c] = "failed"
  /\ retired' = retired \ {t \in Workers : serves[t] = c}
  /\ handover' = [handover EXCEPT ![c] = "over"]
  /\ UNCHANGED <<queue, closing, future, admissionVars, worker, serves, startFails>>

GiveBackKept(c) ==   \* mutant: the slot is given back and the reservation kept
  /\ handover[c] = "replaced"
  /\ handover' = [handover EXCEPT ![c] = "over"]
  /\ inflight' = IF c \in reserved THEN inflight - 1 ELSE inflight
  /\ UNCHANGED <<queue, closing, future, admission, reserved, released, worker, serves, retired, startFails>>

\* _BoundedPool.abandon: the slot of the abandoned call is free again
GiveBack(c) ==
  /\ handover[c] = "replaced"
  /\ handover' = [handover EXCEPT ![c] = "over"]
  /\ reserved' = reserved \ {c}
  /\ inflight' = IF c \in reserved THEN inflight - 1 ELSE inflight
  /\ UNCHANGED <<queue, closing, future, admission, released, worker, serves, retired, startFails>>

-----------------------------------------------------------------------------
(* DaemonExecutor.shutdown                                                  *)

Close ==
  /\ closing = "open" /\ closing' = "draining"
  /\ UNCHANGED <<queue, future, admissionVars, threadVars>>

\* get_nowait and future.cancel
Drain ==
  /\ closing = "draining" /\ queue # <<>>
  /\ queue' = Tail(queue)
  /\ future' = [future EXCEPT ![Head(queue)] = IF @ = "pending" THEN "cancelled" ELSE @]
  /\ UNCHANGED <<closing, admissionVars, threadVars>>

\* One None for every thread of the snapshot that Close took.  No thread is started
\* after it, and the None of a retired thread that has left since, which nobody
\* would read, is left out.
PutStops ==
  /\ closing = "draining" /\ queue = <<>>
  /\ closing' = "closed"
  /\ queue' = [i \in 1 .. Cardinality({t \in Workers : worker[t] \notin {"none", "gone"}}) |-> Stop]
  /\ UNCHANGED <<future, admissionVars, threadVars>>

\* The steps the pool takes by itself, until it is told to close.
PoolStep ==
  \/ \E t \in Workers : Take(t) \/ Register(t) \/ Leave(t)
  \/ \E c \in Calls : Release(c)
  \/ Drain \/ PutStops

-----------------------------------------------------------------------------
(* Properties.                                                              *)

Entering == {c \in Calls : admission[c] \in {"counted", "queued"}}
Handing  == {c \in Calls : handover[c] = "marked"}

\* The counter is the number of calls that hold a slot, whichever of the two
\* ways out (the done-callback, the abandonment) a call takes and in which order.
InflightExact == inflight = Cardinality(Entering) + Cardinality(reserved)

\* A call holds its slot as long as a worker the pool counts on is busy with it:
\* a slot is never given to another call while nobody has replaced the worker.
SlotMeansWorker ==
  \A t \in Serving : worker[t] \in {"taken", "calling"} => serves[t] \in Entering \cup reserved

\* Giving workers up neither multiplies threads without end nor uses them up:
\* only a thread that could not be started costs the pool a worker.
ThreadsBounded ==
  Cardinality({t \in Workers : worker[t] \notin {"none", "gone"}}) <= MaxWorkers + MaxRetired

WorkersKept ==
  closing = "open" => Cardinality(Serving) + Cardinality(Handing) + startFails >= MaxWorkers

\* With no more slots than workers, an admitted call never waits behind a hung
\* one: a worker is free, about to be free, or being started for it.
NoCallStarves ==
  closing = "open" /\ Capacity <= MaxWorkers =>
    Cardinality({i \in DOMAIN queue : queue[i] # Stop /\ future[queue[i]] = "pending"})
      <= Cardinality({t \in Serving : worker[t] \in {"idle", "done"}})
         + Cardinality(Handing) + startFails
=============================================================================
