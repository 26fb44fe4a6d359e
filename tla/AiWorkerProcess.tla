--------------------------- MODULE AiWorkerProcess ---------------------------
(***************************************************************************)
(* The child process of the AI engine (handlers/ai_engine/worker_process.py *)
(* and gpu_scheduler.py): a loop reads commands, each request is a task      *)
(* that passes its service's semaphore, loads the service, queues for a      *)
(* device slot by priority, computes in a thread and answers.  Quarantine    *)
(* and restart of a service are commands of the same queue.  All of it runs  *)
(* on one event loop, so a step is what happens between two awaits.          *)
(***************************************************************************)
EXTENDS Integers, FiniteSets, Sequences, SequencesExt

CONSTANTS Requests, Attempts,   \* ids of calls, and of restarts of a service
          Services,
          ServiceOf, Priority,  \* of each request; a smaller priority goes first
          Limit,                \* tasks of a service that pass its semaphore
          MaxInflight,          \* tasks at once
          Slots                 \* PriorityScheduler slots

ASSUME ProcessAssumption ==
  /\ Requests \cap Attempts = {} /\ "none" \notin Services
  /\ ServiceOf \in [Requests -> Services] /\ Priority \in [Requests -> 0..3]
  /\ Limit \in [Services -> Nat \ {0}]
  /\ MaxInflight \in Nat \ {0} /\ Slots \in Nat \ {0}

VARIABLES cmds,     \* cmd_queue
          results,  \* res_queue
          work,     \* the task of each request
          free, waiters,  \* PriorityScheduler: free slots, queue by arrival
          blocked,  \* blocked_services
          loop,     \* _worker_loop: reading, or draining and swapping a service's object
          alive     \* the process runs

procVars == <<cmds, results, work, free, waiters, blocked, loop, alive>>

Command(kind, id, s)     == [kind |-> kind, id |-> id, service |-> s]
Response(id, ok)         == [kind |-> "response", id |-> id, ok |-> ok]
Ready(s)                 == [kind |-> "ready", service |-> s]
Reading                  == [pc |-> "read"]
Draining(id, s, ts)      == [pc |-> "drain", id |-> id, service |-> s, tasks |-> ts]

Commands == [kind : {"request"}, id : Requests, service : Services]
            \cup [kind : {"restart"}, id : Attempts, service : Services]
            \cup [kind : {"quarantine"}, id : {"none"}, service : Services]
Results  == [kind : {"response"}, id : Requests \cup Attempts, ok : BOOLEAN]
            \cup [kind : {"ready"}, service : Services]

Holding  == {"granted", "native"}           \* a device slot is taken for it
InTask   == Holding \cup {"entry", "loading", "queued", "answering"}
Inflight == {r \in Requests : work[r] \in InTask}
Passed(s) == {r \in Inflight : ServiceOf[r] = s /\ work[r] # "entry"}

ProcessTypeOK ==
  /\ cmds \in Seq(Commands) /\ results \in Seq(Results)
  /\ work \in [Requests -> InTask \cup {"none", "over"}]
  /\ free \in 0..Slots /\ waiters \in Seq(Requests)
  /\ blocked \subseteq Services
  /\ loop \in {Reading} \cup [pc : {"drain", "swap"}, id : Attempts, service : Services,
                               tasks : SUBSET Requests]
  /\ alive \in BOOLEAN

ProcessInit ==
  /\ cmds = <<>> /\ results = <<>>
  /\ work = [r \in Requests |-> "none"]
  /\ free = Slots /\ waiters = <<>>
  /\ blocked = {} /\ loop = Reading /\ alive = TRUE

-----------------------------------------------------------------------------
(* _worker_loop.                                                            *)

Read(kind) == /\ alive /\ loop.pc = "read" /\ cmds # <<>>
              /\ Cardinality(Inflight) < MaxInflight
              /\ Head(cmds).kind = kind
              /\ cmds' = Tail(cmds)

ReadRequest ==
  LET c == Head(cmds) IN
  /\ Read("request")
  /\ IF c.service \in blocked
     THEN /\ results' = Append(results, Response(c.id, FALSE))
          /\ work' = [work EXCEPT ![c.id] = "over"]
     ELSE work' = [work EXCEPT ![c.id] = "entry"] /\ UNCHANGED results
  /\ UNCHANGED <<free, waiters, blocked, loop, alive>>

ReadQuarantine ==
  /\ Read("quarantine")
  /\ blocked' = blocked \cup {Head(cmds).service}
  /\ UNCHANGED <<results, work, free, waiters, loop, alive>>

\* mutant: only the tasks that are at the device
OngoingAtDevice(s) == {r \in Inflight : ServiceOf[r] = s /\ work[r] \in Holding}
Ongoing(s) == {r \in Inflight : ServiceOf[r] = s}

\* _drain_service takes the service's tasks once, and waits for these.
ReadRestart ==
  LET c == Head(cmds) IN
  /\ Read("restart")
  /\ blocked' = blocked \cup {c.service}
  /\ loop' = Draining(c.id, c.service, Ongoing(c.service))
  /\ UNCHANGED <<results, work, free, waiters, alive>>

\* mutant: asyncio.wait returns when the first task is done
DrainedFirst == loop.tasks = {} \/ ~(loop.tasks \subseteq Inflight)
Drained == loop.tasks \cap Inflight = {}

\* _restart_service begins to shut the old object down.
DrainEnds ==
  /\ alive /\ loop.pc = "drain" /\ Drained
  /\ loop' = [loop EXCEPT !.pc = "swap"]
  /\ UNCHANGED <<cmds, results, work, free, waiters, blocked, alive>>

\* It is shut down, or failed to be, and a new one takes its place.
Replace ==
  /\ alive /\ loop.pc = "swap"
  /\ blocked' = blocked \ {loop.service}
  /\ results' = results \o <<Ready(loop.service), Response(loop.id, TRUE)>>
  /\ loop' = Reading
  /\ UNCHANGED <<cmds, work, free, waiters, alive>>

\* Still executing when the drain times out, or the new service object cannot be made.
RestartFails ==
  /\ alive /\ loop.pc \in {"drain", "swap"}
  /\ loop.pc = "drain" => ~Drained
  /\ results' = Append(results, Response(loop.id, FALSE))
  /\ loop' = Reading
  /\ UNCHANGED <<cmds, work, free, waiters, blocked, alive>>

-----------------------------------------------------------------------------
(* _dispatch_limited and PriorityScheduler.run.                             *)

Task(r, phase) == work' = [work EXCEPT ![r] = phase]

\* The semaphore, then blocked_reason; the service is loaded in a thread, once for all.
Enter(r) ==
  /\ alive /\ work[r] = "entry"
  /\ Cardinality(Passed(ServiceOf[r])) < Limit[ServiceOf[r]]
  /\ IF ServiceOf[r] \in blocked
     THEN Task(r, "over") /\ results' = Append(results, Response(r, FALSE))
     ELSE Task(r, "loading") /\ UNCHANGED results
  /\ UNCHANGED <<cmds, free, waiters, blocked, loop, alive>>

\* acquire: past the queue only while nobody is in it.
Acquire(r) ==
  /\ alive /\ work[r] = "loading"
  /\ IF free > 0 /\ waiters = <<>>
     THEN Task(r, "native") /\ free' = free - 1 /\ UNCHANGED waiters
     ELSE Task(r, "queued") /\ waiters' = Append(waiters, r) /\ UNCHANGED free
  /\ UNCHANGED <<cmds, results, blocked, loop, alive>>

\* The service cannot be loaded, or this method needs no device.
PassBy(r) ==
  /\ alive /\ work[r] = "loading" /\ Task(r, "answering")
  /\ UNCHANGED <<cmds, results, free, waiters, blocked, loop, alive>>

\* The heap is ordered by priority, then by arrival.
Best == CHOOSE i \in DOMAIN waiters :
          \A j \in DOMAIN waiters :
            \/ Priority[waiters[i]] < Priority[waiters[j]]
            \/ Priority[waiters[i]] = Priority[waiters[j]] /\ i <= j

NativeEndsUnlent(r) ==   \* mutant: a slot that is left wakes no waiter
  /\ alive /\ work[r] = "native"
  /\ Task(r, "answering") /\ free' = free + 1
  /\ UNCHANGED <<cmds, results, waiters, blocked, loop, alive>>

\* The thread returns or raises; leaving the slot hands it to the best waiter.
NativeEnds(r) ==
  /\ alive /\ work[r] = "native"
  /\ IF waiters = <<>>
     THEN Task(r, "answering") /\ free' = free + 1 /\ UNCHANGED waiters
     ELSE /\ work' = [work EXCEPT ![r] = "answering", ![waiters[Best]] = "granted"]
          /\ waiters' = RemoveAt(waiters, Best)
          /\ UNCHANGED free
  /\ UNCHANGED <<cmds, results, blocked, loop, alive>>

Resume(r) ==
  /\ alive /\ work[r] = "granted" /\ Task(r, "native")
  /\ UNCHANGED <<cmds, results, free, waiters, blocked, loop, alive>>

Answer(r) ==
  /\ alive /\ work[r] = "answering" /\ Task(r, "over")
  /\ \E ok \in BOOLEAN : results' = Append(results, Response(r, ok))
  /\ UNCHANGED <<cmds, free, waiters, blocked, loop, alive>>

Serving == \/ ReadRequest \/ ReadQuarantine \/ ReadRestart
           \/ DrainEnds \/ Replace \/ RestartFails
           \/ \E r \in Requests : Enter(r) \/ Acquire(r) \/ PassBy(r) \/ Resume(r) \/ Answer(r)
ProcessNext == Serving \/ \E r \in Requests : NativeEnds(r)
=============================================================================
