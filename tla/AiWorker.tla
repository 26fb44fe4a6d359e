------------------------------- MODULE AiWorker -------------------------------
(***************************************************************************)
(* The parent's side of one AI worker process (_Worker of                   *)
(* controllers/ai_engine_controller.py), from its start to its end: calls    *)
(* with deadlines, the thread that expires them and quarantines their        *)
(* service, the thread that then restarts the service or ends the process,   *)
(* restarts asked for by the user, the thread that reads the results.        *)
(***************************************************************************)
EXTENDS AiWorkerProcess

CONSTANTS Recoveries,  \* the attempts that recovery threads make; the user asks for the others
          Plans        \* bounds [asked, tried]: the calls that may come, the attempts at a restart

ASSUME RecoveriesAssumption ==
  /\ Recoveries \subseteq Attempts
  /\ Plans \subseteq [asked : SUBSET Requests, tried : SUBSET Attempts]

VARIABLES call,         \* the future of each request
          restart,      \* restart_service, by attempt
          quarantined,  \* quarantined_services
          ready,        \* services whose ready event is set
          recovering,   \* recovering_services
          deadline,     \* _deadline_loop: the timed out services it still has to treat
          reaped        \* _watch_process has run to its end

parentVars == <<call, restart, quarantined, ready, recovering, deadline, reaped>>
vars == <<procVars, parentVars>>

Outcomes == {"ok", "failed", "timeout", "refused"}
NoAttempt == [pc |-> "unused", service |-> "none", reply |-> "none"]
Waiting == [todo |-> {}, marked |-> {}]

\* The types of the state of both processes and of the queues between them.
TypeOK ==
  /\ ProcessTypeOK
  /\ call \in [Requests -> Outcomes \cup {"new", "admitted", "pending"}]
  /\ restart \in [Attempts ->
       [pc : {"unused", "clear", "send", "await", "ready", "force", "finish", "over"},
        service : Services \cup {"none"}, reply : {"none", "ok", "failed"}]]
  /\ quarantined \subseteq Services
  /\ ready \subseteq Services
  /\ recovering \subseteq Services
  /\ deadline \in [todo : SUBSET Services, marked : SUBSET Services]
  /\ reaped \in BOOLEAN

\* A worker is used once its services have reported ready.  Calls that a plan leaves out
\* have been refused, restarts it leaves out are over.
Init == /\ ProcessInit
        /\ \E p \in Plans :
             /\ call = [r \in Requests |-> IF r \in p.asked THEN "new" ELSE "refused"]
             /\ restart = [k \in Attempts |->
                   IF k \in p.tried THEN NoAttempt ELSE [NoAttempt EXCEPT !.pc = "over"]]
        /\ quarantined = {} /\ ready = Services /\ recovering = {}
        /\ deadline = Waiting /\ reaped = FALSE

-----------------------------------------------------------------------------
(* call.                                                                    *)

\* The checks; the deadline thread may still come between them and the queue.
Admit(r) ==
  /\ call[r] = "new"
  /\ call' = [call EXCEPT ![r] = IF alive /\ ServiceOf[r] \notin quarantined
                                 THEN "admitted" ELSE "refused"]
  /\ UNCHANGED <<procVars, restart, quarantined, ready, recovering, deadline, reaped>>

\* Nobody reads the queue of a process that is gone.
Post(cmd) == cmds' = IF alive THEN Append(cmds, cmd) ELSE cmds

Send(r) ==
  /\ call[r] = "admitted"
  /\ call' = [call EXCEPT ![r] = "pending"]
  /\ Post(Command("request", r, ServiceOf[r]))
  /\ UNCHANGED <<results, work, free, waiters, blocked, loop, alive,
                 restart, quarantined, ready, recovering, deadline, reaped>>

-----------------------------------------------------------------------------
(* _deadline_loop.                                                          *)

Awaiting(k) == restart[k].pc = "await" /\ restart[k].reply = "none"
Due == {r \in Requests : call[r] = "pending"} \cup {k \in Attempts : Awaiting(k)}
ServiceDue(d) == IF d \in Requests THEN ServiceOf[d] ELSE restart[d].service

\* mutant: a quarantined service is not looked at again
SweepHealthy(D) ==
  /\ deadline = Waiting /\ D # {}
  /\ \A d \in D : ServiceDue(d) \notin quarantined
  /\ call' = [r \in Requests |-> IF r \in D THEN "timeout" ELSE call[r]]
  /\ restart' = [k \in Attempts |-> IF k \in D THEN [restart[k] EXCEPT !.reply = "failed"]
                                               ELSE restart[k]]
  /\ deadline' = [deadline EXCEPT !.todo = {ServiceDue(d) : d \in D}]
  /\ UNCHANGED <<procVars, quarantined, ready, recovering, reaped>>

\* What has expired is popped from pending: a late answer finds nobody.
Sweep(D) ==
  /\ deadline = Waiting /\ D # {}
  /\ call' = [r \in Requests |-> IF r \in D THEN "timeout" ELSE call[r]]
  /\ restart' = [k \in Attempts |-> IF k \in D THEN [restart[k] EXCEPT !.reply = "failed"]
                                               ELSE restart[k]]
  /\ deadline' = [deadline EXCEPT !.todo = {ServiceDue(d) : d \in D}]
  /\ UNCHANGED <<procVars, quarantined, ready, recovering, reaped>>

MarkQuarantined(s) ==
  /\ s \in deadline.todo /\ deadline.marked = {}
  /\ quarantined' = quarantined \cup {s}
  /\ deadline' = [deadline EXCEPT !.marked = {s}]
  /\ UNCHANGED <<procVars, call, restart, ready, recovering, reaped>>

Begin(k, s) == restart' = [restart EXCEPT ![k] = [NoAttempt EXCEPT !.pc = "clear", !.service = s]]

\* A recovery's id is fresh: here, one that nothing mentions any more.
Fresh == {k \in Recoveries : /\ restart[k] = NoAttempt
                             /\ loop.pc = "read" \/ loop.id # k
                             /\ \A c \in ToSet(cmds) : c.id # k
                             /\ \A m \in ToSet(results) : m.kind = "ready" \/ m.id # k}

RescheduleAlways(s) == TRUE   \* mutant: recovering_services is not looked at
Schedulable(s) == s \notin recovering

\* The quarantine command and _schedule_service_recovery, whose thread may fail to start.
Quarantine(s) ==
  /\ s \in deadline.marked
  /\ deadline' = [todo |-> deadline.todo \ {s}, marked |-> {}]
  /\ ready' = ready \ {s}
  /\ Post(Command("quarantine", "none", s))
  /\ \/ /\ Schedulable(s)
        /\ recovering' = recovering \cup {s}
        /\ \E k \in Fresh : Begin(k, s)
     \/ UNCHANGED <<recovering, restart>>
  /\ UNCHANGED <<results, work, free, waiters, blocked, loop, alive, call, quarantined, reaped>>

-----------------------------------------------------------------------------
(* restart_service, for _recover_timed_out_service or for the user.         *)

AskRestart(k, s) ==
  /\ k \notin Recoveries /\ restart[k].pc = "unused" /\ Begin(k, s)
  /\ UNCHANGED <<procVars, call, quarantined, ready, recovering, deadline, reaped>>

ClearReady(k) ==
  /\ restart[k].pc = "clear"
  /\ ready' = ready \ {restart[k].service}
  /\ restart' = [restart EXCEPT ![k].pc = "send"]
  /\ UNCHANGED <<procVars, call, quarantined, recovering, deadline, reaped>>

SendRestart(k) ==
  /\ restart[k].pc = "send"
  /\ Post(Command("restart", k, restart[k].service))
  /\ restart' = [restart EXCEPT ![k].pc = "await"]
  /\ UNCHANGED <<results, work, free, waiters, blocked, loop, alive,
                 call, quarantined, ready, recovering, deadline, reaped>>

Failed(k) == IF k \in Recoveries THEN "force" ELSE "finish"

\* fut.result returns, raises or times out.
AwaitReply(k) ==
  /\ restart[k].pc = "await"
  /\ \/ /\ restart[k].reply = "ok"
        /\ restart' = [restart EXCEPT ![k].pc = "ready"]
     \/ /\ restart[k].reply # "ok"
        /\ restart' = [restart EXCEPT ![k].pc = Failed(k)]
  /\ UNCHANGED <<procVars, call, quarantined, ready, recovering, deadline, reaped>>

\* ev.wait, then the quarantine is lifted; or its timeout.
AwaitReady(k) ==
  /\ restart[k].pc = "ready"
  /\ IF restart[k].service \in ready
     THEN /\ quarantined' = quarantined \ {restart[k].service}
          /\ restart' = [restart EXCEPT ![k].pc = "finish"]
     ELSE /\ restart' = [restart EXCEPT ![k].pc = Failed(k)]
          /\ UNCHANGED quarantined
  /\ UNCHANGED <<procVars, call, ready, recovering, deadline, reaped>>

\* The process is gone, with what it had not yet written to the pipe.
Ended ==
  /\ alive' = FALSE
  /\ \E n \in 0..Len(results) : results' = SubSeq(results, 1, n)
  /\ cmds' = <<>> /\ waiters' = <<>> /\ free' = Slots /\ blocked' = {} /\ loop' = Reading
  /\ work' = [r \in Requests |-> IF work[r] \in InTask THEN "over" ELSE work[r]]

\* _force_worker_restart.
ForceRestart(k) ==
  /\ restart[k].pc = "force"
  /\ restart' = [restart EXCEPT ![k].pc = "finish"]
  /\ IF alive THEN Ended ELSE UNCHANGED procVars
  /\ UNCHANGED <<call, quarantined, ready, recovering, deadline, reaped>>

FinishRestart(k) ==
  /\ restart[k].pc = "finish"
  /\ IF k \in Recoveries
     THEN /\ restart' = [restart EXCEPT ![k] = NoAttempt]
          /\ recovering' = recovering \ {restart[k].service}
     ELSE restart' = [restart EXCEPT ![k].pc = "over"] /\ UNCHANGED recovering
  /\ UNCHANGED <<procVars, call, quarantined, ready, deadline, reaped>>

-----------------------------------------------------------------------------
(* _result_loop and _watch_process.                                         *)

DeliverLate(r, ok) ==   \* mutant: the future of an expired call is set again
  call' = [call EXCEPT ![r] = IF ok THEN "ok" ELSE "failed"]

Deliver(r, ok) ==
  call' = IF call[r] = "pending"
          THEN [call EXCEPT ![r] = IF ok THEN "ok" ELSE "failed"] ELSE call

ReadResult ==
  LET m == Head(results) IN
  /\ results # <<>> /\ results' = Tail(results)
  /\ \/ /\ m.kind = "ready"
        /\ ready' = ready \cup {m.service}
        /\ UNCHANGED <<call, restart>>
     \/ /\ m.kind = "response" /\ m.id \in Requests
        /\ Deliver(m.id, m.ok)
        /\ UNCHANGED <<ready, restart>>
     \/ /\ m.kind = "response" /\ m.id \in Attempts
        /\ restart' = IF Awaiting(m.id)
                      THEN [restart EXCEPT ![m.id].reply = IF m.ok THEN "ok" ELSE "failed"]
                      ELSE restart
        /\ UNCHANGED <<ready, call>>
  /\ UNCHANGED <<cmds, work, free, waiters, blocked, loop, alive,
                 quarantined, recovering, deadline, reaped>>

\* The process exits or is killed.
Die == alive /\ Ended /\ UNCHANGED parentVars

\* _watch_process, _fail_pending.
FailPending ==
  /\ ~alive /\ ~reaped /\ reaped' = TRUE
  /\ ready' = {}
  /\ call' = [r \in Requests |-> IF call[r] = "pending" THEN "failed" ELSE call[r]]
  /\ restart' = [k \in Attempts |-> IF Awaiting(k) THEN [restart[k] EXCEPT !.reply = "failed"]
                                                   ELSE restart[k]]
  /\ UNCHANGED <<procVars, quarantined, recovering, deadline>>

-----------------------------------------------------------------------------
Expiring == \/ \E D \in SUBSET Due : Sweep(D)
            \/ \E s \in Services : MarkQuarantined(s) \/ Quarantine(s)
Restarting(k) == \/ ClearReady(k) \/ SendRestart(k) \/ AwaitReply(k) \/ AwaitReady(k)
                 \/ ForceRestart(k) \/ FinishRestart(k)

Serve == Serving /\ UNCHANGED parentVars

Next == \/ ProcessNext /\ UNCHANGED parentVars
        \/ \E r \in Requests : Admit(r) \/ Send(r)
        \/ Expiring
        \/ \E k \in Attempts, s \in Services : AskRestart(k, s)
        \/ \E k \in Attempts : Restarting(k)
        \/ ReadResult \/ Die \/ FailPending

Spec == Init /\ [][Next]_vars

Threads == \/ \E s \in Services : MarkQuarantined(s) \/ Quarantine(s)
           \/ \E k \in Attempts : Restarting(k)
           \/ ReadResult \/ FailPending \/ Serve

\* The caller that was admitted goes on, a deadline passes and the next sweep takes all
\* that is due, and the other threads and the event loop run on.  Native code may
\* hang for ever.
FairSpec == /\ Spec
            /\ WF_vars(Threads)
            /\ WF_vars(\E r \in Requests : Send(r))
            /\ \A d \in Requests : SF_vars(\E D \in SUBSET Due : d \in D /\ Sweep(D))

-----------------------------------------------------------------------------
\* Device slots are neither lost nor lent twice, and none is free while a
\* request waits for one.
SlotsExact == /\ free + Cardinality({r \in Requests : work[r] \in Holding}) = Slots
              /\ free > 0 => waiters = <<>>
              /\ ToSet(waiters) = {r \in Requests : work[r] = "queued"}

\* While _restart_service shuts a service's object down and makes the new one, no request of
\* the service is inside it, though the drain only waits for the tasks it found at its start.
ReplacedWhenIdle ==
  loop.pc = "swap" =>
    \A r \in Requests : ServiceOf[r] = loop.service => work[r] \notin InTask \ {"entry"}

\* The caller's future is settled once: an answer that comes after the deadline,
\* or after the process died, changes nothing.
SettledOnce ==
  [][\A r \in Requests : call[r] \in Outcomes => call'[r] = call[r]]_vars

\* At most one recovery of a service is under way.
OneRecovery ==
  \A s \in Services :
    Cardinality({k \in Recoveries : restart[k].service = s}) <= 1

\* Every call is settled, even when the native code hangs or the process dies.
CallsSettle == []<>(\A r \in Requests : call[r] \notin {"admitted", "pending"})

\* The types, and that a service has one recovery at a time.
Inv == TypeOK /\ OneRecovery
=============================================================================
