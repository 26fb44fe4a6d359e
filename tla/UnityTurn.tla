------------------------------ MODULE UnityTurn ------------------------------
(***************************************************************************)
(* A player turn from the game to its answer and back, with its retries:    *)
(* CreateTaskAction records the turn and sends it to ChatController;         *)
(* generation and voiceover report task statuses; TaskController turns each *)
(* into TASK_STATUS_CHANGED, which one ordered lane of the event bus gives   *)
(* to ServerController; the answer goes to the client that owns the task;    *)
(* callbacks finish the record on the IO pool; the user may press retry on   *)
(* a failed message; the process may die and start again at any moment.      *)
(*                                                                         *)
(* FAILED stands for FAILED_ON_GENERATION, FAILED, CANCELLED and ABORTED,    *)
(* which the handlers treat alike.  Message ids are never used twice: the    *)
(* game numbers its requests.                                               *)
(***************************************************************************)
EXTENDS UnityRetryStore, Sequences

CONSTANTS Retriers,    \* IO-pool jobs that run _retry_unity_request
          MaxFaults,   \* bound: failed writes, damaged files, failed playbacks
          MaxRestarts  \* bound: crashes of the process

ASSUME TurnAssumption == MaxFaults \in Nat /\ MaxRestarts \in Nat

VARIABLES turn,      \* _dispatch_task of each message
          tasks,     \* what runs for each task uid
          lane,      \* queued TASK_STATUS_CHANGED events
          handler,   \* _on_task_status_changed, the event it is handling
          wire,      \* task updates handed to the server's loop
          jobs,      \* store updates submitted to the IO pool
          retry,     \* _retry_unity_request of each retrier
          offered,   \* messages whose bubble offers a retry
          online,    \* a game client owns the player's turns
          gone,      \* tasks whose client has disconnected
          drained,   \* tasks whose final update the socket accepted
          discarded, \* messages deleted, expired, or lost with the file
          faults, restarts

turnVars  == <<turn, tasks>>
busVars   == <<lane, handler, wire, jobs>>
userVars  == <<retry, offered>>
linkVars  == <<online, gone, drained>>
boundVars == <<faults, restarts>>
vars == <<storeVars, turnVars, busVars, userVars, linkVars, discarded, boundVars>>

Answering == {"VOICING", "SUCCESS"}
Final     == {"SUCCESS", "FAILED_ON_VOICEOVER"}
TaskEvents == [task : Tasks, status : Answering \cup Final \cup {"FAILED"}]
Event(t, status) == [task |-> t, status |-> status]

NoTurn  == [pc |-> "new", task |-> NoTask]
Idle    == [pc |-> "idle", task |-> NoTask, status |-> "FAILED"]
Unused  == [msg |-> NoTask, phase |-> "unused"]
NoRetry == [pc |-> "idle", msg |-> NoTask, task |-> NoTask, from |-> "needs_generation"]
Msg(t)  == tasks[t].msg
Free    == {t \in Tasks : tasks[t].phase = "unused"}
Created == Tasks \ Free

\* The types of the state: a record of the file, an event of the lane, a job of
\* the pool and a retry under way never name a task or a status out of range.
TypeOK ==
  /\ StoreTypeOK
  /\ turn \in [Messages -> [pc : {"new", "recording", "sending", "done"},
                            task : Tasks \cup {NoTask}]]
  /\ tasks \in [Tasks -> [msg : Messages \cup {NoTask},
                          phase : {"unused", "created", "queued", "generating",
                                   "voicing", "overlapping", "playing", "ending", "over"}]]
  /\ lane \in Seq(TaskEvents)
  /\ handler \in [pc : {"idle", "fence", "send"}, task : Tasks \cup {NoTask},
                  status : Answering \cup Final \cup {"FAILED"}]
  /\ wire \subseteq TaskEvents
  /\ jobs \subseteq [kind : {"complete", "undelivered", "failed"},
                     task : Tasks, status : Answering \cup Final \cup {"FAILED"}]
  /\ retry \in [Retriers -> [pc : {"idle", "claim", "owner", "link", "fire", "release"},
                             msg : Messages \cup {NoTask},
                             task : Tasks \cup {NoTask}, from : Retryable]]
  /\ offered \subseteq Messages
  /\ online \in BOOLEAN
  /\ gone \subseteq Tasks
  /\ drained \subseteq Tasks
  /\ discarded \subseteq Messages
  /\ faults \in 0..MaxFaults
  /\ restarts \in 0..MaxRestarts

Init ==
  /\ StoreInit
  /\ turn = [m \in Messages |-> NoTurn]
  /\ tasks = [t \in Tasks |-> Unused]
  /\ lane = <<>> /\ handler = Idle /\ wire = {} /\ jobs = {}
  /\ retry = [r \in Retriers |-> NoRetry]
  /\ offered = {}
  /\ online = FALSE /\ gone = {} /\ drained = {} /\ discarded = {}
  /\ faults = 0 /\ restarts = 0

\* A write that fails is one of the bounded faults.
Outcome(ok) == /\ ok \/ blocked \/ faults < MaxFaults
               /\ faults' = IF ok \/ blocked THEN faults ELSE faults + 1
               /\ UNCHANGED restarts

Report(t, status) == lane' = Append(lane, Event(t, status))
Job(kind, t, status) == [kind |-> kind, task |-> t, status |-> status]
\* Bound: nobody starts work the remaining uids cannot carry.
UidsLeft == Cardinality(Free) > Cardinality({r \in Retriers : retry[r].pc # "idle"})
Phase(t, phase) == tasks' = [tasks EXCEPT ![t].phase = phase]

-----------------------------------------------------------------------------
(* _dispatch_task, a coroutine of the server's loop.                        *)

Receive(m) ==
  /\ online /\ turn[m].pc = "new" /\ UidsLeft
  /\ \E t \in Free :
       /\ tasks' = [tasks EXCEPT ![t] = [msg |-> m, phase |-> "created"]]
       /\ turn' = [turn EXCEPT ![m] = [pc |-> "recording", task |-> t]]
  /\ UNCHANGED <<storeVars, busVars, userVars, linkVars, discarded, boundVars>>

\* The turn goes on without a record when add fails.
Record(m, ok) ==
  /\ turn[m].pc = "recording"
  /\ Add(m, turn[m].task, ok)
  /\ Outcome(ok)
  /\ turn' = [turn EXCEPT ![m].pc = "sending"]
  /\ UNCHANGED <<tasks, busVars, userVars, linkVars, discarded>>

SendToChat(m) ==
  /\ turn[m].pc = "sending"
  /\ turn' = [turn EXCEPT ![m].pc = "done"]
  /\ Phase(turn[m].task, "queued")
  /\ UNCHANGED <<storeVars, busVars, userVars, linkVars, discarded, boundVars>>

-----------------------------------------------------------------------------
(* ChatController and AudioController.                                      *)

\* _on_send_message: the GENERATION pool takes the request or is saturated.
Submit(t) ==
  /\ tasks[t].phase = "queued"
  /\ \/ Phase(t, "generating") /\ UNCHANGED <<lane, offered>>
     \/ /\ Phase(t, "over")
        /\ Report(t, "FAILED")
        /\ offered' = offered \cup {Msg(t)}
  /\ UNCHANGED <<storeVars, turn, handler, wire, jobs, retry, linkVars, discarded, boundVars>>

\* _run_request: an answer, with or without voiceover, a failure, a cancel.  What follows
\* the answer may be about to raise (one of the bounded faults).
Generate(t) ==
  /\ tasks[t].phase = "generating"
  /\ \/ /\ \/ Phase(t, "voicing") /\ Report(t, "VOICING")
           \/ Phase(t, "over") /\ Report(t, "SUCCESS")
        /\ UNCHANGED <<offered, faults>>
     \/ /\ \/ Phase(t, "overlapping") /\ Report(t, "VOICING")
           \/ Phase(t, "ending") /\ Report(t, "SUCCESS")
        /\ faults < MaxFaults /\ faults' = faults + 1
        /\ UNCHANGED offered
     \/ /\ Phase(t, "over") /\ Report(t, "FAILED")
        /\ offered' \in {offered, offered \cup {Msg(t)}}  \* silent on cancel
        /\ UNCHANGED faults
  /\ UNCHANGED <<storeVars, turn, handler, wire, jobs, retry, linkVars, discarded, restarts>>

\* The except of _run_request, behind an answer it has reported.
FailLate(t) ==
  /\ tasks[t].phase \in {"overlapping", "ending"}
  /\ Phase(t, IF tasks[t].phase = "ending" THEN "over" ELSE "voicing")
  /\ Report(t, "FAILED")
  /\ offered' \in {offered, offered \cup {Msg(t)}}
  /\ UNCHANGED <<storeVars, turn, handler, wire, jobs, retry, linkVars, discarded, boundVars>>

Voice(t) ==
  /\ \/ /\ tasks[t].phase \in {"voicing", "overlapping"}
        /\ Phase(t, IF tasks[t].phase = "voicing" THEN "over" ELSE "ending")
        /\ \E status \in Final : Report(t, status)
        /\ UNCHANGED faults
     \/ /\ tasks[t].phase = "voicing"
        /\ ~online /\ faults < MaxFaults /\ faults' = faults + 1
        /\ Phase(t, "playing") /\ Report(t, "SUCCESS")
  /\ UNCHANGED <<storeVars, turn, handler, wire, jobs, userVars, linkVars, discarded, restarts>>

\* With no game connected the sound is played here after SUCCESS was reported;
\* a playback that fails (one of the bounded faults) reports once more.
FailPlayback(t) ==
  /\ tasks[t].phase = "playing"
  /\ Phase(t, "over") /\ Report(t, "FAILED_ON_VOICEOVER")
  /\ UNCHANGED <<storeVars, turn, handler, wire, jobs, userVars, linkVars, discarded, boundVars>>

-----------------------------------------------------------------------------
(* ServerController._on_task_status_changed, on the one lane of its event.  *)

Expected == {"generating", "delivery_retrying", "generated_pending_voiceover",
             "generated_pending_delivery"}

PendingStatusAsReported(status) == status   \* mutant
PendingStatus(status) == IF status = "VOICING" THEN "generated_pending_voiceover"
                                               ELSE "generated_pending_delivery"

NextEvent(e) == /\ handler.pc = "idle" /\ lane # <<>>
                /\ e = Head(lane)
                /\ lane' = Tail(lane)

Handling(pc, e) == handler' = [pc |-> pc, task |-> e.task, status |-> e.status]

TakeAnswer(e, ok) ==
  /\ NextEvent(e) /\ e.status \in Answering
  /\ Outcome(ok)
  /\ IF Accepts(Msg(e.task), Expected, e.task)
     THEN /\ Answered(Msg(e.task), PendingStatus(e.status), ok)
          /\ Handling(IF ok THEN "send" ELSE "fence", e)
     ELSE /\ CanWrite(ok)
          /\ Handling("fence", e)
          /\ UNCHANGED storeVars
  /\ UNCHANGED <<turnVars, wire, jobs, userVars, linkVars, discarded>>

\* The second look at the store, after the lock was released.
Fence ==
  /\ handler.pc = "fence"
  /\ handler' = IF IsSupersededAttempt(Msg(handler.task), handler.task)
                THEN Idle ELSE [handler EXCEPT !.pc = "send"]
  /\ UNCHANGED <<storeVars, turnVars, lane, wire, jobs, userVars, linkVars,
                 discarded, boundVars>>

TakeVoiceFailure(e, ok) ==
  /\ NextEvent(e) /\ e.status = "FAILED_ON_VOICEOVER"
  /\ Outcome(ok)
  /\ IF Accepts(Msg(e.task), {"generated_pending_voiceover"}, e.task)
     THEN /\ VoiceoverFailed(Msg(e.task), ok)
          /\ offered' = IF ok THEN offered \cup {Msg(e.task)} ELSE offered
     ELSE CanWrite(ok) /\ UNCHANGED <<storeVars, offered>>
  /\ Handling("send", e)
  /\ UNCHANGED <<turnVars, wire, jobs, retry, linkVars, discarded>>

TakeFailure(e) ==
  /\ NextEvent(e) /\ e.status = "FAILED"
  /\ jobs' = jobs \cup {Job("failed", e.task, "FAILED")}
  /\ UNCHANGED <<storeVars, turnVars, handler, wire, userVars, linkVars,
                 discarded, boundVars>>

\* schedule_send_task_update: None once the loop of a stopped server is gone.
ScheduleSend ==
  /\ handler.pc = "send"
  /\ handler' = Idle
  /\ \/ /\ wire' = wire \cup {Event(handler.task, handler.status)}
        /\ UNCHANGED jobs
     \/ /\ handler.task \in gone
        /\ jobs' = jobs \cup {Job("undelivered", handler.task, handler.status)}
        /\ UNCHANGED wire
  /\ UNCHANGED <<storeVars, turnVars, lane, userVars, linkVars, discarded, boundVars>>

-----------------------------------------------------------------------------
(* The server's loop: send_task_update, then the callback of its future.    *)

Drain(e) ==
  /\ e \in wire /\ e.task \notin gone
  /\ wire' = wire \ {e}
  /\ IF e.status \in Final
     THEN /\ drained' = drained \cup {e.task}
          /\ jobs' = jobs \cup {Job("complete", e.task, e.status)}
     ELSE UNCHANGED <<drained, jobs>>
  /\ UNCHANGED <<storeVars, turnVars, lane, handler, userVars, online, gone,
                 discarded, boundVars>>

\* No writer for the client, or the peer reset the connection under a write:
\* then the client is forgotten with all its tasks.
SendFails(e) ==
  /\ e \in wire
  /\ wire' = wire \ {e}
  /\ jobs' = jobs \cup {Job("undelivered", e.task, e.status)}
  /\ IF e.task \in gone
     THEN UNCHANGED linkVars
     ELSE online' = FALSE /\ gone' = Created /\ UNCHANGED drained
  /\ UNCHANGED <<storeVars, turnVars, lane, handler, userVars, discarded, boundVars>>

Connect == /\ ~online /\ online' = TRUE
           /\ UNCHANGED <<storeVars, turnVars, busVars, userVars, gone, drained,
                          discarded, boundVars>>

Disconnect == /\ online /\ online' = FALSE /\ gone' = Created
              /\ UNCHANGED <<storeVars, turnVars, busVars, userVars, drained,
                             discarded, boundVars>>

-----------------------------------------------------------------------------
(* The IO pool: finalizers in any order.                                    *)

RunJob(j, ok) ==
  /\ j \in jobs
  /\ jobs' = jobs \ {j}
  /\ Outcome(ok)
  /\ CASE j.kind = "complete" ->
            CompleteDelivery(Msg(j.task), j.task, ok) /\ UNCHANGED offered
       [] j.kind = "failed" ->
            FinishFailedAttempt(Msg(j.task), j.task, ok) /\ UNCHANGED offered
       [] j.kind = "undelivered" ->
            /\ MarkDeliveryFailed(Msg(j.task), j.task, ok)
            /\ offered' = IF ok /\ Retains(Msg(j.task), j.task)
                          THEN offered \cup {Msg(j.task)} ELSE offered
  /\ UNCHANGED <<turnVars, lane, handler, wire, retry, linkVars, discarded>>

-----------------------------------------------------------------------------
(* ChatController._retry_unity_request, on the IO pool.                     *)

At(r, pc) == retry[r].pc = pc
Goto(r, pc) == retry' = [retry EXCEPT ![r].pc = pc]
Finish(r)   == retry' = [retry EXCEPT ![r] = NoRetry]

\* RETRY_LAST: a click on a bubble that still offers it.
Click(r, m) ==
  /\ At(r, "idle") /\ m \in offered /\ UidsLeft
  /\ retry' = [retry EXCEPT ![r] = [NoRetry EXCEPT !.pc = "claim", !.msg = m]]
  /\ UNCHANGED <<storeVars, turnVars, busVars, offered, linkVars, discarded, boundVars>>

TryClaim(r, ok) ==
  LET m == retry[r].msg IN
  /\ At(r, "claim")
  /\ Outcome(ok)
  /\ IF Claimable(m)
     THEN /\ Claim(m, ok)
          /\ IF ok
             THEN /\ retry' = [retry EXCEPT ![r].pc = "owner",
                                            ![r].from = outbox[m].status]
                  /\ UNCHANGED offered
             ELSE Finish(r) /\ offered' = offered \cup {m}
     ELSE /\ CanWrite(ok)
          /\ Finish(r)
          /\ offered' = IF \/ m \in tombstones
                           \/ outbox[m].status \in {"absent", "unretryable"}
                        THEN offered \cup {m} ELSE offered
          /\ UNCHANGED storeVars
  /\ UNCHANGED <<turnVars, busVars, linkVars, discarded>>

\* player_turn_owner, then create_task for that client.
FindOwner(r) ==
  /\ At(r, "owner")
  /\ \/ /\ ~online
        /\ Goto(r, "release")
        /\ UNCHANGED tasks
     \/ /\ online
        /\ \E t \in Free :
             /\ tasks' = [tasks EXCEPT ![t] = [msg |-> retry[r].msg, phase |-> "created"]]
             /\ retry' = [retry EXCEPT ![r].pc = "link", ![r].task = t]
  /\ UNCHANGED <<storeVars, turn, busVars, offered, linkVars, discarded, boundVars>>

LinkTask(r, ok) ==
  LET m == retry[r].msg
      t == retry[r].task IN
  /\ At(r, "link")
  /\ Outcome(ok)
  /\ \/ /\ SetActiveTask(m, t, ok) /\ ok
        /\ Goto(r, "fire")
        /\ offered' = offered \ {m}
        /\ UNCHANGED <<tasks, lane>>
     \/ /\ ~ok \/ ~Present(m)
        /\ CanWrite(ok)
        /\ Phase(t, "over") /\ Report(t, "FAILED")
        /\ Goto(r, "release")
        /\ UNCHANGED <<storeVars, offered>>
  /\ UNCHANGED <<turn, handler, wire, jobs, linkVars, discarded>>

ResendsNothing(from) == FALSE   \* mutant
Resend(from) == from = "generated_pending_delivery"

\* The saved answer goes straight to delivery; anything else is generated.
Fire(r) ==
  LET t == retry[r].task IN
  /\ At(r, "fire")
  /\ Finish(r)
  /\ IF Resend(retry[r].from)
     THEN Phase(t, "over") /\ Report(t, "SUCCESS")
     ELSE Phase(t, "queued") /\ UNCHANGED lane
  /\ UNCHANGED <<storeVars, turn, handler, wire, jobs, offered, linkVars,
                 discarded, boundVars>>

Release(r, ok) ==
  LET m == retry[r].msg IN
  /\ At(r, "release")
  /\ Outcome(ok)
  /\ ReleaseClaim(m, retry[r].from, ok)
  /\ Finish(r)
  /\ offered' = offered \cup {m}
  /\ UNCHANGED <<turnVars, busVars, linkVars, discarded>>

-----------------------------------------------------------------------------
(* The user, the disk and the process.                                      *)

\* DELETE_MESSAGE.
Delete(m, ok) ==
  /\ Remove(m, ok)
  /\ Outcome(ok)
  /\ discarded' = IF ok THEN discarded \cup {m} ELSE discarded
  /\ offered' = offered \ {m}
  /\ UNCHANGED <<turnVars, busVars, retry, linkVars>>

AgeOut(m) ==
  /\ Expire(m)
  /\ discarded' = discarded \cup {m}
  /\ UNCHANGED <<turnVars, busVars, userVars, linkVars, boundVars>>

Corrupt ==
  /\ faults < MaxFaults /\ faults' = faults + 1
  /\ \/ \E m \in Messages : Damage(m) /\ UNCHANGED discarded
     \/ /\ \E stuck \in BOOLEAN : CorruptFile(stuck)
        /\ discarded' = discarded \cup {m \in Messages : Present(m)}
  /\ UNCHANGED <<turnVars, busVars, userVars, linkVars, restarts>>

\* The process dies; the next one recovers the outbox and shows what it holds.
Restart(ok) ==
  /\ restarts < MaxRestarts /\ restarts' = restarts + 1
  /\ ok \/ faults < MaxFaults
  /\ faults' = IF ok THEN faults ELSE faults + 1
  /\ RecoverInterruptedAttempts(ok)
  /\ turn' = [m \in Messages |-> IF turn[m].pc = "new" THEN turn[m]
                                 ELSE [turn[m] EXCEPT !.pc = "done"]]
  /\ tasks' = [t \in Tasks |-> IF t \in Free THEN Unused
                               ELSE [tasks[t] EXCEPT !.phase = "over"]]
  /\ lane' = <<>> /\ handler' = Idle /\ wire' = {} /\ jobs' = {}
  /\ retry' = [r \in Retriers |-> NoRetry]
  /\ offered' = {m \in Messages : outbox'[m].status \in Retryable \cup {"unretryable"}}
  /\ online' = FALSE /\ gone' = Created
  /\ UNCHANGED <<drained, discarded>>

-----------------------------------------------------------------------------
Dispatching == \E m \in Messages :
                 \/ \E ok \in BOOLEAN : Record(m, ok)
                 \/ SendToChat(m)
Producing == \E t \in Tasks :
               Submit(t) \/ Generate(t) \/ FailLate(t) \/ Voice(t) \/ FailPlayback(t)
Accepting == \E ok \in BOOLEAN, e \in TaskEvents :
               TakeAnswer(e, ok) \/ TakeVoiceFailure(e, ok)
HandleStatus == \/ Accepting
                \/ \E e \in TaskEvents : TakeFailure(e)
                \/ Fence
                \/ ScheduleSend
Sending   == \E e \in wire : Drain(e) \/ SendFails(e)
Finalizing == \E j \in jobs, ok \in BOOLEAN : RunJob(j, ok)
Retrying(r) == \/ \E ok \in BOOLEAN : TryClaim(r, ok) \/ LinkTask(r, ok) \/ Release(r, ok)
               \/ FindOwner(r) \/ Fire(r)
Environment ==
  \/ Connect \/ Disconnect
  \/ \E m \in Messages : Receive(m) \/ AgeOut(m)
  \/ \E m \in Messages, ok \in BOOLEAN : Delete(m, ok)
  \/ \E r \in Retriers, m \in Messages : Click(r, m)
  \/ Corrupt
  \/ \E ok \in BOOLEAN : Restart(ok)

Next == \/ Dispatching \/ Producing \/ HandleStatus \/ Sending \/ Finalizing
        \/ \E r \in Retriers : Retrying(r)
        \/ Environment

Spec == Init /\ [][Next]_vars

\* Threads, lanes and pool workers run on; backends and voice engines answer or
\* fail.  Nothing is assumed of the socket, the game or the user.
FairSpec == /\ Spec
            /\ WF_vars(Dispatching) /\ WF_vars(HandleStatus) /\ WF_vars(Finalizing)
            /\ \A t \in Tasks : WF_vars(Submit(t) \/ Generate(t) \/ FailLate(t) \/ Voice(t) \/ FailPlayback(t))
            /\ \A r \in Retriers : WF_vars(Retrying(r))

-----------------------------------------------------------------------------
(* Safety.                                                                  *)

\* A record says it has an answer exactly when it holds one, so that neither
\* a retry nor a recovery ever asks the model again for a turn it answered.
\* "unretryable" hides the state a damaged record was in.
AnswerKept ==
  \A m \in Messages :
    /\ outbox[m].status \in {"generated_pending_voiceover",
                             "generated_pending_delivery", "delivery_retrying"}
         => outbox[m].answer
    /\ outbox[m].status \in {"generating", "needs_generation"} => ~outbox[m].answer

Claiming(r) == retry[r].pc \in {"owner", "link", "release"}

\* Between its claim and its link or release a retry has the record for
\* itself: no other retry claims it, and no late status of an older task moves
\* it; only deletion, expiry or damage take it away.
ClaimExclusive ==
  /\ \A r \in Retriers : Claiming(r) =>
       LET rec == outbox[retry[r].msg] IN
       rec.status \notin {"absent", "unretryable"} =>
         /\ rec.status = ClaimedStatus(retry[r].from)
         /\ rec.task = NoTask
         /\ rec.from = retry[r].from
  /\ \A r, s \in Retriers :
       r # s /\ Claiming(r) /\ Claiming(s) /\ Present(retry[r].msg)
         => retry[r].msg # retry[s].msg

\* Generations that will still report for a message.
Live(m) == {t \in Tasks : Msg(t) = m /\ tasks[t].phase \in {"queued", "generating"}}

\* However the user clicks and tasks fail, one turn runs in one generation at
\* a time.
OneGeneration == \A m \in Messages : Cardinality(Live(m)) <= 1

\* A model call starts only for a turn whose record, if it has one, holds no
\* answer.
NoCallForAnswered ==
  [][\A t \in Tasks :
       tasks[t].phase = "queued" /\ tasks'[t].phase = "generating"
         => ~outbox[Msg(t)].answer]_vars

\* The ledger as the outbox shows it.
DeliveredMessages == {Msg(t) : t \in drained}

LedgerOf(m) == IF Present(m)
               THEN IF outbox[m].answer THEN "answered" ELSE "open"
               ELSE IF m \in DeliveredMessages \cup discarded THEN "settled"
                                                             ELSE "none"

Ledger == INSTANCE TurnLedger WITH ledger <- [m \in Messages |-> LedgerOf(m)],
                                   delivered <- DeliveredMessages

\* The outbox implements the ledger: no turn is forgotten, reopened or answered
\* twice on record, through lost writes, late statuses, retries and crashes.
LedgerSpec == Ledger!Spec

InProgress(m) == outbox[m].status \in
                   {"generating", "delivery_retrying", "generated_pending_voiceover"}

\* No turn stays in progress: it comes, again and again, to a record that is
\* gone, marked broken, or offered for another explicit attempt.
TurnResolves == \A m \in Messages : []<>~InProgress(m)
=============================================================================
