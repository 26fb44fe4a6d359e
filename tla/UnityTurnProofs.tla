--------------------------- MODULE UnityTurnProofs ---------------------------
(***************************************************************************)
(* Proofs about UnityTurn: its type invariant, AnswerKept and               *)
(* ClaimExclusive; then one generation of a turn at a time, no model call    *)
(* for a turn that has its answer, and the refinement of TurnLedger; for any *)
(* set of messages, tasks and retriers and any number of faults and restarts.*)
(*                                                                         *)
(* Neither safety invariant is inductive.  A release gives a record back the *)
(* status its retry claimed it at, so AnswerKept needs that the claim still  *)
(* describes the record; that needs that no late status of an older task    *)
(* reaches a claimed record, and that no new record appears under a retry.  *)
(***************************************************************************)
EXTENDS UnityTurn, FiniteSetTheorems, TLAPS

-----------------------------------------------------------------------------
(* The store.  What each operation of UnityRetryStore does to the record it  *)
(* is given, field by field; the rest of the proof uses these facts and not  *)
(* the records the operations write.                                        *)

\* The record of m is kept or gets these fields; the others are kept.
Touched(m, s, t, f, a) ==
  /\ outbox' \in [Messages -> Records]
  /\ \A n \in Messages \ {m} : outbox'[n] = outbox[n]
  /\ \/ outbox'[m] = outbox[m]
     \/ /\ outbox'[m].status = s /\ outbox'[m].task = t
        /\ outbox'[m].from = f /\ outbox'[m].answer = a

\* A write replaces one record or leaves the file as it was.
LEMMA WriteEffect ==
  ASSUME StoreTypeOK, NEW m \in Messages, NEW rec \in Records, NEW ok \in BOOLEAN,
         Write(m, rec, ok)
  PROVE  Touched(m, rec.status, rec.task, rec.from, rec.answer)
BY DEF StoreTypeOK, Write, Touched

\* The empty record.
LEMMA NoRecordFields ==
  /\ NoRecord \in Records /\ NoRecord.status = "absent" /\ NoRecord.task = NoTask
  /\ NoRecord.from = "needs_generation" /\ NoRecord.answer = FALSE
BY DEF NoRecord, Records, Statuses, Retryable

\* add makes a record that waits for its first generation.
LEMMA AddEffect ==
  ASSUME StoreTypeOK, NEW m \in Messages, NEW t \in Tasks, NEW ok \in BOOLEAN,
         Add(m, t, ok)
  PROVE  Touched(m, "generating", t, "needs_generation", FALSE)
<1> DEFINE rec == [NoRecord EXCEPT !.status = "generating", !.task = t]
<1>1. /\ rec \in Records /\ rec.status = "generating" /\ rec.task = t
      /\ rec.from = "needs_generation" /\ rec.answer = FALSE
  BY NoRecordFields DEF Records, Statuses
<1>2. outbox' = outbox \/ Write(m, rec, ok)
  BY DEF Add
<1> HIDE DEF rec
<1>3. CASE outbox' = outbox
  BY <1>3 DEF Touched, StoreTypeOK
<1>4. CASE Write(m, rec, ok)
  BY <1>1, <1>4, WriteEffect
<1> QED BY <1>2, <1>3, <1>4

\* The transition on an answer.
LEMMA AnsweredEffect ==
  ASSUME StoreTypeOK, NEW m \in Messages, NEW s \in Statuses, NEW ok \in BOOLEAN,
         Answered(m, s, ok)
  PROVE  Touched(m, s, outbox[m].task, outbox[m].from, TRUE)
BY DEF Answered, Write, Records, StoreTypeOK, Touched

\* mark_voiceover_failed.
LEMMA VoiceoverFailedEffect ==
  ASSUME StoreTypeOK, NEW m \in Messages, NEW ok \in BOOLEAN, VoiceoverFailed(m, ok)
  PROVE  Touched(m, "generated_pending_delivery", outbox[m].task, outbox[m].from,
                 outbox[m].answer)
BY DEF VoiceoverFailed, Write, Records, StoreTypeOK, Touched, Statuses, Retryable

\* A claim takes a retryable record away from every task.
LEMMA ClaimEffect ==
  ASSUME StoreTypeOK, NEW m \in Messages, NEW ok \in BOOLEAN, Claim(m, ok)
  PROVE  /\ outbox[m].status \in Retryable
         /\ Touched(m, ClaimedStatus(outbox[m].status), NoTask, outbox[m].status,
                    outbox[m].answer)
         /\ ok => /\ outbox'[m].status = ClaimedStatus(outbox[m].status)
                  /\ outbox'[m].task = NoTask
                  /\ outbox'[m].from = outbox[m].status
         /\ ~ok => UNCHANGED outbox
BY ZenonT(60) DEF Claim, Claimable, ClaimedStatus, Write, Records, StoreTypeOK, Touched, Statuses, Retryable

\* set_active_task.
LEMMA SetActiveTaskEffect ==
  ASSUME StoreTypeOK, NEW m \in Messages, NEW t \in Tasks, NEW ok \in BOOLEAN,
         SetActiveTask(m, t, ok)
  PROVE  Touched(m, outbox[m].status, t, outbox[m].from, outbox[m].answer)
BY DEF SetActiveTask, Write, Records, StoreTypeOK, Touched

\* A release moves only a record that is being worked on.
LEMMA ReleaseClaimEffect ==
  ASSUME StoreTypeOK, NEW m \in Messages, NEW f \in Retryable, NEW ok \in BOOLEAN,
         ReleaseClaim(m, f, ok)
  PROVE  \/ UNCHANGED outbox
         \/ /\ outbox[m].status \in {"generating", "delivery_retrying"}
            /\ Touched(m, f, NoTask, outbox[m].from, outbox[m].answer)
<1> DEFINE rec == [outbox[m] EXCEPT !.status = f, !.task = NoTask]
<1>1. /\ rec \in Records /\ rec.status = f /\ rec.task = NoTask
      /\ rec.from = outbox[m].from /\ rec.answer = outbox[m].answer
  BY DEF Records, StoreTypeOK, Statuses
<1>2. \/ UNCHANGED outbox
      \/ outbox[m].status \in {"generating", "delivery_retrying"} /\ Write(m, rec, ok)
  BY DEF ReleaseClaim, Releasable
<1> HIDE DEF rec
<1> QED BY <1>1, <1>2, WriteEffect

\* finish_failed_attempt moves only a record that is the task's own.
LEMMA FinishFailedAttemptEffect ==
  ASSUME StoreTypeOK, NEW m \in Messages, NEW t \in Tasks, NEW ok \in BOOLEAN,
         FinishFailedAttempt(m, t, ok)
  PROVE  \/ UNCHANGED outbox
         \/ /\ Owns(m, t)
            /\ Touched(m, IF \/ outbox[m].from = "generated_pending_delivery"
                             \/ outbox[m].answer
                          THEN "generated_pending_delivery" ELSE "needs_generation",
                       NoTask, "needs_generation", outbox[m].answer)
<1> DEFINE status == IF \/ outbox[m].from = "generated_pending_delivery"
                         \/ outbox[m].answer
                      THEN "generated_pending_delivery" ELSE "needs_generation"
           rec == [outbox[m] EXCEPT !.status = status, !.task = NoTask,
                                    !.from = "needs_generation"]
<1>1. status \in Statuses
  BY DEF Statuses, Retryable
<1>2. UNCHANGED outbox \/ (Owns(m, t) /\ Write(m, rec, ok))
  BY DEF FinishFailedAttempt
<1> HIDE DEF status
<1>3. /\ rec \in Records /\ rec.status = status /\ rec.task = NoTask
      /\ rec.from = "needs_generation" /\ rec.answer = outbox[m].answer
  BY <1>1 DEF Records, StoreTypeOK, Retryable
<1> HIDE DEF rec
<1>4. UNCHANGED outbox \/ (Owns(m, t) /\ Touched(m, status, NoTask, "needs_generation", outbox[m].answer))
  BY <1>2, <1>3, WriteEffect
<1> QED BY <1>4 DEF status

\* mark_delivery_failed moves only a record of the task that has an answer.
LEMMA MarkDeliveryFailedEffect ==
  ASSUME StoreTypeOK, NEW m \in Messages, NEW t \in Tasks, NEW ok \in BOOLEAN,
         MarkDeliveryFailed(m, t, ok)
  PROVE  \/ UNCHANGED outbox
         \/ /\ Retains(m, t)
            /\ Touched(m, "generated_pending_delivery", outbox[m].task, outbox[m].from,
                       outbox[m].answer)
BY DEF MarkDeliveryFailed, Write, Records, StoreTypeOK, Touched, Statuses, Retryable

\* complete_delivery removes only a record that is the task's own.
LEMMA CompleteDeliveryEffect ==
  ASSUME StoreTypeOK, NEW m \in Messages, NEW t \in Tasks, NEW ok \in BOOLEAN,
         CompleteDelivery(m, t, ok)
  PROVE  \/ UNCHANGED outbox
         \/ /\ Owns(m, t)
            /\ Touched(m, "absent", NoTask, "needs_generation", FALSE)
BY NoRecordFields DEF CompleteDelivery, Write, Records, StoreTypeOK, Touched

\* Removal by the user.
LEMMA RemoveEffect ==
  ASSUME StoreTypeOK, NEW m \in Messages, NEW ok \in BOOLEAN, Remove(m, ok)
  PROVE  Touched(m, "absent", NoTask, "needs_generation", FALSE)
BY NoRecordFields DEF Remove, Write, Records, StoreTypeOK, Touched

\* Removal by age.
LEMMA ExpireEffect ==
  ASSUME StoreTypeOK, NEW m \in Messages, Expire(m)
  PROVE  Touched(m, "absent", NoTask, "needs_generation", FALSE)
BY NoRecordFields DEF Expire, Records, StoreTypeOK, Touched

\* A damaged image.
LEMMA DamageEffect ==
  ASSUME StoreTypeOK, NEW m \in Messages, Damage(m)
  PROVE  Touched(m, "unretryable", outbox[m].task, outbox[m].from, outbox[m].answer)
BY DEF Damage, Records, StoreTypeOK, Touched, Statuses

\* A corrupt file leaves no record.
LEMMA CorruptFileEffect ==
  ASSUME StoreTypeOK, NEW stuck \in BOOLEAN, CorruptFile(stuck)
  PROVE  /\ outbox' \in [Messages -> Records]
         /\ \A m \in Messages : /\ outbox'[m].status = "absent"
                                /\ outbox'[m].from = "needs_generation"
                                /\ outbox'[m].answer = FALSE
BY NoRecordFields DEF CorruptFile

\* Recovery moves records in work back to the retryable status of their kind.
LEMMA RecoverEffect ==
  ASSUME StoreTypeOK, NEW ok \in BOOLEAN, RecoverInterruptedAttempts(ok)
  PROVE  /\ outbox' \in [Messages -> Records]
         /\ \A m \in Messages :
              /\ outbox'[m].from = outbox[m].from
              /\ outbox'[m].answer = outbox[m].answer
              /\ \/ outbox'[m].status = outbox[m].status
                 \/ outbox[m].status = "generating" /\ outbox'[m].status = "needs_generation"
                 \/ /\ outbox[m].status \in {"delivery_retrying", "generated_pending_voiceover"}
                    /\ outbox'[m].status = "generated_pending_delivery"
BY DEF RecoverInterruptedAttempts, Recovered, StoreTypeOK, Records, Statuses, Retryable

-----------------------------------------------------------------------------
(* The invariant.                                                           *)

\* A record claimed from its answer has one.
ClaimedAnswers ==
  \A m \in Messages :
    outbox[m].from = "generated_pending_delivery" => outbox[m].answer

\* Until its record is made, nothing but its own coroutine knows a message.
Begun(m) == turn[m].pc \in {"sending", "done"}

BegunMessages ==
  /\ \A m \in Messages : outbox[m].status # "absent" \/ m \in offered => Begun(m)
  /\ \A r \in Retriers : retry[r].pc # "idle" => Begun(retry[r].msg)
  /\ \A t \in Tasks : tasks[t].phase \notin {"unused", "created"} => Begun(tasks[t].msg)
  /\ \A t \in Tasks : tasks[t].phase # "unused" => turn[tasks[t].msg].pc # "new"

\* The tasks that coroutines and retries hold are theirs.
TasksHeld ==
  /\ \A t \in Tasks : tasks[t].phase # "unused" => tasks[t].msg \in Messages
  /\ \A m \in Messages : turn[m].pc \in {"recording", "sending"} =>
       turn[m].task \in Created /\ tasks[turn[m].task].msg = m
  /\ \A r \in Retriers :
       /\ retry[r].pc # "idle" => retry[r].msg \in Messages
       /\ retry[r].pc \in {"link", "fire"} =>
            retry[r].task \in Created /\ tasks[retry[r].task].msg = retry[r].msg

\* Events and jobs are about tasks that were created.
EventsOfTasks ==
  /\ \A i \in 1..Len(lane) : lane[i].task \in Created
  /\ handler.pc # "idle" => handler.task \in Created
  /\ \A e \in wire : e.task \in Created
  /\ \A j \in jobs : j.task \in Created

\* What ClaimExclusive says, of damaged records too: they come back.
ClaimsHeld ==
  /\ \A r \in Retriers : Claiming(r) =>
       LET rec == outbox[retry[r].msg] IN
       rec.status # "absent" =>
         /\ rec.status \in {"unretryable", ClaimedStatus(retry[r].from)}
         /\ rec.task = NoTask
         /\ rec.from = retry[r].from
  /\ \A r, s \in Retriers :
       r # s /\ Claiming(r) /\ Claiming(s) /\ outbox[retry[r].msg].status # "absent"
         => retry[r].msg # retry[s].msg

IInv == /\ TypeOK /\ AnswerKept /\ ClaimedAnswers
        /\ BegunMessages /\ TasksHeld /\ EventsOfTasks /\ ClaimsHeld

-----------------------------------------------------------------------------
(* What a step may leave alone.                                             *)

\* No write, no change to what records say.
LEMMA RecordsFrame ==
  ASSUME AnswerKept, ClaimedAnswers, UNCHANGED outbox
  PROVE  AnswerKept' /\ ClaimedAnswers'
BY DEF AnswerKept, ClaimedAnswers

\* No write and no move of a retry, no change to the claims.
LEMMA ClaimsFrame ==
  ASSUME ClaimsHeld, UNCHANGED <<outbox, retry>>
  PROVE  ClaimsHeld'
BY DEF ClaimsHeld, Claiming

\* Used tasks stay what they are for.
TasksKept == \A t \in Tasks : tasks[t].phase # "unused" =>
               tasks'[t].phase # "unused" /\ tasks'[t].msg = tasks[t].msg

\* The created tasks are the used ones.
LEMMA CreatedTasks ==
  /\ \A t : t \in Created <=> t \in Tasks /\ tasks[t].phase # "unused"
  /\ \A t : t \in Created' <=> t \in Tasks /\ tasks'[t].phase # "unused"
BY DEF Created, Free

\* Nobody posts.
LEMMA EventsFrame ==
  ASSUME EventsOfTasks, TasksKept, UNCHANGED <<lane, handler, wire, jobs>>
  PROVE  EventsOfTasks'
<1>1. Created \subseteq Created'
  BY CreatedTasks DEF TasksKept
<1> QED BY <1>1 DEF EventsOfTasks

\* Coroutines and retries stand still.
LEMMA HeldFrame ==
  ASSUME TasksHeld, TasksKept, UNCHANGED <<turn, retry>>,
         \A t \in Tasks : tasks'[t].phase # "unused" => tasks'[t].msg \in Messages
  PROVE  TasksHeld'
BY CreatedTasks DEF TasksHeld, TasksKept

\* The status s, claimed at f, agrees with there being an answer.
Agree(s, f, a) ==
  /\ s \in {"generated_pending_voiceover", "generated_pending_delivery",
            "delivery_retrying"} => a = TRUE
  /\ s \in {"generating", "needs_generation"} => a = FALSE
  /\ f = "generated_pending_delivery" => a = TRUE

\* Every record is of this kind.
LEMMA RecordsAgree ==
  ASSUME TypeOK, AnswerKept, ClaimedAnswers
  PROVE  \A m \in Messages : Agree(outbox[m].status, outbox[m].from, outbox[m].answer)
BY DEF TypeOK, StoreTypeOK, Records, AnswerKept, ClaimedAnswers, Agree

\* A write of such a record.
LEMMA RecordsTouched ==
  ASSUME TypeOK, AnswerKept, ClaimedAnswers, NEW m \in Messages,
         NEW s, NEW t, NEW f, NEW a, Touched(m, s, t, f, a), Agree(s, f, a)
  PROVE  AnswerKept' /\ ClaimedAnswers'
<1>1. \A n \in Messages : Agree(outbox'[n].status, outbox'[n].from, outbox'[n].answer)
  BY RecordsAgree DEF Touched
<1> QED BY <1>1 DEF Agree, AnswerKept, ClaimedAnswers

\* The bounds hold.
LEMMA OutcomeBounds ==
  ASSUME TypeOK, NEW ok \in BOOLEAN, Outcome(ok)
  PROVE  faults' \in 0..MaxFaults /\ restarts' \in 0..MaxRestarts
BY TurnAssumption DEF TypeOK, Outcome

\* A write to a record that a task owns: no claim is about it.
LEMMA OwnedWrite ==
  ASSUME TypeOK, TasksHeld, ClaimsHeld, NEW m \in Messages,
         NEW s, NEW t, NEW f, NEW a, Touched(m, s, t, f, a),
         outbox[m].status # "absent", outbox[m].task \in Tasks, UNCHANGED retry
  PROVE  ClaimsHeld'
<1>1. \A r \in Retriers : Claiming(r) => retry[r].msg \in Messages \ {m}
  BY StoreAssumption DEF ClaimsHeld, TasksHeld, Claiming
<1>2. \A r \in Retriers : Claiming(r) => outbox'[retry[r].msg] = outbox[retry[r].msg]
  BY <1>1 DEF Touched
<1> QED BY <1>2 DEF ClaimsHeld, Claiming

\* A record that is removed or damaged, whoever claims it.
LEMMA LostRecord ==
  ASSUME TypeOK, TasksHeld, ClaimsHeld, NEW m \in Messages,
         NEW s, NEW t, NEW f, NEW a, Touched(m, s, t, f, a),
         \/ s = "absent"
         \/ /\ s = "unretryable" /\ outbox[m].status # "absent"
            /\ t = outbox[m].task /\ f = outbox[m].from,
         UNCHANGED retry
  PROVE  ClaimsHeld'
<1>1. \A r \in Retriers : Claiming(r) => retry[r].msg \in Messages
  BY DEF TasksHeld, Claiming
<1>2. \A n \in Messages : outbox'[n].status # "absent" =>
        /\ outbox[n].status # "absent"
        /\ outbox'[n].status \in {outbox[n].status, "unretryable"}
        /\ outbox'[n].task = outbox[n].task /\ outbox'[n].from = outbox[n].from
  BY DEF Touched
<1> QED BY <1>1, <1>2 DEF ClaimsHeld, Claiming

\* What a retry holds.
RetryRecords == [pc : {"idle", "claim", "owner", "link", "fire", "release"},
                 msg : Messages \cup {NoTask},
                 task : Tasks \cup {NoTask}, from : Retryable]

\* No retry.
LEMMA NoRetryFields ==
  /\ NoRetry \in RetryRecords /\ NoRetry.pc = "idle" /\ NoRetry.msg = NoTask
  /\ NoRetry.task = NoTask /\ NoRetry.from = "needs_generation"
BY DEF NoRetry, RetryRecords, Retryable

\* A retry ends.
LEMMA RetryEnds ==
  ASSUME TypeOK, NEW r \in Retriers, Finish(r)
  PROVE  /\ retry' \in [Retriers -> RetryRecords]
         /\ \A s \in Retriers \ {r} : retry'[s] = retry[s]
         /\ retry'[r].pc = "idle"
BY NoRetryFields DEF TypeOK, RetryRecords, Finish

\* A retry goes on.
LEMMA RetryGoes ==
  ASSUME TypeOK, NEW r \in Retriers,
         NEW pc \in {"claim", "owner", "link", "fire", "release"}, Goto(r, pc)
  PROVE  /\ retry' \in [Retriers -> RetryRecords]
         /\ \A s \in Retriers \ {r} : retry'[s] = retry[s]
         /\ retry'[r].pc = pc /\ retry'[r].msg = retry[r].msg
         /\ retry'[r].task = retry[r].task /\ retry'[r].from = retry[r].from
BY DEF TypeOK, RetryRecords, Goto

\* A retry has its claim.
LEMMA RetryClaims ==
  ASSUME TypeOK, NEW r \in Retriers, NEW f \in Retryable,
         retry' = [retry EXCEPT ![r].pc = "owner", ![r].from = f]
  PROVE  /\ retry' \in [Retriers -> RetryRecords]
         /\ \A s \in Retriers \ {r} : retry'[s] = retry[s]
         /\ retry'[r].pc = "owner" /\ retry'[r].msg = retry[r].msg
         /\ retry'[r].from = f
<1> DEFINE rec == [retry[r] EXCEPT !.pc = "owner", !.from = f]
<1>1. /\ rec \in RetryRecords /\ rec.pc = "owner" /\ rec.msg = retry[r].msg
      /\ rec.from = f
  BY ZenonT(60) DEF TypeOK, RetryRecords
<1>2. retry \in [Retriers -> RetryRecords] /\ retry' = [retry EXCEPT ![r] = rec]
  BY DEF TypeOK, RetryRecords
<1> HIDE DEF rec
<1> QED BY <1>1, <1>2

\* A change of phase.
LEMMA PhaseMoves ==
  ASSUME TypeOK, NEW t \in Tasks,
         NEW p \in {"created", "queued", "generating", "voicing", "overlapping", "playing", "ending", "over"},
         Phase(t, p)
  PROVE  /\ tasks' \in [Tasks -> [msg : Messages \cup {NoTask},
                                  phase : {"unused", "created", "queued", "generating",
                                           "voicing", "overlapping", "playing", "ending", "over"}]]
         /\ \A u \in Tasks \ {t} : tasks'[u] = tasks[u]
         /\ tasks'[t].msg = tasks[t].msg /\ tasks'[t].phase = p
BY SMTT(20) DEF TypeOK, Phase

\* A report goes to the end of the lane.
LEMMA ReportAppends ==
  ASSUME TypeOK, NEW t \in Tasks, NEW status \in Answering \cup Final \cup {"FAILED"},
         Report(t, status)
  PROVE  /\ lane' \in Seq(TaskEvents)
         /\ Len(lane') = Len(lane) + 1
         /\ \A i \in 1..Len(lane) : lane'[i] = lane[i]
         /\ lane'[Len(lane) + 1].task = t
<1>1. Event(t, status) \in TaskEvents /\ Event(t, status).task = t
  BY DEF Event, TaskEvents
<1>2. lane \in Seq(TaskEvents)
  BY DEF TypeOK
<1> HIDE DEF Event
<1> QED BY <1>1, <1>2 DEF Report

\* An event that is taken leaves the lane.
LEMMA LaneTail ==
  ASSUME TypeOK, EventsOfTasks, NEW e, NextEvent(e)
  PROVE  /\ lane' \in Seq(TaskEvents)
         /\ \A i \in 1..Len(lane') : lane'[i].task \in Created
         /\ e.task \in Created
<1>1. /\ lane \in Seq(TaskEvents) /\ lane # <<>>
      /\ e = lane[1] /\ lane' = Tail(lane)
  BY DEF TypeOK, NextEvent
<1>2. /\ Len(lane) >= 1 /\ Len(lane') = Len(lane) - 1
      /\ \A i \in 1..Len(lane') : lane'[i] = lane[i + 1]
      /\ lane' \in Seq(TaskEvents)
  BY <1>1
<1> QED BY <1>1, <1>2 DEF EventsOfTasks

\* The new event is about a used task.
LEMMA ReportOfUsed ==
  ASSUME TypeOK, EventsOfTasks, TasksKept, NEW t \in Tasks, tasks'[t].phase # "unused",
         NEW status \in Answering \cup Final \cup {"FAILED"}, Report(t, status),
         UNCHANGED <<handler, wire, jobs>>
  PROVE  EventsOfTasks'
<1>1. Created \subseteq Created' /\ t \in Created'
  BY CreatedTasks DEF TasksKept
<1>2. \A i \in 1..Len(lane') : i \in 1..Len(lane) \/ i = Len(lane) + 1
  BY ReportAppends DEF TypeOK
<1>3. \A i \in 1..Len(lane') : lane'[i].task \in Created'
  BY <1>1, <1>2, ReportAppends DEF EventsOfTasks
<1> QED BY <1>1, <1>3 DEF EventsOfTasks

\* The record of a turn is made before anybody else knows it.
LEMMA RecordStep ==
  ASSUME IInv, NEW m \in Messages, NEW ok \in BOOLEAN, Record(m, ok)
  PROVE  IInv'
<1> USE DEF IInv
<1>a. turn[m].task \in Tasks
  BY CreatedTasks DEF Record, TasksHeld
<1>b. Touched(m, "generating", turn[m].task, "needs_generation", FALSE)
  BY <1>a, AddEffect DEF Record, TypeOK
<1>c. /\ turn' \in [Messages -> [pc : {"new", "recording", "sending", "done"},
                                task : Tasks \cup {NoTask}]]
      /\ \A n \in Messages \ {m} : turn'[n] = turn[n]
      /\ turn'[m].pc = "sending" /\ turn'[m].task = turn[m].task
  BY DEF Record, TypeOK
<1>d. \A r \in Retriers : retry[r].pc # "idle" => retry[r].msg # m
  BY DEF Record, BegunMessages, Begun
<1>e. Agree("generating", "needs_generation", FALSE)
  BY DEF Agree
<1>1. TypeOK'
  BY <1>b, <1>c, OutcomeBounds DEF Record, Add, Touched, TypeOK, StoreTypeOK, busVars, userVars, linkVars
<1>2. AnswerKept' /\ ClaimedAnswers'
  BY <1>b, <1>e, RecordsTouched
<1>3. BegunMessages'
  BY <1>b, <1>c DEF Record, Touched, BegunMessages, Begun, TasksHeld, userVars
<1>4. TasksHeld'
  BY <1>c, CreatedTasks DEF Record, TasksHeld, TypeOK, userVars
<1>5. EventsOfTasks'
  BY EventsFrame DEF Record, TasksKept, busVars
<1>6. ClaimsHeld'
  BY <1>b, <1>d DEF Record, ClaimsHeld, Claiming, Touched, userVars, TasksHeld
<1> QED BY <1>1, <1>2, <1>3, <1>4, <1>5, <1>6

\* The task is given to the chat.
LEMMA SendToChatStep ==
  ASSUME IInv, NEW m \in Messages, SendToChat(m)
  PROVE  IInv'
<1> USE DEF IInv
<1>a. turn[m].task \in Tasks /\ tasks[turn[m].task].msg = m
  BY CreatedTasks DEF SendToChat, TasksHeld
<1>b. /\ tasks' \in [Tasks -> [msg : Messages \cup {NoTask},
                              phase : {"unused", "created", "queued", "generating",
                                       "voicing", "overlapping", "playing", "ending", "over"}]]
      /\ \A u \in Tasks \ {turn[m].task} : tasks'[u] = tasks[u]
      /\ tasks'[turn[m].task].msg = m /\ tasks'[turn[m].task].phase = "queued"
  BY <1>a, PhaseMoves DEF SendToChat
<1>c. /\ turn' \in [Messages -> [pc : {"new", "recording", "sending", "done"},
                                task : Tasks \cup {NoTask}]]
      /\ \A n \in Messages \ {m} : turn'[n] = turn[n]
      /\ turn'[m].pc = "done" /\ turn[m].pc = "sending"
  BY DEF SendToChat, TypeOK
<1>d. TasksKept
  BY <1>a, <1>b DEF TasksKept
<1>1. TypeOK'
  BY <1>c, <1>b DEF SendToChat, TypeOK, storeVars, busVars, userVars, linkVars, boundVars, StoreTypeOK
<1>2. AnswerKept' /\ ClaimedAnswers'
  BY RecordsFrame DEF SendToChat, storeVars
<1>3. BegunMessages'
  BY <1>a, <1>b, <1>c DEF SendToChat, BegunMessages, Begun, TasksHeld, storeVars, userVars
<1>4. TasksHeld'
  BY <1>a, <1>b, <1>c, <1>d, CreatedTasks DEF SendToChat, TasksHeld, TasksKept, userVars
<1>5. EventsOfTasks'
  BY <1>d, EventsFrame DEF SendToChat, busVars
<1>6. ClaimsHeld'
  BY ClaimsFrame DEF SendToChat, storeVars, userVars
<1> QED BY <1>1, <1>2, <1>3, <1>4, <1>5, <1>6

\* A task that runs moves on, and may report at the end of the lane.
LEMMA ProducingStep ==
  ASSUME IInv, NEW t \in Tasks,
         tasks[t].phase \in {"queued", "generating", "voicing", "overlapping", "playing", "ending"},
         NEW p \in {"generating", "voicing", "overlapping", "playing", "ending", "over"}, Phase(t, p),
         \/ UNCHANGED lane
         \/ \E status \in Answering \cup Final \cup {"FAILED"} : Report(t, status),
         offered' \subseteq offered \cup {tasks[t].msg},
         faults' \in 0..MaxFaults,
         UNCHANGED <<storeVars, turn, handler, wire, jobs, retry, linkVars, discarded,
                     restarts>>
  PROVE  IInv'
<1> USE DEF IInv
<1>a. tasks[t].msg \in Messages
  BY DEF TasksHeld
<1>b. /\ tasks' \in [Tasks -> [msg : Messages \cup {NoTask},
                              phase : {"unused", "created", "queued", "generating",
                                       "voicing", "overlapping", "playing", "ending", "over"}]]
      /\ \A u \in Tasks \ {t} : tasks'[u] = tasks[u]
      /\ tasks'[t].msg = tasks[t].msg
      /\ tasks'[t].phase \in {"generating", "voicing", "overlapping", "playing", "ending", "over"}
  BY PhaseMoves
<1>c. lane' \in Seq(TaskEvents)
  BY ReportAppends DEF TypeOK
<1>d. TasksKept
  BY <1>a, <1>b DEF TasksKept
<1>1. TypeOK'
  BY <1>a, <1>b, <1>c DEF TypeOK, StoreTypeOK, storeVars, linkVars
<1>2. AnswerKept' /\ ClaimedAnswers'
  BY RecordsFrame DEF storeVars
<1>3. BegunMessages'
  <2>1. UNCHANGED <<outbox, turn, retry>>
    BY DEF storeVars
  <2>2. \A u \in Tasks : /\ tasks'[u].msg = tasks[u].msg
                         /\ tasks'[u].phase = "unused" <=> tasks[u].phase = "unused"
                         /\ tasks'[u].phase = "created" <=> tasks[u].phase = "created"
    BY <1>b
  <2>3. Begun(tasks[t].msg)
    BY <1>a DEF BegunMessages
  <2> QED BY <2>1, <2>2, <2>3 DEF BegunMessages, Begun, TypeOK
<1>4. TasksHeld'
  BY <1>a, <1>b, <1>d, HeldFrame DEF TasksHeld
<1>5. EventsOfTasks'
  <2>1. CASE UNCHANGED lane
    BY <1>d, <2>1, EventsFrame
  <2>2. CASE \E status \in Answering \cup Final \cup {"FAILED"} : Report(t, status)
    BY <1>b, <1>d, <2>2, ReportOfUsed
  <2> QED BY <2>1, <2>2
<1>6. ClaimsHeld'
  BY ClaimsFrame DEF storeVars
<1> QED BY <1>1, <1>2, <1>3, <1>4, <1>5, <1>6

\* Every step of the chat and of the voice is such a move.
LEMMA ProducersStep ==
  ASSUME IInv, NEW t \in Tasks,
         Submit(t) \/ Generate(t) \/ FailLate(t) \/ Voice(t) \/ FailPlayback(t)
  PROVE  IInv'
<1> USE DEF Answering, Final
<1>f. faults \in 0..MaxFaults /\ faults \in Nat /\ MaxFaults \in Nat
  BY TurnAssumption DEF IInv, TypeOK
<1>1. CASE Submit(t)
  BY <1>1, <1>f, ProducingStep DEF Submit, Msg, boundVars
<1>2. CASE Generate(t)
  <2>1. faults' \in 0..MaxFaults
    BY <1>2, <1>f DEF Generate
  <2> QED BY <1>2, <2>1, ProducingStep DEF Generate, Msg
<1>3. CASE Voice(t)
  <2>1. faults' \in 0..MaxFaults
    BY <1>3, <1>f DEF Voice
  <2> QED BY <1>3, <2>1, ProducingStep DEF Voice, userVars
<1>4. CASE FailPlayback(t)
  BY <1>4, <1>f, ProducingStep DEF FailPlayback, userVars, boundVars
<1>5. CASE FailLate(t)
  BY <1>5, <1>f, ProducingStep DEF FailLate, Msg, boundVars
<1> QED BY <1>1, <1>2, <1>3, <1>4, <1>5

\* A failure is given to the IO pool.
LEMMA TakeFailureStep ==
  ASSUME IInv, NEW e \in TaskEvents, TakeFailure(e)
  PROVE  IInv'
<1> USE DEF IInv
<1>a. lane' \in Seq(TaskEvents) /\ e.task \in Created
  BY DEF TakeFailure, NextEvent, TypeOK, EventsOfTasks
<1>b. \A i \in 1..Len(lane') : lane'[i].task \in Created
  BY LaneTail DEF TakeFailure
<1>1. TypeOK'
  BY <1>a DEF TakeFailure, Job, TaskEvents, TypeOK, StoreTypeOK, storeVars, turnVars, linkVars, boundVars, userVars
<1>2. AnswerKept' /\ ClaimedAnswers'
  BY RecordsFrame DEF TakeFailure, storeVars
<1>3. BegunMessages'
  BY DEF TakeFailure, BegunMessages, Begun, storeVars, turnVars, userVars
<1>4. TasksHeld'
  BY HeldFrame DEF TakeFailure, TasksHeld, TasksKept, turnVars, userVars
<1>5. EventsOfTasks'
  BY <1>a, <1>b, CreatedTasks DEF TakeFailure, EventsOfTasks, Job, TasksKept, turnVars, Created, Free
<1>6. ClaimsHeld'
  BY ClaimsFrame DEF TakeFailure, storeVars, userVars
<1> QED BY <1>1, <1>2, <1>3, <1>4, <1>5, <1>6

\* The second look at the store.
LEMMA FenceStep ==
  ASSUME IInv, Fence
  PROVE  IInv'
<1> USE DEF IInv
<1>1. TypeOK'
  BY DEF Fence, Idle, busVars, TypeOK, StoreTypeOK, storeVars, turnVars, linkVars, boundVars, userVars
<1>2. AnswerKept' /\ ClaimedAnswers'
  BY RecordsFrame DEF Fence, storeVars
<1>3. BegunMessages'
  BY DEF Fence, BegunMessages, Begun, storeVars, turnVars, userVars
<1>4. TasksHeld'
  BY HeldFrame DEF Fence, TasksHeld, TasksKept, turnVars, userVars
<1>5. EventsOfTasks'
  BY DEF Fence, Idle, EventsOfTasks, turnVars, Created, Free
<1>6. ClaimsHeld'
  BY ClaimsFrame DEF Fence, storeVars, userVars
<1> QED BY <1>1, <1>2, <1>3, <1>4, <1>5, <1>6

\* The update is handed to the loop of the server, or it is gone.
LEMMA ScheduleSendStep ==
  ASSUME IInv, ScheduleSend
  PROVE  IInv'
<1> USE DEF IInv
<1>a. handler.task \in Created /\ Created \subseteq Tasks
  BY CreatedTasks DEF ScheduleSend, EventsOfTasks
<1>1. TypeOK'
  BY <1>a DEF ScheduleSend, Idle, Event, Job, TaskEvents, TypeOK, StoreTypeOK, storeVars, turnVars, linkVars, boundVars, userVars
<1>2. AnswerKept' /\ ClaimedAnswers'
  BY RecordsFrame DEF ScheduleSend, storeVars
<1>3. BegunMessages'
  BY DEF ScheduleSend, BegunMessages, Begun, storeVars, turnVars, userVars
<1>4. TasksHeld'
  BY HeldFrame DEF ScheduleSend, TasksHeld, TasksKept, turnVars, userVars
<1>5. EventsOfTasks'
  BY <1>a DEF ScheduleSend, Idle, Event, Job, EventsOfTasks, turnVars, Created, Free
<1>6. ClaimsHeld'
  BY ClaimsFrame DEF ScheduleSend, storeVars, userVars
<1> QED BY <1>1, <1>2, <1>3, <1>4, <1>5, <1>6

\* The socket takes an update.
LEMMA DrainStep ==
  ASSUME IInv, NEW e \in wire, Drain(e)
  PROVE  IInv'
<1> USE DEF IInv
<1>a. e.task \in Created /\ Created \subseteq Tasks
  BY CreatedTasks DEF EventsOfTasks
<1>1. TypeOK'
  BY <1>a DEF Drain, Job, TaskEvents, TypeOK, StoreTypeOK, storeVars, turnVars, linkVars, boundVars, userVars
<1>2. AnswerKept' /\ ClaimedAnswers'
  BY RecordsFrame DEF Drain, storeVars
<1>3. BegunMessages'
  BY DEF Drain, BegunMessages, Begun, storeVars, turnVars, userVars
<1>4. TasksHeld'
  BY HeldFrame DEF Drain, TasksHeld, TasksKept, turnVars, userVars
<1>5. EventsOfTasks'
  BY <1>a DEF Drain, Job, EventsOfTasks, turnVars, Created, Free
<1>6. ClaimsHeld'
  BY ClaimsFrame DEF Drain, storeVars, userVars
<1> QED BY <1>1, <1>2, <1>3, <1>4, <1>5, <1>6

\* The socket does not take an update.
LEMMA SendFailsStep ==
  ASSUME IInv, NEW e \in wire, SendFails(e)
  PROVE  IInv'
<1> USE DEF IInv
<1>a. e.task \in Created /\ Created \subseteq Tasks
  BY CreatedTasks DEF EventsOfTasks
<1>b. /\ wire' \subseteq TaskEvents
      /\ online' \in BOOLEAN /\ gone' \subseteq Tasks /\ drained' \subseteq Tasks
  BY <1>a DEF SendFails, TypeOK, linkVars
<1>c. jobs' \subseteq [kind : {"complete", "undelivered", "failed"},
                      task : Tasks, status : Answering \cup Final \cup {"FAILED"}]
  BY <1>a DEF SendFails, TypeOK, TaskEvents, Job
<1>1. TypeOK'
  BY <1>b, <1>c DEF SendFails, TypeOK, StoreTypeOK, storeVars, turnVars, boundVars, userVars
<1>2. AnswerKept' /\ ClaimedAnswers'
  BY RecordsFrame DEF SendFails, storeVars
<1>3. BegunMessages'
  BY DEF SendFails, BegunMessages, Begun, storeVars, turnVars, userVars
<1>4. TasksHeld'
  BY HeldFrame DEF SendFails, TasksHeld, TasksKept, turnVars, userVars
<1>5. EventsOfTasks'
  BY <1>a DEF SendFails, Job, EventsOfTasks, turnVars, Created, Free
<1>6. ClaimsHeld'
  BY ClaimsFrame DEF SendFails, storeVars, userVars
<1> QED BY <1>1, <1>2, <1>3, <1>4, <1>5, <1>6

\* A client connects.
LEMMA ConnectStep ==
  ASSUME IInv, Connect
  PROVE  IInv'
<1> USE DEF IInv
<1>1. TypeOK'
  BY CreatedTasks DEF Connect, busVars, TypeOK, StoreTypeOK, storeVars, turnVars, linkVars, boundVars, userVars
<1>2. AnswerKept' /\ ClaimedAnswers'
  BY RecordsFrame DEF Connect, storeVars
<1>3. BegunMessages'
  BY DEF Connect, BegunMessages, Begun, storeVars, turnVars, userVars
<1>4. TasksHeld'
  BY HeldFrame DEF Connect, TasksHeld, TasksKept, turnVars, userVars
<1>5. EventsOfTasks'
  BY EventsFrame DEF Connect, TasksKept, turnVars, busVars
<1>6. ClaimsHeld'
  BY ClaimsFrame DEF Connect, storeVars, userVars
<1> QED BY <1>1, <1>2, <1>3, <1>4, <1>5, <1>6

\* The client goes.
LEMMA DisconnectStep ==
  ASSUME IInv, Disconnect
  PROVE  IInv'
<1> USE DEF IInv
<1>1. TypeOK'
  BY CreatedTasks DEF Disconnect, busVars, TypeOK, StoreTypeOK, storeVars, turnVars, linkVars, boundVars, userVars
<1>2. AnswerKept' /\ ClaimedAnswers'
  BY RecordsFrame DEF Disconnect, storeVars
<1>3. BegunMessages'
  BY DEF Disconnect, BegunMessages, Begun, storeVars, turnVars, userVars
<1>4. TasksHeld'
  BY HeldFrame DEF Disconnect, TasksHeld, TasksKept, turnVars, userVars
<1>5. EventsOfTasks'
  BY EventsFrame DEF Disconnect, TasksKept, turnVars, busVars
<1>6. ClaimsHeld'
  BY ClaimsFrame DEF Disconnect, storeVars, userVars
<1> QED BY <1>1, <1>2, <1>3, <1>4, <1>5, <1>6

\* An answer moves only a record that is its own task's: never a claimed one.
LEMMA TakeAnswerStep ==
  ASSUME IInv, NEW ok \in BOOLEAN, NEW e \in TaskEvents, TakeAnswer(e, ok)
  PROVE  IInv'
<1> USE DEF IInv
<1>a. e.task \in Tasks /\ Msg(e.task) \in Messages
  BY LaneTail, CreatedTasks DEF TakeAnswer, TasksHeld, Msg
<1>b. PendingStatus(e.status) \in {"generated_pending_voiceover", "generated_pending_delivery"}
  BY DEF PendingStatus
<1>c. \/ UNCHANGED outbox
      \/ /\ outbox[Msg(e.task)].status \in Expected
         /\ outbox[Msg(e.task)].task = e.task
         /\ Touched(Msg(e.task), PendingStatus(e.status), e.task,
                    outbox[Msg(e.task)].from, TRUE)
  BY <1>a, <1>b, AnsweredEffect DEF TakeAnswer, Accepts, storeVars, TypeOK, Statuses, Retryable
<1>d. Agree(PendingStatus(e.status), outbox[Msg(e.task)].from, TRUE)
  BY <1>b DEF Agree
<1>1. TypeOK'
  BY <1>a, <1>c, LaneTail, OutcomeBounds
   DEF TakeAnswer, NextEvent, Handling, Touched, storeVars, TypeOK, StoreTypeOK, Answered,
       turnVars, userVars, linkVars, TaskEvents
<1>2. AnswerKept' /\ ClaimedAnswers'
  <2>1. CASE UNCHANGED outbox
    BY <2>1, RecordsFrame
  <2>2. CASE ~UNCHANGED outbox
    BY <1>a, <1>c, <1>d, <2>2, RecordsTouched
  <2> QED BY <2>1, <2>2
<1>3. BegunMessages'
  BY <1>a, <1>c DEF TakeAnswer, BegunMessages, Begun, Touched, Expected, turnVars, userVars
<1>4. TasksHeld'
  BY HeldFrame DEF TakeAnswer, TasksHeld, TasksKept, turnVars, userVars
<1>5. EventsOfTasks'
  BY LaneTail DEF TakeAnswer, NextEvent, Handling, EventsOfTasks, Created, Free, turnVars
<1>6. ClaimsHeld'
  <2>1. CASE UNCHANGED outbox
    BY <2>1, ClaimsFrame DEF TakeAnswer, userVars
  <2>2. CASE ~UNCHANGED outbox
    BY <1>a, <1>c, <2>2, OwnedWrite DEF TakeAnswer, userVars, Expected
  <2> QED BY <2>1, <2>2
<1> QED BY <1>1, <1>2, <1>3, <1>4, <1>5, <1>6

\* So does a failed voiceover.
LEMMA TakeVoiceFailureStep ==
  ASSUME IInv, NEW ok \in BOOLEAN, NEW e \in TaskEvents, TakeVoiceFailure(e, ok)
  PROVE  IInv'
<1> USE DEF IInv
<1>a. e.task \in Tasks /\ Msg(e.task) \in Messages
  BY LaneTail, CreatedTasks DEF TakeVoiceFailure, TasksHeld, Msg
<1>c. \/ UNCHANGED outbox
      \/ /\ outbox[Msg(e.task)].status = "generated_pending_voiceover"
         /\ outbox[Msg(e.task)].task = e.task
         /\ Touched(Msg(e.task), "generated_pending_delivery", e.task,
                    outbox[Msg(e.task)].from, outbox[Msg(e.task)].answer)
  BY <1>a, VoiceoverFailedEffect DEF TakeVoiceFailure, Accepts, storeVars, TypeOK
<1>d. outbox[Msg(e.task)].status = "generated_pending_voiceover" =>
        Agree("generated_pending_delivery", outbox[Msg(e.task)].from, outbox[Msg(e.task)].answer)
  BY <1>a, RecordsAgree DEF Agree
<1>1. TypeOK'
  BY <1>a, <1>c, LaneTail, OutcomeBounds
   DEF TakeVoiceFailure, NextEvent, Handling, Touched, storeVars, TypeOK, StoreTypeOK,
       VoiceoverFailed, turnVars, linkVars, TaskEvents
<1>2. AnswerKept' /\ ClaimedAnswers'
  <2>1. CASE UNCHANGED outbox
    BY <2>1, RecordsFrame
  <2>2. CASE ~UNCHANGED outbox
    BY <1>a, <1>c, <1>d, <2>2, RecordsTouched
  <2> QED BY <2>1, <2>2
<1>3. BegunMessages'
  BY <1>a, <1>c DEF TakeVoiceFailure, BegunMessages, Begun, Touched, turnVars, Accepts
<1>4. TasksHeld'
  BY HeldFrame DEF TakeVoiceFailure, TasksHeld, TasksKept, turnVars
<1>5. EventsOfTasks'
  BY LaneTail DEF TakeVoiceFailure, NextEvent, Handling, EventsOfTasks, Created, Free, turnVars
<1>6. ClaimsHeld'
  <2>1. CASE UNCHANGED outbox
    BY <2>1, ClaimsFrame DEF TakeVoiceFailure
  <2>2. CASE ~UNCHANGED outbox
    BY <1>a, <1>c, <2>2, OwnedWrite DEF TakeVoiceFailure
  <2> QED BY <2>1, <2>2
<1> QED BY <1>1, <1>2, <1>3, <1>4, <1>5, <1>6

\* A finalizer moves only a record that is its own task's.
LEMMA RunJobStep ==
  ASSUME IInv, NEW j \in jobs, NEW ok \in BOOLEAN, RunJob(j, ok)
  PROVE  IInv'
<1> USE DEF IInv
<1> DEFINE rec == outbox[Msg(j.task)]
<1>a. j.task \in Tasks /\ Msg(j.task) \in Messages
  BY CreatedTasks DEF EventsOfTasks, TasksHeld, Msg
<1>c. j.kind \in {"complete", "failed", "undelivered"}
  BY DEF TypeOK
<1>b. \/ UNCHANGED outbox
      \/ /\ Owns(Msg(j.task), j.task)
         /\ \E s, t, f, a : Touched(Msg(j.task), s, t, f, a) /\ Agree(s, f, a)
  <2>1. CASE j.kind = "complete"
    <3>1. Agree("absent", "needs_generation", FALSE)
      BY DEF Agree
    <3> QED BY <1>a, <2>1, <3>1, CompleteDeliveryEffect DEF RunJob, TypeOK
  <2>2. CASE j.kind = "failed"
    <3>1. FinishFailedAttempt(Msg(j.task), j.task, ok)
      BY <2>2 DEF RunJob
    <3>2. Agree(IF rec.from = "generated_pending_delivery" \/ rec.answer
                THEN "generated_pending_delivery" ELSE "needs_generation",
                "needs_generation", rec.answer)
      BY <1>a, RecordsAgree DEF Agree, TypeOK, StoreTypeOK, Records
    <3> QED BY <1>a, <3>1, <3>2, FinishFailedAttemptEffect DEF TypeOK
  <2>3. CASE j.kind = "undelivered"
    <3>1. MarkDeliveryFailed(Msg(j.task), j.task, ok)
      BY <2>3 DEF RunJob
    <3>2. Retains(Msg(j.task), j.task) =>
            /\ Agree("generated_pending_delivery", rec.from, rec.answer)
            /\ Owns(Msg(j.task), j.task)
      BY <1>a DEF Agree, Retains, TypeOK, StoreTypeOK, Records
    <3> QED BY <1>a, <3>1, <3>2, MarkDeliveryFailedEffect DEF TypeOK
  <2> QED BY <1>c, <2>1, <2>2, <2>3
<1>1. TypeOK'
  <2>1. offered' \subseteq Messages /\ tombstones' \subseteq Messages /\ blocked' = blocked
    BY <1>a, <1>c DEF RunJob, TypeOK, StoreTypeOK, CompleteDelivery, FinishFailedAttempt,
                MarkDeliveryFailed
  <2> QED BY <1>b, <2>1, OutcomeBounds
          DEF RunJob, Touched, TypeOK, StoreTypeOK, turnVars, linkVars
<1>2. AnswerKept' /\ ClaimedAnswers'
  <2>1. CASE UNCHANGED outbox
    BY <2>1, RecordsFrame
  <2>2. CASE ~UNCHANGED outbox
    BY <1>a, <1>b, <2>2, RecordsTouched
  <2> QED BY <2>1, <2>2
<1>3. BegunMessages'
  <2>1. offered' = offered \/ /\ offered' = offered \cup {Msg(j.task)}
                              /\ outbox[Msg(j.task)].status # "absent"
    BY <1>c DEF RunJob, Retains, Owns, Present
  <2> QED BY <1>a, <1>b, <2>1
          DEF RunJob, BegunMessages, Begun, Touched, turnVars, Owns, Present
<1>4. TasksHeld'
  BY HeldFrame DEF RunJob, TasksHeld, TasksKept, turnVars
<1>5. EventsOfTasks'
  BY DEF RunJob, EventsOfTasks, Created, Free, turnVars
<1>6. ClaimsHeld'
  <2>1. CASE UNCHANGED outbox
    BY <2>1, ClaimsFrame DEF RunJob
  <2>2. CASE ~UNCHANGED outbox
    BY <1>a, <1>b, <2>2, OwnedWrite DEF RunJob, Owns, Present
  <2> QED BY <2>1, <2>2
<1> QED BY <1>1, <1>2, <1>3, <1>4, <1>5, <1>6

\* A record expires.
LEMMA AgeOutStep ==
  ASSUME IInv, NEW m \in Messages, AgeOut(m)
  PROVE  IInv'
<1> USE DEF IInv
<1>a. Touched(m, "absent", NoTask, "needs_generation", FALSE)
  BY ExpireEffect DEF AgeOut, TypeOK
<1>b. discarded' \subseteq Messages
  BY DEF AgeOut, TypeOK
<1>c. Agree("absent", "needs_generation", FALSE)
  BY DEF Agree
<1>1. TypeOK'
  BY <1>a, <1>b DEF AgeOut, Expire, Touched, TypeOK, StoreTypeOK, turnVars, busVars, userVars, linkVars, boundVars
<1>2. AnswerKept' /\ ClaimedAnswers'
  BY <1>a, <1>c, RecordsTouched
<1>3. BegunMessages'
  BY <1>a DEF AgeOut, Touched, BegunMessages, Begun, turnVars, userVars
<1>4. TasksHeld'
  BY HeldFrame DEF AgeOut, TasksHeld, TasksKept, turnVars, userVars
<1>5. EventsOfTasks'
  BY EventsFrame DEF AgeOut, TasksKept, turnVars, busVars
<1>6. ClaimsHeld'
  BY <1>a, LostRecord DEF AgeOut, userVars
<1> QED BY <1>1, <1>2, <1>3, <1>4, <1>5, <1>6

\* The user deletes a message.
LEMMA DeleteStep ==
  ASSUME IInv, NEW m \in Messages, NEW ok \in BOOLEAN, Delete(m, ok)
  PROVE  IInv'
<1> USE DEF IInv
<1>a. Touched(m, "absent", NoTask, "needs_generation", FALSE)
  BY RemoveEffect DEF Delete, TypeOK
<1>b. discarded' \subseteq Messages /\ offered' \subseteq offered
  BY DEF Delete, TypeOK
<1>c. Agree("absent", "needs_generation", FALSE)
  BY DEF Agree
<1>1. TypeOK'
  BY <1>a, <1>b, OutcomeBounds DEF Delete, Remove, Touched, TypeOK, StoreTypeOK, turnVars, busVars, linkVars
<1>2. AnswerKept' /\ ClaimedAnswers'
  BY <1>a, <1>c, RecordsTouched
<1>3. BegunMessages'
  BY <1>a, <1>b DEF Delete, Touched, BegunMessages, Begun, turnVars
<1>4. TasksHeld'
  BY HeldFrame DEF Delete, TasksHeld, TasksKept, turnVars
<1>5. EventsOfTasks'
  BY EventsFrame DEF Delete, TasksKept, turnVars, busVars
<1>6. ClaimsHeld'
  BY <1>a, LostRecord DEF Delete
<1> QED BY <1>1, <1>2, <1>3, <1>4, <1>5, <1>6

\* The user asks for a retry.
LEMMA ClickStep ==
  ASSUME IInv, NEW r \in Retriers, NEW m \in Messages, Click(r, m)
  PROVE  IInv'
<1> USE DEF IInv
<1>a. /\ retry' \in [Retriers -> RetryRecords]
      /\ \A s \in Retriers \ {r} : retry'[s] = retry[s]
      /\ retry'[r].pc = "claim" /\ retry'[r].msg = m
  <2>1. /\ [NoRetry EXCEPT !.pc = "claim", !.msg = m] \in RetryRecords
        /\ [NoRetry EXCEPT !.pc = "claim", !.msg = m].pc = "claim"
        /\ [NoRetry EXCEPT !.pc = "claim", !.msg = m].msg = m
    BY NoRetryFields DEF RetryRecords
  <2> QED BY <2>1 DEF Click, TypeOK, RetryRecords
<1>1. TypeOK'
  BY <1>a DEF Click, RetryRecords, TypeOK, StoreTypeOK, storeVars, turnVars, busVars, linkVars, boundVars
<1>2. AnswerKept' /\ ClaimedAnswers'
  BY RecordsFrame DEF Click, storeVars
<1>3. BegunMessages'
  BY <1>a DEF Click, BegunMessages, Begun, storeVars, turnVars
<1>4. TasksHeld'
  BY <1>a DEF Click, TasksHeld, Created, Free, turnVars
<1>5. EventsOfTasks'
  BY EventsFrame DEF Click, TasksKept, turnVars, busVars
<1>6. ClaimsHeld'
  BY <1>a DEF Click, ClaimsHeld, Claiming, storeVars
<1> QED BY <1>1, <1>2, <1>3, <1>4, <1>5, <1>6

\* The saved answer is sent again, or the turn is generated again.
LEMMA FireStep ==
  ASSUME IInv, NEW r \in Retriers, Fire(r)
  PROVE  IInv'
<1> USE DEF IInv
<1> DEFINE t == retry[r].task
<1>a. /\ t \in Tasks /\ tasks[t].phase # "unused" /\ tasks[t].msg = retry[r].msg
      /\ retry[r].pc = "fire"
  BY CreatedTasks DEF Fire, At, TasksHeld
<1>b. /\ tasks' \in [Tasks -> [msg : Messages \cup {NoTask},
                              phase : {"unused", "created", "queued", "generating",
                                       "voicing", "overlapping", "playing", "ending", "over"}]]
      /\ \A u \in Tasks \ {t} : tasks'[u] = tasks[u]
      /\ tasks'[t].msg = tasks[t].msg /\ tasks'[t].phase \in {"queued", "over"}
  BY <1>a, PhaseMoves DEF Fire
<1>c. /\ retry' \in [Retriers -> RetryRecords]
      /\ \A s \in Retriers \ {r} : retry'[s] = retry[s]
      /\ retry'[r].pc = "idle"
  BY RetryEnds DEF Fire
<1>d. lane' \in Seq(TaskEvents)
  BY <1>a, ReportAppends DEF Fire, Final, TypeOK
<1>e. TasksKept
  BY <1>a, <1>b DEF TasksKept
<1>1. TypeOK'
  BY <1>b, <1>c, <1>d DEF Fire, RetryRecords, TypeOK, StoreTypeOK, storeVars, linkVars, boundVars
<1>2. AnswerKept' /\ ClaimedAnswers'
  BY RecordsFrame DEF Fire, storeVars
<1>3. BegunMessages'
  BY <1>a, <1>b, <1>c DEF Fire, BegunMessages, Begun, storeVars
<1>4. TasksHeld'
  <2>1. \A u \in Created : u \in Created' /\ tasks'[u].msg = tasks[u].msg
    BY <1>e, CreatedTasks DEF TasksKept
  <2>2. \A u \in Tasks : tasks'[u].phase # "unused" => tasks'[u].msg \in Messages
    BY <1>a, <1>b DEF TasksHeld
  <2>3. \A n \in Messages : turn'[n].pc \in {"recording", "sending"} =>
          turn'[n].task \in Created' /\ tasks'[turn'[n].task].msg = n
    BY <2>1 DEF Fire, TasksHeld
  <2> QED BY <1>c, <2>1, <2>2, <2>3 DEF TasksHeld
<1>5. EventsOfTasks'
  <2>1. CASE UNCHANGED lane
    BY <1>e, <2>1, EventsFrame DEF Fire
  <2>2. CASE Report(retry[r].task, "SUCCESS")
    BY <1>a, <1>b, <1>e, <2>2, ReportOfUsed DEF Fire, Final
  <2> QED BY <2>1, <2>2 DEF Fire
<1>6. ClaimsHeld'
  BY <1>c DEF Fire, ClaimsHeld, Claiming, storeVars
<1> QED BY <1>1, <1>2, <1>3, <1>4, <1>5, <1>6

\* A release gives the record the status it was claimed at.
LEMMA ReleaseStep ==
  ASSUME IInv, NEW r \in Retriers, NEW ok \in BOOLEAN, Release(r, ok)
  PROVE  IInv'
<1> USE DEF IInv
<1> DEFINE m == retry[r].msg
           f == retry[r].from
<1>a. retry[r].pc = "release" /\ m \in Messages /\ f \in Retryable
  BY DEF Release, At, TasksHeld, TypeOK
<1>b. \/ UNCHANGED outbox
      \/ /\ outbox[m].status \in {"generating", "delivery_retrying"}
         /\ Touched(m, f, NoTask, outbox[m].from, outbox[m].answer)
  BY <1>a, ReleaseClaimEffect DEF Release, TypeOK
<1>c. /\ retry' \in [Retriers -> RetryRecords]
      /\ \A s \in Retriers \ {r} : retry'[s] = retry[s]
      /\ retry'[r].pc = "idle"
  BY RetryEnds DEF Release
<1>d. outbox[m].status \in {"generating", "delivery_retrying"} =>
        Agree(f, outbox[m].from, outbox[m].answer)
  <2>1. outbox[m].status # "absent" =>
          outbox[m].status \in {"unretryable", ClaimedStatus(f)}
    BY <1>a DEF ClaimsHeld, Claiming
  <2>2. Agree(outbox[m].status, outbox[m].from, outbox[m].answer)
    BY <1>a, RecordsAgree
  <2> QED BY <1>a, <2>1, <2>2 DEF Agree, ClaimedStatus, Retryable
<1>1. TypeOK'
  <2>1. outbox' \in [Messages -> Records]
    BY <1>b DEF Touched, TypeOK, StoreTypeOK
  <2> QED BY <1>a, <1>c, <2>1, OutcomeBounds
     DEF Release, ReleaseClaim, RetryRecords, TypeOK, StoreTypeOK, turnVars, busVars, linkVars
<1>2. AnswerKept' /\ ClaimedAnswers'
  <2>1. CASE UNCHANGED outbox
    BY <2>1, RecordsFrame
  <2>2. CASE ~UNCHANGED outbox
    BY <1>a, <1>b, <1>d, <2>2, RecordsTouched
  <2> QED BY <2>1, <2>2
<1>3. BegunMessages'
  BY <1>a, <1>b, <1>c DEF Release, BegunMessages, Begun, Touched, turnVars
<1>4. TasksHeld'
  BY <1>c DEF Release, TasksHeld, Created, Free, turnVars
<1>5. EventsOfTasks'
  BY EventsFrame DEF Release, TasksKept, turnVars, busVars
<1>6. ClaimsHeld'
  <2>1. \A s \in Retriers \ {r} : Claiming(s) =>
         /\ retry[s].msg \in Messages
         /\ outbox'[retry[s].msg] = outbox[retry[s].msg]
    BY <1>a, <1>b DEF ClaimsHeld, TasksHeld, Claiming, Touched
  <2> QED BY <1>c, <2>1 DEF ClaimsHeld, Claiming
<1> QED BY <1>1, <1>2, <1>3, <1>4, <1>5, <1>6

\* A claim takes a record no task owns any more and no other retry has claimed.
LEMMA TryClaimStep ==
  ASSUME IInv, NEW r \in Retriers, NEW ok \in BOOLEAN, TryClaim(r, ok)
  PROVE  IInv'
<1> USE DEF IInv
<1> DEFINE m == retry[r].msg
<1>a. retry[r].pc = "claim" /\ m \in Messages
  BY DEF TryClaim, At, TasksHeld
<1>b. \/ UNCHANGED outbox /\ Finish(r)
      \/ /\ outbox[m].status \in Retryable
         /\ Touched(m, ClaimedStatus(outbox[m].status), NoTask, outbox[m].status,
                    outbox[m].answer)
         /\ outbox'[m].status = ClaimedStatus(outbox[m].status)
         /\ outbox'[m].task = NoTask /\ outbox'[m].from = outbox[m].status
         /\ retry' = [retry EXCEPT ![r].pc = "owner", ![r].from = outbox[m].status]
         /\ retry'[r].pc = "owner" /\ retry'[r].msg = m /\ retry'[r].from = outbox[m].status
  <2>1. CASE Claimable(m) /\ ok
    <3>1. retry' = [retry EXCEPT ![r].pc = "owner", ![r].from = outbox[m].status]
      BY <2>1 DEF TryClaim
    <3>2. Claim(m, ok)
      BY <2>1 DEF TryClaim
    <3> QED BY ZenonT(60), <1>a, <2>1, <3>1, <3>2, ClaimEffect DEF TypeOK
  <2>2. CASE Claimable(m) /\ ~ok
    BY <1>a, <2>2, ClaimEffect DEF TryClaim, TypeOK
  <2>3. CASE ~Claimable(m)
    BY <2>3 DEF TryClaim, storeVars
  <2> QED BY <2>1, <2>2, <2>3
<1>c. /\ retry' \in [Retriers -> RetryRecords]
      /\ \A s \in Retriers \ {r} : retry'[s] = retry[s]
      /\ \/ retry'[r].pc = "idle"
         \/ retry'[r].pc = "owner" /\ retry'[r].msg = m
  <2>1. CASE Finish(r)
    BY <2>1, RetryEnds
  <2>2. CASE ~Finish(r)
    BY <1>b, <2>2, RetryClaims
  <2> QED BY <2>1, <2>2
<1>d. outbox[m].status \in Retryable =>
        Agree(ClaimedStatus(outbox[m].status), outbox[m].status, outbox[m].answer)
  BY <1>a, RecordsAgree DEF Agree, ClaimedStatus, Retryable
<1>1. TypeOK'
  <2>1. /\ outbox' \in [Messages -> Records]
        /\ UNCHANGED <<tombstones, blocked>>
    BY <1>a, <1>b DEF TryClaim, Claim, storeVars, TypeOK, StoreTypeOK, Touched
  <2>2. retry' \in [Retriers -> RetryRecords] /\ offered' \subseteq Messages
    BY <1>a, <1>b, <1>c DEF TryClaim, TypeOK
  <2> QED BY <2>1, <2>2, OutcomeBounds
     DEF TryClaim, RetryRecords, TypeOK, StoreTypeOK, turnVars, busVars, linkVars
<1>2. AnswerKept' /\ ClaimedAnswers'
  <2>1. CASE UNCHANGED outbox
    BY <2>1, RecordsFrame
  <2>2. CASE ~UNCHANGED outbox
    BY <1>a, <1>b, <1>d, <2>2, RecordsTouched
  <2> QED BY <2>1, <2>2
<1>3. BegunMessages'
  <2>1. Begun(m)
    BY <1>a DEF BegunMessages
  <2>2. offered' \subseteq offered \cup {m}
    BY DEF TryClaim
  <2>3. \A n \in Messages \ {m} : outbox'[n] = outbox[n]
    BY <1>a, <1>b DEF Touched
  <2> QED BY <1>a, <1>c, <2>1, <2>2, <2>3 DEF TryClaim, BegunMessages, Begun, turnVars
<1>4. TasksHeld'
  BY <1>a, <1>c DEF TryClaim, TasksHeld, Created, Free, turnVars
<1>5. EventsOfTasks'
  BY EventsFrame DEF TryClaim, TasksKept, turnVars, busVars
<1>6. ClaimsHeld'
  <2>1. CASE UNCHANGED outbox /\ retry'[r].pc = "idle"
    BY <1>c, <2>1 DEF ClaimsHeld, Claiming
  <2>2. CASE ~(UNCHANGED outbox /\ retry'[r].pc = "idle")
    <3>0. Finish(r) => retry'[r].pc = "idle"
      BY RetryEnds
    <3>1. /\ outbox[m].status \in Retryable
          /\ outbox'[m].status = ClaimedStatus(outbox[m].status)
          /\ outbox'[m].task = NoTask /\ outbox'[m].from = outbox[m].status
          /\ retry'[r].msg = m /\ retry'[r].from = outbox[m].status
      BY <1>b, <2>2, <3>0
    <3>2. \A s \in Retriers : Claiming(s) => retry[s].msg \in Messages /\ retry[s].msg # m
      BY <3>1 DEF ClaimsHeld, Claiming, TasksHeld, ClaimedStatus, Retryable
    <3>3. \A s \in Retriers \ {r} : Claiming(s) => outbox'[retry[s].msg] = outbox[retry[s].msg]
      BY <1>a, <1>b, <3>2 DEF Touched
    <3> QED BY <1>c, <3>1, <3>2, <3>3 DEF ClaimsHeld, Claiming
  <2> QED BY <2>1, <2>2
<1> QED BY <1>1, <1>2, <1>3, <1>4, <1>5, <1>6

\* A retry makes its task, or finds nobody to make it for.
LEMMA FindOwnerStep ==
  ASSUME IInv, NEW r \in Retriers, FindOwner(r)
  PROVE  IInv'
<1> USE DEF IInv
<1>a. retry[r].pc = "owner" /\ retry[r].msg \in Messages
  BY DEF FindOwner, At, TasksHeld
<1>b. /\ retry' \in [Retriers -> RetryRecords]
      /\ \A s \in Retriers \ {r} : retry'[s] = retry[s]
      /\ retry'[r].msg = retry[r].msg /\ retry'[r].from = retry[r].from
      /\ tasks' \in [Tasks -> [msg : Messages \cup {NoTask},
                              phase : {"unused", "created", "queued", "generating",
                                       "voicing", "overlapping", "playing", "ending", "over"}]]
      /\ \/ retry'[r].pc = "release" /\ tasks' = tasks
         \/ \E t \in Tasks :
              /\ tasks[t].phase = "unused"
              /\ \A u \in Tasks \ {t} : tasks'[u] = tasks[u]
              /\ tasks'[t].msg = retry[r].msg /\ tasks'[t].phase = "created"
              /\ retry'[r].pc = "link" /\ retry'[r].task = t
  <2>1. CASE ~online
    BY <2>1, RetryGoes DEF FindOwner, TypeOK
  <2>2. CASE online
    <3>1. PICK t \in Free :
            /\ tasks' = [tasks EXCEPT ![t] = [msg |-> retry[r].msg, phase |-> "created"]]
            /\ retry' = [retry EXCEPT ![r].pc = "link", ![r].task = t]
      BY <2>2 DEF FindOwner
    <3>2. t \in Tasks /\ tasks[t].phase = "unused"
      BY DEF Free
    <3>3. /\ retry' \in [Retriers -> RetryRecords]
          /\ \A s \in Retriers \ {r} : retry'[s] = retry[s]
          /\ retry'[r].msg = retry[r].msg /\ retry'[r].from = retry[r].from
          /\ retry'[r].pc = "link" /\ retry'[r].task = t
      BY ZenonT(60), <3>1, <3>2 DEF TypeOK, RetryRecords
    <3>4. /\ tasks' \in [Tasks -> [msg : Messages \cup {NoTask},
                              phase : {"unused", "created", "queued", "generating",
                                       "voicing", "overlapping", "playing", "ending", "over"}]]
          /\ \A u \in Tasks \ {t} : tasks'[u] = tasks[u]
          /\ tasks'[t].msg = retry[r].msg /\ tasks'[t].phase = "created"
      BY <1>a, <3>1, <3>2 DEF TypeOK
    <3> QED BY <3>2, <3>3, <3>4
  <2> QED BY <2>1, <2>2
<1>c. TasksKept
  BY <1>b DEF TasksKept
<1>1. TypeOK'
  BY <1>a, <1>b DEF FindOwner, RetryRecords, TypeOK, StoreTypeOK, storeVars, busVars, linkVars, boundVars
<1>2. AnswerKept' /\ ClaimedAnswers'
  BY RecordsFrame DEF FindOwner, storeVars
<1>3. BegunMessages'
  BY <1>a, <1>b DEF FindOwner, BegunMessages, Begun, storeVars
<1>4. TasksHeld'
  <2>1. \A t \in Created : t \in Created' /\ tasks'[t].msg = tasks[t].msg
    BY <1>c, CreatedTasks DEF TasksKept
  <2>2. \A t \in Tasks : tasks'[t].phase # "unused" => tasks'[t].msg \in Messages
    BY <1>a, <1>b DEF TasksHeld
  <2>3. \A n \in Messages : turn'[n].pc \in {"recording", "sending"} =>
          turn'[n].task \in Created' /\ tasks'[turn'[n].task].msg = n
    BY <2>1 DEF FindOwner, TasksHeld
  <2>4. \A s \in Retriers \ {r} :
          /\ retry'[s].pc # "idle" => retry'[s].msg \in Messages
          /\ retry'[s].pc \in {"link", "fire"} =>
               retry'[s].task \in Created' /\ tasks'[retry'[s].task].msg = retry'[s].msg
    BY <1>b, <2>1 DEF TasksHeld
  <2>5. retry'[r].msg \in Messages /\ (retry'[r].pc \in {"link", "fire"} =>
          retry'[r].task \in Created' /\ tasks'[retry'[r].task].msg = retry'[r].msg)
    BY <1>a, <1>b, CreatedTasks
  <2> QED BY <2>2, <2>3, <2>4, <2>5 DEF TasksHeld
<1>5. EventsOfTasks'
  BY <1>c, EventsFrame DEF FindOwner, busVars
<1>6. ClaimsHeld'
  BY <1>a, <1>b DEF FindOwner, ClaimsHeld, Claiming, storeVars
<1> QED BY <1>1, <1>2, <1>3, <1>4, <1>5, <1>6

\* The record becomes the task's, or the task fails.
LEMMA LinkTaskStep ==
  ASSUME IInv, NEW r \in Retriers, NEW ok \in BOOLEAN, LinkTask(r, ok)
  PROVE  IInv'
<1> USE DEF IInv
<1> DEFINE m == retry[r].msg
           t == retry[r].task
<1>a. /\ retry[r].pc = "link" /\ m \in Messages /\ t \in Tasks
      /\ tasks[t].phase # "unused" /\ tasks[t].msg = m
  BY CreatedTasks DEF LinkTask, At, TasksHeld
<1>b. \/ UNCHANGED outbox
      \/ /\ outbox[m].status # "absent"
         /\ Touched(m, outbox[m].status, t, outbox[m].from, outbox[m].answer)
         /\ retry'[r].pc = "fire"
  <2>1. CASE SetActiveTask(m, t, ok) /\ Goto(r, "fire")
    <3>1. retry'[r].pc = "fire"
      BY <2>1, RetryGoes
    <3> QED BY <1>a, <2>1, <3>1, SetActiveTaskEffect DEF SetActiveTask, Present, TypeOK
  <2>2. CASE UNCHANGED storeVars
    BY <2>2 DEF storeVars
  <2> QED BY <2>1, <2>2 DEF LinkTask
<1>c. /\ retry' \in [Retriers -> RetryRecords]
      /\ \A s \in Retriers \ {r} : retry'[s] = retry[s]
      /\ retry'[r].pc \in {"fire", "release"} /\ retry'[r].msg = m
      /\ retry'[r].task = t /\ retry'[r].from = retry[r].from
  BY RetryGoes DEF LinkTask
<1>d. /\ tasks' \in [Tasks -> [msg : Messages \cup {NoTask},
                              phase : {"unused", "created", "queued", "generating",
                                       "voicing", "overlapping", "playing", "ending", "over"}]]
      /\ \A u \in Tasks \ {t} : tasks'[u] = tasks[u]
      /\ tasks'[t].msg = m /\ tasks'[t].phase # "unused"
  BY <1>a, PhaseMoves DEF LinkTask, TypeOK
<1>e. /\ lane' \in Seq(TaskEvents) /\ offered' \subseteq offered
      /\ UNCHANGED lane \/ Report(t, "FAILED")
  BY <1>a, ReportAppends DEF LinkTask, TypeOK
<1>f. TasksKept
  BY <1>a, <1>d DEF TasksKept
<1>1. TypeOK'
  <2>1. CASE UNCHANGED storeVars
    BY <1>a, <1>b, <1>c, <1>d, <1>e, <2>1, OutcomeBounds
       DEF LinkTask, RetryRecords, TypeOK, StoreTypeOK, storeVars, linkVars
  <2>2. CASE ~UNCHANGED storeVars
    <3>1. UNCHANGED <<tombstones, blocked>>
      BY <2>2 DEF LinkTask, SetActiveTask
    <3> QED BY <1>a, <1>b, <1>c, <1>d, <1>e, <3>1, OutcomeBounds
       DEF LinkTask, Touched, RetryRecords, TypeOK, StoreTypeOK, linkVars
  <2> QED BY <2>1, <2>2
<1>2. AnswerKept' /\ ClaimedAnswers'
  <2>1. Agree(outbox[m].status, outbox[m].from, outbox[m].answer)
    BY <1>a, RecordsAgree
  <2> QED BY <1>a, <1>b, <2>1, RecordsTouched, RecordsFrame
<1>3. BegunMessages'
  <2>1. Begun(m)
    BY <1>a DEF BegunMessages
  <2>2. \A n \in Messages \ {m} : outbox'[n] = outbox[n]
    BY <1>a, <1>b DEF Touched
  <2>3. \A u \in Tasks : tasks'[u].phase \notin {"unused", "created"} =>
          tasks[u].phase \notin {"unused", "created"} \/ tasks'[u].msg = m
    <3>1. tasks'[t].msg = m
      BY <1>a, <1>d
    <3> QED BY <1>d, <3>1
  <2>4. \A u \in Tasks : tasks'[u].phase # "unused" =>
          tasks[u].phase # "unused" /\ tasks'[u].msg = tasks[u].msg
    BY <1>a, <1>d
  <2>5. outbox[m].status = "absent" => outbox'[m].status = "absent"
    BY <1>a, <1>b
  <2> QED BY <1>a, <1>c, <1>e, <2>1, <2>2, <2>3, <2>4 DEF LinkTask, BegunMessages, Begun
<1>4. TasksHeld'
  <2>1. \A u \in Created : u \in Created' /\ tasks'[u].msg = tasks[u].msg
    BY <1>f, CreatedTasks DEF TasksKept
  <2>2. \A u \in Tasks : tasks'[u].phase # "unused" => tasks'[u].msg \in Messages
    BY <1>a, <1>d DEF TasksHeld
  <2>3. \A n \in Messages : turn'[n].pc \in {"recording", "sending"} =>
          turn'[n].task \in Created' /\ tasks'[turn'[n].task].msg = n
    BY <2>1 DEF LinkTask, TasksHeld
  <2> QED BY <1>a, <1>c, <2>1, <2>2, <2>3 DEF TasksHeld
<1>5. EventsOfTasks'
  <2>1. CASE UNCHANGED lane
    BY <1>f, <2>1, EventsFrame DEF LinkTask
  <2>2. CASE ~UNCHANGED lane
    BY <1>a, <1>d, <1>e, <1>f, <2>2, ReportOfUsed DEF LinkTask
  <2> QED BY <2>1, <2>2
<1>6. ClaimsHeld'
  <2>1. CASE UNCHANGED outbox
    BY <1>a, <1>c, <2>1 DEF ClaimsHeld, Claiming
  <2>2. CASE ~UNCHANGED outbox
    <3>1. outbox[m].status # "absent" /\ retry'[r].pc = "fire"
      BY <1>b, <2>2
    <3>2. \A s \in Retriers \ {r} : Claiming(s) => retry[s].msg \in Messages \ {m}
      BY <1>a, <3>1 DEF ClaimsHeld, Claiming, TasksHeld
    <3>3. \A s \in Retriers \ {r} : Claiming(s) => outbox'[retry[s].msg] = outbox[retry[s].msg]
      BY <1>b, <3>2 DEF Touched
    <3> QED BY <1>c, <3>1, <3>2, <3>3 DEF ClaimsHeld, Claiming
  <2> QED BY <2>1, <2>2
<1> QED BY <1>1, <1>2, <1>3, <1>4, <1>5, <1>6

\* Damage takes records away from whoever holds them.
LEMMA CorruptStep ==
  ASSUME IInv, Corrupt
  PROVE  IInv'
<1> USE DEF IInv
<1>a. /\ outbox' \in [Messages -> Records]
      /\ \/ \E m \in Messages :
              /\ outbox[m].status # "absent"
              /\ Touched(m, "unretryable", outbox[m].task, outbox[m].from, outbox[m].answer)
         \/ \A m \in Messages : /\ outbox'[m].status = "absent"
                                /\ outbox'[m].from = "needs_generation"
                                /\ outbox'[m].answer = FALSE
  <2>1. ASSUME NEW m \in Messages, Damage(m)
        PROVE  /\ outbox[m].status # "absent"
               /\ Touched(m, "unretryable", outbox[m].task, outbox[m].from, outbox[m].answer)
               /\ outbox' \in [Messages -> Records]
    BY <2>1, DamageEffect DEF Damage, Present, TypeOK, Touched
  <2>2. ASSUME NEW stuck \in BOOLEAN, CorruptFile(stuck)
        PROVE  /\ outbox' \in [Messages -> Records]
               /\ \A m \in Messages : /\ outbox'[m].status = "absent"
                                      /\ outbox'[m].from = "needs_generation"
                                      /\ outbox'[m].answer = FALSE
    BY <2>2, CorruptFileEffect DEF TypeOK
  <2> QED BY <2>1, <2>2 DEF Corrupt
<1>1. TypeOK'
  <2>1. outbox' \in [Messages -> Records]
    BY <1>a DEF Touched
  <2>2. tombstones' = tombstones /\ blocked' \in BOOLEAN /\ discarded' \subseteq Messages
    BY DEF Corrupt, Damage, CorruptFile, TypeOK, StoreTypeOK
  <2>3. faults' \in 0..MaxFaults
    BY TurnAssumption DEF Corrupt, TypeOK
  <2> QED BY <2>1, <2>2, <2>3 DEF Corrupt, TypeOK, StoreTypeOK, turnVars, busVars, userVars, linkVars
<1>2. AnswerKept' /\ ClaimedAnswers'
  <2>1. ASSUME NEW m \in Messages, outbox[m].status # "absent",
               Touched(m, "unretryable", outbox[m].task, outbox[m].from, outbox[m].answer)
        PROVE  AnswerKept' /\ ClaimedAnswers'
    <3>1. Agree("unretryable", outbox[m].from, outbox[m].answer)
      BY RecordsAgree DEF Agree
    <3> QED BY <2>1, <3>1, RecordsTouched
  <2>2. ASSUME \A m \in Messages : /\ outbox'[m].status = "absent"
                                  /\ outbox'[m].from = "needs_generation"
                                  /\ outbox'[m].answer = FALSE
        PROVE  AnswerKept' /\ ClaimedAnswers'
    BY <2>2 DEF AnswerKept, ClaimedAnswers
  <2> QED BY <1>a, <2>1, <2>2
<1>3. BegunMessages'
  <2>1. \A m \in Messages : outbox'[m].status # "absent" => outbox[m].status # "absent"
    BY <1>a DEF Touched
  <2> QED BY <2>1 DEF Corrupt, BegunMessages, Begun, turnVars, userVars
<1>4. TasksHeld'
  BY HeldFrame DEF Corrupt, TasksHeld, TasksKept, turnVars, userVars
<1>5. EventsOfTasks'
  BY EventsFrame DEF Corrupt, TasksKept, turnVars, busVars
<1>6. ClaimsHeld'
  <2>1. ASSUME NEW m \in Messages, outbox[m].status # "absent",
               Touched(m, "unretryable", outbox[m].task, outbox[m].from, outbox[m].answer)
        PROVE  ClaimsHeld'
    BY <2>1, LostRecord DEF Corrupt, userVars
  <2>2. ASSUME \A m \in Messages : outbox'[m].status = "absent"
        PROVE  ClaimsHeld'
    BY <2>2 DEF Corrupt, userVars, ClaimsHeld, TasksHeld, Claiming
  <2> QED BY <1>a, <2>1, <2>2
<1> QED BY <1>1, <1>2, <1>3, <1>4, <1>5, <1>6

\* The next process recovers what the last one left.
LEMMA RestartStep ==
  ASSUME IInv, NEW ok \in BOOLEAN, Restart(ok)
  PROVE  IInv'
<1> USE DEF IInv
<1>a. /\ outbox' \in [Messages -> Records]
      /\ \A m \in Messages :
           /\ outbox'[m].from = outbox[m].from
           /\ outbox'[m].answer = outbox[m].answer
           /\ \/ outbox'[m].status = outbox[m].status
              \/ outbox[m].status = "generating" /\ outbox'[m].status = "needs_generation"
              \/ /\ outbox[m].status \in {"delivery_retrying", "generated_pending_voiceover"}
                 /\ outbox'[m].status = "generated_pending_delivery"
  BY RecoverEffect DEF Restart, TypeOK
<1>b. /\ turn' \in [Messages -> [pc : {"new", "recording", "sending", "done"},
                                task : Tasks \cup {NoTask}]]
      /\ \A m \in Messages : turn'[m].pc = IF turn[m].pc = "new" THEN "new" ELSE "done"
  BY DEF Restart, TypeOK
<1>c. /\ tasks' \in [Tasks -> [msg : Messages \cup {NoTask},
                              phase : {"unused", "created", "queued", "generating",
                                       "voicing", "overlapping", "playing", "ending", "over"}]]
      /\ \A t \in Tasks : \/ tasks'[t].phase = "unused"
                         \/ /\ tasks'[t].msg = tasks[t].msg
                            /\ tasks[t].phase # "unused"
  <2>1. \A t \in Tasks : t \in Free <=> tasks[t].phase = "unused"
    BY DEF Free
  <2>2. Unused.phase = "unused" /\ Unused.msg = NoTask
    BY DEF Unused
  <2> QED BY <2>1, <2>2 DEF Restart, TypeOK, Unused
<1>d. \A r \in Retriers : retry'[r].pc = "idle"
  BY NoRetryFields DEF Restart
<1>1. TypeOK'
  <2>1. tombstones' \subseteq Messages /\ blocked' \in BOOLEAN
    BY DEF Restart, RecoverInterruptedAttempts, TypeOK, StoreTypeOK
  <2>2. faults' \in 0..MaxFaults /\ restarts' \in 0..MaxRestarts
    BY TurnAssumption DEF Restart, TypeOK
  <2>3. /\ lane' = <<>> /\ handler' = Idle /\ wire' = {} /\ jobs' = {}
        /\ online' \in BOOLEAN /\ drained' = drained /\ discarded' = discarded
        /\ offered' \subseteq Messages
    BY DEF Restart
  <2>5. gone' \subseteq Tasks
    BY DEF Restart, Created
  <2>6. lane' \in Seq(TaskEvents)
    BY <2>3
  <2>4. retry' \in [Retriers -> RetryRecords]
    BY NoRetryFields DEF Restart
  <2> QED BY <1>a, <1>b, <1>c, <2>1, <2>2, <2>3, <2>4, <2>5, <2>6 DEF RetryRecords, Idle, TypeOK, StoreTypeOK
<1>2. AnswerKept' /\ ClaimedAnswers'
  <2>1. \A m \in Messages : Agree(outbox'[m].status, outbox'[m].from, outbox'[m].answer)
    BY <1>a, RecordsAgree DEF Agree
  <2> QED BY <2>1 DEF Agree, AnswerKept, ClaimedAnswers
<1>3. BegunMessages'
  <2>1. \A m \in Messages : outbox'[m].status # "absent" => outbox[m].status # "absent"
    BY <1>a
  <2>2. \A m \in Messages : m \in offered' => outbox'[m].status # "absent"
    BY DEF Restart, Retryable
  <2> QED BY <1>b, <1>c, <1>d, <2>1, <2>2 DEF BegunMessages, Begun, TasksHeld
<1>4. TasksHeld'
  BY <1>b, <1>c, <1>d DEF TasksHeld
<1>5. EventsOfTasks'
  BY DEF Restart, Idle, EventsOfTasks
<1>6. ClaimsHeld'
  BY <1>d DEF ClaimsHeld, Claiming
<1> QED BY <1>1, <1>2, <1>3, <1>4, <1>5, <1>6

\* A turn comes from the game and gets its first task.
LEMMA ReceiveStep ==
  ASSUME IInv, NEW m \in Messages, Receive(m)
  PROVE  IInv'
<1> USE DEF IInv
<1>a. turn[m].pc = "new"
  BY DEF Receive
<1> PICK t \in Free :
      /\ tasks' = [tasks EXCEPT ![t] = [msg |-> m, phase |-> "created"]]
      /\ turn' = [turn EXCEPT ![m] = [pc |-> "recording", task |-> t]]
  BY DEF Receive
<1>b. /\ tasks' \in [Tasks -> [msg : Messages \cup {NoTask},
                              phase : {"unused", "created", "queued", "generating",
                                       "voicing", "overlapping", "playing", "ending", "over"}]]
      /\ t \in Tasks /\ tasks[t].phase = "unused"
      /\ \A u \in Tasks \ {t} : tasks'[u] = tasks[u]
      /\ tasks'[t].msg = m /\ tasks'[t].phase = "created"
  BY DEF TypeOK, Free
<1>c. /\ turn' \in [Messages -> [pc : {"new", "recording", "sending", "done"},
                                task : Tasks \cup {NoTask}]]
      /\ \A n \in Messages \ {m} : turn'[n] = turn[n]
      /\ turn'[m].pc = "recording" /\ turn'[m].task = t
  BY <1>b DEF TypeOK
<1>d. TasksKept
  BY <1>b DEF TasksKept
<1>1. TypeOK'
  BY <1>b, <1>c DEF Receive, TypeOK, StoreTypeOK, storeVars, busVars, userVars, linkVars, boundVars
<1>2. AnswerKept' /\ ClaimedAnswers'
  BY RecordsFrame DEF Receive, storeVars
<1>3. BegunMessages'
  <2>1. \A n \in Messages : Begun(n) => Begun(n)'
    BY <1>a, <1>c DEF Begun
  <2> QED BY <1>b, <1>c, <2>1 DEF Receive, BegunMessages, Begun, TasksHeld, storeVars, userVars
<1>4. TasksHeld'
  <2>1. \A u \in Created : u \in Created' /\ tasks'[u].msg = tasks[u].msg
    BY <1>d, CreatedTasks DEF TasksKept
  <2>2. \A u \in Tasks : tasks'[u].phase # "unused" => tasks'[u].msg \in Messages
    BY <1>b DEF TasksHeld
  <2>3. \A n \in Messages : turn'[n].pc \in {"recording", "sending"} =>
          turn'[n].task \in Created' /\ tasks'[turn'[n].task].msg = n
    BY <1>b, <1>c, <2>1, CreatedTasks DEF TasksHeld
  <2>4. \A s \in Retriers :
          /\ retry'[s].pc # "idle" => retry'[s].msg \in Messages
          /\ retry'[s].pc \in {"link", "fire"} =>
               retry'[s].task \in Created' /\ tasks'[retry'[s].task].msg = retry'[s].msg
    BY <2>1 DEF Receive, TasksHeld, userVars
  <2> QED BY <2>2, <2>3, <2>4 DEF TasksHeld
<1>5. EventsOfTasks'
  BY <1>d, EventsFrame DEF Receive, busVars
<1>6. ClaimsHeld'
  BY ClaimsFrame DEF Receive, storeVars, userVars
<1> QED BY <1>1, <1>2, <1>3, <1>4, <1>5, <1>6

-----------------------------------------------------------------------------
(* The theorems.                                                            *)

\* Nothing has happened yet.
LEMMA InitHolds ==
  ASSUME Init
  PROVE  IInv
<1>a. /\ outbox \in [Messages -> Records]
      /\ \A m \in Messages : /\ outbox[m].status = "absent"
                             /\ outbox[m].from = "needs_generation"
                             /\ outbox[m].answer = FALSE
  BY NoRecordFields DEF Init, StoreInit
<1>b. /\ retry \in [Retriers -> RetryRecords]
      /\ \A r \in Retriers : retry[r].pc = "idle"
  BY NoRetryFields DEF Init
<1>c. /\ turn \in [Messages -> [pc : {"new", "recording", "sending", "done"},
                               task : Tasks \cup {NoTask}]]
      /\ \A m \in Messages : turn[m].pc = "new"
  BY DEF Init, NoTurn
<1>d. /\ tasks \in [Tasks -> [msg : Messages \cup {NoTask},
                             phase : {"unused", "created", "queued", "generating",
                                      "voicing", "overlapping", "playing", "ending", "over"}]]
      /\ \A t \in Tasks : tasks[t].phase = "unused"
  BY DEF Init, Unused
<1>e. lane \in Seq(TaskEvents) /\ Len(lane) = 0
  BY DEF Init
<1>1. TypeOK
  <2>1. tombstones = {} /\ blocked = FALSE
    BY DEF Init, StoreInit
  <2>2. /\ handler.pc = "idle" /\ handler.task = NoTask /\ handler.status = "FAILED"
        /\ handler = [pc |-> handler.pc, task |-> handler.task, status |-> handler.status]
    BY DEF Init, Idle
  <2>3. /\ wire = {} /\ jobs = {} /\ offered = {} /\ online = FALSE /\ gone = {}
        /\ drained = {} /\ discarded = {} /\ faults = 0 /\ restarts = 0
    BY DEF Init
  <2>4. faults \in 0..MaxFaults /\ restarts \in 0..MaxRestarts
    BY <2>3, TurnAssumption
  <2> QED BY <1>a, <1>b, <1>c, <1>d, <1>e, <2>1, <2>2, <2>3, <2>4
          DEF RetryRecords, TypeOK, StoreTypeOK
<1>2. AnswerKept /\ ClaimedAnswers
  BY <1>a DEF AnswerKept, ClaimedAnswers
<1>3. BegunMessages
  BY <1>a, <1>b, <1>d DEF Init, BegunMessages
<1>4. TasksHeld
  BY <1>b, <1>c, <1>d DEF TasksHeld
<1>5. EventsOfTasks
  BY <1>e DEF Init, Idle, EventsOfTasks
<1>6. ClaimsHeld
  BY <1>b DEF ClaimsHeld, Claiming
<1> QED BY <1>1, <1>2, <1>3, <1>4, <1>5, <1>6 DEF IInv

\* A stuttering step.
LEMMA StutterHolds ==
  ASSUME IInv, UNCHANGED vars
  PROVE  IInv'
<1> USE DEF vars, storeVars, turnVars, busVars, userVars, linkVars, boundVars
<1>1. TypeOK'
  BY DEF IInv, TypeOK, StoreTypeOK
<1>2. AnswerKept' /\ ClaimedAnswers'
  BY RecordsFrame DEF IInv
<1>3. BegunMessages'
  BY DEF IInv, BegunMessages, Begun
<1>4. TasksHeld'
  BY HeldFrame DEF IInv, TasksHeld, TasksKept
<1>5. EventsOfTasks'
  BY EventsFrame DEF IInv, TasksKept
<1>6. ClaimsHeld'
  BY ClaimsFrame DEF IInv
<1> QED BY <1>1, <1>2, <1>3, <1>4, <1>5, <1>6 DEF IInv

\* Every step of the system keeps the invariant.
LEMMA NextHolds ==
  ASSUME IInv, Next
  PROVE  IInv'
<1>1. CASE Dispatching
  BY <1>1, RecordStep, SendToChatStep DEF Dispatching
<1>2. CASE Producing
  BY <1>2, ProducersStep DEF Producing
<1>3. CASE HandleStatus
  BY <1>3, TakeAnswerStep, TakeVoiceFailureStep, TakeFailureStep, FenceStep,
     ScheduleSendStep DEF HandleStatus, Accepting
<1>4. CASE Sending
  BY <1>4, DrainStep, SendFailsStep DEF Sending
<1>5. CASE Finalizing
  BY <1>5, RunJobStep DEF Finalizing
<1>6. ASSUME NEW r \in Retriers, Retrying(r)
      PROVE  IInv'
  BY <1>6, TryClaimStep, LinkTaskStep, ReleaseStep, FindOwnerStep, FireStep DEF Retrying
<1>7. CASE Environment
  <2>1. CASE Connect \/ Disconnect
    BY <2>1, ConnectStep, DisconnectStep
  <2>2. CASE \E m \in Messages : Receive(m) \/ AgeOut(m)
    BY <2>2, ReceiveStep, AgeOutStep
  <2>3. CASE \E m \in Messages, ok \in BOOLEAN : Delete(m, ok)
    BY <2>3, DeleteStep
  <2>4. CASE \E r \in Retriers, m \in Messages : Click(r, m)
    BY <2>4, ClickStep
  <2>5. CASE Corrupt \/ \E ok \in BOOLEAN : Restart(ok)
    BY <2>5, CorruptStep, RestartStep
  <2> QED BY <1>7, <2>1, <2>2, <2>3, <2>4, <2>5 DEF Environment
<1> QED BY <1>1, <1>2, <1>3, <1>4, <1>5, <1>6, <1>7 DEF Next

\* The strengthened invariant holds in every reachable state.
THEOREM Invariance == Spec => []IInv
<1>1. IInv /\ [Next]_vars => IInv'
  BY NextHolds, StutterHolds
<1> QED BY InitHolds, <1>1, PTL DEF Spec

\* Every variable of the turn and of its outbox keeps its type.
THEOREM TypeCorrect == Spec => []TypeOK
<1>1. IInv => TypeOK
  BY DEF IInv
<1> QED BY <1>1, Invariance, PTL

\* A record says it has an answer exactly when it holds one, whatever statuses
\* arrive late, whatever writes fail and wherever the process dies: neither a
\* retry nor the recovery asks the model again for a turn it answered.
THEOREM AnswersKept == Spec => []AnswerKept
<1>1. IInv => AnswerKept
  BY DEF IInv
<1> QED BY <1>1, Invariance, PTL

\* From its claim to its link or its release a retry has its record to itself,
\* for any number of retries pressed at once.
THEOREM ClaimsExclusive == Spec => []ClaimExclusive
<1>1. IInv => ClaimExclusive
  BY DEF IInv, ClaimsHeld, ClaimExclusive, Claiming, Present
<1> QED BY <1>1, Invariance, PTL

-----------------------------------------------------------------------------
(* Who works for a turn.  What the rest needs beyond IInv: a task that is to *)
(* generate for a message, or is doing so, owns its record, is the only such *)
(* task, and has reported nothing yet; everything on the bus, in the pool    *)
(* and in the file of the socket is of tasks that have.                     *)

\* The phases of a task whose generation is over.
Spent == {"voicing", "overlapping", "playing", "ending", "over"}

Holding(m) == turn[m].pc \in {"recording", "sending"}
Linking(r) == retry[r].pc \in {"link", "fire"}

\* A task that generates, or that somebody is about to send to the chat.
Going(t) == \/ tasks[t].phase \in {"queued", "generating"}
            \/ \E m \in Messages : Holding(m) /\ turn[m].task = t
            \/ \E r \in Retriers : /\ retry[r].pc = "fire" /\ retry[r].task = t
                                   /\ retry[r].from = "needs_generation"

EmptyRecords == \A m \in Messages : outbox[m].status = "absent" => outbox[m].answer = FALSE

\* A task is reported when its generation is over, not before.
Reported ==
  /\ \A i \in 1..Len(lane) : tasks[lane[i].task].phase \in Spent
  /\ handler.pc # "idle" => tasks[handler.task].phase \in Spent
  /\ \A e \in wire : tasks[e.task].phase \in Spent
  /\ \A j \in jobs : tasks[j.task].phase \in Spent
  /\ \A t \in drained : tasks[t].phase \in Spent

\* A coroutine or a retry has its task for itself until it sends it on.
Holders ==
  /\ \A m \in Messages : Holding(m) => tasks[turn[m].task].phase = "created"
  /\ \A r \in Retriers : Linking(r) => tasks[retry[r].task].phase = "created"
  /\ \A r, s \in Retriers : r # s /\ Linking(r) /\ Linking(s) => retry[r].task # retry[s].task
  /\ \A m \in Messages, r \in Retriers : Holding(m) /\ Linking(r) => turn[m].task # retry[r].task

\* A task that goes owns the record of its message, which waits for it; no
\* other task goes for that message.
Alone ==
  /\ \A t \in Tasks : Going(t) /\ outbox[tasks[t].msg].status # "absent" =>
       /\ outbox[tasks[t].msg].task = t
       /\ outbox[tasks[t].msg].answer = FALSE
       /\ outbox[tasks[t].msg].status \in {"generating", "unretryable"}
  /\ \A t, u \in Tasks : Going(t) /\ Going(u) /\ tasks[t].msg = tasks[u].msg => t = u

\* A record claimed for a new generation has no answer, damaged or not.
ClaimsUnanswered ==
  \A r \in Retriers :
    /\ Claiming(r) /\ retry[r].from = "needs_generation"
    /\ outbox[retry[r].msg].status # "absent"
    => outbox[retry[r].msg].answer = FALSE

\* A delivery is finalized after the socket took it; what is discarded was
\* known.
Settled ==
  /\ \A j \in jobs : j.kind = "complete" => j.task \in drained
  /\ \A m \in discarded : Begun(m)

JInv == /\ EmptyRecords /\ Reported /\ Holders /\ Alone
        /\ ClaimsUnanswered /\ Settled

-----------------------------------------------------------------------------
(* What a step may leave alone.                                             *)

\* The record of m is lost or damaged, at most.
RecordLeft(m) ==
  outbox'[m].status # "absent" =>
    /\ outbox[m].status # "absent"
    /\ outbox'[m].status \in {outbox[m].status, "unretryable"}
    /\ outbox'[m].task = outbox[m].task /\ outbox'[m].answer = outbox[m].answer

\* No answer comes to the record of m.
AnswerLeft(m) ==
  outbox'[m].status # "absent" =>
    outbox[m].status # "absent" /\ outbox'[m].answer = outbox[m].answer

SpentKept == \A t \in Tasks : tasks[t].phase \in Spent => tasks'[t].phase \in Spent

\* A task that is spent is used.
LEMMA SpentIsUsed ==
  \A t \in Tasks : /\ tasks[t].phase \in Spent => t \in Created
                   /\ tasks'[t].phase \in Spent => t \in Created'
BY CreatedTasks DEF Spent

\* Nobody posts, no generation restarts.
LEMMA ReportedFrame ==
  ASSUME TypeOK, EventsOfTasks, Reported, SpentKept,
         UNCHANGED <<lane, handler, wire, jobs, drained>>
  PROVE  Reported'
<1>1. Created \subseteq Tasks /\ drained \subseteq Tasks
  BY DEF Created, TypeOK
<1> QED BY <1>1 DEF Reported, SpentKept, EventsOfTasks

\* The new event is about a task whose generation is over.
LEMMA ReportedAppends ==
  ASSUME TypeOK, EventsOfTasks, Reported, SpentKept,
         NEW t \in Tasks, tasks'[t].phase \in Spent,
         NEW status \in Answering \cup Final \cup {"FAILED"}, Report(t, status),
         UNCHANGED <<handler, wire, jobs, drained>>
  PROVE  Reported'
<1>1. Created \subseteq Tasks /\ drained \subseteq Tasks
  BY DEF Created, TypeOK
<1>2. \A i \in 1..Len(lane') : i \in 1..Len(lane) \/ i = Len(lane) + 1
  BY ReportAppends DEF TypeOK
<1>3. \A i \in 1..Len(lane') : tasks'[lane'[i].task].phase \in Spent
  BY <1>1, <1>2, ReportAppends DEF Reported, SpentKept, EventsOfTasks
<1> QED BY <1>1, <1>3 DEF Reported, SpentKept, EventsOfTasks

\* The handler takes the first event.
LEMMA ReportedTail ==
  ASSUME TypeOK, EventsOfTasks, Reported, NEW e, NextEvent(e)
  PROVE  /\ \A i \in 1..Len(lane') : tasks[lane'[i].task].phase \in Spent
         /\ tasks[e.task].phase \in Spent
<1>1. /\ lane \in Seq(TaskEvents) /\ lane # <<>>
      /\ e = lane[1] /\ lane' = Tail(lane)
  BY DEF TypeOK, NextEvent
<1>2. /\ Len(lane) >= 1 /\ Len(lane') = Len(lane) - 1
      /\ \A i \in 1..Len(lane') : lane'[i] = lane[i + 1]
  BY <1>1
<1> QED BY <1>1, <1>2 DEF Reported

\* Coroutines, tasks and retries stand still.
LEMMA StandStill ==
  ASSUME UNCHANGED <<turn, tasks, retry>>
  PROVE  /\ SpentKept
         /\ Holders => Holders'
         /\ \A t : Going(t)' <=> Going(t)
<1>1. SpentKept
  BY DEF SpentKept
<1>2. Holders => Holders'
  BY DEF Holders, Holding, Linking
<1>3. \A t : Going(t)' <=> Going(t)
  BY DEF Going, Holding
<1> QED BY <1>1, <1>2, <1>3

\* Nobody sets out, and those who go keep their records.
LEMMA AloneFrame ==
  ASSUME Alone,
         \A t \in Tasks : Going(t)' => Going(t) /\ tasks'[t].msg = tasks[t].msg,
         \A t \in Tasks : Going(t) => RecordLeft(tasks[t].msg)
  PROVE  Alone'
<1>1. \A t \in Tasks : Going(t)' /\ outbox'[tasks'[t].msg].status # "absent" =>
        /\ outbox'[tasks'[t].msg].task = t
        /\ outbox'[tasks'[t].msg].answer = FALSE
        /\ outbox'[tasks'[t].msg].status \in {"generating", "unretryable"}
  BY DEF Alone, RecordLeft
<1>2. \A t, u \in Tasks : Going(t)' /\ Going(u)' /\ tasks'[t].msg = tasks'[u].msg => t = u
  BY DEF Alone
<1> QED BY <1>1, <1>2 DEF Alone

\* Who goes has not reported.
LEMMA SpentStays ==
  ASSUME IInv, Holders, NEW t \in Tasks, tasks[t].phase \in Spent
  PROVE  ~Going(t)
BY DEF Spent, Holders, Holding, Linking, Going

\* Nobody goes for a record that is another's, nobody's or not generating.
LEMMA NobodyGoes ==
  ASSUME Alone, NEW m, outbox[m].status # "absent",
         \/ \E t \in Tasks : outbox[m].task = t /\ ~Going(t)
         \/ outbox[m].task = NoTask
         \/ outbox[m].status \notin {"generating", "unretryable"}
  PROVE  \A u \in Tasks : Going(u) => tasks[u].msg # m
BY StoreAssumption DEF Alone

\* A write to a record nobody goes for, with everybody standing still.
LEMMA AloneWrite ==
  ASSUME IInv, Alone, NEW m \in Messages,
         NEW s, NEW t, NEW f, NEW a, Touched(m, s, t, f, a),
         \A u \in Tasks : Going(u)' => Going(u) /\ tasks'[u].msg = tasks[u].msg,
         \A u \in Tasks : Going(u) => tasks[u].msg \in Messages \ {m}
  PROVE  Alone'
<1>1. \A u \in Tasks : Going(u) => RecordLeft(tasks[u].msg)
  BY DEF Touched, RecordLeft
<1> QED BY <1>1, AloneFrame

\* Who goes, goes for a message.
LEMMA GoingMessage ==
  ASSUME IInv, Holders
  PROVE  \A t \in Tasks : Going(t) => tasks[t].phase # "unused" /\ tasks[t].msg \in Messages
<1>1. \A t \in Tasks : Going(t) => tasks[t].phase # "unused"
  BY DEF Going, Holders, Holding, Linking
<1> QED BY <1>1 DEF IInv, TasksHeld

\* No retry claims and no answer comes.
LEMMA ClaimsUnansweredFrame ==
  ASSUME IInv, ClaimsUnanswered,
         \A r \in Retriers : Claiming(r)' => /\ Claiming(r)
                                            /\ retry'[r].msg = retry[r].msg
                                            /\ retry'[r].from = retry[r].from,
         \A r \in Retriers : Claiming(r) => AnswerLeft(retry[r].msg)
  PROVE  ClaimsUnanswered'
BY DEF ClaimsUnanswered, AnswerLeft

\* A write that brings no answer to a claimed record.
LEMMA AnswerLeftTouched ==
  ASSUME NEW m \in Messages, NEW s, NEW t, NEW f, NEW a, Touched(m, s, t, f, a),
         \/ s = "absent"
         \/ outbox[m].status # "absent" /\ a = outbox[m].answer
  PROVE  \A n \in Messages : AnswerLeft(n)
BY DEF Touched, AnswerLeft

\* A write leaves no answer behind.
LEMMA EmptyTouched ==
  ASSUME EmptyRecords, NEW m \in Messages, NEW s, NEW t, NEW f, NEW a,
         Touched(m, s, t, f, a), s = "absent" => a = FALSE
  PROVE  EmptyRecords'
BY DEF Touched, EmptyRecords

\* The pool, the socket and the discards stand still.
LEMMA SettledFrame ==
  ASSUME Settled, UNCHANGED <<jobs, drained, discarded>>,
         \A m \in Messages : Begun(m) => Begun(m)', TypeOK
  PROVE  Settled'
BY DEF Settled, TypeOK

-----------------------------------------------------------------------------
(* The steps under which coroutines, tasks and retries stand still.         *)

\* Then the records and the bus decide.
LEMMA QuietStep ==
  ASSUME IInv, JInv, UNCHANGED <<turn, tasks, retry>>,
         EmptyRecords', Reported', Settled',
         \A t \in Tasks : Going(t) => RecordLeft(tasks[t].msg),
         \A r \in Retriers : Claiming(r) => AnswerLeft(retry[r].msg)
  PROVE  JInv'
<1>1. Holders' /\ Alone'
  BY StandStill, AloneFrame DEF JInv
<1>2. ClaimsUnanswered'
  BY ClaimsUnansweredFrame DEF JInv, Claiming
<1> QED BY <1>1, <1>2 DEF JInv

\* No write.
LEMMA NoWrite ==
  ASSUME UNCHANGED outbox
  PROVE  /\ EmptyRecords => EmptyRecords'
         /\ \A m : RecordLeft(m) /\ AnswerLeft(m)
BY DEF EmptyRecords, RecordLeft, AnswerLeft

\* A write to the record that a spent task owns.
LEMMA SpentWrite ==
  ASSUME IInv, JInv, NEW m \in Messages,
         NEW s, NEW t, NEW f, NEW a, Touched(m, s, t, f, a), s = "absent" => a = FALSE,
         NEW u \in Tasks, tasks[u].phase \in Spent,
         outbox[m].status # "absent", outbox[m].task = u
  PROVE  /\ EmptyRecords'
         /\ \A v \in Tasks : Going(v) => tasks[v].msg \in Messages \ {m}
         /\ \A v \in Tasks : Going(v) => RecordLeft(tasks[v].msg)
         /\ \A r \in Retriers : Claiming(r) => AnswerLeft(retry[r].msg)
<1>1. EmptyRecords'
  BY EmptyTouched DEF JInv
<1>2. \A v \in Tasks : Going(v) => tasks[v].msg \in Messages \ {m}
  BY SpentStays, NobodyGoes, GoingMessage DEF JInv
<1>3. \A n \in Messages \ {m} : RecordLeft(n) /\ AnswerLeft(n)
  BY DEF Touched, RecordLeft, AnswerLeft
<1>4. \A r \in Retriers : Claiming(r) => retry[r].msg \in Messages \ {m}
  BY StoreAssumption DEF IInv, ClaimsHeld, TasksHeld, Claiming
<1> QED BY <1>1, <1>2, <1>3, <1>4

\* A record that is removed or damaged.
LEMMA LostWrite ==
  ASSUME IInv, JInv, NEW m \in Messages,
         NEW s, NEW t, NEW f, NEW a, Touched(m, s, t, f, a),
         \/ s = "absent" /\ a = FALSE
         \/ /\ s = "unretryable" /\ outbox[m].status # "absent"
            /\ t = outbox[m].task /\ a = outbox[m].answer
  PROVE  /\ EmptyRecords'
         /\ \A n \in Messages : RecordLeft(n) /\ AnswerLeft(n)
<1>1. EmptyRecords'
  BY EmptyTouched DEF JInv
<1>2. \A n \in Messages : RecordLeft(n) /\ AnswerLeft(n)
  BY DEF Touched, RecordLeft, AnswerLeft
<1> QED BY <1>1, <1>2

\* Who goes or claims, does so for a message.
LEMMA Concerned ==
  ASSUME IInv, JInv
  PROVE  /\ \A t \in Tasks : Going(t) => tasks[t].msg \in Messages
         /\ \A r \in Retriers : Claiming(r) => retry[r].msg \in Messages
BY GoingMessage DEF JInv, IInv, TasksHeld, Claiming

\* A failure is given to the IO pool.
LEMMA TakeFailureKeeps ==
  ASSUME IInv, JInv, NEW e \in TaskEvents, TakeFailure(e)
  PROVE  JInv'
<1>1. UNCHANGED <<outbox, turn, tasks, retry, handler, wire, drained, discarded>>
  BY DEF TakeFailure, storeVars, turnVars, userVars, linkVars
<1>2. NextEvent(e) /\ jobs' = jobs \cup {Job("failed", e.task, "FAILED")}
  BY DEF TakeFailure
<1>3. Reported'
  BY <1>1, <1>2, ReportedTail DEF IInv, JInv, Reported, Job
<1>4. Settled'
  BY <1>1, <1>2 DEF JInv, Settled, Job, Begun
<1> QED BY <1>1, <1>3, <1>4, NoWrite, QuietStep DEF JInv

\* The second look at the store.
LEMMA FenceKeeps ==
  ASSUME IInv, JInv, Fence
  PROVE  JInv'
<1>1. UNCHANGED <<outbox, turn, tasks, retry, lane, wire, jobs, drained, discarded>>
  BY DEF Fence, storeVars, turnVars, userVars, linkVars
<1>2. handler'.pc # "idle" => handler.pc # "idle" /\ handler'.task = handler.task
  BY DEF Fence, Idle, IInv, TypeOK
<1>3. Reported' /\ Settled'
  BY <1>1, <1>2 DEF JInv, Reported, Settled, Begun
<1> QED BY <1>1, <1>3, NoWrite, QuietStep DEF JInv

\* The update is handed to the loop of the server, or it is gone.
LEMMA ScheduleSendKeeps ==
  ASSUME IInv, JInv, ScheduleSend
  PROVE  JInv'
<1>1. UNCHANGED <<outbox, turn, tasks, retry, lane, drained, discarded>>
  BY DEF ScheduleSend, storeVars, turnVars, userVars, linkVars
<1>2. /\ handler.pc # "idle" /\ handler'.pc = "idle"
      /\ \A e \in wire' : e \in wire \/ e.task = handler.task
      /\ \A j \in jobs' : j \in jobs \/ (j.task = handler.task /\ j.kind = "undelivered")
  BY DEF ScheduleSend, Idle, Event, Job
<1>3. Reported' /\ Settled'
  BY <1>1, <1>2 DEF JInv, Reported, Settled, Begun
<1> QED BY <1>1, <1>3, NoWrite, QuietStep DEF JInv

\* The socket takes an update.
LEMMA DrainKeeps ==
  ASSUME IInv, JInv, NEW e \in wire, Drain(e)
  PROVE  JInv'
<1>1. UNCHANGED <<outbox, turn, tasks, retry, lane, handler, discarded>>
  BY DEF Drain, storeVars, turnVars, userVars
<1>2. /\ wire' \subseteq wire
      /\ \A t \in drained' : t \in drained \/ t = e.task
      /\ \A j \in jobs' : j \in jobs \/ (j.task = e.task /\ e.task \in drained')
      /\ drained \subseteq drained'
  BY DEF Drain, Job
<1>3. Reported' /\ Settled'
  BY <1>1, <1>2 DEF JInv, Reported, Settled, Begun
<1> QED BY <1>1, <1>3, NoWrite, QuietStep DEF JInv

\* The socket does not take an update.
LEMMA SendFailsKeeps ==
  ASSUME IInv, JInv, NEW e \in wire, SendFails(e)
  PROVE  JInv'
<1>1. UNCHANGED <<outbox, turn, tasks, retry, lane, handler, drained, discarded>>
  BY DEF SendFails, storeVars, turnVars, userVars, linkVars
<1>2. /\ wire' \subseteq wire
      /\ \A j \in jobs' : j \in jobs \/ (j.task = e.task /\ j.kind = "undelivered")
  BY DEF SendFails, Job
<1>3. Reported' /\ Settled'
  BY <1>1, <1>2 DEF JInv, Reported, Settled, Begun
<1> QED BY <1>1, <1>3, NoWrite, QuietStep DEF JInv

\* A client comes or goes.
LEMMA ClientKeeps ==
  ASSUME IInv, JInv, Connect \/ Disconnect
  PROVE  JInv'
<1>1. UNCHANGED <<outbox, turn, tasks, retry, lane, handler, wire, jobs, drained, discarded>>
  BY DEF Connect, Disconnect, storeVars, turnVars, busVars, userVars
<1>2. Reported' /\ Settled'
  BY <1>1 DEF JInv, Reported, Settled, Begun
<1> QED BY <1>1, <1>2, NoWrite, QuietStep DEF JInv

\* What an answer writes.
LEMMA AnswerWrites ==
  ASSUME IInv, JInv, NEW ok \in BOOLEAN, NEW e \in TaskEvents, TakeAnswer(e, ok)
  PROVE  /\ e.task \in Tasks /\ tasks[e.task].phase \in Spent /\ Msg(e.task) \in Messages
         /\ \/ UNCHANGED outbox
            \/ /\ outbox[Msg(e.task)].status # "absent"
               /\ outbox[Msg(e.task)].task = e.task
               /\ PendingStatus(e.status) # "absent"
               /\ Touched(Msg(e.task), PendingStatus(e.status), e.task,
                          outbox[Msg(e.task)].from, TRUE)
<1> USE DEF IInv, JInv
<1>1. e.task \in Tasks /\ Msg(e.task) \in Messages
  BY LaneTail, CreatedTasks DEF TakeAnswer, TasksHeld, Msg
<1>2. tasks[e.task].phase \in Spent
  BY ReportedTail DEF TakeAnswer
<1>3. PendingStatus(e.status) \in {"generated_pending_voiceover", "generated_pending_delivery"}
  BY DEF PendingStatus
<1> QED BY <1>1, <1>2, <1>3, AnsweredEffect
        DEF TakeAnswer, Accepts, Expected, storeVars, TypeOK, Statuses, Retryable

\* An answer comes to a record only from the task that owns it.
LEMMA TakeAnswerKeeps ==
  ASSUME IInv, JInv, NEW ok \in BOOLEAN, NEW e \in TaskEvents, TakeAnswer(e, ok)
  PROVE  JInv'
<1>1. UNCHANGED <<turn, tasks, retry, wire, jobs, drained, discarded>>
  BY DEF TakeAnswer, turnVars, userVars, linkVars
<1>2. NextEvent(e) /\ handler'.task = e.task
  BY DEF TakeAnswer, Handling
<1>3. Reported' /\ Settled'
  BY <1>1, <1>2, ReportedTail DEF IInv, JInv, Reported, Settled, Begun
<1>4. CASE UNCHANGED outbox
  BY <1>1, <1>3, <1>4, NoWrite, QuietStep DEF JInv
<1>5. CASE ~UNCHANGED outbox
  BY <1>1, <1>3, <1>5, AnswerWrites, SpentWrite, QuietStep
<1> QED BY <1>4, <1>5

\* What a failed voiceover writes.
LEMMA VoiceFailureWrites ==
  ASSUME IInv, JInv, NEW ok \in BOOLEAN, NEW e \in TaskEvents, TakeVoiceFailure(e, ok)
  PROVE  /\ e.task \in Tasks /\ tasks[e.task].phase \in Spent /\ Msg(e.task) \in Messages
         /\ \/ UNCHANGED outbox
            \/ /\ outbox[Msg(e.task)].status # "absent"
               /\ outbox[Msg(e.task)].task = e.task
               /\ Touched(Msg(e.task), "generated_pending_delivery", e.task,
                          outbox[Msg(e.task)].from, outbox[Msg(e.task)].answer)
<1> USE DEF IInv, JInv
<1>1. e.task \in Tasks /\ Msg(e.task) \in Messages
  BY LaneTail, CreatedTasks DEF TakeVoiceFailure, TasksHeld, Msg
<1>2. tasks[e.task].phase \in Spent
  BY ReportedTail DEF TakeVoiceFailure
<1> QED BY <1>1, <1>2, VoiceoverFailedEffect
        DEF TakeVoiceFailure, Accepts, storeVars, TypeOK

\* So does a failed voiceover, which brings no answer.
LEMMA TakeVoiceFailureKeeps ==
  ASSUME IInv, JInv, NEW ok \in BOOLEAN, NEW e \in TaskEvents, TakeVoiceFailure(e, ok)
  PROVE  JInv'
<1>1. UNCHANGED <<turn, tasks, retry, wire, jobs, drained, discarded>>
  BY DEF TakeVoiceFailure, turnVars, linkVars
<1>2. NextEvent(e) /\ handler'.task = e.task
  BY DEF TakeVoiceFailure, Handling
<1>3. Reported' /\ Settled'
  BY <1>1, <1>2, ReportedTail DEF IInv, JInv, Reported, Settled, Begun
<1>4. CASE UNCHANGED outbox
  BY <1>1, <1>3, <1>4, NoWrite, QuietStep DEF JInv
<1>5. CASE ~UNCHANGED outbox
  <2>1. /\ EmptyRecords'
        /\ \A v \in Tasks : Going(v) => RecordLeft(tasks[v].msg)
        /\ \A r \in Retriers : Claiming(r) => AnswerLeft(retry[r].msg)
    <3> DEFINE m == Msg(e.task)
               a == outbox[m].answer
               f == outbox[m].from
               s == "generated_pending_delivery"
    <3>1. /\ m \in Messages /\ e.task \in Tasks /\ tasks[e.task].phase \in Spent
          /\ outbox[m].status # "absent" /\ outbox[m].task = e.task
          /\ Touched(m, s, e.task, f, a) /\ s # "absent"
      BY <1>5, VoiceFailureWrites
    <3> HIDE DEF m, a, f, s
    <3> QED BY <3>1, SpentWrite
  <2> QED BY <1>1, <1>3, <2>1, QuietStep
<1> QED BY <1>4, <1>5

\* What a finalizer writes: only a completed delivery removes a record.
LEMMA JobWrites ==
  ASSUME IInv, JInv, NEW j \in jobs, NEW ok \in BOOLEAN, RunJob(j, ok)
  PROVE  /\ j.task \in Tasks /\ tasks[j.task].phase \in Spent /\ Msg(j.task) \in Messages
         /\ \/ UNCHANGED outbox
            \/ /\ outbox[Msg(j.task)].status # "absent"
               /\ outbox[Msg(j.task)].task = j.task
               /\ \E s, t, f, a :
                    /\ Touched(Msg(j.task), s, t, f, a)
                    /\ \/ j.kind = "complete" /\ s = "absent" /\ a = FALSE
                       \/ s # "absent" /\ a = outbox[Msg(j.task)].answer
<1> USE DEF IInv, JInv
<1>1. j.task \in Tasks /\ Msg(j.task) \in Messages /\ tasks[j.task].phase \in Spent
  BY CreatedTasks DEF EventsOfTasks, TasksHeld, Msg, Reported
<1>2. j.kind \in {"complete", "failed", "undelivered"} /\ StoreTypeOK
  BY DEF TypeOK
<1>3. CASE j.kind = "complete"
  BY <1>1, <1>2, <1>3, CompleteDeliveryEffect DEF RunJob, Owns, Present
<1>4. CASE j.kind = "failed"
  <2>1. FinishFailedAttempt(Msg(j.task), j.task, ok)
    BY <1>4 DEF RunJob
  <2> QED BY <1>1, <1>2, <2>1, FinishFailedAttemptEffect DEF Owns, Present
<1>5. CASE j.kind = "undelivered"
  <2>1. MarkDeliveryFailed(Msg(j.task), j.task, ok)
    BY <1>5 DEF RunJob
  <2> QED BY <1>1, <1>2, <2>1, MarkDeliveryFailedEffect DEF Retains, Owns, Present
<1> QED BY <1>2, <1>3, <1>4, <1>5

\* A finalizer moves only the record of a task that has reported.
LEMMA RunJobKeeps ==
  ASSUME IInv, JInv, NEW j \in jobs, NEW ok \in BOOLEAN, RunJob(j, ok)
  PROVE  JInv'
<1>1. /\ UNCHANGED <<turn, tasks, retry, lane, handler, wire, drained, discarded>>
      /\ jobs' \subseteq jobs
  BY DEF RunJob, turnVars, linkVars
<1>2. Reported' /\ Settled'
  BY <1>1 DEF JInv, Reported, Settled, Begun
<1>3. CASE UNCHANGED outbox
  BY <1>1, <1>2, <1>3, NoWrite, QuietStep DEF JInv
<1>4. CASE ~UNCHANGED outbox
  <2> DEFINE m == Msg(j.task)
  <2>0. /\ m \in Messages /\ j.task \in Tasks /\ tasks[j.task].phase \in Spent
        /\ outbox[m].status # "absent" /\ outbox[m].task = j.task
        /\ \E s, t, f, a :
             /\ Touched(m, s, t, f, a)
             /\ \/ j.kind = "complete" /\ s = "absent" /\ a = FALSE
                \/ s # "absent" /\ a = outbox[m].answer
    BY <1>4, JobWrites
  <2> HIDE DEF m
  <2>1. PICK s, t, f, a :
          /\ Touched(m, s, t, f, a)
          /\ \/ j.kind = "complete" /\ s = "absent" /\ a = FALSE
             \/ s # "absent" /\ a = outbox[m].answer
    BY <2>0
  <2>3. s = "absent" => a = FALSE
    BY <2>1
  <2>2. /\ EmptyRecords'
        /\ \A v \in Tasks : Going(v) => RecordLeft(tasks[v].msg)
        /\ \A r \in Retriers : Claiming(r) => AnswerLeft(retry[r].msg)
    BY <2>0, <2>1, <2>3, SpentWrite
  <2> QED BY <1>1, <1>2, <2>2, QuietStep
<1> QED BY <1>3, <1>4

\* A record expires.
LEMMA AgeOutKeeps ==
  ASSUME IInv, JInv, NEW m \in Messages, AgeOut(m)
  PROVE  JInv'
<1>1. /\ UNCHANGED <<turn, tasks, retry, lane, handler, wire, jobs, drained>>
      /\ discarded' = discarded \cup {m} /\ outbox[m].status # "absent"
  BY DEF AgeOut, Expire, Present, turnVars, busVars, userVars, linkVars
<1>2. Touched(m, "absent", NoTask, "needs_generation", FALSE)
  BY ExpireEffect DEF AgeOut, IInv, TypeOK
<1>3. Reported' /\ Settled'
  BY <1>1 DEF JInv, IInv, BegunMessages, Reported, Settled, Begun
<1> QED BY <1>1, <1>2, <1>3, LostWrite, Concerned, QuietStep

\* The user deletes a message.
LEMMA DeleteKeeps ==
  ASSUME IInv, JInv, NEW m \in Messages, NEW ok \in BOOLEAN, Delete(m, ok)
  PROVE  JInv'
<1>1. /\ UNCHANGED <<turn, tasks, retry, lane, handler, wire, jobs, drained>>
      /\ discarded' \subseteq discarded \cup {m} /\ outbox[m].status # "absent"
  BY DEF Delete, Remove, Present, turnVars, busVars, linkVars
<1>2. Touched(m, "absent", NoTask, "needs_generation", FALSE)
  BY RemoveEffect DEF Delete, IInv, TypeOK
<1>3. Reported' /\ Settled'
  BY <1>1 DEF JInv, IInv, BegunMessages, Reported, Settled, Begun
<1> QED BY <1>1, <1>2, <1>3, LostWrite, Concerned, QuietStep

\* Damage takes records away from whoever goes or claims.
LEMMA CorruptKeeps ==
  ASSUME IInv, JInv, Corrupt
  PROVE  JInv'
<1>1. /\ UNCHANGED <<turn, tasks, retry, lane, handler, wire, jobs, drained>>
      /\ \A m \in discarded' : m \in discarded \/ (m \in Messages /\ outbox[m].status # "absent")
  BY DEF Corrupt, Present, turnVars, busVars, userVars, linkVars
<1>2. Reported' /\ Settled'
  BY <1>1 DEF JInv, IInv, BegunMessages, Reported, Settled, Begun
<1>3. EmptyRecords' /\ \A n \in Messages : RecordLeft(n) /\ AnswerLeft(n)
  <2>1. ASSUME NEW m \in Messages, Damage(m)
        PROVE  EmptyRecords' /\ \A n \in Messages : RecordLeft(n) /\ AnswerLeft(n)
    BY <2>1, DamageEffect, LostWrite DEF Damage, Present, IInv, TypeOK
  <2>2. ASSUME NEW stuck \in BOOLEAN, CorruptFile(stuck)
        PROVE  EmptyRecords' /\ \A n \in Messages : RecordLeft(n) /\ AnswerLeft(n)
    BY <2>2, CorruptFileEffect DEF IInv, TypeOK, EmptyRecords, RecordLeft, AnswerLeft
  <2> QED BY <2>1, <2>2 DEF Corrupt
<1> QED BY <1>1, <1>2, <1>3, Concerned, QuietStep

-----------------------------------------------------------------------------
(* The steps of coroutines, tasks and retries.                              *)

\* What a write brings, with nobody setting out.
LEMMA MovingStep ==
  ASSUME IInv, JInv, EmptyRecords', Reported', Holders', Settled',
         \A t \in Tasks : Going(t)' => Going(t) /\ tasks'[t].msg = tasks[t].msg,
         \A t \in Tasks : Going(t) => RecordLeft(tasks[t].msg),
         \A r \in Retriers : Claiming(r)' => /\ Claiming(r)
                                            /\ retry'[r].msg = retry[r].msg
                                            /\ retry'[r].from = retry[r].from,
         \A r \in Retriers : Claiming(r) => AnswerLeft(retry[r].msg)
  PROVE  JInv'
BY AloneFrame, ClaimsUnansweredFrame DEF JInv

\* The retries stand still, and so do the claims.
LEMMA ClaimsStand ==
  ASSUME UNCHANGED retry
  PROVE  \A r \in Retriers : /\ Claiming(r)' <=> Claiming(r)
                            /\ retry'[r].msg = retry[r].msg
                            /\ retry'[r].from = retry[r].from
BY DEF Claiming

\* The record of a turn is made for the task that goes for it.
LEMMA RecordKeeps ==
  ASSUME IInv, JInv, NEW m \in Messages, NEW ok \in BOOLEAN, Record(m, ok)
  PROVE  JInv'
<1> USE DEF IInv, JInv
<1>1. /\ UNCHANGED <<tasks, lane, handler, wire, jobs, retry, drained, discarded>>
      /\ \A n \in Messages \ {m} : turn'[n] = turn[n]
      /\ turn[m].pc = "recording"
      /\ turn'[m].pc = "sending" /\ turn'[m].task = turn[m].task
  BY DEF Record, TypeOK, busVars, userVars, linkVars
<1>2. outbox[m].status = "absent" /\ turn[m].task \in Tasks /\ tasks[turn[m].task].msg = m
  BY <1>1, CreatedTasks DEF BegunMessages, Begun, TasksHeld
<1>3. Touched(m, "generating", turn[m].task, "needs_generation", FALSE)
  BY <1>2, AddEffect DEF Record, TypeOK
<1>4. EmptyRecords'
  BY <1>3, EmptyTouched
<1>5. Reported'
  BY <1>1, ReportedFrame DEF SpentKept
<1>6. Holders'
  BY <1>1 DEF Holders, Holding, Linking
<1>7. \A t : Going(t)' <=> Going(t)
  <2>1. \A n \in Messages : (Holding(n)' <=> Holding(n)) /\ turn'[n].task = turn[n].task
    BY <1>1 DEF Holding
  <2> QED BY <1>1, <2>1 DEF Going
<1>8. Alone'
  <2>1. Going(turn[m].task)
    BY <1>1 DEF Going, Holding
  <2>2. \A t \in Tasks : Going(t) /\ tasks[t].msg = m => t = turn[m].task
    BY <1>2, <2>1 DEF Alone
  <2>3. \A t \in Tasks : Going(t) /\ tasks[t].msg # m =>
          outbox'[tasks[t].msg] = outbox[tasks[t].msg]
    BY <1>3, GoingMessage DEF Touched
  <2> QED BY <1>1, <1>2, <1>3, <1>7, <2>2, <2>3 DEF Alone, Touched
<1>9. ClaimsUnanswered'
  <2>1. \A r \in Retriers : Claiming(r) => retry[r].msg \in Messages \ {m}
    BY <1>1 DEF BegunMessages, Begun, TasksHeld, Claiming
  <2>2. \A n \in Messages \ {m} : AnswerLeft(n)
    BY <1>3 DEF Touched, AnswerLeft
  <2> QED BY <1>1, <2>1, <2>2, ClaimsStand, ClaimsUnansweredFrame
<1>10. Settled'
  BY <1>1, SettledFrame DEF Begun
<1> QED BY <1>4, <1>5, <1>6, <1>8, <1>9, <1>10

\* A coroutine gives its task on to the chat.
LEMMA SendToChatKeeps ==
  ASSUME IInv, JInv, NEW m \in Messages, SendToChat(m)
  PROVE  JInv'
<1> USE DEF IInv, JInv
<1> DEFINE t == turn[m].task
<1>1. /\ UNCHANGED <<outbox, lane, handler, wire, jobs, retry, drained, discarded>>
      /\ \A n \in Messages \ {m} : turn'[n] = turn[n]
      /\ turn[m].pc = "sending" /\ turn'[m].pc = "done"
  BY DEF SendToChat, TypeOK, storeVars, busVars, userVars, linkVars
<1>2. /\ t \in Tasks /\ tasks[t].phase = "created" /\ tasks[t].msg = m
      /\ Going(t)
  BY <1>1, CreatedTasks DEF TasksHeld, Holders, Holding, Going
<1>3. /\ \A u \in Tasks \ {t} : tasks'[u] = tasks[u]
      /\ tasks'[t].msg = m /\ tasks'[t].phase = "queued"
  BY <1>2, PhaseMoves DEF SendToChat
<1>4. SpentKept
  BY <1>2, <1>3 DEF SpentKept, Spent
<1>5. Reported'
  BY <1>1, <1>4, ReportedFrame
<1>6. Holders'
  <2>1. \A n \in Messages : Holding(n)' =>
          /\ Holding(n) /\ turn'[n].task = turn[n].task
          /\ turn[n].task \in Tasks \ {t}
    BY <1>1, <1>2, CreatedTasks DEF Holding, TasksHeld
  <2>2. \A r \in Retriers : Linking(r) => retry[r].task \in Tasks \ {t}
    BY <1>1, CreatedTasks DEF Holders, Holding, Linking, TasksHeld
  <2>3. \A r \in Retriers : Linking(r)' <=> Linking(r)
    BY <1>1 DEF Linking
  <2> QED BY <1>1, <1>3, <2>1, <2>2, <2>3 DEF Holders
<1>7. \A u \in Tasks : Going(u)' => Going(u) /\ tasks'[u].msg = tasks[u].msg
  <2>1. \A n \in Messages : Holding(n)' => Holding(n) /\ turn'[n].task = turn[n].task
    BY <1>1 DEF Holding
  <2>2. \A u \in Tasks \ {t} : Going(u)' => Going(u)
    BY <1>1, <1>3, <2>1 DEF Going
  <2> QED BY <1>2, <1>3, <2>2
<1>8. Settled'
  BY <1>1, SettledFrame DEF Begun
<1> QED BY <1>1, <1>5, <1>6, <1>7, <1>8, NoWrite, ClaimsStand, MovingStep

\* A task that runs moves on, and reports only when its generation is over.
LEMMA ProducingKeeps ==
  ASSUME IInv, JInv, NEW t \in Tasks,
         tasks[t].phase \in {"queued", "generating", "voicing", "overlapping", "playing", "ending"},
         NEW p \in {"generating", "voicing", "overlapping", "playing", "ending", "over"}, Phase(t, p),
         p = "generating" => tasks[t].phase = "queued",
         \/ UNCHANGED lane
         \/ /\ p # "generating"
            /\ \E status \in Answering \cup Final \cup {"FAILED"} : Report(t, status),
         UNCHANGED <<outbox, turn, handler, wire, jobs, retry, drained, discarded>>
  PROVE  JInv'
<1> USE DEF IInv, JInv
<1>1. /\ \A u \in Tasks \ {t} : tasks'[u] = tasks[u]
      /\ tasks'[t].msg = tasks[t].msg /\ tasks'[t].phase = p
  BY PhaseMoves
<1>2. SpentKept
  BY <1>1 DEF SpentKept, Spent
<1>3. Reported'
  <2>1. CASE UNCHANGED lane
    BY <1>2, <2>1, ReportedFrame
  <2>2. CASE ~UNCHANGED lane
    <3>1. tasks'[t].phase \in Spent
      BY <1>1, <2>2 DEF Spent
    <3>2. PICK status \in Answering \cup Final \cup {"FAILED"} : Report(t, status)
      BY <2>2
    <3> QED BY <1>2, <3>1, <3>2, ReportedAppends
  <2> QED BY <2>1, <2>2
<1>4. Holders'
  <2>1. /\ \A n \in Messages : Holding(n) => turn[n].task \in Tasks \ {t}
        /\ \A r \in Retriers : Linking(r) => retry[r].task \in Tasks \ {t}
    BY CreatedTasks DEF Holders, TasksHeld, Holding, Linking
  <2>2. /\ \A n \in Messages : Holding(n)' <=> Holding(n)
        /\ \A r \in Retriers : Linking(r)' <=> Linking(r)
    BY DEF Holding, Linking
  <2> QED BY <1>1, <2>1, <2>2 DEF Holders
<1>5. \A u \in Tasks : Going(u)' => Going(u) /\ tasks'[u].msg = tasks[u].msg
  BY <1>1 DEF Going, Holding
<1>6. Settled'
  BY SettledFrame DEF Begun
<1> QED BY <1>3, <1>4, <1>5, <1>6, NoWrite, ClaimsStand, MovingStep

\* Every step of the chat and of the voice is such a move.
LEMMA ProducersKeep ==
  ASSUME IInv, JInv, NEW t \in Tasks,
         Submit(t) \/ Generate(t) \/ FailLate(t) \/ Voice(t) \/ FailPlayback(t)
  PROVE  JInv'
<1> USE DEF Answering, Final
<1>1. CASE Submit(t)
  BY <1>1, ProducingKeeps DEF Submit, storeVars, linkVars
<1>2. CASE Generate(t)
  BY <1>2, ProducingKeeps DEF Generate, storeVars, linkVars
<1>3. CASE Voice(t)
  BY <1>3, ProducingKeeps DEF Voice, storeVars, userVars, linkVars
<1>4. CASE FailPlayback(t)
  BY <1>4, ProducingKeeps DEF FailPlayback, storeVars, userVars, linkVars
<1>5. CASE FailLate(t)
  BY <1>5, ProducingKeeps DEF FailLate, storeVars, linkVars
<1> QED BY <1>1, <1>2, <1>3, <1>4, <1>5

\* A turn comes with the first task of its message.
LEMMA ReceiveKeeps ==
  ASSUME IInv, JInv, NEW m \in Messages, Receive(m)
  PROVE  JInv'
<1> USE DEF IInv, JInv
<1>1. /\ UNCHANGED <<outbox, lane, handler, wire, jobs, retry, drained, discarded>>
      /\ turn[m].pc = "new"
  BY DEF Receive, storeVars, busVars, userVars, linkVars
<1> PICK t \in Free :
      /\ tasks' = [tasks EXCEPT ![t] = [msg |-> m, phase |-> "created"]]
      /\ turn' = [turn EXCEPT ![m] = [pc |-> "recording", task |-> t]]
  BY DEF Receive
<1>2. /\ t \in Tasks /\ tasks[t].phase = "unused"
      /\ \A u \in Tasks \ {t} : tasks'[u] = tasks[u]
      /\ tasks'[t].msg = m /\ tasks'[t].phase = "created"
  BY DEF TypeOK, Free
<1>3. /\ \A n \in Messages \ {m} : turn'[n] = turn[n]
      /\ turn'[m].pc = "recording" /\ turn'[m].task = t
  BY DEF TypeOK
<1>4. /\ SpentKept
      /\ outbox[m].status = "absent"
      /\ \A u \in Tasks \ {t} : tasks[u].phase # "unused" => tasks[u].msg # m
  BY <1>1, <1>2 DEF SpentKept, Spent, BegunMessages, Begun
<1>5. Reported'
  BY <1>1, <1>4, ReportedFrame
<1>6. Holders'
  <2>1. /\ \A n \in Messages : Holding(n) => turn[n].task \in Tasks \ {t}
        /\ \A r \in Retriers : Linking(r) => retry[r].task \in Tasks \ {t}
    BY <1>2, CreatedTasks DEF TasksHeld, Holding, Linking
  <2>2. /\ \A n \in Messages \ {m} : Holding(n)' => Holding(n) /\ turn'[n] = turn[n]
        /\ \A r \in Retriers : Linking(r)' <=> Linking(r)
    BY <1>1, <1>3 DEF Holding, Linking
  <2> QED BY <1>1, <1>2, <1>3, <2>1, <2>2 DEF Holders
<1>7. \A u \in Tasks \ {t} : Going(u)' =>
        Going(u) /\ tasks'[u] = tasks[u] /\ tasks[u].msg \in Messages \ {m}
  <2>1. \A u \in Tasks \ {t} : Going(u)' => Going(u)
    BY <1>1, <1>2, <1>3 DEF Going, Holding
  <2> QED BY <1>2, <1>4, <2>1, GoingMessage
<1>8. Alone'
  <2>1. \A u \in Tasks : Going(u)' /\ outbox'[tasks'[u].msg].status # "absent" =>
          /\ outbox'[tasks'[u].msg].task = u
          /\ outbox'[tasks'[u].msg].answer = FALSE
          /\ outbox'[tasks'[u].msg].status \in {"generating", "unretryable"}
    BY <1>1, <1>2, <1>4, <1>7 DEF Alone
  <2>2. \A u, v \in Tasks : Going(u)' /\ Going(v)' /\ tasks'[u].msg = tasks'[v].msg => u = v
    BY <1>2, <1>7 DEF Alone
  <2> QED BY <2>1, <2>2 DEF Alone
<1>9. ClaimsUnanswered'
  BY <1>1, NoWrite, ClaimsStand, ClaimsUnansweredFrame
<1>10. Settled'
  <2>1. \A n \in Messages : Begun(n) => Begun(n)'
    BY <1>1, <1>3 DEF Begun
  <2> QED BY <1>1, <2>1, SettledFrame
<1> QED BY <1>1, <1>5, <1>6, <1>8, <1>9, <1>10, NoWrite

\* The user asks for a retry.
LEMMA ClickKeeps ==
  ASSUME IInv, JInv, NEW r \in Retriers, NEW m \in Messages, Click(r, m)
  PROVE  JInv'
<1> USE DEF IInv, JInv
<1>1. UNCHANGED <<outbox, turn, tasks, lane, handler, wire, jobs, drained, discarded>>
  BY DEF Click, storeVars, turnVars, busVars, linkVars
<1>2. /\ \A s \in Retriers \ {r} : retry'[s] = retry[s]
      /\ retry'[r].pc = "claim"
  <2>1. [NoRetry EXCEPT !.pc = "claim", !.msg = m].pc = "claim"
    BY DEF NoRetry
  <2> QED BY <2>1 DEF Click, TypeOK
<1>3. Reported'
  BY <1>1, ReportedFrame DEF SpentKept
<1>4. Holders'
  BY <1>1, <1>2 DEF Holders, Holding, Linking
<1>5. \A u \in Tasks : Going(u)' => Going(u) /\ tasks'[u].msg = tasks[u].msg
  BY <1>1, <1>2 DEF Going, Holding
<1>6. \A s \in Retriers : Claiming(s)' => /\ Claiming(s)
                                         /\ retry'[s].msg = retry[s].msg
                                         /\ retry'[s].from = retry[s].from
  BY <1>2 DEF Claiming
<1>7. Settled'
  BY <1>1, SettledFrame DEF Begun
<1> QED BY <1>1, <1>3, <1>4, <1>5, <1>6, <1>7, NoWrite, MovingStep

\* The saved answer is sent again, or the turn is generated again.
LEMMA FireKeeps ==
  ASSUME IInv, JInv, NEW r \in Retriers, Fire(r)
  PROVE  JInv'
<1> USE DEF IInv, JInv
<1> DEFINE t == retry[r].task
<1>1. /\ UNCHANGED <<outbox, turn, handler, wire, jobs, drained, discarded>>
      /\ retry[r].pc = "fire"
  BY DEF Fire, At, storeVars, linkVars
<1>2. t \in Tasks /\ tasks[t].phase = "created"
  BY <1>1, CreatedTasks DEF TasksHeld, Holders, Linking
<1>3. /\ \A s \in Retriers \ {r} : retry'[s] = retry[s]
      /\ retry'[r].pc = "idle"
  BY RetryEnds DEF Fire
<1>4. /\ \A u \in Tasks \ {t} : tasks'[u] = tasks[u]
      /\ tasks'[t].msg = tasks[t].msg
      /\ \/ /\ tasks'[t].phase = "over" /\ Report(t, "SUCCESS")
         \/ /\ tasks'[t].phase = "queued" /\ UNCHANGED lane
            /\ retry[r].from = "needs_generation"
  <2>1. CASE Resend(retry[r].from)
    BY <1>2, <2>1, PhaseMoves DEF Fire
  <2>2. CASE ~Resend(retry[r].from)
    <3>1. retry[r].from = "needs_generation"
      BY <2>2 DEF Resend, TypeOK, Retryable
    <3> QED BY <1>2, <2>2, <3>1, PhaseMoves DEF Fire
  <2> QED BY <2>1, <2>2
<1>5. SpentKept
  BY <1>2, <1>4 DEF SpentKept, Spent
<1>6. Reported'
  <2>1. CASE UNCHANGED lane
    BY <1>1, <1>5, <2>1, ReportedFrame
  <2>2. CASE ~UNCHANGED lane
    <3>1. tasks'[t].phase \in Spent
      BY <1>4, <2>2 DEF Spent
    <3> QED BY <1>1, <1>2, <1>4, <1>5, <2>2, <3>1, ReportedAppends DEF Final
  <2> QED BY <2>1, <2>2
<1>7. Holders'
  <2>1. /\ \A n \in Messages : Holding(n) => turn[n].task \in Tasks \ {t}
        /\ \A s \in Retriers \ {r} : Linking(s) => retry[s].task \in Tasks \ {t}
    BY <1>1, CreatedTasks DEF TasksHeld, Holders, Holding, Linking
  <2>2. /\ \A n \in Messages : Holding(n)' <=> Holding(n)
        /\ \A s \in Retriers : Linking(s)' => s # r /\ Linking(s)
    BY <1>1, <1>3 DEF Holding, Linking
  <2> QED BY <1>1, <1>3, <1>4, <2>1, <2>2 DEF Holders
<1>8. \A u \in Tasks : Going(u)' => Going(u) /\ tasks'[u].msg = tasks[u].msg
  <2>1. \A u \in Tasks \ {t} : Going(u)' => Going(u)
    BY <1>1, <1>3, <1>4 DEF Going, Holding
  <2>2. \A u \in Tasks : u = t /\ Going(u)' => Going(u)
    BY <1>1, <1>3, <1>4 DEF Going, Holding
  <2> QED BY <1>4, <2>1, <2>2
<1>9. \A s \in Retriers : Claiming(s)' => /\ Claiming(s)
                                         /\ retry'[s].msg = retry[s].msg
                                         /\ retry'[s].from = retry[s].from
  BY <1>3 DEF Claiming
<1>10. Settled'
  BY <1>1, SettledFrame DEF Begun
<1> QED BY <1>1, <1>6, <1>7, <1>8, <1>9, <1>10, NoWrite, MovingStep

\* What a release writes: the record was claimed, so nobody goes for it.
LEMMA ReleaseWrites ==
  ASSUME IInv, JInv, NEW r \in Retriers, NEW ok \in BOOLEAN, Release(r, ok)
  PROVE  /\ retry[r].msg \in Messages /\ retry[r].from \in Retryable
         /\ \/ UNCHANGED outbox
            \/ /\ outbox[retry[r].msg].status # "absent"
               /\ outbox[retry[r].msg].task = NoTask
               /\ Touched(retry[r].msg, retry[r].from, NoTask,
                          outbox[retry[r].msg].from, outbox[retry[r].msg].answer)
<1> USE DEF IInv, JInv
<1>1. retry[r].pc = "release" /\ retry[r].msg \in Messages /\ retry[r].from \in Retryable
  BY DEF Release, At, TasksHeld, TypeOK
<1>2. \/ UNCHANGED outbox
      \/ /\ outbox[retry[r].msg].status \in {"generating", "delivery_retrying"}
         /\ Touched(retry[r].msg, retry[r].from, NoTask,
                    outbox[retry[r].msg].from, outbox[retry[r].msg].answer)
  BY <1>1, ReleaseClaimEffect DEF Release, TypeOK
<1> QED BY <1>1, <1>2 DEF ClaimsHeld, Claiming

\* A release.
LEMMA ReleaseKeeps ==
  ASSUME IInv, JInv, NEW r \in Retriers, NEW ok \in BOOLEAN, Release(r, ok)
  PROVE  JInv'
<1> USE DEF IInv, JInv
<1> DEFINE m == retry[r].msg
<1>1. UNCHANGED <<turn, tasks, lane, handler, wire, jobs, drained, discarded>>
  BY DEF Release, turnVars, busVars, linkVars
<1>2. /\ \A s \in Retriers \ {r} : retry'[s] = retry[s]
      /\ retry'[r].pc = "idle"
  BY RetryEnds DEF Release
<1>3. Reported'
  BY <1>1, ReportedFrame DEF SpentKept
<1>4. Holders'
  BY <1>1, <1>2 DEF Holders, Holding, Linking
<1>5. \A u \in Tasks : Going(u)' => Going(u) /\ tasks'[u].msg = tasks[u].msg
  BY <1>1, <1>2 DEF Going, Holding
<1>6. \A s \in Retriers : Claiming(s)' => /\ Claiming(s)
                                         /\ retry'[s].msg = retry[s].msg
                                         /\ retry'[s].from = retry[s].from
  BY <1>2 DEF Claiming
<1>7. Settled'
  BY <1>1, SettledFrame DEF Begun
<1>8. /\ EmptyRecords'
      /\ \A t \in Tasks : Going(t) => RecordLeft(tasks[t].msg)
      /\ \A n \in Messages : AnswerLeft(n)
  <2>1. CASE UNCHANGED outbox
    BY <2>1, NoWrite
  <2>2. CASE ~UNCHANGED outbox
    <3>1. /\ m \in Messages /\ outbox[m].status # "absent" /\ outbox[m].task = NoTask
          /\ retry[r].from # "absent"
          /\ Touched(m, retry[r].from, NoTask, outbox[m].from, outbox[m].answer)
      BY <2>2, ReleaseWrites DEF Retryable
    <3>2. \A u \in Tasks : Going(u) => tasks[u].msg \in Messages \ {m}
      BY <3>1, NobodyGoes, GoingMessage
    <3>3. EmptyRecords'
      BY <3>1, EmptyTouched
    <3> QED BY <3>1, <3>2, <3>3 DEF Touched, RecordLeft, AnswerLeft
  <2> QED BY <2>1, <2>2
<1> QED BY <1>3, <1>4, <1>5, <1>6, <1>7, <1>8, Concerned, MovingStep

\* What a claim writes and where the retry goes.
LEMMA ClaimWrites ==
  ASSUME IInv, JInv, NEW r \in Retriers, NEW ok \in BOOLEAN, TryClaim(r, ok)
  PROVE  /\ retry[r].pc = "claim" /\ retry[r].msg \in Messages
         /\ \A s \in Retriers \ {r} : retry'[s] = retry[s]
         /\ \/ UNCHANGED outbox /\ retry'[r].pc = "idle"
            \/ /\ outbox[retry[r].msg].status \in Retryable
               /\ Touched(retry[r].msg, ClaimedStatus(outbox[retry[r].msg].status), NoTask,
                          outbox[retry[r].msg].status, outbox[retry[r].msg].answer)
               /\ retry'[r].pc = "owner" /\ retry'[r].msg = retry[r].msg
               /\ retry'[r].from = outbox[retry[r].msg].status
<1> USE DEF IInv, JInv
<1> DEFINE m == retry[r].msg
<1>a. retry[r].pc = "claim" /\ m \in Messages /\ StoreTypeOK
  BY DEF TryClaim, At, TasksHeld, TypeOK
<1>1. CASE Claimable(m) /\ ok
  <2>1. /\ retry' = [retry EXCEPT ![r].pc = "owner", ![r].from = outbox[m].status]
        /\ Claim(m, ok)
    BY <1>1 DEF TryClaim
  <2>2. /\ outbox[m].status \in Retryable
        /\ Touched(m, ClaimedStatus(outbox[m].status), NoTask, outbox[m].status,
                   outbox[m].answer)
    BY <1>a, <2>1, ClaimEffect
  <2> QED BY <1>a, <2>1, <2>2, RetryClaims
<1>2. CASE Claimable(m) /\ ~ok
  <2>1. Finish(r) /\ Claim(m, ok)
    BY <1>2 DEF TryClaim
  <2> QED BY <1>a, <1>2, <2>1, ClaimEffect, RetryEnds
<1>3. CASE ~Claimable(m)
  <2>1. Finish(r) /\ UNCHANGED outbox
    BY <1>3 DEF TryClaim, storeVars
  <2> QED BY <1>a, <2>1, RetryEnds
<1> QED BY <1>1, <1>2, <1>3

\* A claim takes a record nobody goes for; one it will generate has no answer.
LEMMA TryClaimKeeps ==
  ASSUME IInv, JInv, NEW r \in Retriers, NEW ok \in BOOLEAN, TryClaim(r, ok)
  PROVE  JInv'
<1> USE DEF IInv, JInv
<1> DEFINE m == retry[r].msg
<1>1. UNCHANGED <<turn, tasks, lane, handler, wire, jobs, drained, discarded>>
  BY DEF TryClaim, turnVars, busVars, linkVars
<1>2. /\ \A s \in Retriers \ {r} : retry'[s] = retry[s]
      /\ retry'[r].pc \in {"idle", "owner"} /\ retry[r].pc = "claim"
  BY ClaimWrites
<1>3. Reported'
  BY <1>1, ReportedFrame DEF SpentKept
<1>4. Holders'
  BY <1>1, <1>2 DEF Holders, Holding, Linking
<1>5. \A u \in Tasks : Going(u)' => Going(u) /\ tasks'[u].msg = tasks[u].msg
  BY <1>1, <1>2 DEF Going, Holding
<1>6. Settled'
  BY <1>1, SettledFrame DEF Begun
<1>7. /\ EmptyRecords'
      /\ \A t \in Tasks : Going(t) => RecordLeft(tasks[t].msg)
      /\ \A n \in Messages : AnswerLeft(n)
  <2>1. CASE UNCHANGED outbox
    BY <2>1, NoWrite
  <2>2. CASE ~UNCHANGED outbox
    <3>1. /\ m \in Messages /\ outbox[m].status # "absent"
          /\ outbox[m].status \notin {"generating", "unretryable"}
          /\ ClaimedStatus(outbox[m].status) # "absent"
          /\ Touched(m, ClaimedStatus(outbox[m].status), NoTask, outbox[m].status,
                     outbox[m].answer)
      BY <2>2, ClaimWrites DEF Retryable, ClaimedStatus
    <3>2. \A u \in Tasks : Going(u) => tasks[u].msg \in Messages \ {m}
      BY <3>1, NobodyGoes, GoingMessage
    <3>3. EmptyRecords'
      BY <3>1, EmptyTouched
    <3> QED BY <3>1, <3>2, <3>3 DEF Touched, RecordLeft, AnswerLeft
  <2> QED BY <2>1, <2>2
<1>8. Alone'
  BY <1>5, <1>7, AloneFrame
<1>9. ClaimsUnanswered'
  <2>1. \A s \in Retriers \ {r} : (Claiming(s)' <=> Claiming(s)) /\ retry'[s] = retry[s]
    BY <1>2 DEF Claiming
  <2>2. \A s \in Retriers \ {r} : Claiming(s) => AnswerLeft(retry[s].msg)
    BY <1>7, Concerned
  <2>3. Claiming(r)' /\ retry'[r].from = "needs_generation" =>
          retry'[r].msg = m /\ m \in Messages /\ outbox[m].status = "needs_generation"
    BY ClaimWrites DEF Claiming
  <2>4. m \in Messages /\ outbox[m].status = "needs_generation" => outbox[m].answer = FALSE
    BY DEF AnswerKept, TypeOK, StoreTypeOK, Records
  <2> QED BY <1>7, <2>1, <2>2, <2>3, <2>4 DEF ClaimsUnanswered, AnswerLeft
<1> QED BY <1>3, <1>4, <1>6, <1>7, <1>8, <1>9

\* A retry makes its task, or finds nobody to make it for.
LEMMA FindOwnerKeeps ==
  ASSUME IInv, JInv, NEW r \in Retriers, FindOwner(r)
  PROVE  JInv'
<1> USE DEF IInv, JInv
<1>1. /\ UNCHANGED <<outbox, turn, lane, handler, wire, jobs, drained, discarded>>
      /\ retry[r].pc = "owner"
  BY DEF FindOwner, At, storeVars, busVars, linkVars
<1>2. /\ \A s \in Retriers \ {r} : retry'[s] = retry[s]
      /\ retry'[r].msg = retry[r].msg /\ retry'[r].from = retry[r].from
      /\ \/ retry'[r].pc = "release" /\ tasks' = tasks
         \/ \E t \in Tasks :
              /\ tasks[t].phase = "unused"
              /\ \A u \in Tasks \ {t} : tasks'[u] = tasks[u]
              /\ tasks'[t].msg = retry[r].msg /\ tasks'[t].phase = "created"
              /\ retry'[r].pc = "link" /\ retry'[r].task = t
  <2>1. CASE ~online
    BY <2>1, RetryGoes DEF FindOwner
  <2>2. CASE online
    <3>1. PICK t \in Free :
            /\ tasks' = [tasks EXCEPT ![t] = [msg |-> retry[r].msg, phase |-> "created"]]
            /\ retry' = [retry EXCEPT ![r].pc = "link", ![r].task = t]
      BY <2>2 DEF FindOwner
    <3>2. t \in Tasks /\ tasks[t].phase = "unused"
      BY DEF Free
    <3>3. /\ \A s \in Retriers \ {r} : retry'[s] = retry[s]
          /\ retry'[r].msg = retry[r].msg /\ retry'[r].from = retry[r].from
          /\ retry'[r].pc = "link" /\ retry'[r].task = t
      BY <3>1 DEF TypeOK
    <3>4. /\ \A u \in Tasks \ {t} : tasks'[u] = tasks[u]
          /\ tasks'[t].msg = retry[r].msg /\ tasks'[t].phase = "created"
      BY <3>1, <3>2 DEF TypeOK
    <3> QED BY <3>2, <3>3, <3>4
  <2> QED BY <2>1, <2>2
<1>3. SpentKept
  BY <1>2 DEF SpentKept, Spent
<1>4. Reported'
  BY <1>1, <1>3, ReportedFrame
<1>5. Holders'
  <2>1. CASE tasks' = tasks /\ retry'[r].pc = "release"
    BY <1>1, <1>2, <2>1 DEF Holders, Holding, Linking
  <2>2. ASSUME NEW t \in Tasks, tasks[t].phase = "unused",
               \A u \in Tasks \ {t} : tasks'[u] = tasks[u],
               tasks'[t].phase = "created", retry'[r].task = t
        PROVE  Holders'
    <3>1. /\ \A n \in Messages : Holding(n) => turn[n].task \in Tasks \ {t}
          /\ \A s \in Retriers : Linking(s) => retry[s].task \in Tasks \ {t}
      BY <2>2, CreatedTasks DEF TasksHeld, Holding, Linking
    <3>2. /\ \A n \in Messages : Holding(n)' <=> Holding(n)
          /\ \A s \in Retriers \ {r} : Linking(s)' <=> Linking(s)
      BY <1>1, <1>2 DEF Holding, Linking
    <3> QED BY <1>1, <1>2, <2>2, <3>1, <3>2 DEF Holders
  <2> QED BY <1>2, <2>1, <2>2
<1>6. \A u \in Tasks : Going(u)' => Going(u) /\ tasks'[u].msg = tasks[u].msg
  <2>1. \A u \in Tasks : Going(u)' => Going(u)
    BY <1>1, <1>2 DEF Going, Holding
  <2> QED BY <1>2, <2>1, GoingMessage
<1>7. \A s \in Retriers : Claiming(s)' => /\ Claiming(s)
                                         /\ retry'[s].msg = retry[s].msg
                                         /\ retry'[s].from = retry[s].from
  BY <1>1, <1>2 DEF Claiming
<1>8. Settled'
  BY <1>1, SettledFrame DEF Begun
<1> QED BY <1>1, <1>4, <1>5, <1>6, <1>7, <1>8, NoWrite, MovingStep

\* What a link writes, and where the retry and its task go.
LEMMA LinkWrites ==
  ASSUME IInv, JInv, NEW r \in Retriers, NEW ok \in BOOLEAN, LinkTask(r, ok),
         NEW m, m = retry[r].msg, NEW t, t = retry[r].task
  PROVE  /\ retry[r].pc = "link" /\ m \in Messages /\ t \in Tasks
         /\ tasks[t].phase = "created" /\ tasks[t].msg = m
         /\ \A s \in Retriers \ {r} : retry'[s] = retry[s]
         /\ retry'[r].msg = m /\ retry'[r].task = t /\ retry'[r].from = retry[r].from
         /\ \/ /\ outbox[m].status # "absent"
               /\ Touched(m, outbox[m].status, t, outbox[m].from, outbox[m].answer)
               /\ outbox'[m].task = t
               /\ outbox'[m].status = outbox[m].status /\ outbox'[m].answer = outbox[m].answer
               /\ retry'[r].pc = "fire" /\ UNCHANGED <<tasks, lane>>
            \/ /\ UNCHANGED outbox
               /\ \A u \in Tasks \ {t} : tasks'[u] = tasks[u]
               /\ tasks'[t].msg = m /\ tasks'[t].phase = "over"
               /\ Report(t, "FAILED") /\ retry'[r].pc = "release"
<1> USE DEF IInv, JInv
<1>1. retry[r].pc = "link" /\ m \in Messages /\ t \in Tasks
  BY CreatedTasks DEF LinkTask, At, TasksHeld
<1>2. tasks[t].phase = "created" /\ tasks[t].msg = m
  BY <1>1 DEF Holders, Linking, TasksHeld
<1>3. \/ SetActiveTask(m, t, TRUE) /\ Goto(r, "fire") /\ UNCHANGED <<tasks, lane>>
      \/ /\ UNCHANGED outbox /\ Phase(t, "over") /\ Report(t, "FAILED")
         /\ Goto(r, "release")
  BY DEF LinkTask, storeVars
<1>4. CASE SetActiveTask(m, t, TRUE) /\ Goto(r, "fire") /\ UNCHANGED <<tasks, lane>>
  <2>1. outbox' = [outbox EXCEPT ![m].task = t] /\ outbox[m].status # "absent"
    BY <1>4 DEF SetActiveTask, Write, Present
  <2>2. /\ outbox'[m].task = t /\ outbox'[m].status = outbox[m].status
        /\ outbox'[m].answer = outbox[m].answer
    BY <1>1, <2>1 DEF TypeOK, StoreTypeOK, Records
  <2>3. Touched(m, outbox[m].status, t, outbox[m].from, outbox[m].answer)
    BY <1>1, <1>4, SetActiveTaskEffect DEF TypeOK
  <2> QED BY <1>1, <1>2, <1>4, <2>1, <2>2, <2>3, RetryGoes
<1>5. CASE /\ UNCHANGED outbox /\ Phase(t, "over") /\ Report(t, "FAILED")
           /\ Goto(r, "release")
  BY <1>1, <1>2, <1>5, RetryGoes, PhaseMoves
<1> QED BY <1>3, <1>4, <1>5

\* A link gives the record to the task that will go for it, or ends the task.
LEMMA LinkTaskKeeps ==
  ASSUME IInv, JInv, NEW r \in Retriers, NEW ok \in BOOLEAN, LinkTask(r, ok)
  PROVE  JInv'
<1> USE DEF IInv, JInv
<1>0. UNCHANGED <<turn, handler, wire, jobs, drained, discarded>>
  BY DEF LinkTask, linkVars
<1> PICK m, t : m = retry[r].msg /\ t = retry[r].task
  OBVIOUS
<1>1. /\ retry[r].pc = "link" /\ m \in Messages /\ t \in Tasks
      /\ tasks[t].phase = "created" /\ tasks[t].msg = m
      /\ \A s \in Retriers \ {r} : retry'[s] = retry[s]
      /\ retry'[r].msg = m /\ retry'[r].task = t /\ retry'[r].from = retry[r].from
  BY LinkWrites
<1>2. \/ /\ outbox[m].status # "absent"
         /\ Touched(m, outbox[m].status, t, outbox[m].from, outbox[m].answer)
         /\ outbox'[m].task = t
         /\ outbox'[m].status = outbox[m].status /\ outbox'[m].answer = outbox[m].answer
         /\ retry'[r].pc = "fire" /\ UNCHANGED <<tasks, lane>>
      \/ /\ UNCHANGED outbox
         /\ \A u \in Tasks \ {t} : tasks'[u] = tasks[u]
         /\ tasks'[t].msg = m /\ tasks'[t].phase = "over"
         /\ Report(t, "FAILED") /\ retry'[r].pc = "release"
  BY LinkWrites
<1>3. Settled'
  BY <1>0, SettledFrame DEF Begun
<1>4. CASE retry'[r].pc = "release"
  <2>1. /\ UNCHANGED outbox
        /\ \A u \in Tasks \ {t} : tasks'[u] = tasks[u]
        /\ tasks'[t].msg = m /\ tasks'[t].phase = "over" /\ Report(t, "FAILED")
    BY <1>2, <1>4
  <2>2. SpentKept /\ tasks'[t].phase \in Spent
    BY <1>1, <2>1 DEF SpentKept, Spent
  <2>3. Reported'
    BY <1>0, <1>1, <2>1, <2>2, ReportedAppends
  <2>4. Holders'
    <3>1. /\ \A n \in Messages : Holding(n) => turn[n].task \in Tasks \ {t}
          /\ \A s \in Retriers \ {r} : Linking(s) => retry[s].task \in Tasks \ {t}
      BY <1>1, CreatedTasks DEF TasksHeld, Holders, Holding, Linking
    <3>2. /\ \A n \in Messages : Holding(n)' <=> Holding(n)
          /\ \A s \in Retriers : Linking(s)' => s # r /\ Linking(s)
      BY <1>0, <1>1, <1>4 DEF Holding, Linking
    <3> QED BY <1>0, <1>1, <2>1, <3>1, <3>2 DEF Holders
  <2>5. \A u \in Tasks : Going(u)' => Going(u) /\ tasks'[u].msg = tasks[u].msg
    BY <1>0, <1>1, <1>4, <2>1 DEF Going, Holding
  <2>6. \A s \in Retriers : Claiming(s)' => /\ Claiming(s)
                                           /\ retry'[s].msg = retry[s].msg
                                           /\ retry'[s].from = retry[s].from
    BY <1>1 DEF Claiming
  <2> QED BY <1>3, <2>1, <2>3, <2>4, <2>5, <2>6, NoWrite, MovingStep
<1>5. CASE retry'[r].pc # "release"
  <2>1. /\ outbox[m].status # "absent"
        /\ Touched(m, outbox[m].status, t, outbox[m].from, outbox[m].answer)
        /\ outbox'[m].task = t
        /\ outbox'[m].status = outbox[m].status /\ outbox'[m].answer = outbox[m].answer
        /\ retry'[r].pc = "fire" /\ UNCHANGED <<tasks, lane>>
    BY <1>2, <1>5
  <2>2. /\ outbox[m].task = NoTask
        /\ outbox[m].status \in {"unretryable", ClaimedStatus(retry[r].from)}
    BY <1>1, <2>1 DEF ClaimsHeld, Claiming
  <2>3. \A u \in Tasks : Going(u) => tasks[u].msg \in Messages \ {m}
    BY <2>1, <2>2, NobodyGoes, GoingMessage
  <2>4. EmptyRecords'
    BY <1>1, <2>1, EmptyTouched
  <2>5. Reported'
    BY <1>0, <2>1, ReportedFrame DEF SpentKept
  <2>6. Holders'
    BY <1>0, <1>1, <2>1 DEF Holders, Holding, Linking
  <2>7. \A u \in Tasks : Going(u)' =>
          Going(u) \/ (u = t /\ retry[r].from = "needs_generation")
    BY <1>0, <1>1, <2>1 DEF Going, Holding
  <2>8. Alone'
    <3>1. retry[r].from = "needs_generation" =>
            outbox[m].answer = FALSE /\ outbox[m].status \in {"generating", "unretryable"}
      BY <1>1, <2>1, <2>2 DEF ClaimsUnanswered, Claiming, ClaimedStatus
    <3>2. \A u \in Tasks : Going(u) => outbox'[tasks[u].msg] = outbox[tasks[u].msg]
      BY <2>1, <2>3 DEF Touched
    <3>3. \A u \in Tasks : Going(u)' /\ outbox'[tasks'[u].msg].status # "absent" =>
            /\ outbox'[tasks'[u].msg].task = u
            /\ outbox'[tasks'[u].msg].answer = FALSE
            /\ outbox'[tasks'[u].msg].status \in {"generating", "unretryable"}
      BY <1>1, <2>1, <2>7, <3>1, <3>2 DEF Alone
    <3>4. \A u, v \in Tasks : Going(u)' /\ Going(v)' /\ tasks'[u].msg = tasks'[v].msg => u = v
      BY <1>1, <2>1, <2>3, <2>7 DEF Alone
    <3> QED BY <3>3, <3>4 DEF Alone
  <2>9. ClaimsUnanswered'
    <3>1. \A n \in Messages : AnswerLeft(n)
      BY <1>1, <2>1, AnswerLeftTouched
    <3>2. \A s \in Retriers : Claiming(s)' => /\ Claiming(s)
                                             /\ retry'[s].msg = retry[s].msg
                                             /\ retry'[s].from = retry[s].from
      BY <1>1, <2>1 DEF Claiming
    <3> QED BY <3>1, <3>2, Concerned, ClaimsUnansweredFrame
  <2> QED BY <1>3, <2>4, <2>5, <2>6, <2>8, <2>9
<1> QED BY <1>4, <1>5

\* The next process: nobody goes, claims or reports any more.
LEMMA RestartKeeps ==
  ASSUME IInv, JInv, NEW ok \in BOOLEAN, Restart(ok)
  PROVE  JInv'
<1> USE DEF IInv, JInv
<1>1. \A m \in Messages : /\ outbox'[m].answer = outbox[m].answer
                          /\ outbox'[m].status = "absent" => outbox[m].status = "absent"
  BY RecoverEffect DEF Restart, TypeOK
<1>2. /\ \A m \in Messages : turn'[m].pc \in {"new", "done"} /\ (Begun(m) => turn'[m].pc = "done")
      /\ \A r \in Retriers : retry'[r].pc = "idle"
      /\ lane' = <<>> /\ handler'.pc = "idle" /\ wire' = {} /\ jobs' = {}
      /\ UNCHANGED <<drained, discarded>>
  BY NoRetryFields DEF Restart, TypeOK, Idle, Begun
<1>3. \A t \in Tasks : tasks'[t].phase = IF tasks[t].phase = "unused" THEN "unused" ELSE "over"
  <2>1. \A t \in Tasks : t \in Free <=> tasks[t].phase = "unused"
    BY DEF Free
  <2> QED BY <2>1 DEF Restart, TypeOK, Unused
<1>4. EmptyRecords'
  BY <1>1 DEF EmptyRecords
<1>5. Reported'
  BY <1>2, <1>3 DEF Reported, Spent, TypeOK
<1>6. Holders' /\ ClaimsUnanswered'
  BY <1>2 DEF Holders, Holding, Linking, ClaimsUnanswered, Claiming
<1>7. Alone'
  <2>1. \A t \in Tasks : ~Going(t)'
    BY <1>2, <1>3 DEF Going, Holding
  <2> QED BY <2>1 DEF Alone
<1>8. Settled'
  BY <1>2 DEF Settled, Begun, TypeOK
<1> QED BY <1>4, <1>5, <1>6, <1>7, <1>8

-----------------------------------------------------------------------------
(* One generation at a time.                                                *)

\* Nothing has happened yet.
LEMMA InitKeeps ==
  ASSUME Init
  PROVE  JInv
<1>1. \A m \in Messages : outbox[m].status = "absent" /\ outbox[m].answer = FALSE
  BY NoRecordFields DEF Init, StoreInit
<1>2. /\ \A m \in Messages : turn[m].pc = "new"
      /\ \A t \in Tasks : tasks[t].phase = "unused"
      /\ \A r \in Retriers : retry[r].pc = "idle"
  BY NoRetryFields DEF Init, NoTurn, Unused
<1>3. /\ lane = <<>> /\ handler.pc = "idle" /\ wire = {} /\ jobs = {}
      /\ drained = {} /\ discarded = {}
  BY DEF Init, Idle
<1>4. Reported /\ Settled
  BY <1>3 DEF Reported, Settled
<1>5. \A t \in Tasks : ~Going(t)
  BY <1>2 DEF Going, Holding
<1>6. EmptyRecords /\ Holders /\ Alone /\ ClaimsUnanswered
  BY <1>1, <1>2, <1>5 DEF EmptyRecords, Holders, Alone, ClaimsUnanswered, Holding, Linking, Claiming
<1> QED BY <1>4, <1>6 DEF JInv

\* A stuttering step.
LEMMA StutterKeeps ==
  ASSUME IInv, JInv, UNCHANGED vars
  PROVE  JInv'
<1>1. UNCHANGED <<outbox, turn, tasks, retry, lane, handler, wire, jobs, drained, discarded>>
  BY DEF vars, storeVars, turnVars, busVars, userVars, linkVars
<1>2. Reported' /\ Settled'
  BY <1>1 DEF JInv, Reported, Settled, Begun
<1> QED BY <1>1, <1>2, NoWrite, QuietStep DEF JInv

\* Every step of the system keeps who works for what.
LEMMA NextKeeps ==
  ASSUME IInv, JInv, Next
  PROVE  JInv'
<1>1. CASE Dispatching
  BY <1>1, RecordKeeps, SendToChatKeeps DEF Dispatching
<1>2. CASE Producing
  BY <1>2, ProducersKeep DEF Producing
<1>3. CASE HandleStatus
  BY <1>3, TakeAnswerKeeps, TakeVoiceFailureKeeps, TakeFailureKeeps, FenceKeeps,
     ScheduleSendKeeps DEF HandleStatus, Accepting
<1>4. CASE Sending
  BY <1>4, DrainKeeps, SendFailsKeeps DEF Sending
<1>5. CASE Finalizing
  BY <1>5, RunJobKeeps DEF Finalizing
<1>6. ASSUME NEW r \in Retriers, Retrying(r)
      PROVE  JInv'
  BY <1>6, TryClaimKeeps, LinkTaskKeeps, ReleaseKeeps, FindOwnerKeeps, FireKeeps DEF Retrying
<1>7. CASE Environment
  <2>1. CASE Connect \/ Disconnect
    BY <2>1, ClientKeeps
  <2>2. CASE \E m \in Messages : Receive(m) \/ AgeOut(m)
    BY <2>2, ReceiveKeeps, AgeOutKeeps
  <2>3. CASE \E m \in Messages, ok \in BOOLEAN : Delete(m, ok)
    BY <2>3, DeleteKeeps
  <2>4. CASE \E r \in Retriers, m \in Messages : Click(r, m)
    BY <2>4, ClickKeeps
  <2>5. CASE Corrupt \/ \E ok \in BOOLEAN : Restart(ok)
    BY <2>5, CorruptKeeps, RestartKeeps
  <2> QED BY <1>7, <2>1, <2>2, <2>3, <2>4, <2>5 DEF Environment
<1> QED BY <1>1, <1>2, <1>3, <1>4, <1>5, <1>6, <1>7 DEF Next

\* Who works for a message is settled in every reachable state.
THEOREM WorkInvariance == Spec => [](IInv /\ JInv)
<1>1. Init => IInv /\ JInv
  BY InitHolds, InitKeeps
<1>2. IInv /\ JInv /\ [Next]_vars => (IInv /\ JInv)'
  BY NextHolds, StutterHolds, NextKeeps, StutterKeeps
<1> QED BY <1>1, <1>2, PTL DEF Spec

\* However the user clicks, however many retries are pressed at once and
\* wherever tasks fail, one turn runs in one generation at a time.
THEOREM OneAtATime == Spec => []OneGeneration
<1>1. IInv /\ JInv => OneGeneration
  <2> SUFFICES ASSUME JInv, NEW m \in Messages
               PROVE  Cardinality(Live(m)) <= 1
    BY DEF OneGeneration
  <2>1. \A t, u \in Live(m) : t = u
    BY DEF JInv, Alone, Going, Live, Msg
  <2>2. CASE Live(m) = {}
    BY <2>2, FS_EmptySet
  <2>3. CASE Live(m) # {}
    <3>1. PICK t \in Live(m) : Live(m) = {t}
      BY <2>1, <2>3
    <3>2. Cardinality({t}) = 1
      BY FS_Singleton
    <3>3. Cardinality(Live(m)) = 1
      BY <3>1, <3>2
    <3> QED BY <3>3
  <2> QED BY <2>2, <2>3
<1> QED BY <1>1, WorkInvariance, PTL

\* A model call starts only for a turn whose record, if it has one, holds no
\* answer: what a turn has cost once is not paid for again.
THEOREM NoCallIsWasted == Spec => NoCallForAnswered
<1>1. IInv /\ JInv /\ [Next]_vars =>
        [\A t \in Tasks : tasks[t].phase = "queued" /\ tasks'[t].phase = "generating"
                          => ~outbox[Msg(t)].answer]_vars
  <2> SUFFICES ASSUME IInv, JInv, NEW t \in Tasks, tasks[t].phase = "queued"
               PROVE  outbox[Msg(t)].answer = FALSE
    OBVIOUS
  <2>1. tasks[t].msg \in Messages /\ Going(t)
    BY DEF IInv, TasksHeld, Going
  <2> QED BY <2>1 DEF JInv, EmptyRecords, Alone, Msg
<1> QED BY <1>1, WorkInvariance, PTL DEF Spec, NoCallForAnswered

-----------------------------------------------------------------------------
(* The outbox implements the ledger.                                        *)

\* The entry of a message, field by field.
LEMMA Entry ==
  ASSUME NEW m \in Messages
  PROVE  /\ outbox[m].status # "absent" /\ outbox[m].answer => LedgerOf(m) = "answered"
         /\ outbox[m].status # "absent" /\ ~outbox[m].answer => LedgerOf(m) = "open"
         /\ outbox[m].status = "absent" /\ m \in DeliveredMessages \cup discarded
              => LedgerOf(m) = "settled"
         /\ outbox[m].status = "absent" /\ m \notin DeliveredMessages \cup discarded
              => LedgerOf(m) = "none"
BY DEF LedgerOf, Present

\* The same after a step.
LEMMA NextEntry ==
  ASSUME NEW m \in Messages
  PROVE  /\ outbox'[m].status # "absent" /\ outbox'[m].answer => LedgerOf(m)' = "answered"
         /\ outbox'[m].status # "absent" /\ ~outbox'[m].answer => LedgerOf(m)' = "open"
         /\ outbox'[m].status = "absent" /\ m \in DeliveredMessages' \cup discarded'
              => LedgerOf(m)' = "settled"
         /\ outbox'[m].status = "absent" /\ m \notin DeliveredMessages' \cup discarded'
              => LedgerOf(m)' = "none"
BY DEF LedgerOf, Present

\* The record of m shows what it showed.
ShownAlike(m) ==
  /\ outbox'[m].status = "absent" <=> outbox[m].status = "absent"
  /\ outbox[m].status # "absent" => outbox'[m].answer = outbox[m].answer

\* Then so does its entry, while nothing is delivered or discarded.
LEMMA EntryKept ==
  ASSUME NEW m \in Messages, ShownAlike(m), DeliveredMessages' = DeliveredMessages,
         m \in discarded' <=> m \in discarded
  PROVE  LedgerOf(m)' = LedgerOf(m)
BY DEF LedgerOf, Present, ShownAlike

\* The ledger stands still.
LEMMA LedgerStutters ==
  ASSUME \A m \in Messages : ShownAlike(m),
         DeliveredMessages' = DeliveredMessages, UNCHANGED discarded
  PROVE  UNCHANGED Ledger!ledgerVars
<1>1. \A m \in Messages : LedgerOf(m)' = LedgerOf(m)
  BY EntryKept
<1>2. [m \in Messages |-> LedgerOf(m)]' = [m \in Messages |-> LedgerOf(m)]
  BY <1>1
<1> QED BY <1>2 DEF Ledger!ledgerVars

\* One entry moves.
LEMMA LedgerMoves ==
  ASSUME NEW m \in Messages, NEW s, LedgerOf(m)' = s,
         \A n \in Messages \ {m} : LedgerOf(n)' = LedgerOf(n)
  PROVE  [n \in Messages |-> LedgerOf(n)]' = [[n \in Messages |-> LedgerOf(n)] EXCEPT ![m] = s]
OBVIOUS

\* What is delivered stays delivered, and nothing new is.
LEMMA DeliveredKept ==
  ASSUME IInv, JInv, UNCHANGED drained, TasksKept
  PROVE  DeliveredMessages' = DeliveredMessages
<1>1. \A t \in drained : t \in Tasks /\ tasks[t].phase # "unused"
  BY DEF IInv, JInv, TypeOK, Reported, Spent
<1>2. \A t \in drained : Msg(t)' = Msg(t)
  BY <1>1 DEF TasksKept, Msg
<1> QED BY <1>2 DEF DeliveredMessages

\* A turn is entered: it was neither delivered nor discarded before.
LEMMA RecordRefines ==
  ASSUME IInv, JInv, NEW m \in Messages, NEW ok \in BOOLEAN, Record(m, ok)
  PROVE  Ledger!Open(m) \/ UNCHANGED Ledger!ledgerVars
<1> USE DEF IInv, JInv
<1>1. UNCHANGED <<tasks, drained, discarded>> /\ turn[m].pc = "recording"
  BY DEF Record, busVars, userVars, linkVars
<1>2. DeliveredMessages' = DeliveredMessages
  BY <1>1, DeliveredKept DEF TasksKept
<1>3. outbox[m].status = "absent" /\ turn[m].task \in Tasks
  BY <1>1, CreatedTasks DEF BegunMessages, Begun, TasksHeld
<1>4. Touched(m, "generating", turn[m].task, "needs_generation", FALSE)
  BY <1>3, AddEffect DEF Record, TypeOK
<1>5. m \notin DeliveredMessages \cup discarded
  <2>1. m \notin discarded
    BY <1>1 DEF Settled, Begun
  <2>2. \A t \in drained : tasks[t].phase \notin {"unused", "created"} /\ t \in Tasks
    BY DEF TypeOK, Reported, Spent
  <2>3. \A t \in drained : Msg(t) # m
    BY <1>1, <2>2 DEF BegunMessages, Begun, Msg
  <2> QED BY <2>1, <2>3 DEF DeliveredMessages
<1>6. \A n \in Messages \ {m} : LedgerOf(n)' = LedgerOf(n)
  BY <1>1, <1>2, <1>4, EntryKept DEF Touched, ShownAlike
<1>7. CASE outbox'[m] = outbox[m]
  <2>1. \A n \in Messages : ShownAlike(n)
    BY <1>4, <1>7 DEF Touched, ShownAlike
  <2> QED BY <1>1, <1>2, <2>1, LedgerStutters
<1>8. CASE outbox'[m] # outbox[m]
  <2>1. LedgerOf(m) = "none"
    BY <1>3, <1>5, Entry
  <2>2. LedgerOf(m)' = "open"
    BY <1>4, <1>8, NextEntry DEF Touched
  <2> QED BY <1>1, <1>2, <1>6, <2>1, <2>2, LedgerMoves DEF Ledger!Open
<1> QED BY <1>7, <1>8

\* A phase that moves on keeps every used task for its message.
LEMMA PhaseKeepsTasks ==
  ASSUME TypeOK, NEW t \in Tasks, tasks[t].phase # "unused",
         NEW p \in {"created", "queued", "generating", "voicing", "overlapping", "playing", "ending", "over"},
         Phase(t, p)
  PROVE  TasksKept
BY PhaseMoves DEF TasksKept

\* Nothing the ledger shows is touched.
LEMMA NothingShown ==
  ASSUME IInv, JInv, UNCHANGED <<outbox, drained, discarded>>, TasksKept
  PROVE  UNCHANGED Ledger!ledgerVars
BY DeliveredKept, LedgerStutters DEF ShownAlike

\* Chat and voice never write the ledger.
LEMMA ProducersRefine ==
  ASSUME IInv, JInv, NEW t \in Tasks,
         Submit(t) \/ Generate(t) \/ FailLate(t) \/ Voice(t) \/ FailPlayback(t)
  PROVE  UNCHANGED Ledger!ledgerVars
<1>1. /\ tasks[t].phase # "unused" /\ UNCHANGED <<outbox, drained, discarded>>
      /\ \E p \in {"generating", "voicing", "overlapping", "playing", "ending", "over"} : Phase(t, p)
  BY DEF Submit, Generate, FailLate, Voice, FailPlayback, storeVars, linkVars
<1> QED BY <1>1, PhaseKeepsTasks, NothingShown DEF IInv

\* Nor does the way of a task to the chat, from the coroutine or the retry.
LEMMA SendersRefine ==
  ASSUME IInv, JInv,
         \/ \E m \in Messages : SendToChat(m)
         \/ \E r \in Retriers : Fire(r)
  PROVE  UNCHANGED Ledger!ledgerVars
<1> USE DEF IInv
<1>1. ASSUME NEW m \in Messages, SendToChat(m)
      PROVE  UNCHANGED Ledger!ledgerVars
  <2>1. turn[m].task \in Tasks /\ tasks[turn[m].task].phase # "unused"
    BY <1>1, CreatedTasks DEF SendToChat, TasksHeld
  <2>2. TasksKept
    BY <1>1, <2>1, PhaseKeepsTasks DEF SendToChat
  <2> QED BY <1>1, <2>2, NothingShown DEF SendToChat, storeVars, linkVars
<1>2. ASSUME NEW r \in Retriers, Fire(r)
      PROVE  UNCHANGED Ledger!ledgerVars
  <2>1. retry[r].task \in Tasks /\ tasks[retry[r].task].phase # "unused"
    BY <1>2, CreatedTasks DEF Fire, At, TasksHeld
  <2>2. TasksKept
    BY <1>2, <2>1, PhaseKeepsTasks DEF Fire
  <2> QED BY <1>2, <2>2, NothingShown DEF Fire, storeVars, linkVars
<1> QED BY <1>1, <1>2

\* Nor does a new task.
LEMMA NewTasksRefine ==
  ASSUME IInv, JInv,
         \/ \E m \in Messages : Receive(m)
         \/ \E r \in Retriers : FindOwner(r)
  PROVE  UNCHANGED Ledger!ledgerVars
<1>1. UNCHANGED <<outbox, drained, discarded>>
  BY DEF Receive, FindOwner, storeVars, linkVars
<1>2. \/ UNCHANGED tasks
      \/ \E t \in Free : \E m : tasks' = [tasks EXCEPT ![t] = [msg |-> m, phase |-> "created"]]
  BY DEF Receive, FindOwner
<1>3. TasksKept
  BY <1>2 DEF TasksKept, Free, IInv, TypeOK
<1> QED BY <1>1, <1>3, NothingShown

\* Nor does a step of the bus, of the connection or of the user.
LEMMA BusRefines ==
  ASSUME IInv, JInv,
         \/ \E e \in TaskEvents : TakeFailure(e)
         \/ Fence \/ ScheduleSend \/ Connect \/ Disconnect
         \/ \E e \in wire : SendFails(e)
         \/ \E r \in Retriers, m \in Messages : Click(r, m)
  PROVE  UNCHANGED Ledger!ledgerVars
<1>1. UNCHANGED <<outbox, drained, discarded, tasks>>
  BY DEF TakeFailure, Fence, ScheduleSend, SendFails, Connect, Disconnect, Click,
         storeVars, linkVars, turnVars
<1> QED BY <1>1, NothingShown DEF TasksKept

\* A write that changes neither that there is a record nor its answer.
LEMMA ShownTouched ==
  ASSUME NEW m \in Messages, NEW s, NEW t, NEW f, NEW a, Touched(m, s, t, f, a),
         outbox[m].status # "absent", s # "absent", a = outbox[m].answer
  PROVE  \A n \in Messages : ShownAlike(n)
BY DEF Touched, ShownAlike

\* Claims, links, releases and failed voiceovers write what the ledger hides.
LEMMA HiddenRefines ==
  ASSUME IInv, JInv, NEW ok \in BOOLEAN,
         \/ \E e \in TaskEvents : TakeVoiceFailure(e, ok)
         \/ \E r \in Retriers : TryClaim(r, ok) \/ LinkTask(r, ok) \/ Release(r, ok)
  PROVE  UNCHANGED Ledger!ledgerVars
<1> USE DEF Retryable
<1>1. ASSUME UNCHANGED <<drained, discarded>>, TasksKept,
             \A n \in Messages : ShownAlike(n)
      PROVE  UNCHANGED Ledger!ledgerVars
  BY <1>1, DeliveredKept, LedgerStutters
<1>0. UNCHANGED outbox => \A n \in Messages : ShownAlike(n)
  BY DEF ShownAlike
<1>2. ASSUME NEW e \in TaskEvents, TakeVoiceFailure(e, ok)
      PROVE  UNCHANGED Ledger!ledgerVars
  <2> DEFINE m == Msg(e.task)
             f == outbox[m].from
             a == outbox[m].answer
             s == "generated_pending_delivery"
  <2>1. \/ UNCHANGED outbox
        \/ /\ m \in Messages /\ outbox[m].status # "absent" /\ s # "absent"
           /\ Touched(m, s, e.task, f, a)
    BY <1>2, VoiceFailureWrites
  <2>2. UNCHANGED <<tasks, drained, discarded>>
    BY <1>2 DEF TakeVoiceFailure, turnVars, linkVars
  <2>3. a = outbox[m].answer
    OBVIOUS
  <2> HIDE DEF m, f, a, s
  <2>4. \A n \in Messages : ShownAlike(n)
    BY <1>0, <2>1, <2>3, ShownTouched
  <2> QED BY <1>1, <2>2, <2>4 DEF TasksKept
<1>3. ASSUME NEW r \in Retriers, TryClaim(r, ok)
      PROVE  UNCHANGED Ledger!ledgerVars
  <2> DEFINE m == retry[r].msg
             s == ClaimedStatus(outbox[m].status)
  <2>1. \/ UNCHANGED outbox
        \/ /\ m \in Messages /\ outbox[m].status # "absent" /\ s # "absent"
           /\ Touched(m, s, NoTask, outbox[m].status, outbox[m].answer)
    BY <1>3, ClaimWrites DEF ClaimedStatus
  <2>2. UNCHANGED <<tasks, drained, discarded>>
    BY <1>3 DEF TryClaim, turnVars, linkVars
  <2> HIDE DEF m, s
  <2>4. \A n \in Messages : ShownAlike(n)
    BY <1>0, <2>1, ShownTouched
  <2> QED BY <1>1, <2>2, <2>4 DEF TasksKept
<1>4. ASSUME NEW r \in Retriers, LinkTask(r, ok)
      PROVE  UNCHANGED Ledger!ledgerVars
  <2> PICK m, t : m = retry[r].msg /\ t = retry[r].task
    OBVIOUS
  <2>1. /\ t \in Tasks /\ m \in Messages /\ tasks[t].phase = "created" /\ tasks[t].msg = m
        /\ \/ UNCHANGED outbox
           \/ /\ outbox[m].status # "absent"
              /\ Touched(m, outbox[m].status, t, outbox[m].from, outbox[m].answer)
        /\ \/ UNCHANGED tasks
           \/ /\ \A u \in Tasks \ {t} : tasks'[u] = tasks[u]
              /\ tasks'[t].msg = m /\ tasks'[t].phase = "over"
    BY <1>4, LinkWrites
  <2>2. UNCHANGED <<drained, discarded>>
    BY <1>4 DEF LinkTask, linkVars
  <2>3. TasksKept
    BY <2>1 DEF TasksKept
  <2>4. \A n \in Messages : ShownAlike(n)
    BY <1>0, <2>1, ShownTouched
  <2> QED BY <1>1, <2>2, <2>3, <2>4
<1>5. ASSUME NEW r \in Retriers, Release(r, ok)
      PROVE  UNCHANGED Ledger!ledgerVars
  <2> DEFINE m == retry[r].msg
             s == retry[r].from
  <2>1. \/ UNCHANGED outbox
        \/ /\ m \in Messages /\ outbox[m].status # "absent" /\ s # "absent"
           /\ Touched(m, s, NoTask, outbox[m].from, outbox[m].answer)
    BY <1>5, ReleaseWrites
  <2>2. UNCHANGED <<tasks, drained, discarded>>
    BY <1>5 DEF Release, turnVars, linkVars
  <2> HIDE DEF m, s
  <2>4. \A n \in Messages : ShownAlike(n)
    BY <1>0, <2>1, ShownTouched
  <2> QED BY <1>1, <2>2, <2>4 DEF TasksKept
<1> QED BY <1>2, <1>3, <1>4, <1>5

\* The recovery shows what the last process left.
LEMMA RestartRefines ==
  ASSUME IInv, JInv, NEW ok \in BOOLEAN, Restart(ok)
  PROVE  UNCHANGED Ledger!ledgerVars
<1> USE DEF IInv, JInv
<1>1. \A m \in Messages : ShownAlike(m)
  BY RecoverEffect DEF Restart, TypeOK, ShownAlike
<1>2. TasksKept
  <2>1. \A t \in Tasks : t \in Free <=> tasks[t].phase = "unused"
    BY DEF Free
  <2> QED BY <2>1 DEF Restart, TypeOK, TasksKept
<1>3. UNCHANGED <<drained, discarded>>
  BY DEF Restart
<1> QED BY <1>1, <1>2, <1>3, DeliveredKept, LedgerStutters

\* An answer is entered once.
LEMMA TakeAnswerRefines ==
  ASSUME IInv, JInv, NEW ok \in BOOLEAN, NEW e \in TaskEvents, TakeAnswer(e, ok)
  PROVE  \/ \E m \in Messages : Ledger!Answer(m)
         \/ UNCHANGED Ledger!ledgerVars
<1>1. UNCHANGED <<tasks, drained, discarded>>
  BY DEF TakeAnswer, turnVars, linkVars
<1>2. DeliveredMessages' = DeliveredMessages
  BY <1>1, DeliveredKept DEF TasksKept
<1>3. CASE UNCHANGED outbox
  BY <1>1, <1>3, NothingShown DEF TasksKept
<1>4. CASE ~UNCHANGED outbox
  <2> PICK m : m = Msg(e.task)
    OBVIOUS
  <2>0. /\ m \in Messages /\ outbox[m].status # "absent"
        /\ PendingStatus(e.status) # "absent"
        /\ Touched(m, PendingStatus(e.status), e.task, outbox[m].from, TRUE)
    BY <1>4, AnswerWrites
  <2>1. /\ m \in Messages /\ outbox[m].status # "absent"
        /\ \A n \in Messages \ {m} : outbox'[n] = outbox[n]
        /\ \/ outbox'[m] = outbox[m]
           \/ outbox'[m].status # "absent" /\ outbox'[m].answer = TRUE
    BY <2>0 DEF Touched
  <2>2. outbox[m].answer \in BOOLEAN
    BY <2>1 DEF IInv, TypeOK, StoreTypeOK, Records
  <2>3. CASE \/ outbox'[m] = outbox[m]
             \/ outbox'[m].status # "absent" /\ outbox'[m].answer = outbox[m].answer
    <3>1. \A n \in Messages : ShownAlike(n)
      BY <2>1, <2>3 DEF ShownAlike
    <3> QED BY <1>1, <1>2, <3>1, LedgerStutters
  <2>4. CASE outbox[m].answer = FALSE /\ outbox'[m].status # "absent" /\ outbox'[m].answer = TRUE
    <3>1. LedgerOf(m) = "open" /\ LedgerOf(m)' = "answered"
      BY <2>1, <2>4, Entry, NextEntry
    <3>2. \A n \in Messages \ {m} : LedgerOf(n)' = LedgerOf(n)
      BY <1>1, <1>2, <2>1, EntryKept DEF ShownAlike
    <3> QED BY <1>1, <1>2, <2>1, <3>1, <3>2, LedgerMoves DEF Ledger!Answer
  <2> QED BY <2>1, <2>2, <2>3, <2>4
<1> QED BY <1>3, <1>4

\* A socket takes the final update of a turn.
LEMMA DrainRefines ==
  ASSUME IInv, JInv, NEW e \in wire, Drain(e)
  PROVE  \/ \E m \in Messages : Ledger!Deliver(m)
         \/ UNCHANGED Ledger!ledgerVars
<1> USE DEF IInv, JInv
<1>1. UNCHANGED <<outbox, tasks, discarded>>
  BY DEF Drain, storeVars, turnVars
<1>2. CASE UNCHANGED drained
  BY <1>1, <1>2, NothingShown DEF TasksKept
<1>3. CASE drained' = drained \cup {e.task}
  <2> PICK m : m = Msg(e.task)
    OBVIOUS
  <2>1. m \in Messages
    BY CreatedTasks DEF EventsOfTasks, TasksHeld, Msg
  <2>2. DeliveredMessages' = DeliveredMessages \cup {m}
    <3>1. \A t : Msg(t)' = Msg(t)
      BY <1>1 DEF Msg
    <3> QED BY <1>3, <3>1 DEF DeliveredMessages
  <2>3. \A n \in Messages \ {m} : LedgerOf(n)' = LedgerOf(n)
    BY <1>1, <2>2 DEF LedgerOf, Present
  <2>4. LedgerOf(m)' = IF LedgerOf(m) = "none" THEN "settled" ELSE LedgerOf(m)
    BY <1>1, <2>2 DEF LedgerOf, Present
  <2>5. CASE LedgerOf(m) = "none"
    <3>1. LedgerOf(m)' = "settled"
      BY <2>4, <2>5
    <3> QED BY <1>1, <2>1, <2>2, <2>3, <2>5, <3>1, LedgerMoves DEF Ledger!Deliver
  <2>6. CASE LedgerOf(m) # "none"
    <3>1. \A n \in Messages : LedgerOf(n)' = LedgerOf(n)
      BY <2>3, <2>4, <2>6
    <3>2. [n \in Messages |-> LedgerOf(n)]' = [n \in Messages |-> LedgerOf(n)]
      BY <3>1
    <3> QED BY <1>1, <2>1, <2>2, <2>6, <3>2 DEF Ledger!Deliver
  <2> QED BY <2>5, <2>6
<1> QED BY <1>2, <1>3 DEF Drain

\* A finalizer settles only what a socket has taken.
LEMMA RunJobRefines ==
  ASSUME IInv, JInv, NEW j \in jobs, NEW ok \in BOOLEAN, RunJob(j, ok)
  PROVE  \/ \E m \in Messages : Ledger!Settle(m)
         \/ UNCHANGED Ledger!ledgerVars
<1>1. UNCHANGED <<tasks, drained, discarded>>
  BY DEF RunJob, turnVars, linkVars
<1>2. DeliveredMessages' = DeliveredMessages
  BY <1>1, DeliveredKept DEF TasksKept
<1>3. CASE UNCHANGED outbox
  BY <1>1, <1>3, NothingShown DEF TasksKept
<1>4. CASE ~UNCHANGED outbox
  <2> PICK m : m = Msg(j.task)
    OBVIOUS
  <2>1. /\ m \in Messages /\ outbox[m].status # "absent"
        /\ \E s, t, f, a :
             /\ Touched(m, s, t, f, a)
             /\ \/ j.kind = "complete" /\ s = "absent" /\ a = FALSE
                \/ s # "absent" /\ a = outbox[m].answer
    BY ZenonT(60), <1>4, JobWrites
  <2>2. /\ \A n \in Messages \ {m} : outbox'[n] = outbox[n]
        /\ \/ outbox'[m] = outbox[m]
           \/ j.kind = "complete" /\ outbox'[m].status = "absent"
           \/ outbox'[m].status # "absent" /\ outbox'[m].answer = outbox[m].answer
    BY <2>1 DEF Touched
  <2>3. CASE \/ outbox'[m] = outbox[m]
             \/ outbox'[m].status # "absent" /\ outbox'[m].answer = outbox[m].answer
    <3>1. \A n \in Messages : ShownAlike(n)
      BY <2>1, <2>2, <2>3 DEF ShownAlike
    <3> QED BY <1>1, <1>2, <3>1, LedgerStutters
  <2>4. CASE j.kind = "complete" /\ outbox'[m].status = "absent"
    <3>1. m \in DeliveredMessages
      BY <2>4 DEF JInv, Settled, DeliveredMessages
    <3>2. LedgerOf(m) \in {"open", "answered"} /\ LedgerOf(m)' = "settled"
      BY <1>2, <2>1, <2>4, <3>1, Entry, NextEntry
    <3>3. \A n \in Messages \ {m} : LedgerOf(n)' = LedgerOf(n)
      BY <1>1, <1>2, <2>2, EntryKept DEF ShownAlike
    <3> QED BY <1>1, <1>2, <2>1, <3>1, <3>2, <3>3, LedgerMoves DEF Ledger!Settle
  <2> QED BY <2>2, <2>3, <2>4
<1> QED BY <1>3, <1>4

\* Records that are lost are discarded.
LEMMA Discards ==
  ASSUME IInv, JInv, NEW S \in SUBSET Messages,
         \A m \in S : outbox[m].status # "absent" /\ outbox'[m].status = "absent",
         \A m \in Messages \ S : ShownAlike(m),
         discarded' = discarded \cup S, UNCHANGED <<tasks, drained>>
  PROVE  Ledger!Discard(S)
<1>1. DeliveredMessages' = DeliveredMessages
  BY DeliveredKept DEF TasksKept
<1>2. \A m \in S : LedgerOf(m) \in {"open", "answered"} /\ LedgerOf(m)' = "settled"
  BY Entry, NextEntry
<1>3. \A m \in Messages \ S : LedgerOf(m)' = LedgerOf(m)
  BY <1>1, EntryKept
<1>4. [m \in Messages |-> LedgerOf(m)]' =
        [m \in Messages |-> IF m \in S THEN "settled" ELSE [n \in Messages |-> LedgerOf(n)][m]]
  BY <1>2, <1>3
<1> QED BY <1>1, <1>2, <1>4 DEF Ledger!Discard

\* The user, the clock and the disk discard.
LEMMA LossRefines ==
  ASSUME IInv, JInv,
         \/ \E m \in Messages, ok \in BOOLEAN : Delete(m, ok)
         \/ \E m \in Messages : AgeOut(m)
         \/ Corrupt
  PROVE  \/ \E S \in SUBSET Messages : Ledger!Discard(S)
         \/ UNCHANGED Ledger!ledgerVars
<1>1. UNCHANGED <<tasks, drained>>
  BY DEF Delete, AgeOut, Corrupt, turnVars, linkVars
<1>2. ASSUME NEW m \in Messages, outbox' = [outbox EXCEPT ![m] = NoRecord],
             outbox[m].status # "absent", discarded' = discarded \cup {m}
      PROVE  Ledger!Discard({m})
  <2>1. /\ outbox'[m].status = "absent"
        /\ \A n \in Messages \ {m} : ShownAlike(n)
    BY <1>2, NoRecordFields DEF IInv, TypeOK, StoreTypeOK, ShownAlike
  <2> QED BY <1>1, <1>2, <2>1, Discards
<1>3. ASSUME NEW m \in Messages, NEW ok \in BOOLEAN, Delete(m, ok)
      PROVE  \E S \in SUBSET Messages : Ledger!Discard(S) \/ UNCHANGED Ledger!ledgerVars
  <2>1. outbox[m].status # "absent"
    BY <1>3 DEF Delete, Remove, Present
  <2>2. CASE ok
    BY <1>2, <1>3, <2>1, <2>2 DEF Delete, Remove, Write
  <2>3. CASE ~ok
    BY <1>1, <1>3, <2>3, NothingShown DEF Delete, Remove, Write, TasksKept
  <2> QED BY <2>2, <2>3
<1>4. ASSUME NEW m \in Messages, AgeOut(m)
      PROVE  Ledger!Discard({m})
  BY <1>2, <1>4 DEF AgeOut, Expire, Present
<1>5. ASSUME NEW m \in Messages, Damage(m), UNCHANGED discarded
      PROVE  UNCHANGED Ledger!ledgerVars
  <2>1. \A n \in Messages : ShownAlike(n)
    <3>1. outbox[m].status # "absent"
      BY <1>5 DEF Damage, Present
    <3>2. /\ \A n \in Messages \ {m} : outbox'[n] = outbox[n]
          /\ outbox'[m].status # "absent" /\ outbox'[m].answer = outbox[m].answer
      BY <1>5 DEF Damage, IInv, TypeOK, StoreTypeOK, Records
    <3> QED BY <3>1, <3>2 DEF ShownAlike
  <2> QED BY <1>1, <1>5, <2>1, DeliveredKept, LedgerStutters DEF TasksKept
<1>6. ASSUME NEW stuck \in BOOLEAN, CorruptFile(stuck),
             discarded' = discarded \cup {m \in Messages : Present(m)}
      PROVE  \E S \in SUBSET Messages : Ledger!Discard(S)
  <2> DEFINE S == {m \in Messages : Present(m)}
  <2>1. /\ \A m \in S : outbox[m].status # "absent"
        /\ \A m \in Messages \ S : outbox[m].status = "absent"
    BY DEF Present
  <2>2. \A m \in Messages : outbox'[m].status = "absent"
    BY <1>6, NoRecordFields DEF CorruptFile
  <2>3. S \in SUBSET Messages /\ discarded' = discarded \cup S
    BY <1>6
  <2> HIDE DEF S
  <2>4. \A m \in Messages \ S : ShownAlike(m)
    BY <2>1, <2>2 DEF ShownAlike
  <2>5. Ledger!Discard(S)
    BY <1>1, <2>1, <2>2, <2>3, <2>4, Discards
  <2> QED BY <2>3, <2>5
<1> QED BY <1>3, <1>4, <1>5, <1>6 DEF Corrupt

\* Every step of the system is a step of the ledger, or shows nothing there.
LEMMA NextRefines ==
  ASSUME IInv, JInv, [Next]_vars
  PROVE  [Ledger!Next]_(Ledger!ledgerVars)
<1>1. CASE Dispatching
  BY <1>1, RecordRefines, SendersRefine DEF Dispatching, Ledger!Next
<1>2. CASE Producing
  BY <1>2, ProducersRefine DEF Producing
<1>3. CASE HandleStatus
  <2>1. CASE Accepting
    BY <2>1, TakeAnswerRefines, HiddenRefines DEF Accepting, Ledger!Next
  <2>2. CASE ~Accepting
    BY <1>3, <2>2, BusRefines DEF HandleStatus
  <2> QED BY <2>1, <2>2
<1>4. CASE Sending
  BY <1>4, DrainRefines, BusRefines DEF Sending, Ledger!Next
<1>5. CASE Finalizing
  BY <1>5, RunJobRefines DEF Finalizing, Ledger!Next
<1>6. CASE \E r \in Retriers : Retrying(r)
  BY <1>6, HiddenRefines, NewTasksRefine, SendersRefine DEF Retrying
<1>7. CASE Environment
  <2>1. CASE Connect \/ Disconnect \/ \E r \in Retriers, m \in Messages : Click(r, m)
    BY <2>1, BusRefines
  <2>2. CASE \E m \in Messages : Receive(m)
    BY <2>2, NewTasksRefine
  <2>3. CASE \/ \E m \in Messages : AgeOut(m)
             \/ \E m \in Messages, ok \in BOOLEAN : Delete(m, ok)
             \/ Corrupt
    BY <2>3, LossRefines DEF Ledger!Next
  <2>4. CASE \E ok \in BOOLEAN : Restart(ok)
    BY <2>4, RestartRefines
  <2> QED BY <1>7, <2>1, <2>2, <2>3, <2>4 DEF Environment
<1>8. CASE UNCHANGED vars
  BY <1>8, NothingShown DEF vars, storeVars, turnVars, linkVars, TasksKept
<1> QED BY <1>1, <1>2, <1>3, <1>4, <1>5, <1>6, <1>7, <1>8 DEF Next

\* The outbox implements the ledger: through lost writes, late and repeated
\* statuses, retries, disconnections and crashes no accepted turn is forgotten,
\* none is reopened once answered, and an entry leaves the ledger only when its
\* answer reached a socket or somebody discarded it.
THEOREM OutboxImplementsLedger == Spec => LedgerSpec
<1>1. Init => Ledger!Init
  <2> SUFFICES ASSUME Init
               PROVE  Ledger!Init
    OBVIOUS
  <2>1. \A m \in Messages : outbox[m].status = "absent"
    BY NoRecordFields DEF Init, StoreInit
  <2>2. DeliveredMessages = {} /\ discarded = {}
    BY DEF Init, DeliveredMessages
  <2>3. \A m \in Messages : LedgerOf(m) = "none"
    BY <2>1, <2>2, Entry
  <2> QED BY <2>2, <2>3 DEF Ledger!Init
<1>2. IInv /\ JInv /\ [Next]_vars => [Ledger!Next]_(Ledger!ledgerVars)
  BY NextRefines
<1> QED BY <1>1, <1>2, WorkInvariance, PTL DEF Spec, LedgerSpec, Ledger!Spec
=============================================================================
