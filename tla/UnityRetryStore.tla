--------------------------- MODULE UnityRetryStore ---------------------------
(***************************************************************************)
(* The durable outbox of player turns that came from the game              *)
(* (managers/unity_retry_store.py), for one character.                     *)
(*                                                                         *)
(* Every operation of the class runs under one re-entrant lock and writes   *)
(* the whole file through a temporary and os.replace, so an operation is    *)
(* one atomic step.  Its write may fail: the file then keeps its old        *)
(* contents and the operation reports failure.  `ok' is the outcome of the  *)
(* write.  An operation that finds no matching record writes nothing.       *)
(***************************************************************************)
EXTENDS Naturals, FiniteSets

CONSTANTS Messages,    \* message ids of player turns
          Tasks,       \* task uids
          NoTask,      \* the empty active_task_uid
          MaxRecords   \* UnityRetryStore.MAX_RECORDS

ASSUME StoreAssumption == /\ NoTask \notin Tasks
                          /\ MaxRecords \in Nat

VARIABLES outbox,      \* the records of the file, by message id
          tombstones,  \* _delivered_in_process
          blocked      \* the path is in _unreadable_paths: writes are refused

storeVars == <<outbox, tombstones, blocked>>

Retryable == {"needs_generation", "generated_pending_delivery"}
Statuses  == Retryable \cup
             {"absent", "generating", "generated_pending_voiceover",
              "delivery_retrying", "unretryable"}

\* answer says that item["result"] holds a response text.
Records == [status : Statuses, task : Tasks \cup {NoTask},
            from : Retryable, answer : BOOLEAN]

NoRecord == [status |-> "absent", task |-> NoTask,
             from |-> "needs_generation", answer |-> FALSE]

Present(m)   == outbox[m].status # "absent"
Owns(m, t)   == Present(m) /\ outbox[m].task = t
CanWrite(ok) == ok => ~blocked

StoreTypeOK == /\ outbox \in [Messages -> Records]
               /\ tombstones \subseteq Messages
               /\ blocked \in BOOLEAN

StoreInit == /\ outbox = [m \in Messages |-> NoRecord]
             /\ tombstones = {}
             /\ blocked = FALSE

\* _write: replace the record of m, or leave the file as it was.
Write(m, record, ok) ==
  /\ CanWrite(ok)
  /\ outbox' = IF ok THEN [outbox EXCEPT ![m] = record] ELSE outbox

-----------------------------------------------------------------------------
Full == Cardinality({m \in Messages : Present(m)}) >= MaxRecords

\* add: a known message id or a full outbox stores nothing.
Add(m, t, ok) ==
  /\ IF Present(m) \/ Full
     THEN CanWrite(ok) /\ UNCHANGED outbox
     ELSE Write(m, [NoRecord EXCEPT !.status = "generating", !.task = t], ok)
  /\ UNCHANGED <<tombstones, blocked>>

\* transition, with the fence on active_task_uid its callers pass.
AcceptsAnyTask(m, expected, t) == outbox[m].status \in expected   \* mutant
Accepts(m, expected, t) == outbox[m].status \in expected /\ outbox[m].task = t

Answered(m, status, ok) ==
  /\ Write(m, [outbox[m] EXCEPT !.status = status, !.answer = TRUE], ok)
  /\ UNCHANGED <<tombstones, blocked>>

\* mark_voiceover_failed on a record that Accepts it.
VoiceoverFailed(m, ok) ==
  /\ Write(m, [outbox[m] EXCEPT !.status = "generated_pending_delivery"], ok)
  /\ UNCHANGED <<tombstones, blocked>>

IsSupersededAttempt(m, t) ==
  \/ m \in tombstones
  \/ Present(m) /\ outbox[m].task \notin {NoTask, t}

ClaimableAtAnyStatus(m) == m \notin tombstones /\ Present(m)   \* mutant
Claimable(m) == m \notin tombstones /\ outbox[m].status \in Retryable

ClaimedStatus(from) == IF from = "needs_generation" THEN "generating"
                                                    ELSE "delivery_retrying"

Claim(m, ok) ==
  /\ Claimable(m)
  /\ Write(m, [outbox[m] EXCEPT !.status = ClaimedStatus(outbox[m].status),
                                !.from = outbox[m].status,
                                !.task = NoTask], ok)
  /\ UNCHANGED <<tombstones, blocked>>

\* set_active_task: whatever the status of the record is.
SetActiveTask(m, t, ok) ==
  /\ Present(m)
  /\ Write(m, [outbox[m] EXCEPT !.task = t], ok)
  /\ UNCHANGED <<tombstones, blocked>>

\* The transition of ChatController._release_unity_retry_claim: no fence.
ReleasableIfGenerating(m) == outbox[m].status = "generating"   \* mutant
Releasable(m) == outbox[m].status \in {"generating", "delivery_retrying"}

ReleaseToGeneration(m, from, ok) ==   \* mutant: the claimed status is ignored
  /\ IF Releasable(m)
     THEN Write(m, [outbox[m] EXCEPT !.status = "needs_generation", !.task = NoTask], ok)
     ELSE CanWrite(ok) /\ UNCHANGED outbox
  /\ UNCHANGED <<tombstones, blocked>>

ReleaseClaim(m, from, ok) ==
  /\ IF Releasable(m)
     THEN Write(m, [outbox[m] EXCEPT !.status = from, !.task = NoTask], ok)
     ELSE CanWrite(ok) /\ UNCHANGED outbox
  /\ UNCHANGED <<tombstones, blocked>>

\* finish_failed_attempt pops claimed_from_status; absent, it reads as
\* needs_generation.
FinishFailedAttempt(m, t, ok) ==
  /\ IF Owns(m, t)
     THEN Write(m, [outbox[m] EXCEPT
                      !.status = IF \/ outbox[m].from = "generated_pending_delivery"
                                    \/ outbox[m].answer
                                 THEN "generated_pending_delivery"
                                 ELSE "needs_generation",
                      !.task = NoTask,
                      !.from = "needs_generation"], ok)
     ELSE CanWrite(ok) /\ UNCHANGED outbox
  /\ UNCHANGED <<tombstones, blocked>>

Retains(m, t) == Owns(m, t) /\ outbox[m].answer

DropUndelivered(m, t, ok) ==   \* mutant: an undelivered answer is forgotten
  /\ IF Retains(m, t) THEN Write(m, NoRecord, ok) ELSE CanWrite(ok) /\ UNCHANGED outbox
  /\ UNCHANGED <<tombstones, blocked>>

MarkDeliveryFailed(m, t, ok) ==
  /\ IF Retains(m, t)
     THEN Write(m, [outbox[m] EXCEPT !.status = "generated_pending_delivery"], ok)
     ELSE CanWrite(ok) /\ UNCHANGED outbox
  /\ UNCHANGED <<tombstones, blocked>>

\* complete_delivery: the tombstone is set even when the write fails.
CompleteDelivery(m, t, ok) ==
  /\ IF Owns(m, t)
     THEN /\ Write(m, NoRecord, ok)
          /\ tombstones' = tombstones \cup {m}
     ELSE CanWrite(ok) /\ UNCHANGED <<outbox, tombstones>>
  /\ UNCHANGED blocked

Remove(m, ok) ==
  /\ Present(m)
  /\ Write(m, NoRecord, ok)
  /\ UNCHANGED <<tombstones, blocked>>

-----------------------------------------------------------------------------
\* recover_interrupted_attempts, run once by the next process: every record
\* of the file is of an earlier session.
Recovered(r) ==
  CASE r.status = "generating" ->
         [r EXCEPT !.status = "needs_generation", !.task = NoTask]
    [] r.status \in {"delivery_retrying", "generated_pending_voiceover"} ->
         [r EXCEPT !.status = "generated_pending_delivery", !.task = NoTask]
    [] OTHER -> r

RecoverInterruptedAttempts(ok) ==
  /\ outbox' = IF ok THEN [m \in Messages |-> Recovered(outbox[m])] ELSE outbox
  /\ tombstones' = {}
  /\ blocked' \in {FALSE, blocked}   \* the file may still not be movable

-----------------------------------------------------------------------------
\* What the disk and the clock do to the file; each read sees it at once.

\* _prune: a record older than MAX_AGE_SECONDS is dropped by every read.
Expire(m) == /\ Present(m)
             /\ outbox' = [outbox EXCEPT ![m] = NoRecord]
             /\ UNCHANGED <<tombstones, blocked>>

\* A stored image that no longer decodes: reads see "unretryable".
Damage(m) == /\ Present(m)
             /\ outbox[m].status # "unretryable"
             /\ outbox' = [outbox EXCEPT ![m].status = "unretryable"]
             /\ UNCHANGED <<tombstones, blocked>>

\* _read of a file that is not JSON: it is moved aside, or, if it cannot be,
\* left where it is and never written again by this process.
CorruptFile(stuck) == /\ \E m \in Messages : Present(m)
                      /\ outbox' = [m \in Messages |-> NoRecord]
                      /\ blocked' = (blocked \/ stuck)
                      /\ UNCHANGED tombstones
=============================================================================
