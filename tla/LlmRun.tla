-------------------------------- MODULE LlmRun --------------------------------
(* One generation request: LLMRequestRunner.run walks a chain of presets and  *)
(* makes up to max_attempts provider calls on each, every call in the LLM_HTTP *)
(* pool (DaemonPool) under a deadline.  An attempt that misses its deadline is *)
(* cancelled, given a short grace, and its worker is given up; whether another *)
(* attempt may follow is read from what the provider has recorded of its      *)
(* response.  All attempts of a run write to one stream of events.            *)
(* The provider itself (handlers/llm_providers) is modelled by the order in    *)
(* which it records, checks the token and emits; it may hang at any point.    *)
EXTENDS DaemonPool

CONSTANTS Runs,         \* requests, each in a thread of the generation pool
          Plans,        \* what the runs may be asked to do, see Plan
          Cancellable,  \* the runs that were given a CancellationToken
          ClosePlans    \* bound: the plans under which the program is shut down

\* A run walks its chain of presets, with up to max_attempts calls on each, and
\* its provider answers in one of three ways: "chat" and "responses" are
\* streams of the two adapters, "json" is one body.
Plan == [presets : Nat, attempts : Nat \ {0}, wire : {"chat", "responses", "json"}]

ASSUME RunAssumption ==
  /\ Plans \subseteq [Runs -> Plan]
  /\ Cancellable \subseteq Runs /\ ClosePlans \subseteq Plans
  /\ \A plan \in Plans, r \in Runs :
       {r} \X (1 .. plan[r].presets) \X (1 .. plan[r].attempts) \subseteq Calls
  /\ \A c \in Calls : c[1] \in Runs

VARIABLES
  todo,        \* the plan of each run
  pc,          \* where the thread of each run is
  preset,      \* position in the chain
  attempt,     \* attempt on that preset
  operation,   \* the CancellationToken of the run: "live", "cancelled" or "spread"
  token,       \* the calls whose RequestCancellation is set
  abortChain,  \* _abort_chain
  shutdown,    \* _shutdown_event of the runner
  headers,     \* calls that recorded response headers
  body,        \* calls that recorded the start of the response body
  checked,     \* calls between their look at the token and what they emit
  heard        \* the calls each run's stream carries events of

runVars == <<pc, preset, attempt, operation, token, abortChain, shutdown>>
callVars == <<headers, body, checked, heard>>
vars == <<todo, poolVars, runVars, callVars>>

Call(r) == <<r, preset[r], attempt[r]>>
Wire(c) == todo[c[1]].wire
CallsOf(r) == {c \in Calls : c[1] = r}
Over == {"answered", "failed", "cancelled"}

TypeOK ==
  /\ PoolTypeOK
  /\ pc \in [Runs -> {"attempt", "reserve", "submit", "wait", "abort", "grace",
                      "giveUp", "handover", "timedOut", "delay", "rebuild", "next"} \cup Over]
  /\ todo \in Plans
  /\ \A r \in Runs : preset[r] \in 0 .. todo[r].presets /\ attempt[r] \in 1 .. todo[r].attempts
  /\ operation \in [Runs -> {"live", "cancelled", "spread"}]
  /\ token \subseteq Calls
  /\ abortChain \in [Runs -> BOOLEAN] /\ shutdown \in BOOLEAN
  /\ headers \subseteq Calls /\ body \subseteq Calls /\ checked \subseteq Calls
  /\ heard \in [Runs -> SUBSET Calls]

Init ==
  /\ PoolInit
  /\ todo \in Plans
  /\ pc = [r \in Runs |-> "next"]
  /\ preset = [r \in Runs |-> 0] /\ attempt = [r \in Runs |-> 1]
  /\ operation = [r \in Runs |-> "live"]
  /\ token = {}
  /\ abortChain = [r \in Runs |-> FALSE] /\ shutdown = FALSE
  /\ headers = {} /\ body = {} /\ checked = {}
  /\ heard = [r \in Runs |-> {}]

Goto(r, place) == pc' = [pc EXCEPT ![r] = place]
Cancelled(r) == operation[r] # "live"

-----------------------------------------------------------------------------
(* The run: run and _run_on_preset.                                         *)

\* The error of an attempt and where it leads: another attempt while one is left
\* and the error is retryable, else the end of the preset.
FailAttempt(r, kind) ==
  Goto(r, IF attempt[r] < todo[r].attempts /\ kind = "transient" THEN "delay" ELSE "next")

\* raise_if_cancelled at the head of run, of every preset and of every attempt
StopCancelled(r) ==
  /\ pc[r] = "attempt" /\ Cancelled(r)
  /\ Goto(r, "cancelled")
  /\ UNCHANGED <<todo, poolVars, preset, attempt, operation, token, abortChain, shutdown, callVars>>

\* The request is built and gets a token, a child of the operation's: a child of
\* a cancelled token is cancelled at once.
StartAttempt(r) ==
  /\ pc[r] = "attempt" /\ ~Cancelled(r)
  /\ Goto(r, "reserve")
  /\ UNCHANGED <<todo, poolVars, preset, attempt, operation, token, abortChain, shutdown, callVars>>

\* build_request fails: another attempt follows after a delay, whatever the error
BuildFails(r) ==
  /\ pc[r] = "attempt" /\ ~Cancelled(r)
  /\ Goto(r, IF attempt[r] < todo[r].attempts THEN "rebuild" ELSE "next")
  /\ UNCHANGED <<todo, poolVars, preset, attempt, operation, token, abortChain, shutdown, callVars>>

\* _validate_request objects: the preset is left, the chain goes on
Invalid(r) ==
  /\ pc[r] = "attempt" /\ ~Cancelled(r)
  /\ Goto(r, "next")
  /\ UNCHANGED <<todo, poolVars, preset, attempt, operation, token, abortChain, shutdown, callVars>>

\* The delay before another attempt: the runner is closed, the operation is
\* cancelled, or the time is over.  Before another build nobody looks at the token.
Delay(r) ==
  /\ pc[r] \in {"delay", "rebuild"}
  /\ IF pc[r] = "delay" /\ Cancelled(r)
     THEN Goto(r, "cancelled") /\ UNCHANGED <<attempt, abortChain>>
     ELSE IF shutdown
     THEN Goto(r, "next") /\ abortChain' = [abortChain EXCEPT ![r] = TRUE] /\ UNCHANGED attempt
     ELSE Goto(r, "attempt") /\ attempt' = [attempt EXCEPT ![r] = @ + 1] /\ UNCHANGED abortChain
  /\ UNCHANGED <<todo, poolVars, preset, operation, token, shutdown, callVars>>

\* The first preset of the chain, the next one after a preset that gave no
\* answer, or the end of the run.
NextPreset(r) ==
  /\ pc[r] = "next"
  /\ LET atEnd == abortChain[r] \/ preset[r] = todo[r].presets
     IN \/ /\ Cancelled(r) /\ (preset[r] = 0 \/ ~atEnd)
           /\ Goto(r, "cancelled") /\ UNCHANGED <<preset, attempt>>
        \/ /\ atEnd /\ ~(Cancelled(r) /\ preset[r] = 0)
           /\ Goto(r, "failed") /\ UNCHANGED <<preset, attempt>>
        \/ /\ ~atEnd /\ ~Cancelled(r)
           /\ preset' = [preset EXCEPT ![r] = @ + 1]
           /\ attempt' = [attempt EXCEPT ![r] = 1]
           /\ Goto(r, "attempt")
  /\ UNCHANGED <<todo, poolVars, operation, token, abortChain, shutdown, callVars>>

-----------------------------------------------------------------------------
(* One attempt: _call_with_timeout, _cancel_future and _abort_future.       *)

\* RequestCancellation(operation_cancellation), then try_submit takes a slot
TakeSlot(r) ==
  /\ pc[r] = "reserve"
  /\ token' = IF Cancelled(r) THEN token \cup {Call(r)} ELSE token
  /\ Reserve(Call(r)) /\ Goto(r, "submit")
  /\ UNCHANGED <<todo, preset, attempt, operation, abortChain, shutdown, callVars>>

\* the pool is saturated: a RuntimeError, not retryable on this preset
NoSlot(r) ==
  /\ pc[r] = "reserve"
  /\ Saturated(Call(r))
  /\ IF Cancelled(r) THEN Goto(r, "cancelled") ELSE FailAttempt(r, "fatal")
  /\ UNCHANGED <<todo, preset, attempt, operation, token, abortChain, shutdown, callVars>>

Submit(r) ==
  /\ pc[r] = "submit"
  /\ \/ Enqueue(Call(r)) /\ UNCHANGED pc
     \/ Record(Call(r)) /\ Goto(r, "wait")
  /\ UNCHANGED <<todo, preset, attempt, operation, token, abortChain, shutdown, callVars>>

\* the poll finds the call ended; a response of no use, with an error_message or
\* nothing in it, fails the attempt as an exception does
Collect(r) ==
  /\ pc[r] = "wait" /\ future[Call(r)] \in Final
  /\ IF Cancelled(r)
     THEN Goto(r, "cancelled") /\ UNCHANGED abortChain
     ELSE CASE future[Call(r)] = "answer" ->
                 Goto(r, "answered") /\ UNCHANGED abortChain
          [] future[Call(r)] # "answer" /\ todo[r].wire # "json" /\ Call(r) \in body ->
                 FailAttempt(r, "fatal") /\ abortChain' = [abortChain EXCEPT ![r] = TRUE]
          [] OTHER ->
                 /\ \E kind \in {"transient", "fatal"} :
                      (future[Call(r)] # "error" => kind = "fatal") /\ FailAttempt(r, kind)
                 /\ UNCHANGED abortChain
  /\ UNCHANGED <<todo, poolVars, preset, attempt, operation, token, shutdown, callVars>>

\* the poll finds the token set by a cancelled operation: _cancel_future
FindCancelled(r) ==
  /\ pc[r] = "wait" /\ Call(r) \in token
  /\ Goto(r, "abort")
  /\ UNCHANGED <<todo, poolVars, preset, attempt, operation, token, abortChain, shutdown, callVars>>

\* the deadline of the attempt, or of its stream, is over: _abort_future
Deadline(r) ==
  /\ pc[r] = "wait"
  /\ token' = token \cup {Call(r)}
  /\ Goto(r, "abort")
  /\ UNCHANGED <<todo, poolVars, preset, attempt, operation, abortChain, shutdown, callVars>>

\* future.cancel()
Abort(r) ==
  /\ pc[r] = "abort" /\ Goto(r, "grace")
  /\ IF future[Call(r)] = "pending" THEN CancelFuture(Call(r)) ELSE UNCHANGED poolVars
  /\ UNCHANGED <<todo, preset, attempt, operation, token, abortChain, shutdown, callVars>>

GraceSatOut(r) ==   \* mutant: the caller sits the request out before it goes on
  /\ pc[r] = "grace"
  /\ future[Call(r)] \in Final /\ Goto(r, "timedOut")
  /\ UNCHANGED <<todo, poolVars, preset, attempt, operation, token, abortChain, shutdown, callVars>>

\* The grace is over (a cancelled operation gives none).  A result that came
\* within it is thrown away.  future.cancel() has run the callbacks.
Grace(r) ==
  /\ pc[r] = "grace"
  /\ future[Call(r)] = "cancelled" => Call(r) \in released
  /\ Goto(r, IF future[Call(r)] \in Final THEN "timedOut" ELSE "giveUp")
  /\ UNCHANGED <<todo, poolVars, preset, attempt, operation, token, abortChain, shutdown, callVars>>

\* pool.abandon is tried once; it may be refused
GiveUp(r) ==
  /\ pc[r] = "giveUp"
  /\ \/ Retire(Call(r)) /\ Goto(r, "handover")
     \/ ~CanRetire(Call(r)) /\ UNCHANGED poolVars /\ Goto(r, "timedOut")
  /\ UNCHANGED <<todo, preset, attempt, operation, token, abortChain, shutdown, callVars>>

HandOver(r) ==
  /\ pc[r] = "handover"
  /\ \/ (Replace(Call(r)) \/ ReplaceFails(Call(r))) /\ UNCHANGED pc
     \/ (Unretire(Call(r)) \/ GiveBack(Call(r))) /\ Goto(r, "timedOut")
  /\ UNCHANGED <<todo, preset, attempt, operation, token, abortChain, shutdown, callVars>>

\* Has the provider begun to answer?
Answering(r) == Call(r) \in IF todo[r].wire = "json" THEN headers ELSE body

\* the TimeoutError of _abort_future in _run_on_preset
TimedOut(r) ==
  /\ pc[r] = "timedOut"
  /\ IF Cancelled(r)
     THEN Goto(r, "cancelled") /\ UNCHANGED abortChain
     ELSE /\ FailAttempt(r, IF Answering(r) THEN "fatal" ELSE "transient")
          /\ abortChain' = [abortChain EXCEPT ![r] = Answering(r)]
  /\ UNCHANGED <<todo, poolVars, preset, attempt, operation, token, shutdown, callVars>>

-----------------------------------------------------------------------------
(* The operation is cancelled by its owner: the parent token is set first,   *)
(* its callbacks set the tokens of the attempts after that.                  *)

CancelOperation(r) ==
  /\ r \in Cancellable /\ operation[r] = "live" /\ pc[r] \notin Over
  /\ operation' = [operation EXCEPT ![r] = "cancelled"]
  /\ UNCHANGED <<todo, poolVars, pc, preset, attempt, token, abortChain, shutdown, callVars>>

SpreadCancel(r) ==
  /\ operation[r] = "cancelled"
  /\ operation' = [operation EXCEPT ![r] = "spread"]
  /\ token' = token \cup {c \in CallsOf(r) : admission[c] # "new"}
  /\ UNCHANGED <<todo, poolVars, pc, preset, attempt, abortChain, shutdown, callVars>>

\* LLMRequestRunner.close
CloseRunner ==
  /\ todo \in ClosePlans /\ ~shutdown /\ shutdown' = TRUE
  /\ UNCHANGED <<todo, poolVars, pc, preset, attempt, operation, token, abortChain, callVars>>

-----------------------------------------------------------------------------
(* The provider, inside the worker that serves the call.                    *)

Calling(t) == worker[t] = "calling"

\* record_response_headers_received: read only of a provider that does not stream
GetHeaders(t) ==
  /\ Calling(t) /\ serves[t] \notin headers /\ Wire(serves[t]) = "json"
  /\ headers' = headers \cup {serves[t]}
  /\ UNCHANGED <<todo, poolVars, runVars, body, checked, heard>>

\* A chunk has arrived: the chat and Gemini readers record it before they look at
\* the token, the Responses reader looks first.
RecordBody(t) ==
  /\ Calling(t) /\ serves[t] \notin body
  /\ Wire(serves[t]) = "chat" \/ serves[t] \in checked
  /\ body' = body \cup {serves[t]}
  /\ UNCHANGED <<todo, poolVars, runVars, headers, checked, heard>>

CheckFirst(t) ==   \* mutant: the token is looked at before the chunk is recorded
  /\ Calling(t) /\ serves[t] \notin token \cup checked
  /\ Wire(serves[t]) \in {"chat", "responses"}
  /\ checked' = checked \cup {serves[t]}
  /\ UNCHANGED <<todo, poolVars, runVars, headers, body, heard>>

\* check_request_cancelled: a call whose token is set raises (EndCall)
Check(t) ==
  /\ Calling(t) /\ serves[t] \notin token \cup checked
  /\ \/ Wire(serves[t]) = "chat" /\ serves[t] \in body
     \/ Wire(serves[t]) = "responses"
  /\ checked' = checked \cup {serves[t]}
  /\ UNCHANGED <<todo, poolVars, runVars, headers, body, heard>>

\* StreamAccumulator.emit into the channel of the run, unless it was completed
Emit(t) ==
  /\ Calling(t) /\ serves[t] \in checked \cap body
  /\ LET r == serves[t][1]
     IN /\ pc[r] \notin {"answered", "failed"}
        /\ heard' = [heard EXCEPT ![r] = @ \cup {serves[t]}]
  /\ checked' = checked \ {serves[t]}
  /\ UNCHANGED <<todo, poolVars, runVars, headers, body>>

\* The call ends: with a usable answer, or at any point with an exception or a
\* response that is none.
ProviderEnds(t) ==
  /\ Calling(t)
  /\ \E result \in {"answer", "error"} :
       /\ result = "answer" =>
            serves[t] \in (IF Wire(serves[t]) = "json" THEN headers ELSE body) \ token
       /\ EndCall(t, result)
  /\ checked' = checked \ {serves[t]}
  /\ UNCHANGED <<todo, runVars, headers, body, heard>>

-----------------------------------------------------------------------------
RunStep(r) ==
  \/ StopCancelled(r) \/ StartAttempt(r) \/ BuildFails(r) \/ Invalid(r)
  \/ Delay(r) \/ NextPreset(r) \/ TakeSlot(r) \/ NoSlot(r) \/ Submit(r) \/ Collect(r)
  \/ FindCancelled(r) \/ Deadline(r) \/ Abort(r) \/ Grace(r) \/ GiveUp(r) \/ HandOver(r)
  \/ TimedOut(r)

Provider(t) == GetHeaders(t) \/ RecordBody(t) \/ Check(t) \/ Emit(t) \/ ProviderEnds(t)

Pool == PoolStep /\ UNCHANGED <<todo, runVars, callVars>>

CloseExecutor == todo \in ClosePlans /\ Close /\ UNCHANGED <<todo, runVars, callVars>>

Next ==
  \/ \E r \in Runs : RunStep(r) \/ CancelOperation(r) \/ SpreadCancel(r)
  \/ \E t \in Workers : Provider(t)
  \/ CloseRunner \/ Pool \/ CloseExecutor

Spec == Init /\ [][Next]_vars

(* Threads are scheduled and deadlines pass: the program is not idle for ever *)
(* while a run or the pool has a step to take.  Only finitely many such steps  *)
(* are left in any state, so nothing is said of which is taken.  A provider may *)
(* hang for ever, an operation need not be cancelled, nothing need be closed.   *)
OwnStep == Pool \/ \E r \in Runs : RunStep(r) \/ SpreadCancel(r)

FairSpec == Spec /\ WF_vars(OwnStep)

-----------------------------------------------------------------------------
(* Properties.                                                              *)

\* The stream of a run carries the events of one provider call, and if the run
\* has an answer, of the call that gave it: a fallback or a retry never writes
\* after an attempt the player has already heard something of.  It rests on the
\* order of four steps in two threads: the reader records a chunk and then looks
\* at the token, the runner sets the token and then looks for the record.
\* (The Responses reader has its two steps the other way round.)
OneSource ==
  \A r \in Runs : todo[r].wire = "chat" =>
    /\ Cardinality(heard[r]) <= 1
    /\ pc[r] = "answered" => heard[r] \subseteq {Call(r)}

\* Every run ends, although a provider may hang for ever at any point, the pool
\* may be full of hung calls and the executor may be closed.
RunsEnd == <>(\A r \in Runs : pc[r] \in Over)

\* The books of the pool: the types, the slots in use counted exactly (InflightExact),
\* and no more and no fewer threads than given up and started ones account for
\* (ThreadsBounded, WorkersKept).
PoolInv == TypeOK /\ InflightExact /\ ThreadsBounded /\ WorkersKept
=============================================================================
