-------------------------- MODULE RuntimeSwitchProofs --------------------------
(* Proofs about RuntimeSwitch, for any operations, calls and workers and any  *)
(* plan of crashes, survivals and shutdown: no process is left behind, there  *)
(* is a worker outside the windows, a session is quiet, and no call is        *)
(* refused because of a change of the runtime that it was not told of.        *)
EXTENDS RuntimeSwitch, TLAPS

PlanRecord == [kinds : [Operations -> Kinds], crashes : Nat, survivals : Nat,
               exit : BOOLEAN, calls : SUBSET Calls]

\* An operation that has the lock.
Critical(o) == \/ op[o].pc \in {"stop", "kill", "spawn", "validate", "publish", "drop",
                                "rollback", "restore", "end"}
               \/ op[o].pc = "inside" /\ plan.kinds[o] = "session"

Gone(w) == w \in alive => w \in survivors

\* The workers an operation holds; while it has the lock nobody else publishes one.
Holds(o) ==
  /\ op[o].pc \in {"idle", "want", "inside", "over"} => op[o].prev = Nobody /\ op[o].cand = Nobody
  /\ op[o].pc \in {"stop", "kill"} => op[o].prev \in Workers /\ op[o].cand = Nobody
  /\ op[o].pc = "spawn" => op[o].cand = Nobody
  /\ op[o].pc \in {"validate", "publish", "drop", "restore"} => op[o].cand \in Workers
  /\ Critical(o) /\ op[o].pc # "end" => published \in {op[o].prev, Nobody}
  /\ op[o].pc \in {"spawn", "validate", "publish", "drop", "rollback", "restore", "end"} =>
       Gone(op[o].prev)
  /\ op[o].pc = "rollback" => Gone(op[o].cand)
  /\ op[o].pc = "end" => Gone(op[o].cand) \/ published = op[o].cand

\* What the window of an operation promises.
Excludes(o) ==
  /\ Critical(o) => lock = o /\ gate.active
  /\ plan.kinds[o] = "session" /\ Critical(o) => ~gate.waitable
  /\ plan.kinds[o] = "switch" /\ Critical(o) => published # Nobody \/ ShuttingDown

\* The recovery, of a worker that is dead and was seen to be.
Recovering ==
  /\ rec.pc # "idle" => rec.prev \in noticed \ alive
  /\ rec.pc \in {"idle", "want", "delay"} => rec.cand = Nobody
  /\ rec.pc = "validate" => rec.cand \in Workers
  /\ rec.pc \in {"delay", "validate"} => lock = "recovery" /\ attempts < MaxAttempts

DownMeans == Gone(down.prev) \/ published = down.prev

\* A worker and the epoch it was given in: in the same epoch it is the published one
\* still, or has crashed.
Given(w, e) == /\ e <= epoch
               /\ e = epoch => ~gate.active /\ (w = published \/ w \in noticed \/ ShuttingDown)

CallsGiven ==
  /\ \A r \in Calls : call[r].pc = "admitted" => Given(call[r].worker, call[r].epoch)
  /\ dispatch.pc = "call" => Given(dispatch.worker, dispatch.epoch)
  /\ dispatch.pc # "idle" => dispatch.call \in Calls

WInv == /\ \A o \in Operations : Holds(o) /\ Excludes(o)
        /\ Recovering /\ DownMeans /\ NoOrphan /\ OpenHasWorker

IInv == TypeOK /\ plan \in PlanRecord /\ WInv /\ CallsGiven

-----------------------------------------------------------------------------
(* The state, in parts.                                                       *)

OpRecord == [pc : {"idle", "want", "stop", "kill", "spawn", "validate", "publish", "drop",
                   "rollback", "restore", "end", "inside", "over"},
             prev : Workers \cup {Nobody}, cand : Workers \cup {Nobody}]
RecRecord == [pc : {"idle", "want", "delay", "validate"},
              prev : Workers \cup {Nobody}, cand : Workers \cup {Nobody}]
CallPcs == {"new", "admitted", "window", "ensured", "added", "queued", "taken", "pending"} \cup Outcomes
CallRecord == [pc : CallPcs, worker : Workers \cup {Nobody}, epoch : Nat]

WorkerTypes == /\ published \in Workers \cup {Nobody}
               /\ alive \subseteq Workers /\ stopping \subseteq Workers /\ hooked \subseteq Workers
               /\ noticed \subseteq Workers /\ survivors \subseteq Workers
WindowTypes == /\ gate \in [active : BOOLEAN, waitable : BOOLEAN, aborted : BOOLEAN]
               /\ epoch \in Nat
               /\ lock \in Operations \cup {"recovery", Nobody}
ThreadTypes == /\ plan \in PlanRecord
               /\ op \in [Operations -> OpRecord]
               /\ rec \in RecRecord /\ attempts \in 0 .. MaxAttempts /\ ignored \subseteq Workers
               /\ down \in [pc : {"no", "abort", "settle", "close", "stop", "kill", "done"},
                            taken : SUBSET Calls, prev : Workers \cup {Nobody}]
CallTypes == /\ call \in [Calls -> CallRecord]
             /\ deferred \subseteq Calls /\ queue \in Seq(Calls)
             /\ dispatch \in [pc : {"idle", "wait", "admit", "call"}, call : Calls \cup {Nobody},
                              worker : Workers \cup {Nobody}, epoch : Nat]

LEMMA TypeParts ==
  (TypeOK /\ plan \in PlanRecord) <=> (WorkerTypes /\ WindowTypes /\ ThreadTypes /\ CallTypes)
BY DEF TypeOK, WorkerTypes, WindowTypes, ThreadTypes, CallTypes, OpRecord, RecRecord, CallPcs,
       CallRecord

\* The parts of the invariant: the workers and who holds them, and the calls.
WorkersRight == WorkerTypes /\ WindowTypes /\ ThreadTypes /\ WInv
CallsRight == CallTypes /\ CallsGiven

LEMMA InParts == IInv <=> (WorkersRight /\ CallsRight)
BY TypeParts DEF IInv, WorkersRight, CallsRight

LEMMA Names == /\ Nobody \notin Workers /\ Nobody \notin Operations
               /\ Nobody # "recovery" /\ "recovery" \notin Operations
BY SwitchAssumption

-----------------------------------------------------------------------------
(* What steps of the workers do to calls.                                     *)

\* What was true of the worker and the epoch of a call stays true.
Keeps == /\ epoch' \in Nat /\ epoch <= epoch'
         /\ epoch' = epoch /\ ~gate.active =>
              ~gate'.active /\ (published' = published \/ published \in noticed' \/ ShuttingDown')
         /\ \A r \in Calls : call[r].worker \in noticed => call[r].worker \in noticed'
         /\ dispatch.worker \in noticed => dispatch.worker \in noticed'
         /\ ShuttingDown => ShuttingDown'

\* Calls may fail meanwhile.
LEMMA CallsFollow ==
  ASSUME CallsRight, Keeps, epoch \in Nat, UNCHANGED dispatch, queue' \in Seq(Calls),
         call' \in [Calls -> CallRecord], deferred' \subseteq Calls,
         \A r \in Calls : call'[r].pc = "admitted" => call'[r] = call[r]
  PROVE  CallsRight'
<1>1. CallTypes'
  BY DEF CallsRight, CallTypes
<1>2. ASSUME NEW r \in Calls, call'[r].pc = "admitted"
      PROVE  Given(call[r].worker, call[r].epoch)'
  <2>1. call'[r] = call[r] /\ call[r].pc = "admitted" /\ call[r].epoch \in Nat
    BY <1>2 DEF CallsRight, CallTypes, CallRecord
  <2>2. Given(call[r].worker, call[r].epoch)
    BY <2>1 DEF CallsRight, CallsGiven
  <2>3. call[r].epoch <= epoch'
    BY <2>1, <2>2 DEF Keeps, Given
  <2>4. call[r].epoch = epoch' => epoch' = epoch /\ call[r].epoch = epoch
    BY <2>1, <2>2 DEF Keeps, Given
  <2>5. call[r].epoch = epoch' =>
          ~gate'.active /\ (call[r].worker = published' \/ call[r].worker \in noticed' \/ ShuttingDown')
    BY <2>2, <2>4 DEF Keeps, Given
  <2> QED BY <2>1, <2>3, <2>5 DEF Given
<1>3. ASSUME dispatch.pc = "call"
      PROVE  Given(dispatch.worker, dispatch.epoch)'
  <2>1. dispatch' = dispatch /\ dispatch.epoch \in Nat
    BY DEF CallsRight, CallTypes
  <2>2. Given(dispatch.worker, dispatch.epoch)
    BY <1>3 DEF CallsRight, CallsGiven
  <2>3. dispatch.epoch <= epoch'
    BY <2>1, <2>2 DEF Keeps, Given
  <2>4. dispatch.epoch = epoch' => epoch' = epoch /\ dispatch.epoch = epoch
    BY <2>1, <2>2 DEF Keeps, Given
  <2>5. dispatch.epoch = epoch' =>
          ~gate'.active /\ (dispatch.worker = published' \/ dispatch.worker \in noticed' \/ ShuttingDown')
    BY <2>2, <2>4 DEF Keeps, Given
  <2> QED BY <2>1, <2>3, <2>5 DEF Given
<1>4. CallsGiven'
  BY <1>2, <1>3 DEF CallsGiven, CallsRight
<1> QED BY <1>1, <1>4 DEF CallsRight

LEMMA CallsStill ==
  ASSUME CallsRight, Keeps, epoch \in Nat, UNCHANGED callVars
  PROVE  CallsRight'
<1>1. UNCHANGED <<call, deferred, queue, dispatch>>
  BY DEF callVars
<1>2. call' \in [Calls -> CallRecord] /\ deferred' \subseteq Calls /\ queue' \in Seq(Calls)
  BY <1>1 DEF CallsRight, CallTypes
<1> QED BY <1>1, <1>2, CallsFollow

\* The process of a worker ends, and its calls fail.
LEMMA CallsFail ==
  ASSUME CallsRight, Keeps, epoch \in Nat, NEW w, call' = Unanswered(w),
         deferred' \subseteq deferred, UNCHANGED <<queue, dispatch>>
  PROVE  CallsRight'
<1>1. \A r \in Calls : [call[r] EXCEPT !.pc = "failed", !.worker = Nobody] \in CallRecord
                       /\ [call[r] EXCEPT !.pc = "failed", !.worker = Nobody].pc = "failed"
  BY DEF CallsRight, CallTypes, CallRecord, CallPcs, Outcomes
<1>2. call' \in [Calls -> CallRecord]
  BY <1>1 DEF Unanswered, CallsRight, CallTypes
<1>3. \A r \in Calls : call'[r].pc = "admitted" => call'[r] = call[r]
  BY <1>1 DEF Unanswered
<1>4. deferred' \subseteq Calls /\ queue' \in Seq(Calls)
  BY DEF CallsRight, CallTypes
<1> QED BY <1>2, <1>3, <1>4, CallsFollow

-----------------------------------------------------------------------------
(* Who is affected by a step.                                                 *)

\* Without the lock an operation holds no worker, and promises nothing.
LEMMA OthersHold ==
  ASSUME WorkersRight, NEW j \in Operations, lock # j
  PROVE  /\ ~Critical(j) /\ op[j].prev = Nobody /\ op[j].cand = Nobody
         /\ op[j].pc \in {"idle", "want", "inside", "over"}
<1>1. op[j] \in OpRecord
  BY DEF WorkersRight, ThreadTypes
<1>2. ~Critical(j)
  BY DEF WorkersRight, WInv, Excludes
<1>3. op[j].pc \in {"idle", "want", "inside", "over"}
  BY <1>1, <1>2 DEF Critical, OpRecord
<1> QED BY <1>2, <1>3 DEF WorkersRight, WInv, Holds

\* They go on so, whatever happens to the workers.
LEMMA OthersStay ==
  ASSUME WorkersRight, NEW j \in Operations, lock # j, op'[j] = op[j], plan'.kinds = plan.kinds
  PROVE  Holds(j)' /\ Excludes(j)'
<1>1. /\ ~Critical(j) /\ op[j].prev = Nobody /\ op[j].cand = Nobody
      /\ op[j].pc \in {"idle", "want", "inside", "over"}
  BY OthersHold
<1>2. ~Critical(j)'
  BY <1>1 DEF Critical
<1>3. Holds(j)'
  BY <1>1, <1>2 DEF Holds
<1> QED BY <1>2, <1>3 DEF Excludes

\* What an operation with the lock, or one that may take it, has to account for.
LEMMA MyWorkers ==
  ASSUME WorkersRight, NEW o \in Operations, lock \in {o, Nobody}
  PROVE  /\ alive \subseteq {published, op[o].prev, op[o].cand} \cup survivors
         /\ rec.pc \notin {"delay", "validate"} /\ rec.cand = Nobody
         /\ \A j \in Operations : j # o => lock # j
<1>1. \A j \in Operations : j # o => lock # j
  BY Names
<1>2. rec.pc \notin {"delay", "validate"}
  BY Names DEF WorkersRight, WInv, Recovering
<1>3. rec.cand = Nobody
  BY <1>2 DEF WorkersRight, WInv, Recovering, ThreadTypes, RecRecord
<1>4. ASSUME NEW w \in alive
      PROVE  w \in {published, op[o].prev, op[o].cand} \cup survivors
  <2>1. w # Nobody
    BY Names DEF WorkersRight, WorkerTypes
  <2>2. CASE w \in {published, rec.cand} \cup survivors
    BY <1>3, <2>1, <2>2
  <2>3. CASE w = down.prev
    BY <2>3 DEF WorkersRight, WInv, DownMeans, Gone
  <2>4. ASSUME NEW j \in Operations, w \in {op[j].prev, op[j].cand}
        PROVE  w \in {op[o].prev, op[o].cand}
    BY <1>1, <2>1, <2>4, OthersHold
  <2> QED BY <2>2, <2>3, <2>4 DEF WorkersRight, WInv, NoOrphan
<1> QED BY <1>1, <1>2, <1>3, <1>4

\* A step of an operation keeps the invariant when it keeps what is about the operation.
LEMMA OperationStep ==
  ASSUME WorkersRight, NEW o \in Operations, lock \in {o, Nobody}, NEW x \in OpRecord,
         op' = [op EXCEPT ![o] = x], UNCHANGED <<rec, ignored, down>>,
         plan' \in PlanRecord, plan'.kinds = plan.kinds, attempts' \in {0, attempts},
         WorkerTypes', WindowTypes',
         rec.prev \in noticed \ alive => rec.prev \in noticed' \ alive',
         DownMeans', Holds(o)', Excludes(o)',
         alive' \subseteq {published', x.prev, x.cand} \cup survivors', OpenHasWorker'
  PROVE  WorkersRight'
<1>1. op \in [Operations -> OpRecord] /\ attempts \in 0 .. MaxAttempts
  BY DEF WorkersRight, ThreadTypes
<1>2. op'[o] = x /\ \A j \in Operations : j # o => op'[j] = op[j]
  BY <1>1
<1>3. ThreadTypes'
  <2>1. op' \in [Operations -> OpRecord] /\ attempts' \in 0 .. MaxAttempts
    BY <1>1, SwitchAssumption
  <2> QED BY <2>1 DEF WorkersRight, ThreadTypes
<1>4. \A j \in Operations : Holds(j)' /\ Excludes(j)'
  BY <1>2, MyWorkers, OthersStay
<1>5. Recovering'
  <2>1. rec.pc \notin {"delay", "validate"}
    BY MyWorkers
  <2> QED BY <2>1 DEF WorkersRight, WInv, Recovering
<1>6. NoOrphan'
  <2>1. x.prev \in {op'[j].prev : j \in Operations} /\ x.cand \in {op'[j].cand : j \in Operations}
    BY <1>2
  <2> QED BY <2>1 DEF NoOrphan
<1>7. WInv'
  BY <1>4, <1>5, <1>6 DEF WInv
<1> QED BY <1>3, <1>7 DEF WorkersRight

\* A process may end, and shutdown may take the published worker, at any moment.
Fades == /\ UNCHANGED <<epoch, lock, op>>
         /\ plan' \in PlanRecord /\ plan'.kinds = plan.kinds
         /\ gate'.active = gate.active /\ gate'.waitable = gate.waitable
         /\ alive' \subseteq alive /\ survivors \subseteq survivors'
         /\ ShuttingDown => ShuttingDown'
         /\ \/ published' = published
            \/ published' = Nobody /\ ShuttingDown' /\ (published \in alive' => published \in survivors')

LEMMA OperationsFade ==
  ASSUME WorkersRight, Fades, NEW o \in Operations
  PROVE  Holds(o)' /\ Excludes(o)'
<1>1. Critical(o)' <=> Critical(o)
  BY DEF Fades, Critical
<1>2. \A w : Gone(w) => (w \in alive' => w \in survivors')
  BY DEF Gone, Fades
<1>3. Excludes(o)'
  BY <1>1 DEF Fades, WorkersRight, WInv, Excludes
<1>4. op[o].pc \in {"spawn", "validate", "publish", "drop", "rollback", "restore", "end"} =>
        (op[o].prev \in alive' => op[o].prev \in survivors')
  BY <1>2 DEF WorkersRight, WInv, Holds
<1>5. op[o].pc = "rollback" => (op[o].cand \in alive' => op[o].cand \in survivors')
  BY <1>2 DEF WorkersRight, WInv, Holds
<1>6. op[o].pc = "end" =>
        (op[o].cand \in alive' => op[o].cand \in survivors') \/ published' = op[o].cand
  BY <1>2 DEF Fades, WorkersRight, WInv, Holds
<1>7. Critical(o) /\ op[o].pc # "end" => published' \in {op[o].prev, Nobody}
  BY DEF Fades, WorkersRight, WInv, Holds
<1>8. Holds(o)'
  <2>1. op' = op
    BY DEF Fades
  <2> QED BY <1>1, <1>4, <1>5, <1>6, <1>7, <2>1 DEF WorkersRight, WInv, Holds, Gone
<1> QED BY <1>3, <1>8

LEMMA OpenFades ==
  ASSUME WorkersRight, Fades
  PROVE  OpenHasWorker'
BY DEF Fades, WorkersRight, WInv, OpenHasWorker

\* No process starts: each was accounted for.
LEMMA AccountFades ==
  ASSUME WorkersRight, Fades, rec'.cand = rec.cand \/ rec.cand \notin alive',
         down'.prev = down.prev \/ down.prev \notin alive' \/ down.prev \in survivors' \/ down.prev = published'
  PROVE  NoOrphan'
<1>1. UNCHANGED op
  BY DEF Fades
<1>2. ASSUME NEW w \in alive'
      PROVE  w \in {published', rec'.cand, down'.prev} \cup survivors'
                  \cup {op[o].prev : o \in Operations} \cup {op[o].cand : o \in Operations}
  <2>1. w \in alive
    BY <1>2 DEF Fades
  <2>2. w = published => w = published' \/ w \in survivors'
    BY <1>2 DEF Fades
  <2>3. w \in survivors => w \in survivors'
    BY DEF Fades
  <2>4. w = rec.cand => w = rec'.cand
    BY <1>2
  <2>5. w = down.prev => w \in {down'.prev, published'} \cup survivors'
    BY <1>2
  <2>6. w \in {published, rec.cand, down.prev} \cup survivors
              \cup {op[o].prev : o \in Operations} \cup {op[o].cand : o \in Operations}
    BY <2>1 DEF WorkersRight, WInv, NoOrphan
  <2> QED BY <2>2, <2>3, <2>4, <2>5, <2>6
<1> QED BY <1>1, <1>2 DEF NoOrphan

\* Only the calls, the dispatcher or the steps of shutdown before it stops workers.
LEMMA WorkersStill ==
  ASSUME WorkersRight, UNCHANGED <<plan, workerVars, epoch, lock, op, recVars>>,
         gate' \in [active : BOOLEAN, waitable : BOOLEAN, aborted : BOOLEAN],
         gate'.active = gate.active, gate'.waitable = gate.waitable,
         down' \in [pc : {"no", "abort", "settle", "close", "stop", "kill", "done"},
                    taken : SUBSET Calls, prev : Workers \cup {Nobody}],
         down'.prev = down.prev, ShuttingDown => ShuttingDown'
  PROVE  WorkersRight'
<1>1. UNCHANGED <<published, alive, stopping, hooked, noticed, survivors, rec, attempts, ignored>>
  BY DEF workerVars, recVars
<1>2. Fades
  BY <1>1 DEF Fades, WorkersRight, ThreadTypes
<1>3. \A o \in Operations : Holds(o)' /\ Excludes(o)'
  BY <1>2, OperationsFade
<1>4. Recovering' /\ DownMeans'
  BY <1>1 DEF WorkersRight, WInv, Recovering, DownMeans, Gone
<1>5. NoOrphan' /\ OpenHasWorker'
  BY <1>1, <1>2, AccountFades, OpenFades
<1>6. WorkerTypes' /\ WindowTypes' /\ ThreadTypes'
  BY <1>1 DEF WorkersRight, WorkerTypes, WindowTypes, ThreadTypes
<1> QED BY <1>3, <1>4, <1>5, <1>6 DEF WorkersRight, WInv

-----------------------------------------------------------------------------
(* Operations.                                                                *)

LEMMA GotoMoves ==
  ASSUME WorkersRight, NEW o \in Operations, NEW p \in {"want", "stop", "kill", "spawn", "publish", "drop", "rollback", "end", "over"},
         Goto(o, p)
  PROVE  \E x \in OpRecord : /\ op' = [op EXCEPT ![o] = x] /\ x.pc = p
                             /\ x.prev = op[o].prev /\ x.cand = op[o].cand
<1> DEFINE x == [op[o] EXCEPT !.pc = p]
<1>1. op \in [Operations -> OpRecord]
  BY DEF WorkersRight, ThreadTypes
<1>2. x \in OpRecord /\ x.pc = p /\ x.prev = op[o].prev /\ x.cand = op[o].cand
  BY <1>1 DEF OpRecord
<1>3. op' = [op EXCEPT ![o] = x]
  BY <1>1 DEF Goto
<1> HIDE DEF x
<1> QED BY <1>2, <1>3

LEMMA OverMoves ==
  ASSUME NEW o \in Operations, Over(o)
  PROVE  \E x \in OpRecord : /\ op' = [op EXCEPT ![o] = x] /\ x.pc = "over"
                             /\ x.prev = Nobody /\ x.cand = Nobody
<1> DEFINE x == [Idle EXCEPT !.pc = "over"]
<1>1. x \in OpRecord /\ x.pc = "over" /\ x.prev = Nobody /\ x.cand = Nobody
  BY DEF OpRecord, Idle
<1>2. op' = [op EXCEPT ![o] = x]
  BY DEF Over
<1> HIDE DEF x
<1> QED BY <1>1, <1>2

\* The calls know nothing of it.
LEMMA KeepsStill ==
  ASSUME WindowTypes, UNCHANGED <<published, noticed, gate, epoch, down>>
  PROVE  Keeps
BY DEF Keeps, WindowTypes, ShuttingDown

\* An operation that has not begun is refused, or asks for the lock.
LEMMA QuietMove ==
  ASSUME WorkersRight, CallsRight, NEW o \in Operations, op[o].pc \in {"idle", "want"}, NEW x \in OpRecord,
         op' = [op EXCEPT ![o] = x], x.pc \in {"want", "over"}, x.prev = Nobody, x.cand = Nobody,
         UNCHANGED <<plan, workerVars, windowVars, recVars, callVars, down>>
  PROVE  WorkersRight' /\ CallsRight'
<1>1. /\ UNCHANGED <<published, alive, stopping, hooked, noticed, survivors, gate, epoch, lock>>
      /\ UNCHANGED <<rec, attempts, ignored>>
  BY DEF workerVars, windowVars, recVars
<1>2. op \in [Operations -> OpRecord]
  BY DEF WorkersRight, ThreadTypes
<1>3. op' \in [Operations -> OpRecord] /\ op'[o] = x /\ \A j \in Operations : j # o => op'[j] = op[j]
  BY <1>2
<1>4. WorkerTypes' /\ WindowTypes' /\ ThreadTypes'
  BY <1>1, <1>3 DEF WorkersRight, WorkerTypes, WindowTypes, ThreadTypes
<1>5. ASSUME NEW j \in Operations
      PROVE  Holds(j)' /\ Excludes(j)'
  <2>1. CASE j = o
    BY <1>3, <2>1 DEF Holds, Excludes, Critical
  <2>2. CASE j # o
    <3>1. op'[j] = op[j] /\ Holds(j) /\ Excludes(j)
      BY <1>3, <2>2 DEF WorkersRight, WInv
    <3>2. (Critical(j)' <=> Critical(j)) /\ (ShuttingDown' <=> ShuttingDown)
      BY <3>1 DEF Critical, ShuttingDown
    <3>3. Excludes(j)'
      BY <1>1, <3>1, <3>2 DEF Excludes
    <3> QED BY <1>1, <3>1, <3>2, <3>3 DEF Holds, Gone
  <2> QED BY <2>1, <2>2
<1>6. Recovering' /\ DownMeans' /\ OpenHasWorker'
  BY <1>1 DEF WorkersRight, WInv, Recovering, DownMeans, Gone, OpenHasWorker, ShuttingDown
<1>7. NoOrphan'
  <2>1. op[o].prev = Nobody /\ op[o].cand = Nobody /\ Nobody \notin alive
    BY Names DEF WorkersRight, WInv, Holds, WorkerTypes
  <2>2. ASSUME NEW w \in alive
        PROVE  w \in {published, rec.cand, down.prev} \cup survivors
                    \cup {op'[j].prev : j \in Operations} \cup {op'[j].cand : j \in Operations}
    <3>1. ASSUME NEW j \in Operations, w \in {op[j].prev, op[j].cand}
          PROVE  w \in {op'[j].prev, op'[j].cand}
      BY <1>3, <2>1, <3>1
    <3> QED BY <3>1 DEF WorkersRight, WInv, NoOrphan
  <2> QED BY <1>1, <2>2 DEF NoOrphan
<1>8. CallsRight'
  BY <1>1, KeepsStill, CallsStill DEF WorkersRight, WindowTypes
<1> QED BY <1>4, <1>5, <1>6, <1>7, <1>8 DEF WorkersRight, WInv

LEMMA AskSwitchStep ==
  ASSUME WorkersRight, CallsRight, NEW o \in Operations, AskSwitch(o)
  PROVE  WorkersRight' /\ CallsRight'
<1>1. /\ op[o].pc = "idle" /\ (Goto(o, "over") \/ Goto(o, "want"))
      /\ UNCHANGED <<plan, workerVars, windowVars, recVars, callVars, down>>
  BY DEF AskSwitch, At
<1>2. op[o].prev = Nobody /\ op[o].cand = Nobody
  BY <1>1 DEF WorkersRight, WInv, Holds
<1>3. PICK x \in OpRecord : /\ op' = [op EXCEPT ![o] = x] /\ x.pc \in {"want", "over"}
                            /\ x.prev = op[o].prev /\ x.cand = op[o].cand
  <2>1. \A p \in {"want", "over"} : Goto(o, p) => \E x \in OpRecord :
          op' = [op EXCEPT ![o] = x] /\ x.pc = p /\ x.prev = op[o].prev /\ x.cand = op[o].cand
    BY GotoMoves
  <2> QED BY <1>1, <2>1
<1> QED BY <1>1, <1>2, <1>3, QuietMove

\* Opening a window with the lock.
LEMMA OpensWindow ==
  ASSUME WorkersRight, CallsRight, NEW o \in Operations, lock = Nobody, NEW waitable \in BOOLEAN, Open(waitable),
         lock' \in {o, Nobody}, NEW x \in OpRecord, op' = [op EXCEPT ![o] = x],
         UNCHANGED <<plan, workerVars, recVars, callVars, down>>,
         plan.kinds[o] = "session" => ~waitable, lock' = Nobody => x.pc = "inside" /\ plan.kinds[o] # "session",
         \/ published = Nobody /\ x.pc \in {"inside", "spawn"} /\ x.prev = Nobody
         \/ published # Nobody /\ x.pc = "stop" /\ x.prev = published,
         x.pc = "spawn" => plan.kinds[o] = "switch", x.cand = Nobody,
         plan.kinds[o] = "switch" => published # Nobody \/ ShuttingDown,
         op[o].prev = Nobody, op[o].cand = Nobody
  PROVE  WorkersRight' /\ CallsRight'
<1>1. /\ UNCHANGED <<published, alive, stopping, hooked, noticed, survivors>>
      /\ UNCHANGED <<rec, attempts, ignored>>
  BY DEF workerVars, recVars
<1>2. op'[o] = x
  BY DEF WorkersRight, ThreadTypes
<1>3. gate'.active = TRUE /\ gate'.waitable = waitable /\ epoch' = epoch + 1 /\ WindowTypes'
  <2>1. gate \in [active : BOOLEAN, waitable : BOOLEAN, aborted : BOOLEAN] /\ epoch \in Nat
    BY DEF WorkersRight, WindowTypes
  <2>2. /\ gate'.active = TRUE /\ gate'.waitable = waitable
        /\ gate' \in [active : BOOLEAN, waitable : BOOLEAN, aborted : BOOLEAN]
    BY <2>1 DEF Open
  <2>3. epoch' = epoch + 1 /\ epoch' \in Nat
    BY <2>1 DEF Open
  <2> QED BY <2>2, <2>3 DEF WindowTypes
<1>4. WorkerTypes' /\ DownMeans' /\ OpenHasWorker'
  BY <1>1, <1>3 DEF WorkersRight, WInv, WorkerTypes, DownMeans, Gone, OpenHasWorker, ShuttingDown
<1>5. Critical(o)' => lock' = o /\ gate'.active
  BY <1>2, <1>3 DEF Critical
<1>6. Excludes(o)'
  BY <1>1, <1>2, <1>3, <1>5 DEF Excludes, ShuttingDown
<1>7. Holds(o)'
  <2>1. Gone(Nobody)
    BY Names DEF Gone, WorkersRight, WorkerTypes
  <2>2. published \in Workers \cup {Nobody}
    BY DEF WorkersRight, WorkerTypes
  <2> QED BY <1>1, <1>2, <2>1, <2>2 DEF Holds, Gone, Critical
<1>8. alive' \subseteq {published', x.prev, x.cand} \cup survivors'
  <2>1. alive \subseteq {published, op[o].prev, op[o].cand} \cup survivors /\ Nobody \notin alive
    BY MyWorkers, Names DEF WorkersRight, WorkerTypes
  <2> QED BY <1>1, <2>1
<1>9. WorkersRight'
  <2>1. plan' \in PlanRecord
    BY DEF WorkersRight, ThreadTypes
  <2> QED BY <1>1, <1>3, <1>4, <1>6, <1>7, <1>8, <2>1, OperationStep
<1>10. Keeps
  BY <1>1, <1>3 DEF Keeps, WorkersRight, WindowTypes, ShuttingDown
<1>11. CallsRight'
  BY <1>10, CallsStill DEF WorkersRight, WindowTypes
<1> QED BY <1>9, <1>11

LEMMA BeginSwitchStep ==
  ASSUME WorkersRight, CallsRight, NEW o \in Operations, BeginSwitch(o)
  PROVE  WorkersRight' /\ CallsRight'
<1>1. /\ plan.kinds[o] = "switch" /\ op[o].pc = "want" /\ lock = Nobody
      /\ UNCHANGED <<plan, workerVars, recVars, callVars, down>>
  BY DEF BeginSwitch, At
<1>2. op[o].prev = Nobody /\ op[o].cand = Nobody
  BY <1>1 DEF WorkersRight, WInv, Holds
<1>3. CASE Over(o) /\ UNCHANGED windowVars
  <2>1. PICK x \in OpRecord : /\ op' = [op EXCEPT ![o] = x] /\ x.pc = "over"
                              /\ x.prev = Nobody /\ x.cand = Nobody
    BY <1>3, OverMoves
  <2> QED BY <1>1, <1>3, <2>1, QuietMove
<1>4. CASE /\ ~gate.active /\ lock' = o /\ Open(TRUE)
           /\ op' = [op EXCEPT ![o] = [pc |-> IF published = Nobody THEN "spawn" ELSE "stop",
                                       prev |-> published, cand |-> Nobody]]
  <2>1. PICK x \in OpRecord :
          /\ op' = [op EXCEPT ![o] = x] /\ x.prev = published /\ x.cand = Nobody
          /\ x.pc = IF published = Nobody THEN "spawn" ELSE "stop"
    <3>1. [pc |-> IF published = Nobody THEN "spawn" ELSE "stop", prev |-> published, cand |-> Nobody]
            \in OpRecord
      BY DEF OpRecord, WorkersRight, WorkerTypes
    <3> QED BY <1>4, <3>1
  <2>2. published # Nobody \/ ShuttingDown
    BY <1>4 DEF WorkersRight, WInv, OpenHasWorker
  <2>3. \/ published = Nobody /\ x.pc \in {"inside", "spawn"} /\ x.prev = Nobody
        \/ published # Nobody /\ x.pc = "stop" /\ x.prev = published
    BY <2>1
  <2>4. lock' # Nobody
    BY <1>4, Names
  <2> QED BY <1>1, <1>2, <1>4, <2>1, <2>2, <2>3, <2>4, OpensWindow
<1> QED BY <1>3, <1>4 DEF BeginSwitch

LEMMA SuspendStep ==
  ASSUME WorkersRight, CallsRight, NEW o \in Operations, Suspend(o)
  PROVE  WorkersRight' /\ CallsRight'
<1>1. /\ plan.kinds[o] \in {"session", "compile"} /\ op[o].pc = "idle"
      /\ UNCHANGED <<plan, workerVars, recVars, callVars, down>>
  BY DEF Suspend, At, Maintenance
<1>2. op[o].prev = Nobody /\ op[o].cand = Nobody
  BY <1>1 DEF WorkersRight, WInv, Holds
<1>3. CASE ShuttingDown
  <2>1. PICK x \in OpRecord : /\ op' = [op EXCEPT ![o] = x] /\ x.pc = "over"
                              /\ x.prev = Nobody /\ x.cand = Nobody
    BY <1>3, OverMoves DEF Suspend
  <2> QED BY <1>1, <1>3, <2>1, QuietMove DEF Suspend
<1>4. CASE ~ShuttingDown
  <2>1. /\ lock = Nobody /\ Open(FALSE)
        /\ op' = [op EXCEPT ![o].pc = IF published = Nobody THEN "inside" ELSE "stop",
                            ![o].prev = published]
        /\ lock' = IF published = Nobody /\ plan.kinds[o] = "compile" THEN Nobody ELSE o
    BY <1>4 DEF Suspend
  <2>2. PICK x \in OpRecord :
          /\ op' = [op EXCEPT ![o] = x] /\ x.prev = published /\ x.cand = Nobody
          /\ x.pc = IF published = Nobody THEN "inside" ELSE "stop"
    <3> DEFINE x == [op[o] EXCEPT !.pc = IF published = Nobody THEN "inside" ELSE "stop", !.prev = published]
    <3>1. op \in [Operations -> OpRecord] /\ published \in Workers \cup {Nobody}
      BY DEF WorkersRight, ThreadTypes, WorkerTypes
    <3>2. /\ x \in OpRecord /\ x.prev = published /\ x.cand = Nobody
          /\ x.pc = IF published = Nobody THEN "inside" ELSE "stop"
      BY <1>2, <3>1 DEF OpRecord
    <3>3. op' = [op EXCEPT ![o] = x]
      BY <2>1, <3>1
    <3> HIDE DEF x
    <3> QED BY <3>2, <3>3
  <2>3. \/ published = Nobody /\ x.pc \in {"inside", "spawn"} /\ x.prev = Nobody
        \/ published # Nobody /\ x.pc = "stop" /\ x.prev = published
    BY <2>2
  <2>4. /\ lock' \in {o, Nobody} /\ lock' = Nobody => x.pc = "inside" /\ plan.kinds[o] # "session"
        /\ x.pc # "spawn"
    BY <2>1, <2>2, Names
  <2> QED BY <1>1, <1>2, <2>1, <2>2, <2>3, <2>4, OpensWindow
<1> QED BY <1>3, <1>4

\* A worker that is started is new to everybody.
LEMMA SpawnIsNew ==
  ASSUME WorkersRight, NEW w, NEW hook \in BOOLEAN, Spawn(w, hook)
  PROVE  /\ w \in Workers /\ w # Nobody /\ w \notin alive /\ alive' = alive \cup {w} /\ noticed' = noticed \ {w}
         /\ alive' \subseteq Workers /\ stopping' \subseteq Workers /\ hooked' \subseteq Workers
         /\ noticed' \subseteq Workers
         /\ w \notin {published, rec.prev, rec.cand, down.prev, dispatch.worker}
         /\ \A o \in Operations : w # op[o].prev /\ w # op[o].cand
         /\ \A r \in Calls : w # call[r].worker
<1>1. /\ w \in Workers /\ w \notin alive /\ w \notin Named /\ alive' = alive \cup {w}
      /\ stopping' = stopping \ {w} /\ noticed' = noticed \ {w}
      /\ hooked' \subseteq hooked \cup {w}
  BY DEF Spawn, Unused
<1>2. /\ alive' \subseteq Workers /\ stopping' \subseteq Workers /\ hooked' \subseteq Workers
      /\ noticed' \subseteq Workers
  BY <1>1 DEF WorkersRight, WorkerTypes
<1>3. w # Nobody
  BY <1>1, Names
<1> QED BY <1>1, <1>2, <1>3 DEF Named

LEMMA PlanSpent ==
  ASSUME WorkersRight, NEW w, Outlives(w)
  PROVE  /\ plan' \in PlanRecord /\ plan'.kinds = plan.kinds
         /\ w \in alive /\ survivors' = survivors \cup {w} /\ survivors' \subseteq Workers
<1>1. plan \in PlanRecord /\ plan.survivals > 0 /\ plan' = [plan EXCEPT !.survivals = @ - 1]
  BY DEF WorkersRight, ThreadTypes, Outlives
<1>2. plan.survivals - 1 \in Nat
  BY <1>1 DEF PlanRecord
<1>3. plan' \in PlanRecord /\ plan'.kinds = plan.kinds
  BY <1>1, <1>2 DEF PlanRecord
<1> QED BY <1>3 DEF Outlives, WorkersRight, WorkerTypes

\* A step of an operation inside its window.
LEMMA InWindow ==
  ASSUME WorkersRight, NEW o \in Operations, Critical(o), NEW x \in OpRecord,
         x.pc \in {"kill", "spawn", "validate", "publish", "drop", "rollback", "restore", "end"},
         op' = [op EXCEPT ![o] = x], UNCHANGED <<gate, epoch, lock, rec, ignored, down>>,
         plan' \in PlanRecord, plan'.kinds = plan.kinds, attempts' \in {0, attempts},
         WorkerTypes', noticed' = noticed \/ \E w \in Workers, hook \in BOOLEAN : Spawn(w, hook),
         rec.prev \in alive' => rec.prev \in alive, published' # Nobody \/ published' = published,
         DownMeans', Holds(o)', alive' \subseteq {published', x.prev, x.cand} \cup survivors'
  PROVE  WorkersRight' /\ Keeps
<1>1. lock = o /\ gate.active
  BY DEF WorkersRight, WInv, Excludes
<1>2. op'[o] = x
  BY DEF WorkersRight, ThreadTypes
<1>3. Excludes(o)'
  <2>1. Critical(o)'
    BY <1>2 DEF Critical
  <2>2. /\ plan.kinds[o] = "session" => ~gate.waitable
        /\ plan.kinds[o] = "switch" => published # Nobody \/ ShuttingDown
    BY DEF WorkersRight, WInv, Excludes
  <2> QED BY <1>1, <2>2 DEF Excludes, ShuttingDown
<1>4. /\ rec.prev \in noticed => rec.prev \in noticed'
      /\ \A r \in Calls : call[r].worker \in noticed => call[r].worker \in noticed'
      /\ dispatch.worker \in noticed => dispatch.worker \in noticed'
  <2>1. CASE noticed' = noticed
    BY <2>1
  <2>2. ASSUME NEW w \in Workers, NEW hook \in BOOLEAN, Spawn(w, hook)
        PROVE  /\ rec.prev \in noticed => rec.prev \in noticed'
               /\ \A r \in Calls : call[r].worker \in noticed => call[r].worker \in noticed'
               /\ dispatch.worker \in noticed => dispatch.worker \in noticed'
    BY <2>2, SpawnIsNew
  <2> QED BY <2>1, <2>2
<1>5. OpenHasWorker' /\ WindowTypes'
  BY <1>1 DEF OpenHasWorker, WorkersRight, WindowTypes
<1>6. WorkersRight'
  <2>1. rec.prev \in noticed \ alive => rec.prev \in noticed' \ alive'
    BY <1>4
  <2> QED BY <1>1, <1>3, <1>5, <2>1, OperationStep
<1>7. Keeps
  BY <1>1, <1>4 DEF Keeps, WorkersRight, WindowTypes, ShuttingDown
<1> QED BY <1>6, <1>7

LEMMA Mine ==
  ASSUME WorkersRight, NEW o \in Operations, Critical(o)
  PROVE  /\ lock = o /\ gate.active /\ epoch \in Nat
         /\ op[o].pc # "end" => published \in {op[o].prev, Nobody}
         /\ alive \subseteq {published, op[o].prev, op[o].cand} \cup survivors
         /\ rec.pc \notin {"delay", "validate"} /\ Nobody \notin alive
<1>1. lock = o /\ gate.active /\ (op[o].pc # "end" => published \in {op[o].prev, Nobody})
  BY DEF WorkersRight, WInv, Excludes, Holds
<1>2. epoch \in Nat /\ Nobody \notin alive
  BY Names DEF WorkersRight, WindowTypes, WorkerTypes
<1> QED BY <1>1, <1>2, MyWorkers

LEMMA StopPreviousStep ==
  ASSUME WorkersRight, CallsRight, NEW o \in Operations, StopPrevious(o)
  PROVE  WorkersRight' /\ CallsRight'
<1>1. /\ op[o].pc = "stop" /\ Goto(o, "kill") /\ stopping' = stopping \cup {op[o].prev}
      /\ UNCHANGED <<plan, published, alive, hooked, noticed, survivors, windowVars, recVars, callVars, down>>
      /\ UNCHANGED <<gate, epoch, lock, rec, attempts, ignored>>
  BY DEF StopPrevious, At, windowVars, recVars
<1>2. Critical(o) /\ op[o].prev \in Workers /\ op[o].cand = Nobody
  BY <1>1 DEF Critical, WorkersRight, WInv, Holds
<1>3. PICK x \in OpRecord : /\ op' = [op EXCEPT ![o] = x] /\ x.pc = "kill"
                            /\ x.prev = op[o].prev /\ x.cand = op[o].cand
  BY <1>1, GotoMoves
<1>4. op'[o] = x
  BY <1>3 DEF WorkersRight, ThreadTypes
<1>5. WorkerTypes' /\ DownMeans'
  BY <1>1, <1>2 DEF WorkersRight, WorkerTypes, WInv, DownMeans, Gone
<1>6. Holds(o)'
  BY <1>1, <1>2, <1>3, <1>4, Mine DEF Holds
<1>7. plan' \in PlanRecord
  BY <1>1 DEF WorkersRight, ThreadTypes
<1>8. WorkersRight' /\ Keeps
  BY <1>1, <1>2, <1>3, <1>5, <1>6, <1>7, Mine, InWindow
<1> QED BY <1>1, <1>2, <1>8, Mine, CallsStill

LEMMA KillPreviousStep ==
  ASSUME WorkersRight, CallsRight, NEW o \in Operations, KillPrevious(o)
  PROVE  WorkersRight' /\ CallsRight'
<1>1. /\ op[o].pc = "kill" /\ Goto(o, "spawn")
      /\ UNCHANGED <<published, stopping, hooked, noticed, queue, dispatch, down>>
      /\ UNCHANGED <<gate, epoch, lock, rec, attempts, ignored>>
  BY DEF KillPrevious, At, windowVars, recVars
<1>2. Critical(o) /\ op[o].prev \in Workers /\ op[o].cand = Nobody
  BY <1>1 DEF Critical, WorkersRight, WInv, Holds
<1>3. PICK x \in OpRecord : /\ op' = [op EXCEPT ![o] = x] /\ x.pc = "spawn"
                            /\ x.prev = op[o].prev /\ x.cand = op[o].cand
  BY <1>1, GotoMoves
<1>4. op'[o] = x
  BY <1>3 DEF WorkersRight, ThreadTypes
<1>5. /\ plan' \in PlanRecord /\ plan'.kinds = plan.kinds
      /\ survivors \subseteq survivors' /\ survivors' \subseteq Workers
      /\ alive' \subseteq alive /\ (op[o].prev \in alive' => op[o].prev \in survivors')
      /\ \/ call' = Unanswered(op[o].prev) /\ deferred' \subseteq deferred
         \/ UNCHANGED <<call, deferred>>
  <2>1. CASE Kill(op[o].prev) /\ UNCHANGED <<plan, survivors>>
    BY <2>1 DEF Kill, WorkersRight, ThreadTypes, WorkerTypes
  <2>2. CASE Outlives(op[o].prev) /\ UNCHANGED <<alive, call, deferred>>
    BY <2>2, PlanSpent
  <2> QED BY <2>1, <2>2 DEF KillPrevious
<1>6. WorkerTypes'
  BY <1>1, <1>5 DEF WorkersRight, WorkerTypes
<1>7. DownMeans'
  BY <1>1, <1>5 DEF WorkersRight, WInv, DownMeans, Gone
<1>8. Holds(o)'
  BY <1>1, <1>2, <1>3, <1>4, <1>5, Mine DEF Holds, Gone
<1>9. alive' \subseteq {published', x.prev, x.cand} \cup survivors'
  BY <1>1, <1>2, <1>3, <1>5, Mine
<1>10. WorkersRight' /\ Keeps
  BY <1>1, <1>2, <1>3, <1>5, <1>6, <1>7, <1>8, <1>9, InWindow
<1>11. CASE call' = Unanswered(op[o].prev) /\ deferred' \subseteq deferred
  BY <1>1, <1>2, <1>10, <1>11, Mine, CallsFail
<1>12. CASE UNCHANGED <<call, deferred>>
  BY <1>1, <1>2, <1>10, <1>12, Mine, CallsStill DEF callVars
<1> QED BY <1>5, <1>10, <1>11, <1>12

\* A candidate is started like this by a switch and by its rollback.
LEMMA CandidateStarts ==
  ASSUME WorkersRight, CallsRight, NEW o \in Operations, op[o].pc \in {"spawn", "rollback"},
         NEW p \in {"validate", "restore"}, Spawn(Fresh, FALSE),
         op' = [op EXCEPT ![o].pc = p, ![o].cand = Fresh],
         UNCHANGED <<plan, published, survivors, windowVars, recVars, callVars, down>>
  PROVE  WorkersRight' /\ CallsRight'
<1> DEFINE w == Fresh
<1>1. /\ w \in Workers /\ w # Nobody /\ w \notin alive /\ alive' = alive \cup {w}
      /\ alive' \subseteq Workers /\ stopping' \subseteq Workers /\ hooked' \subseteq Workers
      /\ noticed' \subseteq Workers
      /\ w \notin {published, rec.prev, rec.cand, down.prev, dispatch.worker}
      /\ \A j \in Operations : w # op[j].prev /\ w # op[j].cand
  BY SpawnIsNew
<1> HIDE DEF w
<1>2. UNCHANGED <<gate, epoch, lock, rec, attempts, ignored>>
  BY DEF windowVars, recVars
<1>3. Critical(o) /\ Gone(op[o].prev) /\ (op[o].cand = Nobody \/ Gone(op[o].cand))
  BY DEF Critical, WorkersRight, WInv, Holds
<1>4. PICK x \in OpRecord : /\ op' = [op EXCEPT ![o] = x] /\ x.pc = p
                            /\ x.prev = op[o].prev /\ x.cand = w
  <2> DEFINE x == [op[o] EXCEPT !.pc = p, !.cand = w]
  <2>1. op \in [Operations -> OpRecord]
    BY DEF WorkersRight, ThreadTypes
  <2>2. x \in OpRecord /\ x.pc = p /\ x.prev = op[o].prev /\ x.cand = w
    BY <1>1, <2>1 DEF OpRecord
  <2>3. op' = [op EXCEPT ![o] = x]
    BY <2>1 DEF w
  <2> HIDE DEF x
  <2> QED BY <2>2, <2>3
<1>5. op'[o] = x
  BY <1>4 DEF WorkersRight, ThreadTypes
<1>6. WorkerTypes'
  BY <1>1 DEF WorkersRight, WorkerTypes
<1>7. DownMeans'
  BY <1>1 DEF WorkersRight, WInv, DownMeans, Gone
<1>8. Holds(o)'
  BY <1>1, <1>3, <1>4, <1>5, Mine DEF Holds, Gone
<1>9. alive' \subseteq {published', x.prev, x.cand} \cup survivors'
  BY <1>1, <1>3, <1>4, Mine DEF Gone
<1>10. plan' \in PlanRecord
  BY DEF WorkersRight, ThreadTypes
<1>11. \E v \in Workers, hook \in BOOLEAN : Spawn(v, hook)
  <2>1. Spawn(w, FALSE)
    BY DEF w
  <2> QED BY <1>1, <2>1
<1>12. WorkersRight' /\ Keeps
  BY <1>1, <1>2, <1>3, <1>4, <1>6, <1>7, <1>8, <1>9, <1>10, <1>11, InWindow
<1> QED BY <1>2, <1>3, <1>12, Mine, CallsStill

LEMMA ValidateStep ==
  ASSUME WorkersRight, CallsRight, NEW o \in Operations, Validate(o)
  PROVE  WorkersRight' /\ CallsRight'
<1>1. /\ op[o].pc = "validate"
      /\ UNCHANGED <<plan, workerVars, windowVars, recVars, callVars, down>>
      /\ UNCHANGED <<published, alive, stopping, hooked, noticed, survivors, gate, epoch, lock,
                     rec, attempts, ignored>>
  BY DEF Validate, At, windowVars, recVars, workerVars
<1>2. /\ Critical(o) /\ Gone(op[o].prev) /\ op[o].cand \in Workers
  BY <1>1 DEF Critical, WorkersRight, WInv, Holds
<1>3. PICK x \in OpRecord : /\ op' = [op EXCEPT ![o] = x] /\ x.pc \in {"publish", "drop"}
                            /\ x.prev = op[o].prev /\ x.cand = op[o].cand
  <2>1. Goto(o, "publish") \/ Goto(o, "drop")
    BY DEF Validate
  <2>2. CASE Goto(o, "publish")
    BY <2>2, GotoMoves
  <2>3. CASE Goto(o, "drop")
    BY <2>3, GotoMoves
  <2> QED BY <2>1, <2>2, <2>3
<1>4. op'[o] = x
  BY <1>3 DEF WorkersRight, ThreadTypes
<1>5. WorkerTypes' /\ DownMeans' /\ plan' \in PlanRecord
  BY <1>1 DEF WorkersRight, WorkerTypes, ThreadTypes, WInv, DownMeans, Gone
<1>6. Holds(o)'
  BY <1>1, <1>2, <1>3, <1>4, Mine DEF Holds, Gone
<1>7. WorkersRight' /\ Keeps
  BY <1>1, <1>2, <1>3, <1>5, <1>6, Mine, InWindow
<1> QED BY <1>1, <1>2, <1>7, Mine, CallsStill

\* The candidate takes the place of the worker that the operation has stopped.
LEMMA CandidatePublished ==
  ASSUME WorkersRight, CallsRight, NEW o \in Operations, op[o].pc \in {"publish", "restore"}, Goto(o, "end"),
         published' = op[o].cand, hooked' = hooked \cup {op[o].cand}, attempts' \in {0, attempts},
         UNCHANGED <<plan, alive, stopping, noticed, survivors, windowVars, rec, ignored, callVars, down>>
  PROVE  WorkersRight' /\ CallsRight'
<1>1. UNCHANGED <<gate, epoch, lock>>
  BY DEF windowVars
<1>2. Critical(o) /\ Gone(op[o].prev) /\ op[o].cand \in Workers /\ Gone(Nobody)
  BY Names DEF Critical, WorkersRight, WInv, Holds, Gone, WorkerTypes
<1>3. PICK x \in OpRecord : /\ op' = [op EXCEPT ![o] = x] /\ x.pc = "end"
                            /\ x.prev = op[o].prev /\ x.cand = op[o].cand
  BY GotoMoves
<1>4. op'[o] = x
  BY <1>3 DEF WorkersRight, ThreadTypes
<1>5. WorkerTypes' /\ plan' \in PlanRecord
  BY <1>2 DEF WorkersRight, WorkerTypes, ThreadTypes
<1>6. DownMeans'
  BY <1>2, Mine DEF WorkersRight, WInv, DownMeans, Gone
<1>7. Holds(o)'
  BY <1>2, <1>3, <1>4 DEF Holds, Gone
<1>8. alive' \subseteq {published', x.prev, x.cand} \cup survivors'
  BY <1>2, <1>3, Mine
<1>9. published' # Nobody
  BY <1>2, Names
<1>10. WorkersRight' /\ Keeps
  BY <1>1, <1>2, <1>3, <1>5, <1>6, <1>7, <1>8, <1>9, InWindow
<1> QED BY <1>2, <1>10, Mine, CallsStill

LEMMA PublishStep ==
  ASSUME WorkersRight, CallsRight, NEW o \in Operations, Publish(o)
  PROVE  WorkersRight' /\ CallsRight'
BY CandidatePublished DEF Publish, At

\* The candidate is stopped, and is gone or outlives it.
LEMMA CandidateDropped ==
  ASSUME WorkersRight, CallsRight, NEW o \in Operations, op[o].pc \in {"drop", "restore"},
         NEW p \in {"end", "rollback"}, Goto(o, p), stopping' = stopping \cup {op[o].cand},
         \/ alive' = alive \ {op[o].cand} /\ UNCHANGED <<plan, survivors>>
         \/ Outlives(op[o].cand) /\ UNCHANGED alive,
         UNCHANGED <<published, hooked, noticed, windowVars, recVars, callVars, down>>
  PROVE  WorkersRight' /\ CallsRight'
<1>1. UNCHANGED <<gate, epoch, lock, rec, attempts, ignored>>
  BY DEF windowVars, recVars
<1>2. Critical(o) /\ Gone(op[o].prev) /\ op[o].cand \in Workers
  BY DEF Critical, WorkersRight, WInv, Holds
<1>3. PICK x \in OpRecord : /\ op' = [op EXCEPT ![o] = x] /\ x.pc = p
                            /\ x.prev = op[o].prev /\ x.cand = op[o].cand
  BY GotoMoves
<1>4. op'[o] = x
  BY <1>3 DEF WorkersRight, ThreadTypes
<1>5. /\ plan' \in PlanRecord /\ plan'.kinds = plan.kinds
      /\ survivors \subseteq survivors' /\ survivors' \subseteq Workers
      /\ alive' \subseteq alive /\ (op[o].cand \in alive' => op[o].cand \in survivors')
  <2>1. CASE alive' = alive \ {op[o].cand} /\ UNCHANGED <<plan, survivors>>
    BY <2>1 DEF WorkersRight, ThreadTypes, WorkerTypes
  <2>2. CASE Outlives(op[o].cand) /\ UNCHANGED alive
    BY <2>2, PlanSpent
  <2> QED BY <2>1, <2>2
<1>6. WorkerTypes'
  BY <1>2, <1>5 DEF WorkersRight, WorkerTypes
<1>7. DownMeans'
  BY <1>5 DEF WorkersRight, WInv, DownMeans, Gone
<1>8. Holds(o)'
  BY <1>2, <1>3, <1>4, <1>5, Mine DEF Holds, Gone
<1>9. alive' \subseteq {published', x.prev, x.cand} \cup survivors'
  BY <1>3, <1>5, <1>2, Mine
<1>10. WorkersRight' /\ Keeps
  BY <1>1, <1>2, <1>3, <1>5, <1>6, <1>7, <1>8, <1>9, InWindow
<1> QED BY <1>1, <1>2, <1>10, Mine, CallsStill

LEMMA DropStep ==
  ASSUME WorkersRight, CallsRight, NEW o \in Operations, Drop(o)
  PROVE  WorkersRight' /\ CallsRight'
<1>1. op[o].pc = "drop" /\ (Goto(o, "end") \/ Goto(o, "rollback"))
  BY DEF Drop, At
<1>2. CASE Goto(o, "end")
  BY <1>1, <1>2, CandidateDropped DEF Drop
<1>3. CASE Goto(o, "rollback")
  BY <1>1, <1>3, CandidateDropped DEF Drop
<1> QED BY <1>1, <1>2, <1>3

LEMMA RestoreStep ==
  ASSUME WorkersRight, CallsRight, NEW o \in Operations, Restore(o)
  PROVE  WorkersRight' /\ CallsRight'
<1>1. /\ op[o].pc = "restore" /\ Goto(o, "end") /\ UNCHANGED <<noticed, windowVars, recVars, callVars, down>>
      /\ UNCHANGED <<rec, attempts, ignored>>
  BY DEF Restore, At, recVars
<1>2. CASE /\ published' = op[o].cand /\ hooked' = hooked \cup {op[o].cand}
           /\ UNCHANGED <<plan, stopping, alive, survivors>>
  BY <1>1, <1>2, CandidatePublished
<1>3. CASE /\ stopping' = stopping \cup {op[o].cand}
           /\ \/ alive' = alive \ {op[o].cand} /\ UNCHANGED <<plan, survivors>>
              \/ Outlives(op[o].cand) /\ UNCHANGED alive
           /\ UNCHANGED <<published, hooked>>
  BY <1>1, <1>3, CandidateDropped
<1> QED BY <1>2, <1>3 DEF Restore

LEMMA ShutMoves ==
  ASSUME WorkersRight, Shut, lock' = Nobody
  PROVE  WindowTypes' /\ epoch' = epoch + 1 /\ ~gate'.active
<1>1. gate \in [active : BOOLEAN, waitable : BOOLEAN, aborted : BOOLEAN] /\ epoch \in Nat
  BY DEF WorkersRight, WindowTypes
<1>2. ~gate'.active /\ gate' \in [active : BOOLEAN, waitable : BOOLEAN, aborted : BOOLEAN]
  BY <1>1 DEF Shut
<1>3. epoch' = epoch + 1 /\ epoch' \in Nat
  BY <1>1 DEF Shut
<1> QED BY <1>2, <1>3 DEF WindowTypes

LEMMA EndSwitchStep ==
  ASSUME WorkersRight, CallsRight, NEW o \in Operations, EndSwitch(o)
  PROVE  WorkersRight' /\ CallsRight'
<1>1. /\ plan.kinds[o] = "switch" /\ op[o].pc = "end" /\ Shut /\ lock' = Nobody /\ Over(o)
      /\ UNCHANGED <<plan, published, alive, stopping, hooked, noticed, survivors, rec, attempts, ignored,
                     callVars, down>>
  BY DEF EndSwitch, At, workerVars, recVars
<1>2. /\ Critical(o) /\ Gone(op[o].prev) /\ (Gone(op[o].cand) \/ published = op[o].cand)
      /\ (published # Nobody \/ ShuttingDown)
  BY <1>1 DEF Critical, WorkersRight, WInv, Holds, Excludes
<1>3. PICK x \in OpRecord : /\ op' = [op EXCEPT ![o] = x] /\ x.pc = "over"
                            /\ x.prev = Nobody /\ x.cand = Nobody
  BY <1>1, OverMoves
<1>4. op'[o] = x
  BY <1>3 DEF WorkersRight, ThreadTypes
<1>5. WindowTypes' /\ epoch' = epoch + 1
  BY <1>1, ShutMoves
<1>6. WorkerTypes' /\ DownMeans' /\ plan' \in PlanRecord
  BY <1>1 DEF WorkersRight, WorkerTypes, ThreadTypes, WInv, DownMeans, Gone
<1>7. Holds(o)' /\ Excludes(o)'
  BY <1>3, <1>4 DEF Holds, Excludes, Critical
<1>8. alive' \subseteq {published', x.prev, x.cand} \cup survivors'
  BY <1>1, <1>2, Mine DEF Gone
<1>9. OpenHasWorker'
  BY <1>1, <1>2 DEF OpenHasWorker, ShuttingDown
<1>10. WorkersRight'
  BY <1>1, <1>2, <1>3, <1>5, <1>6, <1>7, <1>8, <1>9, Mine, OperationStep
<1>11. Keeps
  BY <1>1, <1>5 DEF Keeps, WorkersRight, WindowTypes, ShuttingDown
<1> QED BY <1>1, <1>2, <1>10, <1>11, Mine, CallsStill

LEMMA SpawnCandidateStep ==
  ASSUME WorkersRight, CallsRight, NEW o \in Operations, SpawnCandidate(o)
  PROVE  WorkersRight' /\ CallsRight'
BY CandidateStarts DEF SpawnCandidate, At

LEMMA RollbackStep ==
  ASSUME WorkersRight, CallsRight, NEW o \in Operations, Rollback(o)
  PROVE  WorkersRight' /\ CallsRight'
BY CandidateStarts DEF Rollback, At

\* The worker is stopped for maintenance, or outlives its stop.
LEMMA SuspendedStep ==
  ASSUME WorkersRight, CallsRight, NEW o \in Operations, Suspended(o)
  PROVE  WorkersRight' /\ CallsRight'
<1>1. /\ plan.kinds[o] # "switch" /\ op[o].pc = "kill"
      /\ UNCHANGED <<stopping, hooked, noticed, gate, epoch, rec, attempts, ignored, queue, dispatch, down>>
  BY DEF Suspended, At, Maintenance, recVars
<1>2. Critical(o) /\ op[o].prev \in Workers /\ op[o].cand = Nobody /\ Gone(Nobody)
  BY <1>1, Names DEF Critical, WorkersRight, WInv, Holds, Gone, WorkerTypes
<1>3. PICK x \in OpRecord : /\ op' = [op EXCEPT ![o] = x] /\ x.pc \in {"inside", "over"}
                            /\ x.prev = Nobody /\ x.cand = Nobody
                            /\ plan.kinds[o] = "session" /\ x.pc = "inside" =>
                                 lock' = o /\ published' = Nobody
  <2>1. CASE Over(o)
    BY <2>1, OverMoves
  <2>2. CASE /\ op' = [op EXCEPT ![o] = [Idle EXCEPT !.pc = "inside"]]
             /\ published' = IF published = op[o].prev THEN Nobody ELSE published
             /\ lock' = IF plan.kinds[o] = "session" THEN o ELSE Nobody
    <3>1. [Idle EXCEPT !.pc = "inside"] \in OpRecord
      BY DEF OpRecord, Idle
    <3>2. /\ [Idle EXCEPT !.pc = "inside"].pc = "inside"
          /\ [Idle EXCEPT !.pc = "inside"].prev = Nobody /\ [Idle EXCEPT !.pc = "inside"].cand = Nobody
      BY DEF Idle
    <3>3. published' = Nobody
      BY <1>1, <1>2, <2>2, Mine
    <3> QED BY <2>2, <3>1, <3>2, <3>3
  <2> QED BY <2>1, <2>2 DEF Suspended
<1>4. op'[o] = x
  BY <1>3 DEF WorkersRight, ThreadTypes
<1>5. /\ plan' \in PlanRecord /\ plan'.kinds = plan.kinds /\ lock' \in {o, Nobody}
      /\ published' \in {published, Nobody} /\ (published' = published \/ published = op[o].prev)
      /\ survivors \subseteq survivors' /\ survivors' \subseteq Workers
      /\ alive' \subseteq alive /\ (op[o].prev \in alive' => op[o].prev \in survivors')
      /\ \/ call' = Unanswered(op[o].prev) /\ deferred' \subseteq deferred
         \/ UNCHANGED <<call, deferred>>
  <2>1. CASE /\ Kill(op[o].prev) /\ UNCHANGED <<plan, survivors>>
             /\ published' = IF published = op[o].prev THEN Nobody ELSE published
             /\ lock' = IF plan.kinds[o] = "session" THEN o ELSE Nobody
    BY <2>1 DEF Kill, WorkersRight, ThreadTypes, WorkerTypes
  <2>2. CASE Outlives(op[o].prev) /\ lock' = Nobody /\ UNCHANGED <<alive, call, deferred, published>>
    BY <2>2, PlanSpent
  <2> QED BY <2>1, <2>2 DEF Suspended
<1>6. WorkerTypes' /\ WindowTypes'
  BY <1>1, <1>5 DEF WorkersRight, WorkerTypes, WindowTypes
<1>7. DownMeans'
  BY <1>1, <1>5 DEF WorkersRight, WInv, DownMeans, Gone
<1>8. Holds(o)'
  BY <1>3, <1>4, <1>5 DEF Holds, Critical
<1>9. Excludes(o)'
  BY <1>1, <1>2, <1>3, <1>4, <1>5, Mine DEF Excludes, Critical, WorkersRight, WInv
<1>10. alive' \subseteq {published', x.prev, x.cand} \cup survivors'
  BY <1>1, <1>2, <1>5, Mine
<1>11. OpenHasWorker'
  BY <1>1, <1>2, Mine DEF OpenHasWorker
<1>12. WorkersRight'
  BY <1>1, <1>2, <1>3, <1>5, <1>6, <1>7, <1>8, <1>9, <1>10, <1>11, Mine, OperationStep
<1>13. Keeps
  BY <1>1, <1>2, Mine DEF Keeps, ShuttingDown
<1>14. CASE call' = Unanswered(op[o].prev) /\ deferred' \subseteq deferred
  BY <1>1, <1>2, <1>12, <1>13, <1>14, Mine, CallsFail
<1>15. CASE UNCHANGED <<call, deferred>>
  BY <1>1, <1>2, <1>12, <1>13, <1>15, Mine, CallsStill DEF callVars
<1> QED BY <1>5, <1>12, <1>14, <1>15

\* The end of maintenance, with a worker.
LEMMA ResumeStep ==
  ASSUME WorkersRight, CallsRight, NEW o \in Operations, Resume(o)
  PROVE  WorkersRight' /\ CallsRight'
<1>1. /\ op[o].pc = "inside" /\ lock \in {o, Nobody} /\ lock' = Nobody /\ Over(o)
      /\ UNCHANGED <<plan, rec, attempts, ignored, callVars, down>>
  BY DEF Resume, At, recVars
<1>2. /\ op[o].prev = Nobody /\ op[o].cand = Nobody /\ Nobody \notin alive
      /\ epoch \in Nat /\ plan \in PlanRecord
  BY <1>1, Names DEF WorkersRight, WInv, Holds, WorkerTypes, WindowTypes, ThreadTypes
<1>3. PICK x \in OpRecord : /\ op' = [op EXCEPT ![o] = x] /\ x.pc = "over"
                            /\ x.prev = Nobody /\ x.cand = Nobody
  BY <1>1, OverMoves
<1>4. op'[o] = x
  BY <1>3 DEF WorkersRight, ThreadTypes
<1>5. Holds(o)' /\ Excludes(o)'
  BY <1>3, <1>4 DEF Holds, Excludes, Critical
<1>6. CASE ShuttingDown \/ published # Nobody
  <2>1. /\ UNCHANGED <<published, alive, stopping, hooked, noticed, survivors>>
        /\ \/ UNCHANGED <<gate, epoch>>
           \/ Shut /\ published # Nobody
    BY <1>6 DEF Resume, workerVars
  <2>2. WorkerTypes' /\ DownMeans'
    BY <1>1, <2>1 DEF WorkersRight, WorkerTypes, WInv, DownMeans, Gone
  <2>3. alive' \subseteq {published', x.prev, x.cand} \cup survivors'
    BY <1>1, <1>2, <2>1, MyWorkers
  <2>4. WindowTypes' /\ OpenHasWorker' /\ Keeps
    <3>1. CASE UNCHANGED <<gate, epoch>>
      <4>1. Keeps
        BY <1>1, <2>1, <3>1, KeepsStill DEF WorkersRight
      <4>2. WindowTypes' /\ OpenHasWorker'
        BY <1>1, <2>1, <3>1 DEF WorkersRight, WindowTypes, WInv, OpenHasWorker, ShuttingDown
      <4> QED BY <4>1, <4>2
    <3>2. CASE Shut /\ published # Nobody
      <4>1. WindowTypes' /\ epoch' = epoch + 1 /\ ~gate'.active
        BY <1>1, <3>2, ShutMoves
      <4>2. OpenHasWorker'
        BY <2>1, <3>2 DEF OpenHasWorker
      <4>3. Keeps
        BY <1>1, <1>2, <2>1, <4>1 DEF Keeps, ShuttingDown, WindowTypes
      <4> QED BY <4>1, <4>2, <4>3
    <3> QED BY <2>1, <3>1, <3>2
  <2>5. WorkersRight'
    BY <1>1, <1>2, <1>3, <1>5, <2>1, <2>2, <2>3, <2>4, OperationStep
  <2> QED BY <1>1, <1>2, <2>4, <2>5, CallsStill
<1>7. CASE ~ShuttingDown /\ published = Nobody
  <2> DEFINE w == Fresh
  <2>1. Shut /\ published' = w /\ Spawn(w, TRUE) /\ survivors' = survivors
    BY <1>7 DEF Resume
  <2> HIDE DEF w
  <2>2. /\ w \in Workers /\ w # Nobody /\ w \notin alive /\ alive' = alive \cup {w} /\ noticed' = noticed \ {w}
        /\ alive' \subseteq Workers /\ stopping' \subseteq Workers /\ hooked' \subseteq Workers
        /\ noticed' \subseteq Workers
        /\ w \notin {rec.prev, down.prev, dispatch.worker}
        /\ \A r \in Calls : w # call[r].worker
    BY <2>1, SpawnIsNew
  <2>3. WindowTypes' /\ epoch' = epoch + 1
    BY <1>1, <2>1, ShutMoves
  <2>4. WorkerTypes' /\ DownMeans'
    BY <1>1, <1>2, <1>7, <2>1, <2>2 DEF WorkersRight, WorkerTypes, WInv, DownMeans, Gone
  <2>5. alive' \subseteq {published', x.prev, x.cand} \cup survivors'
    BY <1>1, <1>2, <1>7, <2>1, <2>2, MyWorkers
  <2>6. OpenHasWorker'
    BY <2>1, <2>2 DEF OpenHasWorker
  <2>7. WorkersRight'
    BY <1>1, <1>2, <1>3, <1>5, <2>1, <2>2, <2>3, <2>4, <2>5, <2>6, OperationStep
  <2>8. Keeps
    BY <1>1, <1>2, <2>2, <2>3 DEF Keeps, ShuttingDown, WindowTypes
  <2> QED BY <1>1, <1>2, <2>7, <2>8, CallsStill
<1> QED BY <1>6, <1>7

-----------------------------------------------------------------------------
(* The recovery.                                                              *)

\* With the lock, or when nobody has it, no operation holds a worker.
LEMMA RecoveryWorkers ==
  ASSUME WorkersRight, lock \in {"recovery", Nobody}
  PROVE  /\ alive \subseteq {published, rec.cand} \cup survivors
         /\ \A o \in Operations : lock # o
<1>1. \A o \in Operations : lock # o
  BY Names
<1>2. ASSUME NEW w \in alive
      PROVE  w \in {published, rec.cand} \cup survivors
  <2>1. w # Nobody
    BY Names DEF WorkersRight, WorkerTypes
  <2>2. CASE w = down.prev
    BY <2>2 DEF WorkersRight, WInv, DownMeans, Gone
  <2>3. \A o \in Operations : w \notin {op[o].prev, op[o].cand}
    BY <1>1, <2>1, OthersHold
  <2> QED BY <2>2, <2>3 DEF WorkersRight, WInv, NoOrphan
<1> QED BY <1>1, <1>2

LEMMA RecoveryMoves ==
  ASSUME WorkersRight, CallsRight, lock \in {"recovery", Nobody}, lock' \in {"recovery", Nobody},
         UNCHANGED <<gate, epoch, op, down, callVars>>, plan' \in PlanRecord, plan'.kinds = plan.kinds,
         WorkerTypes', rec' \in RecRecord, attempts' \in 0 .. MaxAttempts, ignored' \subseteq Workers,
         Recovering', DownMeans', published # Nobody => published' # Nobody,
         alive' \subseteq {published', rec'.cand} \cup survivors',
         noticed' = noticed \/ \E w \in Workers, hook \in BOOLEAN : Spawn(w, hook),
         published' = published \/ published \in noticed'
  PROVE  WorkersRight' /\ CallsRight'
<1>1. \A o \in Operations : Holds(o)' /\ Excludes(o)'
  BY RecoveryWorkers, OthersStay
<1>2. WindowTypes' /\ ThreadTypes'
  BY DEF WorkersRight, WindowTypes, ThreadTypes
<1>3. NoOrphan'
  BY DEF NoOrphan
<1>4. OpenHasWorker'
  BY DEF WorkersRight, WInv, OpenHasWorker, ShuttingDown
<1>5. WorkersRight'
  BY <1>1, <1>2, <1>3, <1>4 DEF WorkersRight, WInv
<1>6. /\ \A r \in Calls : call[r].worker \in noticed => call[r].worker \in noticed'
      /\ dispatch.worker \in noticed => dispatch.worker \in noticed'
  <2>1. ASSUME NEW w \in Workers, NEW hook \in BOOLEAN, Spawn(w, hook)
        PROVE  /\ \A r \in Calls : call[r].worker \in noticed => call[r].worker \in noticed'
               /\ dispatch.worker \in noticed => dispatch.worker \in noticed'
    BY <2>1, SpawnIsNew
  <2> QED BY <2>1
<1>7. epoch \in Nat
  BY DEF WorkersRight, WindowTypes
<1>8. Keeps
  BY <1>6, <1>7 DEF Keeps, ShuttingDown
<1> QED BY <1>5, <1>7, <1>8, CallsStill

LEMMA RecoverStep ==
  ASSUME WorkersRight, CallsRight, Recover
  PROVE  WorkersRight' /\ CallsRight'
<1>1. /\ rec.pc = "want" /\ lock = Nobody
      /\ UNCHANGED <<plan, published, alive, stopping, hooked, noticed, survivors, gate, epoch, op, callVars, down>>
  BY DEF Recover, workerVars
<1>2. rec \in RecRecord /\ attempts \in 0 .. MaxAttempts /\ plan \in PlanRecord /\ ignored \subseteq Workers
  BY DEF WorkersRight, ThreadTypes
<1>3. rec.prev \in noticed \ alive /\ rec.cand = Nobody /\ rec.prev \in Workers
  BY <1>1 DEF WorkersRight, WInv, Recovering, WorkerTypes
<1>4. Idle \in RecRecord /\ Idle.pc = "idle" /\ Idle.cand = Nobody
  BY DEF Idle, RecRecord
<1>5. [rec EXCEPT !.pc = "delay"] \in RecRecord /\ [rec EXCEPT !.pc = "delay"].pc = "delay"
      /\ [rec EXCEPT !.pc = "delay"].prev = rec.prev /\ [rec EXCEPT !.pc = "delay"].cand = rec.cand
  BY <1>2 DEF RecRecord
<1>6. attempts' \in 0 .. MaxAttempts /\ ignored' \subseteq Workers /\ lock' \in {"recovery", Nobody}
      /\ \/ rec' = Idle
         \/ rec' = [rec EXCEPT !.pc = "delay"] /\ lock' = "recovery" /\ attempts' < MaxAttempts
  <2>1. CASE gate.active \/ published # rec.prev \/ ShuttingDown
    BY <1>1, <1>2, <2>1 DEF Recover
  <2>2. CASE ~(gate.active \/ published # rec.prev \/ ShuttingDown)
    <3>1. PICK before \in {0, attempts} :
            /\ attempts' = before
            /\ IF before = MaxAttempts
               THEN rec' = Idle /\ ignored' = ignored \cup {rec.prev} /\ UNCHANGED lock
               ELSE rec' = [rec EXCEPT !.pc = "delay"] /\ lock' = "recovery" /\ UNCHANGED ignored
      BY <2>2 DEF Recover
    <3>2. attempts' \in 0 .. MaxAttempts /\ (before # MaxAttempts => attempts' < MaxAttempts)
      BY <1>2, <3>1, SwitchAssumption
    <3>3. /\ ignored' \subseteq Workers /\ lock' \in {"recovery", Nobody}
          /\ \/ rec' = Idle
             \/ rec' = [rec EXCEPT !.pc = "delay"] /\ lock' = "recovery" /\ before # MaxAttempts
      BY <1>1, <1>2, <1>3, <3>1
    <3> QED BY <3>2, <3>3
  <2> QED BY <2>1, <2>2
<1>7. rec' \in RecRecord /\ Recovering'
  BY <1>1, <1>3, <1>4, <1>5, <1>6 DEF Recovering
<1>8. WorkerTypes' /\ DownMeans'
  BY <1>1 DEF WorkersRight, WorkerTypes, WInv, DownMeans, Gone
<1>9. alive' \subseteq {published', rec'.cand} \cup survivors'
  BY <1>1, <1>3, <1>4, <1>5, <1>6, RecoveryWorkers
<1> QED BY <1>1, <1>2, <1>6, <1>7, <1>8, <1>9, RecoveryMoves

\* What a recovery under way knows.
LEMMA UnderWay ==
  ASSUME WorkersRight, rec.pc \in {"delay", "validate"}
  PROVE  /\ lock = "recovery" /\ attempts \in Nat /\ attempts < MaxAttempts /\ attempts \in 0 .. MaxAttempts
         /\ MaxAttempts \in Nat
         /\ rec \in RecRecord /\ rec.prev \in noticed /\ rec.prev \notin alive /\ rec.prev \in Workers
         /\ plan \in PlanRecord /\ ignored \subseteq Workers /\ Nobody \notin alive
         /\ alive \subseteq {published, rec.cand} \cup survivors
         /\ Idle \in RecRecord /\ Idle.pc = "idle" /\ Idle.cand = Nobody
<1>1. lock = "recovery" /\ attempts < MaxAttempts /\ rec.prev \in noticed \ alive
  BY DEF WorkersRight, WInv, Recovering
<1>2. rec \in RecRecord /\ attempts \in 0 .. MaxAttempts /\ plan \in PlanRecord /\ ignored \subseteq Workers
  BY DEF WorkersRight, ThreadTypes
<1>3. rec.prev \in Workers /\ Nobody \notin alive
  BY <1>1, Names DEF WorkersRight, WorkerTypes
<1>4. Idle \in RecRecord /\ Idle.pc = "idle" /\ Idle.cand = Nobody
  BY DEF Idle, RecRecord
<1> QED BY <1>1, <1>2, <1>3, <1>4, RecoveryWorkers, SwitchAssumption

LEMMA SpawnRecoveryStep ==
  ASSUME WorkersRight, CallsRight, SpawnRecovery
  PROVE  WorkersRight' /\ CallsRight'
<1>1. rec.pc = "delay" /\ UNCHANGED <<plan, gate, epoch, op, attempts, ignored, callVars, down>>
  BY DEF SpawnRecovery
<1>2. rec.cand = Nobody
  BY <1>1 DEF WorkersRight, WInv, Recovering
<1>3. CASE rec' = Idle /\ lock' = Nobody /\ UNCHANGED workerVars
  <2>1. UNCHANGED <<published, alive, stopping, hooked, noticed, survivors>>
    BY <1>3 DEF workerVars
  <2>2. WorkerTypes' /\ DownMeans'
    BY <1>1, <2>1 DEF WorkersRight, WorkerTypes, WInv, DownMeans, Gone
  <2>3. Recovering'
    BY <1>1, <1>3, UnderWay DEF Recovering
  <2>4. alive' \subseteq {published', rec'.cand} \cup survivors'
    BY <1>1, <1>2, <1>3, <2>1, UnderWay
  <2> QED BY <1>1, <1>3, <2>1, <2>2, <2>3, <2>4, UnderWay, RecoveryMoves
<1>4. CASE /\ Spawn(Fresh, FALSE) /\ rec' = [rec EXCEPT !.pc = "validate", !.cand = Fresh]
           /\ UNCHANGED <<lock, published, survivors>>
  <2> DEFINE w == Fresh
  <2>1. Spawn(w, FALSE) /\ rec' = [rec EXCEPT !.pc = "validate", !.cand = w]
    BY <1>4
  <2> HIDE DEF w
  <2>2. /\ w \in Workers /\ w \notin alive /\ alive' = alive \cup {w} /\ noticed' = noticed \ {w}
        /\ alive' \subseteq Workers /\ stopping' \subseteq Workers /\ hooked' \subseteq Workers
        /\ noticed' \subseteq Workers
        /\ w \notin {rec.prev, down.prev}
    BY <2>1, SpawnIsNew
  <2>3. rec' \in RecRecord /\ rec'.pc = "validate" /\ rec'.prev = rec.prev /\ rec'.cand = w
    BY <1>1, <2>1, <2>2, UnderWay DEF RecRecord
  <2>4. WorkerTypes'
    BY <1>4, <2>2 DEF WorkersRight, WorkerTypes
  <2>5. DownMeans'
    BY <1>1, <1>4, <2>2 DEF WorkersRight, WInv, DownMeans, Gone
  <2>6. Recovering'
    BY <1>1, <1>4, <2>2, <2>3, UnderWay DEF Recovering
  <2>7. alive' \subseteq {published', rec'.cand} \cup survivors'
    BY <1>1, <1>2, <1>4, <2>2, <2>3, UnderWay
  <2>8. \E v \in Workers, hook \in BOOLEAN : Spawn(v, hook)
    BY <2>1, <2>2
  <2> QED BY <1>1, <1>4, <2>3, <2>4, <2>5, <2>6, <2>7, <2>8, UnderWay, RecoveryMoves
<1> QED BY <1>3, <1>4 DEF SpawnRecovery

LEMMA RecoveredStep ==
  ASSUME WorkersRight, CallsRight, Recovered
  PROVE  WorkersRight' /\ CallsRight'
<1>1. /\ rec.pc = "validate" /\ rec.cand \in alive /\ rec' = Idle
      /\ UNCHANGED <<plan, noticed, survivors, gate, epoch, op, ignored, callVars, down>>
  BY DEF Recovered
<1>2. lock' = Nobody
  BY <1>1, UnderWay DEF Recovered
<1>3. rec.cand \in Workers /\ rec.cand # Nobody
  BY <1>1, Names DEF WorkersRight, WInv, Recovering
<1>4. Recovering'
  BY <1>1, UnderWay DEF Recovering
<1>5. CASE /\ published = rec.prev /\ published' = rec.cand /\ hooked' = hooked \cup {rec.cand}
           /\ attempts' = attempts + 1 /\ UNCHANGED <<alive, stopping>>
  <2>1. attempts' \in 0 .. MaxAttempts
    BY <1>1, <1>5, UnderWay
  <2>2. WorkerTypes'
    BY <1>1, <1>3, <1>5 DEF WorkersRight, WorkerTypes
  <2>3. Gone(published)
    BY <1>1, <1>5, UnderWay DEF Gone
  <2>4. DownMeans'
    BY <1>1, <1>5, <2>3 DEF WorkersRight, WInv, DownMeans, Gone
  <2>5. alive' \subseteq {published', rec'.cand} \cup survivors'
    BY <1>1, <1>5, UnderWay
  <2> QED BY <1>1, <1>2, <1>3, <1>4, <1>5, <2>1, <2>2, <2>4, <2>5, UnderWay, RecoveryMoves
<1>6. CASE /\ alive' = alive \ {rec.cand} /\ stopping' = stopping \cup {rec.cand}
           /\ UNCHANGED <<published, hooked, attempts>>
  <2>1. WorkerTypes'
    BY <1>1, <1>3, <1>6 DEF WorkersRight, WorkerTypes
  <2>2. DownMeans'
    BY <1>1, <1>6 DEF WorkersRight, WInv, DownMeans, Gone
  <2>3. alive' \subseteq {published', rec'.cand} \cup survivors'
    BY <1>1, <1>6, UnderWay
  <2> QED BY <1>1, <1>2, <1>4, <1>6, <2>1, <2>2, <2>3, UnderWay, RecoveryMoves
<1> QED BY <1>5, <1>6 DEF Recovered

LEMMA NotRecoveredStep ==
  ASSUME WorkersRight, CallsRight, NotRecovered
  PROVE  WorkersRight' /\ CallsRight'
<1>1. /\ rec.pc = "validate" /\ stopping' = stopping \cup {rec.cand}
      /\ UNCHANGED <<published, hooked, noticed, gate, epoch, op, callVars, down>>
  BY DEF NotRecovered
<1>2. rec.cand \in Workers
  BY <1>1 DEF WorkersRight, WInv, Recovering
<1>3. /\ plan' \in PlanRecord /\ plan'.kinds = plan.kinds
      /\ survivors \subseteq survivors' /\ survivors' \subseteq Workers
      /\ alive' \subseteq alive /\ (rec.cand \in alive' => rec.cand \in survivors')
  <2>1. CASE alive' = alive \ {rec.cand} /\ UNCHANGED <<plan, survivors>>
    BY <2>1, <1>1, UnderWay DEF WorkersRight, WorkerTypes
  <2>2. CASE Outlives(rec.cand) /\ UNCHANGED alive
    BY <2>2, PlanSpent
  <2> QED BY <2>1, <2>2 DEF NotRecovered
<1>4. /\ attempts' \in 0 .. MaxAttempts /\ ignored' \subseteq Workers /\ lock' \in {"recovery", Nobody}
      /\ \/ rec' = Idle
         \/ /\ rec' = [rec EXCEPT !.pc = "delay", !.cand = Nobody] /\ lock' = "recovery"
            /\ attempts' < MaxAttempts
  <2>1. CASE /\ attempts' = attempts + 1
             /\ IF attempts + 1 < MaxAttempts
                THEN rec' = [rec EXCEPT !.pc = "delay", !.cand = Nobody] /\ UNCHANGED <<lock, ignored>>
                ELSE rec' = Idle /\ lock' = Nobody /\ ignored' = ignored \cup {rec.prev}
    <3>1. attempts' \in 0 .. MaxAttempts
      BY <1>1, <2>1, UnderWay
    <3> QED BY <1>1, <2>1, <3>1, UnderWay
  <2>2. CASE /\ rec' = Idle /\ lock' = Nobody /\ ignored' = ignored \cup {rec.prev}
             /\ UNCHANGED attempts
    BY <1>1, <2>2, UnderWay
  <2> QED BY <2>1, <2>2 DEF NotRecovered
<1>5. \/ rec' = Idle
      \/ rec'.pc = "delay" /\ rec'.prev = rec.prev /\ rec'.cand = Nobody /\ rec' \in RecRecord
  BY <1>1, <1>4, UnderWay DEF RecRecord
<1>6. rec' \in RecRecord /\ Recovering' /\ rec'.cand = Nobody
  BY <1>1, <1>3, <1>4, <1>5, UnderWay DEF Recovering, Idle
<1>7. WorkerTypes'
  BY <1>1, <1>2, <1>3 DEF WorkersRight, WorkerTypes
<1>8. DownMeans'
  BY <1>1, <1>3 DEF WorkersRight, WInv, DownMeans, Gone
<1>9. alive' \subseteq {published', rec'.cand} \cup survivors'
  BY <1>1, <1>3, UnderWay
<1> QED BY <1>1, <1>3, <1>4, <1>6, <1>7, <1>8, <1>9, UnderWay, RecoveryMoves

-----------------------------------------------------------------------------
(* Crashes, and the end of the engine.                                        *)

DownRecord == [pc : {"no", "abort", "settle", "close", "stop", "kill", "done"},
               taken : SUBSET Calls, prev : Workers \cup {Nobody}]

LEMMA FadesRight ==
  ASSUME WorkersRight, Fades, WorkerTypes', WindowTypes', rec' \in RecRecord, UNCHANGED attempts,
         ignored' \subseteq Workers, down' \in DownRecord, Recovering', DownMeans',
         rec'.cand = rec.cand \/ rec.cand \notin alive',
         down'.prev = down.prev \/ down.prev \notin alive' \/ down.prev \in survivors' \/ down.prev = published'
  PROVE  WorkersRight'
<1>1. ThreadTypes'
  BY DEF Fades, WorkersRight, ThreadTypes, DownRecord
<1>2. \A o \in Operations : Holds(o)' /\ Excludes(o)'
  BY OperationsFade
<1>3. NoOrphan' /\ OpenHasWorker'
  BY AccountFades, OpenFades
<1> QED BY <1>1, <1>2, <1>3 DEF WorkersRight, WInv

LEMMA DieStep ==
  ASSUME WorkersRight, CallsRight, NEW w \in Workers, Die(w)
  PROVE  WorkersRight' /\ CallsRight'
<1>1. /\ UNCHANGED <<published, stopping, hooked, noticed, survivors, gate, epoch, lock, op>>
      /\ UNCHANGED <<rec, attempts, ignored, callVars, down>>
      /\ alive' = alive \ {w} /\ plan' = [plan EXCEPT !.crashes = @ - 1] /\ plan.crashes > 0
  BY DEF Die, windowVars, recVars
<1>2. plan' \in PlanRecord /\ plan'.kinds = plan.kinds
  <2>1. plan \in PlanRecord
    BY DEF WorkersRight, ThreadTypes
  <2>2. plan.crashes - 1 \in Nat
    BY <1>1, <2>1 DEF PlanRecord
  <2> QED BY <1>1, <2>1, <2>2 DEF PlanRecord
<1>3. Fades
  BY <1>1, <1>2 DEF Fades, ShuttingDown
<1>4. WorkerTypes' /\ WindowTypes'
  BY <1>1 DEF WorkersRight, WorkerTypes, WindowTypes
<1>5. rec' \in RecRecord /\ ignored' \subseteq Workers /\ down' \in DownRecord
  BY <1>1 DEF WorkersRight, ThreadTypes, DownRecord
<1>6. Recovering' /\ DownMeans'
  BY <1>1 DEF WorkersRight, WInv, Recovering, DownMeans, Gone
<1>7. WorkersRight'
  BY <1>1, <1>3, <1>4, <1>5, <1>6, FadesRight
<1>8. WindowTypes /\ epoch \in Nat
  BY DEF WorkersRight, WindowTypes
<1> QED BY <1>1, <1>7, <1>8, KeepsStill, CallsStill

LEMMA NoticeStep ==
  ASSUME WorkersRight, CallsRight, NEW w \in Workers, Notice(w)
  PROVE  WorkersRight' /\ CallsRight'
<1>1. /\ UNCHANGED <<plan, published, alive, stopping, hooked, survivors, gate, epoch, lock, op, attempts,
                     queue, dispatch, down>>
      /\ w \notin alive /\ noticed' = noticed \cup {w}
      /\ call' = Unanswered(w) /\ deferred' \subseteq deferred
  BY DEF Notice, windowVars
<1>2. \/ rec = Idle /\ rec' = [Idle EXCEPT !.pc = "want", !.prev = w] /\ UNCHANGED ignored
      \/ ignored' = ignored \cup {w} /\ UNCHANGED rec
  BY DEF Notice
<1>3. Fades
  BY <1>1 DEF Fades, ShuttingDown, WorkersRight, ThreadTypes
<1>4. WorkerTypes' /\ WindowTypes' /\ down' \in DownRecord
  BY <1>1 DEF WorkersRight, WorkerTypes, WindowTypes, ThreadTypes, DownRecord
<1>5. rec' \in RecRecord /\ ignored' \subseteq Workers /\ rec'.cand = rec.cand /\ Recovering'
  <2>1. CASE rec = Idle /\ rec' = [Idle EXCEPT !.pc = "want", !.prev = w] /\ UNCHANGED ignored
    <3>1. /\ rec' \in RecRecord /\ rec'.pc = "want" /\ rec'.prev = w /\ rec'.cand = Nobody
          /\ rec.cand = Nobody
      BY <2>1 DEF Idle, RecRecord
    <3> QED BY <1>1, <2>1, <3>1 DEF Recovering, WorkersRight, ThreadTypes
  <2>2. CASE ignored' = ignored \cup {w} /\ UNCHANGED rec
    BY <1>1, <2>2 DEF WorkersRight, ThreadTypes, WInv, Recovering
  <2> QED BY <1>2, <2>1, <2>2
<1>6. DownMeans'
  BY <1>1 DEF WorkersRight, WInv, DownMeans, Gone
<1>7. WorkersRight'
  BY <1>1, <1>3, <1>4, <1>5, <1>6, FadesRight
<1>8. epoch \in Nat
  BY DEF WorkersRight, WindowTypes
<1>9. Keeps
  BY <1>1, <1>8 DEF Keeps, ShuttingDown
<1> QED BY <1>1, <1>7, <1>8, <1>9, CallsFail

LEMMA StopWorkersStep ==
  ASSUME WorkersRight, CallsRight, StopWorkers
  PROVE  WorkersRight' /\ CallsRight'
<1>1. UNCHANGED <<hooked, noticed, gate, epoch, lock, op, rec, attempts, ignored, queue, dispatch>>
  BY DEF StopWorkers, windowVars, recVars, callVars
<1>2. /\ down \in DownRecord /\ epoch \in Nat /\ published \in Workers \cup {Nobody}
      /\ plan \in PlanRecord
  BY DEF WorkersRight, ThreadTypes, WindowTypes, WorkerTypes, DownRecord
<1>3. WindowTypes' /\ rec' \in RecRecord /\ ignored' \subseteq Workers
  BY <1>1 DEF WorkersRight, WindowTypes, ThreadTypes
<1>4. Gone(down.prev) \/ published = down.prev
  BY DEF WorkersRight, WInv, DownMeans
<1>5. CASE down.pc = "stop"
  <2>1. UNCHANGED <<plan, published, alive, survivors, callVars>>
    BY <1>5 DEF StopWorkers
  <2>2. /\ stopping' \subseteq Workers /\ down' \in DownRecord /\ down'.pc # "no"
        /\ down'.prev \in {down.prev, published}
    <3>1. CASE down' = [down EXCEPT !.pc = "done"] /\ UNCHANGED stopping
      BY <1>2, <3>1 DEF DownRecord, WorkersRight, WorkerTypes
    <3>2. CASE /\ published # Nobody /\ stopping' = stopping \cup {published}
               /\ down' = [down EXCEPT !.pc = "kill", !.prev = published]
      BY <1>2, <3>2 DEF DownRecord, WorkersRight, WorkerTypes
    <3> QED BY <1>5, <3>1, <3>2 DEF StopWorkers
  <2>3. Fades
    BY <1>1, <1>2, <2>1, <2>2 DEF Fades, ShuttingDown
  <2>4. WorkerTypes' /\ Recovering' /\ DownMeans'
    BY <1>1, <1>4, <2>1, <2>2 DEF WorkersRight, WorkerTypes, WInv, Recovering, DownMeans, Gone
  <2>5. down'.prev = down.prev \/ down.prev \notin alive' \/ down.prev \in survivors' \/ down.prev = published'
    BY <1>4, <2>1 DEF Gone
  <2>6. WorkersRight'
    BY <1>1, <1>3, <2>2, <2>3, <2>4, <2>5, FadesRight
  <2>7. Keeps
    BY <1>1, <1>2, <2>1, <2>2 DEF Keeps, ShuttingDown
  <2> QED BY <1>2, <2>1, <2>6, <2>7, CallsStill
<1>6. CASE down.pc = "kill"
  <2>1. down' = [down EXCEPT !.pc = "done", !.prev = Nobody] /\ UNCHANGED stopping
    BY <1>6 DEF StopWorkers
  <2>2. down' \in DownRecord /\ down'.pc # "no" /\ down'.prev = Nobody
    BY <1>2, <2>1 DEF DownRecord
  <2>3. /\ plan' \in PlanRecord /\ plan'.kinds = plan.kinds
        /\ survivors \subseteq survivors' /\ survivors' \subseteq Workers
        /\ alive' \subseteq alive /\ (down.prev \in alive' => down.prev \in survivors')
        /\ published' = published \/ (published' = Nobody /\ published = down.prev)
        /\ \/ call' = Unanswered(down.prev) /\ deferred' \subseteq deferred
           \/ UNCHANGED <<call, deferred>>
    <3>1. CASE /\ Kill(down.prev) /\ UNCHANGED <<plan, survivors>>
               /\ published' = IF published = down.prev THEN Nobody ELSE published
      BY <1>2, <3>1 DEF Kill, WorkersRight, WorkerTypes
    <3>2. CASE Outlives(down.prev) /\ UNCHANGED <<alive, call, deferred, published>>
      BY <3>2, PlanSpent
    <3> QED BY <1>6, <3>1, <3>2 DEF StopWorkers
  <2>4. Fades
    BY <1>1, <2>2, <2>3 DEF Fades, ShuttingDown
  <2>5. WorkerTypes'
    BY <1>1, <2>1, <2>3 DEF WorkersRight, WorkerTypes
  <2>6. Recovering'
    BY <1>1, <2>3 DEF WorkersRight, WInv, Recovering
  <2>7. DownMeans'
    BY <2>2, <2>3, <2>5, Names DEF DownMeans, Gone, WorkerTypes
  <2>8. down.prev \notin alive' \/ down.prev \in survivors'
    BY <2>3
  <2>9. WorkersRight'
    BY <1>1, <1>3, <2>2, <2>4, <2>5, <2>6, <2>7, <2>8, FadesRight
  <2>10. Keeps
    BY <1>1, <1>2, <2>2 DEF Keeps, ShuttingDown
  <2>11. CASE call' = Unanswered(down.prev) /\ deferred' \subseteq deferred
    BY <1>1, <1>2, <2>9, <2>10, <2>11, CallsFail
  <2>12. CASE UNCHANGED <<call, deferred>>
    BY <1>1, <1>2, <2>9, <2>10, <2>12, CallsStill DEF callVars
  <2> QED BY <2>3, <2>9, <2>11, <2>12
<1> QED BY <1>5, <1>6 DEF StopWorkers

\* The steps of shutdown before it stops workers.
LEMMA ShutdownMoves ==
  ASSUME WorkersRight, CallsRight, BeginShutdown \/ AbortDeferred \/ SettleAborted \/ CloseDispatcher
  PROVE  WorkersRight' /\ UNCHANGED <<plan, workerVars, epoch, lock, op, recVars, dispatch>> /\ Keeps
<1>1. /\ UNCHANGED <<plan, workerVars, epoch, lock, op, recVars, dispatch>>
      /\ UNCHANGED gate \/ gate' = [gate EXCEPT !.aborted = TRUE]
      /\ \E p \in {"abort", "settle", "close", "stop"}, t \in SUBSET Calls :
           down' = [down EXCEPT !.pc = p, !.taken = t]
  <2>1. down \in DownRecord /\ deferred \subseteq Calls
    BY DEF WorkersRight, ThreadTypes, CallsRight, CallTypes, DownRecord
  <2>2. down = [down EXCEPT !.taken = down.taken] /\ down.taken \in SUBSET Calls
    BY <2>1 DEF DownRecord
  <2>3. \A p : [down EXCEPT !.pc = p] = [down EXCEPT !.pc = p, !.taken = down.taken]
    BY <2>1 DEF DownRecord
  <2>4. CASE BeginShutdown
    BY <2>2, <2>3, <2>4 DEF BeginShutdown, windowVars, callVars
  <2>5. CASE AbortDeferred
    BY <2>1, <2>5 DEF AbortDeferred
  <2>6. CASE SettleAborted
    BY <2>6 DEF SettleAborted, windowVars
  <2>7. CASE CloseDispatcher
    BY <2>2, <2>3, <2>7 DEF CloseDispatcher, windowVars
  <2> QED BY <2>4, <2>5, <2>6, <2>7
<1>2. /\ gate' \in [active : BOOLEAN, waitable : BOOLEAN, aborted : BOOLEAN]
      /\ gate'.active = gate.active /\ gate'.waitable = gate.waitable
  BY <1>1 DEF WorkersRight, WindowTypes
<1>3. down' \in DownRecord /\ down'.prev = down.prev /\ ShuttingDown'
  <2>1. down \in DownRecord
    BY DEF WorkersRight, ThreadTypes, DownRecord
  <2>2. PICK p \in {"abort", "settle", "close", "stop"}, t \in SUBSET Calls :
          down' = [down EXCEPT !.pc = p, !.taken = t]
    BY <1>1
  <2> QED BY <2>1, <2>2 DEF DownRecord, ShuttingDown
<1>4. WorkersRight'
  BY <1>1, <1>2, <1>3, WorkersStill DEF DownRecord
<1>5. Keeps
  BY <1>1, <1>2, <1>3 DEF Keeps, workerVars, WorkersRight, WindowTypes
<1> QED BY <1>1, <1>4, <1>5

LEMMA ShutdownSteps ==
  ASSUME WorkersRight, CallsRight, BeginShutdown \/ AbortDeferred \/ SettleAborted \/ CloseDispatcher
  PROVE  WorkersRight' /\ CallsRight'
<1>1. WorkersRight' /\ UNCHANGED dispatch /\ Keeps
  BY ShutdownMoves
<1>2. /\ deferred' \subseteq Calls /\ queue' \in Seq(Calls)
      /\ call' \in [Calls -> CallRecord]
      /\ \A r \in Calls : call'[r].pc = "admitted" => call'[r] = call[r]
  <2>1. deferred \subseteq Calls /\ queue \in Seq(Calls) /\ call \in [Calls -> CallRecord]
    BY DEF CallsRight, CallTypes
  <2>2. CASE SettleAborted
    <3>1. \A r \in Calls : [call[r] EXCEPT !.pc = "unavailable", !.worker = Nobody] \in CallRecord
                           /\ [call[r] EXCEPT !.pc = "unavailable", !.worker = Nobody].pc = "unavailable"
      BY <2>1 DEF CallRecord, CallPcs, Outcomes
    <3>2. /\ UNCHANGED <<deferred, queue>>
          /\ call' = [r \in Calls |->
               IF r \in down.taken /\ call[r].pc \notin Outcomes
               THEN [call[r] EXCEPT !.pc = "unavailable", !.worker = Nobody] ELSE call[r]]
      BY <2>2 DEF SettleAborted
    <3> QED BY <2>1, <3>1, <3>2
  <2>3. CASE BeginShutdown
    BY <2>1, <2>3 DEF BeginShutdown, callVars
  <2>4. CASE AbortDeferred
    BY <2>1, <2>4 DEF AbortDeferred
  <2>5. CASE CloseDispatcher
    <3>1. queue' = <<>> /\ UNCHANGED <<call, deferred>>
      BY <2>5 DEF CloseDispatcher
    <3>2. queue' \in Seq(Calls)
      BY <3>1
    <3> QED BY <2>1, <3>1, <3>2
  <2> QED BY <2>2, <2>3, <2>4, <2>5
<1>3. epoch \in Nat
  BY DEF WorkersRight, WindowTypes
<1> QED BY <1>1, <1>2, <1>3, CallsFollow

-----------------------------------------------------------------------------
(* Calls.                                                                     *)

DispatchRecord == [pc : {"idle", "wait", "admit", "call"}, call : Calls \cup {Nobody},
                   worker : Workers \cup {Nobody}, epoch : Nat]

\* A worker and an epoch that an admission has just read.
JustGiven(w, e) == ~gate.active /\ w = published /\ e = epoch

LEMMA CallMoves ==
  ASSUME WorkersRight, CallsRight, UNCHANGED <<plan, workerVars, windowVars, op, recVars, down>>,
         call' \in [Calls -> CallRecord], deferred' \subseteq Calls, queue' \in Seq(Calls),
         dispatch' \in DispatchRecord, dispatch'.pc # "idle" => dispatch'.call \in Calls,
         \A r \in Calls : call'[r].pc = "admitted" =>
           call'[r] = call[r] \/ JustGiven(call'[r].worker, call'[r].epoch),
         dispatch'.pc = "call" => dispatch' = dispatch \/ JustGiven(dispatch'.worker, dispatch'.epoch)
  PROVE  WorkersRight' /\ CallsRight'
<1>1. UNCHANGED <<published, noticed, gate, epoch, lock, down>>
  BY DEF workerVars, windowVars
<1>2. WorkersRight'
  <2>1. gate' \in [active : BOOLEAN, waitable : BOOLEAN, aborted : BOOLEAN] /\ down' \in DownRecord
    BY <1>1 DEF WorkersRight, WindowTypes, ThreadTypes, DownRecord
  <2>2. ShuttingDown => ShuttingDown'
    BY <1>1 DEF ShuttingDown
  <2> QED BY <1>1, <2>1, <2>2, WorkersStill DEF DownRecord
<1>3. CallTypes'
  BY DEF CallTypes, DispatchRecord
<1>4. epoch \in Nat
  BY DEF WorkersRight, WindowTypes
<1>5. \A w, e : JustGiven(w, e) => Given(w, e)
  BY <1>4 DEF JustGiven, Given
<1>6. \A w, e : Given(w, e) => /\ e <= epoch'
                               /\ e = epoch' => ~gate'.active /\ (w = published' \/ w \in noticed' \/ ShuttingDown')
  BY <1>1 DEF Given, ShuttingDown
<1>7. ASSUME NEW r \in Calls, call'[r].pc = "admitted"
      PROVE  Given(call[r].worker, call[r].epoch)'
  <2>1. Given(call'[r].worker, call'[r].epoch)
    BY <1>5, <1>7 DEF CallsRight, CallsGiven
  <2> QED BY <1>6, <2>1 DEF Given
<1>8. ASSUME dispatch'.pc = "call"
      PROVE  Given(dispatch.worker, dispatch.epoch)'
  <2>1. Given(dispatch'.worker, dispatch'.epoch)
    BY <1>5, <1>8 DEF CallsRight, CallsGiven
  <2> QED BY <1>6, <2>1 DEF Given
<1>9. CallsGiven'
  BY <1>7, <1>8 DEF CallsGiven
<1> QED BY <1>2, <1>3, <1>9 DEF CallsRight

\* One call goes on or is settled.
OneCall(r, c) == c.pc = "admitted" => JustGiven(c.worker, c.epoch)

LEMMA CallAlone ==
  ASSUME WorkersRight, CallsRight, UNCHANGED <<plan, workerVars, windowVars, op, recVars, down>>,
         NEW r \in Calls, NEW c \in CallRecord, call' = [call EXCEPT ![r] = c], OneCall(r, c),
         deferred' \subseteq deferred \cup {r}, queue' = queue \/ queue' = Append(queue, r),
         UNCHANGED dispatch
  PROVE  WorkersRight' /\ CallsRight'
<1>1. call \in [Calls -> CallRecord] /\ deferred \subseteq Calls /\ queue \in Seq(Calls)
  BY DEF CallsRight, CallTypes
<1>2. dispatch' \in DispatchRecord /\ (dispatch'.pc # "idle" => dispatch'.call \in Calls)
  BY DEF CallsRight, CallTypes, CallsGiven, DispatchRecord
<1>3. call' \in [Calls -> CallRecord] /\ deferred' \subseteq Calls /\ queue' \in Seq(Calls)
  BY <1>1
<1>4. \A q \in Calls : call'[q].pc = "admitted" =>
        call'[q] = call[q] \/ JustGiven(call'[q].worker, call'[q].epoch)
  BY <1>1 DEF OneCall
<1> QED BY <1>2, <1>3, <1>4, CallMoves

\* The step of a call to another place, with or without its worker.
LEMMA CallGoes ==
  ASSUME CallTypes, NEW r \in Calls, NEW p \in CallPcs \ {"admitted"},
         \/ call' = [call EXCEPT ![r].pc = p]
         \/ call' = [call EXCEPT ![r].pc = p, ![r].worker = Nobody]
  PROVE  \E c \in CallRecord : /\ call' = [call EXCEPT ![r] = c] /\ OneCall(r, c)
<1>1. call \in [Calls -> CallRecord]
  BY DEF CallTypes
<1>2. CASE call' = [call EXCEPT ![r].pc = p]
  <2> DEFINE c == [call[r] EXCEPT !.pc = p]
  <2>1. c \in CallRecord /\ OneCall(r, c)
    BY <1>1 DEF CallRecord, OneCall
  <2>2. call' = [call EXCEPT ![r] = c]
    BY <1>1, <1>2
  <2> HIDE DEF c
  <2> QED BY <2>1, <2>2
<1>3. CASE call' = [call EXCEPT ![r].pc = p, ![r].worker = Nobody]
  <2> DEFINE c == [call[r] EXCEPT !.pc = p, !.worker = Nobody]
  <2>1. c \in CallRecord /\ OneCall(r, c)
    BY <1>1 DEF CallRecord, OneCall
  <2>2. call' = [call EXCEPT ![r] = c]
    BY <1>1, <1>3
  <2> HIDE DEF c
  <2> QED BY <2>1, <2>2
<1> QED BY <1>2, <1>3

LEMMA AdmitStep ==
  ASSUME WorkersRight, CallsRight, NEW r \in Calls, Admit(r)
  PROVE  WorkersRight' /\ CallsRight'
<1>1. UNCHANGED <<plan, workerVars, windowVars, op, recVars, deferred, queue, dispatch, down>>
  BY DEF Admit
<1>2. PICK c \in CallRecord : call' = [call EXCEPT ![r] = c] /\ OneCall(r, c)
  <2>1. CASE gate.active
    <3>1. call' = [call EXCEPT ![r].pc = "window"]
      BY <2>1 DEF Admit
    <3>2. "window" \in CallPcs \ {"admitted"}
      BY DEF CallPcs
    <3> QED BY <3>1, <3>2, CallGoes DEF CallsRight
  <2>2. CASE ~gate.active
    <3> DEFINE c == [pc |-> "admitted", worker |-> published, epoch |-> epoch]
    <3>1. call' = [call EXCEPT ![r] = c]
      BY <2>2 DEF Admit
    <3>2. c \in CallRecord
      BY DEF CallRecord, CallPcs, WorkersRight, WorkerTypes, WindowTypes
    <3>3. OneCall(r, c)
      BY <2>2 DEF OneCall, JustGiven
    <3> HIDE DEF c
    <3> QED BY <3>1, <3>2, <3>3
  <2> QED BY <2>1, <2>2
<1> QED BY <1>1, <1>2, CallAlone

LEMMA CallSteps ==
  ASSUME WorkersRight, CallsRight, NEW r \in Calls, CallStep(r)
  PROVE  WorkersRight' /\ CallsRight'
<1>1. /\ UNCHANGED <<plan, workerVars, windowVars, op, recVars, dispatch, down>>
      /\ deferred' \subseteq deferred \cup {r} /\ (queue' = queue \/ queue' = Append(queue, r))
  BY DEF CallStep, Send, Defer, AddDeferred, SubmitDeferred, Answer
<1>2. \E p \in CallPcs \ {"admitted"} :
        \/ call' = [call EXCEPT ![r].pc = p]
        \/ call' = [call EXCEPT ![r].pc = p, ![r].worker = Nobody]
  <2>1. CASE Send(r)
    BY <2>1 DEF Send, Settle, CallPcs, Outcomes
  <2>2. CASE Defer(r)
    BY <2>2 DEF Defer, Settle, CallPcs, Outcomes
  <2>3. CASE AddDeferred(r)
    BY <2>3 DEF AddDeferred, CallPcs
  <2>4. CASE SubmitDeferred(r)
    BY <2>4 DEF SubmitDeferred, CallPcs
  <2>5. CASE Answer(r)
    BY <2>5 DEF Answer, Settle, CallPcs, Outcomes
  <2> QED BY <2>1, <2>2, <2>3, <2>4, <2>5 DEF CallStep
<1>3. PICK c \in CallRecord : call' = [call EXCEPT ![r] = c] /\ OneCall(r, c)
  BY <1>2, CallGoes DEF CallsRight
<1> QED BY <1>1, <1>3, CallAlone

\* The steps of the dispatcher: where it goes, and what it does to the call it has.
LEMMA DispatchMoves ==
  ASSUME WorkersRight, CallsRight, DispatchStep
  PROVE  /\ UNCHANGED <<plan, workerVars, windowVars, op, recVars, down>>
         /\ deferred' \subseteq Calls /\ queue' \in Seq(Calls)
         /\ dispatch' \in DispatchRecord /\ (dispatch'.pc # "idle" => dispatch'.call \in Calls)
         /\ dispatch'.pc = "call" => dispatch' = dispatch \/ JustGiven(dispatch'.worker, dispatch'.epoch)
<1> USE DEF DispatchRecord
<1>1. /\ deferred \subseteq Calls /\ queue \in Seq(Calls) /\ dispatch \in DispatchRecord
      /\ dispatch.pc # "idle" => dispatch.call \in Calls
      /\ published \in Workers \cup {Nobody} /\ epoch \in Nat
  BY DEF CallsRight, CallTypes, CallsGiven, WorkersRight, WorkerTypes, WindowTypes
<1>2. UNCHANGED <<plan, workerVars, windowVars, op, recVars, down>> /\ deferred' \subseteq Calls
  BY <1>1 DEF DispatchStep, TakeDeferred, WindowClosed, GiveUpWaiting, AdmitDeferred, SendDeferred,
       SettleTaken
<1>3. Free \in DispatchRecord /\ Free.pc = "idle"
  BY DEF Free
<1>4. CASE TakeDeferred
  <2>1. queue # <<>> /\ queue' = Tail(queue)
    BY <1>4 DEF TakeDeferred
  <2>2. queue' \in Seq(Calls) /\ Head(queue) \in Calls
    BY <1>1, <2>1
  <2> DEFINE h == Head(queue)
  <2>3. dispatch' = [Free EXCEPT !.pc = "wait", !.call = h] \/ dispatch' = dispatch
    BY <1>4 DEF TakeDeferred
  <2> HIDE DEF h
  <2>4. h \in Calls
    BY <2>2 DEF h
  <2>5. CASE dispatch' = [Free EXCEPT !.pc = "wait", !.call = h]
    BY <1>2, <2>2, <2>4, <2>5 DEF Free
  <2>6. CASE dispatch' = dispatch
    BY <1>1, <1>2, <2>2, <2>6
  <2> QED BY <2>3, <2>5, <2>6
<1>5. CASE WindowClosed
  BY <1>1, <1>2, <1>5 DEF WindowClosed
<1>6. CASE GiveUpWaiting
  BY <1>1, <1>2, <1>3, <1>6 DEF GiveUpWaiting, SettleTaken
<1>7. CASE AdmitDeferred
  <2>1. dispatch.pc = "admit" /\ UNCHANGED queue
    BY <1>7 DEF AdmitDeferred
  <2>2. CASE gate.active
    BY <1>1, <1>2, <1>7, <2>1, <2>2 DEF AdmitDeferred
  <2>3. CASE ~gate.active
    <3>1. dispatch' = [dispatch EXCEPT !.pc = "call", !.worker = published, !.epoch = epoch]
      BY <1>7, <2>3 DEF AdmitDeferred
    <3>2. dispatch'.worker = published /\ dispatch'.epoch = epoch /\ dispatch'.call = dispatch.call
      BY <1>1, <3>1
    <3>3. dispatch' \in DispatchRecord
      BY <1>1, <3>1
    <3> QED BY <1>1, <1>2, <2>1, <2>3, <3>2, <3>3 DEF JustGiven
  <2> QED BY <2>2, <2>3
<1>8. CASE SendDeferred
  <2>1. /\ dispatch.pc = "call" /\ UNCHANGED queue
        /\ dispatch' = Free \/ dispatch' = [dispatch EXCEPT !.pc = "wait", !.worker = Nobody]
    BY <1>8 DEF SendDeferred, SettleTaken
  <2> QED BY <1>1, <1>2, <1>3, <2>1
<1> QED BY <1>4, <1>5, <1>6, <1>7, <1>8 DEF DispatchStep

LEMMA DispatchCalls ==
  ASSUME WorkersRight, CallsRight, DispatchStep
  PROVE  call' \in [Calls -> CallRecord] /\ \A r \in Calls : call'[r].pc = "admitted" => call'[r] = call[r]
<1>1. /\ queue \in Seq(Calls) /\ call \in [Calls -> CallRecord]
      /\ dispatch.pc # "idle" => dispatch.call \in Calls
      /\ dispatch.worker \in Workers \cup {Nobody}
  BY DEF CallsRight, CallTypes, CallsGiven
<1>2. \/ UNCHANGED call
      \/ \E r \in Calls : \E p \in CallPcs \ {"admitted"}, w \in Workers \cup {Nobody} :
           \/ call' = [call EXCEPT ![r].pc = p]
           \/ call' = [call EXCEPT ![r].pc = p, ![r].worker = w]
  <2>1. CASE TakeDeferred
    <3>1. queue # <<>> /\ (UNCHANGED call \/ call' = [call EXCEPT ![Head(queue)].pc = "taken"])
      BY <2>1 DEF TakeDeferred
    <3>2. Head(queue) \in Calls
      BY <1>1, <3>1
    <3> QED BY <3>1, <3>2 DEF CallPcs
  <2>2. CASE WindowClosed \/ AdmitDeferred
    BY <2>2 DEF WindowClosed, AdmitDeferred
  <2>3. CASE GiveUpWaiting
    BY <1>1, <2>3 DEF GiveUpWaiting, SettleTaken, Settle, CallPcs, Outcomes
  <2>4. CASE SendDeferred
    <3>1. dispatch.call \in Calls
      BY <1>1, <2>4 DEF SendDeferred
    <3>2. \/ UNCHANGED call
          \/ call' = [call EXCEPT ![dispatch.call].pc = "pending", ![dispatch.call].worker = dispatch.worker]
          \/ Settle(dispatch.call, "unknown") \/ Settle(dispatch.call, "gone")
      BY <2>4 DEF SendDeferred, SettleTaken
    <3> QED BY <1>1, <3>1, <3>2 DEF Settle, CallPcs, Outcomes
  <2> QED BY <2>1, <2>2, <2>3, <2>4 DEF DispatchStep
<1>3. ASSUME NEW r \in Calls, NEW p \in CallPcs \ {"admitted"}, NEW w \in Workers \cup {Nobody},
             \/ call' = [call EXCEPT ![r].pc = p]
             \/ call' = [call EXCEPT ![r].pc = p, ![r].worker = w]
      PROVE  call' \in [Calls -> CallRecord] /\ \A q \in Calls : call'[q].pc = "admitted" => call'[q] = call[q]
  <2>1. [call[r] EXCEPT !.pc = p] \in CallRecord /\ [call[r] EXCEPT !.pc = p, !.worker = w] \in CallRecord
    BY <1>1 DEF CallRecord
  <2>2. [call[r] EXCEPT !.pc = p].pc = p /\ [call[r] EXCEPT !.pc = p, !.worker = w].pc = p
    BY <1>1 DEF CallRecord
  <2>3. \/ call' = [call EXCEPT ![r] = [call[r] EXCEPT !.pc = p]]
        \/ call' = [call EXCEPT ![r] = [call[r] EXCEPT !.pc = p, !.worker = w]]
    BY <1>1, <1>3
  <2>4. PICK c \in CallRecord : call' = [call EXCEPT ![r] = c] /\ c.pc = p
    BY <2>1, <2>2, <2>3
  <2> QED BY <1>1, <2>4
<1> QED BY <1>1, <1>2, <1>3

LEMMA DispatchSteps ==
  ASSUME WorkersRight, CallsRight, DispatchStep
  PROVE  WorkersRight' /\ CallsRight'
BY DispatchMoves, DispatchCalls, CallMoves

-----------------------------------------------------------------------------
(* The invariant.                                                             *)

LEMMA InitRight ==
  ASSUME Init
  PROVE  WorkersRight /\ CallsRight
<1>1. published \in Workers /\ published # Nobody
  BY SwitchAssumption DEF Init
<1>2. Idle \in OpRecord /\ Idle \in RecRecord /\ Idle.pc = "idle" /\ Idle.prev = Nobody /\ Idle.cand = Nobody
  BY DEF Idle, OpRecord, RecRecord
<1>3. /\ alive = {published} /\ hooked = {published} /\ stopping = {} /\ noticed = {} /\ survivors = {}
      /\ gate = [active |-> FALSE, waitable |-> FALSE, aborted |-> FALSE] /\ epoch = 0 /\ lock = Nobody
      /\ op = [o \in Operations |-> Idle] /\ rec = Idle /\ attempts = 0 /\ ignored = {}
      /\ down = [pc |-> "no", taken |-> {}, prev |-> Nobody]
  BY DEF Init
<1>4. plan \in PlanRecord
  BY SwitchAssumption DEF Init, PlanRecord
<1>5. WorkerTypes /\ WindowTypes
  BY <1>1, <1>3 DEF WorkerTypes, WindowTypes
<1>6. ThreadTypes
  <2>1. op \in [Operations -> OpRecord] /\ rec \in RecRecord
    BY <1>2, <1>3
  <2>2. attempts \in 0 .. MaxAttempts
    BY <1>3, SwitchAssumption
  <2>3. down \in DownRecord
    BY <1>3 DEF DownRecord
  <2> QED BY <1>3, <1>4, <2>1, <2>2, <2>3 DEF ThreadTypes, DownRecord
<1>7. ASSUME NEW o \in Operations
      PROVE  Holds(o) /\ Excludes(o)
  <2>1. op[o] = Idle
    BY <1>3
  <2> QED BY <1>2, <2>1 DEF Holds, Excludes, Critical
<1>8. Recovering /\ DownMeans /\ NoOrphan /\ OpenHasWorker
  <2>1. Recovering
    BY <1>2, <1>3 DEF Recovering
  <2>2. DownMeans
    BY <1>1, <1>3 DEF DownMeans, Gone
  <2>3. NoOrphan /\ OpenHasWorker
    BY <1>1, <1>3 DEF NoOrphan, OpenHasWorker
  <2> QED BY <2>1, <2>2, <2>3
<1>9. /\ call = [r \in Calls |-> [pc |-> "new", worker |-> Nobody, epoch |-> 0]]
      /\ deferred = {} /\ queue = <<>> /\ dispatch = Free
  BY DEF Init
<1>10. Free \in DispatchRecord /\ Free.pc = "idle"
  BY DEF Free, DispatchRecord
<1>11. CallTypes
  <2>1. [pc |-> "new", worker |-> Nobody, epoch |-> 0] \in CallRecord
    BY DEF CallRecord, CallPcs
  <2>2. call \in [Calls -> CallRecord]
    BY <1>9, <2>1
  <2> QED BY <1>9, <1>10, <2>2 DEF CallTypes, DispatchRecord
<1>12. CallsGiven
  BY <1>9, <1>10 DEF CallsGiven
<1> QED BY <1>5, <1>6, <1>7, <1>8, <1>11, <1>12 DEF WorkersRight, CallsRight, WInv

LEMMA StutterStep ==
  ASSUME WorkersRight, CallsRight, UNCHANGED vars
  PROVE  WorkersRight' /\ CallsRight'
<1>1. UNCHANGED <<plan, workerVars, windowVars, op, recVars, down>> /\ UNCHANGED <<call, deferred, queue, dispatch>>
  BY DEF vars, callVars
<1>2. /\ call' \in [Calls -> CallRecord] /\ deferred' \subseteq Calls /\ queue' \in Seq(Calls)
      /\ dispatch' \in DispatchRecord /\ (dispatch'.pc # "idle" => dispatch'.call \in Calls)
  BY <1>1 DEF CallsRight, CallTypes, CallsGiven, DispatchRecord
<1> QED BY <1>1, <1>2, CallMoves

LEMMA OperationSteps ==
  ASSUME WorkersRight, CallsRight, NEW o \in Operations,
         SwitchStep(o) \/ Suspended(o) \/ Resume(o) \/ AskSwitch(o) \/ Suspend(o)
  PROVE  WorkersRight' /\ CallsRight'
BY BeginSwitchStep, StopPreviousStep, KillPreviousStep, SpawnCandidateStep, ValidateStep, PublishStep,
   DropStep, RollbackStep, RestoreStep, EndSwitchStep, SuspendedStep, ResumeStep, AskSwitchStep, SuspendStep
   DEF SwitchStep

LEMMA Inductive ==
  ASSUME IInv, [Next]_vars
  PROVE  IInv'
<1> SUFFICES WorkersRight' /\ CallsRight'
  <2>1. (TypeOK' /\ plan' \in PlanRecord) <=> (WorkerTypes' /\ WindowTypes' /\ ThreadTypes' /\ CallTypes')
    BY DEF TypeOK, WorkerTypes, WindowTypes, ThreadTypes, CallTypes, OpRecord, RecRecord, CallPcs,
           CallRecord
  <2> QED BY <2>1 DEF IInv, WorkersRight, CallsRight
<1>1. WorkersRight /\ CallsRight
  BY InParts
<1>2. CASE \E o \in Operations : SwitchStep(o) \/ Suspended(o) \/ Resume(o) \/ AskSwitch(o) \/ Suspend(o)
  BY <1>1, <1>2, OperationSteps
<1>3. CASE \E w \in Workers : Notice(w) \/ Die(w)
  BY <1>1, <1>3, NoticeStep, DieStep
<1>4. CASE RecoveryStep
  BY <1>1, <1>4, RecoverStep, SpawnRecoveryStep, RecoveredStep, NotRecoveredStep DEF RecoveryStep
<1>5. CASE DispatchStep
  BY <1>1, <1>5, DispatchSteps
<1>6. CASE ShutdownStep \/ BeginShutdown
  BY <1>1, <1>6, ShutdownSteps, StopWorkersStep DEF ShutdownStep
<1>7. CASE \E r \in Calls : CallStep(r) \/ Admit(r)
  BY <1>1, <1>7, CallSteps, AdmitStep
<1>8. CASE UNCHANGED vars
  BY <1>1, <1>8, StutterStep
<1> QED BY <1>2, <1>3, <1>4, <1>5, <1>6, <1>7, <1>8 DEF Next, OwnStep

\* Every state keeps the types, the account of the processes, what an operation with
\* the lock promises (_begin_switch, suspend_for_maintenance, _recover_worker) and
\* what the calls were given (_admit_call).
THEOREM Invariance == Spec => []IInv
<1>1. Init => IInv
  BY InitRight, InParts
<1>2. IInv /\ [Next]_vars => IInv'
  BY Inductive
<1> QED BY <1>1, <1>2, PTL DEF Spec

\* No process is left behind by a switch, its rollback, maintenance, a recovery or
\* shutdown, and outside the windows there is a worker to give to a call.
THEOREM WorkersAreAccounted == Spec => []WorkersAccounted
<1>1. IInv => WorkersAccounted
  BY DEF IInv, WInv, WorkersAccounted
<1> QED BY <1>1, Invariance, PTL

\* During a maintenance session no worker runs but one that outlived a stop, whatever
\* crashes, recovers or shuts down meanwhile, and no call waits for it
\* (maintenance_session).
THEOREM SessionIsQuiet == Spec => []SessionQuiet
<1>1. ASSUME IInv, NEW o \in Operations, plan.kinds[o] = "session", op[o].pc = "inside"
      PROVE  alive \subseteq survivors /\ gate.active /\ ~gate.waitable
  <2>1. WorkersRight
    BY <1>1, InParts
  <2>2. Critical(o)
    BY <1>1 DEF Critical
  <2>3. op[o].prev = Nobody /\ op[o].cand = Nobody /\ ~gate.waitable
    BY <1>1, <2>1, <2>2 DEF WorkersRight, WInv, Holds, Excludes
  <2>4. gate.active /\ alive \subseteq {Nobody} \cup survivors /\ Nobody \notin alive
    BY <1>1, <2>1, <2>2, <2>3, Mine
  <2> QED BY <2>3, <2>4
<1>2. IInv => SessionQuiet
  BY <1>1 DEF SessionQuiet
<1> QED BY <1>2, Invariance, PTL

-----------------------------------------------------------------------------
(* Calls that are refused.                                                    *)

Refused(r) == call[r].pc \in {"admitted", "taken"} /\ call'[r].pc \in {"gone", "unknown"}

LEMMA FailedNotRefused ==
  ASSUME CallsRight, NEW w, call' = Unanswered(w), NEW r \in Calls
  PROVE  ~Refused(r)
<1>1. [call[r] EXCEPT !.pc = "failed", !.worker = Nobody].pc = "failed"
  BY DEF CallsRight, CallTypes, CallRecord
<1> QED BY <1>1 DEF Unanswered, Refused

\* Only the admission of the call itself refuses it.
LEMMA WhoRefuses ==
  ASSUME CallsRight, [Next]_vars, NEW r \in Calls, Refused(r)
  PROVE  Send(r) \/ (SendDeferred /\ dispatch.call = r /\ call[r].pc = "taken")
<1>1. call \in [Calls -> CallRecord] /\ queue \in Seq(Calls) /\ ~UNCHANGED call
  BY DEF CallsRight, CallTypes, Refused
<1>2. call'[r] # call[r]
  BY DEF Refused
<1>3. ASSUME NEW q \in Calls, call' = [call EXCEPT ![q].pc = "unavailable", ![q].worker = Nobody]
      PROVE  FALSE
  BY <1>1, <1>3 DEF Refused, CallRecord
<1>4. ASSUME NEW o \in Operations, SwitchStep(o) \/ Suspended(o) \/ Resume(o) \/ AskSwitch(o) \/ Suspend(o)
      PROVE  FALSE
  <2>1. UNCHANGED call \/ \E w : call' = Unanswered(w)
    BY <1>4 DEF SwitchStep, BeginSwitch, StopPrevious, KillPrevious, SpawnCandidate, Validate, Publish, Drop,
         Rollback, Restore, EndSwitch, Suspended, Resume, AskSwitch, Suspend, Kill, callVars
  <2> QED BY <1>1, <2>1, FailedNotRefused
<1>5. ASSUME NEW w \in Workers, Notice(w) \/ Die(w)
      PROVE  FALSE
  BY <1>1, <1>5, FailedNotRefused DEF Notice, Die, callVars
<1>6. CASE RecoveryStep \/ BeginShutdown \/ UNCHANGED vars
  BY <1>1, <1>6 DEF RecoveryStep, Recover, SpawnRecovery, Recovered, NotRecovered, BeginShutdown, vars, callVars
<1>7. CASE ShutdownStep
  <2>1. CASE SettleAborted
    <3>1. [call[r] EXCEPT !.pc = "unavailable", !.worker = Nobody].pc = "unavailable"
      BY <1>1 DEF CallRecord
    <3> QED BY <1>2, <2>1, <3>1 DEF SettleAborted, Refused
  <2>2. CASE AbortDeferred \/ CloseDispatcher \/ StopWorkers
    <3>1. UNCHANGED call \/ \E w : call' = Unanswered(w)
      BY <2>2 DEF AbortDeferred, CloseDispatcher, StopWorkers, Kill, callVars
    <3> QED BY <1>1, <3>1, FailedNotRefused
  <2> QED BY <1>7, <2>1, <2>2 DEF ShutdownStep
<1>8. CASE DispatchStep
  <2>1. CASE TakeDeferred
    <3>1. queue # <<>> /\ (UNCHANGED call \/ call' = [call EXCEPT ![Head(queue)].pc = "taken"])
      BY <2>1 DEF TakeDeferred
    <3>2. Head(queue) \in Calls
      BY <1>1, <3>1
    <3> QED BY <1>1, <3>1, <3>2 DEF Refused, CallRecord
  <2>2. CASE WindowClosed \/ AdmitDeferred
    BY <1>1, <2>2 DEF WindowClosed, AdmitDeferred
  <2>3. CASE GiveUpWaiting
    <3>1. dispatch.call \in Calls
      BY <2>3 DEF GiveUpWaiting, CallsRight, CallsGiven
    <3> QED BY <1>1, <1>3, <2>3, <3>1 DEF GiveUpWaiting, SettleTaken, Settle
  <2>4. CASE SendDeferred
    <3>1. dispatch.call = r /\ call[dispatch.call].pc = "taken"
      BY <1>1, <1>2, <2>4 DEF SendDeferred, SettleTaken, Settle
    <3> QED BY <2>4, <3>1
  <2> QED BY <1>8, <2>1, <2>2, <2>3, <2>4 DEF DispatchStep
<1>9. ASSUME NEW q \in Calls, CallStep(q) \/ Admit(q)
      PROVE  Send(r)
  <2>1. q = r
    BY <1>1, <1>2, <1>9 DEF CallStep, Send, Defer, AddDeferred, SubmitDeferred, Answer, Admit, Settle
  <2>2. ~Defer(r) /\ ~AddDeferred(r) /\ ~SubmitDeferred(r) /\ ~Answer(r) /\ ~Admit(r)
    BY DEF Defer, AddDeferred, SubmitDeferred, Answer, Admit, Refused
  <2> QED BY <1>9, <2>1, <2>2 DEF CallStep
<1> QED BY <1>4, <1>5, <1>6, <1>7, <1>8, <1>9 DEF Next, OwnStep

\* The worker of a call that is refused was not stopped by a change that is over.
LEMMA RefusedRightly ==
  ASSUME CallsRight, NEW w, NEW e, Given(w, e), ~InProgress(e)
  PROVE  w \notin stopping \ noticed \/ published = w \/ ShuttingDown
BY DEF Given, InProgress

\* A call that was admitted before a change of the runtime, and finds its worker
\* stopped by it, is kept waiting and not refused, also when the change began and
\* ended in between (_switch_in_progress, _retry_after_switch).
THEOREM NotLost == Spec => NotLostToSwitch
<1> DEFINE Kept(r) == (call[r].pc \in {"admitted", "taken"} /\ call'[r].pc \in {"gone", "unknown"}) =>
                         LET w == IF call[r].pc = "taken" THEN dispatch.worker ELSE call[r].worker IN
                         w \notin stopping \ noticed \/ published = w \/ ShuttingDown
<1>1. ASSUME IInv, [Next]_vars, NEW r \in Calls
      PROVE  Kept(r)
  <2> SUFFICES ASSUME Refused(r)
               PROVE  LET w == IF call[r].pc = "taken" THEN dispatch.worker ELSE call[r].worker IN
                      w \notin stopping \ noticed \/ published = w \/ ShuttingDown
    BY DEF Refused
  <2>1. CallsRight
    BY <1>1, InParts
  <2>2. CASE Send(r)
    <3>1. call[r].pc = "admitted" /\ ~InProgress(call[r].epoch)
      <4>1. call \in [Calls -> CallRecord]
        BY <2>1 DEF CallsRight, CallTypes
      <4>2. call' # [call EXCEPT ![r].pc = "pending"]
        BY <4>1 DEF CallRecord, Refused
      <4>3. call' # [call EXCEPT ![r].pc = "window", ![r].worker = Nobody]
        BY <4>1 DEF CallRecord, Refused
      <4> QED BY <2>2, <4>2, <4>3 DEF Send
    <3>2. Given(call[r].worker, call[r].epoch)
      BY <2>1, <3>1 DEF CallsRight, CallsGiven
    <3> QED BY <2>1, <3>1, <3>2, RefusedRightly
  <2>3. CASE SendDeferred /\ dispatch.call = r /\ call[r].pc = "taken"
    <3>1. dispatch.pc = "call" /\ ~InProgress(dispatch.epoch)
      <4>1. call \in [Calls -> CallRecord]
        BY <2>1 DEF CallsRight, CallTypes
      <4> QED BY <2>3, <4>1 DEF SendDeferred, Refused, CallRecord
    <3>2. Given(dispatch.worker, dispatch.epoch)
      BY <2>1, <3>1 DEF CallsRight, CallsGiven
    <3> QED BY <2>1, <2>3, <3>1, <3>2, RefusedRightly
  <2> QED BY <1>1, <2>1, <2>2, <2>3, WhoRefuses
<1>2. IInv /\ [Next]_vars => [\A r \in Calls : Kept(r)]_vars
  BY <1>1
<1> QED BY <1>2, Invariance, PTL DEF Spec, NotLostToSwitch
=============================================================================
