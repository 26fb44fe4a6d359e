------------------------- MODULE TaskSupervisorProofs -------------------------
(***************************************************************************)
(* Proofs about TaskSupervisor, for any set of tasks and owners and any      *)
(* requests and sweeps: its type invariant and NamesExclusive,               *)
(* ShutdownReachesAll and NoLateBegin.                                       *)
(*                                                                         *)
(* None is inductive.  That an older task of a name has been stopped when a  *)
(* newer one begins rests on what its request found under the replacement    *)
(* lock, long before: the invariant says what a request in each of its       *)
(* stages may find under its name now.                                       *)
(***************************************************************************)
EXTENDS TaskSupervisor, TLAPS

\* The stages of a request in which it has the replacement lock.
Holding == {"waiting", "free", "launching", "storing"}

\* One request at a time is in them; only futures are queued, stored and watched.
LockHeld ==
  /\ \A t \in Tasks : request[t] \in Holding => lock = t
  /\ \A t \in Tasks : request[t] = "storing" \/ t \in watched \/ phase[t] = "queued"
                        => ~IsThread(t)

\* A task acts only once its request has launched it.
Launched ==
  /\ \A t \in Tasks : phase[t] # "none" => request[t] \in {"storing", "done"}
  /\ \A t \in watched : request[t] = "done"

\* A name means a registered task of that name, from its registration to its end.
NamesMean ==
  /\ \A k \in Keys : named[k] # NoTask =>
       Key(named[k]) = k /\ request[named[k]] \in {"launching", "storing", "done"}
  /\ \A t \in Tasks : request[t] \in {"launching", "storing"} => named[Key(t)] = t

\* Some request of the name of t allows overlap.
Overlapping(t) == \E v \in Tasks : Key(v) = Key(t) /\ plan.of[v].overlap

\* A task that can act is the one its name means, or one that was replaced: then it was
\* asked to stop, and overlap is allowed.
NamesFound ==
  \A t \in Tasks : Live(t) =>
    /\ t \in stop \/ named[Key(t)] = t
    /\ named[Key(t)] = t \/ Overlapping(t)

\* A request that has the lock knows what its name means: nothing, or a task that was
\* asked to stop, that it waits for, or that it may run beside.
PredecessorKnown ==
  \A t \in Tasks : request[t] \in {"waiting", "free"} =>
    LET w == named[Key(t)] IN
    /\ w \in Tasks /\ Live(w) => w \in stop
    /\ request[t] = "waiting" => w \in {NoTask, previous[t]}
    /\ request[t] = "free" /\ w \in Tasks /\ Live(w) => plan.of[t].overlap

\* From its registration until it is over a task is in the registry.
Registered ==
  \A t \in Tasks :
    request[t] \in {"launching", "storing"} \/ phase[t] \in {"queued", "body", "done"}
      => t \in records

\* A sweep reaches its snapshot, shutdown all that can act or is about to be launched.
Sweeping ==
  /\ \A s \in Sweepers, t \in Tasks : t \in sweep[s] => t \in stop \cup toMark[s]
  /\ closed <=> "app" \in swept
  /\ closed => \A t \in Tasks :
       request[t] \in {"launching", "storing"} \/ Live(t) => t \in stop \cup toMark["app"]

\* The inductive invariant.
IInv == /\ TypeOK /\ LockHeld /\ Launched /\ NamesMean /\ NamesFound
        /\ PredecessorKnown /\ Registered /\ Sweeping

-----------------------------------------------------------------------------
(* What a step may leave alone.                                             *)

\* Tasks may end and be asked to stop.
Calmer ==
  /\ stop \subseteq stop'
  /\ \A t \in Tasks : phase'[t] \in {"queued", "body"} => Live(t)

\* No name is taken or given up.
LEMMA NamesFrame ==
  ASSUME NamesMean, NamesFound, PredecessorKnown, Calmer, UNCHANGED <<plan, named, request, previous>>
  PROVE  NamesMean' /\ NamesFound' /\ PredecessorKnown'
<1> USE DEF Key
<1>1. NamesMean'
  BY DEF NamesMean, Keys
<1>2. NamesFound'
  BY DEF NamesFound, Overlapping, Calmer, Live
<1>3. PredecessorKnown'
  BY DEF PredecessorKnown, Calmer, Live
<1> QED BY <1>1, <1>2, <1>3

\* No sweep moves and no task is launched.
LEMMA SweepsFrame ==
  ASSUME Sweeping, Calmer, UNCHANGED <<closed, sweep, toMark, swept>>,
         \A t \in Tasks : request'[t] \in {"launching", "storing"} =>
                          request[t] \in {"launching", "storing"}
  PROVE  Sweeping'
BY DEF Sweeping, Calmer, Live

\* The replacement lock has one holder.
LEMMA OneHolder ==
  ASSUME IInv, NEW t \in Tasks, request[t] \in Holding
  PROVE  lock = t /\ \A u \in Tasks : request[u] \in Holding => u = t
BY DEF IInv, LockHeld

\* A request begins: nothing is held yet.
LEMMA AskStep ==
  ASSUME IInv, NEW t \in Tasks, Ask(t)
  PROVE  IInv'
<1> USE TasksAssumption DEF IInv, Key, IsThread, Live, Ask,
        requestVars, taskVars, tableVars, clockVars, sweepVars, dogVars
<1>1. TypeOK'
  BY DEF TypeOK, Keys, Sweepers
<1>2. LockHeld'
  BY DEF TypeOK, LockHeld, Holding
<1>3. Launched'
  BY DEF TypeOK, LockHeld, Launched
<1>4. NamesMean'
  BY DEF TypeOK, Keys, LockHeld, Launched, NamesMean, Holding
<1>5. NamesFound'
  BY DEF TypeOK, Keys, LockHeld, Launched, NamesMean, NamesFound, Overlapping, Holding
<1>6. PredecessorKnown'
  BY DEF TypeOK, Keys, LockHeld, Launched, NamesMean, PredecessorKnown, Holding
<1>7. Registered'
  BY DEF TypeOK, LockHeld, Launched, Registered, Holding
<1>8. Sweeping'
  BY DEF TypeOK, Sweepers, LockHeld, Launched, Registered, Sweeping, Holding
<1> QED BY <1>1, <1>2, <1>3, <1>4, <1>5, <1>6, <1>7, <1>8

\* A request is refused and gives the lock back.
LEMMA WaitTimesOutStep ==
  ASSUME IInv, NEW t \in Tasks, WaitTimesOut(t)
  PROVE  IInv'
<1> USE TasksAssumption DEF IInv, Key, IsThread, Live, WaitTimesOut,
        requestVars, taskVars, tableVars, clockVars, sweepVars, dogVars
<1>1. Calmer
  BY DEF TypeOK, Calmer
<1>2. TypeOK'
  BY DEF TypeOK, Keys, Sweepers
<1>3. LockHeld'
  BY DEF TypeOK, LockHeld, Holding
<1>4. Launched'
  BY DEF TypeOK, LockHeld, Launched
<1>5. NamesMean'
  BY DEF TypeOK, Keys, LockHeld, Launched, NamesMean, Holding
<1>6. NamesFound'
  BY DEF TypeOK, Keys, LockHeld, Launched, NamesMean, NamesFound, Overlapping, Holding
<1>7. PredecessorKnown'
  BY DEF TypeOK, Keys, LockHeld, Launched, NamesMean, PredecessorKnown, Holding
<1>8. Registered'
  BY DEF TypeOK, LockHeld, Launched, Registered, Holding
<1>9. Sweeping'
  BY <1>1, SweepsFrame DEF TypeOK
<1> QED BY <1>2, <1>3, <1>4, <1>5, <1>6, <1>7, <1>8, <1>9

\* A thread begins under the name its request took.
LEMMA StartThreadStep ==
  ASSUME IInv, NEW t \in Tasks, StartThread(t)
  PROVE  IInv'
<1> USE TasksAssumption DEF IInv, Key, IsThread, Live, StartThread,
        requestVars, taskVars, tableVars, clockVars, sweepVars, dogVars
<1>1. TypeOK'
  BY DEF TypeOK, Keys, Sweepers
<1>2. LockHeld'
  BY DEF TypeOK, LockHeld, Holding
<1>3. Launched'
  BY DEF TypeOK, LockHeld, Launched
<1>4. NamesMean'
  <2>1. Keys' = Keys /\ \A k \in Keys : named'[k] \in {named[k], NoTask}
    BY DEF TypeOK, Keys
  <2>2. \A k \in Keys : named[k] # NoTask => named[k] \in Tasks
    BY DEF TypeOK
  <2>3. \A u \in Tasks : request'[u] \in {"launching", "storing"} => named'[Key(u)] = u
    BY OneHolder DEF TypeOK, NamesMean, Keys, Holding
  <2>4. ASSUME NEW k \in Keys, named'[k] # NoTask
        PROVE  /\ Key(named'[k]) = k
               /\ request'[named'[k]] \in {"launching", "storing", "done"}
    <3>1. named'[k] = named[k] /\ named[k] \in Tasks
      BY <2>1, <2>2, <2>4
    <3> QED BY <3>1 DEF TypeOK, NamesMean
  <2> QED BY <2>1, <2>3, <2>4 DEF NamesMean
<1>5. NamesFound'
  BY DEF TypeOK, Keys, LockHeld, Launched, NamesMean, NamesFound, Overlapping, Holding
<1>6. PredecessorKnown'
  BY OneHolder DEF TypeOK, PredecessorKnown, Holding
<1>7. Registered'
  BY DEF TypeOK, LockHeld, Launched, Registered, Holding
<1>8. Sweeping'
  BY DEF TypeOK, Sweepers, LockHeld, Launched, Registered, Sweeping, Holding
<1> QED BY <1>1, <1>2, <1>3, <1>4, <1>5, <1>6, <1>7, <1>8

\* A future is queued under the name its request took.
LEMMA EnqueueStep ==
  ASSUME IInv, NEW t \in Tasks, Enqueue(t)
  PROVE  IInv'
<1> USE TasksAssumption DEF IInv, Key, IsThread, Live, Enqueue,
        requestVars, taskVars, tableVars, clockVars, sweepVars, dogVars
<1>1. TypeOK'
  BY DEF TypeOK, Keys, Sweepers
<1>2. LockHeld'
  BY DEF TypeOK, LockHeld, Holding
<1>3. Launched'
  BY DEF TypeOK, LockHeld, Launched
<1>4. NamesMean'
  <2>1. Keys' = Keys /\ \A k \in Keys : named'[k] \in {named[k], NoTask}
    BY DEF TypeOK, Keys
  <2>2. \A k \in Keys : named[k] # NoTask => named[k] \in Tasks
    BY DEF TypeOK
  <2>3. \A u \in Tasks : request'[u] \in {"launching", "storing"} => named'[Key(u)] = u
    BY OneHolder DEF TypeOK, NamesMean, Keys, Holding
  <2>4. ASSUME NEW k \in Keys, named'[k] # NoTask
        PROVE  /\ Key(named'[k]) = k
               /\ request'[named'[k]] \in {"launching", "storing", "done"}
    <3>1. named'[k] = named[k] /\ named[k] \in Tasks
      BY <2>1, <2>2, <2>4
    <3> QED BY <3>1 DEF TypeOK, NamesMean
  <2> QED BY <2>1, <2>3, <2>4 DEF NamesMean
<1>5. NamesFound'
  BY DEF TypeOK, Keys, LockHeld, Launched, NamesMean, NamesFound, Overlapping, Holding
<1>6. PredecessorKnown'
  BY OneHolder DEF TypeOK, PredecessorKnown, Holding
<1>7. Registered'
  BY DEF TypeOK, LockHeld, Launched, Registered, Holding
<1>8. Sweeping'
  BY DEF TypeOK, Sweepers, LockHeld, Launched, Registered, Sweeping, Holding
<1> QED BY <1>1, <1>2, <1>3, <1>4, <1>5, <1>6, <1>7, <1>8

\* A launch fails: the name is given up again.
LEMMA LaunchFailsStep ==
  ASSUME IInv, NEW t \in Tasks, LaunchFails(t)
  PROVE  IInv'
<1> USE TasksAssumption DEF IInv, Key, IsThread, Live, LaunchFails, Forget,
        requestVars, taskVars, tableVars, clockVars, sweepVars, dogVars
<1>1. Calmer
  BY DEF TypeOK, Calmer
<1>2. TypeOK'
  BY DEF TypeOK, Keys, Sweepers
<1>3. LockHeld'
  BY DEF TypeOK, LockHeld, Holding
<1>4. Launched'
  BY DEF TypeOK, LockHeld, Launched
<1>5. NamesMean'
  <2>1. Keys' = Keys /\ \A k \in Keys : named'[k] \in {named[k], NoTask}
    BY DEF TypeOK, Keys
  <2>2. \A k \in Keys : named[k] # NoTask => named[k] \in Tasks
    BY DEF TypeOK
  <2>3. \A u \in Tasks : request'[u] \in {"launching", "storing"} => named'[Key(u)] = u
    BY OneHolder DEF TypeOK, NamesMean, Keys, Holding
  <2>4. ASSUME NEW k \in Keys, named'[k] # NoTask
        PROVE  /\ Key(named'[k]) = k
               /\ request'[named'[k]] \in {"launching", "storing", "done"}
    <3>1. named'[k] = named[k] /\ named[k] \in Tasks
      BY <2>1, <2>2, <2>4
    <3>2. named[k] # t
      BY <2>4 DEF TypeOK, NamesMean, Keys
    <3> QED BY <3>1, <3>2 DEF TypeOK, NamesMean
  <2> QED BY <2>1, <2>3, <2>4 DEF NamesMean
<1>6. NamesFound'
  BY DEF TypeOK, Keys, LockHeld, Launched, NamesMean, NamesFound, Overlapping, Holding
<1>7. PredecessorKnown'
  BY OneHolder DEF TypeOK, PredecessorKnown, Holding
<1>8. Registered'
  BY DEF TypeOK, LockHeld, Launched, Registered, Holding
<1>9. Sweeping'
  BY <1>1, SweepsFrame DEF TypeOK
<1> QED BY <1>2, <1>3, <1>4, <1>5, <1>6, <1>7, <1>8, <1>9

\* The future is stored and the lock given back.
LEMMA StoreFutureStep ==
  ASSUME IInv, NEW t \in Tasks, StoreFuture(t)
  PROVE  IInv'
<1> USE TasksAssumption DEF IInv, Key, IsThread, Live, StoreFuture,
        requestVars, taskVars, tableVars, clockVars, sweepVars, dogVars
<1>1. Calmer
  BY DEF TypeOK, Calmer
<1>2. TypeOK'
  BY DEF TypeOK, Keys, Sweepers
<1>3. LockHeld'
  BY DEF TypeOK, LockHeld, Holding
<1>4. Launched'
  BY DEF TypeOK, LockHeld, Launched
<1>5. NamesMean'
  BY DEF TypeOK, Keys, LockHeld, Launched, NamesMean, Holding
<1>6. NamesFound'
  BY DEF TypeOK, Keys, LockHeld, Launched, NamesMean, NamesFound, Overlapping, Holding
<1>7. PredecessorKnown'
  BY DEF TypeOK, Keys, LockHeld, Launched, NamesMean, PredecessorKnown, Holding
<1>8. Registered'
  BY DEF TypeOK, LockHeld, Launched, Registered, Holding
<1>9. Sweeping'
  BY <1>1, SweepsFrame DEF TypeOK
<1> QED BY <1>2, <1>3, <1>4, <1>5, <1>6, <1>7, <1>8, <1>9

\* A pool worker begins a future or finds it stopped.
LEMMA TakeStep ==
  ASSUME IInv, NEW t \in Tasks, Take(t)
  PROVE  IInv'
<1> USE TasksAssumption DEF IInv, Key, IsThread, Live, Take,
        requestVars, taskVars, tableVars, clockVars, sweepVars, dogVars
<1>1. Calmer
  BY DEF TypeOK, Calmer
<1>2. TypeOK'
  BY DEF TypeOK, Keys, Sweepers
<1>3. LockHeld'
  BY DEF TypeOK, LockHeld, Holding
<1>4. Launched'
  BY DEF TypeOK, LockHeld, Launched
<1>5. NamesMean' /\ NamesFound' /\ PredecessorKnown'
  BY <1>1, NamesFrame
<1>6. Registered'
  BY DEF TypeOK, LockHeld, Launched, Registered, Holding
<1>7. Sweeping'
  BY <1>1, SweepsFrame DEF TypeOK
<1> QED BY <1>2, <1>3, <1>4, <1>5, <1>6, <1>7

\* A task's function returns.
LEMMA ReturnStep ==
  ASSUME IInv, NEW t \in Tasks, Return(t)
  PROVE  IInv'
<1> USE TasksAssumption DEF IInv, Key, IsThread, Live, Return,
        requestVars, taskVars, tableVars, clockVars, sweepVars, dogVars
<1>1. Calmer
  BY DEF TypeOK, Calmer
<1>2. TypeOK'
  BY DEF TypeOK, Keys, Sweepers
<1>3. LockHeld'
  BY DEF TypeOK, LockHeld, Holding
<1>4. Launched'
  BY DEF TypeOK, LockHeld, Launched
<1>5. NamesMean' /\ NamesFound' /\ PredecessorKnown'
  BY <1>1, NamesFrame
<1>6. Registered'
  BY DEF TypeOK, LockHeld, Launched, Registered, Holding
<1>7. Sweeping'
  BY <1>1, SweepsFrame DEF TypeOK
<1> QED BY <1>2, <1>3, <1>4, <1>5, <1>6, <1>7

\* A finished task leaves the registry, and its name if it still has it.
LEMMA FinishStep ==
  ASSUME IInv, NEW t \in Tasks, Finish(t)
  PROVE  IInv'
<1> USE TasksAssumption DEF IInv, Key, IsThread, Live, Finish, Forget,
        requestVars, taskVars, tableVars, clockVars, sweepVars, dogVars
<1>1. Calmer
  BY DEF TypeOK, Calmer
<1>2. TypeOK'
  BY DEF TypeOK, Keys, Sweepers
<1>3. LockHeld'
  BY DEF TypeOK, LockHeld, Holding
<1>4. Launched'
  BY DEF TypeOK, LockHeld, Launched
<1>5. NamesMean'
  BY DEF TypeOK, Keys, LockHeld, Launched, NamesMean, Holding
<1>6. NamesFound'
  BY DEF TypeOK, Keys, LockHeld, Launched, NamesMean, NamesFound, Overlapping, Holding
<1>7. PredecessorKnown'
  <2>1. \A u \in Tasks : named'[Key(u)] \in {named[Key(u)], NoTask}
    BY DEF TypeOK, Keys
  <2> QED BY <1>1, <2>1, TasksAssumption DEF TypeOK, PredecessorKnown, Calmer
<1>8. Registered'
  BY DEF TypeOK, LockHeld, Launched, Registered, Holding
<1>9. Sweeping'
  BY <1>1, SweepsFrame DEF TypeOK
<1> QED BY <1>2, <1>3, <1>4, <1>5, <1>6, <1>7, <1>8, <1>9

\* A deadline passes.
LEMMA DeadlinePassesStep ==
  ASSUME IInv, NEW t \in Tasks, DeadlinePasses(t)
  PROVE  IInv'
<1> USE TasksAssumption DEF IInv, Key, IsThread, Live, DeadlinePasses,
        requestVars, taskVars, tableVars, clockVars, sweepVars, dogVars
<1>1. Calmer
  BY DEF TypeOK, Calmer
<1>2. TypeOK'
  BY DEF TypeOK, Keys, Sweepers
<1>3. LockHeld'
  BY DEF TypeOK, LockHeld, Holding
<1>4. Launched'
  BY DEF TypeOK, LockHeld, Launched
<1>5. NamesMean' /\ NamesFound' /\ PredecessorKnown'
  BY <1>1, NamesFrame
<1>6. Registered'
  BY DEF TypeOK, LockHeld, Launched, Registered, Holding
<1>7. Sweeping'
  BY <1>1, SweepsFrame DEF TypeOK
<1> QED BY <1>2, <1>3, <1>4, <1>5, <1>6, <1>7

\* A sweep takes its snapshot, shutdown closes the registry.
LEMMA SnapshotStep ==
  ASSUME IInv, NEW s \in plan.sweeps, Snapshot(s)
  PROVE  IInv'
<1> USE TasksAssumption DEF IInv, Key, IsThread, Live, Snapshot, Of,
        requestVars, taskVars, tableVars, clockVars, sweepVars, dogVars
<1>1. Calmer
  BY DEF TypeOK, Calmer
<1>2. TypeOK'
  <2>1. s \in Sweepers
    BY DEF TypeOK, Sweepers
  <2>2. Of(s) \subseteq Tasks
    BY DEF TypeOK
  <2> HIDE DEF Of
  <2> QED BY <2>1, <2>2 DEF TypeOK, Keys, Sweepers
<1>3. LockHeld'
  BY DEF TypeOK, LockHeld, Holding
<1>4. Launched'
  BY DEF TypeOK, LockHeld, Launched
<1>5. NamesMean' /\ NamesFound' /\ PredecessorKnown'
  BY <1>1, NamesFrame
<1>6. Registered'
  BY DEF TypeOK, LockHeld, Launched, Registered, Holding
<1>7. Sweeping'
  BY DEF TypeOK, Sweepers, LockHeld, Launched, Registered, Sweeping, Holding
<1> QED BY <1>2, <1>3, <1>4, <1>5, <1>6, <1>7

\* A sweep asks one task to stop.
LEMMA MarkOneStep ==
  ASSUME IInv, NEW s \in plan.sweeps, NEW t \in Tasks, MarkOne(s, t)
  PROVE  IInv'
<1> USE TasksAssumption DEF IInv, Key, IsThread, Live, MarkOne, Mark, Ended,
        requestVars, taskVars, tableVars, clockVars, sweepVars, dogVars
<1>1. Calmer
  BY DEF TypeOK, Calmer
<1>2. TypeOK'
  BY DEF TypeOK, Keys, Sweepers
<1>3. LockHeld'
  BY DEF TypeOK, LockHeld, Holding
<1>4. Launched'
  BY DEF TypeOK, LockHeld, Launched
<1>5. NamesMean' /\ NamesFound' /\ PredecessorKnown'
  BY <1>1, NamesFrame
<1>6. Registered'
  BY DEF TypeOK, LockHeld, Launched, Registered, Holding
<1>7. Sweeping'
  BY DEF TypeOK, Sweepers, LockHeld, Launched, Registered, Sweeping, Holding
<1> QED BY <1>2, <1>3, <1>4, <1>5, <1>6, <1>7

\* The watchdog claims what is overdue.
LEMMA ScanStep ==
  ASSUME IInv, Scan
  PROVE  IInv'
<1> USE TasksAssumption DEF IInv, Key, IsThread, Live, Scan, Overdue,
        requestVars, taskVars, tableVars, clockVars, sweepVars, dogVars
<1>1. Calmer
  BY DEF TypeOK, Calmer
<1>2. TypeOK'
  BY DEF TypeOK, Keys, Sweepers
<1>3. LockHeld'
  BY DEF TypeOK, LockHeld, Holding
<1>4. Launched'
  BY DEF TypeOK, LockHeld, Launched
<1>5. NamesMean' /\ NamesFound' /\ PredecessorKnown'
  BY <1>1, NamesFrame
<1>6. Registered'
  BY DEF TypeOK, LockHeld, Launched, Registered, Holding
<1>7. Sweeping'
  BY <1>1, SweepsFrame DEF TypeOK
<1> QED BY <1>2, <1>3, <1>4, <1>5, <1>6, <1>7

\* The watchdog asks one task to stop.
LEMMA CancelExpiredStep ==
  ASSUME IInv, CancelExpired
  PROVE  IInv'
<1> USE TasksAssumption DEF IInv, Key, IsThread, Live, CancelExpired, Mark, Ended,
        requestVars, taskVars, tableVars, clockVars, sweepVars, dogVars
<1>1. Calmer
  BY DEF TypeOK, Calmer
<1>2. TypeOK'
  BY DEF TypeOK, Keys, Sweepers
<1>3. LockHeld'
  BY DEF TypeOK, LockHeld, Holding
<1>4. Launched'
  BY DEF TypeOK, LockHeld, Launched
<1>5. NamesMean' /\ NamesFound' /\ PredecessorKnown'
  BY <1>1, NamesFrame
<1>6. Registered'
  BY DEF TypeOK, LockHeld, Launched, Registered, Holding
<1>7. Sweeping'
  BY <1>1, SweepsFrame DEF TypeOK
<1> QED BY <1>2, <1>3, <1>4, <1>5, <1>6, <1>7

\* There is no task of the name that runs, or one that may not be replaced, or one
\* that is asked to stop.
LEMMA FindPreviousStep ==
  ASSUME IInv, NEW t \in Tasks, FindPrevious(t)
  PROVE  IInv'
<1> DEFINE p == Predecessor(t)
<1> USE TasksAssumption DEF IInv, Key, IsThread, Live,
        requestVars, taskVars, tableVars, clockVars, sweepVars, dogVars
<1>1. /\ request[t] = "asked" /\ lock = NoTask /\ Key(t) \in Keys
      /\ UNCHANGED <<plan, closed, watched, tableVars, clockVars, sweepVars, dogVars>>
      /\ \A u \in Tasks : request[u] \notin Holding
  BY DEF FindPrevious, Keys, LockHeld
<1>2. p \in Tasks \cup {NoTask}
  BY <1>1 DEF Predecessor, TypeOK
<1>3. named[Key(t)] \in Tasks /\ Live(named[Key(t)]) => p = named[Key(t)]
  BY DEF Predecessor, Running, LockHeld, Launched
<1>4. CASE /\ p = NoTask
           /\ lock' = t
           /\ request' = [request EXCEPT ![t] = "free"]
           /\ UNCHANGED <<previous, stop, phase>>
  <2> HIDE DEF p
  <2>1. Calmer
    BY <1>4 DEF Calmer
  <2>2. TypeOK'
    BY <1>1, <1>4 DEF TypeOK, Keys, Sweepers
  <2>3. LockHeld' /\ Launched' /\ Registered' /\ NamesFound'
    BY <1>1, <1>4 DEF TypeOK, LockHeld, Launched, Registered, NamesFound, Overlapping, Holding
  <2>4. NamesMean'
    BY <1>1, <1>4 DEF TypeOK, NamesMean, Keys
  <2>5. PredecessorKnown'
    BY <1>1, <1>3, <1>4 DEF TypeOK, PredecessorKnown, Holding
  <2>6. Sweeping'
    BY <1>1, <1>4, <2>1, SweepsFrame DEF TypeOK
  <2> QED BY <2>2, <2>3, <2>4, <2>5, <2>6
<1>5. CASE /\ p # NoTask /\ ~plan.of[t].replace
           /\ request' = [request EXCEPT ![t] = "refused"]
           /\ UNCHANGED <<lock, previous, stop, phase>>
  <2> HIDE DEF p
  <2>1. Calmer
    BY <1>5 DEF Calmer
  <2>2. TypeOK'
    BY <1>1, <1>5 DEF TypeOK, Keys, Sweepers
  <2>3. LockHeld' /\ Launched' /\ Registered' /\ NamesFound'
    BY <1>1, <1>5 DEF TypeOK, LockHeld, Launched, Registered, NamesFound, Overlapping, Holding
  <2>4. NamesMean'
    BY <1>1, <1>5 DEF TypeOK, NamesMean, Keys
  <2>5. PredecessorKnown'
    BY <1>1, <1>5 DEF TypeOK, PredecessorKnown, Holding
  <2>6. Sweeping'
    BY <1>1, <1>5, <2>1, SweepsFrame DEF TypeOK
  <2> QED BY <2>2, <2>3, <2>4, <2>5, <2>6
<1>6. CASE /\ p # NoTask /\ plan.of[t].replace
           /\ Mark({p})
           /\ lock' = t
           /\ previous' = [previous EXCEPT ![t] = p]
           /\ request' = [request EXCEPT ![t] = IF plan.of[t].overlap THEN "free" ELSE "waiting"]
  <2>1. p = named[Key(t)]
    BY <1>6 DEF Predecessor
  <2> HIDE DEF p
  <2>2. Calmer
    BY <1>1, <1>6 DEF Calmer, Mark, Ended, TypeOK
  <2>3. TypeOK'
    BY <1>1, <1>2, <1>6 DEF TypeOK, Keys, Sweepers, Mark, Ended
  <2>4. LockHeld' /\ Launched' /\ Registered'
    BY <1>1, <1>2, <1>6 DEF TypeOK, LockHeld, Launched, Registered, Holding, Mark, Ended
  <2>5. NamesMean'
    BY <1>1, <1>6 DEF TypeOK, NamesMean, Keys
  <2>6. NamesFound'
    BY <1>1, <2>2 DEF NamesFound, Overlapping, Calmer
  <2>7. PredecessorKnown'
    <3>1. p \in stop' /\ previous'[t] = p /\ named' = named
      BY <1>1, <1>2, <1>6 DEF Mark, TypeOK
    <3>2. \A u \in Tasks : request'[u] \in {"waiting", "free"} => u = t
      BY <1>1, <1>6 DEF TypeOK, Holding
    <3>3. request'[t] = "free" => plan.of[t].overlap
      BY <1>6 DEF TypeOK
    <3> QED BY <1>1, <2>1, <3>1, <3>2, <3>3 DEF PredecessorKnown
  <2>8. Sweeping'
    BY <1>1, <1>6, <2>2, SweepsFrame DEF TypeOK
  <2> QED BY <2>3, <2>4, <2>5, <2>6, <2>7, <2>8
<1> QED BY <1>4, <1>5, <1>6 DEF FindPrevious

\* The request is refused after a close, or takes its name.
LEMMA RegisterStep ==
  ASSUME IInv, NEW t \in Tasks, Register(t)
  PROVE  IInv'
<1> USE TasksAssumption DEF IInv, Key, IsThread, Live,
        requestVars, taskVars, tableVars, clockVars, sweepVars, dogVars
<1>1. /\ request[t] \in {"free", "waiting"} /\ lock = t /\ Key(t) \in Keys
      /\ UNCHANGED <<plan, closed, previous, taskVars, clockVars, sweepVars, dogVars>>
      /\ \A u \in Tasks : request[u] \in Holding => u = t
      /\ phase[t] = "none" /\ t \notin watched
  BY DEF Register, Ready, Keys, LockHeld, Launched, Holding, TypeOK
<1>2. Calmer
  BY <1>1 DEF Calmer
<1>3. CASE /\ closed
           /\ request' = [request EXCEPT ![t] = "refused"]
           /\ lock' = NoTask
           /\ UNCHANGED tableVars
  <2>1. TypeOK'
    BY <1>1, <1>3 DEF TypeOK, Keys, Sweepers
  <2>2. LockHeld' /\ Launched' /\ Registered' /\ NamesFound'
    BY <1>1, <1>3 DEF TypeOK, LockHeld, Launched, Registered, NamesFound, Overlapping, Holding
  <2>3. NamesMean'
    <3>1. \A k \in Keys : named[k] # NoTask => named[k] \in Tasks \ {t}
      BY <1>1 DEF TypeOK, NamesMean
    <3>2. Keys' = Keys
      BY <1>1 DEF Keys
    <3> QED BY <1>1, <1>3, <3>1, <3>2 DEF TypeOK, NamesMean
  <2>4. PredecessorKnown'
    BY <1>1, <1>3 DEF TypeOK, PredecessorKnown, Holding
  <2>5. Sweeping'
    BY <1>1, <1>2, <1>3, SweepsFrame DEF TypeOK
  <2> QED BY <2>1, <2>2, <2>3, <2>4, <2>5
<1>4. CASE /\ ~closed
           /\ request' = [request EXCEPT ![t] = "launching"]
           /\ records' = records \cup {t}
           /\ named' = [named EXCEPT ![Key(t)] = t]
           /\ UNCHANGED lock
  <2>1. TypeOK'
    BY <1>1, <1>4 DEF TypeOK, Keys, Sweepers
  <2>2. LockHeld' /\ Launched' /\ Registered'
    BY <1>1, <1>4 DEF TypeOK, LockHeld, Launched, Registered, Holding
  <2>3. NamesMean'
    <3>1. \A k \in Keys : named[k] # NoTask => named[k] \in Tasks \ {t}
      BY <1>1 DEF TypeOK, NamesMean
    <3>2. Keys' = Keys
      BY <1>1 DEF Keys
    <3>3. \A k \in Keys : named'[k] = IF k = Key(t) THEN t ELSE named[k]
      BY <1>4 DEF TypeOK
    <3>4. \A u \in Tasks \ {t} : request'[u] = request[u] /\ request[u] \notin Holding
      BY <1>1, <1>4 DEF TypeOK
    <3> QED BY <1>1, <1>4, <3>1, <3>2, <3>3, <3>4 DEF TypeOK, NamesMean, Holding
  <2>4. ASSUME NEW w \in Tasks, Live(w), Key(w) = Key(t)
        PROVE  w \in stop /\ Overlapping(w)
    <3>1. w \in stop
      BY <1>1, <2>4 DEF NamesFound, PredecessorKnown
    <3>2. CASE named[Key(t)] # w
      BY <2>4, <3>2 DEF NamesFound
    <3>3. CASE named[Key(t)] = w /\ request[t] = "free"
      BY <1>1, <2>4, <3>3 DEF PredecessorKnown, Overlapping
    <3>4. CASE named[Key(t)] = w /\ request[t] = "waiting"
      <4>1. previous[t] = w /\ ~Running(w)
        BY <1>1, <3>4 DEF Register, Ready, PredecessorKnown
      <4> QED BY <2>4, <4>1 DEF Running, LockHeld
    <3> QED BY <1>1, <3>1, <3>2, <3>3, <3>4
  <2>5. NamesFound'
    BY <1>1, <1>4, <2>4 DEF TypeOK, NamesFound, Overlapping
  <2>6. PredecessorKnown'
    BY <1>1, <1>4 DEF TypeOK, PredecessorKnown, Holding
  <2>7. Sweeping'
    BY <1>1, <1>4 DEF TypeOK, Sweeping, Sweepers
  <2> QED BY <2>1, <2>2, <2>3, <2>5, <2>6, <2>7
<1> QED BY <1>3, <1>4 DEF Register

-----------------------------------------------------------------------------
\* Every step keeps the invariant.
LEMMA NextStep == ASSUME IInv, [Next]_vars PROVE IInv'
<1>1. CASE UNCHANGED vars
  BY <1>1 DEF vars, requestVars, taskVars, tableVars, clockVars, sweepVars, dogVars,
     IInv, TypeOK, LockHeld, Launched, NamesMean, NamesFound, PredecessorKnown, Registered,
     Sweeping, Key, Keys, IsThread, Live, Overlapping
<1>2. CASE \E t \in Tasks : Ask(t) \/ RequestStep(t) \/ TaskStep(t) \/ DeadlinePasses(t)
  BY <1>2, AskStep, FindPreviousStep, WaitTimesOutStep, RegisterStep, StartThreadStep,
     EnqueueStep, LaunchFailsStep, StoreFutureStep, TakeStep, ReturnStep, FinishStep,
     DeadlinePassesStep DEF RequestStep, TaskStep
<1>3. CASE \E s \in plan.sweeps : Snapshot(s) \/ \E t \in Tasks : MarkOne(s, t)
  BY <1>3, SnapshotStep, MarkOneStep
<1>4. CASE DogStep
  BY <1>4, ScanStep, CancelExpiredStep DEF DogStep
<1> QED BY <1>1, <1>2, <1>3, <1>4 DEF Next

\* Nothing is launched at first.
LEMMA InitHolds == ASSUME Init PROVE IInv
BY TasksAssumption DEF Init, IInv, TypeOK, LockHeld, Launched, NamesMean, NamesFound,
   PredecessorKnown, Registered, Sweeping, Sweepers, Live, Keys, Key, Holding

\* The strengthened invariant is one.
THEOREM Invariance == Spec => []IInv
<1>1. Init => IInv
  BY InitHolds
<1>2. IInv /\ [Next]_vars => IInv'
  BY NextStep
<1> QED BY <1>1, <1>2, PTL DEF Spec

\* Whatever is asked for and cancelled when, at most one task of an owner and a name has
\* not been asked to stop, and two never run side by side where no request allows it
\* (start_thread, submit under _replacement_lock).
THEOREM NamesAreExclusive == Spec => []NamesExclusive
<1>1. ASSUME IInv PROVE OneUnstopped
  BY <1>1 DEF IInv, NamesFound, OneUnstopped
<1>2. ASSUME IInv PROVE NeverTwice
  BY <1>2 DEF IInv, NamesFound, NeverTwice, Overlapping
<1>3. IInv => NamesExclusive
  BY <1>1, <1>2 DEF IInv, NamesExclusive
<1> QED BY <1>3, Invariance, PTL

\* shutdown, once it has returned, has asked every task that can still act to stop.
THEOREM ShutdownIsComplete == Spec => []ShutdownReachesAll
<1>1. IInv => ShutdownReachesAll
  BY DEF IInv, Sweeping, ShutdownReachesAll, Returned
<1> QED BY <1>1, Invariance, PTL

\* A pool function that cancel_owner or shutdown covered does not begin after it.
THEOREM NoneBeginsLate == Spec => NoLateBegin
<1> DEFINE Begins == \A s \in Sweepers, t \in Tasks :
       (Returned(s) /\ t \in sweep[s] /\ ~IsThread(t)) =>
          ~(phase[t] # "body" /\ phase'[t] = "body")
<1>1. ASSUME IInv, [Next]_vars PROVE Begins
  <2> SUFFICES ASSUME NEW s \in Sweepers, NEW t \in Tasks, Returned(s), t \in sweep[s],
                      ~IsThread(t), phase[t] # "body", phase'[t] = "body"
               PROVE  FALSE
    OBVIOUS
  <2>1. t \in stop
    BY <1>1 DEF IInv, Sweeping, Returned
  <2>2. Take(t) \/ StartThread(t)
    <3>1. ~UNCHANGED phase /\ ~DogStep /\ \A r \in plan.sweeps, u \in Tasks : ~MarkOne(r, u)
      BY DEF DogStep, Scan, CancelExpired, MarkOne, Mark, Ended, taskVars
    <3>2. \E u \in Tasks : Ask(u) \/ RequestStep(u) \/ TaskStep(u) \/ DeadlinePasses(u)
      BY <1>1, <3>1 DEF Next, Snapshot, vars, taskVars
    <3>3. PICK u \in Tasks : FindPrevious(u) \/ StartThread(u) \/ Enqueue(u) \/ Take(u)
                             \/ Return(u) \/ Finish(u)
      BY <3>1, <3>2 DEF RequestStep, TaskStep, Ask, DeadlinePasses, WaitTimesOut, Register,
         LaunchFails, StoreFuture, taskVars
    <3>4. FindPrevious(u) => phase'[t] \in {phase[t], "done"}
      BY DEF FindPrevious, Mark, Ended
    <3>5. Enqueue(u) \/ Return(u) \/ Finish(u) => phase'[t] \in {phase[t], "queued", "done", "over"}
      BY <1>1 DEF IInv, TypeOK, Enqueue, Return, Finish
    <3>6. Take(u) \/ StartThread(u) => phase'[t] = phase[t] \/ u = t
      BY <1>1 DEF IInv, TypeOK, Take, StartThread
    <3>7. Take(u) \/ StartThread(u)
      BY <3>3, <3>4, <3>5
    <3> QED BY <3>6, <3>7
  <2> QED BY <1>1, <2>1, <2>2 DEF Take, StartThread, IInv, TypeOK
<1>2. IInv /\ [Next]_vars => [Begins]_vars
  BY <1>1
<1> QED BY <1>2, Invariance, PTL DEF Spec, NoLateBegin
=============================================================================
