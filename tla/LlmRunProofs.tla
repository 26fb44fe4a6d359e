----------------------------- MODULE LlmRunProofs -----------------------------
(***************************************************************************)
(* Proofs about LlmRun and its pool, for any runs, plans, calls and limits: *)
(* the books of the pool are exact, a slot stands for a worker, no admitted *)
(* call starves behind a hung one, and a chat stream has one source.        *)
(***************************************************************************)
EXTENDS LlmRun, FiniteSetTheorems, SequenceTheorems, TLAPS

\* An admitted call has a future from the moment the executor has it.
FutureMeans ==
  \A c \in Calls : future[c] = "none" <=> admission[c] \in {"new", "counted", "refused"}

\* The queue holds calls that no worker has taken, each once, and stop markers only at
\* the end of a shutdown.
QueueMeans ==
  /\ \A i \in DOMAIN queue : queue[i] # Stop => future[queue[i]] \in {"pending", "cancelled"}
  /\ \A i, j \in DOMAIN queue : queue[i] = queue[j] /\ queue[i] # Stop => i = j
  /\ closing # "closed" => \A i \in DOMAIN queue : queue[i] # Stop

\* A worker that is busy has a call of its own, which runs until the worker is done.
Busy(t) == worker[t] \in {"taken", "calling", "done"}
ServeMeans ==
  /\ \A t \in Workers : Busy(t) <=> serves[t] \in Calls
  /\ \A t \in Workers : worker[t] \in {"taken", "calling"} => future[serves[t]] = "running"
  /\ \A t \in Workers : worker[t] = "done" => future[serves[t]] \in Final
  /\ \A t, u \in Workers : Busy(t) /\ Busy(u) /\ serves[t] = serves[u] => t = u

\* While a call is given up, its worker is retired or has left.
HandoverMeans ==
  /\ \A t \in retired : worker[t] \in {"calling", "done"}
  /\ \A c \in Calls : handover[c] \in {"marked", "replaced", "failed"} =>
       /\ future[c] \in {"running"} \cup Final
       /\ \A t \in Workers : serves[t] = c => t \in retired

\* A call that waits or runs holds its slot; only a watched one has a reservation.
SlotsHeld ==
  /\ \A c \in reserved : admission[c] = "watched"
  /\ \A c \in Calls : future[c] = "pending" => c \in Entering \cup reserved
  /\ \A t \in Workers : worker[t] \in {"taken", "calling"} /\ handover[serves[t]] # "over" =>
       serves[t] \in Entering \cup reserved
  /\ SlotMeansWorker

\* Whoever is given up is replaced by one worker at most.
Failing == {c \in Calls : handover[c] \in {"marked", "failed"}}
Limits == /\ inflight <= Capacity
          /\ Cardinality(retired) <= MaxRetired
          /\ Cardinality(Serving) + Cardinality(Failing) <= MaxWorkers

PoolIInv == /\ PoolTypeOK /\ FutureMeans /\ QueueMeans /\ ServeMeans /\ HandoverMeans
            /\ SlotsHeld /\ Limits /\ InflightExact /\ WorkersKept

\* A call that says nothing and will say nothing to the stream of its run.
Silent(r, c) ==
  /\ c \notin heard[r]
  /\ \/ admission[c] \in {"new", "refused"}
     \/ future[c] \in Final
     \/ c \in token /\ c \notin checked

\* Where a run is about to make a call, or to go on to another one.
Aside(r) == \/ pc[r] \in {"attempt", "reserve", "delay", "rebuild"}
            \/ pc[r] = "next" /\ abortChain[r] = FALSE

Aborting == {"abort", "grace", "giveUp", "handover", "timedOut"}

\* Only the call a run is at may be heard, and that no more once the run goes on.
Sourced(r) ==
  todo[r].wire = "chat" =>
    /\ \A c \in CallsOf(r) : c # Call(r) \/ Aside(r) => Silent(r, c)
    /\ pc[r] \in Aborting => Call(r) \in token
    /\ heard[r] \subseteq body
    /\ \A c \in CallsOf(r) \cap checked : c \in body

\* Where a run is in its chain.
InChain(r) == /\ pc[r] \notin {"next"} \cup Over => preset[r] > 0
              /\ pc[r] \in {"delay", "rebuild"} => attempt[r] < todo[r].attempts
              /\ heard[r] \subseteq CallsOf(r)

RunsTyped == preset \in [Runs -> Nat] /\ attempt \in [Runs -> Nat]

IInv == /\ TypeOK /\ PoolIInv /\ RunsTyped
        /\ \A r \in Runs : InChain(r) /\ Sourced(r)

-----------------------------------------------------------------------------
(* The pool: sets and counts.                                               *)

LEMMA PoolFinite ==
  /\ IsFiniteSet(Workers) /\ Cardinality(Calls) \in Nat
  /\ IsFiniteSet(Serving) /\ Cardinality(Serving) \in Nat
  /\ IsFiniteSet(Handing) /\ Cardinality(Handing) \in Nat
  /\ IsFiniteSet(Failing) /\ Cardinality(Failing) \in Nat
  /\ IsFiniteSet(Entering) /\ Cardinality(Entering) \in Nat
<1>1. Cardinality(Calls) \in Nat
  BY PoolAssumption, FS_CardinalityType
<1>2. IsFiniteSet(Workers)
  BY <1>1, PoolAssumption, FS_Interval DEF Workers
<1>3. IsFiniteSet(Serving)
  BY <1>2, FS_Subset DEF Serving
<1>4. IsFiniteSet(Handing) /\ IsFiniteSet(Failing) /\ IsFiniteSet(Entering)
  BY PoolAssumption, FS_Subset DEF Handing, Failing, Entering
<1> QED BY <1>1, <1>2, <1>3, <1>4, FS_CardinalityType

LEMMA TypesFinite ==
  ASSUME PoolTypeOK
  PROVE  /\ IsFiniteSet(retired) /\ Cardinality(retired) \in Nat
         /\ IsFiniteSet(reserved) /\ Cardinality(reserved) \in Nat
         /\ inflight \in Nat /\ startFails \in Nat
         /\ Capacity \in Nat /\ MaxWorkers \in Nat /\ MaxRetired \in Nat
<1>1. IsFiniteSet(retired)
  BY PoolFinite, FS_Subset DEF PoolTypeOK
<1>2. IsFiniteSet(reserved)
  BY PoolAssumption, FS_Subset DEF PoolTypeOK
<1> QED BY <1>1, <1>2, PoolAssumption, FS_CardinalityType DEF PoolTypeOK

\* A set that gains or loses one element.
LEMMA OneMore ==
  ASSUME NEW S, NEW x, IsFiniteSet(S), x \notin S
  PROVE  Cardinality(S \cup {x}) = Cardinality(S) + 1
BY FS_AddElement

LEMMA OneLess ==
  ASSUME NEW S, NEW x, IsFiniteSet(S), x \in S
  PROVE  /\ Cardinality(S \ {x}) = Cardinality(S) - 1
         /\ Cardinality(S) \in Nat /\ Cardinality(S) >= 1
<1>1. IsFiniteSet(S \ {x}) /\ Cardinality(S \ {x}) = Cardinality(S) - 1
  BY FS_RemoveElement
<1>2. Cardinality(S \ {x}) \in Nat /\ Cardinality(S) \in Nat
  BY <1>1, FS_CardinalityType
<1> QED BY <1>1, <1>2

\* A call that runs or has ended goes no way back.
Onward == \A c \in Calls : future[c] \in {"running"} \cup Final => future'[c] = future[c]

\* What holds of the threads while nobody touches one.
LEMMA ThreadsKept ==
  ASSUME PoolIInv, UNCHANGED threadVars, Onward, closing' = "open" => closing = "open"
  PROVE  /\ ServeMeans' /\ HandoverMeans' /\ WorkersKept'
         /\ Cardinality(retired') <= MaxRetired
         /\ Cardinality(Serving') + Cardinality(Failing') <= MaxWorkers
         /\ Serving' = Serving
<1> USE DEF threadVars, PoolIInv
<1>1. ServeMeans'
  <2>1. \A t \in Workers : Busy(t)' <=> serves'[t] \in Calls
    BY DEF ServeMeans, Busy
  <2>2. \A t \in Workers : worker'[t] \in {"taken", "calling"} => future'[serves'[t]] = "running"
    BY DEF ServeMeans, Busy, Onward
  <2>3. \A t \in Workers : worker'[t] = "done" => future'[serves'[t]] \in Final
    BY DEF ServeMeans, Busy, Onward
  <2>4. \A t, u \in Workers : Busy(t)' /\ Busy(u)' /\ serves'[t] = serves'[u] => t = u
    BY DEF ServeMeans, Busy
  <2> QED BY <2>1, <2>2, <2>3, <2>4 DEF ServeMeans
<1>2. HandoverMeans'
  BY DEF HandoverMeans, Onward
<1>3. Serving' = Serving /\ Handing' = Handing /\ Failing' = Failing
  BY DEF Serving, Handing, Failing
<1>4. WorkersKept'
  BY <1>3 DEF WorkersKept
<1> QED BY <1>1, <1>2, <1>3, <1>4 DEF Limits

-----------------------------------------------------------------------------
(* Admission.                                                               *)

LEMMA ReserveStep ==
  ASSUME PoolIInv, NEW c \in Calls, Reserve(c)
  PROVE  PoolIInv'
<1> USE DEF PoolIInv, Reserve
<1>1. /\ admission'[c] = "counted"
      /\ \A d \in Calls : d # c => admission'[d] = admission[d]
  BY DEF PoolTypeOK
<1>2. inflight + 1 \in Nat /\ inflight + 1 <= Capacity
  BY TypesFinite
<1>3. PoolTypeOK'
  BY <1>2 DEF PoolTypeOK, threadVars
<1>4. Onward /\ Entering' = Entering \cup {c} /\ c \notin Entering
  BY <1>1 DEF Onward, Entering
<1>5. /\ ServeMeans' /\ HandoverMeans' /\ WorkersKept' /\ Cardinality(retired') <= MaxRetired
      /\ Cardinality(Serving') + Cardinality(Failing') <= MaxWorkers /\ Serving' = Serving
  BY <1>4, ThreadsKept
<1>6. Limits'
  BY <1>2, <1>5 DEF Limits
<1>7. FutureMeans'
  BY <1>1 DEF FutureMeans
<1>8. QueueMeans'
  BY DEF QueueMeans
<1>9. SlotsHeld'
  BY <1>1, <1>4, <1>5 DEF SlotsHeld, SlotMeansWorker, threadVars, PoolTypeOK
<1>10. InflightExact'
  <2>1. Cardinality(Entering') = Cardinality(Entering) + 1
    BY <1>4, PoolFinite, OneMore
  <2>2. inflight' = inflight + 1 /\ reserved' = reserved
    OBVIOUS
  <2>3. inflight = Cardinality(Entering) + Cardinality(reserved)
    BY DEF InflightExact
  <2>4. inflight' = Cardinality(Entering') + Cardinality(reserved)
    BY <2>1, <2>2, <2>3, PoolFinite, TypesFinite
  <2> QED BY <2>2, <2>4 DEF InflightExact
<1> QED BY <1>3, <1>5, <1>6, <1>7, <1>8, <1>9, <1>10

LEMMA SaturatedStep ==
  ASSUME PoolIInv, NEW c \in Calls, Saturated(c)
  PROVE  PoolIInv'
<1> USE DEF PoolIInv, Saturated
<1>1. /\ admission'[c] = "refused"
      /\ \A d \in Calls : d # c => admission'[d] = admission[d]
  BY DEF PoolTypeOK
<1>2. PoolTypeOK'
  BY DEF PoolTypeOK, threadVars
<1>3. Onward /\ Entering' = Entering
  BY <1>1 DEF Onward, Entering
<1>4. /\ ServeMeans' /\ HandoverMeans' /\ WorkersKept' /\ Cardinality(retired') <= MaxRetired
      /\ Cardinality(Serving') + Cardinality(Failing') <= MaxWorkers /\ Serving' = Serving
  BY <1>3, ThreadsKept
<1>5. Limits' /\ FutureMeans' /\ QueueMeans' /\ InflightExact'
  BY <1>1, <1>3, <1>4 DEF Limits, FutureMeans, QueueMeans, InflightExact
<1>6. SlotsHeld'
  BY <1>1, <1>3, <1>4 DEF SlotsHeld, SlotMeansWorker, threadVars, PoolTypeOK
<1> QED BY <1>2, <1>4, <1>5, <1>6

LEMMA RecordStep ==
  ASSUME PoolIInv, NEW c \in Calls, Record(c)
  PROVE  PoolIInv'
<1> USE DEF PoolIInv, Record
<1>1. /\ admission[c] = "queued" /\ admission'[c] = "watched"
      /\ \A d \in Calls : d # c => admission'[d] = admission[d]
  BY DEF PoolTypeOK
<1>2. PoolTypeOK'
  BY DEF PoolTypeOK, threadVars
<1>3. /\ Onward /\ Entering' = Entering \ {c} /\ c \in Entering
      /\ reserved' = reserved \cup {c} /\ c \notin reserved
  BY <1>1 DEF Onward, Entering, SlotsHeld
<1>4. /\ ServeMeans' /\ HandoverMeans' /\ WorkersKept' /\ Cardinality(retired') <= MaxRetired
      /\ Cardinality(Serving') + Cardinality(Failing') <= MaxWorkers /\ Serving' = Serving
  BY <1>3, ThreadsKept
<1>5. Limits' /\ FutureMeans' /\ QueueMeans'
  BY <1>1, <1>4 DEF Limits, FutureMeans, QueueMeans
<1>6. Entering' \cup reserved' = Entering \cup reserved
  BY <1>3
<1>7. SlotsHeld'
  <2>1. \A d \in reserved' : admission'[d] = "watched"
    BY <1>1, <1>3 DEF SlotsHeld, PoolTypeOK
  <2>2. UNCHANGED <<future, worker, serves, handover, retired>>
    BY DEF threadVars
  <2> QED BY <1>4, <1>6, <2>1, <2>2 DEF SlotsHeld, SlotMeansWorker
<1>8. InflightExact'
  <2>1. Cardinality(Entering') = Cardinality(Entering) - 1
    BY <1>3, PoolFinite, OneLess
  <2>2. Cardinality(reserved') = Cardinality(reserved) + 1
    BY <1>3, TypesFinite, OneMore
  <2>3. inflight' = inflight /\ inflight = Cardinality(Entering) + Cardinality(reserved)
    BY DEF InflightExact
  <2>4. inflight' = Cardinality(Entering') + Cardinality(reserved')
    BY <2>1, <2>2, <2>3, PoolFinite, TypesFinite
  <2> QED BY <2>4 DEF InflightExact
<1> QED BY <1>2, <1>4, <1>5, <1>7, <1>8

\* A slot is given back by whoever comes first, and by the other not again.
LEMMA SlotGone ==
  ASSUME PoolIInv, NEW c \in Calls, reserved' = reserved \ {c},
         inflight' = IF c \in reserved THEN inflight - 1 ELSE inflight,
         UNCHANGED admission
  PROVE  InflightExact' /\ inflight' \in Nat /\ inflight' <= Capacity
<1> USE DEF PoolIInv
<1>1. Entering' = Entering
  BY DEF Entering
<1>2. inflight = Cardinality(Entering) + Cardinality(reserved) /\ inflight <= Capacity
  BY DEF InflightExact, Limits
<1>3. CASE c \in reserved
  <2>1. /\ Cardinality(reserved') = Cardinality(reserved) - 1 /\ Cardinality(reserved) >= 1
        /\ inflight' = inflight - 1
    BY <1>3, TypesFinite, OneLess
  <2>2. inflight' = Cardinality(Entering) + Cardinality(reserved')
        /\ inflight' \in Nat /\ inflight' <= Capacity
    BY <1>2, <2>1, PoolFinite, TypesFinite
  <2> QED BY <1>1, <2>2 DEF InflightExact
<1>4. CASE c \notin reserved
  <2>1. reserved' = reserved /\ inflight' = inflight
    BY <1>4
  <2> QED BY <1>1, <1>2, <2>1, TypesFinite DEF InflightExact
<1> QED BY <1>3, <1>4

LEMMA ReleaseStep ==
  ASSUME PoolIInv, NEW c \in Calls, Release(c)
  PROVE  PoolIInv'
<1> USE DEF PoolIInv, Release
<1>1. InflightExact' /\ inflight' \in Nat /\ inflight' <= Capacity
  BY SlotGone
<1>2. PoolTypeOK'
  BY <1>1 DEF PoolTypeOK, threadVars
<1>3. Onward
  BY DEF Onward
<1>4. /\ ServeMeans' /\ HandoverMeans' /\ WorkersKept' /\ Cardinality(retired') <= MaxRetired
      /\ Cardinality(Serving') + Cardinality(Failing') <= MaxWorkers /\ Serving' = Serving
  BY <1>3, ThreadsKept
<1>5. Limits'
  BY <1>1, <1>4 DEF Limits
<1>6. FutureMeans' /\ QueueMeans'
  BY DEF FutureMeans, QueueMeans
<1>7. SlotsHeld'
  <2>1. /\ UNCHANGED <<future, worker, serves, handover, retired, admission>>
        /\ reserved' = reserved \ {c} /\ Entering' = Entering /\ Serving' = Serving
    BY <1>4 DEF threadVars, Entering
  <2>2. \A d : d # c /\ d \in Entering \cup reserved => d \in (Entering \cup reserved)'
    BY <2>1
  <2>3. \A t \in Workers : worker[t] \in {"taken", "calling"} => serves[t] # c
    BY DEF ServeMeans, Final
  <2>4. future[c] # "pending"
    BY DEF Final
  <2>5. \A t \in Serving : t \in Workers
    BY DEF Serving
  <2>6. /\ \A d \in reserved' : admission'[d] = "watched"
        /\ \A d \in Calls : future'[d] = "pending" => d \in (Entering \cup reserved)'
    BY <2>1, <2>2, <2>4 DEF SlotsHeld
  <2>7. \A t \in Workers : worker'[t] \in {"taken", "calling"} /\ handover'[serves'[t]] # "over" =>
           serves'[t] \in (Entering \cup reserved)'
    BY <2>1, <2>2, <2>3 DEF SlotsHeld
  <2>8. SlotMeansWorker'
    BY <2>1, <2>2, <2>3, <2>5 DEF SlotsHeld, SlotMeansWorker
  <2> QED BY <2>6, <2>7, <2>8 DEF SlotsHeld
<1> QED BY <1>1, <1>2, <1>4, <1>5, <1>6, <1>7

LEMMA EnqueueStep ==
  ASSUME PoolIInv, NEW c \in Calls, Enqueue(c)
  PROVE  PoolIInv' /\ Onward
<1> USE DEF PoolIInv
<1>1. /\ admission[c] = "counted" /\ admission' = [admission EXCEPT ![c] = "queued"]
      /\ UNCHANGED <<closing, inflight, reserved, released, threadVars>>
  BY DEF Enqueue
<1>2. PICK f \in {"pending", "refused"} :
        /\ future' = [future EXCEPT ![c] = f]
        /\ f = "pending" => queue' = Append(queue, c) /\ closing = "open"
        /\ f = "refused" => queue' = queue
  BY DEF Enqueue
<1>3. /\ admission'[c] = "queued" /\ \A d \in Calls : d # c => admission'[d] = admission[d]
      /\ future'[c] = f /\ \A d \in Calls : d # c => future'[d] = future[d]
  BY <1>1, <1>2 DEF PoolTypeOK
<1>4. future[c] = "none"
  BY <1>1 DEF FutureMeans
<1>5. Onward
  BY <1>3, <1>4 DEF Onward, Final
<1>6. /\ ServeMeans' /\ HandoverMeans' /\ WorkersKept' /\ Cardinality(retired') <= MaxRetired
      /\ Cardinality(Serving') + Cardinality(Failing') <= MaxWorkers /\ Serving' = Serving
  BY <1>1, <1>5, ThreadsKept
<1>7. PoolTypeOK'
  <2>1. queue \in Seq(Calls \cup {Stop}) /\ Append(queue, c) \in Seq(Calls \cup {Stop})
    BY DEF PoolTypeOK
  <2>2. queue' \in Seq(Calls \cup {Stop})
    BY <1>2, <2>1
  <2>3. future' \in [Calls -> {"none", "pending", "running"} \cup Final]
    BY <1>2 DEF PoolTypeOK, Final
  <2>4. admission' \in [Calls -> {"new", "counted", "queued", "watched", "refused"}]
    BY <1>1 DEF PoolTypeOK
  <2> QED BY <1>1, <2>2, <2>3, <2>4 DEF PoolTypeOK, threadVars
<1>8. FutureMeans'
  BY <1>3 DEF FutureMeans
<1>9. QueueMeans'
  <2>1. CASE f = "refused"
    BY <1>1, <1>2, <1>3, <1>4, <2>1 DEF QueueMeans, PoolTypeOK
  <2>2. CASE f = "pending"
    <3>1. PICK z \in Nat : z = Len(queue) + 1
      BY DEF PoolTypeOK
    <3>2. /\ queue' \in Seq(Calls \cup {Stop})
          /\ \A i \in DOMAIN queue' : \/ i \in DOMAIN queue /\ queue'[i] = queue[i] /\ i # z
                                      \/ i = z /\ queue'[i] = c
      <4>1. queue \in Seq(Calls \cup {Stop}) /\ queue' = Append(queue, c)
        BY <1>2, <2>2 DEF PoolTypeOK
      <4> QED BY <3>1, <4>1
    <3>3. \A i \in DOMAIN queue : queue[i] # c /\ (queue[i] # Stop => queue[i] \in Calls)
      BY <1>4, PoolAssumption DEF QueueMeans, PoolTypeOK
    <3>4. c # Stop /\ closing' = closing /\ closing = "open"
      BY <1>1, <1>2, <2>2, PoolAssumption
    <3>5. \A i \in DOMAIN queue' : queue'[i] # Stop => future'[queue'[i]] \in {"pending", "cancelled"}
      BY <1>3, <2>2, <3>2, <3>3 DEF QueueMeans
    <3>6. \A i, j \in DOMAIN queue' : queue'[i] = queue'[j] /\ queue'[i] # Stop => i = j
      BY <3>2, <3>3 DEF QueueMeans
    <3>7. \A i \in DOMAIN queue' : queue'[i] # Stop
      BY <3>2, <3>4 DEF QueueMeans
    <3> QED BY <3>5, <3>6, <3>7 DEF QueueMeans
  <2> QED BY <2>1, <2>2
<1>10. Entering' = Entering /\ c \in Entering
  BY <1>1, <1>3 DEF Entering
<1>11. SlotsHeld'
  <2>1. UNCHANGED <<worker, serves, handover, retired, reserved>>
    BY <1>1 DEF threadVars
  <2> QED BY <1>1, <1>3, <1>6, <1>10, <2>1 DEF SlotsHeld, SlotMeansWorker, PoolTypeOK
<1>12. Limits' /\ InflightExact'
  BY <1>1, <1>6, <1>10 DEF Limits, InflightExact
<1> QED BY <1>5, <1>6, <1>7, <1>8, <1>9, <1>11, <1>12

-----------------------------------------------------------------------------
(* Cancellation and shutdown: only what waits is touched.                   *)

\* Calls are cancelled that no worker has, and none is admitted.
LEMMA WaitersDrop ==
  ASSUME PoolIInv, UNCHANGED admissionVars, UNCHANGED threadVars,
         closing' \in {"open", "draining", "closed"}, closing' = "open" => closing = "open",
         queue' \in Seq(Calls \cup {Stop}), QueueMeans',
         future' \in [Calls -> {"none", "pending", "running"} \cup Final],
         \A c \in Calls : future'[c] = future[c] \/ (future[c] = "pending" /\ future'[c] = "cancelled")
  PROVE  PoolIInv'
<1> USE DEF PoolIInv
<1>1. Onward /\ Entering' = Entering /\ reserved' = reserved
  BY DEF Onward, Entering, Final, admissionVars
<1>2. /\ ServeMeans' /\ HandoverMeans' /\ WorkersKept' /\ Cardinality(retired') <= MaxRetired
      /\ Cardinality(Serving') + Cardinality(Failing') <= MaxWorkers /\ Serving' = Serving
  BY <1>1, ThreadsKept
<1>3. PoolTypeOK'
  BY DEF PoolTypeOK, admissionVars, threadVars
<1>4. FutureMeans' /\ Limits' /\ InflightExact'
  BY <1>1, <1>2 DEF FutureMeans, Limits, InflightExact, admissionVars
<1>5. SlotsHeld'
  BY <1>1, <1>2 DEF SlotsHeld, SlotMeansWorker, admissionVars, threadVars
<1> QED BY <1>2, <1>3, <1>4, <1>5

LEMMA CancelFutureStep ==
  ASSUME PoolIInv, NEW c \in Calls, CancelFuture(c)
  PROVE  PoolIInv'
<1> USE DEF PoolIInv, CancelFuture
<1>1. /\ future[c] = "pending" /\ future'[c] = "cancelled"
      /\ \A d \in Calls : d # c => future'[d] = future[d]
      /\ future' \in [Calls -> {"none", "pending", "running"} \cup Final]
  BY DEF PoolTypeOK, Final
<1>2. QueueMeans'
  BY <1>1 DEF QueueMeans, PoolTypeOK
<1> QED BY <1>1, <1>2, WaitersDrop DEF PoolTypeOK

LEMMA CloseStep ==
  ASSUME PoolIInv, Close
  PROVE  PoolIInv'
<1> USE DEF PoolIInv, Close
<1>1. QueueMeans'
  BY DEF QueueMeans
<1> QED BY <1>1, WaitersDrop DEF PoolTypeOK

LEMMA TailOf ==
  ASSUME NEW S, NEW s \in Seq(S), s # <<>>
  PROVE  /\ Head(s) \in S /\ Head(s) = s[1] /\ 1 \in DOMAIN s /\ Tail(s) \in Seq(S)
         /\ \A i \in DOMAIN Tail(s) : i + 1 \in DOMAIN s /\ Tail(s)[i] = s[i + 1] /\ i \in Nat /\ i + 1 # 1
BY HeadTailProperties

\* The head of the queue is taken: what stays is in it once still.
LEMMA QueueTail ==
  ASSUME PoolIInv, queue # <<>>, queue' = Tail(queue), UNCHANGED closing,
         \A c \in Calls : c # Head(queue) /\ future[c] \in {"pending", "cancelled"} =>
           future'[c] \in {"pending", "cancelled"}
  PROVE  /\ QueueMeans' /\ queue' \in Seq(Calls \cup {Stop})
         /\ Head(queue) \in Calls \cup {Stop}
         /\ Head(queue) # Stop => future[Head(queue)] \in {"pending", "cancelled"}
         /\ closing # "closed" => Head(queue) # Stop
<1> USE DEF PoolIInv
<1>1. queue \in Seq(Calls \cup {Stop})
  BY DEF PoolTypeOK
<1>2. PICK h \in Calls \cup {Stop} : h = Head(queue) /\ h = queue[1] /\ 1 \in DOMAIN queue
  BY <1>1, TailOf
<1>3. /\ queue' \in Seq(Calls \cup {Stop})
      /\ \A i \in DOMAIN queue' : /\ i + 1 \in DOMAIN queue /\ queue'[i] = queue[i + 1]
                                  /\ i \in Nat /\ i + 1 # 1 /\ queue'[i] \in Calls \cup {Stop}
  BY <1>1, TailOf
<1>4. \A i \in DOMAIN queue' : queue'[i] # Stop =>
        queue'[i] # h /\ future[queue'[i]] \in {"pending", "cancelled"}
  BY <1>2, <1>3 DEF QueueMeans
<1>5. \A i \in DOMAIN queue' : queue'[i] # Stop => future'[queue'[i]] \in {"pending", "cancelled"}
  BY <1>2, <1>3, <1>4
<1>6. ASSUME NEW i \in DOMAIN queue', NEW j \in DOMAIN queue', queue'[i] = queue'[j], queue'[i] # Stop
      PROVE  i = j
  <2>1. i + 1 = j + 1
    BY <1>3, <1>6 DEF QueueMeans
  <2> QED BY <1>3, <2>1
<1>7. closing' # "closed" => \A i \in DOMAIN queue' : queue'[i] # Stop
  BY <1>3 DEF QueueMeans
<1>8. QueueMeans'
  BY <1>5, <1>6, <1>7 DEF QueueMeans
<1> QED BY <1>2, <1>3, <1>8 DEF QueueMeans

LEMMA DrainStep ==
  ASSUME PoolIInv, Drain
  PROVE  PoolIInv'
<1> USE DEF PoolIInv, Drain
<1>1. PICK f \in {"none", "pending", "running"} \cup Final :
        /\ future' = [future EXCEPT ![Head(queue)] = f]
        /\ f = IF future[Head(queue)] = "pending" THEN "cancelled" ELSE future[Head(queue)]
        /\ Head(queue) \in Calls
  <2>1. queue \in Seq(Calls \cup {Stop}) /\ queue # <<>>
    BY DEF PoolTypeOK
  <2>2. Head(queue) = queue[1] /\ 1 \in DOMAIN queue /\ Head(queue) \in Calls \cup {Stop}
    BY <2>1, TailOf
  <2>3. Head(queue) \in Calls
    BY <2>2 DEF QueueMeans
  <2> QED BY <2>3 DEF PoolTypeOK, Final
<1>2. /\ future' \in [Calls -> {"none", "pending", "running"} \cup Final]
      /\ \A c \in Calls : \/ future'[c] = future[c]
                          \/ future[c] = "pending" /\ future'[c] = "cancelled"
  BY <1>1 DEF PoolTypeOK
<1>3. QueueMeans' /\ queue' \in Seq(Calls \cup {Stop})
  BY <1>2, QueueTail
<1> QED BY <1>2, <1>3, WaitersDrop DEF PoolTypeOK

LEMMA PutStopsStep ==
  ASSUME PoolIInv, PutStops
  PROVE  PoolIInv'
<1> USE DEF PoolIInv, PutStops
<1>1. PICK n \in Nat : n = Cardinality({t \in Workers : worker[t] \notin {"none", "gone"}})
  BY PoolFinite, FS_Subset, FS_CardinalityType
<1>2. queue' = [i \in 1 .. n |-> Stop]
  BY <1>1
<1>3. queue' \in Seq(Calls \cup {Stop}) /\ \A i \in DOMAIN queue' : queue'[i] = Stop
  <2>1. queue' \in [1 .. n -> Calls \cup {Stop}] /\ \A i \in DOMAIN queue' : queue'[i] = Stop
    BY <1>2
  <2>2. Seq(Calls \cup {Stop}) = UNION {[1 .. m -> Calls \cup {Stop}] : m \in Nat}
    BY SeqDef
  <2>3. queue' \in UNION {[1 .. m -> Calls \cup {Stop}] : m \in Nat}
    BY <2>1
  <2> QED BY <2>1, <2>2, <2>3
<1>4. QueueMeans'
  BY <1>3 DEF QueueMeans
<1> QED BY <1>3, <1>4, WaitersDrop DEF PoolTypeOK

-----------------------------------------------------------------------------
(* The worker loop.                                                         *)

\* Nobody is admitted or given up by a worker; it may end, and its call go on.
LEMMA TakeStep ==
  ASSUME PoolIInv, NEW t \in Workers, Take(t)
  PROVE  PoolIInv'
<1> USE DEF PoolIInv
<1>1. /\ worker[t] = "idle" /\ queue # <<>> /\ queue' = Tail(queue)
      /\ UNCHANGED <<closing, admissionVars, retired, handover, startFails>>
  BY DEF Take
<1>2. PICK c \in Calls \cup {Stop} : c = Head(queue)
  BY <1>1, TailOf DEF PoolTypeOK
<1>3. Entering' = Entering /\ Handing' = Handing /\ Failing' = Failing /\ reserved' = reserved
  BY <1>1 DEF Entering, Handing, Failing, admissionVars
<1>4. t \notin retired /\ ~Busy(t) /\ serves[t] \notin Calls
  BY <1>1 DEF HandoverMeans, ServeMeans, Busy
<1>5. CASE c = Stop
  <2>1. worker' = [worker EXCEPT ![t] = "gone"] /\ UNCHANGED <<future, serves>>
    BY <1>2, <1>5 DEF Take
  <2>2. worker'[t] = "gone" /\ \A u \in Workers : u # t => worker'[u] = worker[u]
    BY <2>1 DEF PoolTypeOK
  <2>3. QueueMeans' /\ queue' \in Seq(Calls \cup {Stop}) /\ closing = "closed"
    BY <1>1, <1>2, <1>5, <2>1, QueueTail
  <2>4. PoolTypeOK'
    BY <1>1, <2>1, <2>3 DEF PoolTypeOK, admissionVars
  <2>5. Serving' = Serving \ {t} /\ t \in Serving
    BY <1>1, <1>4, <2>2 DEF Serving
  <2>6. Cardinality(Serving') <= Cardinality(Serving) /\ Cardinality(Serving') \in Nat
    BY <2>5, PoolFinite, OneLess, FS_RemoveElement, FS_CardinalityType
  <2>7. Limits'
    <3>1. Cardinality(Serving') + Cardinality(Failing) <= MaxWorkers
      BY <2>6, PoolFinite, TypesFinite DEF Limits
    <3> QED BY <1>1, <1>3, <3>1 DEF Limits, admissionVars
  <2>8. ServeMeans'
    BY <1>4, <2>1, <2>2 DEF ServeMeans, Busy
  <2>9. HandoverMeans'
    BY <1>1, <1>4, <2>1, <2>2 DEF HandoverMeans, PoolTypeOK
  <2>10. FutureMeans' /\ InflightExact' /\ WorkersKept'
    BY <1>1, <1>3, <2>1, <2>3 DEF FutureMeans, InflightExact, WorkersKept, admissionVars
  <2>11. SlotsHeld'
    BY <1>1, <1>3, <2>1, <2>2, <2>5 DEF SlotsHeld, SlotMeansWorker, admissionVars, Serving
  <2> QED BY <2>3, <2>4, <2>7, <2>8, <2>9, <2>10, <2>11
<1>6. CASE c # Stop /\ future[c] = "cancelled"
  <2>1. UNCHANGED <<future, worker, serves>>
    BY <1>2, <1>6 DEF Take
  <2>2. QueueMeans' /\ queue' \in Seq(Calls \cup {Stop})
    BY <1>1, <2>1, QueueTail
  <2> QED BY <1>1, <2>1, <2>2, WaitersDrop DEF PoolTypeOK, threadVars
<1>7. CASE c # Stop /\ future[c] # "cancelled"
  <2>1. /\ future' = [future EXCEPT ![c] = "running"] /\ worker' = [worker EXCEPT ![t] = "taken"]
        /\ serves' = [serves EXCEPT ![t] = c] /\ c \in Calls
    BY <1>2, <1>7 DEF Take
  <2>2. /\ worker'[t] = "taken" /\ \A u \in Workers : u # t => worker'[u] = worker[u]
        /\ serves'[t] = c /\ \A u \in Workers : u # t => serves'[u] = serves[u]
        /\ future'[c] = "running" /\ \A d \in Calls : d # c => future'[d] = future[d]
    BY <2>1 DEF PoolTypeOK
  <2>3. /\ QueueMeans' /\ queue' \in Seq(Calls \cup {Stop})
        /\ future[c] \in {"pending", "cancelled"}
    BY <1>1, <1>2, <1>7, <2>1, <2>2, QueueTail
  <2>4. future[c] = "pending"
    BY <1>7, <2>3
  <2>5. PoolTypeOK'
    BY <1>1, <2>1, <2>3 DEF PoolTypeOK, admissionVars
  <2>6. Serving' = Serving
    BY <1>1, <2>2 DEF Serving
  <2>7. \A u \in Workers : Busy(u) => serves[u] # c
    BY <2>4 DEF ServeMeans, Busy, Final
  <2>8. ServeMeans'
    <3>1. \A u \in Workers : Busy(u)' <=> serves'[u] \in Calls
      BY <2>1, <2>2 DEF ServeMeans, Busy
    <3>2. \A u \in Workers : worker'[u] \in {"taken", "calling"} => future'[serves'[u]] = "running"
      BY <2>2, <2>7 DEF ServeMeans, Busy
    <3>3. \A u \in Workers : worker'[u] = "done" => future'[serves'[u]] \in Final
      BY <2>2, <2>7 DEF ServeMeans, Busy
    <3>4. \A u, v \in Workers : Busy(u)' /\ Busy(v)' /\ serves'[u] = serves'[v] => u = v
      BY <2>2, <2>7 DEF ServeMeans, Busy
    <3> QED BY <3>1, <3>2, <3>3, <3>4 DEF ServeMeans
  <2>9. HandoverMeans'
    <3>1. handover[c] \notin {"marked", "replaced", "failed"}
      BY <2>1, <2>4 DEF HandoverMeans, Final
    <3>2. \A u \in retired' : worker'[u] \in {"calling", "done"}
      BY <1>1, <1>4, <2>2 DEF HandoverMeans, PoolTypeOK
    <3>3. \A d \in Calls : handover'[d] \in {"marked", "replaced", "failed"} =>
             /\ d # c /\ future'[d] \in {"running"} \cup Final
             /\ \A u \in Workers : serves[u] = d => u \in retired
      BY <1>1, <2>2, <3>1 DEF HandoverMeans
    <3>4. \A u \in Workers : serves'[u] = serves[u] \/ serves'[u] = c
      BY <2>2
    <3> QED BY <1>1, <3>2, <3>3, <3>4 DEF HandoverMeans
  <2>10. FutureMeans' /\ Limits' /\ InflightExact' /\ WorkersKept'
    BY <1>1, <1>3, <2>2, <2>4, <2>6 DEF FutureMeans, Limits, InflightExact, WorkersKept, admissionVars
  <2>11. c \in Entering \cup reserved
    BY <2>1, <2>4 DEF SlotsHeld
  <2>12. SlotsHeld'
    <3>1. UNCHANGED <<admission, reserved, handover>>
      BY <1>1 DEF admissionVars
    <3>2. \A u \in Serving : u \in Workers
      BY DEF Serving
    <3> QED BY <1>3, <2>2, <2>6, <2>11, <3>1, <3>2 DEF SlotsHeld, SlotMeansWorker
  <2> QED BY <2>3, <2>5, <2>8, <2>9, <2>10, <2>12
<1> QED BY <1>5, <1>6, <1>7

LEMMA RegisterStep ==
  ASSUME PoolIInv, NEW t \in Workers, Register(t)
  PROVE  PoolIInv'
<1> USE DEF PoolIInv, Register
<1>1. /\ worker[t] = "taken" /\ worker'[t] = "calling"
      /\ \A u \in Workers : u # t => worker'[u] = worker[u]
  BY DEF PoolTypeOK
<1>2. PoolTypeOK'
  BY DEF PoolTypeOK, admissionVars
<1>3. Entering' = Entering /\ Handing' = Handing /\ Failing' = Failing /\ Serving' = Serving
  BY <1>1 DEF Entering, Handing, Failing, Serving, admissionVars
<1>4. FutureMeans' /\ QueueMeans' /\ Limits' /\ InflightExact' /\ WorkersKept'
  BY <1>3 DEF FutureMeans, QueueMeans, Limits, InflightExact, WorkersKept, admissionVars
<1>5. ServeMeans'
  BY <1>1 DEF ServeMeans, Busy
<1>6. HandoverMeans'
  BY <1>1 DEF HandoverMeans, PoolTypeOK
<1>7. SlotsHeld'
  <2>1. UNCHANGED <<admission, reserved, handover, serves, future>>
    BY DEF admissionVars
  <2>2. \A u \in Serving : u \in Workers
    BY DEF Serving
  <2> QED BY <1>1, <1>3, <2>1, <2>2 DEF SlotsHeld, SlotMeansWorker
<1> QED BY <1>2, <1>4, <1>5, <1>6, <1>7

LEMMA EndCallStep ==
  ASSUME PoolIInv, NEW t \in Workers, NEW result \in {"answer", "error"}, EndCall(t, result)
  PROVE  PoolIInv'
<1> USE DEF PoolIInv, EndCall
<1>1. PICK c \in Calls : c = serves[t] /\ future[c] = "running"
  BY DEF ServeMeans, Busy
<1>2. /\ worker[t] = "calling" /\ worker'[t] = "done"
      /\ \A u \in Workers : u # t => worker'[u] = worker[u]
      /\ future'[c] = result /\ \A d \in Calls : d # c => future'[d] = future[d]
  BY <1>1 DEF PoolTypeOK
<1>3. PoolTypeOK'
  BY <1>1 DEF PoolTypeOK, admissionVars, Final
<1>4. Entering' = Entering /\ Handing' = Handing /\ Failing' = Failing /\ Serving' = Serving
  BY <1>2 DEF Entering, Handing, Failing, Serving, admissionVars
<1>5. FutureMeans' /\ Limits' /\ InflightExact' /\ WorkersKept'
  BY <1>1, <1>2, <1>4 DEF FutureMeans, Limits, InflightExact, WorkersKept, admissionVars
<1>6. QueueMeans'
  <2>1. \A i \in DOMAIN queue : queue[i] # Stop => queue[i] \in Calls /\ queue[i] # c
    BY <1>1 DEF QueueMeans, PoolTypeOK
  <2> QED BY <1>2, <2>1 DEF QueueMeans
<1>7. \A u \in Workers : Busy(u) /\ serves[u] = c => u = t
  BY <1>1, <1>2 DEF ServeMeans, Busy
<1>8. ServeMeans'
  <2>1. \A u \in Workers : Busy(u)' <=> serves'[u] \in Calls
    BY <1>2 DEF ServeMeans, Busy
  <2>2. \A u \in Workers : worker'[u] \in {"taken", "calling"} => future'[serves'[u]] = "running"
    BY <1>2, <1>7 DEF ServeMeans, Busy
  <2>3. \A u \in Workers : worker'[u] = "done" => future'[serves'[u]] \in Final
    BY <1>1, <1>2, <1>7 DEF ServeMeans, Busy, Final
  <2>4. \A u, v \in Workers : Busy(u)' /\ Busy(v)' /\ serves'[u] = serves'[v] => u = v
    BY <1>2 DEF ServeMeans, Busy
  <2> QED BY <2>1, <2>2, <2>3, <2>4 DEF ServeMeans
<1>9. HandoverMeans'
  <2>1. \A u \in retired' : worker'[u] \in {"calling", "done"}
    BY <1>2 DEF HandoverMeans, PoolTypeOK
  <2>2. \A d \in Calls : handover'[d] \in {"marked", "replaced", "failed"} =>
          future'[d] \in {"running"} \cup Final
    BY <1>2 DEF HandoverMeans, Final
  <2> QED BY <2>1, <2>2 DEF HandoverMeans
<1>10. SlotsHeld'
  <2>1. UNCHANGED <<admission, reserved, handover, serves>>
    BY DEF admissionVars
  <2>2. \A u \in Serving : u \in Workers
    BY DEF Serving
  <2> QED BY <1>2, <1>4, <2>1, <2>2 DEF SlotsHeld, SlotMeansWorker
<1> QED BY <1>3, <1>5, <1>6, <1>8, <1>9, <1>10

LEMMA LeaveStep ==
  ASSUME PoolIInv, NEW t \in Workers, Leave(t)
  PROVE  PoolIInv'
<1> USE DEF PoolIInv
<1>1. PICK w \in {"gone", "idle"} :
        /\ worker' = [worker EXCEPT ![t] = w] /\ (w = "gone" <=> t \in retired)
  BY DEF Leave
<1>2. /\ worker[t] = "done" /\ serves' = [serves EXCEPT ![t] = NoCall] /\ retired' = retired \ {t}
      /\ UNCHANGED <<queue, closing, future, admissionVars, handover, startFails>>
  BY DEF Leave
<1>3. /\ worker'[t] = w /\ \A u \in Workers : u # t => worker'[u] = worker[u]
      /\ serves'[t] = NoCall /\ \A u \in Workers : u # t => serves'[u] = serves[u]
  BY <1>1, <1>2 DEF PoolTypeOK
<1>4. PoolTypeOK'
  BY <1>1, <1>2 DEF PoolTypeOK, admissionVars
<1>5. /\ Entering' = Entering /\ Handing' = Handing /\ Failing' = Failing /\ Serving' = Serving
      /\ reserved' = reserved
  BY <1>1, <1>2, <1>3 DEF Entering, Handing, Failing, Serving, admissionVars
<1>6. Cardinality(retired') <= MaxRetired
  <2>1. Cardinality(retired') <= Cardinality(retired) /\ Cardinality(retired') \in Nat
    BY <1>2, TypesFinite, FS_Subset, FS_CardinalityType
  <2> QED BY <2>1, TypesFinite DEF Limits
<1>7. FutureMeans' /\ QueueMeans' /\ Limits' /\ InflightExact' /\ WorkersKept'
  BY <1>2, <1>5, <1>6 DEF FutureMeans, QueueMeans, Limits, InflightExact, WorkersKept, admissionVars
<1>8. ServeMeans'
  BY <1>2, <1>3, PoolAssumption DEF ServeMeans, Busy
<1>9. HandoverMeans'
  BY <1>2, <1>3, PoolAssumption DEF HandoverMeans, PoolTypeOK
<1>10. SlotsHeld'
  <2>1. UNCHANGED <<admission, reserved, handover, future>>
    BY <1>2 DEF admissionVars
  <2>2. \A u \in Serving : u \in Workers
    BY DEF Serving
  <2> QED BY <1>3, <1>5, <2>1, <2>2 DEF SlotsHeld, SlotMeansWorker
<1> QED BY <1>4, <1>7, <1>8, <1>9, <1>10

-----------------------------------------------------------------------------
(* Giving up.                                                               *)

LEMMA RetireStep ==
  ASSUME PoolIInv, NEW c \in Calls, Retire(c)
  PROVE  PoolIInv'
<1> USE DEF PoolIInv
<1>1. /\ handover[c] = "none" /\ closing = "open" /\ Cardinality(retired) < MaxRetired
      /\ WorkersOf(c) # {} /\ WorkersOf(c) \cap retired = {}
      /\ retired' = retired \cup WorkersOf(c)
      /\ handover' = [handover EXCEPT ![c] = "marked"]
      /\ UNCHANGED <<queue, closing, future, admissionVars, worker, serves, startFails>>
  BY DEF Retire, CanRetire
<1>2. PICK t \in Workers : worker[t] \in {"calling", "done"} /\ serves[t] = c /\ t \notin retired
  BY <1>1 DEF WorkersOf
<1>3. WorkersOf(c) = {t} /\ \A u \in Workers : serves[u] = c => u = t
  BY <1>2 DEF WorkersOf, ServeMeans, Busy
<1>4. /\ handover'[c] = "marked" /\ \A d \in Calls : d # c => handover'[d] = handover[d]
      /\ retired' = retired \cup {t}
  BY <1>1, <1>3 DEF PoolTypeOK
<1>5. PoolTypeOK'
  BY <1>1, <1>4 DEF PoolTypeOK, admissionVars
<1>6. /\ Entering' = Entering /\ reserved' = reserved
      /\ Serving' = Serving \ {t} /\ t \in Serving
      /\ Handing' = Handing \cup {c} /\ c \notin Handing
      /\ Failing' = Failing \cup {c} /\ c \notin Failing
  BY <1>1, <1>2, <1>4 DEF Entering, Serving, Handing, Failing, admissionVars
<1>7. /\ Cardinality(Serving') = Cardinality(Serving) - 1 /\ Cardinality(Serving) >= 1
      /\ Cardinality(Handing') = Cardinality(Handing) + 1
      /\ Cardinality(Failing') = Cardinality(Failing) + 1
      /\ Cardinality(retired') = Cardinality(retired) + 1
  BY <1>2, <1>4, <1>6, PoolFinite, TypesFinite, OneLess, OneMore
<1>8. Limits'
  <2>1. Cardinality(retired') <= MaxRetired
    BY <1>1, <1>7, TypesFinite
  <2>2. Cardinality(Serving') + Cardinality(Failing') <= MaxWorkers
    BY <1>7, PoolFinite, TypesFinite DEF Limits
  <2> QED BY <1>1, <2>1, <2>2 DEF Limits, admissionVars
<1>9. WorkersKept'
  <2>1. Cardinality(Serving) + Cardinality(Handing) + startFails >= MaxWorkers
    BY <1>1 DEF WorkersKept
  <2>2. Cardinality(Serving') + Cardinality(Handing') + startFails >= MaxWorkers
    BY <1>7, <2>1, PoolFinite, TypesFinite
  <2> QED BY <1>1, <2>2 DEF WorkersKept
<1>10. FutureMeans' /\ QueueMeans' /\ InflightExact' /\ ServeMeans'
  BY <1>1, <1>6 DEF FutureMeans, QueueMeans, InflightExact, ServeMeans, Busy, admissionVars
<1>11. HandoverMeans'
  <2>1. future[c] \in {"running"} \cup Final
    BY <1>2 DEF ServeMeans
  <2> QED BY <1>1, <1>2, <1>3, <1>4, <2>1 DEF HandoverMeans
<1>12. SlotsHeld'
  <2>1. UNCHANGED <<admission, reserved, future, worker, serves>>
    BY <1>1 DEF admissionVars
  <2>2. \A u \in Workers : worker[u] \in {"taken", "calling"} =>
          serves[u] \in Calls /\ (serves[u] = c => u = t)
    BY <1>3 DEF ServeMeans, Busy
  <2>3. \A u \in Workers : worker[u] \in {"taken", "calling"} /\ handover'[serves[u]] # "over" =>
          handover[serves[u]] # "over"
    BY <1>1, <1>4, <2>2
  <2> QED BY <1>6, <2>1, <2>3 DEF SlotsHeld, SlotMeansWorker
<1> QED BY <1>5, <1>8, <1>9, <1>10, <1>11, <1>12

LEMMA ReplaceStep ==
  ASSUME PoolIInv, NEW c \in Calls, Replace(c)
  PROVE  PoolIInv'
<1> USE DEF PoolIInv
<1>1. PICK t \in Workers : worker[t] = "none" /\ worker' = [worker EXCEPT ![t] = "idle"]
  BY DEF Replace
<1>2. /\ handover[c] = "marked" /\ handover' = [handover EXCEPT ![c] = "replaced"]
      /\ UNCHANGED <<queue, closing, future, admissionVars, serves, retired, startFails>>
  BY DEF Replace
<1>3. /\ handover'[c] = "replaced" /\ \A d \in Calls : d # c => handover'[d] = handover[d]
      /\ worker'[t] = "idle" /\ \A u \in Workers : u # t => worker'[u] = worker[u]
  BY <1>1, <1>2 DEF PoolTypeOK
<1>4. PoolTypeOK'
  BY <1>1, <1>2 DEF PoolTypeOK, admissionVars
<1>5. t \notin retired /\ serves[t] \notin Calls
  BY <1>1 DEF HandoverMeans, ServeMeans, Busy
<1>6. /\ Entering' = Entering /\ reserved' = reserved
      /\ Serving' = Serving \cup {t} /\ t \notin Serving
      /\ Handing' = Handing \ {c} /\ c \in Handing
      /\ Failing' = Failing \ {c} /\ c \in Failing
  BY <1>1, <1>2, <1>3, <1>5 DEF Entering, Serving, Handing, Failing, admissionVars
<1>7. /\ Cardinality(Serving') = Cardinality(Serving) + 1
      /\ Cardinality(Handing') = Cardinality(Handing) - 1 /\ Cardinality(Handing) >= 1
      /\ Cardinality(Failing') = Cardinality(Failing) - 1 /\ Cardinality(Failing) >= 1
  BY <1>6, PoolFinite, OneLess, OneMore
<1>8. Limits'
  <2>1. Cardinality(Serving') + Cardinality(Failing') <= MaxWorkers
    BY <1>7, PoolFinite, TypesFinite DEF Limits
  <2> QED BY <1>2, <2>1 DEF Limits, admissionVars
<1>9. WorkersKept'
  <2>1. CASE closing = "open"
    <3>1. Cardinality(Serving) + Cardinality(Handing) + startFails >= MaxWorkers
      BY <2>1 DEF WorkersKept
    <3>2. Cardinality(Serving') + Cardinality(Handing') + startFails >= MaxWorkers
      BY <1>7, <3>1, PoolFinite, TypesFinite
    <3> QED BY <1>2, <3>2 DEF WorkersKept
  <2> QED BY <1>2, <2>1 DEF WorkersKept
<1>10. FutureMeans' /\ QueueMeans' /\ InflightExact'
  BY <1>2, <1>6 DEF FutureMeans, QueueMeans, InflightExact, admissionVars
<1>11. ServeMeans'
  BY <1>1, <1>2, <1>3, <1>5 DEF ServeMeans, Busy
<1>12. HandoverMeans'
  BY <1>2, <1>3, <1>5 DEF HandoverMeans, PoolTypeOK
<1>13. SlotsHeld'
  <2>1. UNCHANGED <<admission, reserved, future, serves>>
    BY <1>2 DEF admissionVars
  <2>2. \A u \in Workers : worker'[u] \in {"taken", "calling"} =>
          u # t /\ worker[u] = worker'[u] /\ serves[u] \in Calls
    BY <1>3 DEF ServeMeans, Busy
  <2>3. \A u \in Workers : worker'[u] \in {"taken", "calling"} /\ handover'[serves[u]] # "over" =>
          handover[serves[u]] # "over"
    BY <1>2, <1>3, <2>2
  <2>4. \A u \in Serving' : u \in Workers
    BY DEF Serving
  <2> QED BY <1>6, <2>1, <2>2, <2>3, <2>4 DEF SlotsHeld, SlotMeansWorker
<1> QED BY <1>4, <1>8, <1>9, <1>10, <1>11, <1>12, <1>13

LEMMA ReplaceFailsStep ==
  ASSUME PoolIInv, NEW c \in Calls, ReplaceFails(c)
  PROVE  PoolIInv'
<1> USE DEF PoolIInv
<1>1. /\ handover[c] = "marked" /\ handover' = [handover EXCEPT ![c] = "failed"]
      /\ UNCHANGED <<queue, closing, future, admissionVars, worker, serves, retired>>
      /\ closing = "open" => startFails < MaxStartFails /\ startFails' = startFails + 1
      /\ closing # "open" => startFails' = startFails
  BY DEF ReplaceFails
<1>2. handover'[c] = "failed" /\ \A d \in Calls : d # c => handover'[d] = handover[d]
  BY <1>1 DEF PoolTypeOK
<1>3. startFails' \in 0 .. MaxStartFails
  <2>1. startFails \in 0 .. MaxStartFails /\ MaxStartFails \in Nat
    BY PoolAssumption DEF PoolTypeOK
  <2> QED BY <1>1, <2>1
<1>4. PoolTypeOK'
  BY <1>1, <1>3 DEF PoolTypeOK, admissionVars
<1>5. /\ Entering' = Entering /\ reserved' = reserved /\ Serving' = Serving
      /\ Handing' = Handing \ {c} /\ c \in Handing /\ Failing' = Failing
  BY <1>1, <1>2 DEF Entering, Serving, Handing, Failing, admissionVars
<1>6. WorkersKept'
  <2>1. CASE closing = "open"
    <3>1. Cardinality(Serving) + Cardinality(Handing) + startFails >= MaxWorkers
      BY <2>1 DEF WorkersKept
    <3>2. Cardinality(Handing') = Cardinality(Handing) - 1 /\ Cardinality(Handing) >= 1
      BY <1>5, PoolFinite, OneLess
    <3>3. startFails' = startFails + 1
      BY <1>1, <2>1
    <3>4. Cardinality(Serving) + Cardinality(Handing') + startFails' >= MaxWorkers
      BY <3>1, <3>2, <3>3, PoolFinite, TypesFinite
    <3> QED BY <1>5, <3>4 DEF WorkersKept
  <2> QED BY <1>1, <2>1 DEF WorkersKept
<1>7. FutureMeans' /\ QueueMeans' /\ InflightExact' /\ Limits' /\ ServeMeans'
  BY <1>1, <1>5 DEF FutureMeans, QueueMeans, InflightExact, Limits, ServeMeans, Busy, admissionVars
<1>8. HandoverMeans'
  BY <1>1, <1>2 DEF HandoverMeans
<1>9. SlotsHeld'
  <2>1. UNCHANGED <<admission, reserved, future, worker, serves>>
    BY <1>1 DEF admissionVars
  <2>2. \A u \in Workers : worker[u] \in {"taken", "calling"} => serves[u] \in Calls
    BY DEF ServeMeans, Busy
  <2>3. \A u \in Workers : worker[u] \in {"taken", "calling"} /\ handover'[serves[u]] # "over" =>
          handover[serves[u]] # "over"
    BY <1>1, <1>2, <2>2
  <2> QED BY <1>5, <2>1, <2>3 DEF SlotsHeld, SlotMeansWorker
<1> QED BY <1>4, <1>6, <1>7, <1>8, <1>9

LEMMA UnretireStep ==
  ASSUME PoolIInv, NEW c \in Calls, Unretire(c)
  PROVE  PoolIInv'
<1> USE DEF PoolIInv
<1>1. /\ handover[c] = "failed" /\ handover' = [handover EXCEPT ![c] = "over"]
      /\ retired' = retired \ {t \in Workers : serves[t] = c}
      /\ UNCHANGED <<queue, closing, future, admissionVars, worker, serves, startFails>>
  BY DEF Unretire
<1>2. handover'[c] = "over" /\ \A d \in Calls : d # c => handover'[d] = handover[d]
  BY <1>1 DEF PoolTypeOK
<1>3. PoolTypeOK'
  BY <1>1 DEF PoolTypeOK, admissionVars
<1>4. \A t, u \in Workers : serves[t] = c /\ serves[u] = c => t = u /\ t \in retired
  BY <1>1 DEF ServeMeans, HandoverMeans
<1>5. /\ Entering' = Entering /\ reserved' = reserved /\ Handing' = Handing
      /\ Failing' = Failing \ {c} /\ c \in Failing
  BY <1>1, <1>2 DEF Entering, Handing, Failing, admissionVars
<1>6. /\ Serving \subseteq Serving'
      /\ \A t \in Serving' \ Serving : t \in Workers /\ serves[t] = c
  BY <1>1 DEF Serving
<1>7. /\ Cardinality(Serving') \in Nat /\ Cardinality(Serving) <= Cardinality(Serving')
      /\ Cardinality(Serving') <= Cardinality(Serving) + 1
  <2>1. IsFiniteSet(Serving')
    BY PoolFinite, FS_Subset DEF Serving
  <2>2. Cardinality(Serving') \in Nat /\ Cardinality(Serving) <= Cardinality(Serving')
    BY <1>6, <2>1, FS_Subset, FS_CardinalityType
  <2>3. CASE Serving' = Serving
    BY <2>2, <2>3, PoolFinite
  <2>4. CASE Serving' # Serving
    <3>1. PICK t \in Serving' : t \notin Serving
      BY <1>6, <2>4
    <3>2. Serving' = Serving \cup {t}
      BY <1>4, <1>6, <3>1
    <3>3. Cardinality(Serving') = Cardinality(Serving) + 1
      BY <3>1, <3>2, PoolFinite, OneMore
    <3> QED BY <2>2, <3>3
  <2> QED BY <2>3, <2>4
<1>8. Limits'
  <2>1. Cardinality(Failing') = Cardinality(Failing) - 1 /\ Cardinality(Failing) >= 1
    BY <1>5, PoolFinite, OneLess
  <2>2. Cardinality(Serving') + Cardinality(Failing') <= MaxWorkers
    BY <1>7, <2>1, PoolFinite, TypesFinite DEF Limits
  <2>3. Cardinality(retired') <= Cardinality(retired) /\ Cardinality(retired') \in Nat
    BY <1>1, TypesFinite, FS_Subset, FS_CardinalityType
  <2>4. Cardinality(retired') <= MaxRetired
    BY <2>3, TypesFinite DEF Limits
  <2> QED BY <1>1, <2>2, <2>4 DEF Limits, admissionVars
<1>9. WorkersKept'
  <2>1. CASE closing = "open"
    <3>1. Cardinality(Serving) + Cardinality(Handing) + startFails >= MaxWorkers
      BY <2>1 DEF WorkersKept
    <3>2. Cardinality(Serving') + Cardinality(Handing) + startFails >= MaxWorkers
      BY <1>7, <3>1, PoolFinite, TypesFinite
    <3> QED BY <1>1, <1>5, <3>2 DEF WorkersKept
  <2> QED BY <1>1, <2>1 DEF WorkersKept
<1>10. FutureMeans' /\ QueueMeans' /\ InflightExact' /\ ServeMeans'
  BY <1>1, <1>5 DEF FutureMeans, QueueMeans, InflightExact, ServeMeans, Busy, admissionVars
<1>11. HandoverMeans'
  <2>1. \A t \in retired' : worker'[t] \in {"calling", "done"}
    BY <1>1 DEF HandoverMeans
  <2>2. ASSUME NEW d \in Calls, handover'[d] \in {"marked", "replaced", "failed"}
        PROVE  /\ future'[d] \in {"running"} \cup Final
               /\ \A t \in Workers : serves'[t] = d => t \in retired'
    <3>1. d # c /\ handover[d] \in {"marked", "replaced", "failed"}
      BY <1>2, <2>2
    <3> QED BY <1>1, <3>1 DEF HandoverMeans
  <2> QED BY <2>1, <2>2 DEF HandoverMeans
<1>12. SlotsHeld'
  <2>1. UNCHANGED <<admission, reserved, future, worker, serves>>
    BY <1>1 DEF admissionVars
  <2>2. \A u \in Workers : worker[u] \in {"taken", "calling"} => serves[u] \in Calls
    BY DEF ServeMeans, Busy
  <2>3. \A u \in Workers : worker[u] \in {"taken", "calling"} /\ handover'[serves[u]] # "over" =>
          handover[serves[u]] # "over"
    BY <1>1, <1>2, <2>2
  <2>4. \A u \in Workers : worker[u] \in {"taken", "calling"} /\ serves[u] = c =>
          c \in Entering \cup reserved
    BY <1>1 DEF SlotsHeld
  <2>5. SlotMeansWorker'
    BY <1>5, <1>6, <2>1, <2>4 DEF SlotsHeld, SlotMeansWorker
  <2> QED BY <1>5, <2>1, <2>3, <2>5 DEF SlotsHeld
<1> QED BY <1>3, <1>8, <1>9, <1>10, <1>11, <1>12

LEMMA GiveBackStep ==
  ASSUME PoolIInv, NEW c \in Calls, GiveBack(c)
  PROVE  PoolIInv'
<1> USE DEF PoolIInv
<1>1. /\ handover[c] = "replaced" /\ handover' = [handover EXCEPT ![c] = "over"]
      /\ reserved' = reserved \ {c}
      /\ inflight' = IF c \in reserved THEN inflight - 1 ELSE inflight
      /\ UNCHANGED <<queue, closing, future, admission, released, worker, serves, retired, startFails>>
  BY DEF GiveBack
<1>2. handover'[c] = "over" /\ \A d \in Calls : d # c => handover'[d] = handover[d]
  BY <1>1 DEF PoolTypeOK
<1>3. InflightExact' /\ inflight' \in Nat /\ inflight' <= Capacity
  BY <1>1, SlotGone
<1>4. PoolTypeOK'
  BY <1>1, <1>3 DEF PoolTypeOK
<1>5. Entering' = Entering /\ Serving' = Serving /\ Handing' = Handing /\ Failing' = Failing
  BY <1>1, <1>2 DEF Entering, Serving, Handing, Failing
<1>6. FutureMeans' /\ QueueMeans' /\ Limits' /\ ServeMeans' /\ WorkersKept'
  BY <1>1, <1>3, <1>5 DEF FutureMeans, QueueMeans, Limits, ServeMeans, Busy, WorkersKept
<1>7. HandoverMeans'
  BY <1>1, <1>2 DEF HandoverMeans
<1>8. SlotsHeld'
  <2>1. \A d : d # c /\ d \in Entering \cup reserved => d \in (Entering \cup reserved)'
    BY <1>1, <1>5
  <2>2. future[c] \in {"running"} \cup Final /\ \A t \in Workers : serves[t] = c => t \in retired
    BY <1>1 DEF HandoverMeans
  <2>3. future[c] # "pending"
    BY <2>2 DEF Final
  <2>4. /\ \A d \in reserved' : admission'[d] = "watched"
        /\ \A d \in Calls : future'[d] = "pending" => d \in (Entering \cup reserved)'
    BY <1>1, <2>1, <2>3 DEF SlotsHeld
  <2>5. \A u \in Workers : worker[u] \in {"taken", "calling"} => serves[u] \in Calls
    BY DEF ServeMeans, Busy
  <2>6. \A u \in Workers : worker'[u] \in {"taken", "calling"} /\ handover'[serves'[u]] # "over" =>
          serves'[u] \in (Entering \cup reserved)'
    BY <1>1, <1>2, <2>1, <2>5 DEF SlotsHeld
  <2>7. \A u \in Serving : u \in Workers /\ serves[u] # c
    BY <2>2 DEF Serving
  <2>8. SlotMeansWorker'
    BY <1>1, <1>5, <2>1, <2>7 DEF SlotsHeld, SlotMeansWorker
  <2> QED BY <2>4, <2>6, <2>8 DEF SlotsHeld
<1> QED BY <1>3, <1>4, <1>6, <1>7, <1>8

-----------------------------------------------------------------------------
(* What follows from the invariant of the pool.                             *)

LEMMA Bounded ==
  ASSUME PoolIInv
  PROVE  ThreadsBounded
<1> DEFINE Live == {t \in Workers : worker[t] \notin {"none", "gone"}}
<1>1. Live \subseteq Serving \cup retired
  BY DEF Serving
<1>2. /\ IsFiniteSet(Serving) /\ IsFiniteSet(retired)
      /\ Cardinality(Serving) \in Nat /\ Cardinality(retired) \in Nat
      /\ Cardinality(Failing) \in Nat /\ MaxWorkers \in Nat /\ MaxRetired \in Nat
  BY PoolFinite, TypesFinite DEF PoolIInv
<1>3. /\ IsFiniteSet(Serving \cup retired)
      /\ Cardinality(Serving \cup retired)
           = Cardinality(Serving) + Cardinality(retired) - Cardinality(Serving \cap retired)
  BY <1>2, FS_Union
<1>4. Cardinality(Serving \cap retired) = 0
  <2>1. Serving \cap retired = {}
    BY DEF Serving
  <2> QED BY <2>1, FS_EmptySet
<1>5. Cardinality(Serving \cup retired) = Cardinality(Serving) + Cardinality(retired)
  BY <1>2, <1>3, <1>4
<1>6. Cardinality(Live) <= Cardinality(Serving \cup retired) /\ Cardinality(Live) \in Nat
  BY <1>1, <1>3, FS_Subset, FS_CardinalityType
<1>7. /\ Cardinality(retired) <= MaxRetired
      /\ Cardinality(Serving) + Cardinality(Failing) <= MaxWorkers
  BY DEF PoolIInv, Limits
<1>8. Cardinality(Live) <= MaxWorkers + MaxRetired
  BY <1>2, <1>5, <1>6, <1>7
<1> QED BY <1>8 DEF ThreadsBounded

\* Things that each have a call of their own are no more than the calls.
LEMMA OneEach ==
  ASSUME NEW S, NEW T, IsFiniteSet(T), NEW f \in [S -> T],
         \A x, y \in S : f[x] = f[y] => x = y
  PROVE  IsFiniteSet(S) /\ Cardinality(S) <= Cardinality(T) /\ Cardinality(S) \in Nat
<1>1. f \in Injection(S, T)
  BY DEF Injection, IsInjective
<1> QED BY <1>1, FS_Injection, FS_CardinalityType

LEMMA Starving ==
  ASSUME PoolIInv
  PROVE  NoCallStarves
<1> DEFINE P == {i \in DOMAIN queue : queue[i] # Stop /\ future[queue[i]] = "pending"}
           Q == {c \in Calls : future[c] = "pending"}
           B == {t \in Serving : worker[t] \in {"taken", "calling"}}
           R == {serves[t] : t \in B}
           Free == {t \in Serving : worker[t] \in {"idle", "done"}}
           S == Entering \cup reserved
<1> SUFFICES ASSUME closing = "open", Capacity <= MaxWorkers
             PROVE  Cardinality(P) <= Cardinality(Free) + Cardinality(Handing) + startFails
  BY DEF NoCallStarves
<1> USE DEF PoolIInv
<1>1. /\ IsFiniteSet(Serving) /\ IsFiniteSet(Entering) /\ IsFiniteSet(reserved) /\ IsFiniteSet(Calls)
      /\ Cardinality(Serving) \in Nat /\ Cardinality(Entering) \in Nat
      /\ Cardinality(reserved) \in Nat /\ Cardinality(Handing) \in Nat
      /\ inflight \in Nat /\ startFails \in Nat /\ MaxWorkers \in Nat /\ Capacity \in Nat
  BY PoolFinite, TypesFinite, PoolAssumption
<1>2. Q \subseteq S /\ R \subseteq S /\ Q \cap R = {}
  <2>1. \A t \in B : serves[t] \in S /\ future[serves[t]] = "running"
    BY DEF Serving, SlotsHeld, SlotMeansWorker, ServeMeans
  <2>2. Q \subseteq S
    BY DEF SlotsHeld
  <2> QED BY <2>1, <2>2
<1>3. /\ IsFiniteSet(S) /\ Cardinality(S) \in Nat
      /\ Cardinality(S) <= Cardinality(Entering) + Cardinality(reserved)
  <2>1. /\ IsFiniteSet(S) /\ IsFiniteSet(Entering \cap reserved)
        /\ Cardinality(S) = Cardinality(Entering) + Cardinality(reserved)
                              - Cardinality(Entering \cap reserved)
    BY <1>1, FS_Union, FS_Intersection
  <2>2. Cardinality(S) \in Nat /\ Cardinality(Entering \cap reserved) \in Nat
    BY <2>1, FS_CardinalityType
  <2> QED BY <1>1, <2>1, <2>2
<1>4. /\ IsFiniteSet(Q) /\ IsFiniteSet(R) /\ Cardinality(Q) \in Nat /\ Cardinality(R) \in Nat
      /\ Cardinality(Q) + Cardinality(R) <= Cardinality(S)
  <2>1. /\ IsFiniteSet(Q) /\ IsFiniteSet(R)
        /\ Cardinality(Q) \in Nat /\ Cardinality(R) \in Nat
    BY <1>2, <1>3, FS_Subset, FS_CardinalityType
  <2>2. Cardinality(Q \cup R) = Cardinality(Q) + Cardinality(R) - Cardinality(Q \cap R)
    BY <2>1, FS_Union
  <2>3. Cardinality(Q \cap R) = 0
    BY <1>2, FS_EmptySet
  <2>4. Cardinality(Q \cup R) <= Cardinality(S)
    BY <1>2, <1>3, FS_Subset
  <2> QED BY <2>1, <2>2, <2>3, <2>4
<1>5. Cardinality(P) <= Cardinality(Q) /\ Cardinality(P) \in Nat
  <2>1. PICK f : f = [i \in P |-> queue[i]]
    OBVIOUS
  <2>2. \A i \in P : queue[i] \in Calls
    BY DEF PoolTypeOK
  <2>3. f \in [P -> Q]
    BY <2>1, <2>2
  <2>4. \A i, j \in P : f[i] = f[j] => i = j
    BY <2>1 DEF QueueMeans
  <2> HIDE DEF P, Q
  <2> QED BY <1>4, <2>3, <2>4, OneEach
<1>6. IsFiniteSet(B) /\ Cardinality(B) <= Cardinality(R) /\ Cardinality(B) \in Nat
  <2>1. PICK f : f = [t \in B |-> serves[t]]
    OBVIOUS
  <2>2. f \in [B -> R]
    BY <2>1
  <2>3. \A t, u \in B : f[t] = f[u] => t = u
    BY <2>1 DEF ServeMeans, Busy, Serving
  <2> HIDE DEF B, R
  <2> QED BY <1>4, <2>2, <2>3, OneEach
<1>7. Cardinality(Serving) = Cardinality(B) + Cardinality(Free) /\ Cardinality(Free) \in Nat
  <2>1. Serving = B \cup Free /\ B \cap Free = {}
    BY DEF PoolTypeOK, Serving
  <2>2. IsFiniteSet(Free) /\ Cardinality(Free) \in Nat
    BY <1>1, FS_Subset, FS_CardinalityType
  <2>3. Cardinality(B \cup Free) = Cardinality(B) + Cardinality(Free) - Cardinality(B \cap Free)
    BY <1>6, <2>2, FS_Union
  <2>4. Cardinality(B \cap Free) = 0
    <3>1. B \cap Free = {}
      BY <2>1
    <3> QED BY <3>1, FS_EmptySet
  <2> HIDE DEF B, Free
  <2>5. Cardinality(Serving) = Cardinality(B \cup Free)
    BY <2>1
  <2> QED BY <1>6, <2>2, <2>3, <2>4, <2>5
<1>8. /\ inflight = Cardinality(Entering) + Cardinality(reserved) /\ inflight <= Capacity
      /\ Cardinality(Serving) + Cardinality(Handing) + startFails >= MaxWorkers
  BY DEF InflightExact, Limits, WorkersKept
<1> HIDE DEF P, Q, B, R, Free, S
<1> QED BY <1>1, <1>3, <1>4, <1>5, <1>6, <1>7, <1>8

LEMMA PoolInitIInv ==
  ASSUME PoolInit
  PROVE  PoolIInv
<1> USE DEF PoolInit
<1>1. MaxWorkers \in Nat /\ MaxWorkers # 0 /\ Capacity \in Nat /\ MaxRetired \in Nat
      /\ MaxStartFails \in Nat /\ NoCall \notin Calls
  BY PoolAssumption
<1>2. PoolTypeOK
  <2>1. queue \in Seq(Calls \cup {Stop}) /\ startFails \in 0 .. MaxStartFails
    BY <1>1
  <2>2. worker \in [Workers -> {"none", "idle", "taken", "calling", "done", "gone"}]
    OBVIOUS
  <2> QED BY <2>1, <2>2 DEF PoolTypeOK
<1>3. \A t \in Workers : worker[t] \in {"none", "idle"} /\ serves[t] = NoCall
  OBVIOUS
<1>4. FutureMeans /\ QueueMeans /\ ServeMeans /\ HandoverMeans /\ SlotsHeld
  <2>1. FutureMeans /\ QueueMeans /\ HandoverMeans
    BY DEF FutureMeans, QueueMeans, HandoverMeans
  <2>2. ServeMeans
    BY <1>1, <1>3 DEF ServeMeans, Busy
  <2>3. SlotsHeld
    BY <1>3 DEF SlotsHeld, SlotMeansWorker, Serving
  <2> QED BY <2>1, <2>2, <2>3
<1>5. Serving = 1 .. MaxWorkers /\ Handing = {} /\ Failing = {} /\ Entering = {}
  <2>1. Cardinality(Calls) \in Nat
    BY PoolFinite
  <2>2. 1 .. MaxWorkers \subseteq Workers
    BY <1>1, <2>1 DEF Workers
  <2>3. \A t \in Workers : t \in Int /\ t >= 1
    BY <1>1, <2>1 DEF Workers
  <2>4. \A t \in Workers : worker[t] \notin {"none", "gone"} <=> t \in 1 .. MaxWorkers
    BY <1>1, <2>3
  <2> QED BY <2>2, <2>4 DEF Serving, Handing, Failing, Entering
<1>6. Cardinality(Serving) = MaxWorkers
  BY <1>1, <1>5, FS_Interval
<1>7. Limits /\ InflightExact /\ WorkersKept
  BY <1>1, <1>5, <1>6, FS_EmptySet DEF Limits, InflightExact, WorkersKept
<1> QED BY <1>2, <1>4, <1>7 DEF PoolIInv

LEMMA PoolStutter ==
  ASSUME PoolIInv, UNCHANGED poolVars
  PROVE  PoolIInv' /\ Onward
<1> USE DEF PoolIInv, poolVars
<1>1. Onward
  BY DEF Onward
<1>2. /\ ServeMeans' /\ HandoverMeans' /\ WorkersKept' /\ Cardinality(retired') <= MaxRetired
      /\ Cardinality(Serving') + Cardinality(Failing') <= MaxWorkers /\ Serving' = Serving
  BY <1>1, ThreadsKept DEF threadVars
<1>3. Entering' = Entering
  BY DEF Entering
<1>4. FutureMeans' /\ QueueMeans' /\ SlotsHeld' /\ Limits' /\ InflightExact' /\ PoolTypeOK'
  BY <1>2, <1>3 DEF FutureMeans, QueueMeans, SlotsHeld, SlotMeansWorker, Limits, InflightExact, PoolTypeOK
<1> QED BY <1>1, <1>2, <1>4

-----------------------------------------------------------------------------
(* A call that is not made or has ended stays so, until a run makes it.     *)

Ended(c) == admission[c] \in {"new", "refused"} \/ future[c] \in Final

EndsKept(X) == \A c \in Calls \ X : Ended(c) => Ended(c)'

LEMMA PoolAlone ==
  ASSUME PoolIInv, PoolStep
  PROVE  PoolIInv' /\ EndsKept({})
<1> USE DEF EndsKept, Ended
<1>1. ASSUME NEW t \in Workers, Take(t)
      PROVE  PoolIInv' /\ EndsKept({})
  <2>1. PoolIInv'
    BY <1>1, TakeStep
  <2>2. queue # <<>> /\ admission' = admission
    BY <1>1 DEF Take, admissionVars
  <2>3. PICK c : c = Head(queue) /\ (c # Stop => c \in Calls /\ future[c] \in {"pending", "cancelled"})
    <3>1. queue \in Seq(Calls \cup {Stop}) /\ queue # <<>>
      BY <2>2 DEF PoolIInv, PoolTypeOK
    <3>2. Head(queue) = queue[1] /\ 1 \in DOMAIN queue /\ Head(queue) \in Calls \cup {Stop}
      BY <3>1, TailOf
    <3> QED BY <3>2 DEF PoolIInv, QueueMeans
  <2>4. \A d \in Calls : future'[d] = future[d] \/ future[d] = "pending"
    BY <1>1, <2>3 DEF Take, PoolIInv, PoolTypeOK
  <2> QED BY <2>1, <2>2, <2>4 DEF Final
<1>2. ASSUME NEW t \in Workers, Register(t)
      PROVE  PoolIInv' /\ EndsKept({})
  <2>1. PoolIInv'
    BY <1>2, RegisterStep
  <2> QED BY <1>2, <2>1 DEF Register, admissionVars
<1>3. ASSUME NEW t \in Workers, Leave(t)
      PROVE  PoolIInv' /\ EndsKept({})
  <2>1. PoolIInv'
    BY <1>3, LeaveStep
  <2> QED BY <1>3, <2>1 DEF Leave, admissionVars
<1>4. ASSUME NEW c \in Calls, Release(c)
      PROVE  PoolIInv' /\ EndsKept({})
  <2>1. PoolIInv'
    BY <1>4, ReleaseStep
  <2> QED BY <1>4, <2>1 DEF Release
<1>5. ASSUME Drain
      PROVE  PoolIInv' /\ EndsKept({})
  <2>1. PoolIInv'
    BY <1>5, DrainStep
  <2>2. admission' = admission /\ \A d \in Calls : future'[d] = future[d] \/ future[d] = "pending"
    BY <1>5 DEF Drain, admissionVars, PoolIInv, PoolTypeOK
  <2> QED BY <2>1, <2>2 DEF Final
<1>6. ASSUME PutStops
      PROVE  PoolIInv' /\ EndsKept({})
  <2>1. PoolIInv'
    BY <1>6, PutStopsStep
  <2> QED BY <1>6, <2>1 DEF PutStops, admissionVars
<1> HIDE DEF EndsKept, Ended
<1> QED BY <1>1, <1>2, <1>3, <1>4, <1>5, <1>6 DEF PoolStep

\* The steps a run takes in the pool are about its own call.
LEMMA CallerReserves ==
  ASSUME PoolIInv, NEW c \in Calls, Reserve(c)
  PROVE  PoolIInv' /\ EndsKept({c})
<1>1. PoolIInv'
  BY ReserveStep
<1> QED BY <1>1 DEF Reserve, EndsKept, Ended, PoolIInv, PoolTypeOK

LEMMA CallerRefused ==
  ASSUME PoolIInv, NEW c \in Calls, Saturated(c)
  PROVE  PoolIInv' /\ EndsKept({}) /\ admission'[c] = "refused"
<1>1. PoolIInv'
  BY SaturatedStep
<1> QED BY <1>1 DEF Saturated, EndsKept, Ended, PoolIInv, PoolTypeOK

LEMMA CallerSubmits ==
  ASSUME PoolIInv, NEW c \in Calls, Enqueue(c) \/ Record(c)
  PROVE  PoolIInv' /\ EndsKept({})
<1>1. CASE Enqueue(c)
  <2>1. PoolIInv' /\ Onward
    BY <1>1, EnqueueStep
  <2>2. \A d \in Calls : admission[d] \in {"new", "refused"} => admission'[d] = admission[d]
    BY <1>1 DEF Enqueue, PoolIInv, PoolTypeOK
  <2> QED BY <2>1, <2>2 DEF Onward, EndsKept, Ended
<1>2. CASE Record(c)
  <2>1. PoolIInv'
    BY <1>2, RecordStep
  <2> QED BY <1>2, <2>1 DEF Record, EndsKept, Ended, PoolIInv, PoolTypeOK
<1> QED BY <1>1, <1>2

LEMMA CallerCancels ==
  ASSUME PoolIInv, NEW c \in Calls, CancelFuture(c)
  PROVE  PoolIInv' /\ EndsKept({})
<1>1. PoolIInv'
  BY CancelFutureStep
<1> QED BY <1>1 DEF CancelFuture, admissionVars, EndsKept, Ended, PoolIInv, PoolTypeOK, Final

LEMMA CallerGivesUp ==
  ASSUME PoolIInv, NEW c \in Calls,
         Retire(c) \/ Replace(c) \/ ReplaceFails(c) \/ Unretire(c) \/ GiveBack(c)
  PROVE  PoolIInv' /\ EndsKept({})
<1>1. PoolIInv'
  BY RetireStep, ReplaceStep, ReplaceFailsStep, UnretireStep, GiveBackStep
<1>2. UNCHANGED <<future, admission>>
  BY DEF Retire, Replace, ReplaceFails, Unretire, GiveBack, admissionVars
<1> QED BY <1>1, <1>2 DEF EndsKept, Ended

LEMMA CallEnds ==
  ASSUME PoolIInv, NEW t \in Workers, NEW result \in {"answer", "error"}, EndCall(t, result)
  PROVE  PoolIInv' /\ EndsKept({})
<1>1. PoolIInv'
  BY EndCallStep
<1>2. admission' = admission /\ \A d \in Calls : future'[d] = future[d] \/ future'[d] = result
  BY DEF EndCall, admissionVars, PoolIInv, PoolTypeOK
<1> QED BY <1>1, <1>2 DEF EndsKept, Ended, Final

LEMMA PoolIdle ==
  ASSUME PoolIInv, UNCHANGED poolVars
  PROVE  PoolIInv' /\ EndsKept({})
<1>1. PoolIInv'
  BY PoolStutter
<1> QED BY <1>1 DEF poolVars, EndsKept, Ended

-----------------------------------------------------------------------------
(* The runs.                                                                *)

Places == {"attempt", "reserve", "submit", "wait", "abort", "grace",
           "giveUp", "handover", "timedOut", "delay", "rebuild", "next"} \cup Over

LEMMA RunTypes ==
  ASSUME IInv, NEW r \in Runs
  PROVE  /\ todo \in [Runs -> Plan] /\ todo[r].presets \in Nat /\ todo[r].attempts \in Nat
         /\ preset[r] \in 0 .. todo[r].presets /\ attempt[r] \in 1 .. todo[r].attempts
         /\ pc[r] \in Places /\ pc \in [Runs -> Places] /\ abortChain[r] \in BOOLEAN
<1>1. todo \in [Runs -> Plan]
  BY RunAssumption DEF IInv, TypeOK
<1>2. todo[r].presets \in Nat /\ todo[r].attempts \in Nat
  BY <1>1 DEF Plan
<1> QED BY <1>1, <1>2 DEF IInv, TypeOK, Places

LEMMA CallExists ==
  ASSUME IInv, NEW r \in Runs, preset[r] > 0
  PROVE  Call(r) \in Calls /\ Call(r)[1] = r /\ Call(r) \in CallsOf(r)
<1>1. PICK p \in Nat, a \in Nat : p = preset[r] /\ a = attempt[r] /\ Call(r) = <<r, p, a>>
  BY DEF IInv, RunsTyped, Call
<1>2. p \in 1 .. todo[r].presets /\ a \in 1 .. todo[r].attempts
  BY <1>1, RunTypes
<1>3. {r} \X (1 .. todo[r].presets) \X (1 .. todo[r].attempts) \subseteq Calls
  BY RunAssumption DEF IInv, TypeOK
<1>4. <<r, p, a>> \in Calls
  BY <1>2, <1>3
<1> QED BY <1>1, <1>4 DEF CallsOf

\* A call stays silent when nobody speaks for it.
LEMMA SilentKept ==
  ASSUME NEW r, NEW c, Silent(r, c), Ended(c) => Ended(c)', token \subseteq token',
         checked' \subseteq checked \/ c \notin checked', heard'[r] = heard[r]
  PROVE  Silent(r, c)'
BY DEF Silent, Ended

\* What a step of another actor leaves of a run.
LEMMA RunLeft ==
  ASSUME IInv, NEW q \in Runs, UNCHANGED todo,
         pc'[q] = pc[q], preset'[q] = preset[q], attempt'[q] = attempt[q],
         abortChain'[q] = abortChain[q], heard'[q] = heard[q],
         token \subseteq token', body \subseteq body', checked' \subseteq checked,
         \A c \in CallsOf(q) : Ended(c) => Ended(c)'
  PROVE  InChain(q)' /\ Sourced(q)'
<1>1. Call(q)' = Call(q) /\ (Aside(q)' <=> Aside(q)) /\ CallsOf(q)' = CallsOf(q)
  BY DEF Call, Aside, CallsOf
<1>2. InChain(q) /\ Sourced(q)
  BY DEF IInv
<1>3. InChain(q)'
  BY <1>2 DEF InChain, CallsOf
<1>4. SUFFICES ASSUME todo[q].wire = "chat"
               PROVE  Sourced(q)'
  <2>1. todo'[q].wire # "chat" => Sourced(q)'
    BY DEF Sourced
  <2> QED BY <1>3, <2>1
<1>5. /\ \A c \in CallsOf(q) : c # Call(q) \/ Aside(q) => Silent(q, c)
      /\ pc[q] \in Aborting => Call(q) \in token
      /\ heard[q] \subseteq body
      /\ \A c \in CallsOf(q) \cap checked : c \in body
  BY <1>2, <1>4 DEF Sourced
<1>6. ASSUME NEW c \in CallsOf(q), c # Call(q) \/ Aside(q)
      PROVE  Silent(q, c)'
  BY <1>5, <1>6, SilentKept
<1>7. \A c \in CallsOf(q)' : c # Call(q)' \/ Aside(q)' => Silent(q, c)'
  BY <1>1, <1>6
<1>8. /\ pc'[q] \in Aborting => Call(q)' \in token'
      /\ heard'[q] \subseteq body'
      /\ \A c \in CallsOf(q)' \cap checked' : c \in body'
  BY <1>1, <1>5
<1> QED BY <1>7, <1>8 DEF Sourced

\* A run goes from one place to another of the same attempt.
LEMMA RunMoves ==
  ASSUME IInv, PoolIInv', NEW r \in Runs, NEW place \in Places,
         pc' = [pc EXCEPT ![r] = place],
         UNCHANGED <<todo, preset, attempt, operation, shutdown, callVars>>,
         abortChain' \in [Runs -> BOOLEAN], \A q \in Runs : q # r => abortChain'[q] = abortChain[q],
         token \subseteq token', token' \subseteq Calls,
         EndsKept({Call(r)}),
         place \notin {"next"} \cup Over => preset[r] > 0,
         place \in {"delay", "rebuild"} => attempt[r] < todo[r].attempts,
         todo[r].wire = "chat" =>
           /\ place \in {"attempt", "reserve", "delay", "rebuild"} \/ (place = "next" /\ abortChain'[r] = FALSE) =>
                \A c \in CallsOf(r) : c = Call(r) => Silent(r, c)'
           /\ place \in Aborting => Call(r) \in token'
  PROVE  IInv'
<1>1. pc'[r] = place /\ \A q \in Runs : q # r => pc'[q] = pc[q]
  BY RunTypes
<1>2. TypeOK'
  <2>1. pc' \in [Runs -> Places]
    BY RunTypes
  <2>2. PoolTypeOK' /\ UNCHANGED <<headers, body, checked, heard>>
    BY DEF PoolIInv, callVars
  <2> QED BY <2>1, <2>2 DEF IInv, TypeOK, Places
<1>3. RunsTyped'
  BY DEF IInv, RunsTyped
<1>4. ASSUME NEW q \in Runs, q # r
      PROVE  InChain(q)' /\ Sourced(q)'
  <2>1. \A c \in CallsOf(q) : c \in Calls /\ c # Call(r)
    BY <1>4 DEF CallsOf, Call
  <2>2. \A c \in CallsOf(q) : Ended(c) => Ended(c)'
    BY <2>1 DEF EndsKept
  <2>3. UNCHANGED <<heard, body, checked>>
    BY DEF callVars
  <2> QED BY <1>1, <1>4, <2>2, <2>3, RunLeft
<1>5. InChain(r)'
  <2>1. InChain(r) /\ UNCHANGED heard
    BY DEF IInv, callVars
  <2> QED BY <1>1, <2>1 DEF InChain, CallsOf
<1>6. Sourced(r)'
  <2>1. SUFFICES ASSUME todo[r].wire = "chat"
                 PROVE  Sourced(r)'
    <3>1. todo'[r].wire # "chat" => Sourced(r)'
      BY DEF Sourced
    <3> QED BY <3>1
  <2>2. /\ Call(r)' = Call(r) /\ CallsOf(r)' = CallsOf(r) /\ UNCHANGED <<heard, body, checked>>
        /\ Aside(r)' => place \in {"attempt", "reserve", "delay", "rebuild"} \/ (place = "next" /\ abortChain'[r] = FALSE)
    BY <1>1 DEF Call, CallsOf, Aside, callVars
  <2>3. /\ \A c \in CallsOf(r) : c # Call(r) => Silent(r, c)
        /\ heard[r] \subseteq body
        /\ \A c \in CallsOf(r) \cap checked : c \in body
    BY <2>1 DEF IInv, Sourced
  <2>4. ASSUME NEW c \in CallsOf(r), c # Call(r)
        PROVE  Silent(r, c)'
    <3>1. c \in Calls \ {Call(r)}
      BY <2>4 DEF CallsOf
    <3> QED BY <2>2, <2>3, <2>4, <3>1, SilentKept DEF EndsKept
  <2>5. ASSUME NEW c \in CallsOf(r), Aside(r)'
        PROVE  Silent(r, c)'
    BY <2>1, <2>2, <2>4, <2>5
  <2>6. \A c \in CallsOf(r)' : c # Call(r)' \/ Aside(r)' => Silent(r, c)'
    BY <2>2, <2>4, <2>5
  <2>7. /\ pc'[r] \in Aborting => Call(r)' \in token'
        /\ heard'[r] \subseteq body'
        /\ \A c \in CallsOf(r)' \cap checked' : c \in body'
    BY <1>1, <2>1, <2>2, <2>3
  <2> QED BY <2>6, <2>7 DEF Sourced
<1> QED BY <1>2, <1>3, <1>4, <1>5, <1>6 DEF IInv

\* A step of somebody else, who starts no call and lets none speak.
LEMMA RunsLeft ==
  ASSUME IInv, PoolIInv', UNCHANGED <<todo, pc, preset, attempt, abortChain, heard>>,
         EndsKept({}), token \subseteq token', token' \subseteq Calls,
         body \subseteq body', body' \subseteq Calls, checked' \subseteq checked, headers' \subseteq Calls,
         operation' \in [Runs -> {"live", "cancelled", "spread"}], shutdown' \in BOOLEAN
  PROVE  IInv'
<1>1. TypeOK'
  <2>1. PoolTypeOK'
    BY DEF PoolIInv
  <2> QED BY <2>1 DEF IInv, TypeOK
<1>2. RunsTyped'
  BY DEF IInv, RunsTyped
<1>3. ASSUME NEW q \in Runs
      PROVE  InChain(q)' /\ Sourced(q)'
  <2>1. \A c \in CallsOf(q) : Ended(c) => Ended(c)'
    BY DEF CallsOf, EndsKept
  <2> QED BY <2>1, RunLeft
<1> QED BY <1>1, <1>2, <1>3 DEF IInv

LEMMA AsideSilent ==
  ASSUME IInv, NEW r \in Runs, todo[r].wire = "chat", Aside(r)
  PROVE  \A c \in CallsOf(r) : Silent(r, c)
BY DEF IInv, Sourced

LEMMA KeptOfOthers ==
  ASSUME NEW X, EndsKept({})
  PROVE  EndsKept(X)
BY DEF EndsKept

\* The steps of a run before its call is made.
LEMMA BeforeCall ==
  ASSUME IInv, NEW r \in Runs,
         StopCancelled(r) \/ StartAttempt(r) \/ BuildFails(r) \/ Invalid(r)
  PROVE  IInv'
<1>1. /\ pc[r] = "attempt"
      /\ UNCHANGED <<todo, poolVars, preset, attempt, operation, token, abortChain, shutdown, callVars>>
  BY DEF StopCancelled, StartAttempt, BuildFails, Invalid
<1>2. PICK place \in {"cancelled", "reserve", "rebuild", "next"} :
        pc' = [pc EXCEPT ![r] = place] /\ (place \in {"delay", "rebuild"} => attempt[r] < todo[r].attempts)
  BY DEF StopCancelled, StartAttempt, BuildFails, Invalid, Goto
<1>3. PoolIInv' /\ EndsKept({})
  BY <1>1, PoolIdle DEF IInv
<1>4. preset[r] > 0 /\ Aside(r)
  BY <1>1 DEF IInv, InChain, Aside, Over
<1>5. todo[r].wire = "chat" => \A c \in CallsOf(r) : c = Call(r) => Silent(r, c)'
  <2>1. SUFFICES ASSUME todo[r].wire = "chat", NEW c \in CallsOf(r)
                 PROVE  Silent(r, c)'
    OBVIOUS
  <2>2. Silent(r, c) /\ c \in Calls
    BY <1>4, <2>1, AsideSilent DEF CallsOf
  <2> QED BY <1>1, <1>3, <2>2, SilentKept DEF EndsKept, callVars
<1>6. place \in Places /\ place \notin Aborting
  BY DEF Places, Aborting, Over
<1>7. abortChain' \in [Runs -> BOOLEAN] /\ token' \subseteq Calls
  BY <1>1 DEF IInv, TypeOK
<1> QED BY <1>1, <1>2, <1>3, <1>4, <1>5, <1>6, <1>7, KeptOfOthers, RunMoves

\* A step during the call: its run does not go on to another one.
LEMMA DuringCall ==
  ASSUME IInv, PoolIInv', NEW r \in Runs,
         NEW place \in {"submit", "wait", "abort", "grace", "giveUp", "handover", "timedOut"} \cup Over,
         pc' = [pc EXCEPT ![r] = place],
         UNCHANGED <<todo, preset, attempt, operation, abortChain, shutdown, callVars>>,
         token \subseteq token', token' \subseteq Calls,
         EndsKept({Call(r)}),
         pc[r] \notin {"next"} \cup Over,
         todo[r].wire = "chat" /\ place \in Aborting => Call(r) \in token'
  PROVE  IInv'
<1>1. preset[r] > 0
  BY DEF IInv, InChain
<1>2. place \in Places /\ place \notin {"attempt", "reserve", "delay", "rebuild", "next"}
  BY DEF Places, Over
<1>3. abortChain' \in [Runs -> BOOLEAN]
  BY DEF IInv, TypeOK
<1> QED BY <1>1, <1>2, <1>3, RunMoves

LEMMA TakeSlotStep ==
  ASSUME IInv, NEW r \in Runs, TakeSlot(r)
  PROVE  IInv'
<1> USE DEF TakeSlot
<1>1. pc[r] = "reserve" /\ preset[r] > 0
  BY DEF IInv, InChain, Over
<1>2. Call(r) \in Calls
  BY <1>1, CallExists
<1>3. PoolIInv' /\ EndsKept({Call(r)})
  BY <1>2, CallerReserves DEF IInv
<1>4. token \subseteq token' /\ token' \subseteq Calls
  BY <1>2 DEF IInv, TypeOK
<1>5. pc' = [pc EXCEPT ![r] = "submit"]
  BY DEF Goto
<1> QED BY <1>1, <1>3, <1>4, <1>5, DuringCall DEF Aborting, Over

LEMMA SubmitStep ==
  ASSUME IInv, NEW r \in Runs, Submit(r)
  PROVE  IInv'
<1>1. /\ pc[r] = "submit"
      /\ UNCHANGED <<todo, preset, attempt, operation, token, abortChain, shutdown, callVars>>
      /\ Enqueue(Call(r)) \/ Record(Call(r))
  BY DEF Submit
<1>2. PICK place \in {"submit", "wait"} : pc' = [pc EXCEPT ![r] = place]
  <2>1. pc = [pc EXCEPT ![r] = "submit"]
    BY <1>1, RunTypes
  <2> QED BY <2>1 DEF Submit, Goto
<1>3. Call(r) \in Calls
  BY <1>1, CallExists DEF IInv, InChain, Over
<1>4. PoolIInv' /\ EndsKept({})
  BY <1>1, <1>3, CallerSubmits DEF IInv
<1>5. token \subseteq token' /\ token' \subseteq Calls
  BY <1>1 DEF IInv, TypeOK
<1> QED BY <1>1, <1>2, <1>4, <1>5, KeptOfOthers, DuringCall DEF Aborting, Over

LEMMA NoSlotStep ==
  ASSUME IInv, NEW r \in Runs, NoSlot(r)
  PROVE  IInv'
<1>1. /\ pc[r] = "reserve" /\ Saturated(Call(r))
      /\ UNCHANGED <<todo, preset, attempt, operation, token, abortChain, shutdown, callVars>>
  BY DEF NoSlot
<1>2. PICK place \in {"cancelled", "next"} : pc' = [pc EXCEPT ![r] = place]
  BY DEF NoSlot, Goto, FailAttempt
<1>3. preset[r] > 0 /\ Call(r) \in Calls
  BY <1>1, CallExists DEF IInv, InChain, Over
<1>4. PoolIInv' /\ EndsKept({}) /\ admission'[Call(r)] = "refused"
  BY <1>1, <1>3, CallerRefused DEF IInv
<1>5. todo[r].wire = "chat" => \A c \in CallsOf(r) : c = Call(r) => Silent(r, c)'
  <2>1. Aside(r) /\ heard' = heard
    BY <1>1 DEF Aside, callVars
  <2> QED BY <1>4, <2>1, AsideSilent DEF Silent
<1>6. abortChain' \in [Runs -> BOOLEAN] /\ token \subseteq token' /\ token' \subseteq Calls
  BY <1>1 DEF IInv, TypeOK
<1>7. place \in Places /\ place \notin Aborting /\ place \notin {"delay", "rebuild"}
  BY DEF Places, Aborting, Over
<1> QED BY <1>1, <1>2, <1>3, <1>4, <1>5, <1>6, <1>7, KeptOfOthers, RunMoves

\* The way out of a call that ended, or that was given up.
LEMMA CollectStep ==
  ASSUME IInv, NEW r \in Runs, Collect(r)
  PROVE  IInv'
<1>1. /\ pc[r] = "wait" /\ future[Call(r)] \in Final
      /\ UNCHANGED <<todo, poolVars, preset, attempt, operation, token, shutdown, callVars>>
  BY DEF Collect
<1>2. abortChain \in [Runs -> BOOLEAN] /\ abortChain = [abortChain EXCEPT ![r] = abortChain[r]]
  BY DEF IInv, TypeOK
<1>3. PICK place \in {"cancelled", "answered", "delay", "next"}, b \in BOOLEAN :
        /\ pc' = [pc EXCEPT ![r] = place] /\ abortChain' = [abortChain EXCEPT ![r] = b]
        /\ place = "delay" => attempt[r] < todo[r].attempts
        /\ place = "next" \/ place = "delay" =>
             (place = "next" /\ b = TRUE) \/ todo[r].wire = "json" \/ Call(r) \notin body
  <2>1. CASE Cancelled(r)
    BY <1>2, <2>1 DEF Collect, Goto
  <2>2. CASE ~Cancelled(r) /\ future[Call(r)] = "answer"
    <3>1. pc' = [pc EXCEPT ![r] = "answered"] /\ abortChain' = abortChain
      BY <2>2 DEF Collect, Goto
    <3> QED BY <1>2, <3>1
  <2>3. CASE ~Cancelled(r) /\ future[Call(r)] # "answer" /\ todo[r].wire # "json" /\ Call(r) \in body
    <3>1. pc' = [pc EXCEPT ![r] = "next"] /\ abortChain' = [abortChain EXCEPT ![r] = TRUE]
      BY <2>3 DEF Collect, FailAttempt, Goto
    <3> QED BY <3>1
  <2>4. CASE ~Cancelled(r) /\ future[Call(r)] # "answer" /\ ~(todo[r].wire # "json" /\ Call(r) \in body)
    <3>1. abortChain' = abortChain /\ \E kind \in {"transient", "fatal"} : FailAttempt(r, kind)
      BY <2>4 DEF Collect
    <3>2. PICK place \in {"delay", "next"} :
            pc' = [pc EXCEPT ![r] = place] /\ (place = "delay" => attempt[r] < todo[r].attempts)
      BY <3>1 DEF FailAttempt, Goto
    <3> QED BY <1>2, <2>4, <3>1, <3>2
  <2> QED BY <2>1, <2>2, <2>3, <2>4
<1>4. PoolIInv' /\ EndsKept({})
  BY <1>1, PoolIdle DEF IInv
<1>5. preset[r] > 0
  BY <1>1 DEF IInv, InChain, Over
<1>6. /\ abortChain' \in [Runs -> BOOLEAN] /\ abortChain'[r] = b
      /\ \A q \in Runs : q # r => abortChain'[q] = abortChain[q]
  BY <1>2, <1>3
<1>7. ASSUME todo[r].wire = "chat",
             place \in {"attempt", "reserve", "delay", "rebuild"} \/ (place = "next" /\ abortChain'[r] = FALSE),
             NEW c \in CallsOf(r), c = Call(r)
      PROVE  Silent(r, c)'
  <2>1. Call(r) \notin body
    BY <1>3, <1>6, <1>7
  <2>2. heard[r] \subseteq body
    BY <1>7 DEF IInv, Sourced
  <2>3. UNCHANGED <<heard, future>>
    BY <1>1 DEF callVars, poolVars
  <2> QED BY <1>1, <1>7, <2>1, <2>2, <2>3 DEF Silent
<1>8. place \in Places /\ place \notin Aborting /\ token \subseteq token' /\ token' \subseteq Calls
  BY <1>1 DEF Places, Aborting, Over, IInv, TypeOK
<1> QED BY <1>1, <1>3, <1>4, <1>5, <1>6, <1>7, <1>8, KeptOfOthers, RunMoves

LEMMA TimedOutStep ==
  ASSUME IInv, NEW r \in Runs, TimedOut(r)
  PROVE  IInv'
<1>1. /\ pc[r] = "timedOut"
      /\ UNCHANGED <<todo, poolVars, preset, attempt, operation, token, shutdown, callVars>>
  BY DEF TimedOut
<1>2. abortChain \in [Runs -> BOOLEAN] /\ abortChain = [abortChain EXCEPT ![r] = abortChain[r]]
  BY DEF IInv, TypeOK
<1>3. PICK place \in {"cancelled", "delay", "next"}, b \in BOOLEAN :
        /\ pc' = [pc EXCEPT ![r] = place] /\ abortChain' = [abortChain EXCEPT ![r] = b]
        /\ place = "delay" => attempt[r] < todo[r].attempts /\ ~Answering(r)
        /\ place = "next" => b = Answering(r)
  <2>1. CASE Cancelled(r)
    BY <1>2, <2>1 DEF TimedOut, Goto
  <2>2. CASE ~Cancelled(r)
    <3>1. PICK b \in BOOLEAN : b = Answering(r)
      <4>1. Answering(r) = TRUE \/ Answering(r) = FALSE
        BY DEF Answering
      <4> QED BY <4>1
    <3>2. PICK place \in {"delay", "next"} :
            /\ pc' = [pc EXCEPT ![r] = place]
            /\ place = "delay" => attempt[r] < todo[r].attempts /\ ~Answering(r)
      BY <2>2 DEF TimedOut, FailAttempt, Goto
    <3>3. abortChain' = [abortChain EXCEPT ![r] = b]
      BY <2>2, <3>1 DEF TimedOut
    <3> QED BY <3>1, <3>2, <3>3
  <2> QED BY <2>1, <2>2
<1>4. PoolIInv' /\ EndsKept({})
  BY <1>1, PoolIdle DEF IInv
<1>5. preset[r] > 0
  BY <1>1 DEF IInv, InChain, Over
<1>6. /\ abortChain' \in [Runs -> BOOLEAN] /\ abortChain'[r] = b
      /\ \A q \in Runs : q # r => abortChain'[q] = abortChain[q]
  BY <1>2, <1>3
<1>7. ASSUME todo[r].wire = "chat",
             place \in {"attempt", "reserve", "delay", "rebuild"} \/ (place = "next" /\ abortChain'[r] = FALSE),
             NEW c \in CallsOf(r), c = Call(r)
      PROVE  Silent(r, c)'
  <2>1. ~Answering(r)
    BY <1>3, <1>6, <1>7
  <2>2. c \notin body
    BY <1>7, <2>1 DEF Answering
  <2>3. c \in token /\ heard[r] \subseteq body /\ (c \in checked => c \in body)
    BY <1>1, <1>7 DEF IInv, Sourced, Aborting
  <2>4. UNCHANGED <<heard, token, checked>>
    BY <1>1 DEF callVars
  <2> QED BY <2>2, <2>3, <2>4 DEF Silent
<1>8. place \in Places /\ place \notin Aborting /\ token \subseteq token' /\ token' \subseteq Calls
  BY <1>1 DEF Places, Aborting, Over, IInv, TypeOK
<1> QED BY <1>1, <1>3, <1>4, <1>5, <1>6, <1>7, <1>8, KeptOfOthers, RunMoves

\* Waiting for the call, and giving it up.
LEMMA WaitStep ==
  ASSUME IInv, NEW r \in Runs, FindCancelled(r) \/ Deadline(r)
  PROVE  IInv'
<1>1. /\ pc[r] = "wait" /\ pc' = [pc EXCEPT ![r] = "abort"]
      /\ UNCHANGED <<todo, poolVars, preset, attempt, operation, abortChain, shutdown, callVars>>
  BY DEF FindCancelled, Deadline, Goto
<1>2. Call(r) \in Calls
  BY <1>1, CallExists DEF IInv, InChain, Over
<1>3. token \subseteq token' /\ token' \subseteq Calls /\ Call(r) \in token'
  BY <1>2 DEF FindCancelled, Deadline, IInv, TypeOK
<1>4. PoolIInv' /\ EndsKept({})
  BY <1>1, PoolIdle DEF IInv
<1> QED BY <1>1, <1>3, <1>4, KeptOfOthers, DuringCall DEF Over

LEMMA AbortingStep ==
  ASSUME IInv, NEW r \in Runs, Abort(r) \/ Grace(r) \/ GiveUp(r) \/ HandOver(r)
  PROVE  IInv'
<1>1. /\ pc[r] \in {"abort", "grace", "giveUp", "handover"}
      /\ UNCHANGED <<todo, preset, attempt, operation, token, abortChain, shutdown, callVars>>
  BY DEF Abort, Grace, GiveUp, HandOver
<1>2. PICK place \in {"grace", "giveUp", "handover", "timedOut"} : pc' = [pc EXCEPT ![r] = place]
  <2>1. CASE Abort(r) \/ Grace(r) \/ GiveUp(r)
    BY <2>1 DEF Abort, Grace, GiveUp, Goto
  <2>2. CASE HandOver(r)
    <3>1. pc = [pc EXCEPT ![r] = pc[r]] /\ pc[r] = "handover"
      BY <2>2, RunTypes DEF HandOver
    <3> QED BY <2>2, <3>1 DEF HandOver, Goto
  <2> QED BY <2>1, <2>2
<1>3. Call(r) \in Calls
  BY <1>1, CallExists DEF IInv, InChain, Over
<1>4. PoolIInv' /\ EndsKept({})
  <2>1. CASE Abort(r)
    BY <1>3, <2>1, CallerCancels, PoolIdle DEF Abort, IInv
  <2>2. CASE Grace(r)
    BY <2>2, PoolIdle DEF Grace, IInv
  <2>3. CASE GiveUp(r)
    BY <1>3, <2>3, CallerGivesUp, PoolIdle DEF GiveUp, IInv
  <2>4. CASE HandOver(r)
    BY <1>3, <2>4, CallerGivesUp DEF HandOver, IInv
  <2> QED BY <2>1, <2>2, <2>3, <2>4
<1>5. token \subseteq token' /\ token' \subseteq Calls
  BY <1>1 DEF IInv, TypeOK
<1>6. todo[r].wire = "chat" => Call(r) \in token'
  BY <1>1 DEF IInv, Sourced, Aborting
<1> QED BY <1>1, <1>2, <1>4, <1>5, <1>6, KeptOfOthers, DuringCall DEF Over

\* A run goes on to another call: none of its calls speaks.
LEMMA NextCall ==
  ASSUME IInv, NEW r \in Runs,
         NEW p \in 1 .. todo[r].presets, NEW a \in 1 .. todo[r].attempts,
         Aside(r),
         pc' = [pc EXCEPT ![r] = "attempt"],
         preset' = [preset EXCEPT ![r] = p], attempt' = [attempt EXCEPT ![r] = a],
         UNCHANGED <<todo, poolVars, operation, token, abortChain, shutdown, callVars>>
  PROVE  IInv'
<1>1. /\ pc'[r] = "attempt" /\ \A q \in Runs : q # r => pc'[q] = pc[q]
      /\ preset'[r] = p /\ \A q \in Runs : q # r => preset'[q] = preset[q]
      /\ attempt'[r] = a /\ \A q \in Runs : q # r => attempt'[q] = attempt[q]
      /\ UNCHANGED <<heard, body, checked, headers>>
  BY RunTypes DEF IInv, RunsTyped, callVars
<1>2. PoolIInv' /\ EndsKept({})
  BY PoolIdle DEF IInv
<1>3. p \in Nat /\ a \in Nat /\ p > 0 /\ p \in 0 .. todo[r].presets
  BY RunTypes
<1>4. RunsTyped'
  BY <1>3 DEF IInv, RunsTyped
<1>5. TypeOK'
  <2>1. pc' \in [Runs -> Places]
    BY RunTypes DEF Places
  <2>2. PoolTypeOK'
    BY <1>2 DEF PoolIInv
  <2>3. \A q \in Runs : preset'[q] \in 0 .. todo'[q].presets /\ attempt'[q] \in 1 .. todo'[q].attempts
    BY <1>1, <1>3, RunTypes
  <2> QED BY <1>1, <2>1, <2>2, <2>3 DEF IInv, TypeOK, Places
<1>6. ASSUME NEW q \in Runs, q # r
      PROVE  InChain(q)' /\ Sourced(q)'
  <2>1. \A c \in CallsOf(q) : Ended(c) => Ended(c)'
    BY <1>2 DEF CallsOf, EndsKept
  <2> QED BY <1>1, <1>6, <2>1, RunLeft
<1>7. InChain(r)'
  <2>1. InChain(r)
    BY DEF IInv
  <2> QED BY <1>1, <1>3, <2>1 DEF InChain, CallsOf
<1>8. Sourced(r)'
  <2>1. SUFFICES ASSUME todo[r].wire = "chat"
                 PROVE  Sourced(r)'
    <3>1. todo'[r].wire # "chat" => Sourced(r)'
      BY DEF Sourced
    <3> QED BY <3>1
  <2>2. CallsOf(r)' = CallsOf(r)
    BY DEF CallsOf
  <2>3. ASSUME NEW c \in CallsOf(r)
        PROVE  Silent(r, c)'
    <3>1. Silent(r, c) /\ c \in Calls
      BY <2>1, AsideSilent DEF CallsOf
    <3> QED BY <1>1, <1>2, <3>1, SilentKept DEF EndsKept
  <2>4. /\ pc'[r] \notin Aborting /\ heard'[r] \subseteq body'
        /\ \A c \in CallsOf(r)' \cap checked' : c \in body'
    BY <1>1, <2>1, <2>2 DEF Aborting, IInv, Sourced
  <2> QED BY <2>2, <2>3, <2>4 DEF Sourced
<1> QED BY <1>2, <1>4, <1>5, <1>6, <1>7, <1>8 DEF IInv

LEMMA DelayStep ==
  ASSUME IInv, NEW r \in Runs, Delay(r)
  PROVE  IInv'
<1>1. /\ pc[r] \in {"delay", "rebuild"} /\ Aside(r)
      /\ UNCHANGED <<todo, poolVars, preset, operation, token, shutdown, callVars>>
  BY DEF Delay, Aside
<1>2. preset[r] > 0 /\ attempt[r] < todo[r].attempts
  BY <1>1 DEF IInv, InChain, Over
<1>3. PoolIInv' /\ EndsKept({})
  BY <1>1, PoolIdle DEF IInv
<1>4. CASE (pc[r] = "delay" /\ Cancelled(r)) \/ shutdown
  <2>1. PICK place \in {"cancelled", "next"} :
          /\ pc' = [pc EXCEPT ![r] = place] /\ attempt' = attempt
          /\ place = "cancelled" => abortChain' = abortChain
          /\ place = "next" => abortChain' = [abortChain EXCEPT ![r] = TRUE]
    BY <1>4 DEF Delay, Goto
  <2>2. /\ abortChain' \in [Runs -> BOOLEAN] /\ (place = "next" => abortChain'[r] = TRUE)
        /\ \A q \in Runs : q # r => abortChain'[q] = abortChain[q]
    BY <2>1 DEF IInv, TypeOK
  <2>3. place \in Places /\ place \notin Aborting /\ token \subseteq token' /\ token' \subseteq Calls
    BY <1>1 DEF Places, Aborting, Over, IInv, TypeOK
  <2> QED BY <1>1, <1>2, <1>3, <2>1, <2>2, <2>3, KeptOfOthers, RunMoves
<1>5. CASE ~(pc[r] = "delay" /\ Cancelled(r)) /\ ~shutdown
  <2>1. /\ pc' = [pc EXCEPT ![r] = "attempt"] /\ attempt' = [attempt EXCEPT ![r] = attempt[r] + 1]
        /\ abortChain' = abortChain
    BY <1>5 DEF Delay, Goto
  <2>2. preset[r] \in 1 .. todo[r].presets /\ attempt[r] + 1 \in 1 .. todo[r].attempts
    BY <1>2, RunTypes
  <2>3. preset' = [preset EXCEPT ![r] = preset[r]]
    BY <1>1 DEF IInv, RunsTyped
  <2> QED BY <1>1, <2>1, <2>2, <2>3, NextCall
<1> QED BY <1>4, <1>5

LEMMA NextPresetStep ==
  ASSUME IInv, NEW r \in Runs, NextPreset(r)
  PROVE  IInv'
<1>1. /\ pc[r] = "next"
      /\ UNCHANGED <<todo, poolVars, operation, token, abortChain, shutdown, callVars>>
  BY DEF NextPreset
<1>2. PoolIInv' /\ EndsKept({})
  BY <1>1, PoolIdle DEF IInv
<1>3. \/ \E place \in {"cancelled", "failed"} :
           pc' = [pc EXCEPT ![r] = place] /\ UNCHANGED <<preset, attempt>>
      \/ /\ abortChain[r] # TRUE /\ preset[r] # todo[r].presets
         /\ pc' = [pc EXCEPT ![r] = "attempt"]
         /\ preset' = [preset EXCEPT ![r] = preset[r] + 1]
         /\ attempt' = [attempt EXCEPT ![r] = 1]
  BY DEF NextPreset, Goto
<1>4. ASSUME NEW place \in {"cancelled", "failed"},
             pc' = [pc EXCEPT ![r] = place], UNCHANGED <<preset, attempt>>
      PROVE  IInv'
  <2>1. abortChain' \in [Runs -> BOOLEAN] /\ token \subseteq token' /\ token' \subseteq Calls
    BY <1>1 DEF IInv, TypeOK
  <2>2. place \in Places /\ place \notin Aborting /\ place \in Over
    BY DEF Places, Aborting, Over
  <2> QED BY <1>1, <1>2, <1>4, <2>1, <2>2, KeptOfOthers, RunMoves DEF Over
<1>5. ASSUME abortChain[r] # TRUE, preset[r] # todo[r].presets,
             pc' = [pc EXCEPT ![r] = "attempt"],
             preset' = [preset EXCEPT ![r] = preset[r] + 1],
             attempt' = [attempt EXCEPT ![r] = 1]
      PROVE  IInv'
  <2>1. Aside(r)
    BY <1>1, <1>5, RunTypes DEF Aside
  <2>2. preset[r] + 1 \in 1 .. todo[r].presets /\ 1 \in 1 .. todo[r].attempts
    <3>1. /\ todo[r].presets \in Nat /\ todo[r].attempts \in Nat
          /\ preset[r] \in 0 .. todo[r].presets /\ attempt[r] \in 1 .. todo[r].attempts
      BY RunTypes
    <3>2. preset[r] # todo[r].presets
      BY <1>5
    <3> QED BY <3>1, <3>2
  <2> QED BY <1>1, <1>5, <2>1, <2>2, NextCall
<1> QED BY <1>3, <1>4, <1>5

-----------------------------------------------------------------------------
(* The owner of the operation, the pool and the shutdown.                   *)

LEMMA OwnerStep ==
  ASSUME IInv, NEW r \in Runs, CancelOperation(r) \/ SpreadCancel(r)
  PROVE  IInv'
<1>1. UNCHANGED <<todo, poolVars, pc, preset, attempt, abortChain, shutdown, callVars>>
  BY DEF CancelOperation, SpreadCancel
<1>2. PoolIInv' /\ EndsKept({})
  BY <1>1, PoolIdle DEF IInv
<1>3. token \subseteq token' /\ token' \subseteq Calls
  BY DEF CancelOperation, SpreadCancel, CallsOf, IInv, TypeOK
<1>4. operation' \in [Runs -> {"live", "cancelled", "spread"}]
  BY DEF CancelOperation, SpreadCancel, IInv, TypeOK
<1>5. UNCHANGED <<headers, body, checked, heard>>
  BY <1>1 DEF callVars
<1> QED BY <1>1, <1>2, <1>3, <1>4, <1>5, RunsLeft DEF IInv, TypeOK

LEMMA CloseRunnerStep ==
  ASSUME IInv, CloseRunner
  PROVE  IInv'
<1>1. /\ shutdown' = TRUE
      /\ UNCHANGED <<todo, poolVars, pc, preset, attempt, operation, token, abortChain, callVars>>
  BY DEF CloseRunner
<1>2. PoolIInv' /\ EndsKept({})
  BY <1>1, PoolIdle DEF IInv
<1> QED BY <1>1, <1>2, RunsLeft DEF IInv, TypeOK, callVars

LEMMA PoolOnlyStep ==
  ASSUME IInv, PoolStep \/ Close, UNCHANGED <<todo, runVars, callVars>>
  PROVE  IInv'
<1>1. PoolIInv' /\ EndsKept({})
  <2>1. CASE PoolStep
    BY <2>1, PoolAlone DEF IInv
  <2>2. CASE Close
    <3>1. PoolIInv'
      BY <2>2, CloseStep DEF IInv
    <3> QED BY <2>2, <3>1 DEF Close, admissionVars, EndsKept, Ended
  <2> QED BY <2>1, <2>2
<1> QED BY <1>1, RunsLeft DEF IInv, TypeOK, callVars, runVars

-----------------------------------------------------------------------------
(* The provider.                                                            *)

LEMMA CallServed ==
  ASSUME IInv, NEW t \in Workers, Calling(t)
  PROVE  /\ serves[t] \in Calls /\ ~Ended(serves[t])
         /\ serves[t][1] \in Runs /\ serves[t] \in CallsOf(serves[t][1])
<1>1. serves[t] \in Calls /\ future[serves[t]] = "running"
  BY DEF Calling, IInv, PoolIInv, ServeMeans, Busy
<1>2. ~Ended(serves[t])
  BY <1>1 DEF IInv, PoolIInv, FutureMeans, Ended, Final
<1> QED BY <1>1, <1>2, RunAssumption DEF CallsOf

\* A call that has not ended and is not forbidden to speak is the one its run is at.
LEMMA SpeakerIsCurrent ==
  ASSUME IInv, NEW r \in Runs, NEW c \in CallsOf(r), todo[r].wire = "chat",
         ~Ended(c), c \notin token \/ c \in checked
  PROVE  c = Call(r) /\ ~Aside(r)
<1>1. ~Silent(r, c)
  BY DEF Silent, Ended
<1> QED BY <1>1 DEF IInv, Sourced

LEMMA ProviderQuiet ==
  ASSUME IInv, NEW t \in Workers, GetHeaders(t) \/ RecordBody(t) \/ ProviderEnds(t)
  PROVE  IInv'
<1>1. serves[t] \in Calls
  BY CallServed DEF GetHeaders, RecordBody, ProviderEnds
<1>2. /\ UNCHANGED <<todo, runVars, heard>>
      /\ body \subseteq body' /\ body' \subseteq Calls
      /\ checked' \subseteq checked /\ headers' \subseteq Calls
  BY <1>1 DEF GetHeaders, RecordBody, ProviderEnds, IInv, TypeOK
<1>3. PoolIInv' /\ EndsKept({})
  <2>1. CASE GetHeaders(t) \/ RecordBody(t)
    BY <2>1, PoolIdle DEF GetHeaders, RecordBody, IInv
  <2>2. CASE ProviderEnds(t)
    BY <2>2, CallEnds DEF ProviderEnds, IInv
  <2> QED BY <2>1, <2>2
<1> QED BY <1>2, <1>3, RunsLeft DEF IInv, TypeOK, runVars

LEMMA CheckStep ==
  ASSUME IInv, NEW t \in Workers, Check(t)
  PROVE  IInv'
<1>1. PICK c : c = serves[t] /\ c \in Calls /\ ~Ended(c)
  BY CallServed DEF Check
<1>2. /\ c \notin token /\ checked' = checked \cup {c}
      /\ Wire(c) = "chat" => c \in body
      /\ UNCHANGED <<todo, poolVars, runVars, headers, body, heard>>
  BY <1>1 DEF Check
<1>3. PoolIInv' /\ EndsKept({})
  BY <1>2, PoolIdle DEF IInv
<1>4. TypeOK' /\ RunsTyped'
  BY <1>1, <1>2, <1>3 DEF IInv, TypeOK, RunsTyped, PoolIInv, runVars
<1>5. ASSUME NEW q \in Runs
      PROVE  InChain(q)' /\ Sourced(q)'
  <2>1. UNCHANGED <<todo, pc, preset, attempt, token, abortChain, heard, body>>
    BY <1>2 DEF runVars
  <2>2. /\ Call(q)' = Call(q) /\ CallsOf(q)' = CallsOf(q) /\ (Aside(q)' <=> Aside(q))
        /\ InChain(q) /\ Sourced(q)
    BY <2>1 DEF Call, CallsOf, Aside, IInv
  <2>3. InChain(q)'
    BY <2>1, <2>2 DEF InChain, CallsOf
  <2>4. SUFFICES ASSUME todo[q].wire = "chat"
                 PROVE  Sourced(q)'
    <3>1. todo'[q].wire # "chat" => Sourced(q)'
      BY <2>1 DEF Sourced
    <3> QED BY <2>1, <2>3, <3>1
  <2>5. /\ \A d \in CallsOf(q) : d # Call(q) \/ Aside(q) => Silent(q, d)
        /\ pc[q] \in Aborting => Call(q) \in token
        /\ heard[q] \subseteq body
        /\ \A d \in CallsOf(q) \cap checked : d \in body
    BY <2>2, <2>4 DEF Sourced
  <2>6. ASSUME NEW d \in CallsOf(q), d # Call(q) \/ Aside(q)
        PROVE  Silent(q, d)'
    <3>1. d # c
      BY <1>1, <1>2, <2>4, <2>6, SpeakerIsCurrent
    <3>2. d \in Calls /\ Silent(q, d) /\ (checked' \subseteq checked \/ d \notin checked' \/ d \in checked)
      BY <1>2, <2>5, <2>6, <3>1 DEF CallsOf
    <3>3. Ended(d) => Ended(d)'
      BY <1>3, <3>2 DEF EndsKept
    <3> QED BY <1>2, <2>1, <3>1, <3>2, <3>3 DEF Silent, Ended
  <2>7. c \in CallsOf(q) => c \in body
    BY <1>2, <2>4 DEF CallsOf, Wire
  <2>8. \A d \in CallsOf(q)' : d # Call(q)' \/ Aside(q)' => Silent(q, d)'
    BY <2>2, <2>6
  <2>9. /\ pc'[q] \in Aborting => Call(q)' \in token'
        /\ heard'[q] \subseteq body'
        /\ \A d \in CallsOf(q)' \cap checked' : d \in body'
    BY <1>2, <2>1, <2>2, <2>5, <2>7
  <2> QED BY <2>8, <2>9 DEF Sourced
<1> QED BY <1>3, <1>4, <1>5 DEF IInv

LEMMA EmitStep ==
  ASSUME IInv, NEW t \in Workers, Emit(t)
  PROVE  IInv'
<1>1. PICK c : c = serves[t] /\ c \in Calls /\ ~Ended(c) /\ c[1] \in Runs /\ c \in CallsOf(c[1])
  BY CallServed DEF Emit
<1>2. /\ c \in checked /\ c \in body /\ checked' = checked \ {c}
      /\ heard' = [heard EXCEPT ![c[1]] = @ \cup {c}]
      /\ UNCHANGED <<todo, poolVars, runVars, headers, body>>
  BY <1>1 DEF Emit
<1>3. /\ heard' \in [Runs -> SUBSET Calls] /\ heard'[c[1]] = heard[c[1]] \cup {c}
      /\ \A q \in Runs : q # c[1] => heard'[q] = heard[q]
  BY <1>1, <1>2 DEF IInv, TypeOK
<1>4. PoolIInv' /\ EndsKept({})
  BY <1>2, PoolIdle DEF IInv
<1>5. TypeOK' /\ RunsTyped'
  BY <1>1, <1>2, <1>3, <1>4 DEF IInv, TypeOK, RunsTyped, PoolIInv, runVars
<1>6. UNCHANGED <<todo, pc, preset, attempt, token, abortChain, body>>
  BY <1>2 DEF runVars
<1>7. ASSUME NEW q \in Runs, q # c[1]
      PROVE  InChain(q)' /\ Sourced(q)'
  <2>1. \A d \in CallsOf(q) : Ended(d) => Ended(d)'
    BY <1>4 DEF CallsOf, EndsKept
  <2> QED BY <1>2, <1>3, <1>6, <1>7, <2>1, RunLeft
<1>8. ASSUME NEW q \in Runs, q = c[1]
      PROVE  InChain(q)' /\ Sourced(q)'
  <2>1. /\ Call(q)' = Call(q) /\ CallsOf(q)' = CallsOf(q) /\ (Aside(q)' <=> Aside(q))
        /\ InChain(q) /\ Sourced(q) /\ c \in CallsOf(q) /\ heard'[q] = heard[q] \cup {c}
    BY <1>1, <1>3, <1>6, <1>8 DEF Call, CallsOf, Aside, IInv
  <2>2. InChain(q)'
    BY <1>6, <2>1 DEF InChain, CallsOf
  <2>3. SUFFICES ASSUME todo[q].wire = "chat"
                 PROVE  Sourced(q)'
    <3>1. todo'[q].wire # "chat" => Sourced(q)'
      BY <1>6 DEF Sourced
    <3> QED BY <1>6, <2>2, <3>1
  <2>4. /\ \A d \in CallsOf(q) : d # Call(q) \/ Aside(q) => Silent(q, d)
        /\ pc[q] \in Aborting => Call(q) \in token
        /\ heard[q] \subseteq body
        /\ \A d \in CallsOf(q) \cap checked : d \in body
    BY <2>1, <2>3 DEF Sourced
  <2>5. c = Call(q) /\ ~Aside(q)
    BY <1>1, <1>2, <2>1, <2>3, SpeakerIsCurrent
  <2>6. ASSUME NEW d \in CallsOf(q), d # Call(q) \/ Aside(q)
        PROVE  Silent(q, d)'
    <3>1. d # c /\ d \in Calls /\ Silent(q, d)
      BY <2>4, <2>5, <2>6 DEF CallsOf
    <3>2. Ended(d) => Ended(d)'
      BY <1>4, <3>1 DEF EndsKept
    <3> QED BY <1>2, <1>6, <2>1, <3>1, <3>2 DEF Silent, Ended
  <2>7. \A d \in CallsOf(q)' : d # Call(q)' \/ Aside(q)' => Silent(q, d)'
    BY <2>1, <2>6
  <2>8. /\ pc'[q] \in Aborting => Call(q)' \in token'
        /\ heard'[q] \subseteq body'
        /\ \A d \in CallsOf(q)' \cap checked' : d \in body'
    BY <1>2, <1>6, <2>1, <2>4
  <2> QED BY <2>7, <2>8 DEF Sourced
<1> QED BY <1>4, <1>5, <1>7, <1>8 DEF IInv

-----------------------------------------------------------------------------
(* The invariant, and the theorems.                                         *)

LEMMA InitIInv ==
  ASSUME Init
  PROVE  IInv
<1> USE DEF Init
<1>1. PoolIInv
  BY PoolInitIInv
<1>2. todo \in [Runs -> Plan] /\ \A r \in Runs : todo[r].presets \in Nat /\ todo[r].attempts \in Nat \ {0}
  <2>1. todo \in [Runs -> Plan]
    BY RunAssumption
  <2> QED BY <2>1 DEF Plan
<1>3. TypeOK /\ RunsTyped
  <2>1. \A r \in Runs : preset[r] \in 0 .. todo[r].presets /\ attempt[r] \in 1 .. todo[r].attempts
    BY <1>2
  <2>2. PoolTypeOK
    BY <1>1 DEF PoolIInv
  <2> QED BY <2>1, <2>2 DEF TypeOK, RunsTyped
<1>4. ASSUME NEW r \in Runs
      PROVE  InChain(r) /\ Sourced(r)
  <2>1. \A c \in CallsOf(r) : Silent(r, c)
    BY DEF PoolInit, CallsOf, Silent
  <2> QED BY <2>1 DEF InChain, Sourced, Aborting
<1> QED BY <1>1, <1>3, <1>4 DEF IInv

LEMMA StutterIInv ==
  ASSUME IInv, UNCHANGED vars
  PROVE  IInv'
<1>1. UNCHANGED <<todo, poolVars, pc, preset, attempt, operation, token, abortChain, shutdown, callVars>>
  BY DEF vars, runVars
<1>2. PoolIInv' /\ EndsKept({})
  BY <1>1, PoolIdle DEF IInv
<1> QED BY <1>1, <1>2, RunsLeft DEF IInv, TypeOK, callVars

LEMMA NextIInv ==
  ASSUME IInv, Next
  PROVE  IInv'
<1>1. ASSUME NEW r \in Runs, RunStep(r)
      PROVE  IInv'
  BY <1>1, BeforeCall, DelayStep, NextPresetStep, TakeSlotStep, NoSlotStep, SubmitStep,
     CollectStep, WaitStep, AbortingStep, TimedOutStep DEF RunStep
<1>2. ASSUME NEW r \in Runs, CancelOperation(r) \/ SpreadCancel(r)
      PROVE  IInv'
  BY <1>2, OwnerStep
<1>3. ASSUME NEW t \in Workers, Provider(t)
      PROVE  IInv'
  BY <1>3, ProviderQuiet, CheckStep, EmitStep DEF Provider
<1>4. CASE CloseRunner
  BY <1>4, CloseRunnerStep
<1>5. CASE Pool \/ CloseExecutor
  BY <1>5, PoolOnlyStep DEF Pool, CloseExecutor
<1> QED BY <1>1, <1>2, <1>3, <1>4, <1>5 DEF Next

\* The invariant that the four theorems below rest on (LLMRequestRunner._run_on_preset on
\* _BoundedPool and DaemonExecutor).
THEOREM Invariance == Spec => []IInv
<1>1. Init => IInv
  BY InitIInv
<1>2. IInv /\ [Next]_vars => IInv'
  BY NextIInv, StutterIInv
<1> QED BY <1>1, <1>2, PTL DEF Spec

\* The slots in use are counted exactly and the threads of the pool are bounded,
\* whatever calls are cancelled, abandoned or end at once (_BoundedPool,
\* DaemonExecutor.abandon).
THEOREM PoolBooksBalance == Spec => []PoolInv
<1>1. IInv => PoolInv
  BY Bounded DEF IInv, PoolIInv, PoolInv
<1> QED BY <1>1, Invariance, PTL

\* A slot is never given to another call while the worker of the first is busy and
\* nobody has taken its place (DaemonExecutor.abandon, then _BoundedPool.abandon).
THEOREM SlotStandsForWorker == Spec => []SlotMeansWorker
<1>1. IInv => SlotMeansWorker
  BY DEF IInv, PoolIInv, SlotsHeld
<1> QED BY <1>1, Invariance, PTL

\* With no more slots than workers, an admitted call does not wait behind a hung
\* one (the reason DaemonExecutor.abandon starts a worker).
THEOREM NoneStarves == Spec => []NoCallStarves
<1>1. IInv => NoCallStarves
  BY Starving DEF IInv
<1> QED BY <1>1, Invariance, PTL

\* The stream of a run of the chat reader carries the events of one call, and an
\* answer comes from that call (LLMRequestRunner, after a timeout, a cancellation
\* or a fallback to the next preset).
THEOREM StreamHasOneSource == Spec => []OneSource
<1>1. ASSUME IInv PROVE OneSource
  <2>1. ASSUME NEW r \in Runs, todo[r].wire = "chat"
        PROVE  Cardinality(heard[r]) <= 1 /\ heard[r] \subseteq {Call(r)}
    <3>1. \A c \in heard[r] : c = Call(r)
      BY <1>1, <2>1 DEF IInv, InChain, Sourced, Silent
    <3>2. heard[r] \subseteq {Call(r)}
      BY <3>1
    <3>3. IsFiniteSet({Call(r)}) /\ Cardinality({Call(r)}) = 1
      BY FS_Singleton
    <3>4. Cardinality(heard[r]) <= Cardinality({Call(r)}) /\ Cardinality(heard[r]) \in Nat
      BY <3>2, <3>3, FS_Subset, FS_CardinalityType
    <3> QED BY <3>2, <3>3, <3>4
  <2> QED BY <2>1 DEF OneSource
<1> QED BY <1>1, Invariance, PTL
=============================================================================
