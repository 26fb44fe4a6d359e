--------------------------- MODULE SerialDispatcher ---------------------------
(***************************************************************************)
(* The striped FIFO dispatcher under the event bus and the settings         *)
(* registry (core/serial_dispatcher.py).  Producers put callbacks into the  *)
(* lane of their key, one worker thread per lane runs them, and two         *)
(* counters under a condition variable say when all is quiet.  The queue    *)
(* and the counters have locks of their own: an item is put, then counted.  *)
(***************************************************************************)
EXTENDS Integers, FiniteSets, Sequences

CONSTANTS Producers, Lanes,
          LaneOf,     \* the lane of each producer's key
          Capacity,   \* capacity_per_lane; 0: unbounded
          MaxItems,   \* bound: submissions of one producer
          MayClose,   \* whether close is called
          Stop        \* _STOP

Items == Producers \X (1..MaxItems)

ASSUME DispatcherAssumption ==
  /\ LaneOf \in [Producers -> Lanes] /\ IsFiniteSet(Producers) /\ IsFiniteSet(Lanes)
  /\ Lanes # {}
  /\ Capacity \in Nat /\ MaxItems \in Nat /\ MayClose \in BOOLEAN
  /\ Stop \notin Items

VARIABLES queue,      \* one queue.Queue per lane
          producer,   \* submit, in each producer
          worker,     \* _worker, in each lane
          closer,     \* close
          queued, active,
          accepted,   \* items whose submit returned True
          ran         \* items whose callback has run, in order, per lane

vars == <<queue, producer, worker, closer, queued, active, accepted, ran>>

\* The types of the state; no more callbacks are active than there are lanes.
TypeOK ==
  /\ queue \in [Lanes -> Seq(Items \cup {Stop})]
  /\ producer \in [Producers -> [pc : {"idle", "put", "count"}, n : 0..MaxItems]]
  /\ worker \in [Lanes -> [pc : {"get", "begin", "run", "end", "stopped"},
                           item : Items \cup {Stop}]]
  /\ closer \in [pc : {"open", "wait", "lane", "discard", "account", "accountOne",
                        "stop", "closed"},
                 drained : BOOLEAN, todo : SUBSET Lanes, lane : Lanes]
  /\ queued \in Nat /\ active \in 0..Cardinality(Lanes)
  /\ accepted \subseteq Items
  /\ ran \in [Lanes -> Seq(Items)]

Init ==
  /\ queue = [l \in Lanes |-> <<>>]
  /\ producer = [p \in Producers |-> [pc |-> "idle", n |-> 0]]
  /\ worker = [l \in Lanes |-> [pc |-> "get", item |-> Stop]]
  /\ closer = [pc |-> "open", drained |-> FALSE, todo |-> Lanes,
               lane |-> CHOOSE l \in Lanes : TRUE]
  /\ queued = 0 /\ active = 0
  /\ accepted = {}
  /\ ran = [l \in Lanes |-> <<>>]

Closed == closer.pc # "open"
Less(n) == IF n > 0 THEN n - 1 ELSE 0       \* max(0, n - 1)
Full(l) == Capacity > 0 /\ Len(queue[l]) >= Capacity

-----------------------------------------------------------------------------
(* submit                                                                   *)

Submit(p) ==
  /\ producer[p].pc = "idle" /\ producer[p].n < MaxItems
  /\ producer' = [producer EXCEPT ![p] = [pc |-> IF Closed THEN "idle" ELSE "put",
                                          n |-> @.n + 1]]
  /\ UNCHANGED <<queue, worker, closer, queued, active, accepted, ran>>

Item(p) == <<p, producer[p].n>>

PutFirst(p) ==   \* mutant: the newest callback goes to the head
  /\ producer[p].pc = "put"
  /\ IF Full(LaneOf[p])
     THEN producer' = [producer EXCEPT ![p].pc = "idle"] /\ UNCHANGED queue
     ELSE /\ producer' = [producer EXCEPT ![p].pc = "count"]
          /\ queue' = [queue EXCEPT ![LaneOf[p]] = <<Item(p)>> \o @]
  /\ UNCHANGED <<worker, closer, queued, active, accepted, ran>>

Put(p) ==
  /\ producer[p].pc = "put"
  /\ IF Full(LaneOf[p])
     THEN producer' = [producer EXCEPT ![p].pc = "idle"] /\ UNCHANGED queue
     ELSE /\ producer' = [producer EXCEPT ![p].pc = "count"]
          /\ queue' = [queue EXCEPT ![LaneOf[p]] = Append(@, Item(p))]
  /\ UNCHANGED <<worker, closer, queued, active, accepted, ran>>

Uncounted(p) ==   \* mutant
  /\ producer[p].pc = "count"
  /\ producer' = [producer EXCEPT ![p].pc = "idle"]
  /\ accepted' = accepted \cup {Item(p)}
  /\ UNCHANGED <<queue, worker, closer, queued, active, ran>>

Count(p) ==
  /\ producer[p].pc = "count"
  /\ producer' = [producer EXCEPT ![p].pc = "idle"]
  /\ queued' = queued + 1
  /\ accepted' = accepted \cup {Item(p)}
  /\ UNCHANGED <<queue, worker, closer, active, ran>>

-----------------------------------------------------------------------------
(* _worker                                                                  *)

Worker(l, pc) == worker' = [worker EXCEPT ![l].pc = pc]

TakeStopLast(l) ==   \* mutant: the sentinel is put back behind the callbacks
  /\ worker[l].pc = "get" /\ queue[l] # <<>>
  /\ IF Head(queue[l]) = Stop
     THEN /\ queue' = [queue EXCEPT ![l] = Append(Tail(@), Stop)]
          /\ UNCHANGED worker
     ELSE /\ queue' = [queue EXCEPT ![l] = Tail(@)]
          /\ worker' = [worker EXCEPT ![l] = [item |-> Head(queue[l]), pc |-> "begin"]]
  /\ UNCHANGED <<producer, closer, queued, active, accepted, ran>>

Take(l) ==
  /\ worker[l].pc = "get" /\ queue[l] # <<>>
  /\ queue' = [queue EXCEPT ![l] = Tail(@)]
  /\ worker' = [worker EXCEPT ![l] =
                  [item |-> Head(queue[l]),
                   pc |-> IF Head(queue[l]) = Stop THEN "stopped" ELSE "begin"]]
  /\ UNCHANGED <<producer, closer, queued, active, accepted, ran>>

Begin(l) ==
  /\ worker[l].pc = "begin" /\ Worker(l, "run")
  /\ queued' = Less(queued) /\ active' = active + 1
  /\ UNCHANGED <<queue, producer, closer, accepted, ran>>

RunUnguarded(l) ==   \* mutant: a callback that raises ends the thread
  /\ worker[l].pc = "run"
  /\ \E pc \in {"end", "stopped"} : Worker(l, pc)
  /\ ran' = [ran EXCEPT ![l] = Append(@, worker[l].item)]
  /\ UNCHANGED <<queue, producer, closer, queued, active, accepted>>

\* The callback may raise: that is logged.
Run(l) ==
  /\ worker[l].pc = "run" /\ Worker(l, "end")
  /\ ran' = [ran EXCEPT ![l] = Append(@, worker[l].item)]
  /\ UNCHANGED <<queue, producer, closer, queued, active, accepted>>

EndStillActive(l) ==   \* mutant: no finally around the callback
  /\ worker[l].pc = "end" /\ Worker(l, "get")
  /\ UNCHANGED <<queue, producer, closer, queued, active, accepted, ran>>

End(l) ==
  /\ worker[l].pc = "end" /\ Worker(l, "get")
  /\ active' = Less(active)
  /\ UNCHANGED <<queue, producer, closer, queued, accepted, ran>>

-----------------------------------------------------------------------------
(* close                                                                    *)

Closer(pc) == closer' = [closer EXCEPT !.pc = pc]
Idle == queued = 0 /\ active = 0

Close(drain) ==
  /\ MayClose /\ closer.pc = "open" /\ Closer(IF drain THEN "wait" ELSE "lane")
  /\ UNCHANGED <<queue, producer, worker, queued, active, accepted, ran>>

\* wait_idle, or its timeout.
WaitIdle ==
  /\ closer.pc = "wait"
  /\ \E idle \in BOOLEAN : /\ idle => Idle
                           /\ closer' = [closer EXCEPT !.pc = "lane", !.drained = idle]
  /\ UNCHANGED <<queue, producer, worker, queued, active, accepted, ran>>

NextLane ==
  /\ closer.pc = "lane"
  /\ IF closer.todo = {} THEN Closer("closed")
     ELSE \E l \in closer.todo :
            closer' = [closer EXCEPT !.lane = l, !.todo = @ \ {l},
                                     !.pc = IF closer.drained THEN "stop" ELSE "discard"]
  /\ UNCHANGED <<queue, producer, worker, queued, active, accepted, ran>>

\* _discard_pending: until the lane is empty.
Discard ==
  LET l == closer.lane IN
  /\ closer.pc = "discard"
  /\ IF queue[l] = <<>>
     THEN Closer("stop") /\ UNCHANGED <<queue, queued>>
     ELSE /\ queue' = [queue EXCEPT ![l] = Tail(@)]
          /\ Closer("account") /\ UNCHANGED queued
  /\ UNCHANGED <<producer, worker, active, accepted, ran>>

Account ==
  /\ \/ closer.pc = "account" /\ Closer("discard")
     \/ closer.pc = "accountOne" /\ Closer("stop")
  /\ queued' = Less(queued)
  /\ UNCHANGED <<queue, producer, worker, active, accepted, ran>>

\* The sentinel goes in as soon as there is room; _discard_one makes some.
PutStop ==
  LET l == closer.lane IN
  /\ closer.pc = "stop"
  /\ IF Full(l)
     THEN queue' = [queue EXCEPT ![l] = Tail(@)] /\ Closer("accountOne")
     ELSE queue' = [queue EXCEPT ![l] = Append(@, Stop)] /\ Closer("lane")
  /\ UNCHANGED <<producer, worker, queued, active, accepted, ran>>

-----------------------------------------------------------------------------
Producing(p) == Put(p) \/ Count(p)
Working(l)   == Take(l) \/ Begin(l) \/ Run(l) \/ End(l)
Closing      == WaitIdle \/ NextLane \/ Discard \/ Account \/ PutStop

Next == \/ \E p \in Producers : Submit(p) \/ Producing(p)
        \/ \E l \in Lanes : Working(l)
        \/ \E drain \in BOOLEAN : Close(drain)
        \/ Closing

Spec == Init /\ [][Next]_vars

\* Threads run on and callbacks return.
FairSpec == /\ Spec
            /\ \A p \in Producers : WF_vars(Producing(p))
            /\ \A l \in Lanes : WF_vars(Working(l))
            /\ WF_vars(Closing)

-----------------------------------------------------------------------------
Waiting == {i \in Items : \/ \E l \in Lanes : \E k \in DOMAIN queue[l] : queue[l][k] = i
                          \/ \E l \in Lanes : worker[l].pc = "begin" /\ worker[l].item = i}
Counting == {p \in Producers : producer[p].pc = "count"}
Discarding == IF closer.pc \in {"account", "accountOne"} THEN 1 ELSE 0
HasRun(i) == \E l \in Lanes : \E k \in DOMAIN ran[l] : ran[l][k] = i

\* The counter of waiting callbacks misses none but those whose submit has not
\* returned yet, whatever max(0, n - 1) swallows.
NeverUnderCounts ==
  queued + Cardinality(Counting) >= Cardinality(Waiting) + Discarding

\* The counter of running callbacks is exact.
ActiveExact == active = Cardinality({l \in Lanes : worker[l].pc \in {"run", "end"}})

\* Callbacks of one key run in the order of their submission, each at most once.
KeyOrder ==
  \A l \in Lanes : \A j, k \in DOMAIN ran[l] :
    j < k /\ ran[l][j][1] = ran[l][k][1] => ran[l][j][2] < ran[l][k][2]

\* When wait_idle (the bus's flush) says the dispatcher is idle and no submit is
\* between its put and its count, everything accepted has run, unless close
\* has discarded it.
FlushHonest == Idle /\ ~Closed /\ Counting = {} => \A i \in accepted : HasRun(i)

\* What submit accepts runs, as long as the dispatcher is not closed.
AcceptedRuns == \A i \in Items : i \in accepted ~> HasRun(i) \/ Closed

\* close ends, and with it every worker.
CloseEnds == Closed ~> \A l \in Lanes : worker[l].pc = "stopped"

\* The counters and what the bus's flush concludes from them: the types,
\* NeverUnderCounts, ActiveExact and FlushHonest together.
CountersHonest == TypeOK /\ NeverUnderCounts /\ ActiveExact /\ FlushHonest

\* Accepted work runs (a handler that raises does not take its worker with it) and a
\* close ends every worker.
WorkEnds == AcceptedRuns /\ CloseEnds
=============================================================================
