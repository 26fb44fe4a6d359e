------------------------ MODULE SerialDispatcherProofs ------------------------
(***************************************************************************)
(* Proofs about SerialDispatcher, for any producers, lanes, keys, capacity  *)
(* and number of submissions: callbacks of a key run in order and at most   *)
(* once, and the counters never say that all is quiet while it is not.      *)
(***************************************************************************)
EXTENDS SerialDispatcher, SequenceTheorems, FiniteSetTheorems, TLAPS

Types ==
  /\ queue \in [Lanes -> Seq(Items \cup {Stop})]
  /\ producer \in [Producers -> [pc : {"idle", "put", "count"}, n : 0..MaxItems]]
  /\ worker \in [Lanes -> [pc : {"get", "begin", "run", "end", "stopped"},
                           item : Items \cup {Stop}]]
  /\ closer \in [pc : {"open", "wait", "lane", "discard", "account", "accountOne",
                        "stop", "closed"},
                 drained : BOOLEAN, todo : SUBSET Lanes, lane : Lanes]
  /\ queued \in Nat /\ active \in Nat /\ accepted \subseteq Items
  /\ ran \in [Lanes -> Seq(Items)]

\* Submitted by one producer, i came first.
Before(i, j) == i[1] = j[1] => i[2] < j[2]

\* In a lane, what has run comes before what runs, and that before what waits.
Ordered(l) ==
  /\ \A j, k \in DOMAIN queue[l] :
       j < k /\ queue[l][j] \in Items /\ queue[l][k] \in Items => Before(queue[l][j], queue[l][k])
  /\ \A j \in DOMAIN ran[l], k \in DOMAIN queue[l] :
       queue[l][k] \in Items => Before(ran[l][j], queue[l][k])
  /\ worker[l].pc \in {"begin", "run"} =>
       /\ \A j \in DOMAIN ran[l] : Before(ran[l][j], worker[l].item)
       /\ \A k \in DOMAIN queue[l] : queue[l][k] \in Items => Before(worker[l].item, queue[l][k])
  /\ \A j, k \in DOMAIN ran[l] : j < k => Before(ran[l][j], ran[l][k])

\* An item is in the lane of its key, and older than the one its producer is about to put.
Placed(l, i) == /\ LaneOf[i[1]] = l /\ i[2] <= producer[i[1]].n
                /\ producer[i[1]].pc = "put" => i[2] < producer[i[1]].n
Home(l) ==
  /\ \A k \in DOMAIN queue[l] : queue[l][k] \in Items => Placed(l, queue[l][k])
  /\ worker[l].pc \in {"begin", "run", "end"} =>
       worker[l].item \in Items /\ Placed(l, worker[l].item)
  /\ \A j \in DOMAIN ran[l] : Placed(l, ran[l][j])

\* A sentinel is only where close has put one: a lane that is still to be emptied has none.
ToStop(l) == \/ l \in closer.todo
             \/ l = closer.lane /\ closer.pc \in {"discard", "account", "accountOne", "stop"}
Unstopped(l) == ToStop(l) => \A k \in DOMAIN queue[l] : queue[l][k] \in Items

\* The lane that close works on is off its list.
OffTheList == closer.pc \in {"discard", "account", "accountOne", "stop"} => closer.lane \notin closer.todo

InLane(i, l) == (\E k \in DOMAIN queue[l] : queue[l][k] = i) \/ (worker[l].pc = "begin" /\ worker[l].item = i)

\* Where a submitted item is, unless close has discarded it.
Somewhere(i) == \E l \in Lanes : \/ InLane(i, l)
                                 \/ worker[l].pc = "run" /\ worker[l].item = i
                                 \/ \E k \in DOMAIN ran[l] : ran[l][k] = i
NothingLost == ~Closed => /\ \A i \in accepted : Somewhere(i)
                          /\ \A p \in Counting : Somewhere(Item(p))

\* A producer is past its first submission when it puts.
Numbered == \A p \in Producers : producer[p].pc \in {"put", "count"} => producer[p].n > 0

IInv == /\ Types /\ Numbered /\ OffTheList
        /\ \A l \in Lanes : Ordered(l) /\ Home(l) /\ Unstopped(l)
        /\ NothingLost /\ NeverUnderCounts /\ ActiveExact

-----------------------------------------------------------------------------
(* Queues, lanes and sets of items.                                         *)

LEMMA TailElements ==
  ASSUME NEW S, NEW s \in Seq(S), s # <<>>
  PROVE  /\ Head(s) \in S /\ Head(s) = s[1] /\ 1 \in DOMAIN s /\ Tail(s) \in Seq(S)
         /\ \A i \in DOMAIN Tail(s) : i + 1 \in DOMAIN s /\ Tail(s)[i] = s[i + 1]
         /\ \A i \in DOMAIN s : i = 1 \/ (i - 1 \in DOMAIN Tail(s) /\ Tail(s)[i - 1] = s[i])
BY HeadTailProperties

LEMMA AppendElements ==
  ASSUME NEW S, NEW s \in Seq(S), NEW e \in S
  PROVE  /\ Append(s, e) \in Seq(S)
         /\ \A i \in DOMAIN Append(s, e) :
              \/ i \in DOMAIN s /\ Append(s, e)[i] = s[i]
              \/ i = Len(s) + 1 /\ Append(s, e)[i] = e
         /\ \A i \in DOMAIN s : i \in DOMAIN Append(s, e) /\ Append(s, e)[i] = s[i] /\ i < Len(s) + 1
         /\ Len(s) + 1 \in DOMAIN Append(s, e) /\ Append(s, e)[Len(s) + 1] = e
<1>1. /\ Append(s, e) \in Seq(S)
      /\ \A i \in 1 .. Len(s) : Append(s, e)[i] = s[i]
      /\ Append(s, e)[Len(s) + 1] = e
      /\ DOMAIN s = 1 .. Len(s) /\ Len(s) \in Nat
      /\ DOMAIN Append(s, e) = 1 .. Len(s) + 1
  BY AppendProperties
<1> QED BY <1>1

\* One item leaves the head of a lane.
LEMMA LaneTail ==
  ASSUME Types, NEW l \in Lanes, queue[l] # <<>>, queue' = [queue EXCEPT ![l] = Tail(@)]
  PROVE  /\ queue' \in [Lanes -> Seq(Items \cup {Stop})]
         /\ \A m \in Lanes : m # l => queue'[m] = queue[m]
         /\ queue[l][1] \in Items \cup {Stop} /\ Head(queue[l]) = queue[l][1] /\ 1 \in DOMAIN queue[l]
         /\ \A k \in DOMAIN queue'[l] : k + 1 \in DOMAIN queue[l] /\ queue'[l][k] = queue[l][k + 1]
                                        /\ k \in Nat /\ 1 < k + 1
         /\ \A k \in DOMAIN queue[l] :
               k = 1 \/ (k - 1 \in DOMAIN queue'[l] /\ queue'[l][k - 1] = queue[l][k])
<1>1. queue[l] \in Seq(Items \cup {Stop}) /\ queue'[l] = Tail(queue[l])
  BY DEF Types
<1>2. /\ Head(queue[l]) \in Items \cup {Stop} /\ Head(queue[l]) = queue[l][1] /\ 1 \in DOMAIN queue[l]
      /\ Tail(queue[l]) \in Seq(Items \cup {Stop})
      /\ \A i \in DOMAIN Tail(queue[l]) :
            i + 1 \in DOMAIN queue[l] /\ Tail(queue[l])[i] = queue[l][i + 1]
      /\ \A i \in DOMAIN queue[l] :
            i = 1 \/ (i - 1 \in DOMAIN Tail(queue[l]) /\ Tail(queue[l])[i - 1] = queue[l][i])
  BY <1>1, TailElements
<1>3. \A k \in DOMAIN Tail(queue[l]) : k \in Nat /\ 1 < k + 1
  BY <1>2
<1>4. /\ queue' \in [Lanes -> Seq(Items \cup {Stop})]
      /\ \A m \in Lanes : m # l => queue'[m] = queue[m]
  BY <1>2 DEF Types
<1> QED BY <1>1, <1>2, <1>3, <1>4

\* One item joins the end of a lane.
LEMMA LaneAppend ==
  ASSUME Types, NEW l \in Lanes, NEW e \in Items \cup {Stop}, queue' = [queue EXCEPT ![l] = Append(@, e)]
  PROVE  /\ queue' \in [Lanes -> Seq(Items \cup {Stop})]
         /\ \A m \in Lanes : m # l => queue'[m] = queue[m]
         /\ \A k \in DOMAIN queue'[l] : \/ k \in DOMAIN queue[l] /\ queue'[l][k] = queue[l][k]
                                        \/ k = Len(queue[l]) + 1 /\ queue'[l][k] = e
         /\ \A k \in DOMAIN queue[l] : /\ k \in DOMAIN queue'[l] /\ queue'[l][k] = queue[l][k]
                                       /\ k < Len(queue[l]) + 1
         /\ Len(queue[l]) + 1 \in DOMAIN queue'[l] /\ queue'[l][Len(queue[l]) + 1] = e
<1>1. queue[l] \in Seq(Items \cup {Stop}) /\ queue'[l] = Append(queue[l], e)
  BY DEF Types
<1>2. /\ Append(queue[l], e) \in Seq(Items \cup {Stop})
      /\ \A i \in DOMAIN Append(queue[l], e) :
              \/ i \in DOMAIN queue[l] /\ Append(queue[l], e)[i] = queue[l][i]
              \/ i = Len(queue[l]) + 1 /\ Append(queue[l], e)[i] = e
      /\ \A i \in DOMAIN queue[l] : /\ i \in DOMAIN Append(queue[l], e)
                                    /\ Append(queue[l], e)[i] = queue[l][i]
                                    /\ i < Len(queue[l]) + 1
      /\ Len(queue[l]) + 1 \in DOMAIN Append(queue[l], e)
      /\ Append(queue[l], e)[Len(queue[l]) + 1] = e
  BY <1>1, AppendElements
<1>3. /\ queue' \in [Lanes -> Seq(Items \cup {Stop})]
      /\ \A m \in Lanes : m # l => queue'[m] = queue[m]
  BY <1>2 DEF Types
<1> QED BY <1>1, <1>2, <1>3

LEMMA ItemsFinite ==
  /\ IsFiniteSet(Items) /\ Stop \notin Items
  /\ \A i \in Items : i[1] \in Producers /\ i[2] \in Nat /\ i = <<i[1], i[2]>>
<1>1. IsFiniteSet(1..MaxItems) /\ IsFiniteSet(Producers)
  BY DispatcherAssumption, FS_Interval
<1>2. IsFiniteSet(Items)
  BY <1>1, FS_Product DEF Items
<1> QED BY <1>2, DispatcherAssumption DEF Items

LEMMA ItemIs ==
  ASSUME Types, Numbered, NEW p \in Producers, producer[p].pc \in {"put", "count"}
  PROVE  /\ Item(p) \in Items /\ Item(p)[1] = p /\ Item(p)[2] = producer[p].n
         /\ LaneOf[p] \in Lanes
BY DispatcherAssumption DEF Types, Numbered, Item, Items

LEMMA WaitingIs ==
  /\ Waiting = {i \in Items : \E l \in Lanes : InLane(i, l)}
  /\ IsFiniteSet(Waiting) /\ Cardinality(Waiting) \in Nat
  /\ IsFiniteSet(Counting) /\ Cardinality(Counting) \in Nat
<1>1. Waiting = {i \in Items : \E l \in Lanes : InLane(i, l)}
  BY DEF Waiting, InLane
<1>2. IsFiniteSet(Waiting)
  BY <1>1, ItemsFinite, FS_Subset
<1>3. IsFiniteSet(Counting)
  BY DispatcherAssumption, FS_Subset DEF Counting
<1> QED BY <1>1, <1>2, <1>3, FS_CardinalityType

\* What waits at the head of a lane waits nowhere else.
LEMMA HeadAlone ==
  ASSUME IInv, NEW l \in Lanes, queue[l] # <<>>, NEW i \in Items, i = queue[l][1], 1 \in DOMAIN queue[l]
  PROVE  \A m \in Lanes : /\ \A k \in DOMAIN queue[m] : queue[m][k] = i => m = l /\ k = 1
                          /\ worker[m].pc \in {"begin", "run"} => worker[m].item # i
<1>1. i[1] \in Producers /\ i[2] \in Nat
  BY ItemsFinite
<1>2. ~Before(i, i)
  BY <1>1 DEF Before
<1>3. LaneOf[i[1]] = l
  BY DEF IInv, Home, Placed
<1> TAKE m \in Lanes
<1>4. ASSUME NEW k \in DOMAIN queue[m], queue[m][k] = i PROVE m = l /\ k = 1
  <2>1. m = l
    BY <1>3, <1>4 DEF IInv, Home, Placed
  <2>2. queue[l] \in Seq(Items \cup {Stop})
    BY DEF IInv, Types
  <2>3. k \in 1..Len(queue[l]) /\ Len(queue[l]) \in Nat
    BY <1>4, <2>1, <2>2
  <2>4. k = 1 \/ 1 < k
    BY <2>3
  <2> QED BY <1>2, <1>4, <2>1, <2>4 DEF IInv, Ordered
<1>5. ASSUME worker[m].pc \in {"begin", "run"}, worker[m].item = i PROVE FALSE
  <2>1. m = l
    BY <1>3, <1>5 DEF IInv, Home, Placed
  <2> QED BY <1>2, <1>5, <2>1 DEF IInv, Ordered
<1> QED BY <1>4, <1>5

\* What a worker is about to begin waits nowhere else.
LEMMA BegunAlone ==
  ASSUME IInv, NEW l \in Lanes, worker[l].pc = "begin"
  PROVE  /\ worker[l].item \in Items
         /\ \A m \in Lanes : /\ \A k \in DOMAIN queue[m] : queue[m][k] # worker[l].item
                             /\ m # l /\ worker[m].pc = "begin" => worker[m].item # worker[l].item
<1> DEFINE i == worker[l].item
<1>1. i \in Items /\ LaneOf[i[1]] = l
  BY DEF IInv, Home, Placed
<1>2. ~Before(i, i)
  BY <1>1, ItemsFinite DEF Before
<1>3. \A m \in Lanes : \A k \in DOMAIN queue[m] : queue[m][k] # i
  BY <1>1, <1>2 DEF IInv, Home, Placed, Ordered
<1>4. \A m \in Lanes : m # l /\ worker[m].pc = "begin" => worker[m].item # i
  BY <1>1 DEF IInv, Home, Placed
<1> QED BY <1>1, <1>3, <1>4

-----------------------------------------------------------------------------
(* What a step leaves as it is.                                             *)

\* A producer never goes back to a number: what is in its place stays there.
InPlaceNext(l, i) == /\ LaneOf[i[1]] = l /\ i[2] <= producer'[i[1]].n
                     /\ producer'[i[1]].pc = "put" => i[2] < producer'[i[1]].n
Forward == \A l \in Lanes, i \in Items : Placed(l, i) => InPlaceNext(l, i)

LEMMA ForwardKept ==
  ASSUME UNCHANGED producer
  PROVE  Forward
BY DEF Forward, Placed, InPlaceNext

LEMMA HomeNext ==
  ASSUME NEW l \in Lanes,
         \A k \in DOMAIN queue'[l] : queue'[l][k] \in Items => InPlaceNext(l, queue'[l][k]),
         worker'[l].pc \in {"begin", "run", "end"} =>
           worker'[l].item \in Items /\ InPlaceNext(l, worker'[l].item),
         \A j \in DOMAIN ran'[l] : InPlaceNext(l, ran'[l][j])
  PROVE  Home(l)'
BY DEF Home, Placed, InPlaceNext

LEMMA LaneKept ==
  ASSUME Types, Forward, NEW l \in Lanes, queue'[l] = queue[l], worker'[l] = worker[l],
         ran'[l] = ran[l], Ordered(l), Home(l)
  PROVE  Ordered(l)' /\ Home(l)'
<1>1. Ordered(l)'
  BY DEF Ordered
<1>2. \A j \in DOMAIN ran[l] : ran[l][j] \in Items
  BY DEF Types
<1>3. Home(l)'
  <2>1. \A k \in DOMAIN queue'[l] : queue'[l][k] \in Items => InPlaceNext(l, queue'[l][k])
    BY DEF Home, Forward
  <2>2. worker'[l].pc \in {"begin", "run", "end"} =>
          worker'[l].item \in Items /\ InPlaceNext(l, worker'[l].item)
    BY DEF Home, Forward
  <2>3. \A j \in DOMAIN ran'[l] : InPlaceNext(l, ran'[l][j])
    BY <1>2 DEF Home, Forward
  <2> QED BY <2>1, <2>2, <2>3, HomeNext
<1> QED BY <1>1, <1>3

LEMMA LanesKept ==
  ASSUME IInv, Forward, UNCHANGED <<queue, worker, ran>>
  PROVE  \A l \in Lanes : Ordered(l)' /\ Home(l)'
BY LaneKept DEF IInv

LEMMA UnstoppedKept ==
  ASSUME IInv, UNCHANGED <<queue, closer>>
  PROVE  \A l \in Lanes : Unstopped(l)'
BY DEF IInv, Unstopped, ToStop

\* Without a lane of its own in the step, everything is where it was.
LEMMA PlacesKept ==
  ASSUME UNCHANGED <<queue, worker, ran>>
  PROVE  /\ \A i : Somewhere(i) => \E l \in Lanes : \/ InLane(i, l)'
                                                    \/ worker'[l].pc = "run" /\ worker'[l].item = i
                                                    \/ \E k \in DOMAIN ran'[l] : ran'[l][k] = i
         /\ Waiting' = Waiting
         /\ ActiveExact /\ active' = active => ActiveExact'
BY DEF Somewhere, InLane, Waiting, ActiveExact

\* Nothing that waits after the step did not wait before it.
LEMMA NoneWaitsAnew ==
  ASSUME \A i \in Items, l \in Lanes : InLane(i, l)' => \E m \in Lanes : InLane(i, m)
  PROVE  /\ Waiting' \subseteq Waiting /\ IsFiniteSet(Waiting') /\ Cardinality(Waiting') \in Nat
         /\ Cardinality(Waiting') <= Cardinality(Waiting)
<1>1. Waiting' = {i \in Items : \E l \in Lanes : InLane(i, l)'}
  BY DEF Waiting, InLane
<1>2. Waiting' \subseteq Waiting
  BY <1>1, WaitingIs
<1> QED BY <1>2, WaitingIs, FS_Subset, FS_CardinalityType

\* One item less waits.
LEMMA OneWaitsNoLonger ==
  ASSUME NEW j \in Items, \E l \in Lanes : InLane(j, l),
         \A i \in Items, l \in Lanes : InLane(i, l)' => i # j /\ \E m \in Lanes : InLane(i, m)
  PROVE  /\ Cardinality(Waiting') \in Nat /\ Cardinality(Waiting) >= 1
         /\ Cardinality(Waiting') <= Cardinality(Waiting) - 1
<1>1. Waiting' = {i \in Items : \E l \in Lanes : InLane(i, l)'}
  BY DEF Waiting, InLane
<1>2. Waiting' \subseteq Waiting \ {j} /\ j \in Waiting
  BY <1>1, WaitingIs
<1>3. IsFiniteSet(Waiting) /\ IsFiniteSet(Waiting \ {j})
  BY WaitingIs, FS_RemoveElement
<1>4. Cardinality(Waiting \ {j}) = Cardinality(Waiting) - 1
  BY <1>2, <1>3, FS_RemoveElement
<1>5. IsFiniteSet(Waiting') /\ Cardinality(Waiting') <= Cardinality(Waiting \ {j})
  BY <1>2, <1>3, FS_Subset
<1>6. Cardinality(Waiting') \in Nat /\ Cardinality(Waiting) \in Nat /\ Cardinality(Waiting \ {j}) \in Nat
  BY <1>3, <1>5, FS_CardinalityType
<1> QED BY <1>4, <1>5, <1>6

-----------------------------------------------------------------------------
(* submit                                                                   *)

LEMMA SubmitStep ==
  ASSUME IInv, NEW p \in Producers, Submit(p)
  PROVE  IInv'
<1> USE DEF Submit
<1>1. PICK pc \in {"idle", "put"} :
        producer' = [producer EXCEPT ![p] = [pc |-> pc, n |-> producer[p].n + 1]]
  BY DEF IInv, Types
<1>2. producer[p].n \in 0..MaxItems /\ producer[p].n < MaxItems /\ MaxItems \in Nat
  BY DispatcherAssumption DEF IInv, Types
<1>3. producer[p].n + 1 \in 0..MaxItems /\ producer[p].n + 1 > 0
  BY <1>2
<1>4. /\ producer'[p].pc = pc /\ producer'[p].n = producer[p].n + 1
      /\ \A q \in Producers : q # p => producer'[q] = producer[q]
  BY <1>1 DEF IInv, Types
<1>5. Types'
  BY <1>1, <1>3 DEF IInv, Types
<1>6. Numbered'
  BY <1>3, <1>4 DEF IInv, Numbered
<1>7. Forward
  <2> SUFFICES ASSUME NEW l \in Lanes, NEW i \in Items, Placed(l, i) PROVE InPlaceNext(l, i)
    BY DEF Forward
  <2>1. CASE i[1] = p
    <3>1. i[2] \in Nat /\ i[2] <= producer[p].n
      BY <2>1, ItemsFinite DEF Placed
    <3>2. i[2] <= producer[p].n + 1 /\ i[2] < producer[p].n + 1
      BY <1>2, <3>1
    <3> QED BY <1>4, <2>1, <3>2 DEF Placed, InPlaceNext
  <2>2. CASE i[1] # p
    BY <1>4, <2>2, ItemsFinite DEF Placed, InPlaceNext
  <2> QED BY <2>1, <2>2
<1>8. \A l \in Lanes : Ordered(l)' /\ Home(l)' /\ Unstopped(l)'
  BY <1>7, LanesKept, UnstoppedKept
<1>9. Counting' = Counting
  BY <1>4 DEF Counting
<1>10. \A q \in Counting : Item(q)' = Item(q)
  BY <1>4 DEF Counting, Item
<1>11. NothingLost'
  BY <1>9, <1>10, PlacesKept DEF IInv, NothingLost, Somewhere, Closed
<1>12. NeverUnderCounts' /\ ActiveExact'
  BY <1>9, PlacesKept DEF IInv, NeverUnderCounts, Discarding
<1>13. OffTheList'
  BY DEF IInv, OffTheList
<1> QED BY <1>5, <1>6, <1>8, <1>11, <1>12, <1>13 DEF IInv

LEMMA PutFullStep ==
  ASSUME IInv, NEW p \in Producers, producer[p].pc = "put",
         producer' = [producer EXCEPT ![p].pc = "idle"],
         UNCHANGED <<queue, worker, closer, queued, active, accepted, ran>>
  PROVE  IInv'
<1>1. /\ producer'[p].pc = "idle" /\ producer'[p].n = producer[p].n
      /\ \A q \in Producers : q # p => producer'[q] = producer[q]
  BY DEF IInv, Types
<1>2. Types' /\ Numbered' /\ OffTheList'
  BY <1>1 DEF IInv, Types, Numbered, OffTheList
<1>3. Forward
  BY <1>1, ItemsFinite DEF Forward, Placed, InPlaceNext
<1>4. \A l \in Lanes : Ordered(l)' /\ Home(l)' /\ Unstopped(l)'
  BY <1>3, LanesKept, UnstoppedKept
<1>5. Counting' = Counting
  BY <1>1 DEF Counting
<1>6. \A q \in Counting : Item(q)' = Item(q)
  BY <1>1 DEF Counting, Item
<1>7. NothingLost'
  BY <1>5, <1>6, PlacesKept DEF IInv, NothingLost, Somewhere, Closed
<1>8. NeverUnderCounts' /\ ActiveExact'
  BY <1>5, PlacesKept DEF IInv, NeverUnderCounts, Discarding
<1> QED BY <1>2, <1>4, <1>7, <1>8 DEF IInv

LEMMA CountStep ==
  ASSUME IInv, NEW p \in Producers, Count(p)
  PROVE  IInv'
<1> USE DEF Count
<1>1. /\ producer'[p].pc = "idle" /\ producer'[p].n = producer[p].n
      /\ \A q \in Producers : q # p => producer'[q] = producer[q]
  BY DEF IInv, Types
<1>2. Item(p) \in Items
  BY ItemIs DEF IInv
<1>3. queued \in Nat /\ queued + 1 \in Nat
  BY DEF IInv, Types
<1>4. Types'
  <2>1. producer' \in [Producers -> [pc : {"idle", "put", "count"}, n : 0..MaxItems]]
    <3>1. producer \in [Producers -> [pc : {"idle", "put", "count"}, n : 0..MaxItems]]
      BY DEF IInv, Types
    <3>2. PICK r \in [pc : {"idle", "put", "count"}, n : 0..MaxItems] :
            r = [producer[p] EXCEPT !.pc = "idle"]
      BY <3>1
    <3> QED BY <3>1, <3>2
  <2>2. queued' \in Nat /\ accepted' \subseteq Items
    BY <1>2, <1>3 DEF IInv, Types
  <2>3. UNCHANGED <<queue, worker, closer, active, ran>>
    OBVIOUS
  <2> QED BY <2>1, <2>2, <2>3 DEF IInv, Types
<1>5. Numbered' /\ OffTheList'
  BY <1>1 DEF IInv, Numbered, OffTheList
<1>6. Forward
  BY <1>1, ItemsFinite DEF Forward, Placed, InPlaceNext
<1>7. \A l \in Lanes : Ordered(l)' /\ Home(l)' /\ Unstopped(l)'
  BY <1>6, LanesKept, UnstoppedKept
<1>8. Counting' = Counting \ {p} /\ p \in Counting
  BY <1>1 DEF Counting
<1>9. \A q \in Counting' : Item(q)' = Item(q)
  BY <1>1, <1>8 DEF Counting, Item
<1>10. NothingLost'
  <2> SUFFICES ASSUME ~Closed
               PROVE  /\ \A i \in accepted' : Somewhere(i)
                      /\ \A q \in Counting' : Somewhere(Item(q))
    BY <1>9, PlacesKept DEF NothingLost, Somewhere, Closed
  <2> QED BY <1>8 DEF IInv, NothingLost
<1>11. IsFiniteSet(Counting) /\ Cardinality(Counting) \in Nat /\ Cardinality(Waiting) \in Nat
  BY WaitingIs
<1>12. Cardinality(Counting') = Cardinality(Counting) - 1
  BY <1>8, <1>11, FS_RemoveElement
<1>13. Discarding' = Discarding /\ Waiting' = Waiting /\ Discarding \in Nat
  BY PlacesKept DEF Discarding
<1>14. queued' = queued + 1 /\ queued + Cardinality(Counting) >= Cardinality(Waiting) + Discarding
  BY DEF IInv, NeverUnderCounts
<1>15. queued' + Cardinality(Counting') >= Cardinality(Waiting) + Discarding
  BY <1>3, <1>11, <1>12, <1>13, <1>14
<1>16. NeverUnderCounts' /\ ActiveExact'
  BY <1>13, <1>15, PlacesKept DEF IInv, NeverUnderCounts
<1> QED BY <1>4, <1>5, <1>7, <1>10, <1>16 DEF IInv

LEMMA PutAppendStep ==
  ASSUME IInv, NEW p \in Producers, producer[p].pc = "put",
         producer' = [producer EXCEPT ![p].pc = "count"],
         queue' = [queue EXCEPT ![LaneOf[p]] = Append(@, Item(p))],
         UNCHANGED <<worker, closer, queued, active, accepted, ran>>
  PROVE  IInv'
<1>1. PICK l \in Lanes : l = LaneOf[p]
  BY DispatcherAssumption
<1>2. PICK e \in Items : e = Item(p) /\ e[1] = p /\ e[2] = producer[p].n
  BY ItemIs DEF IInv
<1>3. PICK z \in Nat : z = Len(queue[l]) + 1
  BY DEF IInv, Types
<1>4. /\ queue' \in [Lanes -> Seq(Items \cup {Stop})]
      /\ \A m \in Lanes : m # l => queue'[m] = queue[m]
      /\ \A k \in DOMAIN queue'[l] : \/ k \in DOMAIN queue[l] /\ queue'[l][k] = queue[l][k]
                                     \/ k = z /\ queue'[l][k] = e
      /\ \A k \in DOMAIN queue[l] : k \in DOMAIN queue'[l] /\ queue'[l][k] = queue[l][k] /\ k < z
      /\ z \in DOMAIN queue'[l] /\ queue'[l][z] = e
  <2>1. Types /\ e \in Items \cup {Stop} /\ queue' = [queue EXCEPT ![l] = Append(@, e)]
    BY <1>1, <1>2 DEF IInv
  <2>2. /\ queue' \in [Lanes -> Seq(Items \cup {Stop})]
        /\ \A m \in Lanes : m # l => queue'[m] = queue[m]
        /\ \A k \in DOMAIN queue'[l] : \/ k \in DOMAIN queue[l] /\ queue'[l][k] = queue[l][k]
                                       \/ k = Len(queue[l]) + 1 /\ queue'[l][k] = e
        /\ \A k \in DOMAIN queue[l] : /\ k \in DOMAIN queue'[l] /\ queue'[l][k] = queue[l][k]
                                      /\ k < Len(queue[l]) + 1
        /\ Len(queue[l]) + 1 \in DOMAIN queue'[l] /\ queue'[l][Len(queue[l]) + 1] = e
    BY <2>1, LaneAppend
  <2> QED BY <1>3, <2>2
<1>5. /\ producer'[p].pc = "count" /\ producer'[p].n = producer[p].n
      /\ \A q \in Producers : q # p => producer'[q] = producer[q]
  BY DEF IInv, Types
<1>6. Types' /\ Numbered' /\ OffTheList'
  BY <1>4, <1>5 DEF IInv, Types, Numbered, OffTheList
<1>7. Forward
  BY <1>5, ItemsFinite DEF Forward, Placed, InPlaceNext
<1>8. \A m \in Lanes : m # l => Ordered(m)' /\ Home(m)'
  BY <1>4, <1>7, LaneKept DEF IInv
<1>9. \A i \in Items : Placed(l, i) => Before(i, e)
  BY <1>2 DEF Placed, Before
<1>10. Ordered(l) /\ Home(l)
  BY DEF IInv
<1>11. Ordered(l)'
  <2>1. ASSUME NEW j \in DOMAIN queue'[l], NEW k \in DOMAIN queue'[l], j < k,
               queue'[l][j] \in Items, queue'[l][k] \in Items
        PROVE  Before(queue'[l][j], queue'[l][k])
    <3>1. k < z \/ k = z
      BY <1>4
    <3>2. j # z /\ j \in DOMAIN queue[l] /\ queue'[l][j] = queue[l][j]
      <4>1. k \in Int /\ j \in Int /\ z \in Int
        BY <1>4, <2>1 DEF IInv, Types
      <4>2. j # z
        BY <2>1, <3>1, <4>1
      <4> QED BY <1>4, <4>2
    <3>3. CASE k = z
      BY <1>4, <1>9, <1>10, <2>1, <3>2, <3>3 DEF Home
    <3>4. CASE k # z
      BY <1>4, <1>10, <2>1, <3>2, <3>4 DEF Ordered
    <3> QED BY <3>3, <3>4
  <2>2. \A j \in DOMAIN ran[l] : ran[l][j] \in Items
    BY DEF IInv, Types
  <2>3. ASSUME NEW j \in DOMAIN ran'[l], NEW k \in DOMAIN queue'[l], queue'[l][k] \in Items
        PROVE  Before(ran'[l][j], queue'[l][k])
    BY <1>4, <1>9, <1>10, <2>2, <2>3 DEF Ordered, Home
  <2>4. worker'[l].pc \in {"begin", "run"} =>
          /\ \A j \in DOMAIN ran'[l] : Before(ran'[l][j], worker'[l].item)
          /\ \A k \in DOMAIN queue'[l] :
                queue'[l][k] \in Items => Before(worker'[l].item, queue'[l][k])
    BY <1>4, <1>9, <1>10 DEF Ordered, Home
  <2>5. \A j, k \in DOMAIN ran'[l] : j < k => Before(ran'[l][j], ran'[l][k])
    BY <1>10 DEF Ordered
  <2>6. \A i, j : Before(i, j)' <=> Before(i, j)
    BY DEF Before
  <2> QED BY <2>1, <2>3, <2>4, <2>5, <2>6 DEF Ordered
<1>12. Home(l)'
  <2>1. InPlaceNext(l, e)
    BY <1>1, <1>2, <1>5 DEF InPlaceNext, IInv, Types
  <2>2. \A i \in Items : Placed(l, i) => InPlaceNext(l, i)
    BY <1>7 DEF Forward
  <2>3. \A j \in DOMAIN ran[l] : ran[l][j] \in Items
    BY DEF IInv, Types
  <2>4. \A k \in DOMAIN queue'[l] : queue'[l][k] \in Items => InPlaceNext(l, queue'[l][k])
    BY <1>4, <1>10, <2>1, <2>2 DEF Home
  <2>5. worker'[l].pc \in {"begin", "run", "end"} =>
          worker'[l].item \in Items /\ InPlaceNext(l, worker'[l].item)
    BY <1>10, <2>2 DEF Home
  <2>6. \A j \in DOMAIN ran'[l] : InPlaceNext(l, ran'[l][j])
    BY <1>10, <2>2, <2>3 DEF Home
  <2> QED BY <2>4, <2>5, <2>6, HomeNext
<1>13. \A m \in Lanes : Unstopped(m)'
  BY <1>4 DEF IInv, Unstopped, ToStop
<1>14. \A i, m : m \in Lanes /\ InLane(i, m) => InLane(i, m)'
  BY <1>4 DEF InLane
<1>15. InLane(e, l)'
  BY <1>4 DEF InLane
<1>16. Counting' = Counting \cup {p} /\ p \notin Counting
  BY <1>5 DEF Counting
<1>17. \A q \in Counting : Item(q)' = Item(q)
  BY <1>5 DEF Counting, Item
<1>18. Item(p)' = e
  BY <1>2, <1>5 DEF Item
<1>19. NothingLost'
  <2>1. \A i : Somewhere(i) => Somewhere(i)'
    BY <1>14 DEF Somewhere
  <2>2. Somewhere(e)'
    BY <1>15 DEF Somewhere
  <2>3. \A q \in Counting' : \A i : i = Item(q)' /\ ~Closed => Somewhere(i)'
    BY <1>16, <1>17, <1>18, <2>1, <2>2 DEF IInv, NothingLost
  <2>4. \A i \in accepted' : ~Closed => Somewhere(i)'
    BY <2>1 DEF IInv, NothingLost
  <2> QED BY <2>3, <2>4 DEF NothingLost, Closed, Somewhere, InLane
<1>20. Waiting' \subseteq Waiting \cup {e}
  <2>1. Waiting' = {i \in Items : \E m \in Lanes : InLane(i, m)'}
    BY DEF Waiting, InLane
  <2>2. ASSUME NEW i \in Items, NEW m \in Lanes, InLane(i, m)', i # e PROVE InLane(i, m)
    BY <1>4, <2>2 DEF InLane
  <2> QED BY <2>1, <2>2, WaitingIs
<1>21. NeverUnderCounts'
  <2>1. /\ IsFiniteSet(Waiting) /\ Cardinality(Waiting) \in Nat
        /\ IsFiniteSet(Counting) /\ Cardinality(Counting) \in Nat
    BY WaitingIs
  <2>2. Cardinality(Counting') = Cardinality(Counting) + 1
    BY <1>16, <2>1, FS_AddElement
  <2>3. /\ IsFiniteSet(Waiting \cup {e}) /\ Cardinality(Waiting \cup {e}) \in Nat
        /\ Cardinality(Waiting \cup {e}) <= Cardinality(Waiting) + 1
    <3>1. IsFiniteSet(Waiting \cup {e})
          /\ (Cardinality(Waiting \cup {e}) = Cardinality(Waiting)
              \/ Cardinality(Waiting \cup {e}) = Cardinality(Waiting) + 1)
      BY <2>1, FS_AddElement
    <3> QED BY <2>1, <3>1, FS_CardinalityType
  <2>4. Cardinality(Waiting') \in Nat /\ Cardinality(Waiting') <= Cardinality(Waiting \cup {e})
    BY <1>20, <2>3, FS_Subset, FS_CardinalityType
  <2>5. Discarding' = Discarding /\ Discarding \in Nat /\ queued' = queued /\ queued \in Nat
    BY DEF Discarding, IInv, Types
  <2>6. queued + Cardinality(Counting) >= Cardinality(Waiting) + Discarding
    BY DEF IInv, NeverUnderCounts
  <2>7. queued + Cardinality(Counting') >= Cardinality(Waiting') + Discarding
    BY <2>1, <2>2, <2>3, <2>4, <2>5, <2>6
  <2> QED BY <2>5, <2>7 DEF NeverUnderCounts
<1>22. ActiveExact'
  BY DEF IInv, ActiveExact
<1>23. \A m \in Lanes : Ordered(m)' /\ Home(m)' /\ Unstopped(m)'
  BY <1>8, <1>11, <1>12, <1>13
<1> QED BY <1>6, <1>19, <1>21, <1>22, <1>23 DEF IInv

LEMMA PutStep ==
  ASSUME IInv, NEW p \in Producers, Put(p)
  PROVE  IInv'
BY PutFullStep, PutAppendStep DEF Put

-----------------------------------------------------------------------------
(* _worker                                                                  *)

LEMMA ItemsOfRan ==
  ASSUME Types, NEW l \in Lanes
  PROVE  /\ \A j \in DOMAIN ran[l] : ran[l][j] \in Items
         /\ Stop \notin Items
BY ItemsFinite DEF Types

LEMMA WorkerTyped ==
  ASSUME Types, NEW l \in Lanes, NEW pc \in {"get", "begin", "run", "end", "stopped"},
         worker' = [worker EXCEPT ![l].pc = pc]
  PROVE  worker' \in [Lanes -> [pc : {"get", "begin", "run", "end", "stopped"},
                                item : Items \cup {Stop}]]
<1>1. worker \in [Lanes -> [pc : {"get", "begin", "run", "end", "stopped"},
                            item : Items \cup {Stop}]]
  BY DEF Types
<1>2. PICK w \in [pc : {"get", "begin", "run", "end", "stopped"}, item : Items \cup {Stop}] :
        w = [worker[l] EXCEPT !.pc = pc]
  BY <1>1
<1> QED BY <1>1, <1>2

\* What a producer does is untouched by a worker or by close.
LEMMA ProducersKept ==
  ASSUME IInv, UNCHANGED producer
  PROVE  /\ Numbered' /\ Counting' = Counting
         /\ \A p \in Counting : Item(p)' = Item(p)
         /\ \A l \in Lanes, i \in Items : Placed(l, i) => InPlaceNext(l, i)
BY ForwardKept DEF IInv, Numbered, Counting, Item, Forward

LEMMA NothingLostKept ==
  ASSUME IInv, UNCHANGED <<producer, accepted>>, Closed => Closed',
         \A i \in Items : Somewhere(i) => Somewhere(i)'
  PROVE  NothingLost'
<1>1. accepted \subseteq Items /\ \A p \in Counting : Item(p) \in Items
  BY ItemIs DEF IInv, Types, Counting
<1>2. \A p \in Counting : \A i : i = Item(p) /\ ~Closed => Somewhere(i)'
  BY <1>1 DEF IInv, NothingLost
<1>3. \A i \in accepted : ~Closed => Somewhere(i)'
  BY <1>1 DEF IInv, NothingLost
<1>4. Counting' = Counting /\ \A p \in Counting : Item(p)' = Item(p)
  BY ProducersKept
<1> QED BY <1>2, <1>3, <1>4 DEF NothingLost, Somewhere, InLane

LEMMA TakeStep ==
  ASSUME IInv, NEW l \in Lanes, Take(l)
  PROVE  IInv'
<1>1. PICK e \in Items \cup {Stop}, pc \in {"stopped", "begin"} :
        /\ e = Head(queue[l]) /\ (pc = "stopped" => e = Stop) /\ (pc = "begin" => e \in Items)
        /\ worker' = [worker EXCEPT ![l] = [item |-> e, pc |-> pc]]
  <2>1. queue[l] \in Seq(Items \cup {Stop}) /\ queue[l] # <<>>
    BY DEF IInv, Types, Take
  <2>2. Head(queue[l]) \in Items \cup {Stop}
    BY <2>1, TailElements
  <2>3. CASE Head(queue[l]) = Stop
    BY <2>2, <2>3 DEF Take
  <2>4. CASE Head(queue[l]) # Stop
    BY <2>2, <2>4 DEF Take
  <2> QED BY <2>3, <2>4
<1>2. /\ worker[l].pc = "get" /\ queue[l] # <<>> /\ queue' = [queue EXCEPT ![l] = Tail(@)]
      /\ UNCHANGED <<producer, closer, queued, active, accepted, ran>>
  BY DEF Take
<1>3. /\ queue' \in [Lanes -> Seq(Items \cup {Stop})]
      /\ \A m \in Lanes : m # l => queue'[m] = queue[m]
      /\ e = queue[l][1] /\ 1 \in DOMAIN queue[l]
      /\ \A k \in DOMAIN queue'[l] : k + 1 \in DOMAIN queue[l] /\ queue'[l][k] = queue[l][k + 1]
                                     /\ k \in Nat /\ 1 < k + 1
      /\ \A k \in DOMAIN queue[l] :
            k = 1 \/ (k - 1 \in DOMAIN queue'[l] /\ queue'[l][k - 1] = queue[l][k])
  BY <1>1, <1>2, LaneTail DEF IInv
<1>4. /\ worker'[l].item = e /\ worker'[l].pc = pc
      /\ \A m \in Lanes : m # l => worker'[m] = worker[m]
  BY <1>1 DEF IInv, Types
<1>5. Types' /\ OffTheList'
  BY <1>1, <1>2, <1>3 DEF IInv, Types, OffTheList
<1>6. \A m \in Lanes : m # l => Ordered(m)' /\ Home(m)'
  BY <1>2, <1>3, <1>4, ForwardKept, LaneKept DEF IInv
<1>7. Ordered(l) /\ Home(l)
  BY DEF IInv
<1>8. Ordered(l)'
  <2>1. ASSUME NEW j \in DOMAIN queue'[l], NEW k \in DOMAIN queue'[l], j < k,
               queue'[l][j] \in Items, queue'[l][k] \in Items
        PROVE  Before(queue'[l][j], queue'[l][k])
    <3>1. j + 1 < k + 1
      BY <1>3, <2>1
    <3> QED BY <1>3, <1>7, <2>1, <3>1 DEF Ordered
  <2>2. \A j \in DOMAIN ran'[l], k \in DOMAIN queue'[l] :
          queue'[l][k] \in Items => Before(ran'[l][j], queue'[l][k])
    BY <1>2, <1>3, <1>7 DEF Ordered
  <2>3. worker'[l].pc \in {"begin", "run"} =>
          /\ \A j \in DOMAIN ran'[l] : Before(ran'[l][j], worker'[l].item)
          /\ \A k \in DOMAIN queue'[l] :
                queue'[l][k] \in Items => Before(worker'[l].item, queue'[l][k])
    BY <1>1, <1>2, <1>3, <1>4, <1>7 DEF Ordered
  <2>4. \A j, k \in DOMAIN ran'[l] : j < k => Before(ran'[l][j], ran'[l][k])
    BY <1>2, <1>7 DEF Ordered
  <2>5. \A i, j : Before(i, j)' <=> Before(i, j)
    BY DEF Before
  <2> QED BY <2>1, <2>2, <2>3, <2>4, <2>5 DEF Ordered
<1>9. \A i \in Items : Placed(l, i) => InPlaceNext(l, i)
  BY <1>2, ProducersKept
<1>10. Home(l)'
  <2>1. \A k \in DOMAIN queue'[l] : queue'[l][k] \in Items => InPlaceNext(l, queue'[l][k])
    BY <1>3, <1>7, <1>9 DEF Home
  <2>2. worker'[l].pc \in {"begin", "run", "end"} =>
          worker'[l].item \in Items /\ InPlaceNext(l, worker'[l].item)
    BY <1>1, <1>3, <1>4, <1>7, <1>9 DEF Home
  <2>3. \A j \in DOMAIN ran'[l] : InPlaceNext(l, ran'[l][j])
    BY <1>2, <1>7, <1>9, ItemsOfRan DEF Home, IInv
  <2> QED BY <2>1, <2>2, <2>3, HomeNext
<1>11. \A m \in Lanes : Unstopped(m)'
  BY <1>2, <1>3 DEF IInv, Unstopped, ToStop
<1>12. NothingLost'
  <2>1. ASSUME NEW i \in Items, NEW m \in Lanes, InLane(i, m) PROVE InLane(i, m)'
    <3>1. CASE m # l
      BY <1>3, <1>4, <2>1, <3>1 DEF InLane
    <3>2. ASSUME m = l PROVE InLane(i, l)'
      <4>1. PICK k \in DOMAIN queue[l] : queue[l][k] = i
        BY <1>2, <2>1, <3>2 DEF InLane
      <4>2. CASE k = 1
        <5>1. worker'[l].pc = "begin" /\ worker'[l].item = i
          BY <1>1, <1>3, <1>4, <4>1, <4>2, ItemsFinite
        <5> QED BY <5>1 DEF InLane
      <4>3. CASE k # 1
        BY <1>3, <4>1, <4>3 DEF InLane
      <4> QED BY <4>2, <4>3
    <3> QED BY <3>1, <3>2
  <2>2. \A i \in Items : Somewhere(i) => Somewhere(i)'
    BY <1>2, <1>4, <2>1 DEF Somewhere
  <2> QED BY <1>2, <2>2, NothingLostKept DEF Closed
<1>13. NeverUnderCounts'
  <2>1. ASSUME NEW i \in Items, NEW m \in Lanes, InLane(i, m)' PROVE InLane(i, m)
    <3>1. CASE m # l
      BY <1>3, <1>4, <2>1, <3>1 DEF InLane
    <3>2. CASE m = l
      BY <1>1, <1>3, <1>4, <2>1, <3>2 DEF InLane
    <3> QED BY <3>1, <3>2
  <2>2. Cardinality(Waiting') \in Nat /\ Cardinality(Waiting') <= Cardinality(Waiting)
    BY <2>1, NoneWaitsAnew
  <2>3. queued' = queued /\ Counting' = Counting /\ Discarding' = Discarding
    BY <1>2, ProducersKept DEF Discarding
  <2>4. /\ queued \in Nat /\ Cardinality(Counting) \in Nat /\ Cardinality(Waiting) \in Nat
        /\ Discarding \in Nat
    BY WaitingIs DEF IInv, Types, Discarding
  <2>5. queued + Cardinality(Counting) >= Cardinality(Waiting) + Discarding
    BY DEF IInv, NeverUnderCounts
  <2>6. queued + Cardinality(Counting) >= Cardinality(Waiting') + Discarding
    BY <2>2, <2>4, <2>5
  <2> QED BY <2>3, <2>6 DEF NeverUnderCounts
<1>14. ActiveExact'
  <2>1. {m \in Lanes : worker'[m].pc \in {"run", "end"}}
          = {m \in Lanes : worker[m].pc \in {"run", "end"}}
    BY <1>1, <1>2, <1>4
  <2> QED BY <1>2, <2>1 DEF IInv, ActiveExact
<1>15. Numbered'
  BY <1>2, ProducersKept
<1>16. \A m \in Lanes : Ordered(m)' /\ Home(m)' /\ Unstopped(m)'
  BY <1>6, <1>8, <1>10, <1>11
<1> QED BY <1>5, <1>12, <1>13, <1>14, <1>15, <1>16 DEF IInv

LEMMA BeginStep ==
  ASSUME IInv, NEW l \in Lanes, Begin(l)
  PROVE  IInv'
<1>1. /\ worker[l].pc = "begin" /\ worker' = [worker EXCEPT ![l].pc = "run"]
      /\ queued' = Less(queued) /\ active' = active + 1
      /\ UNCHANGED <<queue, producer, closer, accepted, ran>>
  BY DEF Begin, Worker
<1>2. /\ worker'[l].item = worker[l].item /\ worker'[l].pc = "run"
      /\ \A m \in Lanes : m # l => worker'[m] = worker[m]
  BY <1>1 DEF IInv, Types
<1>3. queued' \in Nat /\ active' \in Nat /\ queued \in Nat /\ active \in Nat /\ queued' >= queued - 1
  BY <1>1 DEF IInv, Types, Less
<1>4. Types' /\ OffTheList'
  <2>1. worker' \in [Lanes -> [pc : {"get", "begin", "run", "end", "stopped"},
                               item : Items \cup {Stop}]]
    BY <1>1, WorkerTyped DEF IInv
  <2>2. queued' \in Nat /\ active' \in Nat
    BY <1>1, <1>3 DEF IInv, Types
  <2>3. UNCHANGED <<queue, producer, closer, accepted, ran>>
    BY <1>1
  <2> QED BY <2>1, <2>2, <2>3 DEF IInv, Types, OffTheList
<1>5. \A m \in Lanes : m # l => Ordered(m)' /\ Home(m)'
  BY <1>1, <1>2, ForwardKept, LaneKept DEF IInv
<1>6. Ordered(l) /\ Home(l)
  BY DEF IInv
<1>7. Ordered(l)'
  BY <1>1, <1>2, <1>6 DEF Ordered, Before
<1>8. Home(l)'
  BY <1>1, <1>2, <1>6 DEF Home, Placed
<1>9. \A m \in Lanes : Unstopped(m)'
  BY <1>1, UnstoppedKept
<1>10. NothingLost'
  <2>1. \A i \in Items : Somewhere(i) => Somewhere(i)'
    BY <1>1, <1>2 DEF Somewhere, InLane
  <2> QED BY <1>1, <2>1, NothingLostKept DEF Closed
<1>11. NeverUnderCounts'
  <2>1. PICK i \in Items : i = worker[l].item
    BY <1>1, <1>6 DEF Home
  <2>2. \E m \in Lanes : InLane(i, m)
    BY <1>1, <2>1 DEF InLane
  <2>3. \A m \in Lanes : /\ \A k \in DOMAIN queue[m] : queue[m][k] # i
                         /\ m # l /\ worker[m].pc = "begin" => worker[m].item # i
    BY <1>1, <2>1, BegunAlone
  <2>4. \A j \in Items, m \in Lanes : InLane(j, m)' => j # i /\ \E n \in Lanes : InLane(j, n)
    BY <1>1, <1>2, <2>3 DEF InLane
  <2>5. Cardinality(Waiting') \in Nat /\ Cardinality(Waiting') <= Cardinality(Waiting) - 1
    BY <2>2, <2>4, OneWaitsNoLonger
  <2>6. Counting' = Counting /\ Discarding' = Discarding
    BY <1>1, ProducersKept DEF Discarding
  <2>7. Cardinality(Counting) \in Nat /\ Cardinality(Waiting) \in Nat /\ Discarding \in Nat
    BY WaitingIs DEF Discarding
  <2>8. queued + Cardinality(Counting) >= Cardinality(Waiting) + Discarding
    BY DEF IInv, NeverUnderCounts
  <2>9. queued' + Cardinality(Counting) >= Cardinality(Waiting') + Discarding
    BY <1>3, <2>5, <2>7, <2>8
  <2> QED BY <2>6, <2>9 DEF NeverUnderCounts
<1>12. ActiveExact'
  <2> DEFINE Busy == {m \in Lanes : worker[m].pc \in {"run", "end"}}
  <2>1. Busy' = Busy \cup {l} /\ l \notin Busy
    BY <1>1, <1>2
  <2>2. IsFiniteSet(Busy)
    BY DispatcherAssumption, FS_Subset
  <2>3. Cardinality(Busy') = Cardinality(Busy) + 1
    BY <2>1, <2>2, FS_AddElement
  <2> QED BY <1>1, <2>3 DEF IInv, ActiveExact
<1>13. Numbered'
  BY <1>1, ProducersKept
<1> QED BY <1>4, <1>5, <1>7, <1>8, <1>9, <1>10, <1>11, <1>12, <1>13 DEF IInv

\* A worker that neither takes a callback nor begins one changes nothing that waits.
LEMMA WaitingKept ==
  ASSUME IInv, UNCHANGED <<queue, producer, closer, queued>>, NEW l \in Lanes,
         worker[l].pc # "begin", worker'[l].pc # "begin",
         \A m \in Lanes : m # l => worker'[m] = worker[m]
  PROVE  NeverUnderCounts'
<1>1. Waiting' = Waiting
  BY DEF Waiting
<1>2. Counting' = Counting /\ Discarding' = Discarding
  BY ProducersKept DEF Discarding
<1> QED BY <1>1, <1>2 DEF IInv, NeverUnderCounts

LEMMA RunStep ==
  ASSUME IInv, NEW l \in Lanes, Run(l)
  PROVE  IInv'
<1>1. PICK e \in Items : e = worker[l].item
  BY DEF IInv, Home, Run
<1>2. /\ worker[l].pc = "run" /\ worker' = [worker EXCEPT ![l].pc = "end"]
      /\ ran' = [ran EXCEPT ![l] = Append(@, e)]
      /\ UNCHANGED <<queue, producer, closer, queued, active, accepted>>
  BY <1>1 DEF Run, Worker
<1>3. /\ worker'[l].item = e /\ worker'[l].pc = "end"
      /\ \A m \in Lanes : m # l => worker'[m] = worker[m]
  BY <1>1, <1>2 DEF IInv, Types
<1>4. ran[l] \in Seq(Items) /\ ran'[l] = Append(ran[l], e)
  BY <1>2 DEF IInv, Types
<1>5. PICK z \in Nat : z = Len(ran[l]) + 1
  BY <1>4
<1>6. /\ ran'[l] \in Seq(Items)
      /\ \A k \in DOMAIN ran'[l] : \/ k \in DOMAIN ran[l] /\ ran'[l][k] = ran[l][k]
                                   \/ k = z /\ ran'[l][k] = e
      /\ \A k \in DOMAIN ran[l] : k \in DOMAIN ran'[l] /\ ran'[l][k] = ran[l][k] /\ k < z
      /\ z \in DOMAIN ran'[l] /\ ran'[l][z] = e
  BY <1>4, <1>5, AppendElements
<1>7. ran' \in [Lanes -> Seq(Items)] /\ \A m \in Lanes : m # l => ran'[m] = ran[m]
  BY <1>2, <1>4, <1>6 DEF IInv, Types
<1>8. Types' /\ OffTheList'
  <2>1. worker' \in [Lanes -> [pc : {"get", "begin", "run", "end", "stopped"},
                               item : Items \cup {Stop}]]
    BY <1>2, WorkerTyped DEF IInv
  <2>2. UNCHANGED <<queue, producer, closer, queued, active, accepted>>
    BY <1>2
  <2>3. ran' \in [Lanes -> Seq(Items)]
    BY <1>7
  <2> QED BY <2>1, <2>2, <2>3 DEF IInv, Types, OffTheList
<1>9. \A m \in Lanes : m # l => Ordered(m)' /\ Home(m)'
  BY <1>2, <1>3, <1>7, ForwardKept, LaneKept DEF IInv
<1>10. Ordered(l) /\ Home(l)
  BY DEF IInv
<1>11. Ordered(l)'
  <2>1. \A j, k \in DOMAIN queue'[l] :
          j < k /\ queue'[l][j] \in Items /\ queue'[l][k] \in Items
            => Before(queue'[l][j], queue'[l][k])
    BY <1>2, <1>10 DEF Ordered
  <2>2. \A j \in DOMAIN ran'[l], k \in DOMAIN queue'[l] :
          queue'[l][k] \in Items => Before(ran'[l][j], queue'[l][k])
    BY <1>1, <1>2, <1>6, <1>10 DEF Ordered
  <2>3. ASSUME NEW j \in DOMAIN ran'[l], NEW k \in DOMAIN ran'[l], j < k
        PROVE  Before(ran'[l][j], ran'[l][k])
    <3>1. j \in DOMAIN ran[l] /\ ran'[l][j] = ran[l][j]
      <4>1. j \in Int /\ k \in Int /\ z \in Int
        BY <1>4, <1>5, <1>6, <2>3
      <4>2. k < z \/ k = z
        BY <1>6
      <4>3. j # z
        BY <2>3, <4>1, <4>2
      <4> QED BY <1>6, <4>3
    <3>2. CASE k = z
      BY <1>1, <1>2, <1>6, <1>10, <3>1, <3>2 DEF Ordered
    <3>3. CASE k # z
      BY <1>6, <1>10, <2>3, <3>1, <3>3 DEF Ordered
    <3> QED BY <3>2, <3>3
  <2>4. \A i, j : Before(i, j)' <=> Before(i, j)
    BY DEF Before
  <2> QED BY <1>3, <2>1, <2>2, <2>3, <2>4 DEF Ordered
<1>12. \A i \in Items : Placed(l, i) => InPlaceNext(l, i)
  BY <1>2, ProducersKept
<1>13. Home(l)'
  <2>1. \A k \in DOMAIN queue'[l] : queue'[l][k] \in Items => InPlaceNext(l, queue'[l][k])
    BY <1>2, <1>10, <1>12 DEF Home
  <2>2. worker'[l].pc \in {"begin", "run", "end"} =>
          worker'[l].item \in Items /\ InPlaceNext(l, worker'[l].item)
    BY <1>1, <1>2, <1>3, <1>10, <1>12 DEF Home
  <2>3. \A j \in DOMAIN ran'[l] : InPlaceNext(l, ran'[l][j])
    BY <1>1, <1>2, <1>6, <1>10, <1>12, ItemsOfRan DEF Home, IInv
  <2> QED BY <2>1, <2>2, <2>3, HomeNext
<1>14. \A m \in Lanes : Unstopped(m)'
  BY <1>2, UnstoppedKept
<1>15. NothingLost'
  <2>1. \A i \in Items, m \in Lanes : InLane(i, m) => InLane(i, m)'
    BY <1>2, <1>3 DEF InLane
  <2>2. ASSUME NEW i \in Items, NEW m \in Lanes, worker[m].pc = "run" /\ worker[m].item = i
        PROVE  Somewhere(i)'
    BY <1>1, <1>3, <1>6, <2>2 DEF Somewhere
  <2>3. ASSUME NEW i \in Items, NEW m \in Lanes, NEW k \in DOMAIN ran[m], ran[m][k] = i
        PROVE  Somewhere(i)'
    BY <1>6, <1>7, <2>3 DEF Somewhere
  <2>4. \A i \in Items : Somewhere(i) => Somewhere(i)'
    BY <2>1, <2>2, <2>3 DEF Somewhere
  <2> QED BY <1>2, <2>4, NothingLostKept DEF Closed
<1>16. NeverUnderCounts'
  BY <1>2, <1>3, WaitingKept
<1>17. ActiveExact'
  <2>1. {m \in Lanes : worker'[m].pc \in {"run", "end"}}
          = {m \in Lanes : worker[m].pc \in {"run", "end"}}
    BY <1>2, <1>3
  <2> QED BY <1>2, <2>1 DEF IInv, ActiveExact
<1>18. Numbered'
  BY <1>2, ProducersKept
<1>19. \A m \in Lanes : Ordered(m)' /\ Home(m)' /\ Unstopped(m)'
  BY <1>9, <1>11, <1>13, <1>14
<1> QED BY <1>8, <1>15, <1>16, <1>17, <1>18, <1>19 DEF IInv

LEMMA EndStep ==
  ASSUME IInv, NEW l \in Lanes, End(l)
  PROVE  IInv'
<1>1. /\ worker[l].pc = "end" /\ worker' = [worker EXCEPT ![l].pc = "get"]
      /\ active' = Less(active)
      /\ UNCHANGED <<queue, producer, closer, queued, accepted, ran>>
  BY DEF End, Worker
<1>2. /\ worker'[l].item = worker[l].item /\ worker'[l].pc = "get"
      /\ \A m \in Lanes : m # l => worker'[m] = worker[m]
  BY <1>1 DEF IInv, Types
<1>3. active \in Nat /\ active' \in Nat /\ (active >= 1 => active' = active - 1)
  BY <1>1 DEF IInv, Types, Less
<1>4. Types' /\ OffTheList'
  <2>1. worker' \in [Lanes -> [pc : {"get", "begin", "run", "end", "stopped"},
                               item : Items \cup {Stop}]]
    BY <1>1, WorkerTyped DEF IInv
  <2>2. queued' \in Nat /\ active' \in Nat
    BY <1>1, <1>3 DEF IInv, Types
  <2>3. UNCHANGED <<queue, producer, closer, accepted, ran>>
    BY <1>1
  <2> QED BY <2>1, <2>2, <2>3 DEF IInv, Types, OffTheList
<1>5. \A m \in Lanes : m # l => Ordered(m)' /\ Home(m)'
  BY <1>1, <1>2, ForwardKept, LaneKept DEF IInv
<1>6. Ordered(l) /\ Home(l)
  BY DEF IInv
<1>7. Ordered(l)'
  BY <1>1, <1>2, <1>6 DEF Ordered, Before
<1>8. Home(l)'
  BY <1>1, <1>2, <1>6 DEF Home, Placed
<1>9. \A m \in Lanes : Unstopped(m)'
  BY <1>1, UnstoppedKept
<1>10. NothingLost'
  <2>1. \A i \in Items : Somewhere(i) => Somewhere(i)'
    BY <1>1, <1>2 DEF Somewhere, InLane
  <2> QED BY <1>1, <2>1, NothingLostKept DEF Closed
<1>11. NeverUnderCounts'
  BY <1>1, <1>2, WaitingKept
<1>12. ActiveExact'
  <2> DEFINE Busy == {m \in Lanes : worker[m].pc \in {"run", "end"}}
  <2>1. Busy' = Busy \ {l} /\ l \in Busy
    BY <1>1, <1>2
  <2>2. IsFiniteSet(Busy)
    BY DispatcherAssumption, FS_Subset
  <2>3. Cardinality(Busy') = Cardinality(Busy) - 1
    BY <2>1, <2>2, FS_RemoveElement
  <2>4. Cardinality(Busy) \in Nat /\ Cardinality(Busy') \in Nat
    BY <2>1, <2>2, FS_RemoveElement, FS_CardinalityType
  <2>5. active = Cardinality(Busy)
    BY DEF IInv, ActiveExact
  <2>6. active' = Cardinality(Busy')
    BY <1>3, <2>3, <2>4, <2>5
  <2> QED BY <2>6 DEF ActiveExact
<1>13. Numbered'
  BY <1>1, ProducersKept
<1> QED BY <1>4, <1>5, <1>7, <1>8, <1>9, <1>10, <1>11, <1>12, <1>13 DEF IInv

-----------------------------------------------------------------------------
(* close                                                                    *)

\* Only the closer moves, and to no lane that was not already on its list.
LEMMA CloserMoves ==
  ASSUME IInv, UNCHANGED <<queue, producer, worker, queued, active, accepted, ran>>,
         closer' \in [pc : {"open", "wait", "lane", "discard", "account", "accountOne",
                            "stop", "closed"},
                      drained : BOOLEAN, todo : SUBSET Lanes, lane : Lanes],
         closer'.pc # "open" , OffTheList', Discarding' = Discarding,
         \A l \in Lanes : ToStop(l)' => ToStop(l)
  PROVE  IInv'
<1>1. Types' /\ Numbered'
  BY ProducersKept DEF IInv, Types
<1>2. \A l \in Lanes : Ordered(l)' /\ Home(l)'
  BY ForwardKept, LanesKept
<1>3. \A l \in Lanes : Unstopped(l)'
  BY DEF IInv, Unstopped
<1>4. NothingLost'
  BY DEF NothingLost, Closed
<1>5. NeverUnderCounts' /\ ActiveExact'
  BY PlacesKept, ProducersKept DEF IInv, NeverUnderCounts
<1> QED BY <1>1, <1>2, <1>3, <1>4, <1>5 DEF IInv

\* close goes on to pc, with less on its list.
GoesTo(pc, drained, todo, l) ==
  /\ closer' = [pc |-> pc, drained |-> drained, todo |-> todo, lane |-> l]
  /\ todo \subseteq closer.todo /\ pc \notin {"open", "account", "accountOne"}
  /\ pc \in {"discard", "stop"} => l \in closer.todo /\ l \notin todo
  /\ closer.pc \in {"open", "wait", "lane"}

LEMMA CloserStep ==
  ASSUME IInv, (\E drain \in BOOLEAN : Close(drain)) \/ WaitIdle \/ NextLane
  PROVE  IInv'
<1>1. UNCHANGED <<queue, producer, worker, queued, active, accepted, ran>>
  BY DEF Close, WaitIdle, NextLane
<1>2. PICK pc \in {"open", "wait", "lane", "discard", "account", "accountOne", "stop", "closed"},
           drained \in BOOLEAN, todo \in SUBSET Lanes, l \in Lanes : GoesTo(pc, drained, todo, l)
  <2> closer.drained \in BOOLEAN /\ closer.todo \in SUBSET Lanes /\ closer.lane \in Lanes
    BY DEF IInv, Types
  <2>1. CASE \E drain \in BOOLEAN : Close(drain)
    <3>1. PICK drain \in BOOLEAN : Close(drain)
      BY <2>1
    <3>2. PICK pc \in {"wait", "lane"} : closer' = [closer EXCEPT !.pc = pc] /\ closer.pc = "open"
      BY <3>1 DEF Close, Closer
    <3>3. closer' = [pc |-> pc, drained |-> closer.drained, todo |-> closer.todo,
                     lane |-> closer.lane]
      BY <3>2 DEF IInv, Types
    <3>4. GoesTo(pc, closer.drained, closer.todo, closer.lane)
      BY <3>2, <3>3 DEF GoesTo
    <3> QED BY <3>4
  <2>2. CASE WaitIdle
    <3>1. PICK idle \in BOOLEAN : /\ closer' = [closer EXCEPT !.pc = "lane", !.drained = idle]
                                  /\ closer.pc = "wait"
      BY <2>2 DEF WaitIdle
    <3>2. closer' = [pc |-> "lane", drained |-> idle, todo |-> closer.todo, lane |-> closer.lane]
      BY <3>1 DEF IInv, Types
    <3>3. GoesTo("lane", idle, closer.todo, closer.lane)
      BY <3>1, <3>2 DEF GoesTo
    <3> QED BY <3>3
  <2>3. CASE NextLane /\ closer.todo = {}
    <3>1. closer' = [closer EXCEPT !.pc = "closed"] /\ closer.pc = "lane"
      BY <2>3 DEF NextLane, Closer
    <3>2. closer' = [pc |-> "closed", drained |-> closer.drained, todo |-> closer.todo,
                     lane |-> closer.lane]
      BY <3>1 DEF IInv, Types
    <3>3. GoesTo("closed", closer.drained, closer.todo, closer.lane)
      BY <3>1, <3>2 DEF GoesTo
    <3> QED BY <3>3
  <2>4. CASE NextLane /\ closer.todo # {}
    <3>1. PICK l \in closer.todo, pc \in {"stop", "discard"} :
            /\ closer' = [closer EXCEPT !.lane = l, !.todo = closer.todo \ {l}, !.pc = pc]
            /\ closer.pc = "lane"
      BY <2>4 DEF NextLane
    <3>2. closer' = [pc |-> pc, drained |-> closer.drained, todo |-> closer.todo \ {l}, lane |-> l]
      BY <3>1 DEF IInv, Types
    <3>3. GoesTo(pc, closer.drained, closer.todo \ {l}, l)
      BY <3>1, <3>2 DEF GoesTo
    <3> QED BY <3>3
  <2> QED BY <2>1, <2>2, <2>3, <2>4
<1>3. /\ closer'.pc = pc /\ closer'.drained = drained /\ closer'.todo = todo /\ closer'.lane = l
      /\ closer' \in [pc : {"open", "wait", "lane", "discard", "account", "accountOne",
                            "stop", "closed"},
                      drained : BOOLEAN, todo : SUBSET Lanes, lane : Lanes]
  BY <1>2 DEF GoesTo
<1>4. OffTheList' /\ Discarding' = Discarding
  BY <1>2, <1>3 DEF GoesTo, OffTheList, Discarding
<1>5. \A m \in Lanes : ToStop(m)' => ToStop(m)
  BY <1>2, <1>3 DEF GoesTo, ToStop
<1>6. closer'.pc # "open"
  BY <1>2, <1>3 DEF GoesTo
<1> QED BY <1>1, <1>3, <1>4, <1>5, <1>6, CloserMoves

LEMMA AccountStep ==
  ASSUME IInv, Account
  PROVE  IInv'
<1>1. PICK pc \in {"discard", "stop"} :
        /\ closer' = [closer EXCEPT !.pc = pc] /\ closer.pc \in {"account", "accountOne"}
        /\ queued' = Less(queued)
        /\ UNCHANGED <<queue, producer, worker, active, accepted, ran>>
  BY DEF Account, Closer
<1>2. /\ closer'.pc = pc /\ closer'.todo = closer.todo /\ closer'.lane = closer.lane
      /\ closer' \in [pc : {"open", "wait", "lane", "discard", "account", "accountOne",
                            "stop", "closed"},
                      drained : BOOLEAN, todo : SUBSET Lanes, lane : Lanes]
  BY <1>1 DEF IInv, Types
<1>3. queued \in Nat /\ queued' \in Nat /\ queued' >= queued - 1
  BY <1>1 DEF IInv, Types, Less
<1>4. Types' /\ Numbered'
  BY <1>1, <1>2, <1>3, ProducersKept DEF IInv, Types
<1>5. OffTheList'
  BY <1>1, <1>2 DEF IInv, OffTheList
<1>6. \A l \in Lanes : Ordered(l)' /\ Home(l)'
  BY <1>1, ForwardKept, LanesKept
<1>7. \A l \in Lanes : Unstopped(l)'
  BY <1>1, <1>2 DEF IInv, Unstopped, ToStop
<1>8. NothingLost'
  BY <1>1, <1>2 DEF NothingLost, Closed
<1>9. NeverUnderCounts'
  <2>1. Discarding = 1 /\ Discarding' = 0
    BY <1>1, <1>2 DEF Discarding
  <2>2. Waiting' = Waiting /\ Counting' = Counting
    BY <1>1, PlacesKept, ProducersKept
  <2>3. Cardinality(Counting) \in Nat /\ Cardinality(Waiting) \in Nat
    BY WaitingIs
  <2>4. queued + Cardinality(Counting) >= Cardinality(Waiting) + Discarding
    BY DEF IInv, NeverUnderCounts
  <2>5. queued' + Cardinality(Counting) >= Cardinality(Waiting) + 0
    BY <1>3, <2>1, <2>3, <2>4
  <2> QED BY <2>1, <2>2, <2>5 DEF NeverUnderCounts
<1>10. ActiveExact'
  BY <1>1, PlacesKept DEF IInv
<1> QED BY <1>4, <1>5, <1>6, <1>7, <1>8, <1>9, <1>10 DEF IInv

\* _discard_pending and _discard_one take a callback from the lane and owe its count.
LEMMA DiscardStep ==
  ASSUME IInv, NEW l \in Lanes, l = closer.lane, queue[l] # <<>>, queue' = [queue EXCEPT ![l] = Tail(@)],
         NEW pc \in {"account", "accountOne"}, closer' = [closer EXCEPT !.pc = pc],
         closer.pc \in {"discard", "stop"},
         UNCHANGED <<producer, worker, queued, active, accepted, ran>>
  PROVE  IInv'
<1>1. /\ queue' \in [Lanes -> Seq(Items \cup {Stop})]
      /\ \A m \in Lanes : m # l => queue'[m] = queue[m]
      /\ 1 \in DOMAIN queue[l]
      /\ \A k \in DOMAIN queue'[l] : k + 1 \in DOMAIN queue[l] /\ queue'[l][k] = queue[l][k + 1]
                                     /\ k \in Nat /\ 1 < k + 1
  BY LaneTail DEF IInv
<1>2. PICK i \in Items : i = queue[l][1]
  BY <1>1 DEF IInv, Unstopped, ToStop
<1>3. /\ closer'.pc = pc /\ closer'.todo = closer.todo /\ closer'.lane = closer.lane
      /\ closer' \in [pc : {"open", "wait", "lane", "discard", "account", "accountOne",
                            "stop", "closed"},
                      drained : BOOLEAN, todo : SUBSET Lanes, lane : Lanes]
  BY DEF IInv, Types
<1>4. Types' /\ Numbered'
  BY <1>1, <1>3, ProducersKept DEF IInv, Types
<1>5. OffTheList'
  BY <1>3 DEF IInv, OffTheList
<1>6. \A m \in Lanes : m # l => Ordered(m)' /\ Home(m)'
  BY <1>1, ForwardKept, LaneKept DEF IInv
<1>7. Ordered(l) /\ Home(l)
  BY DEF IInv
<1>8. Ordered(l)'
  <2>1. ASSUME NEW j \in DOMAIN queue'[l], NEW k \in DOMAIN queue'[l], j < k,
               queue'[l][j] \in Items, queue'[l][k] \in Items
        PROVE  Before(queue'[l][j], queue'[l][k])
    <3>1. j + 1 < k + 1
      BY <1>1, <2>1
    <3> QED BY <1>1, <1>7, <2>1, <3>1 DEF Ordered
  <2>2. ASSUME NEW j \in DOMAIN ran'[l], NEW k \in DOMAIN queue'[l], queue'[l][k] \in Items
        PROVE  Before(ran'[l][j], queue'[l][k])
    <3>1. j \in DOMAIN ran[l] /\ ran'[l][j] = ran[l][j]
      OBVIOUS
    <3> QED BY <1>1, <1>7, <2>2, <3>1 DEF Ordered
  <2>3. worker'[l].pc \in {"begin", "run"} =>
          /\ \A j \in DOMAIN ran'[l] : Before(ran'[l][j], worker'[l].item)
          /\ \A k \in DOMAIN queue'[l] :
                queue'[l][k] \in Items => Before(worker'[l].item, queue'[l][k])
    BY <1>1, <1>7 DEF Ordered
  <2>4. \A j, k \in DOMAIN ran'[l] : j < k => Before(ran'[l][j], ran'[l][k])
    BY <1>7 DEF Ordered
  <2>5. \A j, k : Before(j, k)' <=> Before(j, k)
    BY DEF Before
  <2> QED BY <2>1, <2>2, <2>3, <2>4, <2>5 DEF Ordered
<1>9. \A j \in Items : Placed(l, j) => InPlaceNext(l, j)
  BY ProducersKept
<1>10. Home(l)'
  <2>1. \A k \in DOMAIN queue'[l] : queue'[l][k] \in Items => InPlaceNext(l, queue'[l][k])
    BY <1>1, <1>7, <1>9 DEF Home
  <2>2. worker'[l].pc \in {"begin", "run", "end"} =>
          worker'[l].item \in Items /\ InPlaceNext(l, worker'[l].item)
    BY <1>7, <1>9 DEF Home
  <2>3. \A j \in DOMAIN ran'[l] : InPlaceNext(l, ran'[l][j])
    BY <1>7, <1>9, ItemsOfRan DEF Home, IInv
  <2> QED BY <2>1, <2>2, <2>3, HomeNext
<1>11. \A m \in Lanes : Unstopped(m)'
  BY <1>1, <1>3 DEF IInv, Unstopped, ToStop
<1>12. NothingLost'
  BY <1>3 DEF NothingLost, Closed
<1>13. NeverUnderCounts'
  <2>1. \A m \in Lanes : /\ \A k \in DOMAIN queue[m] : queue[m][k] = i => m = l /\ k = 1
                         /\ worker[m].pc \in {"begin", "run"} => worker[m].item # i
    BY <1>1, <1>2, HeadAlone
  <2>2. \E m \in Lanes : InLane(i, m)
    BY <1>1, <1>2 DEF InLane
  <2>3. ASSUME NEW j \in Items, NEW m \in Lanes, InLane(j, m)' PROVE j # i /\ InLane(j, m)
    <3>1. CASE m = l
      BY <1>1, <2>1, <2>3, <3>1 DEF InLane
    <3>2. CASE m # l
      BY <1>1, <2>1, <2>3, <3>2 DEF InLane
    <3> QED BY <3>1, <3>2
  <2>4. Cardinality(Waiting') \in Nat /\ Cardinality(Waiting') <= Cardinality(Waiting) - 1
    BY <2>2, <2>3, OneWaitsNoLonger
  <2>5. Counting' = Counting /\ Discarding' = 1 /\ Discarding = 0
    BY <1>3, ProducersKept DEF Discarding
  <2>6. Cardinality(Counting) \in Nat /\ Cardinality(Waiting) \in Nat /\ queued \in Nat
    BY WaitingIs DEF IInv, Types
  <2>7. queued + Cardinality(Counting) >= Cardinality(Waiting) + 0
    BY <2>5 DEF IInv, NeverUnderCounts
  <2>8. queued + Cardinality(Counting) >= Cardinality(Waiting') + 1
    BY <2>4, <2>6, <2>7
  <2> QED BY <2>5, <2>8 DEF NeverUnderCounts
<1>14. ActiveExact'
  BY DEF IInv, ActiveExact
<1>15. \A m \in Lanes : Ordered(m)' /\ Home(m)' /\ Unstopped(m)'
  BY <1>6, <1>8, <1>10, <1>11
<1> QED BY <1>4, <1>5, <1>12, <1>13, <1>14, <1>15 DEF IInv

LEMMA SentinelStep ==
  ASSUME IInv, NEW l \in Lanes, l = closer.lane, queue' = [queue EXCEPT ![l] = Append(@, Stop)],
         closer' = [closer EXCEPT !.pc = "lane"], closer.pc = "stop",
         UNCHANGED <<producer, worker, queued, active, accepted, ran>>
  PROVE  IInv'
<1>1. PICK z \in Nat : z = Len(queue[l]) + 1
  BY DEF IInv, Types
<1>2. /\ queue' \in [Lanes -> Seq(Items \cup {Stop})]
      /\ \A m \in Lanes : m # l => queue'[m] = queue[m]
      /\ \A k \in DOMAIN queue'[l] : \/ k \in DOMAIN queue[l] /\ queue'[l][k] = queue[l][k]
                                     \/ k = z /\ queue'[l][k] = Stop
  <2>1. Types /\ Stop \in Items \cup {Stop}
    BY DEF IInv
  <2>2. /\ queue' \in [Lanes -> Seq(Items \cup {Stop})]
        /\ \A m \in Lanes : m # l => queue'[m] = queue[m]
        /\ \A k \in DOMAIN queue'[l] : \/ k \in DOMAIN queue[l] /\ queue'[l][k] = queue[l][k]
                                       \/ k = Len(queue[l]) + 1 /\ queue'[l][k] = Stop
    <3>1. /\ queue' \in [Lanes -> Seq(Items \cup {Stop})]
          /\ \A m \in Lanes : m # l => queue'[m] = queue[m]
          /\ \A k \in DOMAIN queue'[l] : \/ k \in DOMAIN queue[l] /\ queue'[l][k] = queue[l][k]
                                         \/ k = Len(queue[l]) + 1 /\ queue'[l][k] = Stop
          /\ \A k \in DOMAIN queue[l] : /\ k \in DOMAIN queue'[l] /\ queue'[l][k] = queue[l][k]
                                        /\ k < Len(queue[l]) + 1
          /\ Len(queue[l]) + 1 \in DOMAIN queue'[l] /\ queue'[l][Len(queue[l]) + 1] = Stop
      BY <2>1, LaneAppend
    <3> QED BY <3>1
  <2> QED BY <1>1, <2>2
<1>3. /\ closer'.pc = "lane" /\ closer'.todo = closer.todo
      /\ closer' \in [pc : {"open", "wait", "lane", "discard", "account", "accountOne",
                            "stop", "closed"},
                      drained : BOOLEAN, todo : SUBSET Lanes, lane : Lanes]
  BY DEF IInv, Types
<1>4. Types' /\ Numbered' /\ OffTheList'
  BY <1>2, <1>3, ProducersKept DEF IInv, Types, OffTheList
<1>5. \A m \in Lanes : m # l => Ordered(m)' /\ Home(m)'
  BY <1>2, ForwardKept, LaneKept DEF IInv
<1>6. Ordered(l) /\ Home(l) /\ Stop \notin Items
  BY ItemsFinite DEF IInv
<1>7. \A k \in DOMAIN queue'[l] : queue'[l][k] \in Items =>
        k \in DOMAIN queue[l] /\ queue'[l][k] = queue[l][k]
  BY <1>2, <1>6
<1>8. Ordered(l)'
  <2>1. \A j, k \in DOMAIN queue'[l] :
          j < k /\ queue'[l][j] \in Items /\ queue'[l][k] \in Items
            => Before(queue'[l][j], queue'[l][k])
    BY <1>6, <1>7 DEF Ordered
  <2>2. \A j \in DOMAIN ran'[l], k \in DOMAIN queue'[l] :
          queue'[l][k] \in Items => Before(ran'[l][j], queue'[l][k])
    BY <1>6, <1>7 DEF Ordered
  <2>3. worker'[l].pc \in {"begin", "run"} =>
          /\ \A j \in DOMAIN ran'[l] : Before(ran'[l][j], worker'[l].item)
          /\ \A k \in DOMAIN queue'[l] :
                queue'[l][k] \in Items => Before(worker'[l].item, queue'[l][k])
    BY <1>6, <1>7 DEF Ordered
  <2>4. \A j, k \in DOMAIN ran'[l] : j < k => Before(ran'[l][j], ran'[l][k])
    BY <1>6 DEF Ordered
  <2>5. \A j, k : Before(j, k)' <=> Before(j, k)
    BY DEF Before
  <2> QED BY <2>1, <2>2, <2>3, <2>4, <2>5 DEF Ordered
<1>9. \A j \in Items : Placed(l, j) => InPlaceNext(l, j)
  BY ProducersKept
<1>10. Home(l)'
  <2>1. \A k \in DOMAIN queue'[l] : queue'[l][k] \in Items => InPlaceNext(l, queue'[l][k])
    BY <1>6, <1>7, <1>9 DEF Home
  <2>2. worker'[l].pc \in {"begin", "run", "end"} =>
          worker'[l].item \in Items /\ InPlaceNext(l, worker'[l].item)
    BY <1>6, <1>9 DEF Home
  <2>3. \A j \in DOMAIN ran'[l] : InPlaceNext(l, ran'[l][j])
    BY <1>6, <1>9, ItemsOfRan DEF Home, IInv
  <2> QED BY <2>1, <2>2, <2>3, HomeNext
<1>11. \A m \in Lanes : Unstopped(m)'
  <2>1. l \notin closer.todo
    BY DEF IInv, OffTheList
  <2> QED BY <1>2, <1>3, <2>1 DEF IInv, Unstopped, ToStop
<1>12. NothingLost'
  BY <1>3 DEF NothingLost, Closed
<1>13. NeverUnderCounts'
  <2>1. ASSUME NEW j \in Items, NEW m \in Lanes, InLane(j, m)' PROVE InLane(j, m)
    <3>1. CASE m = l
      BY <1>7, <2>1, <3>1 DEF InLane
    <3>2. CASE m # l
      BY <1>2, <2>1, <3>2 DEF InLane
    <3> QED BY <3>1, <3>2
  <2>2. Cardinality(Waiting') \in Nat /\ Cardinality(Waiting') <= Cardinality(Waiting)
    BY <2>1, NoneWaitsAnew
  <2>3. Counting' = Counting /\ Discarding' = Discarding /\ Discarding = 0
    BY <1>3, ProducersKept DEF Discarding
  <2>4. Cardinality(Counting) \in Nat /\ Cardinality(Waiting) \in Nat /\ queued \in Nat
    BY WaitingIs DEF IInv, Types
  <2>5. queued + Cardinality(Counting) >= Cardinality(Waiting) + 0
    BY <2>3 DEF IInv, NeverUnderCounts
  <2>6. queued + Cardinality(Counting) >= Cardinality(Waiting') + 0
    BY <2>2, <2>4, <2>5
  <2> QED BY <2>3, <2>6 DEF NeverUnderCounts
<1>14. ActiveExact'
  BY DEF IInv, ActiveExact
<1>15. \A m \in Lanes : Ordered(m)' /\ Home(m)' /\ Unstopped(m)'
  BY <1>5, <1>8, <1>10, <1>11
<1> QED BY <1>4, <1>12, <1>13, <1>14, <1>15 DEF IInv

LEMMA EmptyingStep ==
  ASSUME IInv, Discard \/ PutStop
  PROVE  IInv'
<1>1. PICK l \in Lanes : l = closer.lane
  BY DEF IInv, Types
<1>2. CASE Discard /\ queue[l] = <<>>
  <2>1. /\ closer' = [closer EXCEPT !.pc = "stop"] /\ closer.pc = "discard"
        /\ UNCHANGED <<queue, producer, worker, queued, active, accepted, ran>>
    BY <1>1, <1>2 DEF Discard, Closer
  <2>2. /\ closer'.pc = "stop" /\ closer'.todo = closer.todo /\ closer'.lane = closer.lane
        /\ closer' \in [pc : {"open", "wait", "lane", "discard", "account", "accountOne",
                              "stop", "closed"},
                        drained : BOOLEAN, todo : SUBSET Lanes, lane : Lanes]
    BY <2>1 DEF IInv, Types
  <2>3. OffTheList' /\ Discarding' = Discarding /\ \A m \in Lanes : ToStop(m)' => ToStop(m)
    BY <2>1, <2>2 DEF IInv, OffTheList, Discarding, ToStop
  <2> QED BY <2>1, <2>2, <2>3, CloserMoves
<1>3. CASE Discard /\ queue[l] # <<>>
  BY <1>1, <1>3, DiscardStep DEF Discard, Closer
<1>4. CASE PutStop /\ Full(l)
  <2>1. queue[l] # <<>>
    BY <1>4, DispatcherAssumption DEF Full
  <2> QED BY <1>1, <1>4, <2>1, DiscardStep DEF PutStop, Closer
<1>5. CASE PutStop /\ ~Full(l)
  BY <1>1, <1>5, SentinelStep DEF PutStop, Closer
<1> QED BY <1>2, <1>3, <1>4, <1>5

-----------------------------------------------------------------------------
LEMMA InitInvariant == Init => IInv
<1> SUFFICES ASSUME Init PROVE IInv
  OBVIOUS
<1> USE DEF Init
<1>1. (CHOOSE l \in Lanes : TRUE) \in Lanes
  BY DispatcherAssumption
<1>2. Types
  BY <1>1, DispatcherAssumption DEF Types
<1>3. Numbered /\ OffTheList
  BY DEF Numbered, OffTheList
<1>4. \A l \in Lanes : Ordered(l) /\ Home(l) /\ Unstopped(l)
  BY DEF Ordered, Home, Unstopped
<1>5. Waiting = {} /\ Counting = {} /\ Discarding = 0
  BY DEF Waiting, Counting, Discarding
<1>6. NothingLost
  BY <1>5 DEF NothingLost
<1>7. NeverUnderCounts
  BY <1>5, FS_EmptySet DEF NeverUnderCounts
<1>8. {l \in Lanes : worker[l].pc \in {"run", "end"}} = {}
  OBVIOUS
<1>9. ActiveExact
  BY <1>8, FS_EmptySet DEF ActiveExact
<1> QED BY <1>2, <1>3, <1>4, <1>6, <1>7, <1>9 DEF IInv

LEMMA StutterKeeps ==
  ASSUME IInv, UNCHANGED vars
  PROVE  IInv'
<1> USE DEF vars
<1>1. Types' /\ Numbered' /\ OffTheList'
  BY DEF IInv, Types, Numbered, OffTheList
<1>2. \A l \in Lanes : Ordered(l)' /\ Home(l)' /\ Unstopped(l)'
  BY ForwardKept, LanesKept, UnstoppedKept
<1>3. \A i \in Items : Somewhere(i) => Somewhere(i)'
  BY DEF Somewhere, InLane
<1>4. NothingLost'
  BY <1>3, NothingLostKept DEF Closed
<1>5. NeverUnderCounts' /\ ActiveExact'
  BY PlacesKept, ProducersKept DEF IInv, NeverUnderCounts, Discarding
<1> QED BY <1>1, <1>2, <1>4, <1>5 DEF IInv

LEMMA NextInvariant == IInv /\ [Next]_vars => IInv'
<1> SUFFICES ASSUME IInv, [Next]_vars PROVE IInv'
  OBVIOUS
<1>1. CASE \E p \in Producers : Submit(p) \/ Producing(p)
  BY <1>1, SubmitStep, PutStep, CountStep DEF Producing
<1>2. CASE \E l \in Lanes : Working(l)
  BY <1>2, TakeStep, BeginStep, RunStep, EndStep DEF Working
<1>3. CASE \E drain \in BOOLEAN : Close(drain)
  BY <1>3, CloserStep
<1>4. CASE Closing
  BY <1>4, CloserStep, EmptyingStep, AccountStep DEF Closing
<1>5. CASE UNCHANGED vars
  BY <1>5, StutterKeeps
<1> QED BY <1>1, <1>2, <1>3, <1>4, <1>5 DEF Next

\* The invariant of submit, _worker and close together: lanes are FIFO, every
\* submitted callback is somewhere until close, and the counters follow.
THEOREM Invariance == Spec => []IInv
<1>1. Init => IInv
  BY InitInvariant
<1>2. IInv /\ [Next]_vars => IInv'
  BY NextInvariant
<1> QED BY <1>1, <1>2, PTL DEF Spec

\* Callbacks submitted under one key run in the order of their submission, each at
\* most once, whatever put, the workers and close do in between.
THEOREM CallbacksInOrder == Spec => []KeyOrder
<1>1. IInv => KeyOrder
  <2> SUFFICES ASSUME IInv, NEW l \in Lanes, NEW j \in DOMAIN ran[l], NEW k \in DOMAIN ran[l],
                      j < k, ran[l][j][1] = ran[l][k][1]
               PROVE  ran[l][j][2] < ran[l][k][2]
    BY DEF KeyOrder
  <2> QED BY DEF IInv, Ordered, Before
<1> QED BY <1>1, Invariance, PTL

\* The counters of _increment_queued and _worker never hide a callback: when wait_idle
\* sees two zeros and no submit is between its put and its count, whatever was accepted
\* has run.
THEOREM CountersAreHonest == Spec => []CountersHonest
<1>1. IInv => TypeOK
  <2> SUFFICES ASSUME IInv PROVE TypeOK
    OBVIOUS
  <2> DEFINE Busy == {l \in Lanes : worker[l].pc \in {"run", "end"}}
  <2>1. Cardinality(Busy) <= Cardinality(Lanes) /\ Cardinality(Lanes) \in Nat
    BY DispatcherAssumption, FS_Subset, FS_CardinalityType
  <2>2. active = Cardinality(Busy) /\ active \in Nat
    BY DEF IInv, ActiveExact, Types
  <2>3. active \in 0..Cardinality(Lanes)
    BY <2>1, <2>2
  <2> QED BY <2>3 DEF IInv, Types, TypeOK
<1>2. IInv => FlushHonest
  <2> SUFFICES ASSUME IInv, Idle, ~Closed, Counting = {}, NEW i \in accepted PROVE HasRun(i)
    BY DEF FlushHonest
  <2> DEFINE Busy == {l \in Lanes : worker[l].pc \in {"run", "end"}}
  <2>1. Cardinality(Counting) = 0
    BY FS_EmptySet
  <2>2. Cardinality(Waiting) \in Nat /\ IsFiniteSet(Waiting) /\ Discarding \in Nat
    BY WaitingIs DEF Discarding
  <2>3. 0 + 0 >= Cardinality(Waiting) + Discarding
    BY <2>1 DEF IInv, NeverUnderCounts, Idle
  <2>4. Cardinality(Waiting) = 0
    BY <2>2, <2>3
  <2>5. Waiting = {}
    BY <2>2, <2>4, FS_EmptySet
  <2>6. IsFiniteSet(Busy) /\ Cardinality(Busy) = 0
    BY DispatcherAssumption, FS_Subset DEF IInv, ActiveExact, Idle
  <2>7. Busy = {}
    BY <2>6, FS_EmptySet
  <2>8. i \in Items /\ Somewhere(i)
    BY DEF IInv, Types, NothingLost
  <2>9. \A l \in Lanes : ~InLane(i, l) /\ worker[l].pc # "run"
    BY <2>5, <2>7, <2>8, WaitingIs
  <2> QED BY <2>8, <2>9 DEF Somewhere, HasRun
<1>3. IInv => CountersHonest
  BY <1>1, <1>2 DEF IInv, CountersHonest
<1> QED BY <1>3, Invariance, PTL
=============================================================================
