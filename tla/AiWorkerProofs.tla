---------------------------- MODULE AiWorkerProofs ----------------------------
(***************************************************************************)
(* Proofs about AiWorker, for any requests, services, attempts and limits:  *)
(* the device slots are counted exactly, a service has one recovery at a    *)
(* time and nobody is inside it while it is replaced, and a call is settled *)
(* once.                                                                    *)
(***************************************************************************)
EXTENDS AiWorker, FiniteSetTheorems, SequenceTheorems, WellFoundedInduction, TLAPS

Holders == {r \in Requests : work[r] \in Holding}

\* The scheduler's queue holds a request once.
Lined == \A i, j \in DOMAIN waiters : waiters[i] = waiters[j] => i = j

\* A request goes to the process once, and has no task before it is read there.
Posted ==
  /\ \A r \in Requests : call[r] \in {"new", "admitted"} => work[r] = "none"
  /\ \A i \in DOMAIN cmds : cmds[i].kind = "request" =>
       work[cmds[i].id] = "none" /\ call[cmds[i].id] \notin {"new", "admitted"}
  /\ \A i, j \in DOMAIN cmds :
       cmds[i].kind = "request" /\ cmds[j].kind = "request" /\ cmds[i].id = cmds[j].id => i = j

\* An attempt under way is of a service; the recoveries are of different services, which
\* are marked.
Restarts ==
  /\ \A k \in Attempts : restart[k].pc \notin {"unused", "over"} => restart[k].service \in Services
  /\ \A k \in Recoveries : restart[k].service \in Services => restart[k].service \in recovering
  /\ \A j, k \in Recoveries :
       restart[j].service = restart[k].service /\ restart[k].service \in Services => j = k

Loops == [pc : {"drain", "swap"}, id : Attempts, service : Services, tasks : SUBSET Requests]

IInv == TypeOK /\ SlotsExact /\ IsFiniteSet(Holders) /\ Lined /\ Posted /\ Restarts

-----------------------------------------------------------------------------
(* Sequences and sets.                                                      *)

LEMMA TailOf ==
  ASSUME NEW S, NEW s \in Seq(S), s # <<>>
  PROVE  /\ Head(s) \in S /\ Head(s) = s[1] /\ 1 \in DOMAIN s /\ Tail(s) \in Seq(S)
         /\ \A i \in DOMAIN Tail(s) : i + 1 \in DOMAIN s /\ Tail(s)[i] = s[i + 1] /\ i \in Nat /\ i + 1 # 1
BY HeadTailProperties

LEMMA AppendOf ==
  ASSUME NEW S, NEW s \in Seq(S), NEW x \in S
  PROVE  /\ Append(s, x) \in Seq(S)
         /\ \E n : /\ n \notin DOMAIN s /\ DOMAIN Append(s, x) = DOMAIN s \cup {n}
                   /\ Append(s, x)[n] = x /\ \A i \in DOMAIN s : Append(s, x)[i] = s[i]
<1>1. Append(s, x) \in Seq(S)
  OBVIOUS
<1>2. Len(s) + 1 \notin DOMAIN s /\ DOMAIN Append(s, x) = DOMAIN s \cup {Len(s) + 1}
  OBVIOUS
<1>3. Append(s, x)[Len(s) + 1] = x /\ \A i \in DOMAIN s : Append(s, x)[i] = s[i]
  OBVIOUS
<1> QED BY <1>1, <1>2, <1>3

\* One element is taken out of a sequence in which each occurs once.
LEMMA RemoveAtOf ==
  ASSUME NEW S, NEW s \in Seq(S), NEW b \in DOMAIN s,
         \A i, j \in DOMAIN s : s[i] = s[j] => i = j
  PROVE  /\ RemoveAt(s, b) \in Seq(S)
         /\ ToSet(RemoveAt(s, b)) = ToSet(s) \ {s[b]}
         /\ \A i, j \in DOMAIN RemoveAt(s, b) : RemoveAt(s, b)[i] = RemoveAt(s, b)[j] => i = j
<1>1. PICK n \in Nat : n = Len(s) /\ DOMAIN s = 1 .. n
  OBVIOUS
<1>2. b \in 1 .. n /\ b \in Nat /\ b - 1 \in Nat /\ b + 1 \in Nat
  BY <1>1
<1> DEFINE u == SubSeq(s, 1, b - 1)
           v == SubSeq(s, b + 1, n)
           t == RemoveAt(s, b)
<1>3. t = u \o v
  BY <1>1 DEF RemoveAt
<1>4. /\ u \in Seq(S) /\ Len(u) = b - 1 /\ \A i \in 1 .. b - 1 : u[i] = s[i]
  BY <1>1, <1>2
<1>5. /\ v \in Seq(S) /\ Len(v) = n - b /\ \A i \in 1 .. n - b : v[i] = s[b + i]
  BY SMTT(60), <1>1, <1>2
<1>6. /\ t \in Seq(S) /\ Len(t) = n - 1
      /\ \A i \in 1 .. n - 1 : t[i] = IF i <= b - 1 THEN u[i] ELSE v[i - (b - 1)]
  <2> HIDE DEF u, v, t
  <2> QED BY SMTT(60), <1>1, <1>2, <1>3, <1>4, <1>5
<1> HIDE DEF u, v, t
<1>7. /\ DOMAIN t = 1 .. n - 1
      /\ \A i \in 1 .. n - 1 : /\ i < b => t[i] = s[i]
                               /\ i >= b => t[i] = s[i + 1] /\ i + 1 \in DOMAIN s
  <2>1. DOMAIN t = 1 .. n - 1
    BY <1>1, <1>6
  <2>2. ASSUME NEW i \in 1 .. n - 1, i < b
        PROVE  t[i] = s[i]
    BY <1>2, <1>4, <1>6, <2>2
  <2>3. ASSUME NEW i \in 1 .. n - 1, i >= b
        PROVE  t[i] = s[i + 1] /\ i + 1 \in DOMAIN s
    <3>1. i - (b - 1) \in 1 .. n - b /\ b + (i - (b - 1)) = i + 1 /\ ~(i <= b - 1)
      BY <1>1, <1>2, <2>3
    <3>2. t[i] = v[i - (b - 1)] /\ v[i - (b - 1)] = s[b + (i - (b - 1))]
      BY <1>5, <1>6, <3>1
    <3> QED BY <1>1, <3>1, <3>2
  <2> QED BY <2>1, <2>2, <2>3
<1>8. ASSUME NEW i \in DOMAIN t, NEW j \in DOMAIN t, t[i] = t[j]
      PROVE  i = j
  <2>1. i \in Int /\ j \in Int /\ i \in 1 .. n - 1 /\ j \in 1 .. n - 1 /\ b \in Int
    BY <1>2, <1>7
  <2>2. CASE i < b /\ j < b
    BY <1>1, <1>7, <1>8, <2>1, <2>2
  <2>3. CASE i >= b /\ j >= b
    BY SMTT(60), <1>1, <1>7, <1>8, <2>1, <2>3
  <2>4. CASE i < b /\ j >= b
    <3>1. s[i] = s[j + 1] /\ i \in DOMAIN s /\ j + 1 \in DOMAIN s /\ i # j + 1
      BY <1>1, <1>7, <1>8, <2>1, <2>4
    <3> QED BY <3>1
  <2>5. CASE i >= b /\ j < b
    <3>1. s[i + 1] = s[j] /\ j \in DOMAIN s /\ i + 1 \in DOMAIN s /\ j # i + 1
      BY <1>1, <1>7, <1>8, <2>1, <2>5
    <3> QED BY <3>1
  <2> QED BY <2>1, <2>2, <2>3, <2>4, <2>5
<1>9. ToSet(t) = ToSet(s) \ {s[b]}
  <2>1. ASSUME NEW i \in DOMAIN t
        PROVE  t[i] \in ToSet(s) \ {s[b]}
    <3>1. i \in 1 .. n - 1 /\ i \in Int /\ b \in Int
      BY <1>2, <1>7
    <3>2. PICK m \in DOMAIN s : t[i] = s[m] /\ m # b
      BY SMTT(60), <1>1, <1>7, <3>1
    <3> QED BY <3>2 DEF ToSet
  <2>2. ASSUME NEW m \in DOMAIN s, s[m] # s[b]
        PROVE  s[m] \in ToSet(t)
    <3>1. m \in 1 .. n /\ m # b
      BY <1>1, <2>2
    <3>2. CASE m < b
      <4>1. m \in 1 .. n - 1 /\ t[m] = s[m]
        BY <1>2, <1>7, <3>1, <3>2
      <4> QED BY <1>7, <4>1 DEF ToSet
    <3>3. CASE m > b
      <4>1. m - 1 \in 1 .. n - 1 /\ m - 1 >= b /\ m - 1 + 1 = m
        BY <1>2, <3>1, <3>3
      <4>2. t[m - 1] = s[m]
        BY <1>7, <4>1
      <4> QED BY <1>7, <4>1, <4>2 DEF ToSet
    <3> QED BY <1>2, <3>1, <3>2, <3>3
  <2> QED BY <2>1, <2>2 DEF ToSet
<1> QED BY <1>6, <1>8, <1>9 DEF t

LEMMA SmallestIn ==
  ASSUME NEW T, T \subseteq Nat, T # {}
  PROVE  \E x \in T : \A y \in T : x <= y
<1> DEFINE R == {p \in Nat \X Nat : p[1] < p[2]}
<1>1. OpToRel(<, Nat) = R
  BY Zenon DEF OpToRel
<1>2. IsWellFoundedOn(OpToRel(<, Nat), Nat)
  BY Zenon, NatLessThanWellFounded
<1>3. IsWellFoundedOn(R, Nat)
  BY <1>1, <1>2
<1>4. PICK x \in T : \A y \in T : ~ (<<y, x>> \in R)
  <2> HIDE DEF R
  <2> QED BY <1>3, WFMin
<1>5. \A y \in T : ~(y < x) /\ y \in Nat /\ x \in Nat
  <2>1. SUFFICES ASSUME NEW y \in T
                 PROVE  ~(y < x) /\ y \in Nat /\ x \in Nat
    OBVIOUS
  <2>2. <<y, x>> \in Nat \X Nat /\ y \in Nat /\ x \in Nat /\ <<y, x>>[1] = y /\ <<y, x>>[2] = x
    OBVIOUS
  <2>3. y < x => <<y, x>> \in R
    BY <2>2
  <2> QED BY <1>4, <2>2, <2>3
<1>6. ASSUME NEW y \in T PROVE x <= y
  BY <1>5
<1> QED BY <1>6

LEMMA OneLess ==
  ASSUME NEW S, NEW x, IsFiniteSet(S), x \in S
  PROVE  /\ IsFiniteSet(S \ {x}) /\ Cardinality(S \ {x}) = Cardinality(S) - 1
         /\ Cardinality(S) \in Nat /\ Cardinality(S) >= 1
<1>1. IsFiniteSet(S \ {x}) /\ Cardinality(S \ {x}) = Cardinality(S) - 1
  BY FS_RemoveElement
<1>2. Cardinality(S \ {x}) \in Nat /\ Cardinality(S) \in Nat
  BY <1>1, FS_CardinalityType
<1> QED BY <1>1, <1>2

-----------------------------------------------------------------------------
(* The process.                                                             *)

\* The command at the head of the queue.
LEMMA HeadCommand ==
  ASSUME TypeOK, cmds # <<>>, NEW c, c = Head(cmds)
  PROVE  /\ c \in Commands /\ c = cmds[1] /\ 1 \in DOMAIN cmds /\ Tail(cmds) \in Seq(Commands)
         /\ c.service \in Services
         /\ c.kind = "request" => c.id \in Requests
         /\ c.kind = "restart" => c.id \in Attempts
         /\ \A i \in DOMAIN Tail(cmds) :
              i + 1 \in DOMAIN cmds /\ Tail(cmds)[i] = cmds[i + 1] /\ i \in Nat /\ i + 1 # 1
<1>1. cmds \in Seq(Commands)
  BY DEF TypeOK, ProcessTypeOK
<1>2. /\ c \in Commands /\ c = cmds[1] /\ 1 \in DOMAIN cmds /\ Tail(cmds) \in Seq(Commands)
      /\ \A i \in DOMAIN Tail(cmds) :
           i + 1 \in DOMAIN cmds /\ Tail(cmds)[i] = cmds[i + 1] /\ i \in Nat /\ i + 1 # 1
  BY <1>1, TailOf
<1>3. /\ c.service \in Services
      /\ c.kind = "request" => c.id \in Requests
      /\ c.kind = "restart" => c.id \in Attempts
  BY <1>2 DEF Commands
<1> QED BY <1>2, <1>3

\* What is left of the queue goes on meaning what it meant.
LEMMA PostedTail ==
  ASSUME IInv, cmds # <<>>, cmds' = Tail(cmds), UNCHANGED call,
         NEW c, c = Head(cmds),
         \A r \in Requests : work'[r] = work[r] \/ (c.kind = "request" /\ r = c.id)
  PROVE  Posted'
<1>1. /\ c = cmds[1] /\ 1 \in DOMAIN cmds /\ Tail(cmds) \in Seq(Commands)
      /\ c.kind = "request" => c.id \in Requests
      /\ \A i \in DOMAIN Tail(cmds) :
           i + 1 \in DOMAIN cmds /\ Tail(cmds)[i] = cmds[i + 1] /\ i \in Nat /\ i + 1 # 1
  BY HeadCommand DEF IInv
<1>2. c.kind = "request" => call[c.id] \notin {"new", "admitted"}
  BY <1>1 DEF IInv, Posted
<1>3. \A r \in Requests : call'[r] \in {"new", "admitted"} => work'[r] = "none"
  BY <1>2 DEF IInv, Posted
<1>4. ASSUME NEW i \in DOMAIN cmds', cmds'[i].kind = "request"
      PROVE  work'[cmds'[i].id] = "none" /\ call'[cmds'[i].id] \notin {"new", "admitted"}
  <2>1. /\ i + 1 \in DOMAIN cmds /\ cmds'[i] = cmds[i + 1] /\ i + 1 # 1 /\ i \in Nat
        /\ cmds[i + 1] \in Commands
    BY <1>1, <1>4 DEF IInv, TypeOK, ProcessTypeOK
  <2>2. cmds[i + 1].id \in Requests
    BY <1>4, <2>1 DEF Commands
  <2>3. c.kind = "request" => cmds[i + 1].id # c.id
    BY <1>1, <1>4, <2>1 DEF IInv, Posted
  <2>4. work[cmds[i + 1].id] = "none" /\ call[cmds[i + 1].id] \notin {"new", "admitted"}
    BY <1>4, <2>1 DEF IInv, Posted
  <2> QED BY <2>1, <2>2, <2>3, <2>4
<1>5. ASSUME NEW i \in DOMAIN cmds', NEW j \in DOMAIN cmds',
             cmds'[i].kind = "request", cmds'[j].kind = "request", cmds'[i].id = cmds'[j].id
      PROVE  i = j
  <2>1. /\ i + 1 \in DOMAIN cmds /\ cmds'[i] = cmds[i + 1] /\ i \in Nat
        /\ j + 1 \in DOMAIN cmds /\ cmds'[j] = cmds[j + 1] /\ j \in Nat
    BY <1>1
  <2>2. i + 1 = j + 1
    BY <1>5, <2>1 DEF IInv, Posted
  <2> QED BY <2>1, <2>2
<1> QED BY <1>3, <1>4, <1>5 DEF Posted

\* A step between two awaits that takes no command.
LEMMA PostedKept ==
  ASSUME IInv, UNCHANGED <<cmds, call>>,
         \A r \in Requests : work'[r] = work[r] \/ work[r] # "none"
  PROVE  Posted'
<1>1. \A i \in DOMAIN cmds : cmds[i].kind = "request" => cmds[i].id \in Requests
  <2>1. cmds \in Seq(Commands)
    BY DEF IInv, TypeOK, ProcessTypeOK
  <2>2. \A i \in DOMAIN cmds : cmds[i] \in Commands
    BY <2>1
  <2> QED BY <2>2 DEF Commands
<1>2. \A i \in DOMAIN cmds : cmds[i].kind = "request" =>
        work'[cmds[i].id] = "none" /\ call[cmds[i].id] \notin {"new", "admitted"}
  BY <1>1 DEF IInv, Posted
<1> QED BY <1>2 DEF IInv, Posted

\* The slots and the queue for them, while only these tasks move.
LEMMA SlotsKept ==
  ASSUME IInv, UNCHANGED <<free, waiters>>,
         \A r \in Requests : /\ work'[r] \in Holding <=> work[r] \in Holding
                             /\ work'[r] = "queued" <=> work[r] = "queued"
  PROVE  SlotsExact' /\ IsFiniteSet(Holders)' /\ Lined' /\ Holders' = Holders
<1>1. Holders' = Holders /\ {r \in Requests : work'[r] = "queued"} = {r \in Requests : work[r] = "queued"}
  BY DEF Holders
<1>2. SlotsExact'
  BY <1>1 DEF IInv, SlotsExact, Holders
<1> QED BY <1>1, <1>2 DEF IInv, Lined

LEMMA ParentKept ==
  ASSUME IInv, ProcessTypeOK', UNCHANGED parentVars
  PROVE  TypeOK' /\ Restarts'
<1>1. TypeOK'
  BY DEF IInv, TypeOK, parentVars
<1> QED BY <1>1 DEF IInv, Restarts, parentVars

LEMMA ResponseTyped ==
  ASSUME NEW r \in Requests \cup Attempts, NEW ok \in BOOLEAN
  PROVE  Response(r, ok) \in Results
BY DEF Response, Results

LEMMA ResultAppended ==
  ASSUME IInv, NEW r \in Requests \cup Attempts, NEW ok \in BOOLEAN
  PROVE  Append(results, Response(r, ok)) \in Seq(Results)
BY ResponseTyped, AppendOf DEF IInv, TypeOK, ProcessTypeOK

LEMMA ReadRequestStep ==
  ASSUME IInv, ReadRequest, UNCHANGED parentVars
  PROVE  IInv'
<1>1. PICK c : c = Head(cmds) /\ cmds # <<>> /\ cmds' = Tail(cmds) /\ c.kind = "request"
  BY DEF ReadRequest, Read
<1>2. c.id \in Requests /\ Tail(cmds) \in Seq(Commands) /\ c = cmds[1] /\ 1 \in DOMAIN cmds
  BY <1>1, HeadCommand DEF IInv
<1>3. work[c.id] = "none"
  BY <1>1, <1>2 DEF IInv, Posted
<1>4. PICK w \in {"over", "entry"} :
        /\ work' = [work EXCEPT ![c.id] = w]
        /\ results' \in Seq(Results)
        /\ UNCHANGED <<free, waiters, blocked, loop, alive>>
  <2>1. Append(results, Response(c.id, FALSE)) \in Seq(Results) /\ results \in Seq(Results)
    BY <1>2, ResultAppended DEF IInv, TypeOK, ProcessTypeOK
  <2> QED BY <1>1, <2>1 DEF ReadRequest
<1>5. work'[c.id] = w /\ \A r \in Requests : r # c.id => work'[r] = work[r]
  BY <1>2, <1>4 DEF IInv, TypeOK, ProcessTypeOK
<1>6. ProcessTypeOK'
  BY <1>1, <1>2, <1>4 DEF IInv, TypeOK, ProcessTypeOK, InTask
<1>7. TypeOK' /\ Restarts'
  BY <1>6, ParentKept
<1>8. SlotsExact' /\ IsFiniteSet(Holders)' /\ Lined'
  BY <1>3, <1>4, <1>5, SlotsKept DEF Holding
<1>9. Posted'
  BY <1>1, <1>5, PostedTail DEF parentVars
<1> QED BY <1>7, <1>8, <1>9 DEF IInv

LEMMA ReadCommandStep ==
  ASSUME IInv, ReadQuarantine \/ ReadRestart, UNCHANGED parentVars
  PROVE  IInv'
<1>1. PICK c : c = Head(cmds) /\ cmds # <<>> /\ cmds' = Tail(cmds)
               /\ c.kind \in {"quarantine", "restart"} /\ (c.kind = "restart" <=> ReadRestart)
  BY DEF ReadQuarantine, ReadRestart, Read
<1>2. /\ Tail(cmds) \in Seq(Commands) /\ c.service \in Services
      /\ c.kind = "restart" => c.id \in Attempts
  BY <1>1, HeadCommand DEF IInv
<1>3. UNCHANGED <<results, work, free, waiters, alive>> /\ blocked' = blocked \cup {c.service}
  BY <1>1 DEF ReadQuarantine, ReadRestart
<1>4. loop' \in {Reading} \cup Loops
  <2>1. CASE ReadQuarantine
    BY <2>1 DEF ReadQuarantine, IInv, TypeOK, ProcessTypeOK, Loops
  <2>2. CASE ReadRestart
    BY <1>1, <1>2, <2>2 DEF ReadRestart, Draining, Loops, Ongoing, Inflight
  <2> QED BY <2>1, <2>2
<1>5. ProcessTypeOK'
  BY <1>1, <1>2, <1>3, <1>4 DEF IInv, TypeOK, ProcessTypeOK, Loops
<1>6. TypeOK' /\ Restarts'
  BY <1>5, ParentKept
<1>7. SlotsExact' /\ IsFiniteSet(Holders)' /\ Lined'
  BY <1>3, SlotsKept
<1>8. Posted'
  BY <1>1, <1>3, PostedTail DEF parentVars
<1> QED BY <1>6, <1>7, <1>8 DEF IInv

\* While a service is restarted the loop says which.
LEMMA Restarted ==
  ASSUME IInv, loop.pc # "read"
  PROVE  loop \in Loops
BY DEF IInv, TypeOK, ProcessTypeOK, Loops, Reading

LEMMA DrainEndsStep ==
  ASSUME IInv, DrainEnds, UNCHANGED parentVars
  PROVE  IInv'
<1>1. loop \in Loops /\ loop' = [loop EXCEPT !.pc = "swap"]
      /\ UNCHANGED <<cmds, results, work, free, waiters, blocked, alive>>
  BY Restarted DEF DrainEnds
<1>2. loop' \in Loops
  BY <1>1 DEF Loops
<1>3. ProcessTypeOK'
  BY <1>1, <1>2 DEF IInv, TypeOK, ProcessTypeOK, Loops
<1>4. TypeOK' /\ Restarts'
  BY <1>3, ParentKept
<1>5. SlotsExact' /\ IsFiniteSet(Holders)' /\ Lined'
  BY <1>1, SlotsKept
<1>6. Posted'
  BY <1>1, PostedKept DEF parentVars
<1> QED BY <1>4, <1>5, <1>6 DEF IInv

LEMMA ServiceReplacedStep ==
  ASSUME IInv, Replace \/ RestartFails, UNCHANGED parentVars
  PROVE  IInv'
<1>1. loop.id \in Attempts /\ loop.service \in Services
  BY Restarted DEF Replace, RestartFails, Loops
<1>2. UNCHANGED <<cmds, work, free, waiters, alive>> /\ loop' = Reading /\ blocked' \subseteq Services
  BY DEF Replace, RestartFails, IInv, TypeOK, ProcessTypeOK
<1>3. results' \in Seq(Results)
  <2>1. CASE Replace
    <3>1. Ready(loop.service) \in Results /\ Response(loop.id, TRUE) \in Results
      BY <1>1 DEF Ready, Response, Results
    <3>2. PICK a \in Results, b \in Results : results' = results \o <<a, b>>
      BY <2>1, <3>1 DEF Replace
    <3>3. <<a, b>> \in Seq(Results) /\ results \in Seq(Results)
      BY DEF IInv, TypeOK, ProcessTypeOK
    <3> QED BY <3>2, <3>3
  <2>2. CASE RestartFails
    BY <1>1, <2>2, ResultAppended DEF RestartFails
  <2> QED BY <2>1, <2>2
<1>4. ProcessTypeOK'
  BY <1>2, <1>3 DEF IInv, TypeOK, ProcessTypeOK
<1>5. TypeOK' /\ Restarts'
  BY <1>4, ParentKept
<1>6. SlotsExact' /\ IsFiniteSet(Holders)' /\ Lined'
  BY <1>2, SlotsKept
<1>7. Posted'
  BY <1>2, PostedKept DEF parentVars
<1> QED BY <1>5, <1>6, <1>7 DEF IInv

\* A task goes on to a phase, of the process's own.
LEMMA TaskMoves ==
  ASSUME IInv, NEW r \in Requests, work[r] # "none", NEW p \in InTask \cup {"over"}, Task(r, p),
         UNCHANGED <<cmds, blocked, loop, alive>>, UNCHANGED parentVars,
         results' \in Seq(Results), free' \in 0..Slots, waiters' \in Seq(Requests)
  PROVE  /\ TypeOK' /\ Restarts' /\ Posted'
         /\ work'[r] = p /\ \A q \in Requests : q # r => work'[q] = work[q]
<1>1. work'[r] = p /\ \A q \in Requests : q # r => work'[q] = work[q]
  BY DEF Task, IInv, TypeOK, ProcessTypeOK
<1>2. ProcessTypeOK'
  <2>1. work' \in [Requests -> InTask \cup {"none", "over"}]
    BY DEF Task, IInv, TypeOK, ProcessTypeOK
  <2> QED BY <2>1 DEF IInv, TypeOK, ProcessTypeOK
<1>3. TypeOK' /\ Restarts'
  BY <1>2, ParentKept
<1>4. Posted'
  BY <1>1, PostedKept DEF parentVars
<1> QED BY <1>1, <1>3, <1>4

\* A request that is not at the device moves to another such phase.
LEMMA TaskMovesAside ==
  ASSUME IInv, NEW r \in Requests, work[r] # "none", NEW p \in InTask \cup {"over"}, Task(r, p),
         work[r] # "queued", p # "queued", p \in Holding <=> work[r] \in Holding,
         UNCHANGED <<cmds, free, waiters, blocked, loop, alive>>, UNCHANGED parentVars,
         results' \in Seq(Results)
  PROVE  IInv'
<1>1. free' \in 0..Slots /\ waiters' \in Seq(Requests)
  BY DEF IInv, TypeOK, ProcessTypeOK
<1>2. /\ TypeOK' /\ Restarts' /\ Posted'
      /\ work'[r] = p /\ \A q \in Requests : q # r => work'[q] = work[q]
  BY <1>1, TaskMoves
<1>3. SlotsExact' /\ IsFiniteSet(Holders)' /\ Lined'
  BY <1>2, SlotsKept
<1> QED BY <1>2, <1>3 DEF IInv

LEMMA ResumeStep ==
  ASSUME IInv, NEW r \in Requests, Resume(r), UNCHANGED parentVars
  PROVE  IInv'
<1>1. results' \in Seq(Results)
  BY DEF Resume, IInv, TypeOK, ProcessTypeOK
<1> QED BY <1>1, TaskMovesAside DEF Resume, InTask, Holding

LEMMA AnswerStep ==
  ASSUME IInv, NEW r \in Requests, Answer(r), UNCHANGED parentVars
  PROVE  IInv'
<1>1. results' \in Seq(Results)
  BY ResultAppended DEF Answer
<1> QED BY <1>1, TaskMovesAside DEF Answer, InTask, Holding

LEMMA AcquireDevice ==
  ASSUME IInv, NEW r \in Requests, work[r] = "loading", Task(r, "native"), free > 0, waiters = <<>>,
         free' = free - 1, UNCHANGED <<cmds, results, waiters, blocked, loop, alive>>,
         UNCHANGED parentVars
  PROVE  IInv'
<1>1. free \in 0..Slots /\ free' \in 0..Slots /\ waiters' \in Seq(Requests) /\ results' \in Seq(Results)
  BY ProcessAssumption DEF IInv, TypeOK, ProcessTypeOK
<1>2. /\ TypeOK' /\ Restarts' /\ Posted'
      /\ work'[r] = "native" /\ \A q \in Requests : q # r => work'[q] = work[q]
  BY <1>1, TaskMoves DEF InTask, Holding
<1>3. Holders' = Holders \cup {r} /\ r \notin Holders /\ IsFiniteSet(Holders)
  BY <1>2 DEF Holders, Holding, IInv
<1>4. IsFiniteSet(Holders') /\ Cardinality(Holders') = Cardinality(Holders) + 1
  BY <1>3, FS_AddElement
<1>5. Cardinality(Holders) \in Nat /\ free + Cardinality(Holders) = Slots
  BY <1>3, FS_CardinalityType DEF IInv, SlotsExact, Holders
<1>6. free' + Cardinality(Holders') = Slots
  <2>1. free \in Nat /\ Slots \in Nat
    BY <1>1, ProcessAssumption
  <2> QED BY <1>4, <1>5, <2>1
<1>7. ToSet(waiters)' = {q \in Requests : work'[q] = "queued"}
  <2>1. {q \in Requests : work'[q] = "queued"} = {q \in Requests : work[q] = "queued"}
    BY <1>2
  <2> QED BY <2>1 DEF IInv, SlotsExact
<1>8. SlotsExact'
  BY <1>6, <1>7 DEF SlotsExact, Holders
<1>9. Lined'
  BY DEF IInv, Lined
<1> QED BY <1>2, <1>4, <1>8, <1>9 DEF IInv

LEMMA AcquireLater ==
  ASSUME IInv, NEW r \in Requests, work[r] = "loading", Task(r, "queued"), ~(free > 0 /\ waiters = <<>>),
         waiters' = Append(waiters, r), UNCHANGED <<cmds, results, free, blocked, loop, alive>>,
         UNCHANGED parentVars
  PROVE  IInv'
<1>1. waiters \in Seq(Requests) /\ free' \in 0..Slots /\ results' \in Seq(Results)
  BY DEF IInv, TypeOK, ProcessTypeOK
<1>2. /\ waiters' \in Seq(Requests)
      /\ \E n : /\ n \notin DOMAIN waiters /\ DOMAIN waiters' = DOMAIN waiters \cup {n}
                /\ waiters'[n] = r /\ \A i \in DOMAIN waiters : waiters'[i] = waiters[i]
  BY <1>1, AppendOf
<1>3. PICK n : /\ n \notin DOMAIN waiters /\ DOMAIN waiters' = DOMAIN waiters \cup {n}
               /\ waiters'[n] = r /\ \A i \in DOMAIN waiters : waiters'[i] = waiters[i]
  BY <1>2
<1>4. /\ TypeOK' /\ Restarts' /\ Posted'
      /\ work'[r] = "queued" /\ \A q \in Requests : q # r => work'[q] = work[q]
  BY <1>1, <1>2, TaskMoves DEF InTask, Holding
<1>5. ToSet(waiters) = {q \in Requests : work[q] = "queued"}
  BY DEF IInv, SlotsExact
<1>6. \A i \in DOMAIN waiters : waiters[i] # r
  BY <1>5 DEF ToSet
<1>7. ToSet(waiters)' = {q \in Requests : work'[q] = "queued"}
  <2>1. ToSet(waiters)' = ToSet(waiters) \cup {r}
    BY <1>3 DEF ToSet
  <2> QED BY <1>4, <1>5, <2>1
<1>8. Holders' = Holders
  BY <1>4 DEF Holders, Holding
<1>9. SlotsExact'
  <2>1. ~(free > 0)
    BY DEF IInv, SlotsExact
  <2>2. free + Cardinality(Holders) = Slots
    BY DEF IInv, SlotsExact, Holders
  <2> QED BY <1>7, <1>8, <2>1, <2>2 DEF SlotsExact, Holders
<1>10. Lined'
  BY <1>3, <1>6 DEF IInv, Lined
<1> QED BY <1>4, <1>8, <1>9, <1>10 DEF IInv

LEMMA AcquireStep ==
  ASSUME IInv, NEW r \in Requests, Acquire(r), UNCHANGED parentVars
  PROVE  IInv'
<1>1. work[r] = "loading" /\ UNCHANGED <<cmds, results, blocked, loop, alive>>
  BY DEF Acquire
<1>2. CASE free > 0 /\ waiters = <<>>
  BY <1>1, <1>2, AcquireDevice DEF Acquire
<1>3. CASE ~(free > 0 /\ waiters = <<>>)
  <2>1. Task(r, "queued") /\ waiters' = Append(waiters, r) /\ UNCHANGED free
    BY <1>3 DEF Acquire
  <2> QED BY <1>1, <1>3, <2>1, AcquireLater
<1> QED BY <1>2, <1>3

LEMMA EnterStep ==
  ASSUME IInv, NEW r \in Requests, Enter(r), UNCHANGED parentVars
  PROVE  IInv'
<1>1. PICK p \in {"over", "loading"} :
        /\ work[r] = "entry" /\ Task(r, p) /\ results' \in Seq(Results)
        /\ UNCHANGED <<cmds, free, waiters, blocked, loop, alive>>
  <2>1. Append(results, Response(r, FALSE)) \in Seq(Results) /\ results \in Seq(Results)
    BY ResultAppended DEF IInv, TypeOK, ProcessTypeOK
  <2> QED BY <2>1 DEF Enter
<1> QED BY <1>1, TaskMovesAside DEF Holding, InTask

LEMMA PassByStep ==
  ASSUME IInv, NEW r \in Requests, PassBy(r), UNCHANGED parentVars
  PROVE  IInv'
<1>1. results' \in Seq(Results)
  BY DEF PassBy, IInv, TypeOK, ProcessTypeOK
<1> QED BY <1>1, TaskMovesAside DEF PassBy, InTask, Holding

\* The heap has a first element.
LEMMA BestWaits ==
  ASSUME IInv, waiters # <<>>
  PROVE  Best \in DOMAIN waiters
<1> DEFINE D == DOMAIN waiters
           P(i) == Priority[waiters[i]]
           Ps == {P(i) : i \in D}
<1>1. waiters \in Seq(Requests) /\ D \subseteq Nat /\ D # {}
  <2>1. waiters \in Seq(Requests)
    BY DEF IInv, TypeOK, ProcessTypeOK
  <2>2. D = 1 .. Len(waiters) /\ Len(waiters) \in Nat /\ Len(waiters) # 0
    BY <2>1
  <2>3. D \subseteq Nat /\ 1 \in D
    BY <2>2
  <2> QED BY <2>1, <2>3
<1>2. \A i \in D : P(i) \in Nat
  <2>1. \A i \in D : waiters[i] \in Requests
    BY <1>1
  <2> QED BY <2>1, ProcessAssumption
<1>3. PICK p \in Ps : \A q \in Ps : p <= q
  <2>1. Ps \subseteq Nat /\ Ps # {}
    BY <1>1, <1>2
  <2> HIDE DEF Ps
  <2> QED BY <2>1, SmallestIn
<1>4. PICK i \in {j \in D : P(j) = p} : \A j \in {k \in D : P(k) = p} : i <= j
  <2>1. {j \in D : P(j) = p} \subseteq Nat /\ {j \in D : P(j) = p} # {}
    BY <1>1, <1>3
  <2> QED BY <2>1, SmallestIn
<1>5. \A j \in D : P(i) <= P(j) /\ (P(i) = P(j) => i <= j) /\ P(i) \in Nat /\ P(j) \in Nat
  BY <1>2, <1>3, <1>4
<1>6. \A j \in D : P(i) < P(j) \/ (P(i) = P(j) /\ i <= j)
  BY <1>5
<1> QED BY <1>4, <1>6 DEF Best

\* The slot is free again.
LEMMA SlotFreed ==
  ASSUME IInv, NEW r \in Requests, work[r] = "native", waiters = <<>>, Task(r, "answering"),
         free' = free + 1, UNCHANGED <<cmds, results, waiters, blocked, loop, alive>>,
         UNCHANGED parentVars
  PROVE  IInv'
<1>1. r \in Holders /\ IsFiniteSet(Holders)
  BY DEF Holders, Holding, IInv
<1>2. /\ IsFiniteSet(Holders \ {r}) /\ Cardinality(Holders \ {r}) = Cardinality(Holders) - 1
      /\ Cardinality(Holders) \in Nat /\ Cardinality(Holders) >= 1
  BY <1>1, OneLess
<1>3. free + Cardinality(Holders) = Slots /\ free \in 0..Slots /\ Slots \in Nat
  BY ProcessAssumption DEF IInv, TypeOK, ProcessTypeOK, SlotsExact, Holders
<1>4. free' \in 0..Slots /\ free' + Cardinality(Holders \ {r}) = Slots
  BY <1>2, <1>3
<1>5. waiters' \in Seq(Requests) /\ results' \in Seq(Results)
  BY DEF IInv, TypeOK, ProcessTypeOK
<1>6. /\ TypeOK' /\ Restarts' /\ Posted'
      /\ work'[r] = "answering" /\ \A q \in Requests : q # r => work'[q] = work[q]
  BY <1>4, <1>5, TaskMoves DEF InTask, Holding
<1>7. Holders' = Holders \ {r}
  BY <1>6 DEF Holders, Holding
<1>8. ToSet(waiters)' = {q \in Requests : work'[q] = "queued"}
  <2>1. {q \in Requests : work'[q] = "queued"} = {q \in Requests : work[q] = "queued"}
    BY <1>6
  <2> QED BY <2>1 DEF IInv, SlotsExact
<1>9. SlotsExact'
  BY <1>4, <1>7, <1>8 DEF SlotsExact, Holders
<1>10. Lined'
  BY DEF IInv, Lined
<1> QED BY <1>2, <1>6, <1>7, <1>9, <1>10 DEF IInv

\* The slot passes to the best of those who wait.
LEMMA SlotHanded ==
  ASSUME IInv, NEW r \in Requests, work[r] = "native", waiters # <<>>,
         work' = [work EXCEPT ![r] = "answering", ![waiters[Best]] = "granted"],
         waiters' = RemoveAt(waiters, Best),
         UNCHANGED <<cmds, results, free, blocked, loop, alive>>, UNCHANGED parentVars
  PROVE  IInv'
<1>1. PICK b \in DOMAIN waiters : b = Best
  BY BestWaits
<1>2. PICK w \in Requests : w = waiters[b]
  BY DEF IInv, TypeOK, ProcessTypeOK
<1>3. ToSet(waiters) = {q \in Requests : work[q] = "queued"}
  BY DEF IInv, SlotsExact
<1>4. work[w] = "queued" /\ w # r
  BY <1>1, <1>2, <1>3 DEF ToSet
<1>5. work' = [work EXCEPT ![r] = "answering", ![w] = "granted"]
  BY <1>1, <1>2
<1>6. /\ work'[r] = "answering" /\ work'[w] = "granted"
      /\ \A q \in Requests : q # r /\ q # w => work'[q] = work[q]
  BY <1>4, <1>5 DEF IInv, TypeOK, ProcessTypeOK
<1>7. /\ waiters' \in Seq(Requests) /\ ToSet(waiters') = ToSet(waiters) \ {w}
      /\ \A i, j \in DOMAIN waiters' : waiters'[i] = waiters'[j] => i = j
  <2>1. waiters \in Seq(Requests) /\ \A i, j \in DOMAIN waiters : waiters[i] = waiters[j] => i = j
    BY DEF IInv, TypeOK, ProcessTypeOK, Lined
  <2> QED BY <1>1, <1>2, <2>1, RemoveAtOf
<1>8. ProcessTypeOK'
  <2>1. work' \in [Requests -> InTask \cup {"none", "over"}]
    BY <1>5 DEF IInv, TypeOK, ProcessTypeOK, InTask, Holding
  <2> QED BY <1>7, <2>1 DEF IInv, TypeOK, ProcessTypeOK
<1>9. TypeOK' /\ Restarts'
  BY <1>8, ParentKept
<1>10. Posted'
  BY <1>4, <1>6, PostedKept DEF parentVars
<1>11. Holders' = (Holders \ {r}) \cup {w} /\ r \in Holders /\ w \notin Holders \ {r} /\ IsFiniteSet(Holders)
  BY <1>4, <1>6 DEF Holders, Holding, IInv
<1>12. IsFiniteSet(Holders') /\ Cardinality(Holders') = Cardinality(Holders)
  <2>1. /\ IsFiniteSet(Holders \ {r}) /\ Cardinality(Holders \ {r}) = Cardinality(Holders) - 1
        /\ Cardinality(Holders) \in Nat
    BY <1>11, OneLess
  <2>2. /\ IsFiniteSet((Holders \ {r}) \cup {w})
        /\ Cardinality((Holders \ {r}) \cup {w}) = Cardinality(Holders \ {r}) + 1
    BY <1>11, <2>1, FS_AddElement
  <2> QED BY <1>11, <2>1, <2>2
<1>13. SlotsExact'
  <2>1. free + Cardinality(Holders) = Slots /\ ~(free > 0)
    BY DEF IInv, SlotsExact, Holders
  <2>2. ToSet(waiters') = {q \in Requests : work'[q] = "queued"}
    BY <1>3, <1>4, <1>6, <1>7
  <2> QED BY <1>12, <2>1, <2>2 DEF SlotsExact, Holders
<1> QED BY <1>7, <1>9, <1>10, <1>12, <1>13 DEF IInv, Lined

LEMMA NativeEndsStep ==
  ASSUME IInv, NEW r \in Requests, NativeEnds(r), UNCHANGED parentVars
  PROVE  IInv'
<1>1. work[r] = "native" /\ UNCHANGED <<cmds, results, blocked, loop, alive>>
  BY DEF NativeEnds
<1>2. CASE waiters = <<>>
  BY <1>1, <1>2, SlotFreed DEF NativeEnds
<1>3. CASE waiters # <<>>
  BY <1>1, <1>3, SlotHanded DEF NativeEnds
<1> QED BY <1>2, <1>3

\* The process ends: nothing of it is left but answers and results on their way.
LEMMA EndedEffect ==
  ASSUME IInv, Ended, UNCHANGED call
  PROVE  /\ ProcessTypeOK' /\ Posted' /\ SlotsExact' /\ IsFiniteSet(Holders)' /\ Lined'
         /\ \A r \in Requests : work'[r] \notin InTask
<1>1. \A r \in Requests : /\ work'[r] \notin InTask
                          /\ work'[r] \in {"none", "over"}
                          /\ work[r] = "none" => work'[r] = "none"
  BY DEF Ended, IInv, TypeOK, ProcessTypeOK, InTask, Holding
<1>2. work' \in [Requests -> InTask \cup {"none", "over"}]
  BY DEF Ended, IInv, TypeOK, ProcessTypeOK
<1>3. results' \in Seq(Results)
  <2>1. PICK n \in 0..Len(results) : results' = SubSeq(results, 1, n)
    BY DEF Ended
  <2>2. results \in Seq(Results)
    BY DEF IInv, TypeOK, ProcessTypeOK
  <2> QED BY <2>1, <2>2
<1>4. ProcessTypeOK'
  <2>1. /\ cmds' = <<>> /\ waiters' = <<>> /\ free' = Slots /\ blocked' = {} /\ loop' = Reading
        /\ alive' = FALSE
    BY DEF Ended
  <2>2. Slots \in 0..Slots
    BY ProcessAssumption
  <2>3. cmds' \in Seq(Commands) /\ waiters' \in Seq(Requests)
    BY <2>1
  <2>4. blocked' \subseteq Services /\ alive' \in BOOLEAN /\ free' \in 0..Slots
    BY <2>1, <2>2
  <2>5. loop' \in {Reading} \cup Loops
    BY <2>1
  <2> QED BY <1>2, <1>3, <2>3, <2>4, <2>5 DEF ProcessTypeOK, Loops
<1>5. Posted'
  <2>1. cmds' = <<>>
    BY DEF Ended
  <2>2. DOMAIN cmds' = {}
    BY <2>1
  <2> QED BY <1>1, <2>2 DEF IInv, Posted
<1>6. Holders' = {} /\ {r \in Requests : work'[r] = "queued"} = {}
  BY <1>1 DEF Holders, InTask
<1>7. IsFiniteSet(Holders') /\ Cardinality(Holders') = 0
  BY <1>6, FS_EmptySet
<1>8. waiters' = <<>> /\ DOMAIN waiters' = {} /\ ToSet(waiters') = {} /\ free' = Slots
  BY DEF Ended, ToSet
<1>9. SlotsExact'
  <2>1. free' + Cardinality(Holders') = Slots
    BY <1>7, <1>8, ProcessAssumption
  <2> QED BY <1>6, <1>8, <2>1 DEF SlotsExact, Holders
<1> QED BY <1>1, <1>4, <1>5, <1>7, <1>8, <1>9 DEF Lined

LEMMA DieStep ==
  ASSUME IInv, Die
  PROVE  IInv'
<1>1. Ended /\ UNCHANGED parentVars /\ UNCHANGED call
  BY DEF Die, parentVars
<1>2. ProcessTypeOK' /\ Posted' /\ SlotsExact' /\ IsFiniteSet(Holders)' /\ Lined'
  BY <1>1, EndedEffect
<1>3. TypeOK' /\ Restarts'
  BY <1>1, <1>2, ParentKept
<1> QED BY <1>2, <1>3 DEF IInv

LEMMA ProcessStep ==
  ASSUME IInv, ProcessNext, UNCHANGED parentVars
  PROVE  IInv'
<1>1. CASE ReadRequest
  BY <1>1, ReadRequestStep
<1>2. CASE ReadQuarantine \/ ReadRestart
  BY <1>2, ReadCommandStep
<1>3. CASE Replace \/ RestartFails
  BY <1>3, ServiceReplacedStep
<1>4. ASSUME NEW r \in Requests,
             Enter(r) \/ Acquire(r) \/ PassBy(r) \/ Resume(r) \/ Answer(r) \/ NativeEnds(r)
      PROVE  IInv'
  BY <1>4, EnterStep, AcquireStep, PassByStep, ResumeStep, AnswerStep, NativeEndsStep
<1>5. CASE DrainEnds
  BY <1>5, DrainEndsStep
<1> QED BY <1>1, <1>2, <1>3, <1>4, <1>5 DEF ProcessNext, Serving

-----------------------------------------------------------------------------
(* The parent.                                                              *)

\* The process's part of the invariant, while only results are taken from it.
LEMMA ProcessRead ==
  ASSUME IInv, UNCHANGED <<cmds, work, free, waiters, blocked, loop, alive>>, results' \in Seq(Results),
         \A r \in Requests : call'[r] \in {"new", "admitted"} => call[r] \in {"new", "admitted"}
  PROVE  ProcessTypeOK' /\ SlotsExact' /\ IsFiniteSet(Holders)' /\ Lined' /\ Posted'
<1>1. ProcessTypeOK'
  BY DEF IInv, TypeOK, ProcessTypeOK
<1>2. SlotsExact' /\ IsFiniteSet(Holders)' /\ Lined'
  BY SlotsKept
<1>3. \A i \in DOMAIN cmds : cmds[i].kind = "request" => cmds[i].id \in Requests
  <2>1. \A i \in DOMAIN cmds : cmds[i] \in Commands
    BY DEF IInv, TypeOK, ProcessTypeOK
  <2> QED BY <2>1 DEF Commands
<1>4. \A i \in DOMAIN cmds : cmds[i].kind = "request" => call'[cmds[i].id] \notin {"new", "admitted"}
  BY <1>3 DEF IInv, Posted
<1>5. Posted'
  BY <1>4 DEF IInv, Posted
<1> QED BY <1>1, <1>2, <1>5

LEMMA ProcessStill ==
  ASSUME IInv, UNCHANGED procVars,
         \A r \in Requests : call'[r] \in {"new", "admitted"} => call[r] \in {"new", "admitted"}
  PROVE  ProcessTypeOK' /\ SlotsExact' /\ IsFiniteSet(Holders)' /\ Lined' /\ Posted'
<1>1. UNCHANGED <<cmds, results, work, free, waiters, blocked, loop, alive>>
  BY DEF procVars
<1>2. results' \in Seq(Results)
  BY <1>1 DEF IInv, TypeOK, ProcessTypeOK
<1> QED BY <1>1, <1>2, ProcessRead

\* The same, when a command that is no request may be put on the queue.
LEMMA ProcessCommanded ==
  ASSUME IInv, UNCHANGED <<results, work, free, waiters, blocked, loop, alive, call>>,
         NEW c \in Commands, c.kind # "request", Post(c)
  PROVE  ProcessTypeOK' /\ SlotsExact' /\ IsFiniteSet(Holders)' /\ Lined' /\ Posted'
<1>1. CASE ~alive
  <2>1. UNCHANGED procVars
    BY <1>1 DEF Post, procVars
  <2> QED BY <2>1, ProcessStill
<1>2. CASE alive
  <2>1. cmds' = Append(cmds, c) /\ cmds \in Seq(Commands)
    BY <1>2 DEF Post, IInv, TypeOK, ProcessTypeOK
  <2>2. /\ cmds' \in Seq(Commands)
        /\ \E n : /\ n \notin DOMAIN cmds /\ DOMAIN cmds' = DOMAIN cmds \cup {n}
                  /\ cmds'[n] = c /\ \A i \in DOMAIN cmds : cmds'[i] = cmds[i]
    BY <2>1, AppendOf
  <2>3. PICK n : /\ n \notin DOMAIN cmds /\ DOMAIN cmds' = DOMAIN cmds \cup {n}
                 /\ cmds'[n] = c /\ \A i \in DOMAIN cmds : cmds'[i] = cmds[i]
    BY <2>2
  <2>4. ProcessTypeOK'
    BY <2>2 DEF IInv, TypeOK, ProcessTypeOK
  <2>5. SlotsExact' /\ IsFiniteSet(Holders)' /\ Lined'
    BY SlotsKept
  <2>6. Posted'
    BY <2>3 DEF IInv, Posted
  <2> QED BY <2>4, <2>5, <2>6
<1> QED BY <1>1, <1>2

\* A restart goes on and keeps its service.
LEMMA RestartMoves ==
  ASSUME IInv, recovering \subseteq recovering',
         \A k \in Attempts :
           /\ restart'[k].service = restart[k].service
           /\ restart'[k].pc \notin {"unused", "over"} => restart[k].pc \notin {"unused", "over"}
  PROVE  Restarts'
<1>1. Recoveries \subseteq Attempts
  BY RecoveriesAssumption
<1> QED BY <1>1 DEF IInv, Restarts

Pcs == {"unused", "clear", "send", "await", "ready", "force", "finish", "over"}
Replies == {"none", "ok", "failed"}
Tries == [pc : Pcs, service : Services \cup {"none"}, reply : Replies]

LEMMA PcMoves ==
  ASSUME IInv, NEW k \in Attempts, NEW p \in Pcs, restart' = [restart EXCEPT ![k].pc = p],
         recovering \subseteq recovering', restart[k].pc \notin {"unused", "over"}
  PROVE  restart' \in [Attempts -> Tries] /\ Restarts'
<1>1. restart \in [Attempts -> Tries]
  BY DEF IInv, TypeOK, Tries, Pcs, Replies
<1>2. [restart[k] EXCEPT !.pc = p] \in Tries
  BY <1>1 DEF Tries
<1>3. restart' \in [Attempts -> Tries]
  BY <1>1, <1>2
<1>4. \A j \in Attempts : restart'[j].service = restart[j].service
  BY <1>1 DEF Tries
<1>5. \A j \in Attempts : j # k => restart'[j] = restart[j]
  BY <1>1
<1>6. Restarts'
  BY <1>4, <1>5, RestartMoves
<1> QED BY <1>3, <1>6

LEMMA RepliesMove ==
  ASSUME IInv, NEW K \in SUBSET Attempts, NEW f \in Replies, recovering \subseteq recovering',
         restart' = [k \in Attempts |-> IF k \in K THEN [restart[k] EXCEPT !.reply = f]
                                                   ELSE restart[k]]
  PROVE  restart' \in [Attempts -> Tries] /\ Restarts'
<1>1. restart \in [Attempts -> Tries]
  BY DEF IInv, TypeOK, Tries, Pcs, Replies
<1>2. \A k \in Attempts : [restart[k] EXCEPT !.reply = f] \in Tries
  BY <1>1 DEF Tries
<1>3. restart' \in [Attempts -> Tries]
  BY <1>1, <1>2
<1>4. \A k \in Attempts : restart'[k].service = restart[k].service /\ restart'[k].pc = restart[k].pc
  BY <1>1 DEF Tries
<1>5. Restarts'
  BY <1>4, RestartMoves
<1> QED BY <1>3, <1>5

\* An attempt begins for a service that no recovery has.
LEMMA Begins ==
  ASSUME IInv, NEW k \in Attempts, NEW s \in Services, Begin(k, s),
         \/ k \notin Recoveries /\ recovering' = recovering
         \/ k \in Recoveries /\ s \notin recovering /\ recovering' = recovering \cup {s}
  PROVE  restart' \in [Attempts -> Tries] /\ Restarts'
<1>1. restart \in [Attempts -> Tries] /\ Recoveries \subseteq Attempts
  BY RecoveriesAssumption DEF IInv, TypeOK, Tries, Pcs, Replies
<1>2. PICK b \in Tries : b.pc = "clear" /\ b.service = s /\ restart' = [restart EXCEPT ![k] = b]
  BY DEF Begin, NoAttempt, Tries, Pcs, Replies
<1>3. restart' \in [Attempts -> Tries] /\ restart'[k] = b /\ \A j \in Attempts : j # k => restart'[j] = restart[j]
  BY <1>1, <1>2
<1>4. \A j \in Attempts : restart'[j].pc \notin {"unused", "over"} => restart'[j].service \in Services
  BY <1>2, <1>3 DEF IInv, Restarts
<1>5. \A j \in Recoveries : restart'[j].service \in Services => restart'[j].service \in recovering'
  BY <1>1, <1>2, <1>3 DEF IInv, Restarts
<1>6. \A i, j \in Recoveries :
        restart'[i].service = restart'[j].service /\ restart'[i].service \in Services => i = j
  <2>1. CASE k \notin Recoveries
    BY <1>1, <1>3, <2>1 DEF IInv, Restarts
  <2>2. CASE k \in Recoveries /\ s \notin recovering
    <3>1. \A j \in Recoveries : restart[j].service # s
      BY <2>2 DEF IInv, Restarts
    <3> QED BY <1>1, <1>2, <1>3, <3>1 DEF IInv, Restarts
  <2> QED BY <2>1, <2>2
<1> QED BY <1>3, <1>4, <1>5, <1>6 DEF Restarts

\* The parent's types, put together.
LEMMA ParentTyped ==
  ASSUME ProcessTypeOK',
         call' \in [Requests -> Outcomes \cup {"new", "admitted", "pending"}],
         restart' \in [Attempts -> Tries],
         quarantined' \subseteq Services, ready' \subseteq Services, recovering' \subseteq Services,
         deadline' \in [todo : SUBSET Services, marked : SUBSET Services], reaped' \in BOOLEAN
  PROVE  TypeOK'
BY DEF TypeOK, Tries, Pcs, Replies

LEMMA ParentTypes ==
  ASSUME IInv
  PROVE  /\ call \in [Requests -> Outcomes \cup {"new", "admitted", "pending"}]
         /\ restart \in [Attempts -> Tries]
         /\ quarantined \subseteq Services /\ ready \subseteq Services /\ recovering \subseteq Services
         /\ deadline \in [todo : SUBSET Services, marked : SUBSET Services] /\ reaped \in BOOLEAN
BY DEF IInv, TypeOK, Tries, Pcs, Replies

-----------------------------------------------------------------------------
(* Calls and deadlines.                                                     *)

LEMMA AdmitStep ==
  ASSUME IInv, NEW r \in Requests, Admit(r)
  PROVE  IInv'
<1>1. PICK a \in {"admitted", "refused"} : call' = [call EXCEPT ![r] = a]
  BY DEF Admit
<1>2. call[r] = "new" /\ UNCHANGED <<procVars, restart, quarantined, ready, recovering, deadline, reaped>>
  BY DEF Admit
<1>3. call' \in [Requests -> Outcomes \cup {"new", "admitted", "pending"}]
  BY <1>1, ParentTypes DEF Outcomes
<1>4. \A q \in Requests : call'[q] \in {"new", "admitted"} => call[q] \in {"new", "admitted"}
  BY <1>1, <1>2, ParentTypes
<1>5. ProcessTypeOK' /\ SlotsExact' /\ IsFiniteSet(Holders)' /\ Lined' /\ Posted'
  BY <1>2, <1>4, ProcessStill
<1>6. TypeOK'
  BY <1>2, <1>3, <1>5, ParentTypes, ParentTyped
<1>7. Restarts'
  BY <1>2, RestartMoves
<1> QED BY <1>5, <1>6, <1>7 DEF IInv

LEMMA SendStep ==
  ASSUME IInv, NEW r \in Requests, Send(r)
  PROVE  IInv'
<1>1. /\ call[r] = "admitted" /\ call' = [call EXCEPT ![r] = "pending"]
      /\ UNCHANGED <<results, work, free, waiters, blocked, loop, alive,
                     restart, quarantined, ready, recovering, deadline, reaped>>
  BY DEF Send
<1>2. call' \in [Requests -> Outcomes \cup {"new", "admitted", "pending"}]
  BY <1>1, ParentTypes
<1>3. call'[r] = "pending" /\ \A q \in Requests : q # r => call'[q] = call[q]
  BY <1>1, ParentTypes
<1>4. PICK c \in Commands : /\ c.kind = "request" /\ c.id = r
                            /\ cmds' = IF alive THEN Append(cmds, c) ELSE cmds
  <2>1. Command("request", r, ServiceOf[r]) \in Commands
    BY ProcessAssumption DEF Command, Commands
  <2> QED BY <2>1 DEF Send, Post, Command
<1>5. ProcessTypeOK' /\ SlotsExact' /\ IsFiniteSet(Holders)' /\ Lined' /\ Posted'
  <2>1. CASE ~alive
    <3>1. UNCHANGED procVars
      BY <1>1, <1>4, <2>1 DEF procVars
    <3>2. \A q \in Requests : call'[q] \in {"new", "admitted"} => call[q] \in {"new", "admitted"}
      BY <1>3
    <3> QED BY <3>1, <3>2, ProcessStill
  <2>2. CASE alive
    <3>1. cmds' = Append(cmds, c) /\ cmds \in Seq(Commands)
      BY <1>4, <2>2 DEF IInv, TypeOK, ProcessTypeOK
    <3>2. /\ cmds' \in Seq(Commands)
          /\ \E n : /\ n \notin DOMAIN cmds /\ DOMAIN cmds' = DOMAIN cmds \cup {n}
                    /\ cmds'[n] = c /\ \A i \in DOMAIN cmds : cmds'[i] = cmds[i]
      BY <3>1, AppendOf
    <3>3. PICK n : /\ n \notin DOMAIN cmds /\ DOMAIN cmds' = DOMAIN cmds \cup {n}
                   /\ cmds'[n] = c /\ \A i \in DOMAIN cmds : cmds'[i] = cmds[i]
      BY <3>2
    <3>4. ProcessTypeOK'
      BY <1>1, <3>2 DEF IInv, TypeOK, ProcessTypeOK
    <3>5. SlotsExact' /\ IsFiniteSet(Holders)' /\ Lined'
      BY <1>1, SlotsKept
    <3>6. work[r] = "none" /\ \A i \in DOMAIN cmds : cmds[i].kind = "request" => cmds[i].id # r
      BY <1>1 DEF IInv, Posted
    <3>7. \A i \in DOMAIN cmds : cmds[i].kind = "request" => cmds[i].id \in Requests
      <4>1. \A i \in DOMAIN cmds : cmds[i] \in Commands
        BY <3>1
      <4> QED BY <4>1 DEF Commands
    <3>8. \A q \in Requests : call'[q] \in {"new", "admitted"} => work'[q] = "none"
      BY <1>1, <1>3 DEF IInv, Posted
    <3>9. \A i \in DOMAIN cmds' : cmds'[i].kind = "request" =>
            work'[cmds'[i].id] = "none" /\ call'[cmds'[i].id] \notin {"new", "admitted"}
      BY <1>1, <1>3, <1>4, <3>3, <3>6, <3>7 DEF IInv, Posted
    <3>10. \A i, j \in DOMAIN cmds' :
             cmds'[i].kind = "request" /\ cmds'[j].kind = "request" /\ cmds'[i].id = cmds'[j].id => i = j
      BY <1>4, <3>3, <3>6 DEF IInv, Posted
    <3>11. Posted'
      BY <3>8, <3>9, <3>10 DEF Posted
    <3> QED BY <3>4, <3>5, <3>11
  <2> QED BY <2>1, <2>2
<1>6. TypeOK'
  BY <1>1, <1>2, <1>5, ParentTypes, ParentTyped
<1>7. Restarts'
  BY <1>1, RestartMoves
<1> QED BY <1>5, <1>6, <1>7 DEF IInv

LEMMA SweepStep ==
  ASSUME IInv, NEW D \in SUBSET Due, Sweep(D)
  PROVE  IInv'
<1>1. /\ UNCHANGED <<procVars, quarantined, ready, recovering, reaped>>
      /\ call' = [r \in Requests |-> IF r \in D THEN "timeout" ELSE call[r]]
      /\ deadline' = [deadline EXCEPT !.todo = {ServiceDue(d) : d \in D}]
  BY DEF Sweep
<1>2. PICK K \in SUBSET Attempts : K = D \cap Attempts
  OBVIOUS
<1>3. restart' = [k \in Attempts |-> IF k \in K THEN [restart[k] EXCEPT !.reply = "failed"]
                                                ELSE restart[k]]
  BY <1>2 DEF Sweep
<1>4. restart' \in [Attempts -> Tries] /\ Restarts'
  BY <1>1, <1>3, RepliesMove DEF Replies
<1>5. call' \in [Requests -> Outcomes \cup {"new", "admitted", "pending"}]
  BY <1>1, ParentTypes DEF Outcomes
<1>6. ASSUME NEW d \in D
      PROVE  ServiceDue(d) \in Services
  <2>1. CASE d \in Requests
    BY <2>1, ProcessAssumption DEF ServiceDue
  <2>2. CASE d \notin Requests
    <3>1. d \in Attempts /\ restart[d].pc = "await"
      BY <2>2 DEF Due, Awaiting
    <3> QED BY <2>2, <3>1 DEF ServiceDue, IInv, Restarts
  <2> QED BY <2>1, <2>2
<1>7. deadline' \in [todo : SUBSET Services, marked : SUBSET Services]
  <2>1. PICK T \in SUBSET Services : deadline' = [deadline EXCEPT !.todo = T]
    BY <1>1, <1>6
  <2> QED BY <2>1, ParentTypes
<1>8. \A q \in Requests : call'[q] \in {"new", "admitted"} => call[q] \in {"new", "admitted"}
  BY <1>1
<1>9. ProcessTypeOK' /\ SlotsExact' /\ IsFiniteSet(Holders)' /\ Lined' /\ Posted'
  BY <1>1, <1>8, ProcessStill
<1>10. TypeOK'
  BY <1>1, <1>4, <1>5, <1>7, <1>9, ParentTypes, ParentTyped
<1> QED BY <1>4, <1>9, <1>10 DEF IInv

LEMMA MarkStep ==
  ASSUME IInv, NEW s \in Services, MarkQuarantined(s)
  PROVE  IInv'
<1>1. /\ UNCHANGED <<procVars, call, restart, ready, recovering, reaped>>
      /\ quarantined' = quarantined \cup {s} /\ deadline' = [deadline EXCEPT !.marked = {s}]
  BY DEF MarkQuarantined
<1>2. quarantined' \subseteq Services /\ deadline' \in [todo : SUBSET Services, marked : SUBSET Services]
  BY <1>1, ParentTypes
<1>3. ProcessTypeOK' /\ SlotsExact' /\ IsFiniteSet(Holders)' /\ Lined' /\ Posted'
  BY <1>1, ProcessStill
<1>4. TypeOK'
  BY <1>1, <1>2, <1>3, ParentTypes, ParentTyped
<1>5. Restarts'
  BY <1>1, RestartMoves
<1> QED BY <1>3, <1>4, <1>5 DEF IInv

LEMMA QuarantineStep ==
  ASSUME IInv, NEW s \in Services, Quarantine(s)
  PROVE  IInv'
<1>1. /\ UNCHANGED <<results, work, free, waiters, blocked, loop, alive, call, quarantined, reaped>>
      /\ deadline' = [todo |-> deadline.todo \ {s}, marked |-> {}] /\ ready' = ready \ {s}
  BY DEF Quarantine
<1>2. ready' \subseteq Services /\ deadline' \in [todo : SUBSET Services, marked : SUBSET Services]
  BY <1>1, ParentTypes
<1>3. PICK c \in Commands : c.kind # "request" /\ Post(c)
  <2>1. Command("quarantine", "none", s) \in Commands /\ Command("quarantine", "none", s).kind # "request"
    BY DEF Command, Commands
  <2> QED BY <2>1 DEF Quarantine
<1>4. ProcessTypeOK' /\ SlotsExact' /\ IsFiniteSet(Holders)' /\ Lined' /\ Posted'
  BY <1>1, <1>3, ProcessCommanded
<1>5. restart' \in [Attempts -> Tries] /\ recovering' \subseteq Services /\ Restarts'
  <2>1. CASE Schedulable(s) /\ recovering' = recovering \cup {s} /\ \E k \in Fresh : Begin(k, s)
    <3>1. PICK k \in Fresh : Begin(k, s) /\ recovering' = recovering \cup {s}
      BY <2>1
    <3>2. k \in Recoveries /\ k \in Attempts /\ s \notin recovering
      BY <2>1, RecoveriesAssumption DEF Fresh, Schedulable
    <3> QED BY <3>1, <3>2, Begins, ParentTypes
  <2>2. CASE UNCHANGED <<recovering, restart>>
    BY <2>2, RestartMoves, ParentTypes
  <2> QED BY <2>1, <2>2 DEF Quarantine
<1>6. TypeOK'
  BY <1>1, <1>2, <1>4, <1>5, ParentTypes, ParentTyped
<1> QED BY <1>4, <1>5, <1>6 DEF IInv

-----------------------------------------------------------------------------
(* Restarts.                                                                *)

LEMMA AskRestartStep ==
  ASSUME IInv, NEW k \in Attempts, NEW s \in Services, AskRestart(k, s)
  PROVE  IInv'
<1>1. /\ UNCHANGED <<procVars, call, quarantined, ready, recovering, deadline, reaped>>
      /\ k \notin Recoveries /\ Begin(k, s)
  BY DEF AskRestart
<1>2. restart' \in [Attempts -> Tries] /\ Restarts'
  BY <1>1, Begins
<1>3. ProcessTypeOK' /\ SlotsExact' /\ IsFiniteSet(Holders)' /\ Lined' /\ Posted'
  BY <1>1, ProcessStill
<1>4. TypeOK'
  BY <1>1, <1>2, <1>3, ParentTypes, ParentTyped
<1> QED BY <1>2, <1>3, <1>4 DEF IInv

\* A step of an attempt that only the parent sees.
LEMMA AttemptGoesOn ==
  ASSUME IInv, NEW k \in Attempts, NEW p \in Pcs, restart' = [restart EXCEPT ![k].pc = p],
         restart[k].pc \notin {"unused", "over"}, quarantined' \subseteq Services, ready' \subseteq Services,
         UNCHANGED <<procVars, call, recovering, deadline, reaped>>
  PROVE  IInv'
<1>1. restart' \in [Attempts -> Tries] /\ Restarts'
  BY PcMoves
<1>2. ProcessTypeOK' /\ SlotsExact' /\ IsFiniteSet(Holders)' /\ Lined' /\ Posted'
  BY ProcessStill
<1>3. TypeOK'
  BY <1>1, <1>2, ParentTypes, ParentTyped
<1> QED BY <1>1, <1>2, <1>3 DEF IInv

LEMMA ClearReadyStep ==
  ASSUME IInv, NEW k \in Attempts, ClearReady(k)
  PROVE  IInv'
<1>1. quarantined' \subseteq Services /\ ready' \subseteq Services
  BY ParentTypes DEF ClearReady
<1> QED BY <1>1, AttemptGoesOn DEF ClearReady, Pcs

LEMMA AwaitReplyStep ==
  ASSUME IInv, NEW k \in Attempts, AwaitReply(k)
  PROVE  IInv'
<1>1. quarantined' \subseteq Services /\ ready' \subseteq Services
  BY ParentTypes DEF AwaitReply
<1>2. PICK p \in Pcs : restart' = [restart EXCEPT ![k].pc = p]
  BY DEF AwaitReply, Failed, Pcs
<1> QED BY <1>1, <1>2, AttemptGoesOn DEF AwaitReply

LEMMA AwaitReadyStep ==
  ASSUME IInv, NEW k \in Attempts, AwaitReady(k)
  PROVE  IInv'
<1>1. quarantined' \subseteq Services /\ ready' \subseteq Services
  BY ParentTypes DEF AwaitReady
<1>2. PICK p \in Pcs : restart' = [restart EXCEPT ![k].pc = p]
  BY DEF AwaitReady, Failed, Pcs
<1> QED BY <1>1, <1>2, AttemptGoesOn DEF AwaitReady

LEMMA SendRestartStep ==
  ASSUME IInv, NEW k \in Attempts, SendRestart(k)
  PROVE  IInv'
<1>1. /\ UNCHANGED <<results, work, free, waiters, blocked, loop, alive,
                     call, quarantined, ready, recovering, deadline, reaped>>
      /\ restart[k].pc = "send" /\ restart' = [restart EXCEPT ![k].pc = "await"]
  BY DEF SendRestart
<1>2. PICK c \in Commands : c.kind # "request" /\ Post(c)
  <2>1. restart[k].service \in Services
    BY <1>1 DEF IInv, Restarts
  <2>2. /\ Command("restart", k, restart[k].service) \in Commands
        /\ Command("restart", k, restart[k].service).kind # "request"
    BY <2>1 DEF Command, Commands
  <2> QED BY <2>2 DEF SendRestart
<1>3. restart' \in [Attempts -> Tries] /\ Restarts'
  BY <1>1, PcMoves DEF Pcs
<1>4. ProcessTypeOK' /\ SlotsExact' /\ IsFiniteSet(Holders)' /\ Lined' /\ Posted'
  BY <1>1, <1>2, ProcessCommanded
<1>5. TypeOK'
  BY <1>1, <1>3, <1>4, ParentTypes, ParentTyped
<1> QED BY <1>3, <1>4, <1>5 DEF IInv

LEMMA ForceStep ==
  ASSUME IInv, NEW k \in Attempts, ForceRestart(k)
  PROVE  IInv'
<1>1. /\ UNCHANGED <<call, quarantined, ready, recovering, deadline, reaped>>
      /\ restart[k].pc = "force" /\ restart' = [restart EXCEPT ![k].pc = "finish"]
  BY DEF ForceRestart
<1>2. restart' \in [Attempts -> Tries] /\ Restarts'
  BY <1>1, PcMoves DEF Pcs
<1>3. ProcessTypeOK' /\ SlotsExact' /\ IsFiniteSet(Holders)' /\ Lined' /\ Posted'
  <2>1. CASE alive
    BY <1>1, <2>1, EndedEffect DEF ForceRestart
  <2>2. CASE ~alive
    BY <1>1, <2>2, ProcessStill DEF ForceRestart
  <2> QED BY <2>1, <2>2
<1>4. TypeOK'
  BY <1>1, <1>2, <1>3, ParentTypes, ParentTyped
<1> QED BY <1>2, <1>3, <1>4 DEF IInv

LEMMA FinishStep ==
  ASSUME IInv, NEW k \in Attempts, FinishRestart(k)
  PROVE  IInv'
<1>1. /\ UNCHANGED <<procVars, call, quarantined, ready, deadline, reaped>>
      /\ restart[k].pc = "finish"
  BY DEF FinishRestart
<1>2. restart' \in [Attempts -> Tries] /\ recovering' \subseteq Services /\ Restarts'
  <2>1. CASE k \notin Recoveries
    <3>1. restart' = [restart EXCEPT ![k].pc = "over"] /\ UNCHANGED recovering
      BY <2>1 DEF FinishRestart
    <3> QED BY <1>1, <3>1, PcMoves, ParentTypes DEF Pcs
  <2>2. CASE k \in Recoveries
    <3>1. restart' = [restart EXCEPT ![k] = NoAttempt] /\ recovering' = recovering \ {restart[k].service}
      BY <2>2 DEF FinishRestart
    <3>2. PICK b \in Tries : b = NoAttempt /\ b.service = "none" /\ b.pc = "unused"
      <4>1. NoAttempt \in Tries /\ NoAttempt.service = "none" /\ NoAttempt.pc = "unused"
        BY DEF NoAttempt, Tries, Pcs, Replies
      <4> QED BY <4>1
    <3>3. /\ restart' \in [Attempts -> Tries] /\ restart'[k] = b
          /\ \A j \in Attempts : j # k => restart'[j] = restart[j]
      BY <3>1, <3>2, ParentTypes
    <3>4. "none" \notin Services /\ Recoveries \subseteq Attempts /\ restart[k].service \in Services
      BY <1>1, ProcessAssumption, RecoveriesAssumption DEF IInv, Restarts
    <3>5. \A j \in Recoveries : restart'[j].service \in Services =>
             j # k /\ restart'[j] = restart[j] /\ restart[j].service # restart[k].service
      BY <2>2, <3>2, <3>3, <3>4 DEF IInv, Restarts
    <3>6. Restarts'
      BY <3>1, <3>2, <3>3, <3>4, <3>5 DEF IInv, Restarts
    <3> QED BY <3>1, <3>3, <3>6, ParentTypes
  <2> QED BY <2>1, <2>2
<1>3. ProcessTypeOK' /\ SlotsExact' /\ IsFiniteSet(Holders)' /\ Lined' /\ Posted'
  BY <1>1, ProcessStill
<1>4. TypeOK'
  BY <1>1, <1>2, <1>3, ParentTypes, ParentTyped
<1> QED BY <1>2, <1>3, <1>4 DEF IInv

-----------------------------------------------------------------------------
(* Results and the end.                                                     *)

LEMMA DeliverEffect ==
  ASSUME IInv, NEW q \in Requests, NEW ok \in BOOLEAN, Deliver(q, ok)
  PROVE  /\ call' \in [Requests -> Outcomes \cup {"new", "admitted", "pending"}]
         /\ \A r \in Requests : call[r] # "pending" => call'[r] = call[r]
         /\ \A r \in Requests : call'[r] \in {"new", "admitted"} => call[r] \in {"new", "admitted"}
<1>1. PICK f \in {"ok", "failed"} : call' = IF call[q] = "pending" THEN [call EXCEPT ![q] = f] ELSE call
  BY DEF Deliver
<1>2. CASE call[q] = "pending"
  <2>1. call' = [call EXCEPT ![q] = f]
    BY <1>1, <1>2
  <2>2. call' \in [Requests -> Outcomes \cup {"new", "admitted", "pending"}]
    BY <2>1, ParentTypes DEF Outcomes
  <2>3. call'[q] = f /\ \A r \in Requests : r # q => call'[r] = call[r]
    BY <2>1, ParentTypes
  <2> QED BY <1>2, <2>2, <2>3
<1>3. CASE call[q] # "pending"
  BY <1>1, <1>3, ParentTypes
<1> QED BY <1>2, <1>3

LEMMA ReadResultStep ==
  ASSUME IInv, ReadResult
  PROVE  IInv'
<1>1. /\ UNCHANGED <<cmds, work, free, waiters, blocked, loop, alive,
                     quarantined, recovering, deadline, reaped>>
      /\ results # <<>> /\ results' = Tail(results)
  BY DEF ReadResult
<1>2. PICK m \in Results : m = Head(results) /\ results' \in Seq(Results)
  BY <1>1, TailOf DEF IInv, TypeOK, ProcessTypeOK
<1>3. /\ call' \in [Requests -> Outcomes \cup {"new", "admitted", "pending"}]
      /\ \A r \in Requests : call'[r] \in {"new", "admitted"} => call[r] \in {"new", "admitted"}
      /\ ready' \subseteq Services /\ restart' \in [Attempts -> Tries] /\ Restarts'
  <2>1. CASE m.kind = "ready" /\ ready' = ready \cup {m.service} /\ UNCHANGED <<call, restart>>
    <3>1. m.service \in Services
      BY <1>2, <2>1 DEF Results
    <3>2. Restarts'
      BY <1>1, <2>1, RestartMoves
    <3> QED BY <2>1, <3>1, <3>2, ParentTypes
  <2>2. CASE /\ m.kind = "response" /\ m.id \in Requests /\ Deliver(m.id, m.ok)
             /\ UNCHANGED <<ready, restart>>
    <3>1. m.ok \in BOOLEAN
      BY <1>2, <2>2 DEF Results
    <3>2. Restarts'
      BY <1>1, <2>2, RestartMoves
    <3> QED BY <2>2, <3>1, <3>2, DeliverEffect, ParentTypes
  <2>3. CASE /\ m.kind = "response" /\ m.id \in Attempts /\ UNCHANGED <<ready, call>>
             /\ restart' = IF Awaiting(m.id)
                           THEN [restart EXCEPT ![m.id].reply = IF m.ok THEN "ok" ELSE "failed"]
                           ELSE restart
    <3>1. PICK k \in Attempts, f \in Replies :
            restart' = [restart EXCEPT ![k].reply = f] \/ restart' = restart
      BY <2>3 DEF Replies
    <3>2. CASE restart' = [restart EXCEPT ![k].reply = f]
      <4>1. restart' = [j \in Attempts |-> IF j \in {k} THEN [restart[j] EXCEPT !.reply = f]
                                                       ELSE restart[j]]
        BY <3>2, ParentTypes
      <4>2. restart' \in [Attempts -> Tries] /\ Restarts'
        BY <1>1, <4>1, RepliesMove
      <4> QED BY <2>3, <4>2, ParentTypes
    <3>3. CASE restart' = restart
      <4>1. Restarts'
        BY <1>1, <3>3, RestartMoves
      <4> QED BY <2>3, <3>3, <4>1, ParentTypes
    <3> QED BY <3>1, <3>2, <3>3
  <2> QED BY <1>2, <2>1, <2>2, <2>3 DEF ReadResult
<1>4. ProcessTypeOK' /\ SlotsExact' /\ IsFiniteSet(Holders)' /\ Lined' /\ Posted'
  BY <1>1, <1>2, <1>3, ProcessRead
<1>5. TypeOK'
  BY <1>1, <1>3, <1>4, ParentTypes, ParentTyped
<1> QED BY <1>3, <1>4, <1>5 DEF IInv

LEMMA FailPendingStep ==
  ASSUME IInv, FailPending
  PROVE  IInv'
<1>1. /\ UNCHANGED <<procVars, quarantined, recovering, deadline>> /\ reaped' = TRUE /\ ready' = {}
      /\ call' = [r \in Requests |-> IF call[r] = "pending" THEN "failed" ELSE call[r]]
  BY DEF FailPending
<1>2. PICK K \in SUBSET Attempts : K = {k \in Attempts : Awaiting(k)}
  OBVIOUS
<1>3. restart' = [k \in Attempts |-> IF k \in K THEN [restart[k] EXCEPT !.reply = "failed"]
                                                ELSE restart[k]]
  BY <1>2 DEF FailPending
<1>4. restart' \in [Attempts -> Tries] /\ Restarts'
  BY <1>1, <1>3, RepliesMove DEF Replies
<1>5. /\ call' \in [Requests -> Outcomes \cup {"new", "admitted", "pending"}]
      /\ \A r \in Requests : call'[r] \in {"new", "admitted"} => call[r] \in {"new", "admitted"}
  BY <1>1, ParentTypes DEF Outcomes
<1>6. ProcessTypeOK' /\ SlotsExact' /\ IsFiniteSet(Holders)' /\ Lined' /\ Posted'
  BY <1>1, <1>5, ProcessStill
<1>7. TypeOK'
  BY <1>1, <1>4, <1>5, <1>6, ParentTypes, ParentTyped
<1> QED BY <1>4, <1>6, <1>7 DEF IInv

-----------------------------------------------------------------------------
(* The theorems.                                                            *)

LEMMA Initially == Init => IInv
<1> SUFFICES ASSUME Init PROVE IInv
  OBVIOUS
<1>1. /\ ProcessInit /\ quarantined = {} /\ ready = Services /\ recovering = {}
      /\ deadline = Waiting /\ reaped = FALSE
  BY DEF Init
<1>2. PICK p \in Plans :
        /\ call = [r \in Requests |-> IF r \in p.asked THEN "new" ELSE "refused"]
        /\ restart = [k \in Attempts |->
              IF k \in p.tried THEN NoAttempt ELSE [NoAttempt EXCEPT !.pc = "over"]]
  BY DEF Init
<1>3. ProcessTypeOK
  <2>1. /\ cmds \in Seq(Commands) /\ results \in Seq(Results) /\ waiters \in Seq(Requests)
        /\ free \in 0..Slots
    BY <1>1, ProcessAssumption DEF ProcessInit
  <2> QED BY <1>1, <2>1 DEF ProcessInit, ProcessTypeOK
<1>4. \A k \in Attempts : /\ restart[k] \in Tries /\ restart[k].service = "none"
                          /\ restart[k].pc \in {"unused", "over"}
  BY <1>2 DEF NoAttempt, Tries, Pcs, Replies
<1>5. restart \in [Attempts -> Tries]
  BY <1>2, <1>4
<1>6. TypeOK
  <2>1. call \in [Requests -> Outcomes \cup {"new", "admitted", "pending"}]
    BY <1>2 DEF Outcomes
  <2>2. deadline \in [todo : SUBSET Services, marked : SUBSET Services]
    BY <1>1 DEF Waiting
  <2> QED BY <1>1, <1>3, <1>5, <2>1, <2>2 DEF TypeOK, Tries, Pcs, Replies
<1>7. Holders = {} /\ {r \in Requests : work[r] = "queued"} = {}
  BY <1>1 DEF ProcessInit, Holders, Holding
<1>8. IsFiniteSet(Holders) /\ Cardinality(Holders) = 0
  BY <1>7, FS_EmptySet
<1>9. waiters = <<>> /\ free = Slots /\ DOMAIN waiters = {} /\ ToSet(waiters) = {}
  BY <1>1 DEF ProcessInit, ToSet
<1>10. SlotsExact
  <2>1. free + Cardinality(Holders) = Slots
    BY <1>8, <1>9, ProcessAssumption
  <2> QED BY <1>7, <1>9, <2>1 DEF SlotsExact, Holders
<1>11. Posted
  <2>1. DOMAIN cmds = {} /\ \A r \in Requests : work[r] = "none"
    BY <1>1 DEF ProcessInit
  <2> QED BY <2>1 DEF Posted
<1>12. Restarts
  <2>1. Recoveries \subseteq Attempts /\ "none" \notin Services
    BY ProcessAssumption, RecoveriesAssumption
  <2> QED BY <1>4, <2>1 DEF Restarts
<1> QED BY <1>6, <1>8, <1>9, <1>10, <1>11, <1>12 DEF IInv, Lined

LEMMA Stutter ==
  ASSUME IInv, UNCHANGED vars
  PROVE  IInv'
<1>1. UNCHANGED procVars /\ UNCHANGED parentVars /\ UNCHANGED call
  BY DEF vars, parentVars
<1>2. ProcessTypeOK' /\ SlotsExact' /\ IsFiniteSet(Holders)' /\ Lined' /\ Posted'
  BY <1>1, ProcessStill
<1>3. TypeOK' /\ Restarts'
  BY <1>1, <1>2, ParentKept
<1> QED BY <1>2, <1>3 DEF IInv

LEMMA Inductive == IInv /\ [Next]_vars => IInv'
<1> SUFFICES ASSUME IInv, [Next]_vars
             PROVE  IInv'
  OBVIOUS
<1>1. CASE ProcessNext /\ UNCHANGED parentVars
  BY <1>1, ProcessStep
<1>2. ASSUME NEW r \in Requests, Admit(r) \/ Send(r)
      PROVE  IInv'
  BY <1>2, AdmitStep, SendStep
<1>3. CASE Expiring
  BY <1>3, SweepStep, MarkStep, QuarantineStep DEF Expiring
<1>4. ASSUME NEW k \in Attempts, NEW s \in Services, AskRestart(k, s)
      PROVE  IInv'
  BY <1>4, AskRestartStep
<1>5. ASSUME NEW k \in Attempts, Restarting(k)
      PROVE  IInv'
  BY <1>5, ClearReadyStep, SendRestartStep, AwaitReplyStep, AwaitReadyStep, ForceStep, FinishStep
     DEF Restarting
<1>6. CASE ReadResult \/ Die \/ FailPending
  BY <1>6, ReadResultStep, DieStep, FailPendingStep
<1>7. CASE UNCHANGED vars
  BY <1>7, Stutter
<1> QED BY <1>1, <1>2, <1>3, <1>4, <1>5, <1>6, <1>7 DEF Next

\* The invariant the theorems rest on, of _Worker's threads, the child's loop and its tasks.
THEOREM Invariance == Spec => []IInv
BY Initially, Inductive, PTL DEF Spec

LEMMA RecoveriesApart == IInv => OneRecovery
<1> SUFFICES ASSUME IInv, NEW s \in Services
             PROVE  Cardinality({k \in Recoveries : restart[k].service = s}) <= 1
  BY DEF OneRecovery
<1> DEFINE K == {k \in Recoveries : restart[k].service = s}
<1>1. CASE K = {}
  <2>1. Cardinality(K) = 0
    BY <1>1, FS_EmptySet
  <2> HIDE DEF K
  <2>2. Cardinality(K) <= 1
    BY <2>1
  <2> QED BY <2>2 DEF K
<1>2. CASE K # {}
  <2>1. PICK k : k \in K
    BY <1>2
  <2>2. K = {k}
    BY <2>1 DEF IInv, Restarts
  <2> HIDE DEF K
  <2>3. Cardinality(K) = 1
    BY <2>2, FS_Singleton
  <2>4. Cardinality(K) <= 1
    BY <2>3
  <2> QED BY <2>4 DEF K
<1> QED BY <1>1, <1>2

\* The state of both processes is well typed, and a timed out service has one recovery at
\* a time, however its calls expire (_schedule_service_recovery, recovering_services).
THEOREM OneRecoveryEach == Spec => []Inv
<1>1. IInv => Inv
  BY RecoveriesApart DEF IInv, Inv
<1> QED BY <1>1, Invariance, PTL

\* PriorityScheduler's slots are neither lost nor lent twice, and none is free while a
\* request waits: an exit hands its slot to the waiter it picks.
THEOREM SlotsAreExact == Spec => []SlotsExact
<1>1. IInv => SlotsExact
  BY DEF IInv
<1> QED BY <1>1, Invariance, PTL

LEMMA SettledStays ==
  ASSUME IInv, [Next]_vars, NEW r \in Requests, call[r] \in Outcomes
  PROVE  call'[r] = call[r]
<1>1. call[r] \notin {"new", "admitted", "pending"}
  BY DEF Outcomes
<1>2. CASE UNCHANGED call
  BY <1>2
<1>3. ASSUME NEW q \in Requests, Admit(q) \/ Send(q)
      PROVE  call'[r] = call[r]
  <2>1. q # r
    BY <1>1, <1>3 DEF Admit, Send
  <2>2. PICK a : call' = [call EXCEPT ![q] = a]
    BY <1>3 DEF Admit, Send
  <2> QED BY <2>1, <2>2, ParentTypes
<1>4. ASSUME NEW D \in SUBSET Due, Sweep(D)
      PROVE  call'[r] = call[r]
  <2>1. r \notin D
    BY <1>1, ProcessAssumption DEF Due
  <2> QED BY <1>4, <2>1 DEF Sweep
<1>5. CASE ReadResult
  <2>1. results # <<>> /\ \/ UNCHANGED call
                          \/ Head(results).id \in Requests /\ Deliver(Head(results).id, Head(results).ok)
    BY <1>5 DEF ReadResult
  <2>2. Deliver(Head(results).id, Head(results).ok) =>
          call' = call \/ (call[Head(results).id] = "pending"
                           /\ \E f : call' = [call EXCEPT ![Head(results).id] = f])
    BY DEF Deliver
  <2> QED BY <1>1, <2>1, <2>2, ParentTypes
<1>6. CASE FailPending
  BY <1>1, <1>6 DEF FailPending
<1>7. CASE Die \/ (ProcessNext /\ UNCHANGED parentVars) \/ UNCHANGED vars
  BY <1>2, <1>7 DEF Die, parentVars, vars
<1>8. ASSUME NEW s \in Services, MarkQuarantined(s) \/ Quarantine(s)
      PROVE  call'[r] = call[r]
  BY <1>8 DEF MarkQuarantined, Quarantine
<1>9. ASSUME NEW k \in Attempts, NEW s \in Services, AskRestart(k, s)
      PROVE  call'[r] = call[r]
  BY <1>9 DEF AskRestart
<1>10. ASSUME NEW k \in Attempts, Restarting(k)
       PROVE  call'[r] = call[r]
  BY <1>10 DEF Restarting, ClearReady, SendRestart, AwaitReply, AwaitReady, ForceRestart, FinishRestart
<1> QED BY <1>3, <1>4, <1>5, <1>6, <1>7, <1>8, <1>9, <1>10 DEF Next, Expiring

\* The future of a call is settled once: an answer after its deadline, a second reader or
\* the end of the process changes nothing (pending.pop, _fail_pending).
THEOREM CallSettledOnce == Spec => SettledOnce
<1>1. IInv /\ [Next]_vars => [\A r \in Requests : call[r] \in Outcomes => call'[r] = call[r]]_vars
  BY SettledStays
<1> QED BY <1>1, Invariance, PTL DEF Spec, SettledOnce

-----------------------------------------------------------------------------
(* The replacement of a service.                                            *)

\* The tasks a drain waits for are all the service has: none begins before it is over.
DrainCovers ==
  /\ loop.pc # "read" => Ongoing(loop.service) \subseteq loop.tasks
  /\ loop.pc = "swap" => Drained

\* A task that goes on is under way already.
LEMMA TaskGoesOn ==
  ASSUME IInv, NEW r \in Requests,
         Enter(r) \/ Acquire(r) \/ PassBy(r) \/ Resume(r) \/ Answer(r) \/ NativeEnds(r)
  PROVE  loop' = loop /\ Inflight' \subseteq Inflight
<1>1. CASE Enter(r) \/ Acquire(r) \/ PassBy(r) \/ Resume(r) \/ Answer(r)
  <2>1. work[r] \in InTask /\ loop' = loop /\ \E p : Task(r, p)
    BY <1>1 DEF Enter, Acquire, PassBy, Resume, Answer, InTask, Holding
  <2>2. \A q \in Requests : work'[q] = work[q] \/ q = r
    BY <2>1 DEF Task, IInv, TypeOK, ProcessTypeOK
  <2> QED BY <2>1, <2>2 DEF Inflight
<1>2. CASE NativeEnds(r)
  <2>1. work[r] \in InTask /\ loop' = loop
    BY <1>2 DEF NativeEnds, InTask, Holding
  <2>2. CASE waiters = <<>>
    <3>1. work' = [work EXCEPT ![r] = "answering"]
      BY <1>2, <2>2 DEF NativeEnds, Task
    <3>2. \A q \in Requests : work'[q] = work[q] \/ q = r
      BY <3>1 DEF IInv, TypeOK, ProcessTypeOK
    <3> QED BY <2>1, <3>2 DEF Inflight
  <2>3. CASE waiters # <<>>
    <3>1. PICK w \in ToSet(waiters) :
            work' = [work EXCEPT ![r] = "answering", ![w] = "granted"]
      BY <1>2, <2>3, BestWaits DEF NativeEnds, ToSet
    <3>2. work[w] = "queued"
      BY DEF IInv, SlotsExact
    <3>3. \A q \in Requests : work'[q] = work[q] \/ q = r \/ q = w
      BY <3>1 DEF IInv, TypeOK, ProcessTypeOK
    <3> QED BY <2>1, <3>2, <3>3 DEF Inflight, InTask
  <2> QED BY <2>2, <2>3
<1> QED BY <1>1, <1>2

\* While a service is restarted, its tasks only end.
LEMMA RestartUndisturbed ==
  ASSUME IInv, [Next]_vars, loop.pc # "read"
  PROVE  \/ loop' = Reading
         \/ DrainEnds
         \/ loop' = loop /\ Inflight' \subseteq Inflight
<1>1. UNCHANGED <<loop, work>> => loop' = loop /\ Inflight' \subseteq Inflight
  BY DEF Inflight
<1>2. Ended => loop' = Reading
  BY DEF Ended
<1>3. UNCHANGED procVars => UNCHANGED <<loop, work>>
  BY DEF procVars
<1>4. CASE ProcessNext
  <2>1. ~ReadRequest /\ ~ReadQuarantine /\ ~ReadRestart
    BY DEF ReadRequest, ReadQuarantine, ReadRestart, Read
  <2>2. Replace \/ RestartFails => loop' = Reading
    BY DEF Replace, RestartFails
  <2> QED BY <1>4, <2>1, <2>2, TaskGoesOn DEF ProcessNext, Serving
<1>5. ASSUME NEW r \in Requests, Admit(r) \/ Send(r)
      PROVE  UNCHANGED <<loop, work>>
  BY <1>3, <1>5 DEF Admit, Send
<1>6. CASE Expiring
  <2>1. UNCHANGED <<loop, work>>
    BY <1>3, <1>6 DEF Expiring, Sweep, MarkQuarantined, Quarantine
  <2> QED BY <1>1, <2>1
<1>7. ASSUME NEW k \in Attempts, NEW t \in Services, AskRestart(k, t)
      PROVE  UNCHANGED <<loop, work>>
  BY <1>3, <1>7 DEF AskRestart
<1>8. ASSUME NEW k \in Attempts, Restarting(k)
      PROVE  UNCHANGED <<loop, work>> \/ Ended
  BY <1>3, <1>8 DEF Restarting, ClearReady, SendRestart, AwaitReply, AwaitReady, ForceRestart,
                    FinishRestart
<1>9. CASE ReadResult \/ Die \/ FailPending \/ UNCHANGED vars
  <2>1. UNCHANGED <<loop, work>> \/ Ended
    BY <1>3, <1>9 DEF ReadResult, Die, FailPending, vars
  <2> QED BY <1>1, <1>2, <2>1
<1> QED BY <1>1, <1>2, <1>4, <1>5, <1>6, <1>7, <1>8, <1>9 DEF Next

\* When nothing is restarted, only the restart command begins to.
LEMMA RestartBegins ==
  ASSUME IInv, [Next]_vars, loop.pc = "read"
  PROVE  loop'.pc = "read" \/ ReadRestart
<1>1. Reading.pc = "read"
  BY DEF Reading
<1>2. Ended => loop' = Reading
  BY DEF Ended
<1>3. UNCHANGED procVars => loop' = loop
  BY DEF procVars
<1>4. CASE ProcessNext
  <2>1. ReadRequest \/ ReadQuarantine => loop' = loop
    BY DEF ReadRequest, ReadQuarantine
  <2>2. ~DrainEnds /\ ~Replace /\ ~RestartFails
    BY DEF DrainEnds, Replace, RestartFails
  <2> QED BY <1>4, <2>1, <2>2, TaskGoesOn DEF ProcessNext, Serving
<1>5. ASSUME NEW r \in Requests, Admit(r) \/ Send(r)
      PROVE  loop' = loop
  BY <1>3, <1>5 DEF Admit, Send
<1>6. CASE Expiring
  BY <1>3, <1>6 DEF Expiring, Sweep, MarkQuarantined, Quarantine
<1>7. ASSUME NEW k \in Attempts, NEW t \in Services, AskRestart(k, t)
      PROVE  loop' = loop
  BY <1>3, <1>7 DEF AskRestart
<1>8. ASSUME NEW k \in Attempts, Restarting(k)
      PROVE  loop' = loop \/ Ended
  BY <1>3, <1>8 DEF Restarting, ClearReady, SendRestart, AwaitReply, AwaitReady, ForceRestart,
                    FinishRestart
<1>9. CASE ReadResult \/ Die \/ FailPending \/ UNCHANGED vars
  BY <1>1, <1>2, <1>3, <1>9 DEF ReadResult, Die, FailPending, vars
<1> QED BY <1>1, <1>2, <1>4, <1>5, <1>6, <1>7, <1>8, <1>9 DEF Next

LEMMA DrainCoversStep == IInv /\ DrainCovers /\ [Next]_vars => DrainCovers'
<1> SUFFICES ASSUME IInv, DrainCovers, [Next]_vars
             PROVE  DrainCovers'
  OBVIOUS
<1>1. CASE loop.pc = "read"
  <2>1. CASE loop'.pc = "read"
    BY <2>1 DEF DrainCovers
  <2>2. CASE ReadRestart
    <3>1. PICK c : loop' = Draining(c.id, c.service, Ongoing(c.service)) /\ work' = work
      BY <2>2 DEF ReadRestart
    <3>2. loop'.pc = "drain" /\ loop'.service = c.service /\ loop'.tasks = Ongoing(c.service)
      BY <3>1 DEF Draining
    <3>3. Ongoing(c.service)' = Ongoing(c.service)
      BY <3>1 DEF Ongoing, Inflight
    <3> QED BY <3>2, <3>3 DEF DrainCovers, Ongoing, Inflight
  <2> QED BY <1>1, <2>1, <2>2, RestartBegins
<1>2. CASE loop.pc # "read"
  <2>1. CASE loop' = Reading
    BY <2>1 DEF DrainCovers, Reading
  <2>2. CASE DrainEnds
    <3>1. loop \in Loops /\ loop' = [loop EXCEPT !.pc = "swap"] /\ work' = work /\ Drained
      BY <1>2, <2>2, Restarted DEF DrainEnds
    <3>2. loop'.service = loop.service /\ loop'.tasks = loop.tasks
      BY <3>1 DEF Loops
    <3> QED BY <1>2, <3>1, <3>2 DEF DrainCovers, Drained, Ongoing, Inflight
  <2>3. CASE loop' = loop /\ Inflight' \subseteq Inflight
    BY <1>2, <2>3 DEF DrainCovers, Drained, Ongoing
  <2> QED BY <1>2, <2>1, <2>2, <2>3, RestartUndisturbed
<1> QED BY <1>1, <1>2

\* The drain takes its snapshot of the service's tasks once, and still nobody is inside the
\* object while it is shut down and replaced (_drain_service, then _restart_service): the loop
\* that would create another task is the one that drains, and a task over stays over.
THEOREM ReplacedIdle == Spec => []ReplacedWhenIdle
<1>1. Init => DrainCovers
  BY DEF Init, ProcessInit, Reading, DrainCovers
<1>2. DrainCovers => ReplacedWhenIdle
  BY DEF DrainCovers, ReplacedWhenIdle, Drained, Ongoing, Inflight
<1> QED BY <1>1, <1>2, DrainCoversStep, Invariance, PTL DEF Spec
=============================================================================
