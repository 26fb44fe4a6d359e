------------------------------ MODULE MCAiWorker ------------------------------
(* Instances of AiWorker for TLC. *)
EXTENDS AiWorker

CONSTANTS q1, q2, q3, q4, tts, rag, k1, k2, m1

\* Calls of one service, and of one service with a call of another that shares the device.
OneService  == [r \in Requests |-> rag]
TwoServices == [r \in Requests |-> IF r = q4 THEN tts ELSE rag]

HotAndBulk == (q1 :> 0) @@ (q2 :> 3)
BulkAndTts == [r \in Requests |-> IF r = q4 THEN 2 ELSE 3]

Limits == [s \in Services |-> 2]

\* Every call and recoveries only, or one call and a restart by the user beside a recovery.
CallsOrUser == {[asked |-> Requests, tried |-> Recoveries],
                [asked |-> {q1}, tried |-> {k1, m1}]}

\* The calls of the one service differ in nothing but their names.
Bulk  == Requests \ {q4}
Alike == Permutations(Bulk)

\* A recovery under every bulk call, or under one beside the other service's; or two
\* beside it that nobody recovers.
Shared == {[asked |-> Bulk, tried |-> Recoveries]}
          \cup {[asked |-> {r, q4}, tried |-> Recoveries] : r \in Bulk}
          \cup {[asked |-> {r, t, q4}, tried |-> {}] : r, t \in Bulk}
=============================================================================
