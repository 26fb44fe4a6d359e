----------------------------- MODULE TurnLedger -----------------------------
(***************************************************************************)
(* What the outbox of Unity turns promises, without tasks, threads or files: *)
(* an accepted turn stays open until it has an answer, an answered turn is   *)
(* never opened again, and an entry leaves the ledger only when its answer   *)
(* reached the game's socket or when it was discarded on purpose (deleted by *)
(* the user, expired, or lost with a corrupt file).                          *)
(***************************************************************************)
CONSTANT Messages

VARIABLES ledger,     \* the state of each turn
          delivered,  \* turns whose answer a socket has accepted
          discarded

ledgerVars == <<ledger, delivered, discarded>>

Init == /\ ledger = [m \in Messages |-> "none"]
        /\ delivered = {}
        /\ discarded = {}

Open(m) == /\ ledger[m] = "none"
           /\ ledger' = [ledger EXCEPT ![m] = "open"]
           /\ UNCHANGED <<delivered, discarded>>

Answer(m) == /\ ledger[m] = "open"
             /\ ledger' = [ledger EXCEPT ![m] = "answered"]
             /\ UNCHANGED <<delivered, discarded>>

\* A turn that was never entered is settled by its delivery.
Deliver(m) == /\ delivered' = delivered \cup {m}
              /\ ledger' = IF ledger[m] = "none"
                           THEN [ledger EXCEPT ![m] = "settled"] ELSE ledger
              /\ UNCHANGED discarded

Settle(m) == /\ m \in delivered
             /\ ledger[m] \in {"open", "answered"}
             /\ ledger' = [ledger EXCEPT ![m] = "settled"]
             /\ UNCHANGED <<delivered, discarded>>

Discard(S) == /\ \A m \in S : ledger[m] \in {"open", "answered"}
              /\ ledger' = [m \in Messages |-> IF m \in S THEN "settled" ELSE ledger[m]]
              /\ discarded' = discarded \cup S
              /\ UNCHANGED delivered

Next == \/ \E m \in Messages : Open(m) \/ Answer(m) \/ Deliver(m) \/ Settle(m)
        \/ \E S \in SUBSET Messages : Discard(S)

Spec == Init /\ [][Next]_ledgerVars
=============================================================================
