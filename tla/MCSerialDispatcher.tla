-------------------------- MODULE MCSerialDispatcher --------------------------
(* Instances of SerialDispatcher for TLC. *)
EXTENDS SerialDispatcher, TLC

CONSTANTS p1, p2, l1, l2

\* One key, two keys that hash to one lane, and two that do not.
OneKey   == (p1 :> l1)
OneLane  == (p1 :> l1) @@ (p2 :> l1)
TwoLanes == (p1 :> l1) @@ (p2 :> l2)
=============================================================================
