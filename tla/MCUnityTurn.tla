---------------------------- MODULE MCUnityTurn ----------------------------
(* Instances of UnityTurn for TLC. *)
EXTENDS UnityTurn, TLC

Symmetry == Permutations(Messages) \cup Permutations(Retriers) \cup Permutations(Tasks)
=============================================================================
