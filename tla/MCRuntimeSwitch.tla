---------------------------- MODULE MCRuntimeSwitch ----------------------------
(* Instances of RuntimeSwitch for TLC. *)
EXTENDS RuntimeSwitch

CONSTANTS o1, o2, r1

Plan(x, y, crashes, survivals, exit) ==
  [kinds |-> [o \in Operations |-> IF o = o1 THEN x ELSE y],
   crashes |-> crashes, survivals |-> survivals, exit |-> exit,
   calls |-> IF y = "none" /\ crashes + survivals = 0 THEN Calls ELSE {r1}]

\* Two switches in a row; crashes in a switch or a session; a worker that outlives
\* its stop; a voice model compiled while a session or a switch runs; a shutdown.
MCPlans == {Plan("switch", "switch", 1, 0, FALSE), Plan("switch", "session", 1, 0, FALSE),
            Plan("switch", "none", 3, 0, FALSE), Plan("session", "none", 2, 0, FALSE),
            Plan("switch", "compile", 0, 1, FALSE), Plan("session", "compile", 1, 0, FALSE),
            Plan("switch", "none", 0, 0, TRUE), Plan("switch", "none", 1, 0, TRUE),
            Plan("session", "none", 0, 1, TRUE)}

ExitPlans == {Plan("switch", "none", 0, 0, TRUE)}
=============================================================================
