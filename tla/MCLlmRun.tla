------------------------------- MODULE MCLlmRun -------------------------------
(* Instances of LlmRun for TLC. *)
EXTENDS LlmRun

CONSTANTS r1, r2

Of(presets, attempts, wire) == [presets |-> presets, attempts |-> attempts, wire |-> wire]
None == Of(0, 1, "json")

Both(x, y) == [r \in Runs |-> IF r = r1 THEN x ELSE y]

\* One run alone with a chain of two presets or with two attempts, and two runs
\* that contend for the pool.
MCClosePlans == {Both(Of(1, 1, "responses"), None)}
MCPlans == MCClosePlans \cup {Both(Of(1, 2, "json"), None), Both(Of(2, 1, "chat"), None),
                              Both(Of(1, 2, "chat"), None),
                              Both(Of(1, 1, "chat"), Of(1, 1, "json"))}

MCCalls == {<<r1, 1, 1>>, <<r1, 1, 2>>, <<r1, 2, 1>>, <<r2, 1, 1>>}
=============================================================================
