--------------------------- MODULE MCTaskSupervisor ---------------------------
(* Instances of TaskSupervisor for TLC. *)
EXTENDS TaskSupervisor

CONSTANTS t1, t2, t3, o1

Want(name, kind, replace, overlap, deadline, parent) ==
  [key |-> <<o1, name>>, kind |-> kind, replace |-> replace, overlap |-> overlap,
   deadline |-> deadline, parent |-> parent]

Three(x, y, z, sweeps) ==
  [of |-> [t \in Tasks |-> CASE t = t1 -> x [] t = t2 -> y [] OTHER -> z], sweeps |-> sweeps]

Plain(kind)   == Want("a", kind, FALSE, FALSE, FALSE, NoTask)
Replace(kind) == Want("a", kind, TRUE, FALSE, FALSE, NoTask)
Overlap(kind) == Want("a", kind, TRUE, TRUE, FALSE, NoTask)
Timed(name, kind) == Want(name, kind, FALSE, FALSE, TRUE, NoTask)

\* Three tasks of one name that replace one another, with and without overlap; a
\* name whose tasks have deadlines; and a task that starts another one while a
\* request waits for it to stop, or that replaces itself.
MCPlans ==
  {Three(Replace("future"), Replace("thread"), Plain("future"), {o1}),
   Three(Overlap("future"), Overlap("future"), Overlap("thread"), {"app"}),
   Three(Timed("a", "thread"), Timed("b", "future"), Replace("future"), {"app"}),
   Three(Replace("future"), Replace("future"), Want("b", "thread", TRUE, FALSE, FALSE, t1), {o1, "app"}),
   Three(Replace("thread"), Want("a", "thread", TRUE, FALSE, FALSE, t1), Overlap("future"), {"app"})}
=============================================================================
