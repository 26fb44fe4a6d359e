-------------------------- MODULE MCDirectoryInstall --------------------------
(* Instances of DirectoryInstall for TLC. *)
EXTENDS DirectoryInstall

Budget(e, c, d) == [errors |-> e, cancels |-> c, crashes |-> d]

\* Deaths of the process alone; one failure and one cancellation; a failure and a death.
Crashes   == {Budget(0, 0, 3)}
OneFault  == {Budget(1, 1, 0)}
EitherWay == Crashes \cup OneFault
Mixed     == {Budget(1, 0, 1)}
=============================================================================
