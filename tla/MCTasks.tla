------------------------------- MODULE MCTasks ------------------------------
(***************************************************************************)
(* Instances of Tasks for TLC: which command lines run beside each other.  *)
(***************************************************************************)
EXTENDS Tasks

CONSTANTS p1, p2, p3, job, debug

Line(op, guid, timeout) == [op |-> op, guid |-> guid, timeout |-> timeout]

Everything ==
    { Line("submit", job, 0), Line("submit", debug, 0), Line("build", job, 1),
      Line("delete", job, 0), Line("cancel", job, 0) }

Builds == { Line("build", job, 1), Line("delete", job, 0) }
=============================================================================
