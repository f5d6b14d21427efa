--------------------------- MODULE MCReadyScheduler ---------------------------
(***************************************************************************)
(* Small instances of ReadyScheduler: a project with a task of either kind *)
(* of route, and a project with one task.                                  *)
(***************************************************************************)
EXTENDS ReadyScheduler

CONSTANTS shop, shed, sent, here, other

MCHome == [t \in Tasks |-> IF t = other THEN shed ELSE shop]
===============================================================================
