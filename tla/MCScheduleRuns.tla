--------------------------- MODULE MCScheduleRuns ---------------------------
(* ScheduleRuns on small instances.  Executions are interchangeable: a run    *)
(* id is a fresh UUID, and no definition orders them.                         *)
EXTENDS ScheduleRuns, TLC

Symmetry == Permutations(Execs)
=============================================================================
