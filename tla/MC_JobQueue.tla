--------------------------- MODULE MC_JobQueue ---------------------------
(* Instance of JobQueue for TLC: the cfg names its jobs and workers.  No   *)
(* symmetry is declared, because the run checks a liveness property.       *)
EXTENDS JobQueue
=============================================================================
