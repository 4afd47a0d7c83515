--------------------------- MODULE SolveProcesses ---------------------------
(***************************************************************************)
(* Where run_solve (src/conda_presto/app.py) runs a solve: in the one      *)
(* worker the service keeps when it is configured with PERSISTENT_WORKER   *)
(* (SolveWorker), otherwise in an isolated child of the request's own,     *)
(* like the parsing of an uploaded file (ChildSolve).                      *)
(*                                                                         *)
(* The configuration is read once, so a behaviour has either.  A worker    *)
(* that is not configured is as one that never started.                    *)
(***************************************************************************)
EXTENDS SolveWorker, ChildSolve

VARIABLE PERSISTENT_WORKER

processVars == <<PERSISTENT_WORKER, vars, childVars>>

ProcessInit ==
    /\ PERSISTENT_WORKER \in BOOLEAN
    /\ IF PERSISTENT_WORKER THEN Init ELSE Created("failed")
    /\ ChildInit

(* Isolated children may all have ended and their requests been answered.  *)
ProcessNext ==
    \/ PERSISTENT_WORKER /\ Next /\ UNCHANGED <<PERSISTENT_WORKER, childVars>>
    \/ ~PERSISTENT_WORKER /\ ChildNext /\ UNCHANGED <<PERSISTENT_WORKER, vars>>
    \/ ~PERSISTENT_WORKER /\ UNCHANGED processVars

ProcessSpec ==
    /\ ProcessInit /\ [][ProcessNext]_processVars
    /\ Fairness /\ ChildFairness
=============================================================================
