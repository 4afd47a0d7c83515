-------------------------- MODULE MCSolveProcesses --------------------------
(* SolveProcesses on small instances: for the persistent worker two        *)
(* request threads with two distinct requests, two process handles and a   *)
(* bound on faults; for the isolated children a solve and an uploaded file *)
(* over one slot, since requests only meet in the limiter.                 *)
EXTENDS SolveProcesses

CONSTANTS c1, c2, r1, r2, p1, p2, solve, upload
=============================================================================
