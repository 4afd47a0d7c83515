-------------------------- MODULE MCSolverExchange -------------------------
(* SolverExchange with one client whose side is modelled and one other     *)
(* request at a time, two keys, and bodies up to and past the client's     *)
(* limit.  Of entries of one, two and three units two small ones fit in    *)
(* the memory, a small one and one of two do not, and the largest never    *)
(* does; with room for one entry the number is what evicts.                *)
EXTENDS SolverExchange

CONSTANTS client1, other, k1, k2
=============================================================================
