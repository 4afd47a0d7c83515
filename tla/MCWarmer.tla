------------------------------ MODULE MCWarmer ------------------------------
(* Warmer with two foreground requests over one slot and two recorded      *)
(* requests.                                                               *)
EXTENDS Warmer

CONSTANTS q1, q2, a, b
=============================================================================
