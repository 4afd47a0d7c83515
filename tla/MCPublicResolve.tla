-------------------------- MODULE MCPublicResolve --------------------------
(* PublicResolve with two requests for the same response, over one         *)
(* repodata file or two.                                                   *)
EXTENDS PublicResolve, TLC

CONSTANTS c1, c2, main, noarch

(* Requests and files are only compared for equality.                      *)
Symmetry == Permutations({c1, c2}) \cup Permutations({main, noarch})
=============================================================================
