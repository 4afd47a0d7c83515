--------------------------- MODULE MCRepairSearch --------------------------
(* RepairSearch with up to three candidates over two platforms, beside a   *)
(* request for a format and one for a single platform of its own, and two  *)
(* pool workers.                                                           *)
EXTENDS RepairSearch, TLC

CONSTANTS render, alone, linux, osx, win

TwoOrOne == [r \in Requests |-> IF r = alone THEN {win} ELSE {linux, osx}]

SomeSpecLists == {<<"other">>, <<"artifact", "exact">>, <<"exact", "range">>}

(* The two platforms go through every request together.                    *)
Symmetry == Permutations({linux, osx})
=============================================================================
