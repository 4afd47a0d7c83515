------------------------- MODULE MCStoreOperations -------------------------
(* StoreOperations with two clients and the cleanup task.                  *)
EXTENDS StoreOperations

CONSTANTS c1, c2, k1, k2
=============================================================================
