---------------------------- MODULE SerialQueue ----------------------------
(***************************************************************************)
(* What StoreOperationCoordinator promises ("Serialize access to a         *)
(* configured, trusted persistent store", "Apply queued operations in      *)
(* submission order"): one queue of unbounded length, served from its      *)
(* head, in which only an operation still behind the first Committed may   *)
(* be withdrawn.                                                           *)
(***************************************************************************)
EXTENDS Naturals, Sequences, SequencesExt

CONSTANTS Item, Committed

VARIABLE queue

Init == queue = <<>>

Arrive == \E item \in Item : queue' = Append(queue, item)

Serve == queue # <<>> /\ queue' = Tail(queue)

Withdraw == \E i \in (Committed + 1)..Len(queue) : queue' = RemoveAt(queue, i)

Next == Arrive \/ Serve \/ Withdraw

Spec == Init /\ [][Next]_queue
=============================================================================
