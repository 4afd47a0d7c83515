-------------------------- MODULE StoreOperations --------------------------
(***************************************************************************)
(* StoreOperationCoordinator (src/conda_presto/storage.py): every access   *)
(* to the persistent result store goes through a memory stream of capacity *)
(* one to a single consumer task.  A caller waits until its operation has  *)
(* completed or its deadline passes; an operation that has reached the     *)
(* stream's buffer is applied even when its caller has given up.           *)
(*                                                                         *)
(* The stream is anyio's: a sender blocks while the buffer is full, in     *)
(* arrival order; receive_nowait first moves the longest-blocked sender's  *)
(* item into the buffer; a sender meeting a blocked receiver hands its     *)
(* item over.  The store is FileStore when IsFileStore: a write may be     *)
(* lost without an exception.                                              *)
(*                                                                         *)
(* Operations are numbered by their arrival at the stream, and the store   *)
(* keeps for each key the number of the operation that wrote it last.      *)
(***************************************************************************)
EXTENDS Naturals, Sequences, SequencesExt

CONSTANTS
    Clients,        \* tasks that call get, set and delete
    Keys,
    IsFileStore,    \* isinstance(store, FileStore)
    MaxSends,       \* bound on the operations that reach the stream
    None

CONSTANT Janitor    \* the cleanup_expired task

Submitters == Clients \cup {Janitor}
Kinds == {"get", "set", "delete", "cleanup"}
Operations == [by : Submitters, kind : Kinds, key : Keys, at : 0..MaxSends]

ASSUME StoreAssumption ==
    /\ IsFileStore \in BOOLEAN
    /\ MaxSends \in Nat
    /\ Janitor \notin Clients
    /\ Keys # {}
    /\ None \notin Operations

VARIABLES
    status,    \* "running", "closing" (send_stream.aclose()), "stopped"
    consumer,  \* program counter of run()
    current,   \* the operation run() has received
    buffer,    \* the stream's buffer
    waiting,   \* the stream's blocked senders, in arrival order
    sent,      \* operations that have reached the stream
    store,     \* for each key, the last operation that wrote it, and whether a value is there
    submitter, \* program counter of each submitter in submit()
    op,        \* its operation
    event      \* completed and error of that operation

streamVars == <<buffer, waiting, sent>>
vars == <<status, consumer, current, streamVars, store, submitter, op, event>>

Capacity == 1

TypeOK ==
    /\ status \in {"running", "closing", "stopped"}
    /\ consumer \in {"polling", "blocked", "applying", "verifying", "undoing", "ended"}
    /\ current \in Operations \cup {None}
    /\ current = None <=> consumer \in {"polling", "blocked", "ended"}
    /\ buffer \in Seq(Operations) /\ Len(buffer) <= Capacity
    /\ waiting \in Seq(Operations) /\ (waiting # <<>> => Len(buffer) = Capacity)
    /\ sent \in 0..MaxSends
    /\ store \in [Keys -> [at : 0..MaxSends, present : BOOLEAN]]
    /\ submitter \in [Submitters -> {"idle", "sending", "waiting"}]
    /\ op \in [Submitters -> Operations \cup {None}]
    /\ event \in [Submitters -> {"unset", "ok", "error"}]

Init ==
    /\ status = "running"
    /\ consumer = "polling"
    /\ current = None
    /\ buffer = <<>>
    /\ waiting = <<>>
    /\ sent = 0
    /\ store = [k \in Keys |-> [at |-> 0, present |-> FALSE]]
    /\ submitter = [c \in Submitters |-> "idle"]
    /\ op = [c \in Submitters |-> None]
    /\ event = [c \in Submitters |-> "unset"]

-----------------------------------------------------------------------------
(* submit(), for get, set and delete and for the periodic cleanup.         *)

SubmitterGoes(c, pc) == submitter' = [submitter EXCEPT ![c] = pc]
Returns(c) ==
    /\ SubmitterGoes(c, "idle")
    /\ op' = [op EXCEPT ![c] = None]
    /\ event' = [event EXCEPT ![c] = "unset"]

(* Every submission is a fresh operation with an event of its own.         *)
Submit(c, kind, key) ==
    /\ status # "stopped"
    /\ submitter[c] = "idle"
    /\ IF c = Janitor THEN kind = "cleanup" /\ IsFileStore /\ status = "running"
       ELSE kind # "cleanup"
    /\ SubmitterGoes(c, "sending")
    /\ op' = [op EXCEPT ![c] = [by |-> c, kind |-> kind, key |-> key, at |-> 0]]
    /\ UNCHANGED <<status, consumer, current, streamVars, store, event>>

(* The operation reaches the stream: handed to the blocked consumer,       *)
(* buffered, or kept with its blocked sender.                              *)
Send(c) ==
    /\ submitter[c] = "sending" /\ status = "running"
    /\ sent < MaxSends
    /\ sent' = sent + 1
    /\ LET item == [op[c] EXCEPT !.at = sent'] IN
        /\ op' = [op EXCEPT ![c] = item]
        /\ \/ /\ consumer = "blocked"
              /\ current' = item /\ consumer' = "applying"
              /\ UNCHANGED <<buffer, waiting>>
           \/ /\ consumer # "blocked" /\ Len(buffer) < Capacity
              /\ buffer' = Append(buffer, item)
              /\ UNCHANGED <<consumer, current, waiting>>
           \/ /\ consumer # "blocked" /\ Len(buffer) >= Capacity
              /\ waiting' = Append(waiting, item)
              /\ UNCHANGED <<consumer, current, buffer>>
    /\ SubmitterGoes(c, "waiting")
    /\ UNCHANGED <<status, store, event>>

(* After aclose() send() raises ClosedResourceError.                       *)
SendClosed(c) ==
    /\ submitter[c] = "sending" /\ status # "running"
    /\ Returns(c)
    /\ UNCHANGED <<status, consumer, current, streamVars, store>>

Completes(c) ==
    /\ submitter[c] = "waiting" /\ event[c] # "unset"
    /\ Returns(c)
    /\ UNCHANGED <<status, consumer, current, streamVars, store>>

(* Mutant: giving up also takes the operation out of the buffer.           *)
GiveUp_Unbuffers(c) ==
    /\ submitter[c] \in {"sending", "waiting"}
    /\ waiting' = SelectSeq(waiting, LAMBDA item : item # op[c])
    /\ buffer' = SelectSeq(buffer, LAMBDA item : item # op[c])
    /\ Returns(c)
    /\ UNCHANGED <<status, consumer, current, sent, store>>

(* The deadline, or the caller's own cancellation: an operation whose      *)
(* sender is still blocked is withdrawn, any other is left to the consumer.*)
GiveUp(c) ==
    /\ submitter[c] \in {"sending", "waiting"}
    /\ \/ \E i \in DOMAIN waiting : waiting[i] = op[c] /\ waiting' = RemoveAt(waiting, i)
       \/ (\A i \in DOMAIN waiting : waiting[i] # op[c]) /\ UNCHANGED waiting
    /\ Returns(c)
    /\ UNCHANGED <<status, consumer, current, buffer, sent, store>>

-----------------------------------------------------------------------------
(* run(), the shielded consumer.                                           *)

Take(queue) ==
    /\ current' = Head(queue)
    /\ buffer' = Tail(queue)
    /\ consumer' = "applying"

(* Mutant: a blocked sender is served before the buffer.                   *)
Receive_SenderFirst ==
    /\ consumer = "polling"
    /\ \/ waiting # <<>> /\ Take(<<Head(waiting)>> \o buffer) /\ waiting' = Tail(waiting)
       \/ waiting = <<>> /\ buffer # <<>> /\ Take(buffer) /\ UNCHANGED waiting
       \/ /\ waiting = <<>> /\ buffer = <<>>
          /\ consumer' = IF status = "running" THEN "blocked" ELSE "ended"
          /\ UNCHANGED <<current, buffer, waiting>>
    /\ UNCHANGED <<status, sent, store, submitter, op, event>>

Receive ==
    /\ consumer = "polling"
    /\ \/ waiting # <<>> /\ Take(Append(buffer, Head(waiting))) /\ waiting' = Tail(waiting)
       \/ waiting = <<>> /\ buffer # <<>> /\ Take(buffer) /\ UNCHANGED waiting
       \/ /\ waiting = <<>> /\ buffer = <<>>
          /\ consumer' = IF status = "running" THEN "blocked" ELSE "ended"
          /\ UNCHANGED <<current, buffer, waiting>>
    /\ UNCHANGED <<status, sent, store, submitter, op, event>>

(* completed.set(), which only the caller still waiting for this very      *)
(* operation notices, and the next receive().                              *)
Finish(outcome) ==
    /\ event' = IF op[current.by] = current THEN [event EXCEPT ![current.by] = outcome]
                ELSE event
    /\ current' = None
    /\ consumer' = "polling"

Writes(keys, present) ==
    store' = [k \in Keys |-> IF k \in keys THEN [at |-> current.at, present |-> present]
                             ELSE store[k]]

(* Mutant: after an exception the caller is not told.                      *)
ApplyRaises_Silent ==
    /\ consumer = "applying"
    /\ current' = None
    /\ consumer' = "polling"
    /\ UNCHANGED <<status, streamVars, store, submitter, op, event>>

(* The store raises: the operation has no effect.                          *)
ApplyRaises ==
    /\ consumer = "applying"
    /\ Finish("error")
    /\ UNCHANGED <<status, streamVars, store, submitter, op>>

ApplyGet ==
    /\ consumer = "applying" /\ current.kind = "get"
    /\ Finish("ok")
    /\ UNCHANGED <<status, streamVars, store, submitter, op>>

ApplyDelete ==
    /\ consumer = "applying" /\ current.kind = "delete"
    /\ Writes({current.key}, FALSE)
    /\ Finish("ok")
    /\ UNCHANGED <<status, streamVars, submitter, op>>

(* expire_file_entries(): the expired entries, or all of them when one is  *)
(* corrupt.                                                                *)
ApplyCleanup ==
    /\ consumer = "applying" /\ current.kind = "cleanup"
    /\ \E expired \in SUBSET Keys : Writes(expired, FALSE)
    /\ Finish("ok")
    /\ UNCHANGED <<status, streamVars, submitter, op>>

(* Mutant: a write to a FileStore is not read back.                        *)
ApplySet_Unverified ==
    /\ consumer = "applying" /\ current.kind = "set"
    /\ Writes({current.key}, TRUE) \/ (IsFileStore /\ UNCHANGED store)
    /\ Finish("ok")
    /\ UNCHANGED <<status, streamVars, submitter, op>>

ApplySet ==
    /\ consumer = "applying" /\ current.kind = "set"
    /\ Writes({current.key}, TRUE) \/ (IsFileStore /\ UNCHANGED store)
    /\ IF IsFileStore THEN consumer' = "verifying" /\ UNCHANGED <<current, event>>
       ELSE Finish("ok")
    /\ UNCHANGED <<status, streamVars, submitter, op>>

(* The read back finds the value, or does not, or raises.                  *)
Verify ==
    /\ consumer = "verifying"
    /\ \/ store[current.key] = [at |-> current.at, present |-> TRUE] /\ Finish("ok")
       \/ consumer' = "undoing" /\ UNCHANGED <<current, event>>
    /\ UNCHANGED <<status, streamVars, store, submitter, op>>

(* The invalid entry is deleted; a deletion that fails is only logged.     *)
Undo ==
    /\ consumer = "undoing"
    /\ Writes({current.key}, FALSE) \/ UNCHANGED store
    /\ Finish("error")
    /\ UNCHANGED <<status, streamVars, submitter, op>>

-----------------------------------------------------------------------------
(* The end of lifespan(): stop_cleanup is set and the send stream closed;  *)
(* the task group then waits for the consumer and the cleanup task.        *)

(* Mutant: closing the stream does not wake a blocked receiver.            *)
Close_Silent ==
    /\ status = "running"
    /\ status' = "closing"
    /\ UNCHANGED <<consumer, current, streamVars, store, submitter, op, event>>

Close ==
    /\ status = "running"
    /\ status' = "closing"
    /\ consumer' = IF consumer = "blocked" THEN "ended" ELSE consumer
    /\ UNCHANGED <<current, streamVars, store, submitter, op, event>>

Stopped ==
    /\ status = "closing" /\ consumer = "ended" /\ submitter[Janitor] = "idle"
    /\ status' = "stopped"
    /\ UNCHANGED <<consumer, current, streamVars, store, submitter, op, event>>

Terminated ==
    /\ status = "stopped"
    /\ \A c \in Submitters : submitter[c] = "idle"
    /\ UNCHANGED vars

ConsumerStep ==
    \/ Receive \/ ApplyRaises \/ ApplyGet \/ ApplyDelete \/ ApplyCleanup \/ ApplySet
    \/ Verify \/ Undo

Next ==
    \/ \E c \in Submitters :
        \/ \E kind \in Kinds, key \in Keys : Submit(c, kind, key)
        \/ Send(c) \/ SendClosed(c) \/ Completes(c) \/ GiveUp(c)
    \/ ConsumerStep
    \/ Close \/ Stopped \/ Terminated

Spec == Init /\ [][Next]_vars

(* The store answers, deadlines pass and the event loop runs ready tasks.  *)
Fairness ==
    /\ WF_vars(ConsumerStep)
    /\ WF_vars(Stopped)
    /\ \A c \in Submitters : WF_vars(SendClosed(c) \/ Completes(c) \/ GiveUp(c))

FairSpec == Spec /\ Fairness

-----------------------------------------------------------------------------
(* Properties.                                                             *)

(* The operations accepted and not finished, in the order of arrival.      *)
Pending == (IF current = None THEN <<>> ELSE <<current>>) \o buffer \o waiting

(* A value is never overtaken: whatever its callers have given up waiting  *)
(* for, no operation changes what a later one has written or deleted.      *)
NeverOvertaken ==
    [][\A k \in Keys : store'[k].at >= store[k].at]_vars

(* A set() that is reported as completed is in the store: the value, or    *)
(* what a later operation made of it.  FileStore may lose a write          *)
(* silently; the read back turns that into an error.                       *)
CompletedSetIsStored ==
    \A c \in Submitters :
        submitter[c] = "waiting" /\ event[c] = "ok" /\ op[c].kind = "set" =>
            \/ store[op[c].key].at > op[c].at
            \/ store[op[c].key] = [at |-> op[c].at, present |-> TRUE]

(* No wake-up is lost: a caller that has no report yet waits for an        *)
(* operation that is still queued, whatever the store raised and whoever   *)
(* gave up; and the consumer waits, or has ended, only behind an empty     *)
(* queue, and never waits for a stream that is closed.                     *)
CallersAreServed ==
    /\ \A c \in Submitters :
        submitter[c] = "waiting" /\ event[c] = "unset" =>
            \E i \in DOMAIN Pending : Pending[i] = op[c]
    /\ consumer \in {"blocked", "ended"} => Pending = <<>>
    /\ consumer = "blocked" => status = "running"

(* When the lifespan has ended, every operation that reached the stream    *)
(* and was not withdrawn has been applied.                                 *)
DrainedWhenStopped == status = "stopped" => Pending = <<>>

(* The stream, its blocked senders and the consumer together are one       *)
(* queue: nothing overtakes, and what the buffer has taken stays.          *)
Queue == INSTANCE SerialQueue WITH Item <- Operations, Committed <- Capacity, queue <- Pending
Serializes == Queue!Spec

(* Closing ends, although the consumer is shielded from cancellation.      *)
ClosingEnds == status = "closing" ~> status = "stopped"
=============================================================================
