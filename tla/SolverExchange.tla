-------------------------- MODULE SolverExchange ---------------------------
(***************************************************************************)
(* A conda client and the private solver endpoint: PrestoSolverClient.solve *)
(* and read_response (src/conda_presto/solver.py) on one side, solver_v1   *)
(* (src/conda_presto/app.py) over SolverResultService and the result cache *)
(* of ResultCacheMemory (src/conda_presto/cache.py) on the other.  Both    *)
(* have a deadline of their own, and neither trusts the other's.           *)
(*                                                                         *)
(* Whether an entry matches the repodata markers and what may be published *)
(* is SolverCache; here either may happen.  A body is its length.          *)
(***************************************************************************)
EXTENDS ResultCacheMemory, FiniteSets

CONSTANTS
    Clients,      \* the conda processes whose side is modelled: each is served
                  \* by the task of its name, the other tasks serve others
    Capacity,     \* MAX_CONCURRENCY
    ResponseMax,  \* SOLVER_RESPONSE_MAX_BYTES
    ReadSize,     \* SOLVER_RESPONSE_READ_SIZE
    BodySizes,    \* the lengths a body may have
    MaxCalls      \* bound on the calls of a client

ASSUME SolverExchangeAssumption ==
    /\ Clients \subseteq Tasks /\ IsFiniteSet(Clients)
    /\ Capacity \in Nat \ {0} /\ ResponseMax \in Nat \ {0}
    /\ ReadSize \in Nat \ {0} /\ BodySizes \subseteq Nat \ {0}
    /\ MaxCalls \in Nat
    /\ None \notin {"response", "conda_error", "failure"}

VARIABLES
    client,    \* where a client is
    over,      \* the clients whose deadline has passed
    got,       \* what solve() returned or raised
    body,      \* how many bytes it has read
    calls,
    handler,   \* where solver_v1 is for a task
    stage,     \* how far a look into the cache has come
    late,      \* the tasks past the server's deadline
    found,     \* whether an entry was found
    key,       \* the solver key of the request
    reply      \* the response on the wire

serverSide == <<handler, stage, late, found, key>>
exchange == <<client, over, got, body, calls, reply, serverSide>>
allVars == <<memoryVars, exchange>>

Looking == {"probe", "reprobe", "publish"}
InLimiter == {"reprobe", "solve", "publish"}

Replies == [status : {200, 422, 500}, size : BodySizes]

ExchangeTypeOK ==
    /\ MemoryTypeOK
    /\ client \in [Clients -> {"idle", "waiting", "reading"}]
    /\ over \subseteq Clients /\ late \subseteq Tasks
    /\ got \in [Clients -> {None, "response", "conda_error", "failure"}]
    /\ body \in [Clients -> 0..(ResponseMax + 1)]
    /\ calls \in [Clients -> 0..MaxCalls]
    /\ handler \in [Tasks -> Looking \cup {"none", "queued", "solve"}]
    /\ stage \in [Tasks -> {"lookup", "reading", "checking"}]
    /\ found \in [Tasks -> BOOLEAN]
    /\ key \in [Tasks -> Keys \cup {None}]
    /\ reply \in [Clients -> Replies \cup {None}]

ExchangeInit ==
    /\ MemoryInit
    /\ client = [c \in Clients |-> "idle"] /\ over = {} /\ late = {}
    /\ got = [c \in Clients |-> None] /\ body = [c \in Clients |-> 0]
    /\ calls = [c \in Clients |-> 0]
    /\ handler = [c \in Tasks |-> "none"]
    /\ stage = [c \in Tasks |-> "lookup"]
    /\ found = [c \in Tasks |-> FALSE]
    /\ key = [c \in Tasks |-> None]
    /\ reply = [c \in Clients |-> None]

-----------------------------------------------------------------------------
(* The server: solver_v1 and SolverResultService.                          *)
Moves(c, place) ==
    /\ handler' = [handler EXCEPT ![c] = place]
    /\ stage' = [stage EXCEPT ![c] = "lookup"]

clientSide == <<client, over, got, body, calls>>

(* A client that has gone reads nothing.                                   *)
Responds(c, status) ==
    /\ Moves(c, "none")
    /\ late' = late \ {c}
    /\ found' = [found EXCEPT ![c] = FALSE]
    /\ key' = [key EXCEPT ![c] = None]
    /\ IF c \in Clients /\ client[c] = "waiting"
       THEN \E r \in Replies :
                r.status = status /\ reply' = [reply EXCEPT ![c] = r]
       ELSE UNCHANGED reply
    /\ UNCHANGED clientSide

(* solver_publication_lock, around a look into the cache and its check.    *)
PublicationLockFree == \A c \in Tasks : stage[c] = "lookup"

(* A request arrives.                                                      *)
Arrives(c, k) ==
    /\ handler[c] = "none"
    /\ Moves(c, "probe")
    /\ key' = [key EXCEPT ![c] = k]
    /\ UNCHANGED <<memoryVars, late, found>>

(* Too many channels or items, or no worker: answered at once.             *)
Refuse(c) ==
    /\ handler[c] = "probe" /\ stage[c] = "lookup"
    /\ Responds(c, 500)
    /\ UNCHANGED memoryVars

(* get_stored.                                                             *)
LookUp(c) ==
    /\ handler[c] \in Looking /\ stage[c] = "lookup" /\ PublicationLockFree
    /\ \/ /\ Hit(key[c])
          /\ stage' = [stage EXCEPT ![c] = "checking"]
          /\ found' = [found EXCEPT ![c] = TRUE]
       \/ /\ Miss(c, key[c])
          /\ stage' = [stage EXCEPT ![c] = "reading"]
          /\ found' = [found EXCEPT ![c] = FALSE]
    /\ UNCHANGED <<clientSide, handler, late, key, reply>>

ReadsStore(c) ==
    /\ stage[c] = "reading"
    /\ stage' = [stage EXCEPT ![c] = "checking"]
    /\ \/ ReadNothing(c) /\ UNCHANGED found
       \/ /\ \E size \in Sizes : ReadEntry(c, size)
          /\ found' = [found EXCEPT ![c] = TRUE]
    /\ UNCHANGED <<clientSide, handler, late, key, reply>>

(* Reading the markers is not abandoned: what comes after it up to the     *)
(* next await is done even when the deadline has passed meanwhile, but the *)
(* answer is then a timeout.                                               *)
InTime(c, status) == IF c \in late THEN 500 ELSE status

(* The entry found matches the markers.                                    *)
Matches(c) ==
    /\ stage[c] = "checking" /\ found[c]
    /\ Responds(c, InTime(c, 200))
    /\ UNCHANGED memoryVars

(* It does not, or there is none.                                          *)
Unmatched(c) ==
    /\ stage[c] = "checking" /\ handler[c] # "publish"
    /\ IF c \in late THEN Responds(c, 500)
       ELSE /\ Moves(c, IF handler[c] = "probe" THEN "queued" ELSE "solve")
            /\ UNCHANGED <<clientSide, late, found, key, reply>>
    /\ UNCHANGED memoryVars

(* publish_solver retains the result or rejects it.  The step ends with    *)
(* the write to the store: a deadline passed in it has passed before.      *)
Publishes(c) ==
    /\ handler[c] = "publish" /\ stage[c] = "checking"
    /\ UNCHANGED memoryVars \/ \E size \in Sizes : Store(key[c], size)
    /\ Responds(c, InTime(c, 200))

AcquireSlot(c) ==
    /\ handler[c] = "queued"
    /\ Cardinality({d \in Tasks : handler[d] \in InLimiter}) < Capacity
    /\ Moves(c, "reprobe")
    /\ UNCHANGED <<memoryVars, clientSide, late, found, key, reply>>

(* The worker answers in time, with a result or with an error of conda's.  *)
WorkerSolves(c) ==
    /\ handler[c] = "solve" /\ c \notin late
    /\ Moves(c, "publish")
    /\ UNCHANGED <<memoryVars, clientSide, late, found, key, reply>>

WorkerFails(c) ==
    /\ handler[c] = "solve"
    /\ Responds(c, 422) \/ Responds(c, 500)
    /\ UNCHANGED memoryVars

ServerDeadline(c) ==
    /\ handler[c] # "none" /\ c \notin late
    /\ late' = late \cup {c}
    /\ UNCHANGED <<memoryVars, clientSide, handler, stage, found, key, reply>>

(* fail_after ends every other await, and gives limiter and lock back.     *)
GatewayTimeout(c) ==
    /\ handler[c] # "none" /\ c \in late /\ stage[c] # "checking"
    /\ Responds(c, 500)
    /\ reading' = [reading EXCEPT ![c] = None]
    /\ UNCHANGED <<max_size, max_bytes, entries, current_bytes, used>>

-----------------------------------------------------------------------------
(* The client: PrestoSolverClient.solve and read_response.                 *)

(* The connection is closed in any case.                                   *)
CallReturns(c, outcome) ==
    /\ client' = [client EXCEPT ![c] = "idle"]
    /\ over' = over \ {c}
    /\ got' = [got EXCEPT ![c] = outcome]
    /\ body' = [body EXCEPT ![c] = 0]
    /\ reply' = [reply EXCEPT ![c] = None]
    /\ UNCHANGED <<memoryVars, calls, serverSide>>

(* Post a request over a new connection, with a deadline for all of it.    *)
Post(c, k) ==
    /\ client[c] = "idle" /\ calls[c] < MaxCalls
    /\ client' = [client EXCEPT ![c] = "waiting"]
    /\ got' = [got EXCEPT ![c] = None]
    /\ calls' = [calls EXCEPT ![c] = @ + 1]
    /\ Arrives(c, k)
    /\ UNCHANGED <<over, body, reply>>

ClientDeadline(c) ==
    /\ client[c] # "idle" /\ c \notin over
    /\ over' = over \cup {c}
    /\ UNCHANGED <<memoryVars, client, got, body, calls, reply, serverSide>>

(* Mutant: only the wait for the response has a deadline.                  *)
CallTimesOut_Waiting(c) ==
    /\ client[c] = "waiting" /\ c \in over
    /\ CallReturns(c, "failure")

CallTimesOut(c) ==
    /\ client[c] # "idle" /\ c \in over
    /\ CallReturns(c, "failure")

(* The connection is refused or reset before a response.                   *)
Disconnected(c) ==
    /\ client[c] = "waiting"
    /\ CallReturns(c, "failure")

(* The head of the response: no length is declared, or an acceptable one.  *)
GetsResponse(c) ==
    /\ client[c] = "waiting" /\ reply[c] # None
    /\ client' = [client EXCEPT ![c] = "reading"]
    /\ UNCHANGED <<memoryVars, over, got, body, calls, reply, serverSide>>

(* No number, a negative or a too large one; the peer may declare any.     *)
BadLength(c) ==
    /\ client[c] = "waiting" /\ reply[c] # None
    /\ CallReturns(c, "failure")

(* Mutant: each read asks for a whole chunk.                               *)
Asked_Chunk(c) == ReadSize

(* One byte more than is allowed tells that a body is too long.            *)
Asked(c) ==
    IF ResponseMax + 1 - body[c] < ReadSize
    THEN ResponseMax + 1 - body[c] ELSE ReadSize

Reads(c, n) ==
    /\ client[c] = "reading" /\ body[c] <= ResponseMax /\ c \notin over
    /\ n <= Asked(c) /\ body[c] + n <= reply[c].size
    /\ body' = [body EXCEPT ![c] = @ + n]
    /\ UNCHANGED <<memoryVars, client, over, got, calls, reply, serverSide>>

TooLong(c) ==
    /\ client[c] = "reading" /\ body[c] > ResponseMax
    /\ CallReturns(c, "failure")

(* Mutant: a body that ends early is taken for what it is.                 *)
Decoded_Prefix(c, outcome) ==
    \/ outcome = "response" /\ reply[c].status = 200
    \/ outcome = "conda_error" /\ reply[c].status = 422
    \/ outcome = "failure"

(* No prefix of a JSON document decodes.  What does not decode, and every  *)
(* other status, is a PrestoSolverError.                                   *)
Decoded(c, outcome) ==
    \/ outcome = "response" /\ reply[c].status = 200 /\ body[c] = reply[c].size
    \/ outcome = "conda_error" /\ reply[c].status = 422 /\ body[c] = reply[c].size
    \/ outcome = "failure"

(* An empty read: the end of the body, or of the connection within it.     *)
EndOfBody(c, outcome) ==
    /\ client[c] = "reading" /\ body[c] <= ResponseMax /\ c \notin over
    /\ Decoded(c, outcome)
    /\ CallReturns(c, outcome)

-----------------------------------------------------------------------------
HandlerStep(c) ==
    \/ Refuse(c) \/ LookUp(c) \/ ReadsStore(c)
    \/ Matches(c) \/ Unmatched(c) \/ Publishes(c)
    \/ AcquireSlot(c) \/ WorkerSolves(c) \/ WorkerFails(c)
    \/ ServerDeadline(c) \/ GatewayTimeout(c)

ClientStep(c) ==
    \/ \E k \in Keys : Post(c, k)
    \/ ClientDeadline(c) \/ CallTimesOut(c) \/ Disconnected(c)
    \/ GetsResponse(c) \/ BadLength(c) \/ \E n \in 1..ReadSize : Reads(c, n)
    \/ TooLong(c) \/ \E outcome \in {"response", "conda_error", "failure"} :
                        EndOfBody(c, outcome)

(* A request of a client of which nothing else is modelled.                *)
OtherRequest(t) ==
    /\ \E k \in Keys : Arrives(t, k)
    /\ UNCHANGED <<clientSide, reply>>

(* Requests for the public endpoints, which share the memory.              *)
PublicStep ==
    /\ \/ \E k \in Keys : Hit(k) \/ Discard(k)
       \/ \E k \in Keys, size \in Sizes : Store(k, size)
    /\ UNCHANGED exchange

ExchangeNext ==
    \/ \E c \in Clients : ClientStep(c)
    \/ \E t \in Tasks : HandlerStep(t)
    \/ \E t \in Tasks \ Clients : OtherRequest(t)
    \/ PublicStep

ExchangeSpec == ExchangeInit /\ [][ExchangeNext]_allVars

(* Deadlines pass and end what waits for them, and the markers can be      *)
(* read.  No peer has to send, no worker to answer.                        *)
ClientEnds(c) == ClientDeadline(c) \/ CallTimesOut(c)
HandlerEnds(t) ==
    ServerDeadline(t) \/ GatewayTimeout(t) \/ Unmatched(t) \/ Publishes(t)

ExchangeFairness ==
    /\ \A c \in Clients : WF_allVars(ClientEnds(c))
    /\ \A t \in Tasks : WF_allVars(HandlerEnds(t))

FairExchange == ExchangeSpec /\ ExchangeFairness

-----------------------------------------------------------------------------
(* Properties.                                                             *)

(* What a client returns as a response, or raises as the solver's own      *)
(* error, is a whole body within the limit and has that status, whatever   *)
(* length was declared and however the reads were cut; and no read buffers *)
(* more than one byte past the limit.                                      *)
ReadsAreBounded ==
    [][\A c \in Clients :
        /\ body'[c] <= ResponseMax + 1
        /\ got'[c] \in {"response", "conda_error"} /\ got'[c] # got[c] =>
            /\ reply[c].status = IF got'[c] = "response" THEN 200 ELSE 422
            /\ body[c] = reply[c].size /\ body[c] <= ResponseMax
      ]_allVars

(* A call ends although the peer stalls within a body, and a request gives *)
(* its place in the limiter and the publication lock back although the     *)
(* client has gone or the worker never answers.                            *)
EveryCallEnds ==
    /\ \A c \in Clients : client[c] # "idle" ~> client[c] = "idle"
    /\ \A t \in Tasks : handler[t] # "none" ~> handler[t] = "none"
=============================================================================
