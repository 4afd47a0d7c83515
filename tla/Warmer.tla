------------------------------- MODULE Warmer -------------------------------
(***************************************************************************)
(* The scheduled refresh of the solver cache: SolverCacheWarmer.run and    *)
(* .cycle (src/conda_presto/warmer.py) with the worker a cycle owns        *)
(* (worker.py), interleaved with the foreground requests that              *)
(* ForegroundCapacity counts, the recording of requests by solver_v1       *)
(* (app.py), and the shutdown of the service.                              *)
(*                                                                         *)
(* The warmer and the requests share one event loop: they interleave only  *)
(* where the warmer awaits, so never at "selecting".  The time left to a   *)
(* deadline or to the cycle's budget is nondeterministic.  What inspect()  *)
(* and resolve() do to the cache is SolverCache; which requests are        *)
(* candidates is WarmCandidates; here a candidate is the stamp of its last *)
(* recording (request_count and last_requested).                           *)
(***************************************************************************)
EXTENDS Naturals, FiniteSets

CONSTANTS
    Requests,       \* foreground requests
    Capacity,       \* MAX_CONCURRENCY
    Fingerprints,   \* solver requests that may be recorded
    BatchSize,      \* the cycle's limit
    MaxGeneration,  \* bound on foreground arrivals
    MaxRecords,     \* bound on recordings
    None

ASSUME WarmerAssumption ==
    /\ Capacity \in Nat \ {0}
    /\ BatchSize \in Nat \ {0}
    /\ MaxGeneration \in Nat /\ MaxRecords \in Nat
    /\ None \notin Nat

VARIABLES
    fg, generation,    \* the requests, and ForegroundCapacity.generation
    stop,              \* the lifespan's stop event
    pc,                \* where the warmer is
    batch,             \* candidates of the cycle not yet looked at
    entry, held,       \* the candidate at hand, and the generation it was taken at
    early,             \* requests that had arrived, not acquired, at that moment
    worker,            \* whether active_worker is set
    is_ready, process, \* that worker's is_ready, and its process
    behind,            \* whether an abandoned thread is still in execute()
    candidate, records \* the recorded requests, and how many recordings there were

fgVars == <<fg, generation>>
loopVars == <<batch, entry, held, early>>
workerVars == <<worker, is_ready, process, behind>>
candidateVars == <<candidate, records>>
vars == <<fgVars, stop, pc, loopVars, workerVars, candidateVars>>

Stamps == 1..MaxRecords
Eligible == {f \in Fingerprints : candidate[f] # None}

TypeOK ==
    /\ fg \in [Requests -> {"idle", "arriving", "waiting", "running"}]
    /\ generation \in 0..MaxGeneration
    /\ stop \in BOOLEAN
    /\ pc \in {"sleeping", "selecting", "inspecting", "starting", "probing",
               "solving", "publishing", "cleaning", "ended"}
    /\ batch \subseteq Fingerprints
    /\ entry \in [fingerprint : Fingerprints, stamp : Stamps] \cup {None}
    /\ held \in 0..MaxGeneration \cup {None}
    /\ early \subseteq Requests
    /\ worker \in BOOLEAN /\ is_ready \in BOOLEAN /\ behind \in BOOLEAN
    /\ process \in {"none", "alive", "doomed", "dead"}
    /\ candidate \in [Fingerprints -> Stamps \cup {None}]
    /\ records \in 0..MaxRecords

Init ==
    /\ fg = [q \in Requests |-> "idle"] /\ generation = 0
    /\ stop = FALSE
    /\ pc = "sleeping"
    /\ batch = {} /\ entry = None /\ held = None /\ early = {}
    /\ worker = FALSE /\ is_ready = FALSE /\ process = "none" /\ behind = FALSE
    /\ candidate = [f \in Fingerprints |-> None] /\ records = 0

-----------------------------------------------------------------------------
(* Foreground requests.  arrive() counts a request; it acquires the limiter*)
(* at once or, when the limiter is passed to run_sync, after one pass of   *)
(* the event loop.                                                         *)

In(state) == {q \in Requests : fg[q] = state}
AtAwait == pc # "selecting"

Arrive(q) ==
    /\ AtAwait /\ fg[q] = "idle" /\ generation < MaxGeneration
    /\ generation' = generation + 1
    /\ fg' = [fg EXCEPT ![q] = "arriving"]
    /\ UNCHANGED <<stop, pc, loopVars, workerVars, candidateVars>>

Acquire(q) ==
    /\ AtAwait /\ fg[q] = "arriving"
    /\ fg' = [fg EXCEPT ![q] =
                IF Cardinality(In("running")) < Capacity THEN "running" ELSE "waiting"]
    /\ early' = early \ {q}
    /\ UNCHANGED <<generation, stop, pc, batch, entry, held, workerVars, candidateVars>>

(* A request leaves, and a waiting one takes its place; a request may also *)
(* be cancelled while it waits.                                            *)
Finish(q) ==
    /\ AtAwait /\ fg[q] \in {"running", "waiting"}
    /\ IF fg[q] = "running" /\ In("waiting") # {}
       THEN \E w \in In("waiting") : fg' = [fg EXCEPT ![q] = "idle", ![w] = "running"]
       ELSE fg' = [fg EXCEPT ![q] = "idle"]
    /\ UNCHANGED <<generation, stop, pc, loopVars, workerVars, candidateVars>>

idle_generation == IF In("running") \cup In("waiting") # {} THEN None ELSE generation

(* solver_v1 records a request it has answered.                            *)
Record(f) ==
    /\ AtAwait /\ records < MaxRecords
    /\ records' = records + 1
    /\ candidate' = [candidate EXCEPT ![f] = records']
    /\ UNCHANGED <<fgVars, stop, pc, loopVars, workerVars>>

(* A candidate expires or another request displaces it.                    *)
Drop(f) ==
    /\ AtAwait /\ candidate[f] # None
    /\ candidate' = [candidate EXCEPT ![f] = None]
    /\ UNCHANGED <<fgVars, stop, pc, loopVars, workerVars, records>>

Stop ==
    /\ AtAwait /\ ~stop
    /\ stop' = TRUE
    /\ UNCHANGED <<fgVars, pc, loopVars, workerVars, candidateVars>>

-----------------------------------------------------------------------------
(* The process of the cycle's worker.  stop() closes the connection, kills *)
(* and joins it; a process that is still alive then is "doomed".           *)

Ready == is_ready /\ process = "alive"

StopWorker ==
    /\ is_ready' = FALSE
    /\ process' \in IF process \in {"none", "dead"} THEN {"none"} ELSE {"none", "doomed"}

ProcessDies ==
    /\ process \in {"alive", "doomed"}
    /\ process' = "dead"
    /\ UNCHANGED <<fgVars, stop, pc, loopVars, worker, is_ready, behind, candidateVars>>

(* execute() in a thread that was abandoned ends: an answer that nobody    *)
(* wants, or a deadline or the end of the process, which stop the worker.  *)
ThreadEnds ==
    /\ behind
    /\ behind' = FALSE
    /\ \/ Ready /\ UNCHANGED <<is_ready, process>>
       \/ StopWorker
    /\ UNCHANGED <<fgVars, stop, pc, loopVars, worker, candidateVars>>

-----------------------------------------------------------------------------
(* run() and the selection of a candidate.                                 *)

(* Mutant: a cycle may start although the stop event is set.               *)
StartCycle_IgnoresStop ==
    /\ pc = "sleeping"
    /\ batch' \in {b \in SUBSET Eligible :
            Cardinality(b) = IF Cardinality(Eligible) < BatchSize
                             THEN Cardinality(Eligible) ELSE BatchSize}
    /\ entry' = None /\ held' = None /\ early' = {}
    /\ pc' = "selecting"
    /\ UNCHANGED <<fgVars, stop, workerVars, candidateVars>>

StartCycle ==
    /\ pc = "sleeping" /\ ~stop
    /\ batch' \in {b \in SUBSET Eligible :
            Cardinality(b) = IF Cardinality(Eligible) < BatchSize
                             THEN Cardinality(Eligible) ELSE BatchSize}
    /\ entry' = None /\ held' = None /\ early' = {}
    /\ pc' = "selecting"
    /\ UNCHANGED <<fgVars, stop, workerVars, candidateVars>>

End ==
    /\ pc = "sleeping" /\ stop
    /\ pc' = "ended"
    /\ UNCHANGED <<fgVars, stop, loopVars, workerVars, candidateVars>>

(* No candidate is left, the budget is used, shutdown was requested or     *)
(* there is foreground work.                                               *)
Break ==
    /\ pc = "selecting"
    /\ pc' = "cleaning"
    /\ UNCHANGED <<fgVars, stop, loopVars, workerVars, candidateVars>>

Skip(f) ==
    /\ pc = "selecting" /\ ~stop /\ f \in batch
    /\ candidate[f] = None
    /\ batch' = batch \ {f}
    /\ UNCHANGED <<fgVars, stop, pc, entry, held, early, workerVars, candidateVars>>

Select(f) ==
    /\ pc = "selecting" /\ ~stop /\ f \in batch
    /\ candidate[f] # None
    /\ idle_generation # None
    /\ batch' = batch \ {f}
    /\ entry' = [fingerprint |-> f, stamp |-> candidate[f]]
    /\ held' = idle_generation
    /\ early' = In("arriving")
    /\ pc' = "inspecting"
    /\ UNCHANGED <<fgVars, stop, workerVars, candidateVars>>

-----------------------------------------------------------------------------
(* inspect(), which takes a thread, so longer than a pass of the loop.     *)

Inspected == pc = "inspecting" /\ early = {}

ContinueUnlessArrived == pc' = IF generation # held THEN "cleaning" ELSE "selecting"

(* A timeout, unknown metadata, a failed write, or a current entry.        *)
InspectedOnly ==
    /\ Inspected
    /\ ContinueUnlessArrived
    /\ UNCHANGED <<fgVars, stop, loopVars, workerVars, candidateVars>>

InspectedLocal ==
    /\ Inspected
    /\ candidate' = [candidate EXCEPT ![entry.fingerprint] = None]
    /\ ContinueUnlessArrived
    /\ UNCHANGED <<fgVars, stop, loopVars, workerVars, records>>

(* Mutant: foreground work is looked for, arrivals are not.                *)
MayReplay_NotBusy == idle_generation # None /\ ~stop

MayReplay == idle_generation = held /\ ~stop

(* A miss: the worker is started, unless the cycle already owns one.       *)
InspectedMiss ==
    /\ Inspected
    /\ \/ MayReplay /\ pc' = IF worker THEN "probing" ELSE "starting"
       \/ pc' = "cleaning"
    /\ UNCHANGED <<fgVars, stop, loopVars, workerVars, candidateVars>>

(* An exception ends the cycle, a cancellation of the service also run().  *)
InspectionRaises ==
    /\ pc = "inspecting"
    /\ pc' = "cleaning"
    /\ UNCHANGED <<fgVars, stop, loopVars, workerVars, candidateVars>>

(* start(), which is shielded from cancellation.                           *)
StartSucceeds ==
    /\ pc = "starting"
    /\ worker' = TRUE /\ is_ready' = TRUE /\ process' = "alive"
    /\ \/ MayReplay /\ pc' = "probing"
       \/ pc' = "cleaning"
    /\ UNCHANGED <<fgVars, stop, loopVars, behind, candidateVars>>

StartFails ==
    /\ pc = "starting"
    /\ worker' = TRUE /\ is_ready' = FALSE
    /\ process' \in {"none", "doomed"}
    /\ pc' = "cleaning"
    /\ UNCHANGED <<fgVars, stop, loopVars, behind, candidateVars>>

-----------------------------------------------------------------------------
(* resolve(): probe, execute() in a thread, publish.                       *)

Replaying == pc \in {"probing", "solving", "publishing"}

(* How a replay that timed out or raised leaves the cycle.                 *)
ContinueIfReady(ready) ==
    pc' = IF generation = held /\ ready THEN "selecting" ELSE "cleaning"

(* fail_after: a thread in execute() is left behind, the worker as it is.  *)
TimesOut ==
    /\ Replaying
    /\ behind' = (behind \/ pc = "solving")
    /\ ContinueIfReady(Ready)
    /\ UNCHANGED <<fgVars, stop, loopVars, worker, is_ready, process, candidateVars>>

Ends ==
    pc' = IF generation # held \/ stop THEN "cleaning" ELSE "selecting"

ProbeHits ==
    /\ pc = "probing"
    /\ Ends
    /\ UNCHANGED <<fgVars, stop, loopVars, workerVars, candidateVars>>

ProbeMisses ==
    /\ pc = "probing"
    /\ pc' = "solving"
    /\ UNCHANGED <<fgVars, stop, loopVars, workerVars, candidateVars>>

Executing == pc = "solving" /\ ~behind

(* The worker is not ready: its handle was kept by an earlier cycle, or a  *)
(* thread left behind has stopped it.                                      *)
Unavailable ==
    /\ Executing /\ ~Ready
    /\ IF process \in {"none", "dead"} THEN StopWorker ELSE UNCHANGED <<is_ready, process>>
    /\ ContinueIfReady(FALSE)
    /\ UNCHANGED <<fgVars, stop, loopVars, worker, behind, candidateVars>>

(* The process ends, or execute()'s own deadline passes: stop().           *)
ExchangeFails ==
    /\ Executing /\ is_ready
    /\ StopWorker
    /\ ContinueIfReady(FALSE)
    /\ UNCHANGED <<fgVars, stop, loopVars, worker, behind, candidateVars>>

(* The worker answers "error", or the lookup or the publication raises.    *)
ReplayRaises ==
    /\ (Executing /\ Ready) \/ pc \in {"probing", "publishing"}
    /\ ContinueIfReady(Ready)
    /\ UNCHANGED <<fgVars, stop, loopVars, workerVars, candidateVars>>

(* Mutant: a request recorded again during the replay is discarded.        *)
SolverError_Discards ==
    /\ Executing /\ Ready
    /\ candidate' = [candidate EXCEPT ![entry.fingerprint] = None]
    /\ Ends
    /\ UNCHANGED <<fgVars, stop, loopVars, workerVars, records>>

SolverError ==
    /\ Executing /\ Ready
    /\ candidate' = [candidate EXCEPT ![entry.fingerprint] =
                        IF @ = entry.stamp THEN None ELSE @]
    /\ Ends
    /\ UNCHANGED <<fgVars, stop, loopVars, workerVars, records>>

Solved ==
    /\ Executing /\ Ready
    /\ pc' = "publishing"
    /\ UNCHANGED <<fgVars, stop, loopVars, workerVars, candidateVars>>

(* Published, already current, rejected or not persisted.                  *)
Published ==
    /\ pc = "publishing"
    /\ Ends
    /\ UNCHANGED <<fgVars, stop, loopVars, workerVars, candidateVars>>

(* The service's task group is cancelled.                                  *)
Cancel ==
    /\ stop /\ Replaying
    /\ behind' = (behind \/ pc = "solving")
    /\ pc' = "cleaning"
    /\ UNCHANGED <<fgVars, stop, loopVars, worker, is_ready, process, candidateVars>>

-----------------------------------------------------------------------------
(* The end of the cycle: shutdown() waits for operation_lock.              *)

(* Mutant: the handle is forgotten even if the process is still alive.     *)
CleanUp_Forgets ==
    /\ pc = "cleaning" /\ ~behind
    /\ StopWorker
    /\ worker' = FALSE
    /\ pc' = "sleeping"
    /\ UNCHANGED <<fgVars, stop, loopVars, behind, candidateVars>>

(* Mutant: the handle is kept even when the process has ended.             *)
CleanUp_KeepsHandle ==
    /\ pc = "cleaning" /\ ~behind
    /\ StopWorker
    /\ pc' = "sleeping"
    /\ UNCHANGED <<fgVars, stop, loopVars, worker, behind, candidateVars>>

CleanUp ==
    /\ pc = "cleaning" /\ ~behind
    /\ StopWorker
    /\ worker' = (worker /\ process' = "doomed")
    /\ pc' = "sleeping"
    /\ UNCHANGED <<fgVars, stop, loopVars, behind, candidateVars>>

CycleStep ==
    \/ StartCycle \/ End \/ Break
    \/ \E f \in Fingerprints : Skip(f) \/ Select(f)
    \/ InspectedOnly \/ InspectedLocal \/ InspectedMiss \/ InspectionRaises
    \/ StartSucceeds \/ StartFails
    \/ TimesOut \/ ProbeHits \/ ProbeMisses
    \/ Unavailable \/ ExchangeFails \/ ReplayRaises \/ SolverError \/ Solved \/ Published
    \/ Cancel \/ CleanUp

Next ==
    \/ \E q \in Requests : Arrive(q) \/ Acquire(q) \/ Finish(q)
    \/ \E f \in Fingerprints : Record(f) \/ Drop(f)
    \/ Stop \/ ProcessDies \/ ThreadEnds
    \/ CycleStep

Spec == Init /\ [][Next]_vars

(* Deadlines and budgets end every await of the cycle and every thread it  *)
(* leaves behind; the event loop resumes requests; killed processes exit.  *)
FairSpec ==
    /\ Spec
    /\ WF_vars(CycleStep) /\ WF_vars(ThreadEnds)
    /\ \A q \in Requests : WF_vars(Acquire(q))
    /\ WF_vars(process = "doomed" /\ ProcessDies)

-----------------------------------------------------------------------------
(* Properties.                                                             *)

(* No replay starts while foreground work is active or waiting             *)
(* (docs/reference/cache.md), not even work whose request has arrived and  *)
(* not yet reached the limiter.                                            *)
YieldsToForeground ==
    [][pc # "probing" /\ pc' = "probing" => \A q \in Requests : fg[q] = "idle"]_vars

(* Once foreground work has arrived the cycle takes up no further request: *)
(* every request of a cycle is inspected in the same generation.           *)
StopsAfterArrival ==
    [][pc # "inspecting" /\ pc' = "inspecting" /\ held # None => held' = held]_vars

(* A process that may still be alive is never forgotten: a second worker   *)
(* is not started beside it.                                               *)
NoProcessForgotten == process # "none" => worker

(* Between cycles no worker is usable: the process is gone or was killed,  *)
(* and no thread is left in an exchange with it.                           *)
WorkerEndsWithCycle ==
    pc \in {"sleeping", "ended"} => ~is_ready /\ process # "alive" /\ ~behind

(* A solver error removes the candidate it replayed, and only if nobody    *)
(* recorded it again meanwhile (docs/explanation/caching-and-freshness.md).*)
DiscardsOnlyUnchanged ==
    [][\A f \in Fingerprints :
        pc = "solving" /\ pc' # "solving" /\ candidate'[f] # candidate[f]
            => entry = [fingerprint |-> f, stamp |-> candidate[f]]]_vars

(* After the stop event the warmer ends, whatever it was doing.            *)
ShutdownEnds == stop ~> pc = "ended"

(* A worker that survived its cleanup is cleaned up by a later cycle.      *)
WorkerIsReleased == worker ~> ~worker \/ pc = "ended"
=============================================================================
