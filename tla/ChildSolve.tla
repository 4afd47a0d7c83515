---------------------------- MODULE ChildSolve -----------------------------
(***************************************************************************)
(* The isolated child processes of a server without a persistent worker:   *)
(* run_solve_in_process (src/conda_presto/app.py) for a solve, and         *)
(* from_content_until (src/conda_presto/inputs.py) for the parsing of an   *)
(* uploaded file.  Both run in a thread that holds a slot of the           *)
(* foreground limiter, follow one protocol and must give the slot back     *)
(* with the child reaped.                                                  *)
(*                                                                         *)
(* A solve for several platforms starts a process pool inside the child    *)
(* (get_process_pool, resolve.py).  Where processes are forked, its workers *)
(* inherit the child's end of the pipe, so that the server sees no end of  *)
(* file before they are gone too.                                          *)
(***************************************************************************)
EXTENDS Naturals, FiniteSets

CONSTANTS
    ChildRequests,
    Parsers,        \* the requests that parse a file; the others solve
    MaxConcurrency, \* slots of the foreground limiter
    PoolWorkers,    \* MAX_WORKERS
    Forked,         \* whether pool workers inherit the child's descriptors
    NoAnswer

ASSUME ChildSolveAssumption ==
    /\ Parsers \subseteq ChildRequests /\ IsFiniteSet(ChildRequests)
    /\ MaxConcurrency \in Nat \ {0} /\ PoolWorkers \in Nat \ {0}
    /\ Forked \in BOOLEAN
    /\ NoAnswer \notin {"ok", "refused", "timeout", "error"}

VARIABLES
    thread,    \* where the thread of a request is
    expired,   \* the requests whose deadline has passed
    child,     \* the child process of a request
    signal,    \* the last signal sent to it
    pool,      \* how many pool workers it has
    said,      \* what it answers, once it begins to write
    pipe,      \* how much of the answer the pipe has taken
    returned,    \* what the thread is going to return or raise
    prompt     \* for the properties: answers complete before the deadline

childVars == <<thread, expired, child, signal, pool, said, pipe, returned, prompt>>

ChildStatuses(r) == {"ok", "refused", "error"}
                   \cup IF r \in Parsers THEN {"timeout"} ELSE {}
Outcomes == {"ok", "refused", "timeout", "error", NoAnswer}

ChildTypeOK ==
    /\ thread \in [ChildRequests -> {"idle", "queued", "admitted", "polling",
                   "receiving", "reaping", "joining", "killing", "answered"}]
    /\ expired \subseteq ChildRequests /\ prompt \subseteq ChildRequests
    /\ child \in [ChildRequests -> {"none", "running", "pooling", "writing",
                               "exiting", "dead"}]
    /\ signal \in [ChildRequests -> {"none", "terminate", "kill"}]
    /\ pool \in [ChildRequests -> 0..PoolWorkers]
    /\ said \in [ChildRequests -> Outcomes] /\ returned \in [ChildRequests -> Outcomes]
    /\ pipe \in [ChildRequests -> {"empty", "part", "whole"}]

ChildInit ==
    /\ thread = [r \in ChildRequests |-> "idle"] /\ expired = {} /\ prompt = {}
    /\ child = [r \in ChildRequests |-> "none"]
    /\ signal = [r \in ChildRequests |-> "none"]
    /\ pool = [r \in ChildRequests |-> 0]
    /\ said = [r \in ChildRequests |-> NoAnswer] /\ returned = [r \in ChildRequests |-> NoAnswer]
    /\ pipe = [r \in ChildRequests |-> "empty"]

-----------------------------------------------------------------------------
ChildAlive(r) == child[r] \notin {"none", "dead"}
Admitted == {r \in ChildRequests : thread[r] \notin {"idle", "queued", "answered"}}

(* receiver.close() comes first in the cleanup.                            *)
Open(r) == thread[r] \in {"polling", "receiving"}

(* Mutant: the server keeps its copy of the sending end.                   *)
EndOfFile_SenderOpen(r) == FALSE

EndOfFile(r) == ~ChildAlive(r) /\ (Forked => pool[r] = 0)

Go(r, place) == thread' = [thread EXCEPT ![r] = place]
Returns(r, outcome) == returned' = [returned EXCEPT ![r] = outcome]

processes == <<child, signal, pool, said, pipe, prompt>>

-----------------------------------------------------------------------------
(* run_solve and parse_input_for_request: arrive at the limiter, under     *)
(* fail_after.                                                             *)
Arrive(r) ==
    /\ thread[r] = "idle"
    /\ Go(r, "queued")
    /\ UNCHANGED <<expired, returned, processes>>

Expire(r) ==
    /\ thread[r] \notin {"idle", "answered"} /\ r \notin expired
    /\ expired' = expired \cup {r}
    /\ UNCHANGED <<thread, returned, processes>>

(* Mutant: the request leaves its thread when it is cancelled.             *)
Cancelled_Abandons(r) ==
    /\ thread[r] \notin {"idle", "answered"} /\ r \in expired
    /\ Go(r, "answered") /\ Returns(r, "timeout")
    /\ UNCHANGED <<expired, processes>>

(* Only the wait for the limiter can be cancelled: abandon_on_cancel is    *)
(* false.                                                                  *)
Cancelled(r) ==
    /\ thread[r] = "queued" /\ r \in expired
    /\ Go(r, "answered") /\ Returns(r, "timeout")
    /\ UNCHANGED <<expired, processes>>

Acquire(r) ==
    /\ thread[r] = "queued" /\ Cardinality(Admitted) < MaxConcurrency
    /\ Go(r, "admitted")
    /\ UNCHANGED <<expired, returned, processes>>

(* The deadline is over, the file is refused, or no process can be started. *)
NotStarted(r, outcome) ==
    /\ thread[r] = "admitted"
    /\ \/ outcome = "timeout" /\ r \in expired
       \/ outcome = "refused" /\ r \in Parsers
       \/ outcome = "error"
    /\ Go(r, "answered") /\ Returns(r, outcome)
    /\ UNCHANGED <<expired, processes>>

Start(r) ==
    /\ thread[r] = "admitted"
    /\ Go(r, "polling")
    /\ child' = [child EXCEPT ![r] = "running"]
    /\ UNCHANGED <<expired, returned, signal, pool, said, pipe, prompt>>

Poll(r) ==
    /\ thread[r] = "polling"
    /\ pipe[r] # "empty" \/ EndOfFile(r)
    /\ Go(r, "receiving")
    /\ UNCHANGED <<expired, returned, processes>>

(* Mutant: the deadline is looked at before the pipe.                      *)
PollTimesOut_Eager(r) ==
    /\ thread[r] = "polling" /\ r \in expired
    /\ Go(r, "reaping") /\ Returns(r, "timeout")
    /\ UNCHANGED <<expired, processes>>

PollTimesOut(r) ==
    /\ thread[r] = "polling" /\ r \in expired
    /\ pipe[r] = "empty" /\ ~EndOfFile(r)
    /\ Go(r, "reaping") /\ Returns(r, "timeout")
    /\ UNCHANGED <<expired, processes>>

(* recv has no deadline: it waits for the whole answer or an end of file.  *)
ReceivesAnswer(r) ==
    /\ thread[r] = "receiving"
    /\ \/ pipe[r] = "whole" /\ Returns(r, said[r])
       \/ pipe[r] # "whole" /\ EndOfFile(r) /\ Returns(r, "error")
    /\ Go(r, "reaping")
    /\ UNCHANGED <<expired, processes>>

SignalIfAlive(r, sig) ==
    signal' = [signal EXCEPT ![r] = IF ChildAlive(r) THEN sig ELSE @]

Terminate(r) ==
    /\ thread[r] = "reaping"
    /\ Go(r, "joining") /\ SignalIfAlive(r, "terminate")
    /\ UNCHANGED <<expired, returned, child, pool, said, pipe, prompt>>

(* join() has returned, with the child dead or at its timeout.             *)
Kill(r) ==
    /\ thread[r] = "joining"
    /\ Go(r, "killing") /\ SignalIfAlive(r, "kill")
    /\ UNCHANGED <<expired, returned, child, pool, said, pipe, prompt>>

(* A child that is still alive turns whatever it was into an error.        *)
Finish(r) ==
    /\ thread[r] = "killing"
    /\ Go(r, "answered") /\ Returns(r, IF ChildAlive(r) THEN "error" ELSE returned[r])
    /\ UNCHANGED <<expired, processes>>

-----------------------------------------------------------------------------
(* The child: solve_process_entrypoint and _from_path_process.             *)
server == <<thread, expired, returned>>

(* dispatch, for several platforms.                                        *)
StartPool(r) ==
    /\ child[r] = "running" /\ r \notin Parsers
    /\ child' = [child EXCEPT ![r] = "pooling"]
    /\ pool' = [pool EXCEPT ![r] = PoolWorkers]
    /\ UNCHANGED <<server, signal, said, pipe, prompt>>

(* A pool worker dies: the executor ends the others.                       *)
PoolBreaks(r) ==
    /\ child[r] = "pooling" /\ pool[r] > 0
    /\ pool' = [pool EXCEPT ![r] = 0]
    /\ UNCHANGED <<server, child, signal, said, pipe, prompt>>

(* Begin to write the answer; there is no one to read it after the         *)
(* deadline.                                                               *)
Write(r, status) ==
    /\ child[r] \in {"running", "pooling"} /\ status \in ChildStatuses(r)
    /\ said' = [said EXCEPT ![r] = status]
    /\ IF Open(r)
       THEN /\ child' = [child EXCEPT ![r] = "writing"]
            /\ pipe' = [pipe EXCEPT ![r] = "part"]
       ELSE child' = [child EXCEPT ![r] = "exiting"] /\ UNCHANGED pipe
    /\ UNCHANGED <<server, signal, pool, prompt>>

WriteRest(r) ==
    /\ child[r] = "writing"
    /\ child' = [child EXCEPT ![r] = "exiting"]
    /\ pipe' = [pipe EXCEPT ![r] = "whole"]
    /\ prompt' = IF r \in expired THEN prompt ELSE prompt \cup {r}
    /\ UNCHANGED <<server, signal, pool, said>>

Dies(r) ==
    /\ child' = [child EXCEPT ![r] = "dead"]
    /\ UNCHANGED <<server, signal, pool, said, pipe, prompt>>

(* The interpreter ends when the pool has; a crash or a signal ends it at  *)
(* any time.                                                               *)
Exit(r) == child[r] = "exiting" /\ pool[r] = 0 /\ Dies(r)
ChildCrashes(r) == ChildAlive(r) /\ Dies(r)
DiesOfKill(r) == signal[r] = "kill" /\ ChildAlive(r) /\ Dies(r)

(* Mutant: no pool worker watches its parent.                              *)
PoolWorkerExits_Unwatched(r) ==
    /\ pool[r] > 0 /\ child[r] = "exiting"
    /\ pool' = [pool EXCEPT ![r] = @ - 1]
    /\ UNCHANGED <<server, child, signal, said, pipe, prompt>>

(* The executor lets idle workers go when the child ends; with the child   *)
(* gone watch_parent_process ends all of them.                             *)
PoolWorkerExits(r) ==
    /\ pool[r] > 0 /\ child[r] \in {"exiting", "dead"}
    /\ pool' = [pool EXCEPT ![r] = @ - 1]
    /\ UNCHANGED <<server, child, signal, said, pipe, prompt>>

-----------------------------------------------------------------------------
ThreadStep(r) ==
    \/ Poll(r) \/ PollTimesOut(r) \/ ReceivesAnswer(r)
    \/ Terminate(r) \/ Kill(r) \/ Finish(r)

Begin(r) == Start(r) \/ \E outcome \in Outcomes : NotStarted(r, outcome)

ProcessStep(r) ==
    \/ StartPool(r) \/ PoolBreaks(r) \/ WriteRest(r)
    \/ \E status \in ChildStatuses(r) : Write(r, status)
    \/ Exit(r) \/ ChildCrashes(r) \/ DiesOfKill(r) \/ PoolWorkerExits(r)

(* Every request comes once: the end is all answered and all gone.         *)
ChildNext ==
    \E r \in ChildRequests :
        \/ Arrive(r) \/ Expire(r) \/ Cancelled(r) \/ Acquire(r)
        \/ Begin(r) \/ ThreadStep(r) \/ ProcessStep(r)

ChildSpec == ChildInit /\ [][ChildNext]_childVars

(* Threads run and deadlines pass.  A child that has begun to write has its *)
(* answer in memory and goes on, a killed one dies, and a watcher notices  *)
(* that its parent is gone.  Nothing makes a child answer or crash.        *)
ChildFairness ==
    \A r \in ChildRequests :
        /\ WF_childVars(Expire(r)) /\ WF_childVars(Cancelled(r)) /\ WF_childVars(Acquire(r))
        /\ WF_childVars(Begin(r)) /\ WF_childVars(ThreadStep(r))
        /\ WF_childVars(WriteRest(r)) /\ WF_childVars(DiesOfKill(r))
        /\ WF_childVars(child[r] = "dead" /\ PoolWorkerExits(r))

ChildFairSpec == ChildSpec /\ ChildFairness

-----------------------------------------------------------------------------
(* Properties.                                                             *)

(* The limiter bounds the processes, whatever deadlines pass: a live child *)
(* is covered by its request's slot, or the request was answered with an   *)
(* error after the child had survived its kill.                            *)
ChildrenHaveSlots ==
    /\ Cardinality({r \in ChildRequests : ChildAlive(r) /\ signal[r] # "kill"}) <= MaxConcurrency
    /\ \A r \in ChildRequests : ChildAlive(r) /\ r \notin Admitted =>
            signal[r] = "kill" /\ returned[r] = "error"

(* What a request returns is what its own child wrote in full, a timeout   *)
(* only comes after the deadline or from the parser, and an answer that    *)
(* was complete before the deadline is not turned into a timeout.          *)
AnswersAreHonest ==
    \A r \in ChildRequests : thread[r] = "answered" =>
        /\ returned[r] = "ok" => said[r] = "ok" /\ pipe[r] = "whole"
        /\ returned[r] = "timeout" => r \in expired \/ said[r] = "timeout"
        /\ r \in prompt /\ returned[r] # said[r] => signal[r] = "kill"

(* recv() has no deadline, so it must never wait on a child that may still *)
(* hang: the answer is in the pipe, or the child is writing it from its    *)
(* memory, or has died, and with it, in the end, whoever holds the pipe.   *)
RecvIsServed ==
    \A r \in ChildRequests : thread[r] = "receiving" =>
        pipe[r] = "whole" \/ child[r] \in {"writing", "dead"}

(* Every request is answered, whether its child hangs, dies half way       *)
(* through its answer or survives being killed.                            *)
EveryRequestIsAnswered ==
    \A r \in ChildRequests : thread[r] = "queued" ~> thread[r] = "answered"

(* No process outlives its request for ever, the pool workers of a child   *)
(* that was killed included.                                               *)
NothingIsLeftBehind ==
    \A r \in ChildRequests : thread[r] = "answered" ~> ~ChildAlive(r) /\ pool[r] = 0
=============================================================================
