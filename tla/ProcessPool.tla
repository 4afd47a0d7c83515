---------------------------- MODULE ProcessPool ----------------------------
(***************************************************************************)
(* dispatch and the global process pool (src/conda_presto/resolve.py) in   *)
(* the process of the persistent worker, which serves one request after    *)
(* the other: a solve for several platforms submits a task for each of     *)
(* them to a pool that outlives the request.                               *)
(*                                                                         *)
(* The executor is external: a worker of the pool that dies breaks it,     *)
(* which ends its other workers and all tasks, and a broken executor       *)
(* raises at every submit.  Tasks run in any order.                        *)
(***************************************************************************)
EXTENDS Naturals, FiniteSets

CONSTANTS
    Requests,
    Rendered,     \* the requests for a format: solve_environments, the others solve
    PlatformsOf,  \* the platforms of each request
    MaxWorkers,   \* MAX_WORKERS
    MaxCrashes,   \* bound on the deaths of the process and of pool workers
    None

ASSUME ProcessPoolAssumption ==
    /\ Rendered \subseteq Requests
    /\ \A r \in Requests : IsFiniteSet(PlatformsOf[r]) /\ PlatformsOf[r] # {}
    /\ MaxWorkers \in Nat \ {0} /\ MaxCrashes \in Nat
    /\ None \notin Requests /\ None \notin {"ok", "error", "timeout"}

VARIABLES
    process_pool,  \* the global
    tasks,         \* the tasks submitted, as they are now
    current,       \* the request the worker is solving
    outcome,       \* what it answered
    crashes

vars == <<process_pool, tasks, current, outcome, crashes>>

Platforms == UNION {PlatformsOf[r] : r \in Requests}
Pending == {"queued", "running"}
TaskStates == Pending \cup {"solved", "failed", "lost"}

TypeOK ==
    /\ process_pool \in {"none", "up", "broken"}
    /\ tasks \in [Requests -> [Platforms -> TaskStates \cup {"none"}]]
    /\ \A r \in Requests : \A p \in Platforms \ PlatformsOf[r] : tasks[r][p] = "none"
    /\ current \in Requests \cup {None}
    /\ outcome \in [Requests -> {"ok", "error", "timeout", None}]
    /\ crashes \in 0..MaxCrashes

(* The pool of a process that has just started: warmup_on_start creates it. *)
Fresh == {"none", "up"}

Init ==
    /\ process_pool \in Fresh /\ current = None /\ crashes = 0
    /\ tasks = [r \in Requests |-> [p \in Platforms |-> "none"]]
    /\ outcome = [r \in Requests |-> None]

-----------------------------------------------------------------------------
Several(r) == Cardinality(PlatformsOf[r]) > 1
States(r) == {tasks[r][p] : p \in PlatformsOf[r]}
Submitted(r) == "none" \notin States(r)
Running == {t \in Requests \X Platforms : tasks[t[1]][t[2]] = "running"}

(* The tasks in the pool are gone with its processes.                      *)
Lost == [r \in Requests |-> [p \in Platforms |->
            IF tasks[r][p] \in Pending THEN "lost" ELSE tasks[r][p]]]

Becomes(r, p, state) == tasks' = [tasks EXCEPT ![r][p] = state]

Answer(r, status) ==
    /\ outcome' = [outcome EXCEPT ![r] = status]
    /\ current' = None

Take(r) ==
    /\ current = None /\ outcome[r] = None
    /\ current' = r
    /\ UNCHANGED <<process_pool, tasks, outcome, crashes>>

(* One platform is solved without the pool; solve turns a failure into a   *)
(* result, solve_environments raises it.                                   *)
SolveAlone(r, p, state) ==
    /\ current = r /\ ~Several(r) /\ p \in PlatformsOf[r]
    /\ Becomes(r, p, state)
    /\ Answer(r, IF state = "failed" /\ r \in Rendered THEN "error" ELSE "ok")
    /\ UNCHANGED <<process_pool, crashes>>

(* get_process_pool, whatever state the pool is in, and submit.            *)
Submit(r) ==
    /\ current = r /\ Several(r) /\ ~Submitted(r)
    /\ process_pool # "broken"
    /\ process_pool' = "up"
    /\ tasks' = [tasks EXCEPT ![r] = [p \in Platforms |->
                    IF p \in PlatformsOf[r] THEN "queued" ELSE "none"]]
    /\ UNCHANGED <<current, outcome, crashes>>

(* submit raises outside of the try, so also a solve fails as a whole.     *)
SubmitRaises(r) ==
    /\ current = r /\ Several(r) /\ ~Submitted(r)
    /\ process_pool = "broken"
    /\ Answer(r, "error")
    /\ UNCHANGED <<process_pool, tasks, crashes>>

(* Mutant: the answer is made when the first task has ended.               *)
Collected_First(r) == \E s \in States(r) : s \notin Pending

(* as_completed has gone through all of them.                              *)
Collected(r) == \A s \in States(r) : s \notin Pending

CollectAll(r) ==
    /\ current = r /\ Several(r) /\ Submitted(r) /\ Collected(r)
    /\ r \in Rendered => States(r) = {"solved"}
    /\ Answer(r, "ok")
    /\ UNCHANGED <<process_pool, tasks, crashes>>

(* solve_environments raises at the first failure and leaves its other     *)
(* tasks in the pool.                                                      *)
CollectRaises(r) ==
    /\ current = r /\ Several(r) /\ Submitted(r)
    /\ r \in Rendered /\ States(r) \cap {"failed", "lost"} # {}
    /\ Answer(r, "error")
    /\ UNCHANGED <<process_pool, tasks, crashes>>

(* The server gives up: it stops the process and starts another.           *)
TimesOut(r) ==
    /\ current = r
    /\ process_pool' \in Fresh /\ tasks' = Lost
    /\ Answer(r, "timeout")
    /\ UNCHANGED crashes

(* The process ends in the middle of a solve, of a crash of its own.       *)
WorkerDies(r) ==
    /\ current = r /\ crashes < MaxCrashes
    /\ process_pool' \in Fresh /\ tasks' = Lost /\ crashes' = crashes + 1
    /\ Answer(r, "error")

-----------------------------------------------------------------------------
(* The executor and its workers.                                           *)
Run(r, p) ==
    /\ tasks[r][p] = "queued" /\ Cardinality(Running) < MaxWorkers
    /\ Becomes(r, p, "running")
    /\ UNCHANGED <<process_pool, current, outcome, crashes>>

End(r, p, state) ==
    /\ tasks[r][p] = "running"
    /\ Becomes(r, p, state)
    /\ UNCHANGED <<process_pool, current, outcome, crashes>>

PoolWorkerDies ==
    /\ process_pool = "up" /\ crashes < MaxCrashes
    /\ process_pool' = "broken" /\ tasks' = Lost /\ crashes' = crashes + 1
    /\ UNCHANGED <<current, outcome>>

Solve(r) ==
    \/ Submit(r) \/ SubmitRaises(r) \/ CollectAll(r) \/ CollectRaises(r)
    \/ \E p \in PlatformsOf[r] :
        \/ SolveAlone(r, p, "solved") \/ SolveAlone(r, p, "failed")
        \/ Run(r, p) \/ End(r, p, "solved") \/ End(r, p, "failed")

Next ==
    \/ \E r \in Requests : Take(r) \/ Solve(r) \/ TimesOut(r) \/ WorkerDies(r)
    \/ PoolWorkerDies

Spec == Init /\ [][Next]_vars
=============================================================================
