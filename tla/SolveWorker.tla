---------------------------- MODULE SolveWorker ----------------------------
(***************************************************************************)
(* PersistentSolveWorker (src/conda_presto/worker.py): the process the     *)
(* HTTP service keeps for its solves, the request threads that exchange    *)
(* one request with it under operation_lock, the start-up thread, the      *)
(* background restart thread, the health endpoint and the lifespan's       *)
(* shutdown.                                                               *)
(*                                                                         *)
(* A process handle is a member of Procs; a handle that is neither alive   *)
(* nor held by self.process may be spawned again.  What runs under the     *)
(* lock without waiting for the child or for a clock is one step: no       *)
(* thread can see its middle except through the two unlocked reads, ready  *)
(* (HealthRead) and _shutdown_requested (RequestShutdown), which commute   *)
(* with it.                                                                *)
(***************************************************************************)
EXTENDS Naturals, FiniteSets

CONSTANTS
    Callers,            \* threads that call solve or solve_final_state
    Requests,           \* the requests they may send
    Procs,              \* process handles
    RestartOnFailure,   \* the constructor's restart_on_failure
    MaxFaults,          \* bound on crashes, hangs, failed starts and survived kills
    None

(* What the child sends: a status and a payload.  An answer's payload      *)
(* stands for the request it answers.                                      *)
Statuses == {"ready", "startup-failed", "ok", "error", "unknown-format"}
Messages == [status : Statuses, payload : Requests \cup {None}]
Message(status, payload) == [status |-> status, payload |-> payload]

ASSUME ConstantsAssumption ==
    /\ RestartOnFailure \in BOOLEAN
    /\ MaxFaults \in Nat
    /\ None \notin Procs \cup Requests \cup Callers \cup {"boot", "restart"}
    /\ None \notin Messages
    /\ Callers \cap {"boot", "restart"} = {}

VARIABLES
    process,     \* self.process
    connection,  \* self.connection: the process at its other end
    is_ready,    \* self.is_ready
    owner,       \* the thread that holds operation_lock between two steps
    pstate,      \* what each process does
    request,     \* the request in the pipe of a process, or in its hands
    reply,       \* the message a process has sent and nobody has received
    caller,      \* program counter of each request thread
    asked,       \* the request of the caller's current or last call
    result,      \* the payload the last call returned; None: it raised
    starter,     \* program counters of the two threads that run start()
    health,      \* program counter of the health endpoint
    shutdown,    \* program counter of shutdown()
    faults       \* faults so far

workerVars == <<process, connection, is_ready, owner>>
procVars   == <<pstate, request, reply>>
callVars   == <<caller, asked, result>>
vars == <<workerVars, procVars, callVars, starter, health, shutdown, faults>>

Starters == {"boot", "restart"}
ProcessStates == {"warming", "hung", "idle", "solving", "doomed", "exited"}
StarterStates == {"off", "blocked", "spawning", "checking", "polling", "ending", "failed"}

TypeOK ==
    /\ process \in Procs \cup {None}
    /\ connection \in Procs \cup {None}
    /\ is_ready \in BOOLEAN
    /\ owner \in Callers \cup Starters \cup {None}
    /\ pstate \in [Procs -> ProcessStates]
    /\ request \in [Procs -> Requests \cup {None}]
    /\ reply \in [Procs -> Messages \cup {None}]
    /\ caller \in [Callers -> {"idle", "blocked", "admitted", "waiting"}]
    /\ asked \in [Callers -> Requests \cup {None}]
    /\ result \in [Callers -> Requests \cup {None}]
    /\ starter \in [Starters -> StarterStates]
    /\ health \in {"idle", "recovering"}
    /\ shutdown \in {"off", "requested", "joining", "joiningLeaked", "stopped", "incomplete"}
    /\ faults \in 0..MaxFaults

(* The object as it is constructed, with its start-up thread at boot.      *)
Created(boot) ==
    /\ process = None
    /\ connection = None
    /\ is_ready = FALSE
    /\ owner = None
    /\ pstate = [p \in Procs |-> "exited"]
    /\ request = [p \in Procs |-> None]
    /\ reply = [p \in Procs |-> None]
    /\ caller = [c \in Callers |-> "idle"]
    /\ asked = [c \in Callers |-> None]
    /\ result = [c \in Callers |-> None]
    /\ starter = [t \in Starters |-> IF t = "boot" THEN boot ELSE "off"]
    /\ health = "idle"
    /\ shutdown = "off"
    /\ faults = 0

Init == Created("blocked")

Alive(p) == pstate[p] # "exited"
Live == {p \in Procs : Alive(p)}
FaultsNow(n) == faults + n <= MaxFaults /\ faults' = faults + n

Running == process # None /\ Alive(process)
Ready == is_ready /\ Running
shutdown_requested == shutdown # "off"
Free == owner = None

(* The lifespan yields, and requests arrive, once boot's start() returned. *)
Serving == starter["boot"] = "off"

-----------------------------------------------------------------------------
(* stop(): close the connection, end the process and forget its handle,    *)
(* unless the process survives the kill, a fault on top of those counted   *)
(* by the step that calls it.                                              *)

CloseConnection ==
    /\ connection' = None
    /\ is_ready' = FALSE
    /\ request' = [p \in Procs |-> IF p = connection THEN None ELSE request[p]]
    /\ reply' = [p \in Procs |-> IF p = connection THEN None ELSE reply[p]]

EndProcess(n) ==
    /\ CloseConnection
    /\ process' = None
    /\ pstate' = [p \in Procs |-> IF p = process THEN "exited" ELSE pstate[p]]
    /\ FaultsNow(n)

(* Mutant: stop() forgets the handle of a process that survives.           *)
SurviveKill_Forgets(n) ==
    /\ Running
    /\ CloseConnection
    /\ pstate' = [pstate EXCEPT ![process] = "doomed"]
    /\ FaultsNow(n + 1)
    /\ process' = None

SurviveKill(n) ==
    /\ Running
    /\ CloseConnection
    /\ pstate' = [pstate EXCEPT ![process] = "doomed"]
    /\ FaultsNow(n + 1)
    /\ UNCHANGED process

Stop(n) == EndProcess(n) \/ SurviveKill(n)

(* stop(restart=True) also starts the restart thread when the process is   *)
(* gone, restarts are wanted and the last restart thread has ended.        *)
Restarted ==
    IF RestartOnFailure /\ ~shutdown_requested /\ starter["restart"] = "off"
    THEN [starter EXCEPT !["restart"] = "blocked"]
    ELSE starter

StopAndRestart ==
    \/ EndProcess(0) /\ starter' = Restarted
    \/ SurviveKill(0) /\ UNCHANGED starter

(* Mutant: the recovery of a stopped worker schedules no restart.          *)
recover_without_restart ==
    IF Running THEN UNCHANGED <<process, connection, is_ready, procVars, starter, faults>>
    ELSE EndProcess(0) /\ UNCHANGED starter

recover_if_stopped ==
    IF Running THEN UNCHANGED <<process, connection, is_ready, procVars, starter, faults>>
    ELSE StopAndRestart

-----------------------------------------------------------------------------
(* start(), run by the lifespan's thread ("boot") and by restart().        *)

StartFrom(t, pc) == starter[t] = pc
StarterGoes(t, pc) == starter' = [starter EXCEPT ![t] = pc]
Release == owner' = None

AlreadyStarted(t) ==
    /\ StartFrom(t, "blocked") /\ Free
    /\ Ready \/ shutdown_requested
    /\ StarterGoes(t, "ending")
    /\ UNCHANGED <<workerVars, procVars, callVars, health, shutdown, faults>>

(* Mutant: start() does not look at the shutdown flag.                     *)
ClearOldProcess_AfterShutdown(t) ==
    /\ StartFrom(t, "blocked") /\ Free
    /\ ~Ready
    /\ EndProcess(0) /\ StarterGoes(t, "spawning") /\ owner' = t
    /\ UNCHANGED <<callVars, health, shutdown>>

(* A process that cannot be stopped is not replaced: start() raises.       *)
ClearOldProcess(t) ==
    /\ StartFrom(t, "blocked") /\ Free
    /\ ~Ready /\ ~shutdown_requested
    /\ Stop(0)
    /\ IF process' = None THEN StarterGoes(t, "spawning") /\ owner' = t
       ELSE StarterGoes(t, "failed") /\ UNCHANGED owner
    /\ UNCHANGED <<callVars, health, shutdown>>

Spawn(t) ==
    /\ StartFrom(t, "spawning")
    /\ \E p \in Procs \ Live :
        /\ process' = p
        /\ connection' = p
        /\ pstate' = [pstate EXCEPT ![p] = "warming"]
        /\ request' = [request EXCEPT ![p] = None]
        /\ reply' = [reply EXCEPT ![p] = None]
    /\ StarterGoes(t, "checking")
    /\ UNCHANGED <<is_ready, owner, callVars, health, shutdown, faults>>

SpawnFails(t) ==
    /\ StartFrom(t, "spawning")
    /\ FaultsNow(1)
    /\ StarterGoes(t, "failed")
    /\ Release
    /\ UNCHANGED <<process, connection, is_ready, procVars, callVars, health, shutdown>>

(* The top of the poll loop: shutdown first, then the startup deadline,    *)
(* which expires when the child hangs or, a fault, when it is slow.        *)
StartStopped(t) ==
    /\ StartFrom(t, "checking")
    /\ IF shutdown_requested
       THEN Stop(0) /\ StarterGoes(t, "ending")
       ELSE Stop(IF pstate[process] = "hung" THEN 0 ELSE 1) /\ StarterGoes(t, "failed")
    /\ Release
    /\ UNCHANGED <<callVars, health, shutdown>>

StartPolls(t) ==
    /\ StartFrom(t, "checking")
    /\ ~shutdown_requested
    /\ StarterGoes(t, "polling")
    /\ UNCHANGED <<workerVars, procVars, callVars, health, shutdown, faults>>

(* Mutant: a poll that finds no message is taken for readiness.            *)
StartPollElapses_Ready(t) ==
    /\ StartFrom(t, "polling")
    /\ reply[connection] = None /\ Alive(connection)
    /\ StarterGoes(t, "ending")
    /\ is_ready' = TRUE
    /\ Release
    /\ UNCHANGED <<process, connection, procVars, callVars, health, shutdown, faults>>

StartPollElapses(t) ==
    /\ StartFrom(t, "polling")
    /\ reply[connection] = None /\ Alive(connection)
    /\ StarterGoes(t, "checking")
    /\ UNCHANGED <<workerVars, procVars, callVars, health, shutdown, faults>>

StartReceivesReady(t) ==
    /\ StartFrom(t, "polling")
    /\ reply[connection] = Message("ready", None)
    /\ reply' = [reply EXCEPT ![connection] = None]
    /\ is_ready' = TRUE
    /\ StarterGoes(t, "ending")
    /\ Release
    /\ UNCHANGED <<process, connection, pstate, request, callVars, health, shutdown, faults>>

(* Another status, or the end of the pipe of a child that has exited.      *)
StartReceivesFailure(t) ==
    /\ StartFrom(t, "polling")
    /\ \/ reply[connection] = Message("startup-failed", None)
       \/ reply[connection] = None /\ ~Alive(connection)
    /\ Stop(0)
    /\ StarterGoes(t, "failed")
    /\ Release
    /\ UNCHANGED <<callVars, health, shutdown>>

(* The thread ends; until then restart_thread.is_alive() is true and a     *)
(* stop(restart=True) starts no other.  restart() swallows what start()    *)
(* raises; the lifespan does not, and the service never serves.            *)
StarterEnds(t) ==
    /\ StartFrom(t, "ending") \/ (t = "restart" /\ StartFrom(t, "failed"))
    /\ StarterGoes(t, "off")
    /\ UNCHANGED <<workerVars, procVars, callVars, health, shutdown, faults>>

-----------------------------------------------------------------------------
(* execute(): one request of one caller.                                   *)

CallerGoes(c, pc) == caller' = [caller EXCEPT ![c] = pc]

Call(c, r) ==
    /\ Serving /\ ~shutdown_requested
    /\ caller[c] = "idle"
    /\ CallerGoes(c, "blocked")
    /\ asked' = [asked EXCEPT ![c] = r]
    /\ result' = [result EXCEPT ![c] = None]
    /\ UNCHANGED <<workerVars, procVars, starter, health, shutdown, faults>>

(* The deadline passed while the thread waited for the lock.               *)
ExpiredInQueue(c) ==
    /\ caller[c] = "blocked" /\ Free
    /\ CallerGoes(c, "idle")
    /\ UNCHANGED <<workerVars, procVars, asked, result, starter, health, shutdown, faults>>

Unavailable(c) ==
    /\ caller[c] = "blocked" /\ Free
    /\ connection = None \/ ~Ready
    /\ recover_if_stopped
    /\ CallerGoes(c, "idle")
    /\ UNCHANGED <<owner, asked, result, health, shutdown>>

Admit(c) ==
    /\ caller[c] = "blocked" /\ Free
    /\ connection # None /\ Ready
    /\ CallerGoes(c, "admitted")
    /\ owner' = c
    /\ UNCHANGED <<process, connection, is_ready, procVars, asked, result, starter,
                   health, shutdown, faults>>

Send(c) ==
    /\ caller[c] = "admitted"
    /\ Alive(connection)
    /\ request' = [request EXCEPT ![connection] = asked[c]]
    /\ CallerGoes(c, "waiting")
    /\ UNCHANGED <<workerVars, pstate, reply, asked, result, starter, health, shutdown, faults>>

(* The exchange fails: send() to, or recv() from, a child that has exited, *)
(* or the deadline, which may pass with the answer already in the pipe.    *)
SendFails(c) == caller[c] = "admitted" /\ ~Alive(connection)
ReceivesEOF(c) ==
    /\ caller[c] = "waiting"
    /\ reply[connection] = None /\ ~Alive(connection) /\ request[connection] = None
TimesOut(c) == caller[c] = "waiting"

(* Mutants: a timeout leaves the worker running; recv() without poll().    *)
ExchangeFails_KeepsWorker(c) ==
    /\ SendFails(c) \/ ReceivesEOF(c) \/ TimesOut(c)
    /\ IF TimesOut(c)
       THEN UNCHANGED <<process, connection, is_ready, procVars, starter, faults>>
       ELSE StopAndRestart
    /\ CallerGoes(c, "idle")
    /\ Release
    /\ UNCHANGED <<asked, result, health, shutdown>>

ExchangeFails_NoDeadline(c) ==
    /\ SendFails(c) \/ ReceivesEOF(c)
    /\ StopAndRestart
    /\ CallerGoes(c, "idle")
    /\ Release
    /\ UNCHANGED <<asked, result, health, shutdown>>

ExchangeFails(c) ==
    /\ SendFails(c) \/ ReceivesEOF(c) \/ TimesOut(c)
    /\ StopAndRestart
    /\ CallerGoes(c, "idle")
    /\ Release
    /\ UNCHANGED <<asked, result, health, shutdown>>

(* A child that exits with the request unread resets the pipe, and one     *)
(* that exits half way through its answer leaves a part of it: recv()      *)
(* raises an OSError, which execute() lets through.                        *)
ReceivesReset(c) ==
    /\ caller[c] = "waiting"
    /\ reply[connection] = None /\ ~Alive(connection)
    /\ request' = [request EXCEPT ![connection] = None]
    /\ CallerGoes(c, "idle")
    /\ Release
    /\ UNCHANGED <<process, connection, is_ready, pstate, reply, asked, result, starter,
                   health, shutdown, faults>>

Receive(c) ==
    /\ caller[c] = "waiting"
    /\ reply[connection] # None
    /\ result' = [result EXCEPT ![c] = IF reply[connection].status = "ok"
                                       THEN reply[connection].payload ELSE None]
    /\ reply' = [reply EXCEPT ![connection] = None]
    /\ CallerGoes(c, "idle")
    /\ Release
    /\ UNCHANGED <<process, connection, is_ready, pstate, request, asked, starter,
                   health, shutdown, faults>>

-----------------------------------------------------------------------------
(* persistent_solve_worker_entrypoint(), in the child.                     *)

ChildOnly == UNCHANGED <<workerVars, callVars, starter, health, shutdown>>

WarmUp(p) ==
    /\ pstate[p] = "warming"
    /\ pstate' = [pstate EXCEPT ![p] = "idle"]
    /\ reply' = [reply EXCEPT ![p] = Message("ready", None)]
    /\ UNCHANGED <<request, faults>> /\ ChildOnly

WarmUpFails(p) ==
    /\ pstate[p] = "warming"
    /\ FaultsNow(1)
    /\ pstate' = [pstate EXCEPT ![p] = "exited"]
    /\ reply' = [reply EXCEPT ![p] = Message("startup-failed", None)]
    /\ UNCHANGED request /\ ChildOnly

WarmUpHangs(p) ==
    /\ pstate[p] = "warming"
    /\ FaultsNow(1)
    /\ pstate' = [pstate EXCEPT ![p] = "hung"]
    /\ UNCHANGED <<request, reply>> /\ ChildOnly

TakeRequest(p) ==
    /\ pstate[p] = "idle" /\ request[p] # None
    /\ pstate' = [pstate EXCEPT ![p] = "solving"]
    /\ UNCHANGED <<request, reply, faults>> /\ ChildOnly

Answer(p) ==
    /\ pstate[p] = "solving"
    /\ pstate' = [pstate EXCEPT ![p] = "idle"]
    /\ request' = [request EXCEPT ![p] = None]
    /\ \E status \in {"ok", "error", "unknown-format"} :
            reply' = [reply EXCEPT ![p] = Message(status, request[p])]
    /\ UNCHANGED faults /\ ChildOnly

(* The child dies, with the request it had read.                           *)
Crash(p) ==
    /\ pstate[p] \in {"warming", "hung", "idle", "solving"}
    /\ FaultsNow(1)
    /\ pstate' = [pstate EXCEPT ![p] = "exited"]
    /\ request' = [request EXCEPT ![p] = IF pstate[p] = "solving" THEN None ELSE @]
    /\ UNCHANGED reply /\ ChildOnly

(* A process that survived the kill ends at last.                          *)
DoomedExits(p) ==
    /\ pstate[p] = "doomed"
    /\ pstate' = [pstate EXCEPT ![p] = "exited"]
    /\ UNCHANGED <<request, reply, faults>> /\ ChildOnly

-----------------------------------------------------------------------------
(* health() of app.py: an unlocked read of ready, then recovery in a       *)
(* thread; and shutdown().                                                 *)

HealthUnavailable ==
    /\ Serving /\ ~shutdown_requested
    /\ health = "idle" /\ ~Ready
    /\ health' = "recovering"
    /\ UNCHANGED <<workerVars, procVars, callVars, starter, shutdown, faults>>

HealthRecovers ==
    /\ health = "recovering" /\ Free
    /\ recover_if_stopped
    /\ health' = "idle"
    /\ UNCHANGED <<owner, callVars, shutdown>>

RequestShutdown ==
    /\ shutdown = "off"
    /\ shutdown' = "requested"
    /\ UNCHANGED <<workerVars, procVars, callVars, starter, health, faults>>

ShutdownStops ==
    /\ shutdown = "requested" /\ Free
    /\ \/ EndProcess(0) /\ shutdown' = "joining"
       \/ SurviveKill(0) /\ shutdown' = "joiningLeaked"
    /\ UNCHANGED <<owner, callVars, starter, health>>

(* join() returns, or gives up on a restart thread that is still alive.    *)
ShutdownReturns ==
    /\ shutdown \in {"joining", "joiningLeaked"}
    /\ shutdown' = IF shutdown = "joining" /\ starter["restart"] = "off"
                   THEN "stopped" ELSE "incomplete"
    /\ UNCHANGED <<workerVars, procVars, callVars, starter, health, faults>>

-----------------------------------------------------------------------------
(* The service has ended: no thread has anything left to do.               *)
Terminated ==
    /\ shutdown \in {"stopped", "incomplete"}
    /\ \A t \in Starters : starter[t] \in {"off", "failed"}
    /\ \A c \in Callers : caller[c] = "idle"
    /\ UNCHANGED vars

StartStep(t) ==
    \/ AlreadyStarted(t) \/ ClearOldProcess(t) \/ Spawn(t) \/ SpawnFails(t)
    \/ StartStopped(t) \/ StartPolls(t) \/ StartPollElapses(t)
    \/ StartReceivesReady(t) \/ StartReceivesFailure(t) \/ StarterEnds(t)

ExecuteStep(c) ==
    \/ ExpiredInQueue(c) \/ Unavailable(c) \/ Admit(c) \/ Send(c)
    \/ ExchangeFails(c) \/ ReceivesReset(c) \/ Receive(c)

ChildStep(p) ==
    \/ WarmUp(p) \/ WarmUpFails(p) \/ WarmUpHangs(p) \/ TakeRequest(p)
    \/ Answer(p) \/ Crash(p) \/ DoomedExits(p)

Next ==
    \/ \E t \in Starters : StartStep(t)
    \/ \E c \in Callers : (\E r \in Requests : Call(c, r)) \/ ExecuteStep(c)
    \/ \E p \in Procs : ChildStep(p)
    \/ HealthUnavailable \/ HealthRecovers
    \/ RequestShutdown \/ ShutdownStops \/ ShutdownReturns
    \/ Terminated

Spec == Init /\ [][Next]_vars

(* A thread that can run does, operation_lock is granted to a thread that  *)
(* keeps waiting for it, clocks advance, warm-up ends (or has hung, which  *)
(* is a fault), a killed process ends, and health is polled while the      *)
(* service is unavailable.  A solve need not end.                          *)
Fairness ==
    /\ \A t \in Starters :
        /\ WF_vars(AlreadyStarted(t) \/ ClearOldProcess(t))
        /\ WF_vars(Spawn(t) \/ SpawnFails(t))
        /\ WF_vars(StartPolls(t) \/ StartPollElapses(t))
        /\ WF_vars(StartReceivesReady(t) \/ StartReceivesFailure(t))
        /\ WF_vars(StarterEnds(t))
        /\ SF_vars(StartStopped(t) /\ (shutdown_requested \/ pstate[process] = "hung"))
    /\ \A c \in Callers :
        /\ WF_vars(Send(c) \/ (SendFails(c) /\ ExchangeFails(c)))
        /\ WF_vars(TimesOut(c) /\ ExchangeFails(c))
    /\ \A p \in Procs : WF_vars(WarmUp(p)) /\ WF_vars(DoomedExits(p))
    /\ WF_vars(HealthUnavailable) /\ WF_vars(HealthRecovers)

FairSpec == Spec /\ Fairness

-----------------------------------------------------------------------------
(* Properties.                                                             *)

(* At most one worker process is alive, and the worker still holds its     *)
(* handle: a replacement is never started beside a process that survived   *)
(* its kill, and no process is forgotten alive.                            *)
SingleProcess == \A p \in Procs : Alive(p) => process = p

(* A call returns the answer to its own request: an answer that comes      *)
(* after its request timed out, or after its caller was abandoned, is      *)
(* never read by a later call.                                             *)
RepliesMatch == \A c \in Callers : result[c] \in {None, asked[c]}

(* While ready is true and no start or exchange holds the lock, the worker *)
(* is connected to its process, the process has finished its start-up and  *)
(* the pipe is empty: what a 200 of /health promises.                      *)
ReadyIsServing ==
    Ready /\ Free =>
        /\ connection = process
        /\ pstate[process] = "idle"
        /\ request[process] = None
        /\ reply[process] = None

(* When shutdown() has reported that everything stopped, no process is     *)
(* alive, whatever restart or start-up was under way, and none ever is.    *)
ShutdownIsFinal == shutdown = "stopped" => Live = {}

(* Once shutdown() has run its stop(), no process is spawned: a restart    *)
(* thread that was scheduled before, or a start-up that lost its waiter,   *)
(* gives up when it gets the lock.                                         *)
NoSpawnAfterShutdown ==
    [][shutdown \notin {"off", "requested"} =>
        \A p \in Procs : Alive(p)' => Alive(p)]_vars

(* No exchange and no start-up holds operation_lock forever, even when the *)
(* solver never answers.                                                   *)
LockIsReleased == owner # None ~> owner = None

(* A service whose worker was lost becomes ready again, unless it is       *)
(* shutting down or never started.                                         *)
Recovers ==
    []<>(Ready \/ shutdown_requested \/ starter["boot"] = "failed")
=============================================================================
