------------------------- MODULE SolveWorkerProofs -------------------------
(***************************************************************************)
(* Proofs about SolveWorker for any set of callers, requests and process   *)
(* handles and any bound on faults.                                        *)
(*                                                                         *)
(* The invariants of SolveWorker are not inductive: that a process is held *)
(* and that an answer is the caller's own depend on who holds the lock and *)
(* on what may be in the pipe at each point of start() and execute().      *)
(* WorkerInv adds exactly that.                                            *)
(***************************************************************************)
EXTENDS SolveWorker, TLAPS

(* operation_lock is held by the thread whose program counter is inside    *)
(* execute() or start().                                                   *)
LockInv ==
    /\ \A c \in Callers : caller[c] \in {"admitted", "waiting"} <=> owner = c
    /\ \A t \in Starters : starter[t] \in {"spawning", "checking", "polling"} <=> owner = t

(* The connection leads to the held process, and exists only while that    *)
(* process is ready or starting.                                           *)
HandleInv ==
    /\ SingleProcess
    /\ connection # None => connection = process /\ pstate[connection] # "doomed"
    /\ is_ready => connection # None
    /\ connection # None /\ ~is_ready =>
           \E t \in Starters : starter[t] \in {"checking", "polling"}

(* During start-up the pipe carries at most the start-up message.          *)
StartInv ==
    \A t \in Starters :
        /\ starter[t] = "spawning" => process = None
        /\ starter[t] \in {"checking", "polling"} =>
            /\ connection # None /\ ~is_ready
            /\ request[connection] = None
            /\ pstate[connection] # "solving"
            /\ pstate[connection] \in {"warming", "hung"} => reply[connection] = None
            /\ pstate[connection] = "idle" => reply[connection] = Message("ready", None)

(* Once ready, the pipe is empty outside an exchange, and inside one it    *)
(* carries the request of the caller that holds the lock or its answer.    *)
ExchangeInv ==
    /\ is_ready => pstate[connection] \in {"idle", "solving", "exited"}
    /\ is_ready /\ (\A c \in Callers : caller[c] # "waiting") =>
        /\ request[connection] = None
        /\ reply[connection] = None
        /\ pstate[connection] # "solving"
    /\ \A c \in Callers :
        /\ caller[c] \in {"admitted", "waiting"} => is_ready
        /\ caller[c] = "waiting" =>
            /\ request[connection] \in {None, asked[c]}
            /\ pstate[connection] = "solving" =>
                   request[connection] = asked[c] /\ reply[connection] = None
            /\ reply[connection] # None =>
                   request[connection] = None /\ reply[connection].payload = asked[c]

(* From shutdown()'s own stop() on, no start-up is under way.              *)
ShutdownInv ==
    /\ shutdown \notin {"off", "requested"} =>
        \A t \in Starters : starter[t] \notin {"spawning", "checking", "polling"}
    /\ shutdown \in {"joining", "stopped"} => Live = {}

WorkerInv ==
    /\ TypeOK /\ LockInv /\ HandleInv /\ StartInv /\ ExchangeInv
    /\ RepliesMatch /\ ShutdownInv

USE ConstantsAssumption DEF vars, workerVars, procVars, callVars, Message, Messages,
    Statuses, ProcessStates, StarterStates, Starters,
    Alive, Live, Running, Ready, shutdown_requested, Free, Serving, StartFrom, StarterGoes,
    CallerGoes, Release, ChildOnly

(* What stop() leaves, whether or not the process survives.                *)
StopEffect ==
    /\ process' \in {None, process}
    /\ connection' = None
    /\ is_ready' = FALSE
    /\ pstate' \in [Procs -> ProcessStates]
    /\ request' \in [Procs -> Requests \cup {None}]
    /\ reply' \in [Procs -> Messages \cup {None}]
    /\ faults' \in 0..MaxFaults
    /\ \A p \in Procs : pstate'[p] # "exited" => process' = p /\ Alive(p)

(* What stop() leaves behind, whether or not the process ends.              *)
LEMMA StopHas ==
    ASSUME TypeOK, HandleInv, NEW n \in Nat, Stop(n)
    PROVE  StopEffect
<1>1. request' \in [Procs -> Requests \cup {None}] /\ connection' = None /\ is_ready' =
    FALSE
    BY DEF TypeOK, Stop, EndProcess, SurviveKill, CloseConnection
<1>2. reply' \in [Procs -> Messages \cup {None}]
    BY DEF TypeOK, Stop, EndProcess, SurviveKill, CloseConnection
<1>3. faults' \in 0..MaxFaults
    BY DEF TypeOK, Stop, EndProcess, SurviveKill, FaultsNow
<1>4. process' \in {None, process}
    BY DEF Stop, EndProcess, SurviveKill
<1>5. pstate' \in [Procs -> ProcessStates]
    BY DEF TypeOK, Stop, EndProcess, SurviveKill
<1>6. \A p \in Procs : pstate'[p] # "exited" => process' = p /\ Alive(p)
    BY DEF TypeOK, HandleInv, SingleProcess, Stop, EndProcess, SurviveKill
<1>7. QED BY <1>1, <1>2, <1>3, <1>4, <1>5, <1>6 DEF StopEffect

(* stop(restart=True) may besides start an idle restart thread.            *)
RestartEffect ==
    /\ StopEffect
    /\ \/ starter' = starter
       \/ /\ starter["restart"] = "off" /\ ~shutdown_requested
          /\ starter' = [starter EXCEPT !["restart"] = "blocked"]

(* What stop(restart=True) does besides.                                    *)
LEMMA RestartHas ==
    ASSUME TypeOK, HandleInv, StopAndRestart
    PROVE  RestartEffect
<1>1. StopEffect
    BY StopHas DEF StopAndRestart, Stop
<1>2. QED BY <1>1 DEF StopAndRestart, Restarted, RestartEffect

(* Recovery leaves a running process alone.                                *)
RecoverEffect ==
    \/ UNCHANGED <<process, connection, is_ready, procVars, starter, faults>>
    \/ RestartEffect

(* What recover_if_stopped() does: nothing, or the restart.                 *)
LEMMA RecoverHas ==
    ASSUME TypeOK, HandleInv, recover_if_stopped
    PROVE  RecoverEffect
    BY RestartHas DEF recover_if_stopped, RecoverEffect

(* One lemma for each action that may change the state: it keeps the        *)
(* invariant.                                                               *)

(* AlreadyStarted keeps it: ready, or shutting down.                       *)
LEMMA AlreadyStartedKeeps ==
    ASSUME NEW t \in Starters, WorkerInv, AlreadyStarted(t)
    PROVE  WorkerInv'
<1>1. TypeOK'
    BY DEF WorkerInv, TypeOK, AlreadyStarted
<1>2. LockInv'
    BY DEF WorkerInv, LockInv, AlreadyStarted
<1>3. HandleInv'
    BY DEF WorkerInv, HandleInv, SingleProcess, AlreadyStarted
<1>4. StartInv'
    BY DEF WorkerInv, StartInv, AlreadyStarted
<1>5. ExchangeInv'
    BY DEF WorkerInv, ExchangeInv, AlreadyStarted
<1>6. RepliesMatch'
    BY DEF WorkerInv, RepliesMatch, AlreadyStarted
<1>7. ShutdownInv'
    BY DEF WorkerInv, ShutdownInv, AlreadyStarted
<1>8. QED BY <1>1, <1>2, <1>3, <1>4, <1>5, <1>6, <1>7 DEF WorkerInv

(* ClearOldProcess keeps it: the old process ends or start() raises.       *)
LEMMA ClearOldProcessKeeps ==
    ASSUME NEW t \in Starters, WorkerInv, ClearOldProcess(t)
    PROVE  WorkerInv'
<1>1. StopEffect
    BY StopHas DEF WorkerInv, ClearOldProcess
<1>2. starter' \in [Starters -> StarterStates]
    BY DEF WorkerInv, TypeOK, ClearOldProcess
<1>3. owner' \in Callers \cup Starters \cup {None}
    BY DEF WorkerInv, TypeOK, ClearOldProcess
<1>4. TypeOK'
    BY <1>1, <1>2, <1>3 DEF WorkerInv, TypeOK, ClearOldProcess, StopEffect
<1>5. LockInv'
    BY <1>1, <1>2, <1>3 DEF WorkerInv, LockInv, ClearOldProcess, StopEffect
<1>6. HandleInv'
    BY <1>1, <1>2, <1>3 DEF WorkerInv, HandleInv, SingleProcess, ClearOldProcess, StopEffect
<1>7. StartInv'
    BY <1>1, <1>2, <1>3 DEF WorkerInv, StartInv, TypeOK, LockInv, ClearOldProcess,
           StopEffect
<1>8. ExchangeInv'
    BY <1>1, <1>2, <1>3 DEF WorkerInv, ExchangeInv, TypeOK, LockInv, ClearOldProcess,
           StopEffect
<1>9. RepliesMatch'
    BY <1>1, <1>2, <1>3 DEF WorkerInv, RepliesMatch, ClearOldProcess, StopEffect
<1>10. ShutdownInv'
    BY <1>1, <1>2, <1>3 DEF WorkerInv, ShutdownInv, ClearOldProcess, StopEffect
<1>11. QED BY <1>4, <1>5, <1>6, <1>7, <1>8, <1>9, <1>10 DEF WorkerInv

(* Spawn keeps it: the new process and its empty pipe.                     *)
LEMMA SpawnKeeps ==
    ASSUME NEW t \in Starters, WorkerInv, Spawn(t)
    PROVE  WorkerInv'
<1>1. TypeOK'
    BY DEF WorkerInv, TypeOK, Spawn
<1>2. LockInv'
    BY DEF WorkerInv, LockInv, Spawn
<1>3. HandleInv'
    BY DEF WorkerInv, TypeOK, HandleInv, LockInv, StartInv, ExchangeInv, SingleProcess,
           Spawn
<1>4. StartInv'
    BY DEF WorkerInv, TypeOK, LockInv, HandleInv, SingleProcess, StartInv, ExchangeInv,
           Spawn
<1>5. ExchangeInv'
    BY DEF WorkerInv, TypeOK, LockInv, HandleInv, SingleProcess, StartInv, ExchangeInv,
           Spawn
<1>6. RepliesMatch'
    BY DEF WorkerInv, RepliesMatch, Spawn
<1>7. ShutdownInv'
    BY DEF WorkerInv, ShutdownInv, Spawn
<1>8. QED BY <1>1, <1>2, <1>3, <1>4, <1>5, <1>6, <1>7 DEF WorkerInv

(* SpawnFails keeps it: the process could not be created.                  *)
LEMMA SpawnFailsKeeps ==
    ASSUME NEW t \in Starters, WorkerInv, SpawnFails(t)
    PROVE  WorkerInv'
<1>1. TypeOK'
    BY DEF WorkerInv, TypeOK, SpawnFails, FaultsNow
<1>2. LockInv'
    BY DEF WorkerInv, LockInv, TypeOK, SpawnFails, FaultsNow
<1>3. HandleInv'
    BY DEF WorkerInv, HandleInv, SingleProcess, SpawnFails, FaultsNow
<1>4. StartInv'
    BY DEF WorkerInv, StartInv, SpawnFails, FaultsNow
<1>5. ExchangeInv'
    BY DEF WorkerInv, ExchangeInv, SpawnFails, FaultsNow
<1>6. RepliesMatch'
    BY DEF WorkerInv, RepliesMatch, SpawnFails, FaultsNow
<1>7. ShutdownInv'
    BY DEF WorkerInv, ShutdownInv, SpawnFails, FaultsNow
<1>8. QED BY <1>1, <1>2, <1>3, <1>4, <1>5, <1>6, <1>7 DEF WorkerInv

(* StartStopped keeps it: shutdown, or the deadline.                       *)
LEMMA StartStoppedKeeps ==
    ASSUME NEW t \in Starters, WorkerInv, StartStopped(t)
    PROVE  WorkerInv'
<1>1. StopEffect
    BY StopHas DEF WorkerInv, StartStopped
<1>2. starter' \in [Starters -> StarterStates]
    BY DEF WorkerInv, TypeOK, StartStopped
<1>3. TypeOK'
    BY <1>1, <1>2 DEF WorkerInv, TypeOK, StartStopped, StopEffect
<1>4. LockInv'
    BY <1>1, <1>2 DEF WorkerInv, LockInv, StartStopped, StopEffect
<1>5. HandleInv'
    BY <1>1, <1>2 DEF WorkerInv, HandleInv, SingleProcess, StartStopped, StopEffect
<1>6. StartInv'
    BY <1>1, <1>2 DEF WorkerInv, StartInv, TypeOK, LockInv, StartStopped, StopEffect
<1>7. ExchangeInv'
    BY <1>1, <1>2 DEF WorkerInv, ExchangeInv, TypeOK, LockInv, StartStopped, StopEffect
<1>8. RepliesMatch'
    BY <1>1, <1>2 DEF WorkerInv, RepliesMatch, StartStopped, StopEffect
<1>9. ShutdownInv'
    BY <1>1, <1>2 DEF WorkerInv, ShutdownInv, StartStopped, StopEffect
<1>10. QED BY <1>3, <1>4, <1>5, <1>6, <1>7, <1>8, <1>9 DEF WorkerInv

(* StartPolls keeps it: the poll loop goes round.                          *)
LEMMA StartPollsKeeps ==
    ASSUME NEW t \in Starters, WorkerInv, StartPolls(t)
    PROVE  WorkerInv'
<1>1. TypeOK'
    BY DEF WorkerInv, TypeOK, StartPolls
<1>2. LockInv'
    BY DEF WorkerInv, LockInv, StartPolls
<1>3. HandleInv'
    BY DEF WorkerInv, HandleInv, SingleProcess, StartPolls
<1>4. StartInv'
    BY DEF WorkerInv, StartInv, StartPolls
<1>5. ExchangeInv'
    BY DEF WorkerInv, ExchangeInv, StartPolls
<1>6. RepliesMatch'
    BY DEF WorkerInv, RepliesMatch, StartPolls
<1>7. ShutdownInv'
    BY DEF WorkerInv, ShutdownInv, StartPolls
<1>8. QED BY <1>1, <1>2, <1>3, <1>4, <1>5, <1>6, <1>7 DEF WorkerInv

(* StartPollElapses keeps it: a poll finds nothing.                        *)
LEMMA StartPollElapsesKeeps ==
    ASSUME NEW t \in Starters, WorkerInv, StartPollElapses(t)
    PROVE  WorkerInv'
<1>1. TypeOK'
    BY DEF WorkerInv, TypeOK, StartPollElapses
<1>2. LockInv'
    BY DEF WorkerInv, LockInv, StartPollElapses
<1>3. HandleInv'
    BY DEF WorkerInv, HandleInv, SingleProcess, StartPollElapses
<1>4. StartInv'
    BY DEF WorkerInv, StartInv, StartPollElapses
<1>5. ExchangeInv'
    BY DEF WorkerInv, ExchangeInv, StartPollElapses
<1>6. RepliesMatch'
    BY DEF WorkerInv, RepliesMatch, StartPollElapses
<1>7. ShutdownInv'
    BY DEF WorkerInv, ShutdownInv, StartPollElapses
<1>8. QED BY <1>1, <1>2, <1>3, <1>4, <1>5, <1>6, <1>7 DEF WorkerInv

(* StartReceivesReady keeps it: the child reports ready.                   *)
LEMMA StartReceivesReadyKeeps ==
    ASSUME NEW t \in Starters, WorkerInv, StartReceivesReady(t)
    PROVE  WorkerInv'
<1>1. owner = t /\ \A c \in Callers : caller[c] \notin {"admitted", "waiting"}
    BY DEF WorkerInv, LockInv, StartReceivesReady
<1>2. pstate[connection] \in {"idle", "exited"} /\ request[connection] = None /\
    connection \in Procs
    BY DEF WorkerInv, TypeOK, HandleInv, StartInv, StartReceivesReady
<1>3. reply'[connection] = None
    BY <1>2 DEF WorkerInv, TypeOK, StartReceivesReady
<1>4. TypeOK'
    BY <1>1, <1>2, <1>3 DEF WorkerInv, TypeOK, StartReceivesReady
<1>5. LockInv'
    BY <1>1, <1>2, <1>3 DEF WorkerInv, LockInv, TypeOK, StartReceivesReady
<1>6. HandleInv'
    BY <1>1, <1>2, <1>3 DEF WorkerInv, HandleInv, SingleProcess, StartReceivesReady
<1>7. StartInv'
    BY <1>1, <1>2, <1>3 DEF WorkerInv, StartInv, TypeOK, LockInv, StartReceivesReady
<1>8. ExchangeInv'
    BY <1>1, <1>2, <1>3 DEF WorkerInv, ExchangeInv, StartReceivesReady
<1>9. RepliesMatch'
    BY <1>1, <1>2, <1>3 DEF WorkerInv, RepliesMatch, StartReceivesReady
<1>10. ShutdownInv'
    BY <1>1, <1>2, <1>3 DEF WorkerInv, ShutdownInv, StartReceivesReady
<1>11. QED BY <1>4, <1>5, <1>6, <1>7, <1>8, <1>9, <1>10 DEF WorkerInv

(* StartReceivesFailure keeps it: the child failed or is gone.             *)
LEMMA StartReceivesFailureKeeps ==
    ASSUME NEW t \in Starters, WorkerInv, StartReceivesFailure(t)
    PROVE  WorkerInv'
<1>1. StopEffect
    BY StopHas DEF WorkerInv, StartReceivesFailure
<1>2. TypeOK'
    BY <1>1 DEF WorkerInv, TypeOK, StartReceivesFailure, StopEffect
<1>3. LockInv'
    BY <1>1 DEF WorkerInv, LockInv, TypeOK, StartReceivesFailure, StopEffect
<1>4. HandleInv'
    BY <1>1 DEF WorkerInv, HandleInv, SingleProcess, StartReceivesFailure, StopEffect
<1>5. StartInv'
    BY <1>1 DEF WorkerInv, StartInv, TypeOK, LockInv, StartReceivesFailure, StopEffect
<1>6. ExchangeInv'
    BY <1>1 DEF WorkerInv, ExchangeInv, TypeOK, LockInv, StartReceivesFailure, StopEffect
<1>7. RepliesMatch'
    BY <1>1 DEF WorkerInv, RepliesMatch, StartReceivesFailure, StopEffect
<1>8. ShutdownInv'
    BY <1>1 DEF WorkerInv, ShutdownInv, StartReceivesFailure, StopEffect
<1>9. QED BY <1>2, <1>3, <1>4, <1>5, <1>6, <1>7, <1>8 DEF WorkerInv

(* StarterEnds keeps it: a starting thread ends.                           *)
LEMMA StarterEndsKeeps ==
    ASSUME NEW t \in Starters, WorkerInv, StarterEnds(t)
    PROVE  WorkerInv'
<1>1. TypeOK'
    BY DEF WorkerInv, TypeOK, StarterEnds
<1>2. LockInv'
    BY DEF WorkerInv, LockInv, StarterEnds
<1>3. HandleInv'
    BY DEF WorkerInv, HandleInv, SingleProcess, StarterEnds
<1>4. StartInv'
    BY DEF WorkerInv, StartInv, StarterEnds
<1>5. ExchangeInv'
    BY DEF WorkerInv, ExchangeInv, StarterEnds
<1>6. RepliesMatch'
    BY DEF WorkerInv, RepliesMatch, StarterEnds
<1>7. ShutdownInv'
    BY DEF WorkerInv, ShutdownInv, StarterEnds
<1>8. QED BY <1>1, <1>2, <1>3, <1>4, <1>5, <1>6, <1>7 DEF WorkerInv

(* Call keeps it: a request arrives.                                       *)
LEMMA CallKeeps ==
    ASSUME NEW c \in Callers, NEW r \in Requests, WorkerInv, Call(c, r)
    PROVE  WorkerInv'
<1>1. TypeOK'
    BY DEF WorkerInv, TypeOK, Call
<1>2. LockInv'
    BY DEF WorkerInv, LockInv, Call
<1>3. HandleInv'
    BY DEF WorkerInv, HandleInv, SingleProcess, Call
<1>4. StartInv'
    BY DEF WorkerInv, StartInv, Call
<1>5. ExchangeInv'
    BY DEF WorkerInv, ExchangeInv, Call
<1>6. RepliesMatch'
    BY DEF WorkerInv, RepliesMatch, TypeOK, Call
<1>7. ShutdownInv'
    BY DEF WorkerInv, ShutdownInv, Call
<1>8. QED BY <1>1, <1>2, <1>3, <1>4, <1>5, <1>6, <1>7 DEF WorkerInv

(* ExpiredInQueue keeps it: the deadline passed meanwhile.                 *)
LEMMA ExpiredInQueueKeeps ==
    ASSUME NEW c \in Callers, WorkerInv, ExpiredInQueue(c)
    PROVE  WorkerInv'
<1>1. TypeOK'
    BY DEF WorkerInv, TypeOK, ExpiredInQueue
<1>2. LockInv'
    BY DEF WorkerInv, LockInv, ExpiredInQueue
<1>3. HandleInv'
    BY DEF WorkerInv, HandleInv, SingleProcess, ExpiredInQueue
<1>4. StartInv'
    BY DEF WorkerInv, StartInv, ExpiredInQueue
<1>5. ExchangeInv'
    BY DEF WorkerInv, ExchangeInv, ExpiredInQueue
<1>6. RepliesMatch'
    BY DEF WorkerInv, RepliesMatch, ExpiredInQueue
<1>7. ShutdownInv'
    BY DEF WorkerInv, ShutdownInv, ExpiredInQueue
<1>8. QED BY <1>1, <1>2, <1>3, <1>4, <1>5, <1>6, <1>7 DEF WorkerInv

(* Unavailable keeps it: it raises and schedules recovery.                 *)
LEMMA UnavailableKeeps ==
    ASSUME NEW c \in Callers, WorkerInv, Unavailable(c)
    PROVE  WorkerInv'
<1>1. RecoverEffect
    BY RecoverHas DEF WorkerInv, Unavailable
<1>2. process' \in Procs \cup {None} /\ pstate' \in [Procs -> ProcessStates]
    BY <1>1 DEF WorkerInv, TypeOK, RecoverEffect, RestartEffect, StopEffect
<1>3. request' \in [Procs -> Requests \cup {None}] /\ reply' \in [Procs -> Messages \cup
    {None}]
    BY <1>1 DEF WorkerInv, TypeOK, RecoverEffect, RestartEffect, StopEffect
<1>4. starter' \in [Starters -> StarterStates] /\ faults' \in 0..MaxFaults
    BY <1>1 DEF WorkerInv, TypeOK, RecoverEffect, RestartEffect, StopEffect
<1>5. TypeOK'
    BY <1>1, <1>2, <1>3, <1>4 DEF WorkerInv, TypeOK, Unavailable, RecoverEffect,
           RestartEffect, StopEffect
<1>6. LockInv'
    BY <1>1 DEF WorkerInv, LockInv, TypeOK, Unavailable, RecoverEffect, RestartEffect,
           StopEffect
<1>7. HandleInv'
    BY <1>1 DEF WorkerInv, HandleInv, SingleProcess, Unavailable, RecoverEffect,
           RestartEffect, StopEffect
<1>8. StartInv'
    BY <1>1 DEF WorkerInv, StartInv, TypeOK, LockInv, Unavailable, RecoverEffect,
           RestartEffect, StopEffect
<1>9. ExchangeInv'
    BY <1>1 DEF WorkerInv, ExchangeInv, TypeOK, LockInv, Unavailable, RecoverEffect,
           RestartEffect, StopEffect
<1>10. RepliesMatch'
    BY <1>1 DEF WorkerInv, RepliesMatch, Unavailable, RecoverEffect, RestartEffect,
           StopEffect
<1>11. ShutdownInv'
    BY <1>1 DEF WorkerInv, ShutdownInv, Unavailable, RecoverEffect, RestartEffect,
           StopEffect
<1>12. QED BY <1>5, <1>6, <1>7, <1>8, <1>9, <1>10, <1>11 DEF WorkerInv

(* Admit keeps it: a request gets the lock.                                *)
LEMMA AdmitKeeps ==
    ASSUME NEW c \in Callers, WorkerInv, Admit(c)
    PROVE  WorkerInv'
<1>1. TypeOK'
    BY DEF WorkerInv, TypeOK, Admit
<1>2. LockInv'
    BY DEF WorkerInv, LockInv, TypeOK, Admit
<1>3. HandleInv'
    BY DEF WorkerInv, HandleInv, SingleProcess, Admit
<1>4. StartInv'
    BY DEF WorkerInv, StartInv, Admit
<1>5. ExchangeInv'
    BY DEF WorkerInv, ExchangeInv, Admit
<1>6. RepliesMatch'
    BY DEF WorkerInv, RepliesMatch, Admit
<1>7. ShutdownInv'
    BY DEF WorkerInv, ShutdownInv, Admit
<1>8. QED BY <1>1, <1>2, <1>3, <1>4, <1>5, <1>6, <1>7 DEF WorkerInv

(* Send keeps it: the request enters the pipe.                             *)
LEMMA SendKeeps ==
    ASSUME NEW c \in Callers, WorkerInv, Send(c)
    PROVE  WorkerInv'
<1>1. TypeOK'
    BY DEF WorkerInv, TypeOK, Send
<1>2. LockInv'
    BY DEF WorkerInv, LockInv, Send
<1>3. HandleInv'
    BY DEF WorkerInv, HandleInv, SingleProcess, Send
<1>4. StartInv'
    BY DEF WorkerInv, StartInv, TypeOK, LockInv, Send
<1>5. ExchangeInv'
    BY DEF WorkerInv, ExchangeInv, TypeOK, LockInv, Send
<1>6. RepliesMatch'
    BY DEF WorkerInv, RepliesMatch, Send
<1>7. ShutdownInv'
    BY DEF WorkerInv, ShutdownInv, Send
<1>8. QED BY <1>1, <1>2, <1>3, <1>4, <1>5, <1>6, <1>7 DEF WorkerInv

(* ExchangeFails keeps it: the worker is replaced.                         *)
LEMMA ExchangeFailsKeeps ==
    ASSUME NEW c \in Callers, WorkerInv, ExchangeFails(c)
    PROVE  WorkerInv'
<1>1. RestartEffect
    BY RestartHas DEF WorkerInv, ExchangeFails
<1>2. starter' \in [Starters -> StarterStates]
    BY <1>1 DEF WorkerInv, TypeOK, RestartEffect
<1>3. owner = c /\ \A t \in Starters : starter[t] \notin {"spawning", "checking", "polling"}
    BY DEF WorkerInv, LockInv, ExchangeFails, SendFails, ReceivesEOF, TimesOut
<1>4. \A t \in Starters : starter'[t] \notin {"spawning", "checking", "polling"}
    BY <1>1, <1>3 DEF WorkerInv, TypeOK, RestartEffect
<1>5. \A d \in Callers : caller'[d] \notin {"admitted", "waiting"}
    BY <1>3 DEF WorkerInv, TypeOK, LockInv, ExchangeFails
<1>6. TypeOK'
    BY <1>1, <1>2 DEF WorkerInv, TypeOK, ExchangeFails, RestartEffect, StopEffect
<1>7. LockInv'
    BY <1>1, <1>2, <1>3, <1>4, <1>5 DEF WorkerInv, LockInv, ExchangeFails, RestartEffect,
           StopEffect
<1>8. HandleInv'
    BY <1>1, <1>2, <1>3, <1>4, <1>5 DEF WorkerInv, HandleInv, SingleProcess,
           ExchangeFails, RestartEffect, StopEffect
<1>9. StartInv'
    BY <1>1, <1>2, <1>3, <1>4, <1>5 DEF WorkerInv, StartInv, ExchangeFails, RestartEffect,
           StopEffect
<1>10. ExchangeInv'
    BY <1>1, <1>2, <1>3, <1>4, <1>5 DEF WorkerInv, ExchangeInv, ExchangeFails,
           RestartEffect, StopEffect
<1>11. RepliesMatch'
    BY <1>1, <1>2, <1>3, <1>4, <1>5 DEF WorkerInv, RepliesMatch, ExchangeFails,
           RestartEffect, StopEffect
<1>12. ShutdownInv'
    BY <1>1, <1>2, <1>3, <1>4, <1>5 DEF WorkerInv, ShutdownInv, ExchangeFails,
           RestartEffect, StopEffect
<1>13. QED BY <1>6, <1>7, <1>8, <1>9, <1>10, <1>11, <1>12 DEF WorkerInv

(* ReceivesReset keeps it: the pipe is reset under the reader.             *)
LEMMA ReceivesResetKeeps ==
    ASSUME NEW c \in Callers, WorkerInv, ReceivesReset(c)
    PROVE  WorkerInv'
<1>1. TypeOK'
    BY DEF WorkerInv, TypeOK, ReceivesReset
<1>2. LockInv'
    BY DEF WorkerInv, LockInv, TypeOK, ReceivesReset
<1>3. HandleInv'
    BY DEF WorkerInv, HandleInv, SingleProcess, ReceivesReset
<1>4. StartInv'
    BY DEF WorkerInv, StartInv, ReceivesReset
<1>5. ExchangeInv'
    BY DEF WorkerInv, TypeOK, LockInv, HandleInv, SingleProcess, StartInv, ExchangeInv,
           ReceivesReset
<1>6. RepliesMatch'
    BY DEF WorkerInv, RepliesMatch, ReceivesReset
<1>7. ShutdownInv'
    BY DEF WorkerInv, ShutdownInv, ReceivesReset
<1>8. QED BY <1>1, <1>2, <1>3, <1>4, <1>5, <1>6, <1>7 DEF WorkerInv

(* Receive keeps it: the answer is read.                                   *)
LEMMA ReceiveKeeps ==
    ASSUME NEW c \in Callers, WorkerInv, Receive(c)
    PROVE  WorkerInv'
<1>1. reply[connection] \in Messages
    BY DEF WorkerInv, TypeOK, LockInv, HandleInv, ExchangeInv, Receive
<1>2. result' \in [Callers -> Requests \cup {None}]
    BY <1>1 DEF WorkerInv, TypeOK, Receive
<1>3. TypeOK'
    BY <1>1, <1>2 DEF WorkerInv, TypeOK, Receive
<1>4. LockInv'
    BY <1>1, <1>2 DEF WorkerInv, LockInv, TypeOK, Receive
<1>5. HandleInv'
    BY <1>1, <1>2 DEF WorkerInv, HandleInv, SingleProcess, Receive
<1>6. StartInv'
    BY <1>1, <1>2 DEF WorkerInv, StartInv, TypeOK, LockInv, Receive
<1>7. ExchangeInv'
    BY <1>1, <1>2 DEF WorkerInv, TypeOK, LockInv, HandleInv, SingleProcess, StartInv,
           ExchangeInv, Receive
<1>8. RepliesMatch'
    BY <1>1, <1>2 DEF WorkerInv, TypeOK, RepliesMatch, ExchangeInv, LockInv, Receive
<1>9. ShutdownInv'
    BY <1>1, <1>2 DEF WorkerInv, ShutdownInv, Receive
<1>10. QED BY <1>3, <1>4, <1>5, <1>6, <1>7, <1>8, <1>9 DEF WorkerInv

(* WarmUp keeps it: the child is ready.                                    *)
LEMMA WarmUpKeeps ==
    ASSUME NEW p \in Procs, WorkerInv, WarmUp(p)
    PROVE  WorkerInv'
<1>1. TypeOK'
    BY DEF WorkerInv, TypeOK, WarmUp
<1>2. LockInv'
    BY DEF WorkerInv, LockInv, WarmUp
<1>3. HandleInv'
    BY DEF WorkerInv, HandleInv, SingleProcess, WarmUp
<1>4. StartInv'
    BY DEF WorkerInv, StartInv, TypeOK, WarmUp
<1>5. ExchangeInv'
    BY DEF WorkerInv, ExchangeInv, WarmUp
<1>6. RepliesMatch'
    BY DEF WorkerInv, RepliesMatch, WarmUp
<1>7. ShutdownInv'
    BY DEF WorkerInv, ShutdownInv, WarmUp
<1>8. QED BY <1>1, <1>2, <1>3, <1>4, <1>5, <1>6, <1>7 DEF WorkerInv

(* WarmUpFails keeps it: the child cannot start.                           *)
LEMMA WarmUpFailsKeeps ==
    ASSUME NEW p \in Procs, WorkerInv, WarmUpFails(p)
    PROVE  WorkerInv'
<1>1. TypeOK'
    BY DEF WorkerInv, TypeOK, WarmUpFails, FaultsNow
<1>2. LockInv'
    BY DEF WorkerInv, LockInv, WarmUpFails, FaultsNow
<1>3. HandleInv'
    BY DEF WorkerInv, HandleInv, SingleProcess, WarmUpFails, FaultsNow
<1>4. StartInv'
    BY DEF WorkerInv, StartInv, TypeOK, WarmUpFails, FaultsNow
<1>5. ExchangeInv'
    BY DEF WorkerInv, ExchangeInv, WarmUpFails, FaultsNow
<1>6. RepliesMatch'
    BY DEF WorkerInv, RepliesMatch, WarmUpFails, FaultsNow
<1>7. ShutdownInv'
    BY DEF WorkerInv, ShutdownInv, WarmUpFails, FaultsNow
<1>8. QED BY <1>1, <1>2, <1>3, <1>4, <1>5, <1>6, <1>7 DEF WorkerInv

(* WarmUpHangs keeps it: the child hangs.                                  *)
LEMMA WarmUpHangsKeeps ==
    ASSUME NEW p \in Procs, WorkerInv, WarmUpHangs(p)
    PROVE  WorkerInv'
<1>1. TypeOK'
    BY DEF WorkerInv, TypeOK, WarmUpHangs, FaultsNow
<1>2. LockInv'
    BY DEF WorkerInv, LockInv, WarmUpHangs, FaultsNow
<1>3. HandleInv'
    BY DEF WorkerInv, HandleInv, SingleProcess, WarmUpHangs, FaultsNow
<1>4. StartInv'
    BY DEF WorkerInv, StartInv, WarmUpHangs, FaultsNow
<1>5. ExchangeInv'
    BY DEF WorkerInv, ExchangeInv, WarmUpHangs, FaultsNow
<1>6. RepliesMatch'
    BY DEF WorkerInv, RepliesMatch, WarmUpHangs, FaultsNow
<1>7. ShutdownInv'
    BY DEF WorkerInv, ShutdownInv, WarmUpHangs, FaultsNow
<1>8. QED BY <1>1, <1>2, <1>3, <1>4, <1>5, <1>6, <1>7 DEF WorkerInv

(* TakeRequest keeps it: the child reads a request.                        *)
LEMMA TakeRequestKeeps ==
    ASSUME NEW p \in Procs, WorkerInv, TakeRequest(p)
    PROVE  WorkerInv'
<1>1. TypeOK'
    BY DEF WorkerInv, TypeOK, TakeRequest
<1>2. LockInv'
    BY DEF WorkerInv, LockInv, TakeRequest
<1>3. HandleInv'
    BY DEF WorkerInv, HandleInv, SingleProcess, TakeRequest
<1>4. StartInv'
    BY DEF WorkerInv, StartInv, TakeRequest
<1>5. ExchangeInv'
    BY DEF WorkerInv, ExchangeInv, TakeRequest
<1>6. RepliesMatch'
    BY DEF WorkerInv, RepliesMatch, TakeRequest
<1>7. ShutdownInv'
    BY DEF WorkerInv, ShutdownInv, TakeRequest
<1>8. QED BY <1>1, <1>2, <1>3, <1>4, <1>5, <1>6, <1>7 DEF WorkerInv

(* Answer keeps it: the child answers.                                     *)
LEMMA AnswerKeeps ==
    ASSUME NEW p \in Procs, WorkerInv, Answer(p)
    PROVE  WorkerInv'
<1>1. TypeOK'
    BY DEF WorkerInv, TypeOK, Answer
<1>2. LockInv'
    BY DEF WorkerInv, LockInv, Answer
<1>3. HandleInv'
    BY DEF WorkerInv, HandleInv, SingleProcess, Answer
<1>4. StartInv'
    BY DEF WorkerInv, StartInv, Answer
<1>5. ExchangeInv'
    BY DEF WorkerInv, ExchangeInv, TypeOK, Answer
<1>6. RepliesMatch'
    BY DEF WorkerInv, RepliesMatch, Answer
<1>7. ShutdownInv'
    BY DEF WorkerInv, ShutdownInv, Answer
<1>8. QED BY <1>1, <1>2, <1>3, <1>4, <1>5, <1>6, <1>7 DEF WorkerInv

(* Crash keeps it: the child dies.                                         *)
LEMMA CrashKeeps ==
    ASSUME NEW p \in Procs, WorkerInv, Crash(p)
    PROVE  WorkerInv'
<1>1. TypeOK'
    BY DEF WorkerInv, TypeOK, Crash, FaultsNow
<1>2. LockInv'
    BY DEF WorkerInv, LockInv, Crash, FaultsNow
<1>3. HandleInv'
    BY DEF WorkerInv, HandleInv, SingleProcess, Crash, FaultsNow
<1>4. StartInv'
    BY DEF WorkerInv, StartInv, Crash, FaultsNow
<1>5. ExchangeInv'
    BY DEF WorkerInv, ExchangeInv, TypeOK, Crash, FaultsNow
<1>6. RepliesMatch'
    BY DEF WorkerInv, RepliesMatch, Crash, FaultsNow
<1>7. ShutdownInv'
    BY DEF WorkerInv, ShutdownInv, Crash, FaultsNow
<1>8. QED BY <1>1, <1>2, <1>3, <1>4, <1>5, <1>6, <1>7 DEF WorkerInv

(* DoomedExits keeps it: a killed process ends.                            *)
LEMMA DoomedExitsKeeps ==
    ASSUME NEW p \in Procs, WorkerInv, DoomedExits(p)
    PROVE  WorkerInv'
<1>1. TypeOK'
    BY DEF WorkerInv, TypeOK, DoomedExits
<1>2. LockInv'
    BY DEF WorkerInv, LockInv, DoomedExits
<1>3. HandleInv'
    BY DEF WorkerInv, HandleInv, SingleProcess, DoomedExits
<1>4. StartInv'
    BY DEF WorkerInv, StartInv, DoomedExits
<1>5. ExchangeInv'
    BY DEF WorkerInv, ExchangeInv, DoomedExits
<1>6. RepliesMatch'
    BY DEF WorkerInv, RepliesMatch, DoomedExits
<1>7. ShutdownInv'
    BY DEF WorkerInv, ShutdownInv, DoomedExits
<1>8. QED BY <1>1, <1>2, <1>3, <1>4, <1>5, <1>6, <1>7 DEF WorkerInv

(* HealthUnavailable keeps it: an unlocked read of ready.                  *)
LEMMA HealthUnavailableKeeps ==
    ASSUME WorkerInv, HealthUnavailable
    PROVE  WorkerInv'
<1>1. TypeOK'
    BY DEF WorkerInv, TypeOK, HealthUnavailable
<1>2. LockInv'
    BY DEF WorkerInv, LockInv, HealthUnavailable
<1>3. HandleInv'
    BY DEF WorkerInv, HandleInv, SingleProcess, HealthUnavailable
<1>4. StartInv'
    BY DEF WorkerInv, StartInv, HealthUnavailable
<1>5. ExchangeInv'
    BY DEF WorkerInv, ExchangeInv, HealthUnavailable
<1>6. RepliesMatch'
    BY DEF WorkerInv, RepliesMatch, HealthUnavailable
<1>7. ShutdownInv'
    BY DEF WorkerInv, ShutdownInv, HealthUnavailable
<1>8. QED BY <1>1, <1>2, <1>3, <1>4, <1>5, <1>6, <1>7 DEF WorkerInv

(* HealthRecovers keeps it: health schedules recovery.                     *)
LEMMA HealthRecoversKeeps ==
    ASSUME WorkerInv, HealthRecovers
    PROVE  WorkerInv'
<1>1. RecoverEffect
    BY RecoverHas DEF WorkerInv, HealthRecovers
<1>2. process' \in Procs \cup {None} /\ pstate' \in [Procs -> ProcessStates]
    BY <1>1 DEF WorkerInv, TypeOK, RecoverEffect, RestartEffect, StopEffect
<1>3. request' \in [Procs -> Requests \cup {None}] /\ reply' \in [Procs -> Messages \cup
    {None}]
    BY <1>1 DEF WorkerInv, TypeOK, RecoverEffect, RestartEffect, StopEffect
<1>4. starter' \in [Starters -> StarterStates] /\ faults' \in 0..MaxFaults
    BY <1>1 DEF WorkerInv, TypeOK, RecoverEffect, RestartEffect, StopEffect
<1>5. TypeOK'
    BY <1>1, <1>2, <1>3, <1>4 DEF WorkerInv, TypeOK, HealthRecovers, RecoverEffect,
           RestartEffect, StopEffect
<1>6. LockInv'
    BY <1>1 DEF WorkerInv, LockInv, TypeOK, HealthRecovers, RecoverEffect, RestartEffect,
           StopEffect
<1>7. HandleInv'
    BY <1>1 DEF WorkerInv, HandleInv, SingleProcess, HealthRecovers, RecoverEffect,
           RestartEffect, StopEffect
<1>8. StartInv'
    BY <1>1 DEF WorkerInv, StartInv, TypeOK, LockInv, HealthRecovers, RecoverEffect,
           RestartEffect, StopEffect
<1>9. ExchangeInv'
    BY <1>1 DEF WorkerInv, ExchangeInv, TypeOK, LockInv, HealthRecovers, RecoverEffect,
           RestartEffect, StopEffect
<1>10. RepliesMatch'
    BY <1>1 DEF WorkerInv, RepliesMatch, HealthRecovers, RecoverEffect, RestartEffect,
           StopEffect
<1>11. ShutdownInv'
    BY <1>1 DEF WorkerInv, ShutdownInv, HealthRecovers, RecoverEffect, RestartEffect,
           StopEffect
<1>12. QED BY <1>5, <1>6, <1>7, <1>8, <1>9, <1>10, <1>11 DEF WorkerInv

(* RequestShutdown keeps it: the shutdown flag is set.                     *)
LEMMA RequestShutdownKeeps ==
    ASSUME WorkerInv, RequestShutdown
    PROVE  WorkerInv'
<1>1. TypeOK'
    BY DEF WorkerInv, TypeOK, RequestShutdown
<1>2. LockInv'
    BY DEF WorkerInv, LockInv, RequestShutdown
<1>3. HandleInv'
    BY DEF WorkerInv, HandleInv, SingleProcess, RequestShutdown
<1>4. StartInv'
    BY DEF WorkerInv, StartInv, RequestShutdown
<1>5. ExchangeInv'
    BY DEF WorkerInv, ExchangeInv, RequestShutdown
<1>6. RepliesMatch'
    BY DEF WorkerInv, RepliesMatch, RequestShutdown
<1>7. ShutdownInv'
    BY DEF WorkerInv, ShutdownInv, RequestShutdown
<1>8. QED BY <1>1, <1>2, <1>3, <1>4, <1>5, <1>6, <1>7 DEF WorkerInv

(* ShutdownStops keeps it: shutdown()'s own stop().                        *)
LEMMA ShutdownStopsKeeps ==
    ASSUME WorkerInv, ShutdownStops
    PROVE  WorkerInv'
<1>1. StopEffect /\ (shutdown' = "joining" => process' = None)
    BY StopHas, None \notin Procs DEF WorkerInv, ShutdownStops, Stop, EndProcess,
           SurviveKill
<1>2. TypeOK'
    BY <1>1 DEF WorkerInv, TypeOK, ShutdownStops, StopEffect
<1>3. LockInv'
    BY <1>1 DEF WorkerInv, LockInv, ShutdownStops, StopEffect
<1>4. HandleInv'
    BY <1>1 DEF WorkerInv, HandleInv, SingleProcess, ShutdownStops, StopEffect
<1>5. StartInv'
    BY <1>1 DEF WorkerInv, StartInv, TypeOK, LockInv, ShutdownStops, StopEffect
<1>6. ExchangeInv'
    BY <1>1 DEF WorkerInv, ExchangeInv, TypeOK, LockInv, ShutdownStops, StopEffect
<1>7. RepliesMatch'
    BY <1>1 DEF WorkerInv, RepliesMatch, ShutdownStops, StopEffect
<1>8. ShutdownInv'
    BY <1>1 DEF WorkerInv, ShutdownInv, TypeOK, LockInv, ShutdownStops, StopEffect
<1>9. QED BY <1>2, <1>3, <1>4, <1>5, <1>6, <1>7, <1>8 DEF WorkerInv

(* ShutdownReturns keeps it: shutdown() returns.                           *)
LEMMA ShutdownReturnsKeeps ==
    ASSUME WorkerInv, ShutdownReturns
    PROVE  WorkerInv'
<1>1. TypeOK'
    BY DEF WorkerInv, TypeOK, ShutdownReturns
<1>2. LockInv'
    BY DEF WorkerInv, LockInv, ShutdownReturns
<1>3. HandleInv'
    BY DEF WorkerInv, HandleInv, SingleProcess, ShutdownReturns
<1>4. StartInv'
    BY DEF WorkerInv, StartInv, ShutdownReturns
<1>5. ExchangeInv'
    BY DEF WorkerInv, ExchangeInv, ShutdownReturns
<1>6. RepliesMatch'
    BY DEF WorkerInv, RepliesMatch, ShutdownReturns
<1>7. ShutdownInv'
    BY DEF WorkerInv, ShutdownInv, ShutdownReturns
<1>8. QED BY <1>1, <1>2, <1>3, <1>4, <1>5, <1>6, <1>7 DEF WorkerInv

(* The invariant holds initially.                                          *)
LEMMA InitHolds == Init => WorkerInv
<1> SUFFICES ASSUME Init PROVE WorkerInv
    OBVIOUS
<1>1. TypeOK
  <2>1. starter \in [Starters -> StarterStates] /\ faults \in 0..MaxFaults
    BY DEF Init, Created
  <2>2. reply \in [Procs -> Messages \cup {None}] /\ request \in [Procs -> Requests \cup
      {None}]
    BY DEF Init, Created
  <2>3. pstate \in [Procs -> ProcessStates]
    BY DEF Init, Created
  <2>4. caller \in [Callers -> {"idle", "blocked", "admitted", "waiting"}]
    BY DEF Init, Created
  <2>5. QED BY <2>1, <2>2, <2>3, <2>4 DEF Init, Created, TypeOK
<1>2. LockInv
    BY DEF Init, Created, LockInv
<1>3. HandleInv
    BY DEF Init, Created, HandleInv, SingleProcess
<1>4. StartInv
    BY DEF Init, Created, StartInv
<1>5. ExchangeInv
    BY DEF Init, Created, ExchangeInv
<1>6. RepliesMatch
    BY DEF Init, Created, RepliesMatch
<1>7. ShutdownInv
    BY DEF Init, Created, ShutdownInv
<1>8. QED BY <1>1, <1>2, <1>3, <1>4, <1>5, <1>6, <1>7 DEF WorkerInv

(* Every step keeps the invariant, by the lemma of its action.             *)
LEMMA StepKeeps == WorkerInv /\ [Next]_vars => WorkerInv'
<1> SUFFICES ASSUME WorkerInv, [Next]_vars PROVE WorkerInv'
    OBVIOUS
<1>1. ASSUME NEW t \in Starters, StartStep(t) PROVE WorkerInv'
  <2>1. CASE AlreadyStarted(t)
    BY <2>1, AlreadyStartedKeeps
  <2>2. CASE ClearOldProcess(t)
    BY <2>2, ClearOldProcessKeeps
  <2>3. CASE Spawn(t)
    BY <2>3, SpawnKeeps
  <2>4. CASE SpawnFails(t)
    BY <2>4, SpawnFailsKeeps
  <2>5. CASE StartStopped(t)
    BY <2>5, StartStoppedKeeps
  <2>6. CASE StartPolls(t)
    BY <2>6, StartPollsKeeps
  <2>7. CASE StartPollElapses(t)
    BY <2>7, StartPollElapsesKeeps
  <2>8. CASE StartReceivesReady(t)
    BY <2>8, StartReceivesReadyKeeps
  <2>9. CASE StartReceivesFailure(t)
    BY <2>9, StartReceivesFailureKeeps
  <2>10. CASE StarterEnds(t)
    BY <2>10, StarterEndsKeeps
  <2>11. QED BY <1>1, <2>1, <2>2, <2>3, <2>4, <2>5, <2>6, <2>7, <2>8, <2>9, <2>10 DEF
      StartStep
<1>2. ASSUME NEW c \in Callers, NEW r \in Requests, Call(c, r) PROVE WorkerInv'
    BY <1>2, CallKeeps
<1>3. ASSUME NEW c \in Callers, ExecuteStep(c) PROVE WorkerInv'
  <2>1. CASE ExpiredInQueue(c)
    BY <2>1, ExpiredInQueueKeeps
  <2>2. CASE Unavailable(c)
    BY <2>2, UnavailableKeeps
  <2>3. CASE Admit(c)
    BY <2>3, AdmitKeeps
  <2>4. CASE Send(c)
    BY <2>4, SendKeeps
  <2>5. CASE ExchangeFails(c)
    BY <2>5, ExchangeFailsKeeps
  <2>6. CASE ReceivesReset(c)
    BY <2>6, ReceivesResetKeeps
  <2>7. CASE Receive(c)
    BY <2>7, ReceiveKeeps
  <2>8. QED BY <1>3, <2>1, <2>2, <2>3, <2>4, <2>5, <2>6, <2>7 DEF ExecuteStep
<1>4. ASSUME NEW p \in Procs, ChildStep(p) PROVE WorkerInv'
  <2>1. CASE WarmUp(p)
    BY <2>1, WarmUpKeeps
  <2>2. CASE WarmUpFails(p)
    BY <2>2, WarmUpFailsKeeps
  <2>3. CASE WarmUpHangs(p)
    BY <2>3, WarmUpHangsKeeps
  <2>4. CASE TakeRequest(p)
    BY <2>4, TakeRequestKeeps
  <2>5. CASE Answer(p)
    BY <2>5, AnswerKeeps
  <2>6. CASE Crash(p)
    BY <2>6, CrashKeeps
  <2>7. CASE DoomedExits(p)
    BY <2>7, DoomedExitsKeeps
  <2>8. QED BY <1>4, <2>1, <2>2, <2>3, <2>4, <2>5, <2>6, <2>7 DEF ChildStep
<1>5. CASE HealthUnavailable
    BY <1>5, HealthUnavailableKeeps
<1>6. CASE HealthRecovers
    BY <1>6, HealthRecoversKeeps
<1>7. CASE RequestShutdown
    BY <1>7, RequestShutdownKeeps
<1>8. CASE ShutdownStops
    BY <1>8, ShutdownStopsKeeps
<1>9. CASE ShutdownReturns
    BY <1>9, ShutdownReturnsKeeps
<1>10. CASE UNCHANGED vars
    BY <1>10 DEF WorkerInv, TypeOK, LockInv, HandleInv, SingleProcess, StartInv,
           ExchangeInv, RepliesMatch, ShutdownInv
<1>11. CASE Terminated
    BY <1>11, <1>10 DEF Terminated
<1>12. QED BY <1>1, <1>2, <1>3, <1>4, <1>5, <1>6, <1>7, <1>8, <1>9, <1>10, <1>11 DEF Next

(* The strengthened invariant holds in every reachable state.              *)
THEOREM WorkerInvariant == Spec => []WorkerInv
    BY InitHolds, StepKeeps, PTL DEF Spec

(* Every variable keeps its type.                                          *)
THEOREM TypeCorrect == Spec => []TypeOK
<1>1. WorkerInv => TypeOK
    BY DEF WorkerInv
<1>2. QED BY <1>1, WorkerInvariant, PTL

(* At most one worker process is ever alive and it is the one held: no     *)
(* timeout, crash, survived kill, restart or shutdown leaks a process.     *)
THEOREM AtMostOneProcess == Spec => []SingleProcess
<1>1. WorkerInv => SingleProcess
    BY DEF WorkerInv, HandleInv
<1>2. QED BY <1>1, WorkerInvariant, PTL

(* A call returns the answer to its own request or raises.                 *)
THEOREM AnswersAreTheCallers == Spec => []RepliesMatch
<1>1. WorkerInv => RepliesMatch
    BY DEF WorkerInv
<1>2. QED BY <1>1, WorkerInvariant, PTL

(* A ready worker that nobody uses is connected, idle, and its pipe empty. *)
THEOREM ReadyMeansServing == Spec => []ReadyIsServing
<1>1. WorkerInv => ReadyIsServing
  <2> SUFFICES ASSUME WorkerInv, Ready, Free PROVE ReadyIsServing
    BY DEF ReadyIsServing
  <2>1. connection = process /\ connection # None /\ is_ready
    BY DEF WorkerInv, HandleInv
  <2>2. \A c \in Callers : caller[c] # "waiting"
    BY DEF WorkerInv, LockInv
  <2>3. QED BY <2>1, <2>2 DEF WorkerInv, ExchangeInv, ReadyIsServing
<1>2. QED BY <1>1, WorkerInvariant, PTL

(* A shutdown that reports success leaves no process alive.                *)
THEOREM ShutdownLeavesNothing == Spec => []ShutdownIsFinal
<1>1. WorkerInv => ShutdownIsFinal
    BY DEF WorkerInv, ShutdownInv, ShutdownIsFinal
<1>2. QED BY <1>1, WorkerInvariant, PTL

(* After shutdown's stop() no action makes a process alive.                 *)
LEMMA NothingSpawns ==
    ASSUME WorkerInv, Next, shutdown \notin {"off", "requested"}
    PROVE  \A p \in Procs : Alive(p)' => Alive(p)
<1>1. ASSUME NEW t \in Starters, StartStep(t) PROVE \A p \in Procs : Alive(p)' => Alive(p)
    BY <1>1, StopHas DEF WorkerInv, ShutdownInv, StopEffect, StartStep, AlreadyStarted,
           ClearOldProcess,
       Spawn, SpawnFails, StartStopped, StartPolls, StartPollElapses, StartReceivesReady,
       StartReceivesFailure, StarterEnds
<1>2. ASSUME NEW c \in Callers, ExecuteStep(c) PROVE \A p \in Procs : Alive(p)' => Alive(p)
    BY <1>2, RecoverHas, RestartHas DEF WorkerInv, RecoverEffect, RestartEffect,
           StopEffect, ExecuteStep,
       ExpiredInQueue, Unavailable, Admit, Send, ExchangeFails, ReceivesReset, Receive
<1>3. ASSUME NEW q \in Procs, ChildStep(q) PROVE \A p \in Procs : Alive(p)' => Alive(p)
    BY <1>3 DEF WorkerInv, TypeOK, ChildStep, WarmUp, WarmUpFails, WarmUpHangs,
           TakeRequest, Answer,
       Crash, DoomedExits
<1>4. CASE HealthRecovers
    BY <1>4, RecoverHas DEF WorkerInv, RecoverEffect, RestartEffect, StopEffect,
           HealthRecovers
<1>5. CASE ShutdownStops
    BY <1>5 DEF ShutdownStops
<1>6. CASE \/ \E c \in Callers, r \in Requests : Call(c, r)
           \/ HealthUnavailable \/ RequestShutdown \/ ShutdownReturns \/ Terminated
    BY <1>6 DEF Call, HealthUnavailable, RequestShutdown, ShutdownReturns, Terminated
<1>7. QED BY <1>1, <1>2, <1>3, <1>4, <1>5, <1>6 DEF Next

(* After shutdown()'s own stop() no step brings a process to life.         *)
THEOREM ShutdownStaysDown == Spec => NoSpawnAfterShutdown
<1>1. WorkerInv /\ [Next]_vars =>
        [shutdown \notin {"off", "requested"} => \A p \in Procs : Alive(p)' =>
            Alive(p)]_vars
    BY NothingSpawns
<1>2. QED BY <1>1, WorkerInvariant, PTL DEF Spec, NoSpawnAfterShutdown
=============================================================================
