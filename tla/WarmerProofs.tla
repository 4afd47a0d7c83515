--------------------------- MODULE WarmerProofs ----------------------------
(***************************************************************************)
(* Proofs about Warmer for any requests, limiter, candidates and bounds.   *)
(*                                                                         *)
(* That warming yields is decided at inspection and after the start of a   *)
(* worker by comparing a generation taken when the candidate was selected. *)
(* GenerationInv says why that is enough: as long as the generation is     *)
(* still the same, whoever is under way arrived before the selection, and  *)
(* those have all reached the limiter once the inspection is over.         *)
(***************************************************************************)
EXTENDS Warmer, TLAPS

AtWork == {"inspecting", "starting", "probing", "solving", "publishing"}

GenerationInv ==
    /\ pc \in AtWork =>
        /\ entry \in [fingerprint : Fingerprints, stamp : Stamps]
        /\ held # None /\ held <= generation
        /\ generation = held => \A q \in Requests : fg[q] = "arriving" => q \in early
    /\ pc \in AtWork \ {"inspecting"} => early = {}
    /\ pc = "selecting" /\ held # None => held = generation

WarmerInv == TypeOK /\ GenerationInv /\ NoProcessForgotten /\ WorkerEndsWithCycle

-----------------------------------------------------------------------------
LEMMA IdleMeansNobody ==
    ASSUME TypeOK, idle_generation # None
    PROVE  /\ idle_generation = generation
           /\ \A q \in Requests : fg[q] \in {"idle", "arriving"}
BY DEF TypeOK, idle_generation, In

LEMMA MayReplayMeansIdle ==
    ASSUME WarmerInv, pc \in AtWork, early = {}, MayReplay
    PROVE  \A q \in Requests : fg[q] = "idle"
<1>1. idle_generation # None /\ held = generation
    BY IdleMeansNobody DEF WarmerInv, GenerationInv, MayReplay
<1>2. QED BY <1>1, IdleMeansNobody DEF WarmerInv, GenerationInv

(* What happens beside the cycle.                                          *)
LEMMA OthersKeep ==
    ASSUME WarmerInv,
           \/ \E q \in Requests : Arrive(q) \/ Acquire(q) \/ Finish(q)
           \/ \E f \in Fingerprints : Record(f) \/ Drop(f)
           \/ Stop \/ ProcessDies \/ ThreadEnds
    PROVE  WarmerInv'
<1> USE WarmerAssumption DEF WarmerInv
<1>1. ASSUME NEW q \in Requests, Arrive(q) PROVE WarmerInv'
  <2>1. TypeOK'
    BY <1>1 DEF Arrive, TypeOK, loopVars, workerVars, candidateVars
  <2>2. GenerationInv'
    BY <1>1 DEF Arrive, AtAwait, TypeOK, GenerationInv, AtWork, loopVars
  <2>3. NoProcessForgotten' /\ WorkerEndsWithCycle'
    BY <1>1 DEF Arrive, workerVars, NoProcessForgotten, WorkerEndsWithCycle
  <2>4. QED BY <2>1, <2>2, <2>3
<1>2. ASSUME NEW q \in Requests, Acquire(q) PROVE WarmerInv'
  <2>1. TypeOK'
    BY <1>2 DEF Acquire, TypeOK, workerVars, candidateVars
  <2>2. GenerationInv'
    BY <1>2 DEF Acquire, TypeOK, GenerationInv, AtWork
  <2>3. NoProcessForgotten' /\ WorkerEndsWithCycle'
    BY <1>2 DEF Acquire, workerVars, NoProcessForgotten, WorkerEndsWithCycle
  <2>4. QED BY <2>1, <2>2, <2>3
<1>3. ASSUME NEW q \in Requests, Finish(q) PROVE WarmerInv'
  <2>1. fg' \in [Requests -> {"idle", "arriving", "waiting", "running"}]
    BY <1>3 DEF Finish, In, TypeOK
  <2>2. \A p \in Requests : fg'[p] = "arriving" => fg[p] = "arriving"
    BY <1>3 DEF Finish, In, TypeOK
  <2>3. TypeOK'
    BY <1>3, <2>1 DEF Finish, TypeOK, loopVars, workerVars, candidateVars
  <2>4. GenerationInv'
    BY <1>3, <2>2 DEF Finish, TypeOK, GenerationInv, AtWork, loopVars
  <2>5. NoProcessForgotten' /\ WorkerEndsWithCycle'
    BY <1>3 DEF Finish, workerVars, NoProcessForgotten, WorkerEndsWithCycle
  <2>6. QED BY <2>3, <2>4, <2>5
<1>4. ASSUME NEW f \in Fingerprints, Record(f) \/ Drop(f) PROVE WarmerInv'
  <2>1. TypeOK'
    BY <1>4 DEF Record, Drop, TypeOK, Stamps, fgVars, loopVars, workerVars
  <2>2. GenerationInv'
    BY <1>4 DEF Record, Drop, GenerationInv, fgVars, loopVars
  <2>3. NoProcessForgotten' /\ WorkerEndsWithCycle'
    BY <1>4 DEF Record, Drop, workerVars, NoProcessForgotten, WorkerEndsWithCycle
  <2>4. QED BY <2>1, <2>2, <2>3
<1>5. CASE Stop
    BY <1>5 DEF Stop, TypeOK, GenerationInv, NoProcessForgotten, WorkerEndsWithCycle,
       fgVars, loopVars, workerVars, candidateVars
<1>6. CASE ProcessDies
    BY <1>6 DEF ProcessDies, TypeOK, GenerationInv, NoProcessForgotten,
       WorkerEndsWithCycle, fgVars, loopVars, candidateVars
<1>7. CASE ThreadEnds
    BY <1>7 DEF ThreadEnds, StopWorker, Ready, TypeOK, GenerationInv, NoProcessForgotten,
       WorkerEndsWithCycle, fgVars, loopVars, candidateVars
<1>8. QED BY <1>1, <1>2, <1>3, <1>4, <1>5, <1>6, <1>7

(* The selection of a candidate.                                           *)
LEMMA SelectionKeeps ==
    ASSUME WarmerInv,
           StartCycle \/ End \/ Break \/ \E f \in Fingerprints : Skip(f) \/ Select(f)
    PROVE  WarmerInv'
<1> USE WarmerAssumption DEF WarmerInv
<1>1. CASE StartCycle
  <2>1. batch' \subseteq Fingerprints
    BY <1>1 DEF StartCycle, Eligible
  <2>2. TypeOK'
    BY <1>1, <2>1 DEF StartCycle, TypeOK, fgVars, workerVars, candidateVars
  <2>3. GenerationInv'
    BY <1>1 DEF StartCycle, GenerationInv, AtWork
  <2>4. NoProcessForgotten'
    BY <1>1 DEF StartCycle, workerVars, NoProcessForgotten
  <2>5. WorkerEndsWithCycle'
    BY <1>1, <2>2 DEF StartCycle, TypeOK, WorkerEndsWithCycle
  <2>6. QED BY <2>2, <2>3, <2>4, <2>5
<1>2. CASE End \/ Break
    BY <1>2 DEF End, Break, TypeOK, GenerationInv, AtWork, NoProcessForgotten,
       WorkerEndsWithCycle, fgVars, loopVars, workerVars, candidateVars
<1>3. ASSUME NEW f \in Fingerprints, Skip(f) PROVE WarmerInv'
    BY <1>3 DEF Skip, TypeOK, GenerationInv, AtWork, NoProcessForgotten,
       WorkerEndsWithCycle, fgVars, workerVars, candidateVars
<1>4. ASSUME NEW f \in Fingerprints, Select(f) PROVE WarmerInv'
  <2>1. held' = generation /\ generation \in 0..MaxGeneration
    BY <1>4, IdleMeansNobody DEF Select, TypeOK
  <2>2. entry' \in [fingerprint : Fingerprints, stamp : Stamps]
    BY <1>4 DEF Select, TypeOK
  <2>3. TypeOK'
    BY <1>4, <2>1, <2>2 DEF Select, In, TypeOK, fgVars, workerVars, candidateVars
  <2>4. GenerationInv'
    BY <1>4, <2>1, <2>2 DEF Select, In, TypeOK, GenerationInv, AtWork, fgVars
  <2>5. NoProcessForgotten' /\ WorkerEndsWithCycle'
    BY <1>4 DEF Select, workerVars, NoProcessForgotten, WorkerEndsWithCycle
  <2>6. QED BY <2>3, <2>4, <2>5
<1>5. QED BY <1>1, <1>2, <1>3, <1>4

(* Inspection and the start of the worker.                                 *)
LEMMA InspectionKeeps ==
    ASSUME WarmerInv,
           \/ InspectedOnly \/ InspectedLocal \/ InspectedMiss \/ InspectionRaises
           \/ StartSucceeds \/ StartFails
    PROVE  WarmerInv'
<1> USE WarmerAssumption DEF WarmerInv
<1>1. CASE InspectedOnly \/ InspectedMiss \/ InspectionRaises
    BY <1>1 DEF InspectedOnly, InspectedMiss, InspectionRaises, Inspected, 
       ContinueUnlessArrived, TypeOK, GenerationInv, AtWork, NoProcessForgotten,
       WorkerEndsWithCycle, fgVars, loopVars, workerVars, candidateVars
<1>2. CASE InspectedLocal
    BY <1>2 DEF InspectedLocal, Inspected, ContinueUnlessArrived, TypeOK, GenerationInv,
       AtWork, NoProcessForgotten, WorkerEndsWithCycle, fgVars, loopVars, workerVars
<1>3. CASE StartSucceeds \/ StartFails
  <2>1. TypeOK'
    BY <1>3 DEF StartSucceeds, StartFails, TypeOK, fgVars, loopVars, candidateVars
  <2>2. GenerationInv'
    BY <1>3 DEF StartSucceeds, StartFails, GenerationInv, AtWork, fgVars, loopVars
  <2>3. NoProcessForgotten'
    BY <1>3 DEF StartSucceeds, StartFails, NoProcessForgotten
  <2>4. pc' \notin {"sleeping", "ended"}
    BY <1>3 DEF StartSucceeds, StartFails
  <2>5. WorkerEndsWithCycle'
    BY <2>4 DEF WorkerEndsWithCycle
  <2>6. QED BY <2>1, <2>2, <2>3, <2>5
<1>4. QED BY <1>1, <1>2, <1>3

(* The replay and the end of the cycle.                                    *)
LEMMA ReplayKeeps ==
    ASSUME WarmerInv,
           \/ TimesOut \/ ProbeHits \/ ProbeMisses \/ Unavailable \/ ExchangeFails
           \/ ReplayRaises \/ SolverError \/ Solved \/ Published \/ Cancel \/ CleanUp
    PROVE  WarmerInv'
<1> USE WarmerAssumption DEF WarmerInv
<1>1. CASE TimesOut \/ Cancel
    BY <1>1 DEF TimesOut, Cancel, Replaying, ContinueIfReady, TypeOK, GenerationInv,
       AtWork, NoProcessForgotten, WorkerEndsWithCycle, fgVars, loopVars, candidateVars
<1>2. CASE ProbeHits \/ ProbeMisses \/ Solved \/ Published
    BY <1>2 DEF ProbeHits, ProbeMisses, Solved, Published, Ends, Executing, TypeOK,
       GenerationInv, AtWork, NoProcessForgotten, WorkerEndsWithCycle, fgVars, loopVars,
       workerVars, candidateVars
<1>3. CASE Unavailable \/ ExchangeFails
    BY <1>3 DEF Unavailable, ExchangeFails, StopWorker, Executing, ContinueIfReady,
       TypeOK, GenerationInv, AtWork, NoProcessForgotten, WorkerEndsWithCycle, fgVars,
       loopVars, candidateVars
<1>4. CASE ReplayRaises
    BY <1>4 DEF ReplayRaises, Executing, ContinueIfReady, TypeOK, GenerationInv, AtWork,
       NoProcessForgotten, WorkerEndsWithCycle, fgVars, loopVars, workerVars,
       candidateVars
<1>5. CASE SolverError
    BY <1>5 DEF SolverError, Executing, Ends, TypeOK, GenerationInv, AtWork,
       NoProcessForgotten, WorkerEndsWithCycle, fgVars, loopVars, workerVars
<1>6. CASE CleanUp
    BY <1>6 DEF CleanUp, StopWorker, TypeOK, GenerationInv, AtWork, NoProcessForgotten,
       WorkerEndsWithCycle, fgVars, loopVars, candidateVars
<1>7. QED BY <1>1, <1>2, <1>3, <1>4, <1>5, <1>6

-----------------------------------------------------------------------------
(* The inductive invariant.                                                *)
THEOREM WarmerInvariant == Spec => []WarmerInv
<1>1. Init => WarmerInv
  <2>1. Init => TypeOK
    <3> SUFFICES ASSUME Init PROVE TypeOK
        OBVIOUS
    <3>1. fg \in [Requests -> {"idle", "arriving", "waiting", "running"}]
        BY DEF Init
    <3>2. candidate \in [Fingerprints -> Stamps \cup {None}]
        BY DEF Init
    <3>3. generation \in 0..MaxGeneration /\ records \in 0..MaxRecords
        BY WarmerAssumption DEF Init
    <3>4. QED BY <3>1, <3>2, <3>3 DEF Init, TypeOK
  <2>2. Init => GenerationInv
    BY DEF Init, GenerationInv, AtWork
  <2>3. Init => NoProcessForgotten /\ WorkerEndsWithCycle
    BY DEF Init, NoProcessForgotten, WorkerEndsWithCycle
  <2>4. QED BY <2>1, <2>2, <2>3 DEF WarmerInv
<1>2. WarmerInv /\ [Next]_vars => WarmerInv'
  <2> SUFFICES ASSUME WarmerInv, [Next]_vars PROVE WarmerInv'
    OBVIOUS
  <2>1. CASE Next
    BY <2>1, OthersKeep, SelectionKeeps, InspectionKeeps, ReplayKeeps DEF Next, CycleStep
  <2>2. CASE UNCHANGED vars
    BY <2>2 DEF vars, fgVars, loopVars, workerVars, candidateVars, WarmerInv, TypeOK,
       GenerationInv, NoProcessForgotten, WorkerEndsWithCycle
  <2>3. QED BY <2>1, <2>2
<1>3. QED BY <1>1, <1>2, PTL DEF Spec

(* Every variable keeps its type.                                          *)
THEOREM WarmerTypeCorrect == Spec => []TypeOK
<1>1. WarmerInv => TypeOK
    BY DEF WarmerInv
<1>2. QED BY <1>1, WarmerInvariant, PTL

(* The cycle never loses hold of a process.                                *)
THEOREM ProcessIsHeld == Spec => []NoProcessForgotten
<1>1. WarmerInv => NoProcessForgotten
    BY DEF WarmerInv
<1>2. QED BY <1>1, WarmerInvariant, PTL

(* Nothing usable and no exchange is left between cycles.                  *)
THEOREM CycleEndsWorker == Spec => []WorkerEndsWithCycle
<1>1. WarmerInv => WorkerEndsWithCycle
    BY DEF WarmerInv
<1>2. QED BY <1>1, WarmerInvariant, PTL

(* Only the end of an inspection and of a start lead to a replay.          *)
LEMMA ReplayStarts ==
    ASSUME WarmerInv, Next, pc # "probing", pc' = "probing"
    PROVE  MayReplay /\ pc \in AtWork /\ early = {} /\ fg' = fg
<1>1. CASE InspectedMiss
    BY <1>1 DEF InspectedMiss, Inspected, AtWork, fgVars
<1>2. CASE StartSucceeds
    BY <1>2 DEF StartSucceeds, AtWork, fgVars, WarmerInv, GenerationInv
<1>3. CASE \/ \E q \in Requests : Arrive(q) \/ Acquire(q) \/ Finish(q)
           \/ \E f \in Fingerprints : Record(f) \/ Drop(f)
           \/ Stop \/ ProcessDies \/ ThreadEnds
    BY <1>3 DEF Arrive, Acquire, Finish, Record, Drop, Stop, ProcessDies, ThreadEnds
<1>4. CASE StartCycle \/ End \/ Break \/ \E f \in Fingerprints : Skip(f) \/ Select(f)
    BY <1>4 DEF StartCycle, End, Break, Skip, Select
<1>5. CASE InspectedOnly \/ InspectedLocal \/ InspectionRaises \/ StartFails
    BY <1>5 DEF InspectedOnly, InspectedLocal, InspectionRaises, StartFails,
       ContinueUnlessArrived
<1>6. CASE \/ TimesOut \/ ProbeHits \/ ProbeMisses \/ Unavailable \/ ExchangeFails
           \/ ReplayRaises \/ SolverError \/ Solved \/ Published \/ Cancel \/ CleanUp
    BY <1>6 DEF TimesOut, ProbeHits, ProbeMisses, Unavailable, ExchangeFails,
       ReplayRaises, SolverError, Solved, Published, Cancel, CleanUp, ContinueIfReady, Ends
<1>7. QED BY <1>1, <1>2, <1>3, <1>4, <1>5, <1>6 DEF Next, CycleStep

(* No replay starts beside foreground work, even work that has arrived and *)
(* not yet asked for a slot.                                               *)
THEOREM WarmingYields == Spec => YieldsToForeground
<1>1. WarmerInv /\ [Next]_vars =>
        [pc # "probing" /\ pc' = "probing" => \A q \in Requests : fg[q] = "idle"]_vars
    BY ReplayStarts, MayReplayMeansIdle
<1>2. QED BY <1>1, WarmerInvariant, PTL DEF Spec, YieldsToForeground

(* A replay that ends in a solver error only removes the candidate it took *)
(* up, as it was then.                                                     *)
THEOREM DiscardsAreCurrent == Spec => DiscardsOnlyUnchanged
<1> DEFINE Discard(f) == pc = "solving" /\ pc' # "solving" /\ candidate'[f] # candidate[f]
                            => entry = [fingerprint |-> f, stamp |-> candidate[f]]
<1>1. WarmerInv /\ [Next]_vars => [\A f \in Fingerprints : Discard(f)]_vars
  <2> SUFFICES ASSUME WarmerInv, Next, NEW f \in Fingerprints, pc = "solving",
                      pc' # "solving", candidate'[f] # candidate[f]
               PROVE  entry = [fingerprint |-> f, stamp |-> candidate[f]]
    OBVIOUS
  <2>1. CASE SolverError
    BY <2>1 DEF SolverError, WarmerInv, GenerationInv, AtWork, TypeOK
  <2>2. CASE \/ \E q \in Requests : Arrive(q) \/ Acquire(q) \/ Finish(q)
             \/ \E g \in Fingerprints : Record(g) \/ Drop(g)
             \/ Stop \/ ProcessDies \/ ThreadEnds
    BY <2>2 DEF Arrive, Acquire, Finish, Record, Drop, Stop, ProcessDies, ThreadEnds
  <2>3. CASE \/ TimesOut \/ Unavailable \/ ExchangeFails \/ ReplayRaises \/ Solved
             \/ Cancel
    BY <2>3 DEF TimesOut, Unavailable, ExchangeFails, ReplayRaises, Solved, Cancel,
       candidateVars
  <2>4. CASE \/ StartCycle \/ End \/ Break \/ \E g \in Fingerprints : Skip(g) \/ Select(g)
             \/ InspectedOnly \/ InspectedLocal \/ InspectedMiss \/ InspectionRaises
             \/ StartSucceeds \/ StartFails \/ ProbeHits \/ ProbeMisses \/ Published
             \/ CleanUp
    BY <2>4 DEF StartCycle, End, Break, Skip, Select, InspectedOnly, InspectedLocal,
       InspectedMiss, InspectionRaises, Inspected, StartSucceeds, StartFails, ProbeHits,
       ProbeMisses, Published, CleanUp
  <2>5. QED BY <2>1, <2>2, <2>3, <2>4 DEF Next, CycleStep
<1>2. QED BY <1>1, WarmerInvariant, PTL DEF Spec, DiscardsOnlyUnchanged

(* Only a selection leads to an inspection.                                *)
LEMMA InspectionStarts ==
    ASSUME Next, pc # "inspecting", pc' = "inspecting"
    PROVE  \E f \in Fingerprints : Select(f)
<1>1. CASE \/ \E q \in Requests : Arrive(q) \/ Acquire(q) \/ Finish(q)
           \/ \E f \in Fingerprints : Record(f) \/ Drop(f)
           \/ Stop \/ ProcessDies \/ ThreadEnds
    BY <1>1 DEF Arrive, Acquire, Finish, Record, Drop, Stop, ProcessDies, ThreadEnds
<1>2. CASE StartCycle \/ End \/ Break \/ \E f \in Fingerprints : Skip(f)
    BY <1>2 DEF StartCycle, End, Break, Skip
<1>3. CASE \/ InspectedOnly \/ InspectedLocal \/ InspectedMiss \/ InspectionRaises
           \/ StartSucceeds \/ StartFails
    BY <1>3 DEF InspectedOnly, InspectedLocal, InspectedMiss, InspectionRaises,
       StartSucceeds, StartFails, ContinueUnlessArrived
<1>4. CASE \/ TimesOut \/ ProbeHits \/ ProbeMisses \/ Unavailable \/ ExchangeFails
           \/ ReplayRaises \/ SolverError \/ Solved \/ Published \/ Cancel \/ CleanUp
    BY <1>4 DEF TimesOut, ProbeHits, ProbeMisses, Unavailable, ExchangeFails,
       ReplayRaises, SolverError, Solved, Published, Cancel, CleanUp, ContinueIfReady, Ends
<1>5. QED BY <1>1, <1>2, <1>3, <1>4 DEF Next, CycleStep

(* All requests of a cycle are taken up in one generation: the first       *)
(* arrival ends it.                                                        *)
THEOREM ArrivalEndsCycle == Spec => StopsAfterArrival
<1>1. WarmerInv /\ [Next]_vars =>
        [pc # "inspecting" /\ pc' = "inspecting" /\ held # None => held' = held]_vars
  <2> SUFFICES ASSUME WarmerInv, Next, pc # "inspecting", pc' = "inspecting", held # None
               PROVE  held' = held
    OBVIOUS
  <2>1. PICK f \in Fingerprints : Select(f)
    BY InspectionStarts
  <2>2. held' = generation
    BY <2>1, IdleMeansNobody DEF Select, WarmerInv
  <2>3. QED BY <2>1, <2>2 DEF Select, WarmerInv, GenerationInv
<1>2. QED BY <1>1, WarmerInvariant, PTL DEF Spec, StopsAfterArrival
=============================================================================
