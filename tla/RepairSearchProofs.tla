------------------------- MODULE RepairSearchProofs ------------------------
(***************************************************************************)
(* Proofs about ProcessPool and RepairSearch for any requests, platforms,  *)
(* lists of specs and limits.                                              *)
(*                                                                         *)
(* The worker answers one request at a time, so what a request has in the  *)
(* pool is settled when it is answered, but for the tasks that             *)
(* solve_environments leaves behind, and never changes afterwards.  The    *)
(* search therefore may judge a candidate by an answer it looks at later:  *)
(* all attempts before the current one are answered, those after it have   *)
(* nothing in the pool.                                                    *)
(***************************************************************************)
EXTENDS RepairSearch, FiniteSetTheorems, TLAPS

Untouched(r) == \A p \in Platforms : tasks[r][p] = "none"

(* What the pool has of a request that the worker is done with.            *)
RequestInv(r) ==
    /\ current = r => outcome[r] = None
    /\ outcome[r] = None /\ current # r => Untouched(r)
    /\ (\E p \in PlatformsOf[r] : tasks[r][p] = "none") => Untouched(r)
    /\ outcome[r] = "ok" =>
        \A p \in PlatformsOf[r] :
            /\ tasks[r][p] \in {"solved", "failed", "lost"}
            /\ r \in Rendered => tasks[r][p] = "solved"
    /\ r \notin Rendered /\ current # r =>
        \A p \in PlatformsOf[r] : tasks[r][p] \notin Pending

PoolInv == TypeOK /\ \A r \in Requests : RequestInv(r)

(* An answer stays, and so do the tasks of one that is not an error.       *)
Keeps(r) ==
    /\ outcome'[r] # outcome[r] => current = r
    /\ outcome[r] # None => outcome'[r] = outcome[r]
    /\ outcome[r] = "ok" => \A p \in PlatformsOf[r] : tasks'[r][p] = tasks[r][p]

-----------------------------------------------------------------------------
LEMMA RequestPlatforms ==
    ASSUME NEW r \in Requests
    PROVE  PlatformsOf[r] \subseteq Platforms /\ PlatformsOf[r] # {}
BY ProcessPoolAssumption DEF Platforms

LEMMA AloneIsOne ==
    ASSUME NEW r \in Requests, ~Several(r), NEW p \in PlatformsOf[r]
    PROVE  PlatformsOf[r] = {p}
<1>1. IsFiniteSet(PlatformsOf[r]) /\ PlatformsOf[r] # {}
  BY ProcessPoolAssumption
<1>2. Cardinality(PlatformsOf[r]) \in Nat /\ Cardinality(PlatformsOf[r]) # 0
  BY <1>1, FS_CardinalityType, FS_EmptySet
<1>3. Cardinality(PlatformsOf[r]) = 1
  BY <1>2 DEF Several
<1>4. QED BY <1>1, <1>3, FS_Singleton

(* A step that is only about request q.                                    *)
About(q) ==
    /\ current' \in {current, None} \/ (current = None /\ current' = q)
    /\ current' # current => current \in {None, q}
    /\ \A r \in Requests \ {q} :
        outcome'[r] = outcome[r] /\ \A p \in Platforms : tasks'[r][p] = tasks[r][p]

LEMMA OtherRequestsKept ==
    ASSUME PoolInv, NEW q \in Requests, About(q), NEW r \in Requests \ {q}
    PROVE  RequestInv(r)' /\ Keeps(r)
<1>1. RequestInv(r) /\ PlatformsOf[r] \subseteq Platforms /\ None # r
  BY RequestPlatforms, ProcessPoolAssumption DEF PoolInv
<1>2. outcome'[r] = outcome[r] /\ \A p \in Platforms : tasks'[r][p] = tasks[r][p]
  BY DEF About
<1>3. current' = r <=> current = r
  BY <1>1 DEF About
<1>4. Untouched(r) => Untouched(r)'
  BY <1>2 DEF Untouched
<1>5. RequestInv(r)'
  BY <1>1, <1>2, <1>3, <1>4 DEF RequestInv
<1>6. Keeps(r)
  BY <1>1, <1>2 DEF Keeps
<1>7. QED BY <1>5, <1>6

LEMMA PoolStepKept ==
    ASSUME PoolInv, TypeOK', NEW q \in Requests, About(q), RequestInv(q)', Keeps(q)
    PROVE  PoolInv' /\ \A r \in Requests : Keeps(r)
<1>1. ASSUME NEW r \in Requests \ {q} PROVE RequestInv(r)' /\ Keeps(r)
  BY <1>1, OtherRequestsKept
<1>2. QED BY <1>1 DEF PoolInv

LEMMA TakeKeeps ==
    ASSUME PoolInv, NEW q \in Requests, Take(q)
    PROVE  PoolInv' /\ \A r \in Requests : Keeps(r)
<1>1. TypeOK'
  BY DEF PoolInv, TypeOK, Take
<1>2. About(q)
  BY DEF Take, About
<1>3. RequestInv(q)' /\ Keeps(q)
  BY ProcessPoolAssumption DEF PoolInv, RequestInv, Untouched, Take, Keeps
<1>4. QED BY <1>1, <1>2, <1>3, PoolStepKept

LEMMA SubmitKeeps ==
    ASSUME PoolInv, NEW q \in Requests, Submit(q)
    PROVE  PoolInv' /\ \A r \in Requests : Keeps(r)
<1>0. TypeOK /\ RequestInv(q) /\ current = q /\ outcome[q] = None
  BY DEF PoolInv, RequestInv, Submit
<1>1. TypeOK'
  <2>1. tasks' \in [Requests -> [Platforms -> TaskStates \cup {"none"}]]
    BY <1>0 DEF TypeOK, Submit, TaskStates, Pending
  <2>2. \A r \in Requests : \A p \in Platforms \ PlatformsOf[r] : tasks'[r][p] = "none"
    BY <1>0 DEF TypeOK, Submit
  <2>3. QED BY <1>0, <2>1, <2>2 DEF TypeOK, Submit
<1>2. About(q)
  BY <1>0 DEF Submit, About, TypeOK
<1>3. RequestInv(q)' /\ Keeps(q)
  <2>1. \A p \in PlatformsOf[q] : tasks'[q][p] = "queued"
    BY <1>0, RequestPlatforms DEF Submit, TypeOK
  <2>2. QED BY <1>0, <2>1, ProcessPoolAssumption DEF RequestInv, Submit, Keeps
<1>4. QED BY <1>1, <1>2, <1>3, PoolStepKept

(* The worker answers: its request has all it needs for that.              *)
LEMMA AnswerKeeps ==
    ASSUME PoolInv, NEW q \in Requests, NEW status \in {"ok", "error", "timeout"},
           current = q, Answer(q, status), TypeOK', About(q),
           status = "ok" =>
               \A p \in PlatformsOf[q] :
                    /\ tasks'[q][p] \in {"solved", "failed", "lost"}
                    /\ q \in Rendered => tasks'[q][p] = "solved",
           q \notin Rendered => \A p \in PlatformsOf[q] : tasks'[q][p] \notin Pending,
           (\E p \in PlatformsOf[q] : tasks'[q][p] = "none") => Untouched(q)'
    PROVE  PoolInv' /\ \A r \in Requests : Keeps(r)
<1>0. TypeOK /\ RequestInv(q) /\ outcome[q] = None /\ None \notin {"ok", "error", "timeout"}
      /\ None # q
  BY ProcessPoolAssumption DEF PoolInv, RequestInv
<1>1. outcome'[q] = status /\ current' = None
  BY <1>0 DEF Answer, TypeOK
<1>2. RequestInv(q)' /\ Keeps(q)
  BY <1>0, <1>1 DEF RequestInv, Keeps
<1>3. QED BY <1>2, PoolStepKept

LEMMA SolveAloneKeeps ==
    ASSUME PoolInv, NEW q \in Requests, NEW p \in PlatformsOf[q],
           NEW state \in {"solved", "failed"}, SolveAlone(q, p, state)
    PROVE  PoolInv' /\ \A r \in Requests : Keeps(r)
<1> DEFINE status == IF state = "failed" /\ q \in Rendered THEN "error" ELSE "ok"
<1>0. TypeOK /\ current = q /\ PlatformsOf[q] = {p} /\ p \in Platforms
  BY AloneIsOne, RequestPlatforms DEF PoolInv, SolveAlone
<1>1. tasks' = [tasks EXCEPT ![q][p] = state] /\ Answer(q, status)
      /\ UNCHANGED <<process_pool, crashes>>
  BY DEF SolveAlone, Becomes
<1>2. tasks'[q][p] = state
      /\ \A r \in Requests \ {q} : tasks'[r] = tasks[r]
  BY <1>0, <1>1 DEF TypeOK
<1>3. TypeOK'
  <2>1. tasks' \in [Requests -> [Platforms -> TaskStates \cup {"none"}]]
    BY <1>0, <1>1 DEF TypeOK, TaskStates
  <2>2. \A r \in Requests : \A s \in Platforms \ PlatformsOf[r] : tasks'[r][s] = "none"
    BY <1>0, <1>1 DEF TypeOK
  <2>3. QED BY <1>0, <1>1, <2>1, <2>2 DEF TypeOK, Answer
<1>4. About(q)
  BY <1>0, <1>1, <1>2 DEF About, Answer, TypeOK
<1>5. QED BY <1>0, <1>1, <1>2, <1>3, <1>4, AnswerKeeps DEF Pending

LEMMA CollectsKeep ==
    ASSUME PoolInv, NEW q \in Requests, SubmitRaises(q) \/ CollectAll(q) \/ CollectRaises(q)
    PROVE  PoolInv' /\ \A r \in Requests : Keeps(r)
<1>0. /\ TypeOK /\ RequestInv(q) /\ current = q
      /\ UNCHANGED <<process_pool, tasks, crashes>>
      /\ Answer(q, "ok") \/ Answer(q, "error")
  BY DEF PoolInv, SubmitRaises, CollectAll, CollectRaises
<1>1. TypeOK' /\ About(q)
  BY <1>0 DEF TypeOK, Answer, About
<1>2. ASSUME q \notin Rendered, NEW p \in PlatformsOf[q] PROVE tasks'[q][p] \notin Pending
  <2>1. tasks[q][p] \in States(q)
    BY DEF States
  <2>2. CASE SubmitRaises(q)
    <3>1. Untouched(q) /\ p \in Platforms
      BY <1>0, <2>2, RequestPlatforms DEF RequestInv, SubmitRaises, Submitted, States
    <3>2. QED BY <1>0, <3>1 DEF Untouched, Pending
  <2>3. CASE CollectAll(q)
    BY <1>0, <2>1, <2>3 DEF CollectAll, Collected
  <2>4. CASE CollectRaises(q)
    BY <1>2, <2>4 DEF CollectRaises
  <2>5. QED BY <2>2, <2>3, <2>4
<1>3. CASE CollectAll(q)
  <2>1. ASSUME NEW p \in PlatformsOf[q]
        PROVE  /\ tasks'[q][p] \in {"solved", "failed", "lost"}
               /\ q \in Rendered => tasks'[q][p] = "solved"
    <3>1. tasks[q][p] \in States(q) /\ p \in Platforms
      BY RequestPlatforms DEF States
    <3>2. tasks[q][p] \in TaskStates \cup {"none"}
      BY <1>0, <3>1 DEF TypeOK
    <3>3. tasks[q][p] \notin Pending /\ tasks[q][p] # "none"
      BY <1>3, <3>1 DEF CollectAll, Collected, Submitted
    <3>4. QED BY <1>0, <1>3, <3>1, <3>2, <3>3 DEF CollectAll, TaskStates
  <2>2. (\E p \in PlatformsOf[q] : tasks'[q][p] = "none") => Untouched(q)'
    BY <2>1
  <2>3. Answer(q, "ok")
    BY <1>3 DEF CollectAll
  <2>4. QED BY <1>0, <1>1, <1>2, <2>1, <2>2, <2>3, AnswerKeeps
<1>4. CASE SubmitRaises(q) \/ CollectRaises(q)
  <2>1. (\E p \in PlatformsOf[q] : tasks'[q][p] = "none") => Untouched(q)'
    BY <1>0 DEF RequestInv, Untouched
  <2>2. Answer(q, "error")
    BY <1>4 DEF SubmitRaises, CollectRaises
  <2>3. QED BY <1>0, <1>1, <1>2, <2>1, <2>2, AnswerKeeps
<1>5. QED BY <1>3, <1>4

-----------------------------------------------------------------------------
(* What the pool does with the tasks it has.                               *)
LEMMA LostTasks ==
    ASSUME TypeOK
    PROVE  /\ Lost \in [Requests -> [Platforms -> TaskStates \cup {"none"}]]
           /\ \A r \in Requests : \A p \in Platforms :
                Lost[r][p] = IF tasks[r][p] \in Pending THEN "lost" ELSE tasks[r][p]
BY DEF TypeOK, Lost, TaskStates

LEMMA LostKeeps ==
    ASSUME PoolInv, tasks' = Lost, NEW r \in Requests, outcome'[r] = outcome[r],
           current' = r <=> current = r
    PROVE  RequestInv(r)' /\ Keeps(r)
<1>0. TypeOK /\ RequestInv(r) /\ PlatformsOf[r] \subseteq Platforms
  BY RequestPlatforms DEF PoolInv
<1>1. \A p \in Platforms :
        tasks'[r][p] = IF tasks[r][p] \in Pending THEN "lost" ELSE tasks[r][p]
  BY <1>0, LostTasks
<1>2. Untouched(r) => Untouched(r)'
  BY <1>1 DEF Untouched, Pending
<1>3. \A p \in PlatformsOf[r] :
        /\ tasks'[r][p] = "none" <=> tasks[r][p] = "none"
        /\ tasks'[r][p] \notin Pending
        /\ tasks[r][p] \in {"solved", "failed", "lost"} => tasks'[r][p] = tasks[r][p]
  BY <1>0, <1>1 DEF Pending
<1>4. RequestInv(r)' /\ Keeps(r)
  BY <1>0, <1>2, <1>3 DEF RequestInv, Keeps
<1>5. QED BY <1>4

LEMMA LossesKeep ==
    ASSUME PoolInv, PoolWorkerDies
    PROVE  PoolInv' /\ \A r \in Requests : Keeps(r)
<1>0. TypeOK /\ tasks' = Lost
  BY DEF PoolInv, PoolWorkerDies
<1>1. TypeOK'
  <2>1. \A r \in Requests : \A p \in Platforms \ PlatformsOf[r] : tasks'[r][p] = "none"
    BY <1>0, LostTasks DEF TypeOK, Pending
  <2>2. crashes' \in 0..MaxCrashes
    BY <1>0, ProcessPoolAssumption DEF TypeOK, PoolWorkerDies
  <2>3. QED BY <1>0, <2>1, <2>2, LostTasks DEF TypeOK, PoolWorkerDies
<1>2. \A r \in Requests : RequestInv(r)' /\ Keeps(r)
  BY <1>0, LostKeeps DEF PoolWorkerDies
<1>3. QED BY <1>1, <1>2 DEF PoolInv

(* Another process takes the place of the one that solved.                 *)
LEMMA NewProcessKeeps ==
    ASSUME PoolInv, NEW q \in Requests, TimesOut(q) \/ WorkerDies(q)
    PROVE  PoolInv' /\ \A r \in Requests : Keeps(r)
<1> DEFINE status == IF TimesOut(q) THEN "timeout" ELSE "error"
<1>0. /\ TypeOK /\ RequestInv(q) /\ tasks' = Lost /\ current = q
      /\ outcome' = [outcome EXCEPT ![q] = status] /\ current' = None
      /\ process_pool' \in Fresh /\ crashes' \in 0..MaxCrashes
      /\ status \in {"timeout", "error"} /\ PlatformsOf[q] \subseteq Platforms
      /\ None \notin Requests /\ None \notin {"ok", "error", "timeout"}
  <2>0. TypeOK /\ RequestInv(q) /\ crashes \in 0..MaxCrashes /\ MaxCrashes \in Nat
    BY ProcessPoolAssumption DEF PoolInv, TypeOK
  <2>1. CASE TimesOut(q)
    BY <2>0, <2>1, RequestPlatforms, ProcessPoolAssumption DEF TimesOut, Answer
  <2>2. CASE ~TimesOut(q) /\ WorkerDies(q)
    BY <2>0, <2>2, RequestPlatforms, ProcessPoolAssumption DEF WorkerDies, Answer
  <2>3. QED BY <2>1, <2>2
<1> HIDE DEF status
<1>1. TypeOK'
  <2>0. TypeOK /\ tasks' = Lost
    BY <1>0
  <2>1. \A r \in Requests : \A p \in Platforms \ PlatformsOf[r] : tasks'[r][p] = "none"
    BY <2>0, LostTasks DEF TypeOK, Pending
  <2>2. QED BY <1>0, <2>1, LostTasks DEF TypeOK, Fresh
<1>2. ASSUME NEW r \in Requests \ {q} PROVE RequestInv(r)' /\ Keeps(r)
  BY <1>0, LostKeeps DEF TypeOK
<1>3. RequestInv(q)' /\ Keeps(q)
  <2>1. \A p \in Platforms :
        tasks'[q][p] = IF tasks[q][p] \in Pending THEN "lost" ELSE tasks[q][p]
    BY <1>0, LostTasks
  <2>2. outcome'[q] = status /\ outcome[q] = None
    BY <1>0 DEF TypeOK, RequestInv
  <2>3. Untouched(q) => Untouched(q)'
    BY <2>1 DEF Untouched, Pending
  <2>4. \A p \in PlatformsOf[q] :
        (tasks'[q][p] = "none" <=> tasks[q][p] = "none") /\ tasks'[q][p] \notin Pending
    BY <1>0, <2>1 DEF Pending
  <2>5. current' # q /\ outcome'[q] # None /\ outcome'[q] # "ok"
    BY <1>0, <2>2
  <2>6. RequestInv(q)'
    BY <1>0, <2>3, <2>4, <2>5 DEF RequestInv
  <2>7. Keeps(q)
    BY <1>0, <2>2 DEF Keeps
  <2>8. QED BY <2>6, <2>7
<1>4. QED BY <1>1, <1>2, <1>3 DEF PoolInv

LEMMA TaskStepKeeps ==
    ASSUME PoolInv, NEW q \in Requests, NEW p \in PlatformsOf[q],
           Run(q, p) \/ End(q, p, "solved") \/ End(q, p, "failed")
    PROVE  PoolInv' /\ \A r \in Requests : Keeps(r)
<1>0. TypeOK /\ RequestInv(q) /\ p \in Platforms
  BY RequestPlatforms DEF PoolInv
<1>1. PICK state \in {"running", "solved", "failed"} :
        /\ tasks' = [tasks EXCEPT ![q][p] = state]
        /\ state # "running" => tasks[q][p] = "running"
        /\ tasks[q][p] \in Pending
        /\ UNCHANGED <<process_pool, current, outcome, crashes>>
  BY DEF Run, End, Becomes, Pending
<1>2. TypeOK'
  <2>1. tasks' \in [Requests -> [Platforms -> TaskStates \cup {"none"}]]
    BY <1>0, <1>1 DEF TypeOK, TaskStates, Pending
  <2>2. \A r \in Requests : \A s \in Platforms \ PlatformsOf[r] : tasks'[r][s] = "none"
    BY <1>0, <1>1 DEF TypeOK
  <2>3. QED BY <1>0, <1>1, <2>1, <2>2 DEF TypeOK
<1>3. About(q)
  BY <1>0, <1>1 DEF About, TypeOK
<1>4. /\ tasks'[q][p] = state
      /\ \A s \in Platforms \ {p} : tasks'[q][s] = tasks[q][s]
  BY <1>0, <1>1 DEF TypeOK
<1>5. RequestInv(q)' /\ Keeps(q)
  <2>1. tasks[q][p] # "none" /\ tasks[q][p] \notin {"solved", "failed", "lost"}
    BY <1>1 DEF Pending
  <2>2. ~Untouched(q) /\ outcome[q] # "ok"
    BY <1>0, <2>1 DEF RequestInv, Untouched
  <2>3. PlatformsOf[q] \subseteq Platforms
    BY RequestPlatforms
  <2>4. q \in Rendered \/ current = q
    BY <1>0, <1>1 DEF RequestInv
  <2>5. QED BY <1>0, <1>1, <1>4, <2>1, <2>2, <2>3, <2>4 DEF RequestInv, Keeps
<1>6. QED BY <1>2, <1>3, <1>5, PoolStepKept

LEMMA PoolNext ==
    ASSUME PoolInv, Next
    PROVE  PoolInv' /\ \A r \in Requests : Keeps(r)
<1>1. ASSUME NEW q \in Requests, Take(q) \/ TimesOut(q) \/ WorkerDies(q)
      PROVE  PoolInv' /\ \A r \in Requests : Keeps(r)
  BY <1>1, TakeKeeps, NewProcessKeeps
<1>2. ASSUME NEW q \in Requests, Solve(q)
      PROVE  PoolInv' /\ \A r \in Requests : Keeps(r)
  <2>1. CASE Submit(q)
    BY <2>1, SubmitKeeps
  <2>2. CASE SubmitRaises(q) \/ CollectAll(q) \/ CollectRaises(q)
    BY <2>2, CollectsKeep
  <2>3. ASSUME NEW p \in PlatformsOf[q], SolveAlone(q, p, "solved") \/ SolveAlone(q, p, "failed")
        PROVE  PoolInv' /\ \A r \in Requests : Keeps(r)
    BY <2>3, SolveAloneKeeps
  <2>4. ASSUME NEW p \in PlatformsOf[q],
               Run(q, p) \/ End(q, p, "solved") \/ End(q, p, "failed")
        PROVE  PoolInv' /\ \A r \in Requests : Keeps(r)
    BY <2>4, TaskStepKeeps
  <2>5. QED BY <1>2, <2>1, <2>2, <2>3, <2>4 DEF Solve
<1>3. CASE PoolWorkerDies
  BY <1>3, LossesKeep
<1>4. QED BY <1>1, <1>2, <1>3 DEF Next

LEMMA PoolInit ==
    ASSUME Init
    PROVE  PoolInv
<1>1. TypeOK
  BY ProcessPoolAssumption DEF Init, Fresh, TypeOK
<1>2. ASSUME NEW r \in Requests PROVE RequestInv(r)
  BY RequestPlatforms, ProcessPoolAssumption DEF Init, RequestInv, Untouched, Pending
<1>3. QED BY <1>1, <1>2 DEF PoolInv

LEMMA PoolStutters ==
    ASSUME PoolInv, UNCHANGED vars
    PROVE  PoolInv' /\ \A r \in Requests : Keeps(r)
BY DEF PoolInv, vars, TypeOK, RequestInv, Untouched, Keeps

(* What the worker has in its pool and what it has answered fit together,  *)
(* for dispatch alone, whoever sends the requests.                         *)
THEOREM PoolInvariant == Spec => []PoolInv
<1>1. Init => PoolInv
  BY PoolInit
<1>2. PoolInv /\ [Next]_vars => PoolInv'
  BY PoolNext, PoolStutters
<1>3. QED BY <1>1, <1>2, PTL DEF Spec

-----------------------------------------------------------------------------
(* The search is one more client of the pool: it uses it as dispatch and   *)
(* execute allow, at any time.                                             *)
LEMMA WorkerStepIsNext == WorkerStep => Next
BY RepairSearchAssumption DEF WorkerStep, Next, AttemptTaken, AttemptTimesOut

LEMMA RepairStepOfPool == [RepairNext]_allVars => [Next]_vars
BY WorkerStepIsNext DEF RepairNext, SearchStep, Start, Diagnose, Judge, SolveFails, Expire,
                        Abandon, allVars, vars

THEOREM SearchUsesPool == RepairSpec => Spec
<1>1. RepairInit => Init
  BY DEF RepairInit
<1>2. QED BY <1>1, RepairStepOfPool, PTL DEF RepairSpec, Spec

-----------------------------------------------------------------------------
(* The attempts before the current one are answered, those after it are    *)
(* not yet sent.                                                           *)
AttemptsInv ==
    /\ attempts = position
    /\ position <= Len(candidates(specs)) /\ position <= max_attempts
    /\ \A a \in Attempts :
        /\ search = "new" \/ a > position => outcome[a] = None /\ current # a
        /\ current = a => a = position /\ (search = "answered" => expired)
    /\ position > 0 => outcome[0] = "ok" /\ ~Solved(0)

Tested(list, last) ==
    /\ \A i \in DOMAIN list : LET c == list[i].candidate IN
        /\ c \in 1..last /\ outcome[c] = "ok" /\ Solved(c)
        /\ list[i].solve_attempts = c
        /\ i > 1 => list[i - 1].candidate < c
    /\ \A c \in 1..last : Solved(c) =>
        \E i \in DOMAIN list : list[i].candidate = c

LastEvaluated == IF completion \in Limits \ {"time_limit"} THEN position ELSE position - 1

SuggestedInv ==
    /\ \A c \in 1..LastEvaluated : outcome[c] = "ok"
    /\ Tested(suggestions, LastEvaluated)
    /\ Len(suggestions) <= max_suggestions
    /\ search # "answered" => Len(suggestions) < max_suggestions

(* What each reason to end the search stands for.                          *)
ReasonInv ==
    /\ search = "new" => position = 0 /\ suggestions = <<>>
    /\ search # "answered" => completion = None
    /\ search = "answered" => completion \in Completions
    /\ completion \in Limits => outcome[0] = "ok" /\ ~Solved(0)
    /\ completion = "exhausted" => position = Len(candidates(specs))
    /\ completion = "suggestion_limit" =>
            position < Len(candidates(specs)) /\ Len(suggestions) = max_suggestions
    /\ completion = "attempt_limit" =>
            position < Len(candidates(specs)) /\ position = max_attempts
    /\ completion \in {"time_limit", "timeout"} => expired
    /\ completion = "feasible" => outcome[0] = "ok" /\ Solved(0)
    /\ completion = "error" => outcome[position] = "error"

SearchInv == PoolInv /\ RepairTypeOK /\ AttemptsInv /\ SuggestedInv /\ ReasonInv

LEMMA SearchFacts ==
    ASSUME RepairTypeOK, position <= Len(candidates(specs))
    PROVE  /\ Len(candidates(specs)) \in Nat /\ position \in Attempts /\ 0 \in Attempts
           /\ max_attempts \in Nat \ {0} /\ max_suggestions \in Nat \ {0}
           /\ \A c \in 1..position : c \in Attempts
           /\ position + 1 <= Len(candidates(specs)) => position + 1 \in Attempts
           /\ None \notin Completions
<1>1. /\ Len(candidates(specs)) \in Nat /\ 0..Len(candidates(specs)) \subseteq Attempts
      /\ position \in Nat
  BY RepairSearchAssumption DEF RepairTypeOK
<1>2. 0 \in 0..Len(candidates(specs)) /\ position \in 0..Len(candidates(specs))
  BY <1>1
<1>3. max_attempts \in Nat \ {0} /\ max_suggestions \in Nat \ {0}
  BY RepairSearchAssumption DEF RepairTypeOK
<1>4. \A c \in 1..position : c \in 0..Len(candidates(specs))
  BY <1>1
<1>5. position + 1 <= Len(candidates(specs)) => position + 1 \in 0..Len(candidates(specs))
  BY <1>1
<1>6. QED BY <1>1, <1>2, <1>3, <1>4, <1>5, RepairSearchAssumption

(* What a step of the worker changes of that.                              *)
LEMMA SolvedStays ==
    ASSUME NEW a \in Requests, outcome[a] = "ok", Keeps(a), None # "ok"
    PROVE  outcome'[a] = "ok" /\ (Solved(a)' <=> Solved(a))
<1>1. \A p \in PlatformsOf[a] : tasks'[a][p] = tasks[a][p]
  BY DEF Keeps
<1>2. States(a)' = States(a)
  BY <1>1 DEF States
<1>3. QED BY <1>2 DEF Keeps, Solved

LEMMA WorkerKeepsSearch ==
    ASSUME SearchInv, WorkerStep, UNCHANGED repair
    PROVE  SearchInv'
<1>0. /\ PoolInv' /\ (\A r \in Requests : Keeps(r)) /\ TypeOK'
      /\ Attempts \subseteq Requests /\ None \notin {"ok", "error", "timeout"}
  BY PoolNext, WorkerStepIsNext, ProcessPoolAssumption, RepairSearchAssumption
  DEF SearchInv, PoolInv
<1>1. /\ Len(candidates(specs)) \in Nat /\ position \in Attempts /\ 0 \in Attempts
      /\ (\A c \in 1..position : c \in Attempts) /\ position \in Nat
      /\ UNCHANGED <<specs, max_suggestions, max_attempts, search, position, attempts,
                    expired, suggestions, completion>>
  BY SearchFacts DEF SearchInv, AttemptsInv, repair, RepairTypeOK
<1>2. RepairTypeOK'
  BY <1>0, <1>1 DEF SearchInv, RepairTypeOK
<1>3. ASSUME NEW a \in Attempts, current' = a, current # a
      PROVE  search = "evaluating" /\ a = position
  <2>1. current' # current /\ a # None
    BY <1>0, <1>3, ProcessPoolAssumption
  <2>2. ~PoolWorkerDies /\ (\A r \in Requests : ~Solve(r) /\ ~TimesOut(r) /\ ~WorkerDies(r))
    <3>1. ~PoolWorkerDies
      BY <2>1 DEF PoolWorkerDies
    <3>2. ASSUME NEW r \in Requests, Solve(r) PROVE current' \in {current, None}
      BY <3>2 DEF Solve, Submit, SubmitRaises, CollectAll, CollectRaises, SolveAlone, Run,
                  End, Answer
    <3>3. ASSUME NEW r \in Requests, TimesOut(r) \/ WorkerDies(r) PROVE current' = None
      BY <3>3 DEF TimesOut, WorkerDies, Answer
    <3>4. QED BY <1>3, <2>1, <3>1, <3>2, <3>3
  <2>3. PICK b \in Attempts : AttemptTaken(b) /\ current' = b
    BY <1>0, <1>3, <2>2 DEF WorkerStep, AttemptTaken, AttemptTimesOut, Take
  <2>4. QED BY <1>3, <2>3 DEF AttemptTaken
<1>4. AttemptsInv'
  <2>1. ASSUME NEW a \in Attempts
        PROVE  /\ search = "new" \/ a > position => outcome'[a] = None /\ current' # a
               /\ current' = a => a = position /\ (search = "answered" => expired)
    <3>1. Keeps(a)
      BY <1>0
    <3>2. CASE search = "new" \/ a > position
      <4>1. current # a /\ outcome[a] = None
        BY <3>2 DEF SearchInv, AttemptsInv
      <4>2. outcome'[a] = None
        BY <3>1, <4>1 DEF Keeps
      <4>3. current' # a
        BY <1>1, <1>3, <3>2, <4>1
      <4>4. QED BY <4>1, <4>2, <4>3
    <3>3. CASE ~(search = "new" \/ a > position)
      BY <1>3, <3>3 DEF SearchInv, AttemptsInv
    <3>4. QED BY <3>2, <3>3
  <2>2. position > 0 => outcome'[0] = "ok" /\ ~Solved(0)'
    BY <1>0, <1>1, SolvedStays DEF SearchInv, AttemptsInv
  <2>3. QED BY <1>1, <2>1, <2>2 DEF SearchInv, AttemptsInv, Solved, States
<1>5. SuggestedInv'
  <2>1. LastEvaluated \in Int /\ LastEvaluated' = LastEvaluated /\ LastEvaluated <= position
    BY <1>1 DEF LastEvaluated
  <2>2. \A c \in 1..LastEvaluated : c \in Requests /\ outcome[c] = "ok" /\ Keeps(c)
    <3>1. \A c \in 1..LastEvaluated : c \in 1..position
      BY <1>1, <2>1
    <3>2. QED BY <1>0, <1>1, <3>1 DEF SearchInv, SuggestedInv
  <2>3. Tested(suggestions, LastEvaluated)'
    <3> DEFINE last == LastEvaluated
    <3>1. Tested(suggestions, last)
      BY DEF SearchInv, SuggestedInv
    <3>2. \A c \in 1..last : outcome'[c] = "ok" /\ (Solved(c)' <=> Solved(c))
      BY <1>0, <2>2, SolvedStays
    <3>3. QED BY <1>1, <2>1, <3>1, <3>2 DEF Tested
  <2>4. \A c \in 1..LastEvaluated : outcome'[c] = "ok"
    BY <1>0, <2>2 DEF Keeps
  <2>5. QED BY <1>1, <2>1, <2>3, <2>4 DEF SearchInv, SuggestedInv
<1>6. ReasonInv'
  <2>1. outcome[0] = "ok" => outcome'[0] = "ok" /\ (Solved(0)' <=> Solved(0))
    BY <1>0, <1>1, SolvedStays
  <2>2. outcome[position] = "error" => outcome'[position] = "error"
    BY <1>0, <1>1 DEF Keeps
  <2>3. QED BY <1>1, <2>1, <2>2 DEF SearchInv, ReasonInv
<1>7. QED BY <1>0, <1>2, <1>4, <1>5, <1>6 DEF SearchInv

-----------------------------------------------------------------------------
(* The search's own steps leave the pool alone.                            *)
LEMMA PoolUnseen ==
    ASSUME SearchInv, UNCHANGED vars
    PROVE  /\ PoolInv' /\ TypeOK' /\ outcome' = outcome /\ current' = current
           /\ \A a \in Requests : Solved(a)' <=> Solved(a)
<1>1. PoolInv' /\ TypeOK'
  BY PoolStutters DEF SearchInv, PoolInv
<1>2. outcome' = outcome /\ current' = current /\ tasks' = tasks
  BY DEF vars
<1>3. QED BY <1>1, <1>2 DEF Solved, States

LEMMA StartKeeps ==
    ASSUME SearchInv, Start
    PROVE  SearchInv'
<1>0. /\ Len(candidates(specs)) \in Nat /\ position \in Attempts /\ 0 \in Attempts
      /\ max_suggestions \in Nat \ {0} /\ max_attempts \in Nat \ {0}
      /\ Attempts \subseteq Nat /\ None \notin Completions
      /\ RepairTypeOK /\ ReasonInv /\ AttemptsInv /\ SuggestedInv
  BY SearchFacts, RepairSearchAssumption DEF SearchInv, AttemptsInv
<1>1. /\ search = "new" /\ position = 0 /\ suggestions = <<>> /\ completion = None
      /\ attempts = 0
      /\ position' = 0 /\ UNCHANGED <<vars, attempts, suggestions>>
      /\ UNCHANGED <<specs, max_suggestions, max_attempts>>
      /\ \/ search' = "evaluating" /\ expired' = FALSE /\ completion' = completion
         \/ search' = "answered" /\ expired' = TRUE /\ completion' = "timeout"
  BY <1>0 DEF Start, Evaluates, Ends, ReasonInv, AttemptsInv
<1>2. /\ PoolInv' /\ TypeOK' /\ outcome' = outcome /\ current' = current
      /\ \A a \in Requests : Solved(a)' <=> Solved(a)
  BY <1>1, PoolUnseen
<1>3. RepairTypeOK'
  BY <1>0, <1>1, <1>2 DEF RepairTypeOK, Completions
<1>4. AttemptsInv'
  BY <1>0, <1>1, <1>2 DEF AttemptsInv
<1>5. SuggestedInv'
  <2>1. Len(suggestions) = 0 /\ DOMAIN suggestions = {}
    BY <1>1
  <2>2. LastEvaluated' = -1
    BY <1>0, <1>1 DEF LastEvaluated, Limits, Completions
  <2>3. 1..LastEvaluated' = {}
    BY <2>2
  <2>4. QED BY <1>0, <1>1, <2>1, <2>3 DEF SuggestedInv, Tested
<1>6. ReasonInv'
  BY <1>0, <1>1 DEF ReasonInv, Completions, Limits
<1>7. QED BY <1>2, <1>3, <1>4, <1>5, <1>6 DEF SearchInv

(* A search that ends, or goes on, without another judgement.              *)
LEMMA NoJudgementKeeps ==
    ASSUME SearchInv, search = "evaluating",
           UNCHANGED <<vars, position, attempts, suggestions>>,
           UNCHANGED <<specs, max_suggestions, max_attempts>>,
           expired' \in BOOLEAN, expired => expired',
           \/ search' = "evaluating" /\ completion' = completion
           \/ /\ search' = "answered"
              /\ completion' \in {"feasible", "error", "timeout", "time_limit"}
              /\ completion' \in {"time_limit", "timeout"} => expired'
              /\ completion' = "time_limit" => position > 0
              /\ completion' = "feasible" => outcome[0] = "ok" /\ Solved(0)
              /\ completion' = "error" => outcome[position] = "error"
              /\ current = position => expired'
    PROVE  SearchInv'
<1>0. /\ Len(candidates(specs)) \in Nat /\ position \in Attempts /\ 0 \in Attempts
      /\ Attempts \subseteq Nat /\ Attempts \subseteq Requests /\ None \notin Completions
      /\ RepairTypeOK /\ ReasonInv /\ AttemptsInv /\ SuggestedInv
  BY SearchFacts, RepairSearchAssumption DEF SearchInv, AttemptsInv
<1>1. /\ PoolInv' /\ TypeOK' /\ outcome' = outcome /\ current' = current
      /\ \A a \in Requests : Solved(a)' <=> Solved(a)
  BY PoolUnseen
<1>2. completion = None
  BY <1>0 DEF ReasonInv
<1>3. RepairTypeOK'
  BY <1>0, <1>1 DEF RepairTypeOK, Completions, Limits
<1>4. AttemptsInv'
  BY <1>0, <1>1 DEF AttemptsInv
<1>5. SuggestedInv'
  <2>1. LastEvaluated' = LastEvaluated /\ LastEvaluated = position - 1
    BY <1>0, <1>2 DEF LastEvaluated, Limits, Completions
  <2>2. \A c \in 1..LastEvaluated : c \in Requests
    <3>1. \A c \in 1..LastEvaluated : c \in 1..position
      BY <1>0, <2>1
    <3>2. QED BY <1>0, <3>1, SearchFacts DEF AttemptsInv
  <2>3. Tested(suggestions, LastEvaluated)'
    BY <1>0, <1>1, <2>1, <2>2 DEF SuggestedInv, Tested
  <2>4. QED BY <1>0, <1>1, <2>1, <2>3 DEF SuggestedInv
<1>6. ReasonInv'
  BY <1>0, <1>1, <1>2 DEF ReasonInv, AttemptsInv, Completions, Limits
<1>7. QED BY <1>1, <1>3, <1>4, <1>5, <1>6 DEF SearchInv

LEMMA EndingsKeep ==
    ASSUME SearchInv,
           Expire \/ Abandon \/ SolveFails \/ (Diagnose /\ Solved(0))
    PROVE  SearchInv'
<1>0. /\ position \in Nat /\ position \in Requests /\ expired \in BOOLEAN
      /\ outcome[position] # None => current # position
  <2>1. position \in Requests
    BY SearchFacts, RepairSearchAssumption DEF SearchInv, AttemptsInv
  <2>2. QED BY <2>1 DEF SearchInv, RepairTypeOK, PoolInv, RequestInv
<1>1. None \notin {"ok", "error"}
  BY ProcessPoolAssumption
<1>2. CASE Expire
  BY <1>0, <1>2, NoJudgementKeeps DEF Expire
<1>3. CASE Abandon
  BY <1>0, <1>3, NoJudgementKeeps DEF Abandon, Ends
<1>4. CASE SolveFails
  BY <1>0, <1>1, <1>4, NoJudgementKeeps DEF SolveFails, Ends
<1>5. CASE Diagnose /\ Solved(0)
  BY <1>0, <1>1, <1>5, NoJudgementKeeps DEF Diagnose, Ends
<1>6. QED BY <1>2, <1>3, <1>4, <1>5

-----------------------------------------------------------------------------
(* What an attempt adds to the suggestions.                                *)
LEMMA FoundIsTested ==
    ASSUME SearchInv, search = "evaluating", position > 0, outcome[position] = "ok",
           NEW found,
           found = IF Solved(position)
                   THEN Append(suggestions, [candidate |-> position, solve_attempts |-> attempts])
                   ELSE suggestions
    PROVE  /\ found \in Seq(Suggestion) /\ Len(found) <= max_suggestions
           /\ Tested(found, position)
<1>0. /\ position \in Nat /\ attempts = position /\ suggestions \in Seq(Suggestion)
      /\ max_suggestions \in Nat /\ Len(suggestions) < max_suggestions
      /\ Tested(suggestions, position - 1)
  <2>1. LastEvaluated = position - 1
    BY SearchFacts DEF SearchInv, AttemptsInv, ReasonInv, LastEvaluated, Completions
  <2>2. QED BY <2>1, SearchFacts DEF SearchInv, AttemptsInv, SuggestedInv, RepairTypeOK
<1>1. CASE ~Solved(position)
  <2>1. found = suggestions
    BY <1>1
  <2>2. \A c \in 1..(position - 1) : c \in 1..position
    BY <1>0
  <2>3. \A c \in 1..position : c = position \/ c \in 1..(position - 1)
    BY <1>0
  <2>4. Tested(found, position)
    BY <1>0, <1>1, <2>1, <2>2, <2>3 DEF Tested
  <2>5. QED BY <1>0, <2>1, <2>4
<1>2. CASE Solved(position)
  <2> DEFINE new == [candidate |-> position, solve_attempts |-> attempts]
             n == Len(suggestions)
  <2>1. new \in Suggestion /\ found = Append(suggestions, new) /\ n \in Nat
    BY <1>0, <1>2 DEF Suggestion
  <2>2. /\ found \in Seq(Suggestion) /\ Len(found) = n + 1 /\ found[n + 1] = new
        /\ \A i \in 1..n : found[i] = suggestions[i]
        /\ DOMAIN found = 1..(n + 1) /\ DOMAIN suggestions = 1..n
    BY <1>0, <2>1
  <2>3. ASSUME NEW i \in DOMAIN found
        PROVE  LET c == found[i].candidate IN
                /\ c \in 1..position /\ outcome[c] = "ok" /\ Solved(c)
                /\ found[i].solve_attempts = c
                /\ i > 1 => found[i - 1].candidate < c
    <3>1. CASE i \in 1..n
      <4>1. i > 1 => i - 1 \in 1..n
        BY <2>1, <3>1
      <4>2. \A c \in 1..(position - 1) : c \in 1..position
        BY <1>0
      <4>3. QED BY <1>0, <2>2, <3>1, <4>1, <4>2 DEF Tested
    <3>2. CASE i = n + 1
      <4>1. found[i].candidate = position /\ found[i].solve_attempts = position
        BY <1>0, <2>2, <3>2
      <4>2. i > 1 => i - 1 = n /\ n \in 1..n
        BY <2>1, <3>2
      <4>3. i > 1 => found[i - 1].candidate \in 1..(position - 1)
        BY <1>0, <2>2, <4>2 DEF Tested
      <4>4. i > 1 => found[i - 1].candidate < position
        BY <1>0, <4>3
      <4>5. QED BY <1>0, <1>2, <4>1, <4>4
    <3>3. QED BY <2>1, <2>2, <3>1, <3>2
  <2>4. ASSUME NEW c \in 1..position, Solved(c)
        PROVE  \E i \in DOMAIN found : found[i].candidate = c
    <3>1. CASE c = position
      <4>1. n + 1 \in DOMAIN found /\ found[n + 1].candidate = position
        BY <2>1, <2>2
      <4>2. QED BY <3>1, <4>1
    <3>2. CASE c \in 1..(position - 1)
      <4>1. PICK i \in DOMAIN suggestions : suggestions[i].candidate = c
        BY <1>0, <2>4, <3>2 DEF Tested
      <4>2. i \in DOMAIN found /\ found[i] = suggestions[i]
        BY <2>1, <2>2, <4>1
      <4>3. QED BY <4>1, <4>2
    <3>3. QED BY <1>0, <3>1, <3>2
  <2>5. Len(found) <= max_suggestions
    BY <1>0, <2>1, <2>2
  <2>6. QED BY <2>2, <2>3, <2>4, <2>5 DEF Tested
<1>3. QED BY <1>1, <1>2

LEMMA ContinueKeeps ==
    ASSUME SearchInv, search = "evaluating", outcome[position] = "ok",
           position = 0 => ~Solved(0),
           NEW found \in Seq(Suggestion), Len(found) <= max_suggestions,
           position = 0 => Len(found) = 0,
           Tested(found, position), Continue(found), UNCHANGED vars
    PROVE  SearchInv'
<1>0. /\ Len(candidates(specs)) \in Nat /\ position \in Attempts /\ 0 \in Attempts
      /\ max_suggestions \in Nat \ {0} /\ max_attempts \in Nat \ {0}
      /\ Attempts \subseteq Nat /\ Attempts \subseteq Requests /\ None \notin Completions
      /\ RepairTypeOK /\ ReasonInv /\ AttemptsInv /\ SuggestedInv
      /\ (\A c \in 1..position : c \in Attempts) /\ Len(found) \in Nat
      /\ position + 1 <= Len(candidates(specs)) => position + 1 \in Attempts
  BY SearchFacts, RepairSearchAssumption DEF SearchInv, AttemptsInv
<1>1. /\ PoolInv' /\ TypeOK' /\ outcome' = outcome /\ current' = current
      /\ \A a \in Requests : Solved(a)' <=> Solved(a)
  BY PoolUnseen
<1>2. /\ completion = None /\ attempts = position /\ outcome[0] = "ok" /\ ~Solved(0)
      /\ suggestions' = found /\ UNCHANGED <<specs, max_suggestions, max_attempts>>
      /\ position \in Nat /\ position <= Len(candidates(specs)) /\ position <= max_attempts
      /\ current # position
  <2>1. current # position
    BY <1>0, ProcessPoolAssumption DEF SearchInv, PoolInv, RequestInv
  <2>2. UNCHANGED <<specs, max_suggestions, max_attempts>>
    BY DEF Continue, Evaluates, Ends
  <2>3. QED BY <1>0, <2>1, <2>2 DEF ReasonInv, AttemptsInv, Continue
<1>3. ASSUME NEW last \in Int, last = position, LastEvaluated' = last,
             search' # "answered" => Len(found) < max_suggestions
      PROVE  SuggestedInv'
  <2>1. \A c \in 1..last : c \in Requests /\ outcome[c] = "ok"
    <3>1. LastEvaluated = position - 1
      BY <1>0, <1>2 DEF LastEvaluated, Completions
    <3>2. \A c \in 1..last : c = position \/ c \in 1..(position - 1)
      BY <1>2, <1>3
    <3>3. QED BY <1>0, <1>3, <3>1, <3>2 DEF SuggestedInv
  <2>2. Tested(suggestions, LastEvaluated)'
    <3>1. \A i \in DOMAIN found : found[i].candidate \in 1..last
      BY <1>3 DEF Tested
    <3>2. Tested(found, last)
      BY <1>3
    <3>3. QED BY <1>1, <1>2, <1>3, <2>1, <3>1, <3>2 DEF Tested
  <2>3. QED BY <1>1, <1>2, <1>3, <2>1, <2>2 DEF SuggestedInv
<1>4. CASE Ends("exhausted") \/ Ends("suggestion_limit") \/ Ends("attempt_limit")
  <2>1. /\ search' = "answered" /\ UNCHANGED <<position, attempts, expired>>
        /\ completion' \in Limits \ {"time_limit"}
        /\ completion' = "exhausted" => position = Len(candidates(specs))
        /\ completion' = "suggestion_limit" =>
                position < Len(candidates(specs)) /\ Len(found) = max_suggestions
        /\ completion' = "attempt_limit" =>
                position < Len(candidates(specs)) /\ position = max_attempts
    <3>1. position # Len(candidates(specs)) => position < Len(candidates(specs))
      BY <1>0, <1>2
    <3>2. CASE position = Len(candidates(specs))
      BY <3>2 DEF Continue, Ends, Limits
    <3>3. CASE position # Len(candidates(specs)) /\ Len(found) = max_suggestions
      BY <3>1, <3>3 DEF Continue, Ends, Limits
    <3>4. CASE /\ position # Len(candidates(specs)) /\ Len(found) # max_suggestions
               /\ attempts = max_attempts
      BY <1>2, <3>1, <3>4 DEF Continue, Ends, Limits
    <3>5. CASE /\ position # Len(candidates(specs)) /\ Len(found) # max_suggestions
               /\ attempts # max_attempts
      <4>1. search' = "evaluating" \/ completion' \in {"timeout", "time_limit"}
        BY <3>5 DEF Continue, Evaluates, Ends
      <4>2. search' = "answered"
            /\ completion' \in {"exhausted", "suggestion_limit", "attempt_limit"}
        BY <1>4 DEF Ends
      <4>3. QED BY <4>1, <4>2
    <3>6. QED BY <3>2, <3>3, <3>4, <3>5
  <2>2. RepairTypeOK'
    BY <1>0, <1>1, <1>2, <2>1 DEF RepairTypeOK, Completions
  <2>3. AttemptsInv'
    BY <1>0, <1>1, <1>2, <2>1 DEF AttemptsInv
  <2>4. LastEvaluated' = position
    BY <2>1 DEF LastEvaluated
  <2>5. SuggestedInv'
    BY <1>2, <1>3, <2>1, <2>4
  <2>6. ReasonInv'
    BY <1>0, <1>1, <1>2, <2>1 DEF ReasonInv, Completions, Limits
  <2>7. QED BY <1>1, <2>2, <2>3, <2>5, <2>6 DEF SearchInv
<1>5. CASE /\ position # Len(candidates(specs)) /\ Len(found) # max_suggestions
           /\ attempts # max_attempts
  <2>0. /\ position' = position + 1 /\ attempts' = attempts + 1
        /\ \/ search' = "evaluating" /\ expired' = FALSE /\ completion' = completion
           \/ search' = "answered" /\ expired' = TRUE /\ completion' = "time_limit"
    BY <1>2, <1>5 DEF Continue, Evaluates, Ends
  <2>1. /\ position + 1 <= Len(candidates(specs)) /\ position + 1 <= max_attempts
        /\ Len(found) < max_suggestions /\ position + 1 \in Attempts
    <3>1. position + 1 <= Len(candidates(specs))
      BY <1>0, <1>2, <1>5
    <3>2. QED BY <1>0, <1>2, <1>5, <3>1
  <2>2. RepairTypeOK'
    <3>1. position' \in Nat /\ attempts' \in Nat /\ suggestions' \in Seq(Suggestion)
      BY <1>2, <2>0
    <3>2. search' \in {"new", "evaluating", "answered"} /\ expired' \in BOOLEAN
          /\ completion' \in Completions \cup {None}
      BY <1>2, <2>0 DEF Completions, Limits
    <3>3. QED BY <1>0, <1>1, <1>2, <3>1, <3>2 DEF RepairTypeOK
  <2>3. AttemptsInv'
    <3>1. ASSUME NEW a \in Attempts
          PROVE  /\ search' = "new" \/ a > position' => outcome[a] = None /\ current # a
                 /\ current = a => a = position' /\ (search' = "answered" => expired')
      BY <1>0, <1>2, <2>0, <3>1 DEF AttemptsInv
    <3>2. QED BY <1>0, <1>1, <1>2, <2>0, <2>1, <3>1 DEF AttemptsInv
  <2>4. LastEvaluated' = position
    BY <1>0, <1>2, <2>0 DEF LastEvaluated, Completions
  <2>5. SuggestedInv'
    BY <1>2, <1>3, <2>1, <2>4
  <2>6. ReasonInv'
    BY <1>0, <1>1, <1>2, <2>0 DEF ReasonInv, Completions, Limits
  <2>7. QED BY <1>1, <2>2, <2>3, <2>5, <2>6 DEF SearchInv
<1>6. QED BY <1>4, <1>5 DEF Continue

LEMMA JudgementsKeep ==
    ASSUME SearchInv, Judge \/ (Diagnose /\ ~Solved(0))
    PROVE  SearchInv'
<1>1. CASE Judge
  <2> DEFINE found == IF Solved(position)
                THEN Append(suggestions, [candidate |-> position,
                                          solve_attempts |-> attempts])
                ELSE suggestions
  <2>1. /\ search = "evaluating" /\ position > 0 /\ outcome[position] = "ok"
        /\ Continue(found) /\ UNCHANGED vars
    BY <1>1 DEF Judge
  <2>2. /\ found \in Seq(Suggestion) /\ Len(found) <= max_suggestions
        /\ Tested(found, position) /\ position # 0
    <3>1. position \in Nat /\ position # 0
      BY <2>1 DEF SearchInv, RepairTypeOK
    <3>2. found = IF Solved(position)
                  THEN Append(suggestions, [candidate |-> position,
                                            solve_attempts |-> attempts])
                  ELSE suggestions
      OBVIOUS
    <3> HIDE DEF found
    <3>3. QED BY <2>1, <3>1, <3>2, FoundIsTested
  <2> HIDE DEF found
  <2>3. QED BY <2>1, <2>2, ContinueKeeps
<1>2. CASE Diagnose /\ ~Solved(0)
  <2>1. /\ search = "evaluating" /\ position = 0 /\ outcome[0] = "ok"
        /\ Continue(<<>>) /\ UNCHANGED vars
    BY <1>2 DEF Diagnose
  <2>2. /\ <<>> \in Seq(Suggestion) /\ Len(<<>>) = 0 /\ Len(<<>>) <= max_suggestions
        /\ Tested(<<>>, position)
    <3>1. max_suggestions \in Nat
      BY SearchFacts DEF SearchInv, AttemptsInv
    <3>2. 1..position = {} /\ DOMAIN <<>> = {}
      BY <2>1
    <3>3. QED BY <3>1, <3>2 DEF Tested
  <2>3. QED BY <1>2, <2>1, <2>2, ContinueKeeps
<1>3. QED BY <1>1, <1>2

-----------------------------------------------------------------------------
LEMMA SearchInit == RepairInit => SearchInv
<1> SUFFICES ASSUME RepairInit PROVE SearchInv
  OBVIOUS
<1>1. PoolInv /\ TypeOK
  BY PoolInit DEF RepairInit, PoolInv
<1>2. RepairTypeOK
  <2>1. suggestions \in Seq(Suggestion) /\ position \in Nat /\ attempts \in Nat
    BY DEF RepairInit
  <2>2. QED BY <1>1, <2>1 DEF RepairInit, RepairTypeOK
<1>3. /\ Len(candidates(specs)) \in Nat /\ max_suggestions \in Nat \ {0}
      /\ max_attempts \in Nat \ {0} /\ Attempts \subseteq Requests
      /\ position = 0 /\ Attempts \subseteq Nat /\ None \notin Requests
      /\ None \notin Completions
  BY <1>2, RepairSearchAssumption, ProcessPoolAssumption DEF RepairInit, RepairTypeOK
<1>4. AttemptsInv
  <2>1. ASSUME NEW a \in Attempts PROVE outcome[a] = None /\ current # a
    BY <1>3, <2>1 DEF RepairInit, Init
  <2>2. attempts = position /\ position <= Len(candidates(specs)) /\ position <= max_attempts
    BY <1>3 DEF RepairInit
  <2>3. QED BY <1>3, <2>1, <2>2 DEF AttemptsInv
<1>5. SuggestedInv
  <2>1. LastEvaluated = -1
    BY <1>3 DEF RepairInit, LastEvaluated, Limits, Completions
  <2>2. 1..LastEvaluated = {} /\ Len(suggestions) = 0 /\ DOMAIN suggestions = {}
    BY <2>1 DEF RepairInit
  <2>3. QED BY <1>3, <2>2 DEF RepairInit, SuggestedInv, Tested
<1>6. ReasonInv
  BY <1>3 DEF RepairInit, ReasonInv, Completions, Limits
<1>7. QED BY <1>1, <1>2, <1>4, <1>5, <1>6 DEF SearchInv

LEMMA SearchNext == SearchInv /\ [RepairNext]_allVars => SearchInv'
<1> SUFFICES ASSUME SearchInv, [RepairNext]_allVars PROVE SearchInv'
  OBVIOUS
<1>1. CASE Start
  BY <1>1, StartKeeps
<1>2. CASE Diagnose \/ Judge \/ SolveFails \/ Expire \/ Abandon
  BY <1>2, JudgementsKeep, EndingsKeep
<1>3. CASE WorkerStep /\ UNCHANGED repair
  BY <1>3, WorkerKeepsSearch
<1>4. CASE UNCHANGED allVars
  <2>1. UNCHANGED vars /\ UNCHANGED repair
    BY <1>4 DEF allVars
  <2>2. /\ PoolInv' /\ TypeOK' /\ outcome' = outcome /\ current' = current /\ tasks' = tasks
    BY <2>1, PoolUnseen DEF vars
  <2>3. UNCHANGED <<specs, max_suggestions, max_attempts, search, position, attempts,
                    expired, suggestions, completion>>
    BY <2>1 DEF repair
  <2>4. RepairTypeOK'
    BY <2>2, <2>3 DEF SearchInv, RepairTypeOK
  <2>5. AttemptsInv'
    BY <2>2, <2>3 DEF SearchInv, AttemptsInv, Solved, States
  <2>6. SuggestedInv'
    <3>1. LastEvaluated' = LastEvaluated
      BY <2>3 DEF LastEvaluated
    <3>2. ASSUME NEW c PROVE Solved(c)' <=> Solved(c)
      BY <2>2 DEF Solved, States
    <3>3. Tested(suggestions, LastEvaluated)'
      BY <2>2, <2>3, <3>1, <3>2 DEF SearchInv, SuggestedInv, Tested
    <3>4. QED BY <2>2, <2>3, <3>1, <3>3 DEF SearchInv, SuggestedInv
  <2>7. ReasonInv'
    BY <2>2, <2>3 DEF SearchInv, ReasonInv, Solved, States
  <2>8. QED BY <2>2, <2>4, <2>5, <2>6, <2>7 DEF SearchInv
<1>5. QED BY <1>1, <1>2, <1>3, <1>4 DEF RepairNext, SearchStep

(* The search's place, its counts, its suggestions and the answers of the  *)
(* worker keep their relations, whatever else the worker does.             *)
THEOREM SearchInvariant == RepairSpec => []SearchInv
BY SearchInit, SearchNext, PTL DEF RepairSpec

(* Every variable of the pool and of the search keeps its type.            *)
THEOREM SearchTypeCorrect == RepairSpec => []RepairTypeOK
<1>1. SearchInv => RepairTypeOK
  BY DEF SearchInv
<1>2. QED BY <1>1, SearchInvariant, PTL

(* RepairSearch suggests exactly the candidates that solved on every       *)
(* platform, in order and with their number of attempts.                   *)
THEOREM SuggestionsTested == RepairSpec => []SuggestionsAreTested
<1>1. SearchInv => SuggestionsAreTested
  BY DEF SearchInv, SuggestedInv, Tested, LastEvaluated, SuggestionsAreTested, Evaluated
<1>2. QED BY <1>1, SearchInvariant, PTL

(* It never exceeds a limit, counted at the worker, and the completion it  *)
(* reports is why it ended.                                                *)
THEOREM CompletionTrue == RepairSpec => []CompletionIsTrue
<1>1. ASSUME SearchInv PROVE CompletionIsTrue
  <2>1. ASSUME NEW a \in Attempts, tasks[a] # [p \in Platforms |-> "none"]
        PROVE  a <= max_attempts
    <3>1. a \in Requests /\ a \in Nat /\ max_attempts \in Nat /\ position \in Nat
      BY <1>1, SearchFacts, RepairSearchAssumption DEF SearchInv, AttemptsInv, RepairTypeOK
    <3>2. ~Untouched(a)
      <4>1. tasks[a] \in [Platforms -> TaskStates \cup {"none"}]
        BY <1>1, <3>1 DEF SearchInv, PoolInv, TypeOK
      <4>2. Untouched(a) => tasks[a] = [p \in Platforms |-> "none"]
        BY <4>1 DEF Untouched
      <4>3. QED BY <2>1, <4>2
    <3>3. ~(a > position)
      BY <1>1, <3>1, <3>2 DEF SearchInv, PoolInv, RequestInv, AttemptsInv
    <3>4. a <= position /\ position <= max_attempts
      BY <1>1, <3>1, <3>3 DEF SearchInv, AttemptsInv
    <3>5. QED BY <3>1, <3>4
  <2>2. QED BY <1>1, <2>1 DEF SearchInv, SuggestedInv, ReasonInv, CompletionIsTrue
<1>2. QED BY <1>1, SearchInvariant, PTL

(* No task of an earlier attempt stays in the pool, and once the search    *)
(* has answered only an attempt past its deadline is still at work.        *)
THEOREM NothingIsLeft == RepairSpec => []LeavesNothingBehind
<1>1. ASSUME SearchInv, NEW a \in Attempts
      PROVE  /\ States(a) \cap Pending # {} => current = a
             /\ search = "answered" /\ current = a => a = position /\ expired
  <2>1. a \in Requests /\ a \notin Rendered
    BY RepairSearchAssumption
  <2>2. States(a) \cap Pending # {} => current = a
    BY <1>1, <2>1 DEF SearchInv, PoolInv, RequestInv, States
  <2>3. QED BY <1>1, <2>2 DEF SearchInv, AttemptsInv
<1>2. SearchInv => LeavesNothingBehind
  BY <1>1 DEF LeavesNothingBehind
<1>3. QED BY <1>2, SearchInvariant, PTL
=============================================================================
