--------------------------- MODULE RepairSearch ----------------------------
(***************************************************************************)
(* The repair search of the HTTP application (repair_post and RepairSearch *)
(* in src/conda_presto/app.py) over a persistent worker: it solves the     *)
(* request as it is, then one single-spec relaxation after the other, up   *)
(* to a number of suggestions, a number of attempts and a deadline, and    *)
(* says which of them ended it.                                            *)
(*                                                                         *)
(* Every solve is a request of its own to the worker (ProcessPool), among  *)
(* those of other clients; attempt 0 is the request as it came.  A spec is *)
(* what candidates() looks at: a package artifact, an exact version, a     *)
(* range with both bounds, or anything else.                               *)
(***************************************************************************)
EXTENDS ProcessPool, Sequences

CONSTANTS
    Attempts,         \* the requests that are attempts of the search
    SpecLists,        \* the lists of specs a request may have
    SuggestionLimits, \* the values of max_suggestions
    AttemptLimits     \* and of max_attempts, after clamping

SpecKinds == {"artifact", "exact", "range", "other"}

Strategies == <<"relax_exact_pin", "drop_upper_bound", "drop_lower_bound">>

(* The relaxations of a spec of some kind.                                 *)
Replacements(kind) ==
    CASE kind = "exact" -> {"relax_exact_pin"}
      [] kind = "range" -> {"drop_upper_bound", "drop_lower_bound"}
      [] OTHER -> {}

(* candidates(): by spec, and the upper bound goes before the lower one.   *)
candidates(list) ==
    LET all == [k \in 1..(3 * Len(list)) |->
                    [spec |-> 1 + ((k - 1) \div 3),
                     strategy |-> Strategies[1 + ((k - 1) % 3)]]]
        Offered(c) == c.strategy \in Replacements(list[c.spec])
    IN  SelectSeq(all, Offered)

Limits == {"exhausted", "suggestion_limit", "attempt_limit", "time_limit"}
Completions == Limits \cup {"feasible", "error", "timeout"}

ASSUME RepairSearchAssumption ==
    /\ Attempts \subseteq Requests \ Rendered /\ Attempts \subseteq Nat
    /\ None \notin Completions
    /\ SuggestionLimits \subseteq Nat \ {0} /\ AttemptLimits \subseteq Nat \ {0}
    /\ \A list \in SpecLists :
        /\ list \in Seq(SpecKinds)
        /\ Len(candidates(list)) \in Nat
        /\ 0..Len(candidates(list)) \subseteq Attempts

VARIABLES
    specs, max_suggestions, max_attempts,
    search,       \* where the search is
    position,     \* the attempt it evaluates, or evaluated last
    attempts,     \* candidates it has counted
    expired,      \* whether the deadline of that attempt has passed
    suggestions,
    completion    \* why it ended

repair == <<specs, max_suggestions, max_attempts, search, position, attempts,
            expired, suggestions, completion>>
allVars == <<vars, repair>>

(* A suggestion is the candidate's place and the attempts until it.        *)
Suggestion == [candidate : Nat, solve_attempts : Nat]

RepairTypeOK ==
    /\ TypeOK
    /\ specs \in SpecLists
    /\ max_suggestions \in SuggestionLimits /\ max_attempts \in AttemptLimits
    /\ search \in {"new", "evaluating", "answered"}
    /\ position \in Nat /\ attempts \in Nat
    /\ expired \in BOOLEAN
    /\ suggestions \in Seq(Suggestion)
    /\ completion \in Completions \cup {None}

RepairInit ==
    /\ Init
    /\ specs \in SpecLists
    /\ max_suggestions \in SuggestionLimits /\ max_attempts \in AttemptLimits
    /\ search = "new" /\ position = 0 /\ attempts = 0 /\ expired = FALSE
    /\ suggestions = <<>> /\ completion = None

-----------------------------------------------------------------------------
Solved(a) == States(a) = {"solved"}

Ends(reason) ==
    /\ search' = "answered" /\ completion' = reason
    /\ UNCHANGED <<specs, max_suggestions, max_attempts>>

(* evaluate(): there is time left for the attempt, or there is none.       *)
Evaluates(a) ==
    /\ position' = a
    /\ \/ /\ search' = "evaluating" /\ expired' = FALSE
          /\ UNCHANGED <<specs, max_suggestions, max_attempts, completion>>
       \/ Ends(IF a = 0 THEN "timeout" ELSE "time_limit") /\ expired' = TRUE

Start ==
    /\ search = "new"
    /\ Evaluates(0)
    /\ UNCHANGED <<vars, attempts, suggestions>>

(* Mutant: the limits are looked at after the candidate, so one more is    *)
(* counted than tried.                                                     *)
Continue_CountsLate(found) ==
    /\ suggestions' = found
    /\ IF position = Len(candidates(specs)) THEN
            Ends("exhausted") /\ UNCHANGED <<position, attempts, expired>>
       ELSE IF Len(found) = max_suggestions THEN
            Ends("suggestion_limit") /\ UNCHANGED <<position, attempts, expired>>
       ELSE IF attempts > max_attempts THEN
            Ends("attempt_limit") /\ UNCHANGED <<position, attempts, expired>>
       ELSE attempts' = attempts + 1 /\ Evaluates(position + 1)

(* The loop of run() with the suggestions found so far.                    *)
Continue(found) ==
    /\ suggestions' = found
    /\ IF position = Len(candidates(specs)) THEN
            Ends("exhausted") /\ UNCHANGED <<position, attempts, expired>>
       ELSE IF Len(found) = max_suggestions THEN
            Ends("suggestion_limit") /\ UNCHANGED <<position, attempts, expired>>
       ELSE IF attempts = max_attempts THEN
            Ends("attempt_limit") /\ UNCHANGED <<position, attempts, expired>>
       ELSE attempts' = attempts + 1 /\ Evaluates(position + 1)

(* The worker has answered the request as it came.                         *)
Diagnose ==
    /\ search = "evaluating" /\ position = 0 /\ outcome[0] = "ok"
    /\ IF Solved(0)
       THEN Ends("feasible") /\ UNCHANGED <<position, attempts, expired, suggestions>>
       ELSE Continue(<<>>)
    /\ UNCHANGED vars

(* Mutant: a candidate is suggested that solves on one platform.           *)
Judge_AnyPlatform ==
    /\ search = "evaluating" /\ position > 0 /\ outcome[position] = "ok"
    /\ Continue(IF "solved" \in States(position)
                THEN Append(suggestions, [candidate |-> position,
                                          solve_attempts |-> attempts])
                ELSE suggestions)
    /\ UNCHANGED vars

(* It has answered a candidate.                                            *)
Judge ==
    /\ search = "evaluating" /\ position > 0 /\ outcome[position] = "ok"
    /\ Continue(IF Solved(position)
                THEN Append(suggestions, [candidate |-> position,
                                          solve_attempts |-> attempts])
                ELSE suggestions)
    /\ UNCHANGED vars

(* Anything but a result ends the search with that response.               *)
SolveFails ==
    /\ search = "evaluating" /\ outcome[position] = "error"
    /\ Ends("error")
    /\ UNCHANGED <<vars, position, attempts, expired, suggestions>>

(* The attempt's share of the solve timeout or of the budget is over.      *)
Expire ==
    /\ search = "evaluating" /\ ~expired
    /\ expired' = TRUE
    /\ UNCHANGED <<vars, specs, max_suggestions, max_attempts, search,
                   position, attempts, suggestions, completion>>

(* run_solve leaves its thread behind, waiting or in the exchange, and     *)
(* answers 504.                                                            *)
Abandon ==
    /\ search = "evaluating" /\ expired
    /\ Ends(IF position = 0 THEN "timeout" ELSE "time_limit")
    /\ UNCHANGED <<vars, position, attempts, expired, suggestions>>

-----------------------------------------------------------------------------
(* execute() takes nothing whose deadline has passed, and waits for an     *)
(* answer until then.                                                      *)
AttemptTaken(a) ==
    search = "evaluating" /\ a = position /\ ~expired /\ Take(a)

AttemptTimesOut(a) == expired /\ TimesOut(a)

WorkerStep ==
    \/ \E a \in Attempts : AttemptTaken(a) \/ AttemptTimesOut(a)
    \/ \E r \in Requests \ Attempts : Take(r) \/ TimesOut(r)
    \/ \E r \in Requests : Solve(r) \/ WorkerDies(r)
    \/ PoolWorkerDies

SearchStep == Start \/ Diagnose \/ Judge \/ SolveFails \/ Expire \/ Abandon

RepairNext == SearchStep \/ (WorkerStep /\ UNCHANGED repair)

RepairSpec == RepairInit /\ [][RepairNext]_allVars

-----------------------------------------------------------------------------
(* Properties.                                                             *)

(* The candidates the worker has solved for the search.                    *)
Evaluated ==
    1..(IF completion \in Limits \ {"time_limit"} THEN position ELSE position - 1)

(* What is suggested are exactly the candidates that solved on every       *)
(* platform, in the order of the specs, each with the number of attempts   *)
(* it took; one with an error or without an answer on a platform is not.   *)
SuggestionsAreTested ==
    /\ \A i \in DOMAIN suggestions : LET c == suggestions[i].candidate IN
        /\ c \in Evaluated /\ outcome[c] = "ok" /\ Solved(c)
        /\ suggestions[i].solve_attempts = c
        /\ i > 1 => suggestions[i - 1].candidate < c
    /\ \A c \in Evaluated : Solved(c) =>
        \E i \in DOMAIN suggestions : suggestions[i].candidate = c

(* The search never exceeds a limit, counted at the worker, and the reason *)
(* it gives is why it ended: exhausted means that every candidate was      *)
(* solved, a limit that there was one more, a time limit that the deadline *)
(* of the last attempt had passed.                                         *)
CompletionIsTrue ==
    /\ \A a \in Attempts : tasks[a] # [p \in Platforms |-> "none"] => a <= max_attempts
    /\ Len(suggestions) <= max_suggestions
    /\ completion \in Limits => outcome[0] = "ok" /\ ~Solved(0)
    /\ completion = "exhausted" => position = Len(candidates(specs))
    /\ completion = "suggestion_limit" =>
            position < Len(candidates(specs)) /\ Len(suggestions) = max_suggestions
    /\ completion = "attempt_limit" =>
            position < Len(candidates(specs)) /\ position = max_attempts
    /\ completion \in {"time_limit", "timeout"} => expired
    /\ completion = "feasible" => outcome[0] = "ok" /\ Solved(0)
    /\ completion = "error" => outcome[position] = "error"

(* Once the search has answered the worker does nothing for it, unless the *)
(* last attempt ran into its deadline inside the worker; no task of an     *)
(* earlier attempt is left in the pool for the requests that follow.       *)
LeavesNothingBehind ==
    \A a \in Attempts :
        /\ States(a) \cap Pending # {} => current = a
        /\ search = "answered" /\ current = a => a = position /\ expired

(* RepairDiagnosis (app.py:607-611) calls the diagnosis a solver conflict, *)
(* and tests/test_app.py:3004 wants a failure that is none to be answered  *)
(* with HTTP 500.                                                          *)
DiagnosisIsConflict == completion \in Limits => "failed" \in States(0)
=============================================================================
