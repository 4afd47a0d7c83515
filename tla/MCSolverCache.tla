--------------------------- MODULE MCSolverCache ---------------------------
(* SolverCache with a foreground request and a cache-warming replay over   *)
(* one sharded repodata file.                                              *)
EXTENDS SolverCache

CONSTANTS f1, w1, shards

(* What tells states apart.  No step of an idle client reads its last      *)
(* answer; a decision reads of the snapshot and of the entry found only    *)
(* whether they match and whether the outcome may be published; and of an  *)
(* outcome that no snapshot could publish nothing is read at all.          *)
Deciding(c) == pc[c] \in {"probeDecide", "publishDecide"}
Publishing(c) ==
    pc[c] \in {"publish", "publishRead", "publishCheck", "publishDecide"}
MayBeStored(result) ==
    result # None
    /\ is_cacheable_with(result, [records |-> result.used.records, stale |-> FALSE])

AnswerSeen(c) == IF pc[c] = "idle" THEN "pending" ELSE answer[c]
FoundSeen(c) == IF Deciding(c) /\ ~FoundMatches(c) THEN None ELSE found[c]
SnapSeen(c) == IF Deciding(c) THEN <<FoundMatches(c), Publishable(c)>> ELSE snap[c]
OutcomeSeen(c) ==
    CASE ~Publishing(c) -> outcome[c]
      [] Publishing(c) /\ ~MayBeStored(outcome[c]) -> None
      [] OTHER -> <<outcome[c].response, outcome[c].used.records, outcome[c].lapsed>>

CacheView ==
    <<diskVars, memory, storeVars, lock, pc, inspecting,
      [c \in Clients |-> <<FoundSeen(c), SnapSeen(c), OutcomeSeen(c), AnswerSeen(c)>>]>>
=============================================================================
