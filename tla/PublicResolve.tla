--------------------------- MODULE PublicResolve ---------------------------
(***************************************************************************)
(* Public /resolve responses for one request: run_cached_solve (app.py),   *)
(* its cache of responses addressed by repodata markers (cache.py), and    *)
(* the rattler index a persistent worker keeps between requests            *)
(* (build_index, resolve.py), over conda's repodata cache files.           *)
(*                                                                         *)
(* As in SolverCache a repodata file is its version, and the marker of     *)
(* each new file is new.  A response is the versions it was solved over;   *)
(* the rest of its address is fixed.  Without a persistent worker every    *)
(* request solves in a child process with an index of its own.             *)
(*                                                                         *)
(* missed, of a request and of an index, is history for the properties:    *)
(* the files others replaced after build_index had loaded them and before  *)
(* it captured the markers it records with them.  No step depends on it.   *)
(***************************************************************************)
EXTENDS Naturals, FiniteSets

CONSTANTS
    Clients,          \* concurrent requests for the same response
    Repos,            \* repodata cache files of its channels and platforms
    MaxVersion,       \* bound on refreshes of each file
    PersistentWorker, \* whether one worker serves them and keeps its index
    None, Failed

ASSUME ResolveAssumption ==
    /\ MaxVersion \in Nat \ {0}
    /\ PersistentWorker \in BOOLEAN
    /\ None # Failed

VARIABLES
    disk, expired, \* version and staleness of each repodata cache file
    index,         \* the worker's entry in index_cache: its data and markers
    results,       \* the retained responses by the markers in their address
    pc,            \* program counter of each request
    initial,       \* its initial_repodata
    found,         \* the cached response it has looked up
    data,          \* the index it loads, then its payload
    missed         \* what the index it loads, or uses again, has missed

diskVars == <<disk, expired>>
vars == <<diskVars, index, results, pc, initial, found, data, missed>>

Markers == [Repos -> 1..MaxVersion]
Unread == 0
Loading == [Repos -> 0..MaxVersion]
Snapshots == [records : Markers, stale : BOOLEAN]
Responses == Markers \cup {Failed}
Indexes == [data : Markers, records : Markers, missed : SUBSET Repos]

TypeOK ==
    /\ disk \in Markers /\ expired \in [Repos -> BOOLEAN]
    /\ index \in Indexes \cup {None}
    /\ results \in [Markers -> Responses \cup {None}]
    /\ pc \in [Clients -> {"idle", "capture", "lookup", "recheck", "solve", "loading",
                           "solving", "final"}]
    /\ initial \in [Clients -> Snapshots \cup {None}]
    /\ found \in [Clients -> Responses \cup {None}]
    /\ data \in [Clients -> Loading \cup {Failed, None}]
    /\ missed \in [Clients -> SUBSET Repos]

Init ==
    /\ disk = [r \in Repos |-> 1] /\ expired \in [Repos -> BOOLEAN]
    /\ index = None
    /\ results = [m \in Markers |-> None]
    /\ pc = [c \in Clients |-> "idle"]
    /\ initial = [c \in Clients |-> None]
    /\ found = [c \in Clients |-> None]
    /\ data = [c \in Clients |-> None]
    /\ missed = [c \in Clients |-> {}]

Goes(c, next) == pc' = [pc EXCEPT ![c] = next]
Misses(c, files) == missed' = [missed EXCEPT ![c] = files]
Leaves(c) ==
    /\ Goes(c, "idle")
    /\ initial' = [initial EXCEPT ![c] = None]
    /\ found' = [found EXCEPT ![c] = None]
    /\ data' = [data EXCEPT ![c] = None]
    /\ Misses(c, {})

-----------------------------------------------------------------------------
(* conda's cache files, used by any conda process.                         *)

Snapshot == [records |-> disk, stale |-> \E r \in Repos : expired[r]]

InWindow(c, r) == pc[c] = "loading" /\ data[c][r] # Unread

Expire(r) ==
    /\ ~expired[r]
    /\ expired' = [expired EXCEPT ![r] = TRUE]
    /\ UNCHANGED <<disk, index, results, pc, initial, found, data, missed>>

OtherRefresh(r) ==
    /\ disk[r] < MaxVersion
    /\ disk' = [disk EXCEPT ![r] = @ + 1]
    /\ expired' = [expired EXCEPT ![r] = FALSE]
    /\ missed' = [c \in Clients |-> IF InWindow(c, r) THEN missed[c] \cup {r} ELSE missed[c]]
    /\ UNCHANGED <<index, results, pc, initial, found, data>>

-----------------------------------------------------------------------------
(* run_cached_solve up to its solve.                                       *)

Begin(c) ==
    /\ pc[c] = "idle"
    /\ Goes(c, "capture")
    /\ UNCHANGED <<diskVars, index, results, initial, found, data, missed>>

CaptureInitial(c) ==
    /\ pc[c] = "capture"
    /\ initial' = [initial EXCEPT ![c] = Snapshot]
    /\ Goes(c, IF Snapshot.stale THEN "solve" ELSE "lookup")
    /\ UNCHANGED <<diskVars, index, results, found, data, missed>>

(* get_response; the store may also fail to answer.                        *)
Lookup(c) ==
    /\ pc[c] = "lookup"
    /\ found' \in {[found EXCEPT ![c] = results[initial[c].records]], found}
    /\ Goes(c, IF found'[c] # None THEN "recheck" ELSE "solve")
    /\ UNCHANGED <<diskVars, index, results, initial, data, missed>>

(* A hit, or a changed snapshot to start again from.                       *)
Recheck(c) ==
    /\ pc[c] = "recheck"
    /\ IF Snapshot = [initial[c] EXCEPT !.stale = FALSE]
       THEN Leaves(c)
       ELSE /\ initial' = [initial EXCEPT ![c] = Snapshot]
            /\ found' = [found EXCEPT ![c] = None]
            /\ Goes(c, "solve")
            /\ UNCHANGED <<data, missed>>
    /\ UNCHANGED <<diskVars, index, results>>

-----------------------------------------------------------------------------
(* build_index and the solve, one request at a time in a worker.           *)

Solving(c) == pc[c] \in {"loading", "solving"}
WorkerIsFree == PersistentWorker => \A c \in Clients : ~Solving(c)

(* Mutant: only staleness makes build_index reload.                        *)
Unchanged_Fresh == index # None /\ ~Snapshot.stale

Unchanged == index # None /\ ~Snapshot.stale /\ Snapshot.records = index.records

(* The index is reused, reloaded in place, or built.                       *)
CheckIndex(c) ==
    /\ pc[c] = "solve" /\ WorkerIsFree
    /\ \/ /\ Unchanged
          /\ data' = [data EXCEPT ![c] = index.data]
          /\ Misses(c, index.missed)
          /\ Goes(c, "solving")
       \/ /\ ~Unchanged
          /\ data' = [data EXCEPT ![c] = [r \in Repos |-> Unread]]
          /\ Misses(c, {})
          /\ Goes(c, "loading")
    /\ UNCHANGED <<diskVars, index, results, initial, found>>

(* Mutant: a fresh file is not read again.                                 *)
Load_Expired(c, r) ==
    /\ pc[c] = "loading" /\ data[c][r] = Unread
    /\ data' = [data EXCEPT ![c][r] = IF expired[r] \/ index = None THEN disk[r]
                                      ELSE index.data[r]]
    /\ expired' = [expired EXCEPT ![r] = FALSE]
    /\ UNCHANGED <<disk, index, results, pc, initial, found, missed>>

(* A fresh file is read; an expired one is fetched first, and is found     *)
(* unmodified or replaced.                                                 *)
Load(c, r) ==
    /\ pc[c] = "loading" /\ data[c][r] = Unread
    /\ \/ ~expired[r] /\ UNCHANGED disk
       \/ expired[r] /\ UNCHANGED disk
       \/ expired[r] /\ disk[r] < MaxVersion /\ disk' = [disk EXCEPT ![r] = @ + 1]
    /\ expired' = [expired EXCEPT ![r] = FALSE]
    /\ data' = [data EXCEPT ![c][r] = disk'[r]]
    /\ UNCHANGED <<index, results, pc, initial, found, missed>>

Kept(entry) == index' = IF PersistentWorker THEN entry ELSE None

(* The markers recorded with the index are captured after it is loaded.    *)
RecordIndex(c) ==
    /\ pc[c] = "loading"
    /\ \A r \in Repos : data[c][r] # Unread
    /\ Kept([data |-> data[c], records |-> disk, missed |-> missed[c]])
    /\ Misses(c, {})
    /\ Goes(c, "solving")
    /\ UNCHANGED <<diskVars, results, initial, found, data>>

(* Mutant: a reload that failed half-way counts as done.                   *)
Reloaded_Recorded(c) ==
    [data |-> [r \in Repos |-> IF data[c][r] = Unread THEN index.data[r] ELSE data[c][r]],
     records |-> disk, missed |-> index.missed]

(* An index reloaded in part keeps the markers it had.                     *)
Reloaded(c) ==
    [data |-> [r \in Repos |-> IF data[c][r] = Unread THEN index.data[r] ELSE data[c][r]],
     records |-> index.records,
     missed |-> {r \in index.missed : data[c][r] = Unread}]

(* A fetch or a solve fails.  A native response carries the error of its   *)
(* platform; any other failure is answered with an error response.         *)
SolveFails(c) ==
    /\ Solving(c)
    /\ IF pc[c] = "loading" /\ index # None THEN index' = Reloaded(c) ELSE UNCHANGED index
    /\ \/ /\ data' = [data EXCEPT ![c] = Failed]
          /\ Misses(c, {})
          /\ Goes(c, "final")
          /\ UNCHANGED <<initial, found>>
       \/ Leaves(c)
    /\ UNCHANGED <<diskVars, results>>

Solved(c) ==
    /\ pc[c] = "solving"
    /\ Goes(c, "final")
    /\ UNCHANGED <<diskVars, index, results, initial, found, data, missed>>

-----------------------------------------------------------------------------
(* The end of run_cached_solve.                                            *)

(* Mutant: the markers are not compared with those before the solve.       *)
Retained_Unchanged(c) == ~Snapshot.stale

Retained(c) == Snapshot.records = initial[c].records /\ ~Snapshot.stale

(* remember() overwrites; an entry may not fit.                            *)
Finish(c) ==
    /\ pc[c] = "final"
    /\ \/ Retained(c) /\ results' = [results EXCEPT ![disk] = data[c]]
       \/ UNCHANGED results
    /\ Leaves(c)
    /\ UNCHANGED <<diskVars, index>>

(* The deadline passes; a persistent worker that is solving is replaced.   *)
TimesOut(c) ==
    /\ pc[c] # "idle"
    /\ Leaves(c)
    /\ index' = IF Solving(c) THEN None ELSE index
    /\ UNCHANGED <<diskVars, results>>

(* Other channels' indexes and other responses evict these.                *)
EvictIndex ==
    /\ index # None /\ \A c \in Clients : ~Solving(c)
    /\ index' = None
    /\ UNCHANGED <<diskVars, results, pc, initial, found, data, missed>>

EvictResult(m) ==
    /\ results[m] # None
    /\ results' = [results EXCEPT ![m] = None]
    /\ UNCHANGED <<diskVars, index, pc, initial, found, data, missed>>

Next ==
    \/ \E r \in Repos : Expire(r) \/ OtherRefresh(r)
    \/ \E c \in Clients :
        \/ Begin(c) \/ CaptureInitial(c) \/ Lookup(c) \/ Recheck(c)
        \/ CheckIndex(c) \/ (\E r \in Repos : Load(c, r)) \/ RecordIndex(c)
        \/ SolveFails(c) \/ Solved(c) \/ Finish(c) \/ TimesOut(c)
    \/ EvictIndex
    \/ \E m \in Markers : EvictResult(m)

Spec == Init /\ [][Next]_vars

-----------------------------------------------------------------------------
(* Properties.                                                             *)

(* A response is retained at an address only if it was solved over the     *)
(* files the address names: after the solve "repodata and the worker's      *)
(* index agree" (app.py:1171), but for files that an index used again had  *)
(* missed.                                                                 *)
RetainedFaithful ==
    [][\A c \in Clients, m \in Markers :
        (pc[c] = "final" /\ pc'[c] = "idle" /\ data[c] # Failed /\ results'[m] # results[m])
        => \A r \in Repos \ missed[c] : results'[m][r] = m[r]]_vars

(* "When metadata becomes stale or its cache-file markers change,          *)
(* conda-presto reloads affected index data before solving"                *)
(* (docs/explanation/performance.md): an index that is used as it is was   *)
(* loaded from the files that are there.                                   *)
ReloadsWhenChanged ==
    [][\A c \in Clients : pc[c] = "solve" /\ pc'[c] = "solving" => data'[c] = disk]_vars

(* Whether it was built, reloaded or half reloaded, an index that is used  *)
(* as it is has the data of every file that is there but of those that     *)
(* were replaced between their load and the capture that followed.         *)
ReloadsUnlessMissed ==
    [][\A c \in Clients : pc[c] = "solve" /\ pc'[c] = "solving" =>
        \A r \in Repos \ index.missed : data'[c][r] = disk[r]]_vars

(* Whatever is replaced while build_index runs, an index that it has built *)
(* or reloaded is not older than the repodata its request began with: a    *)
(* reload reads every file, so it also mends an index that was recorded    *)
(* under markers newer than its data.                                      *)
LoadsAreCurrent ==
    [][\A c \in Clients : pc[c] = "loading" /\ pc'[c] = "solving" =>
        \A r \in Repos : data'[c][r] >= initial[c].records[r]]_vars

(* The body at a permalink stays the same until it is evicted              *)
(* (docs/explanation/caching-and-freshness.md).                            *)
PermalinkImmutable ==
    [][\A m \in Markers :
        results[m] # None /\ results'[m] # None => results'[m] = results[m]]_vars
=============================================================================
