---------------------------- MODULE SolverCache ----------------------------
(***************************************************************************)
(* The cache of solver final states for one solver key: SolverResultService*)
(* and ResultCache (src/conda_presto/cache.py), the worker's solve between *)
(* its two metadata captures (PrestoSolveRequest.solve, solver.py), and    *)
(* RepodataSnapshot (resolve.py), over conda's repodata cache files, which *)
(* expire and which any conda process may refresh.                         *)
(*                                                                         *)
(* A repodata file is its version: the marker (size, times, inode) of each *)
(* new file is new.  A response is the versions it was computed from.  The *)
(* persistent store is what StoreOperations promises: operations apply in  *)
(* order, a timed-out write may still apply before the next operation.     *)
(*                                                                         *)
(* The field lapsed of an outcome and of an entry is history, for the      *)
(* properties: the files that expired after the worker's first capture and *)
(* before it collected them.  No step depends on it.                       *)
(***************************************************************************)
EXTENDS Naturals, FiniteSets

CONSTANTS
    Foreground, \* requests served by the foreground worker
    Refreshers, \* cache-warming replays, on a worker of their own
    Repos,      \* the repodata files of the effective channels
    Sharded,    \* those read from shards
    Persistent, \* whether store_operations is configured
    MaxVersion, \* bound on refreshes of each file
    None

Clients == Foreground \cup Refreshers

ASSUME CacheAssumption ==
    /\ Sharded \subseteq Repos
    /\ Persistent \in BOOLEAN
    /\ MaxVersion \in Nat \ {0}
    /\ Foreground \cap Refreshers = {}
    /\ None \notin Clients

VARIABLES
    disk, expired,    \* version and staleness of each repodata cache file
    memory,           \* this key's entry in ResultCache.entries
    stored, late,     \* the store's entry; a timed-out write not yet applied
    lock,             \* the holder of solver_publication_lock
    pc,               \* program counter of each client
    inspecting,       \* whether it runs probe or inspect alone, not resolve
    found,            \* the entry it has read
    snap,             \* its last snapshot of the markers
    outcome,          \* the worker's outcome
    answer            \* the disposition of its last call

diskVars  == <<disk, expired>>
storeVars == <<stored, late>>
vars == <<diskVars, memory, storeVars, lock, pc, inspecting, found, snap, outcome, answer>>

Fallback == 0   \* the JSON data read when a shard fetch fails transiently
Unread == MaxVersion + 1
Markers == [Repos -> 1..MaxVersion]
Responses == [Repos -> 0..MaxVersion]
Entries == [response : Responses, records : Markers, lapsed : SUBSET Repos]
Snapshots == [records : Markers, stale : BOOLEAN]
Outcomes == [response : [Repos -> 0..(MaxVersion + 1)],
             before : Snapshots \cup {None}, used : Snapshots \cup {None},
             lapsed : SUBSET Repos]
Dispositions == {"cache-hit", "published", "already-current", "not-retained",
                 "persistent-failed", "publication-rejected", "solver-error",
                 "missed", "pending"}

TypeOK ==
    /\ disk \in Markers
    /\ expired \in [Repos -> BOOLEAN]
    /\ {memory, stored, late} \subseteq Entries \cup {None}
    /\ lock \in Clients \cup {None}
    /\ pc \in [Clients -> {"idle", "probe", "probeRead", "probeCheck", "probeDecide",
                           "capture", "collect",
                           "publish", "publishRead", "publishCheck", "publishDecide", "store"}]
    /\ inspecting \in [Clients -> BOOLEAN]
    /\ found \in [Clients -> Entries \cup {None}]
    /\ snap \in [Clients -> Snapshots \cup {None}]
    /\ outcome \in [Clients -> Outcomes \cup {None}]
    /\ answer \in [Clients -> Dispositions]

Init ==
    /\ disk = [r \in Repos |-> 1]
    /\ expired \in [Repos -> BOOLEAN]
    /\ memory = None /\ stored = None /\ late = None
    /\ lock = None
    /\ pc = [c \in Clients |-> "idle"]
    /\ inspecting = [c \in Clients |-> FALSE]
    /\ found = [c \in Clients |-> None]
    /\ snap = [c \in Clients |-> None]
    /\ outcome = [c \in Clients |-> None]
    /\ answer = [c \in Clients |-> "pending"]

-----------------------------------------------------------------------------
(* RepodataSnapshot and the comparisons made with it.                      *)

Snapshot == [records |-> disk, stale |-> \E r \in Repos : expired[r]]

matches(entry, repodata) == ~repodata.stale /\ entry.records = repodata.records

(* Mutant: a shard file left in place by a stale check is accepted.        *)
is_cacheable_after_AnyShard(used, previous) == ~used.stale

is_cacheable_after(used, previous) ==
    /\ ~used.stale
    /\ ~(previous.stale /\ \E r \in Sharded : previous.records[r] = used.records[r])

(* Mutant: the markers before the collection are not looked at.            *)
is_cacheable_with_Used(result, current) ==
    /\ result # None
    /\ ~current.stale
    /\ current.records = result.used.records
    /\ is_cacheable_after(result.used, result.before)

is_cacheable_with(result, current) ==
    /\ result # None
    /\ ~current.stale
    /\ current.records = result.used.records
    /\ result.before.records = result.used.records
    /\ is_cacheable_after(result.used, result.before)

-----------------------------------------------------------------------------
(* conda's cache files: their time to live ends, and other conda processes *)
(* refresh them.                                                           *)

Collecting(c, r) == pc[c] = "collect" /\ outcome[c].response[r] = Unread

Expire(r) ==
    /\ ~expired[r]
    /\ expired' = [expired EXCEPT ![r] = TRUE]
    /\ outcome' = [c \in Clients |->
                    IF Collecting(c, r) THEN [outcome[c] EXCEPT !.lapsed = @ \cup {r}]
                    ELSE outcome[c]]
    /\ UNCHANGED <<disk, memory, storeVars, lock, pc, inspecting, found, snap, answer>>

OtherRefresh(r) ==
    /\ disk[r] < MaxVersion
    /\ disk' = [disk EXCEPT ![r] = @ + 1]
    /\ expired' = [expired EXCEPT ![r] = FALSE]
    /\ UNCHANGED <<memory, storeVars, lock, pc, inspecting, found, snap, outcome, answer>>

-----------------------------------------------------------------------------
(* PrestoSolveRequest.solve in the client's worker.                        *)

SameWorker(c, d) == (c \in Foreground) <=> (d \in Foreground)
Solving(c) == pc[c] = "collect"

Goes(c, next) == pc' = [pc EXCEPT ![c] = next]
Forgets(c) == snap' = [snap EXCEPT ![c] = None] /\ outcome' = [outcome EXCEPT ![c] = None]
Ends(c, disposition) ==
    /\ Goes(c, "idle")
    /\ answer' = [answer EXCEPT ![c] = disposition]
    /\ found' = [found EXCEPT ![c] = None]
    /\ Forgets(c)
    /\ inspecting' = [inspecting EXCEPT ![c] = FALSE]

(* The capture before the collection; one that fails only means that the   *)
(* outcome is not retained.                                                *)
CaptureBefore(c) ==
    /\ pc[c] = "capture"
    /\ \A d \in Clients : SameWorker(c, d) => ~Solving(d)
    /\ \E before \in {Snapshot, None} :
        outcome' = [outcome EXCEPT ![c] =
            [response |-> [r \in Repos |-> Unread], before |-> before, used |-> None,
             lapsed |-> {}]]
    /\ Goes(c, "collect")
    /\ UNCHANGED <<diskVars, memory, storeVars, lock, inspecting, found, snap, answer>>

Reads(c, r, data) ==
    outcome' = [outcome EXCEPT ![c].response[r] = data,
                               ![c].lapsed = IF data = Fallback THEN @ ELSE @ \ {r}]

(* _collect_all_metadata, one file at a time: a fresh file is read; an     *)
(* expired one is found unmodified, replaced, or, when it is a shard index *)
(* that cannot be fetched, left in place as if checked while JSON is read. *)
Collect(c, r) ==
    /\ Collecting(c, r)
    /\ \/ ~expired[r] /\ Reads(c, r, disk[r]) /\ UNCHANGED diskVars
       \/ /\ expired[r]
          /\ expired' = [expired EXCEPT ![r] = FALSE]
          /\ \/ Reads(c, r, disk[r]) /\ UNCHANGED disk
             \/ /\ disk[r] < MaxVersion
                /\ disk' = [disk EXCEPT ![r] = @ + 1]
                /\ Reads(c, r, disk'[r])
             \/ r \in Sharded /\ Reads(c, r, Fallback) /\ UNCHANGED disk
    /\ UNCHANGED <<memory, storeVars, lock, pc, inspecting, found, snap, answer>>

(* The second capture, then the solving loop.  When either capture failed  *)
(* the outcome is not cacheable, and None stands for it.                   *)
Solved(c) ==
    /\ pc[c] = "collect"
    /\ \A r \in Repos : outcome[c].response[r] # Unread
    /\ \E used \in {Snapshot, None} :
        outcome' = [outcome EXCEPT ![c] =
            IF @.before = None \/ used = None THEN None ELSE [@ EXCEPT !.used = used]]
    /\ Goes(c, "publish")
    /\ UNCHANGED <<diskVars, memory, storeVars, lock, inspecting, found, snap, answer>>

SolveFails(c) ==
    /\ pc[c] \in {"capture", "collect"}
    /\ Ends(c, "solver-error")
    /\ UNCHANGED <<diskVars, memory, storeVars, lock>>

-----------------------------------------------------------------------------
(* get_stored: memory, then the store.                                     *)

Begin(c, inspect) ==
    /\ pc[c] = "idle" /\ (inspect => c \in Refreshers)
    /\ Goes(c, "probe")
    /\ inspecting' = [inspecting EXCEPT ![c] = inspect]
    /\ answer' = [answer EXCEPT ![c] = "pending"]
    /\ UNCHANGED <<diskVars, memory, storeVars, lock, found, snap, outcome>>

(* Mutant: publications are not serialized by solver_publication_lock.     *)
Lookup_Unlocked(c, from, read, check) ==
    /\ pc[c] = from
    /\ found' = [found EXCEPT ![c] = memory]
    /\ Goes(c, IF memory = None /\ Persistent THEN read ELSE check)
    /\ UNCHANGED <<diskVars, memory, storeVars, lock, inspecting, snap, outcome, answer>>

(* solver_publication_lock is taken and memory looked up in one step.      *)
Lookup(c, from, read, check) ==
    /\ pc[c] = from /\ lock = None
    /\ lock' = c
    /\ found' = [found EXCEPT ![c] = memory]
    /\ Goes(c, IF memory = None /\ Persistent THEN read ELSE check)
    /\ UNCHANGED <<diskVars, memory, storeVars, inspecting, snap, outcome, answer>>

(* The store's answer comes after every write before it; memory is looked  *)
(* up again, and otherwise filled unless the entry does not fit.  A read   *)
(* that fails or times out finds nothing.                                  *)
ReadStored(c, read, check) ==
    /\ pc[c] = read
    /\ \/ /\ stored' = IF late # None THEN late ELSE stored
          /\ late' = None
          /\ found' = [found EXCEPT ![c] = IF memory # None THEN memory ELSE stored']
          /\ IF memory = None THEN memory' \in {stored', None} ELSE UNCHANGED memory
       \/ UNCHANGED <<found, memory, storeVars>>
    /\ Goes(c, check)
    /\ UNCHANGED <<diskVars, lock, inspecting, snap, outcome, answer>>

(* The snapshot is taken in a thread that is not abandoned; it may fail.   *)
TakeSnapshot(c, check, decide) ==
    /\ pc[c] = check
    /\ \E current \in {Snapshot, None} : snap' = [snap EXCEPT ![c] = current]
    /\ Goes(c, decide)
    /\ UNCHANGED <<diskVars, memory, storeVars, lock, inspecting, found, outcome, answer>>

(* remember_memory: the entry is retained, or it does not fit and what was *)
(* there is dropped.                                                       *)
Remember(entry) == memory' \in {entry, None}

FoundMatches(c) == found[c] # None /\ snap[c] # None /\ matches(found[c], snap[c])
Publishable(c) == snap[c] # None /\ is_cacheable_with(outcome[c], snap[c])
MustPersist(c) == c \in Refreshers /\ Persistent
Release == lock' = None
Answers(c, disposition) == answer' = [answer EXCEPT ![c] = disposition]

-----------------------------------------------------------------------------
(* probe (get_solver_result), which solver_v1 and resolve both call, and   *)
(* inspect (inspect_solver_result), which the warmer calls.                *)

ProbeHit(c) ==
    /\ pc[c] = "probeDecide" /\ FoundMatches(c)
    /\ ~(inspecting[c] /\ MustPersist(c))
    /\ Ends(c, "cache-hit")
    /\ Release
    /\ UNCHANGED <<diskVars, memory, storeVars>>

(* inspect() writes a matching entry to the store again.                   *)
InspectHit(c) ==
    /\ pc[c] = "probeDecide" /\ FoundMatches(c)
    /\ inspecting[c] /\ MustPersist(c)
    /\ Remember(found[c])
    /\ Answers(c, "cache-hit")
    /\ Goes(c, "store")
    /\ Forgets(c)
    /\ UNCHANGED <<diskVars, storeVars, lock, inspecting, found>>

ProbeMiss(c) ==
    /\ pc[c] = "probeDecide" /\ ~FoundMatches(c)
    /\ Release
    /\ IF inspecting[c] THEN Ends(c, "missed")
       ELSE /\ Goes(c, "capture")
            /\ found' = [found EXCEPT ![c] = None]
            /\ snap' = [snap EXCEPT ![c] = None]
            /\ UNCHANGED <<inspecting, outcome, answer>>
    /\ UNCHANGED <<diskVars, memory, storeVars>>

-----------------------------------------------------------------------------
(* publish_solver.                                                         *)

AlreadyCurrent(c) ==
    /\ pc[c] = "publishDecide" /\ FoundMatches(c)
    /\ IF MustPersist(c)
       THEN /\ Remember(found[c])
            /\ Answers(c, "already-current")
            /\ Goes(c, "store")
            /\ Forgets(c)
            /\ UNCHANGED <<lock, inspecting, found>>
       ELSE Ends(c, "already-current") /\ Release /\ UNCHANGED memory
    /\ UNCHANGED <<diskVars, storeVars>>

Reject(c) ==
    /\ pc[c] = "publishDecide" /\ ~FoundMatches(c)
    /\ ~Publishable(c)
    /\ Ends(c, "publication-rejected")
    /\ Release
    /\ UNCHANGED <<diskVars, memory, storeVars>>

Publish(c) ==
    /\ pc[c] = "publishDecide" /\ ~FoundMatches(c)
    /\ Publishable(c)
    /\ LET entry == [response |-> outcome[c].response, records |-> outcome[c].used.records,
                      lapsed |-> outcome[c].lapsed] IN
        /\ Remember(entry)
        /\ found' = [found EXCEPT ![c] = entry]
    /\ Answers(c, IF memory' = None THEN "not-retained" ELSE "published")
    /\ Goes(c, "store")
    /\ Forgets(c)
    /\ UNCHANGED <<diskVars, storeVars, lock, inspecting>>

(* store_entry's second half: the write to the store.  One that times out  *)
(* is left in the queue, or withdrawn before it got there; one that fails  *)
(* may leave the key deleted.  Without a store there is nothing to write.  *)
Flushed == IF late # None THEN late ELSE stored

WriteCompletes(c) ==
    /\ pc[c] = "store" /\ Persistent
    /\ stored' = found[c] /\ late' = None
    /\ Ends(c, IF answer[c] = "not-retained" THEN "published"
               ELSE answer[c])
    /\ Release
    /\ UNCHANGED <<diskVars, memory>>

(* Mutant: require_persistent is forgotten.                                *)
WriteFails_Ignored(c) ==
    /\ pc[c] = "store"
    /\ Persistent /\ late' \in {found[c], late} /\ UNCHANGED stored
    /\ Ends(c, answer[c])
    /\ Release
    /\ UNCHANGED <<diskVars, memory>>

WriteFails(c) ==
    /\ pc[c] = "store"
    /\ \/ Persistent /\ late' \in {found[c], late} /\ UNCHANGED stored
       \/ Persistent /\ late' = None /\ stored' \in {Flushed, None}
       \/ ~Persistent /\ UNCHANGED storeVars
    /\ Ends(c, IF MustPersist(c) THEN "persistent-failed" ELSE answer[c])
    /\ Release
    /\ UNCHANGED <<diskVars, memory>>

-----------------------------------------------------------------------------
(* The rest of the system: other keys evict this entry; the store drops it *)
(* at the end of its age; a timed-out write is applied; a client holding   *)
(* the lock is cancelled; the service restarts with nothing but the store. *)

Evict ==
    /\ memory # None
    /\ memory' = None
    /\ UNCHANGED <<diskVars, storeVars, lock, pc, inspecting, found, snap, outcome, answer>>

Outlives ==
    /\ stored # None
    /\ stored' = None
    /\ UNCHANGED <<diskVars, memory, late, lock, pc, inspecting, found, snap, outcome, answer>>

LateWrite ==
    /\ late # None
    /\ stored' = late /\ late' = None
    /\ UNCHANGED <<diskVars, memory, lock, pc, inspecting, found, snap, outcome, answer>>

Cancel(c) ==
    /\ pc[c] \in {"probeRead", "probeCheck", "publishRead", "publishCheck", "store"}
    /\ IF pc[c] = "store" /\ Persistent THEN late' \in {found[c], late} ELSE UNCHANGED late
    /\ Ends(c, "pending")
    /\ Release
    /\ UNCHANGED <<diskVars, memory, stored>>

Restart ==
    /\ memory' = None /\ late' = None /\ stored' \in {stored, Flushed}
    /\ lock' = None
    /\ pc' = [c \in Clients |-> "idle"]
    /\ inspecting' = [c \in Clients |-> FALSE]
    /\ found' = [c \in Clients |-> None]
    /\ snap' = [c \in Clients |-> None]
    /\ outcome' = [c \in Clients |-> None]
    /\ answer' = [c \in Clients |-> "pending"]
    /\ UNCHANGED diskVars

Next ==
    \/ \E r \in Repos : Expire(r) \/ OtherRefresh(r)
    \/ \E c \in Clients :
        \/ \E inspect \in BOOLEAN : Begin(c, inspect)
        \/ Lookup(c, "probe", "probeRead", "probeCheck")
        \/ ReadStored(c, "probeRead", "probeCheck")
        \/ TakeSnapshot(c, "probeCheck", "probeDecide")
        \/ ProbeHit(c) \/ InspectHit(c) \/ ProbeMiss(c)
        \/ CaptureBefore(c) \/ (\E r \in Repos : Collect(c, r)) 
        \/ Solved(c) \/ SolveFails(c)
        \/ Lookup(c, "publish", "publishRead", "publishCheck")
        \/ ReadStored(c, "publishRead", "publishCheck")
        \/ TakeSnapshot(c, "publishCheck", "publishDecide")
        \/ AlreadyCurrent(c) \/ Reject(c) \/ Publish(c)
        \/ WriteCompletes(c) \/ WriteFails(c) \/ Cancel(c)
    \/ Evict \/ Outlives \/ LateWrite \/ Restart

Spec == Init /\ [][Next]_vars

-----------------------------------------------------------------------------
(* Properties.                                                             *)

(* "An ambiguous sharded-repodata fallback is also not retained"           *)
(* (docs/reference/cache.md): every retained entry was computed from the   *)
(* files its markers name.                                                 *)
Faithful(entry) == entry # None => entry.response = entry.records
EntriesFaithful == Faithful(memory) /\ Faithful(stored) /\ Faithful(late)

(* Whenever files expire and are replaced, is_cacheable_with lets through  *)
(* no entry with the data of another version than its markers name: only   *)
(* JSON data may be read in the place of a shard index.                    *)
FaithfulOrFallback(entry) ==
    entry # None =>
        \A r \in Repos : \/ entry.response[r] = entry.records[r]
                         \/ r \in Sharded /\ entry.response[r] = Fallback
NoOtherVersion == \A entry \in {memory, stored, late} : FaithfulOrFallback(entry)

(* is_cacheable_after recognises every fallback but those for a shard      *)
(* index that was fresh at the first capture and expired before it was     *)
(* collected.                                                              *)
LapsesAtMost(entry) ==
    entry # None => \A r \in Repos : entry.response[r] = Fallback => r \in entry.lapsed
OnlyLapsesFallBack == \A entry \in {memory, stored, late} : LapsesAtMost(entry)

(* Two concurrent publications, a late write and a read of the store never *)
(* put an older entry in the place of a newer one.                         *)
NotOlder(new, old) ==
    new # None /\ old # None => \A r \in Repos : new.records[r] >= old.records[r]
NeverRegresses == [][NotOlder(memory', memory) /\ NotOlder(stored', stored)]_vars

(* A refresh is reported as published or already current only with the     *)
(* entry, or a newer one, in the store: "persistent-failed" otherwise.     *)
RefreshIsPersistent ==
    [][\A c \in Refreshers :
        (/\ Persistent
         /\ pc[c] = "store" /\ pc'[c] = "idle"
         /\ answer'[c] \in {"published", "already-current"})
        => stored' = found[c]]_vars
=============================================================================
