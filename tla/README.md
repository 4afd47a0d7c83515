# A TLA+ verification of conda-presto

conda-presto (`src/conda_presto/`) answers conda solves over HTTP from a
long-lived process. Its hard part is not the solving, which conda and rattler
do, but everything around it: one worker process that is killed and replaced, a
cache whose entries are only as good as the repodata files they were computed
from, a persistent store whose writes may be late, and a background task that
replays popular requests without getting in the way. This project models that
part, checks it with TLC on small instances and proves its safety for every value
of the constants: every invariant and action property a passing run checks is a
theorem. Four runs show where the code does something else than its documents or
tests say.

Terms: a *solve* is one request's work in the worker; a *marker* is the
(size, times, inode) tuple by which a repodata cache file is recognised; the
*store* is the optional FileStore or Redis behind the result cache.

## Components

| Component | State it keeps | Operations | Hard behaviour | What makes it correct |
|---|---|---|---|---|
| `PersistentSolveWorker` (worker.py) | process, pipe, `is_ready`, restart thread, shutdown flag; all under `operation_lock` except two unlocked reads | start, execute, recover_if_stopped, stop, restart, shutdown; the child's loop | request threads, start-up, restart thread, health and shutdown race; deadlines, crashes, hangs, processes that survive a kill | one process; the right answer to the right caller; readiness; nothing left after shutdown; no lock held for ever; recovery |
| `StoreOperationCoordinator` (storage.py) | a memory stream of capacity 1, the consumer, per-operation events | get, set, delete, cleanup, lifespan | callers time out while their operation is blocked, buffered or being applied; FileStore loses writes silently; shutdown with work queued | operations apply in arrival order; completed means stored; closing drains and ends |
| `ResultCache`, `SolverResultService` (cache.py) | `entries` (LRU), `solver_publication_lock`, the store | probe, inspect, resolve, publish_solver, store_entry, get_stored | awaits between check, snapshot and store; late writes; eviction; restarts | an entry was computed from the files its markers name; never replaced by an older one; a refresh reported as retained is in the store |
| `PrestoSolveRequest.solve`, `PrestoSolverClient` (solver.py) | none between calls | solve in the worker; post and read with deadlines in the client | metadata captured before and after index collection | an outcome names the files it used |
| `RepodataSnapshot`, index cache, dispatch, process pool (resolve.py) | `index_cache`, the pool | capture, build_index, solve_environments, dispatch | files replaced while an index is built; a broken pool | the index is of the files recorded with it |
| `SolverWarmCandidates` (warm_candidates.py) | `entries`, `observations`, two generation counters | record, candidates, candidate, discard, load, checkpoint | records while a checkpoint waits for its write; clocks set back; foreign or corrupt catalogs | bounds; the most requested are kept; what counts as persisted is stored |
| `SolverCacheWarmer`, `ForegroundCapacity` (warmer.py) | the foreground generation, a worker of its own, statistics | run, cycle | foreground requests arriving between two awaits; budgets; cleanup | warming yields to foreground work and leaves no process |
| HTTP application (app.py) | the objects above | health, solve, repair, solver_v1, lifespans, run_solve_in_process | ordering of start-up and shutdown; child processes with deadlines; search limits | a public response is current; limits are reported |
| inputs.py | none | parsing in a child with a deadline | a child that does not exit | |
| `RepairSearch`, repair_post (app.py) | position, attempts, suggestions | start, evaluate, finish | attempts that time out inside the worker; a pool that breaks between two attempts; a worker others use too | suggestions solved; limits kept and reported truthfully; nothing goes on after the answer |
| exporter, exceptions, config, cli, preflight, lockfile_transcode, plugin, broker, action, image | none that changes | pure rendering, parsing, declarations | | |

Interaction: an HTTP handler probes the cache, otherwise runs
`worker.solve_final_state` in a thread (which waits for `operation_lock`),
then publishes the outcome under `solver_publication_lock`; both cache steps
await the store coordinator's queue and threads that stat repodata files. A
successful foreground request is recorded as a warm candidate. When no
foreground request is active the warmer replays candidates through the same
service on a worker of its own. The lifespan starts the store, the worker and
the store coordinator in this order and ends them in the reverse one.

## Modules

| Module | Models | Kind |
|---|---|---|
| `SolveWorker` | worker.py, `health()` and the worker's part of the lifespan in app.py | component |
| `SolveWorkerProofs` | its inductive invariant and the proofs of its safety | proofs |
| `StoreOperations` | storage.py over anyio's memory stream | component |
| `SerialQueue` | what the coordinator promises | abstract specification |
| `StoreOperationsProofs` | the refinement of `SerialQueue`, the inductive invariant and the proofs of the safety of storage.py | proofs |
| `SolverCache` | the solver side of cache.py, the worker's solve in solver.py, `RepodataSnapshot` | composition over the store's promise |
| `SolverCacheProofs` | its inductive invariant and the proofs of its safety | proofs |
| `ResultCacheMemory` | the in-process half of `ResultCache` (cache.py): all keys, the order of use, both limits, the byte count | component |
| `SolverExchange` | `PrestoSolverClient.solve`, `read_response` (solver.py) against solver_v1 (app.py) over `ResultCacheMemory` | composition |
| `ServingProofs` | the inductive invariants of the memory, of the exchange over it and of `ChildSolve`, and the proofs of their safety | proofs |
| `WarmCandidates` | warm_candidates.py over the store's promise | component |
| `WarmCandidatesProofs` | its inductive invariant and the proofs of its safety | proofs |
| `Warmer` | warmer.py, `ForegroundCapacity`, the cycle's worker, arrivals and recording in app.py | composition over abstract cache, candidates and worker |
| `WarmerProofs` | its inductive invariant and the proofs of its safety | proofs |
| `PublicResolve` | run_cached_solve (app.py), build_index (resolve.py), the public side of cache.py | composition |
| `PublicResolveProofs` | its inductive invariant and the proofs of its safety | proofs |
| `ProcessPool` | dispatch and the global pool (resolve.py) inside the persistent worker | component |
| `RepairSearch` | repair_post and `RepairSearch` (app.py) over `ProcessPool` | composition |
| `RepairSearchProofs` | the inductive invariants of both and the proofs of their safety | proofs |
| `ChildSolve` | run_solve_in_process and run_solve (app.py), the upload's child (inputs.py), watch_parent_process | component |
| `SolveProcesses` | the choice run_solve (app.py) makes by `PERSISTENT_WORKER` between `SolveWorker` and `ChildSolve` | composition |
| `MC...` | values of the constants for TLC | |

Every `X_Something` operator with the comment *Mutant* is a broken variant of
the definition `X` that follows it; no specification uses it. PROJECT.json
says which property each one violates.

### SolveWorker

`process`, `connection`, `is_ready` are the attributes of the same name;
`owner` is the thread inside `operation_lock` between two steps. `pstate`,
`request` and `reply` are the child process and the pipe in both directions.
The threads are program counters: `caller` (execute), `starter["boot"]` and
`starter["restart"]` (start, from the lifespan and from restart()), `health`,
`shutdown`. What a thread does under the lock without waiting for the child or
a clock is one action; `stop()` is such a piece, with two outcomes, since a
process may survive terminate and kill. Unlocked accesses are the read of
`ready` by health and the shutdown flag; they are separate actions. A pipe
reset (the child exits with the request unread) and an answer that breaks off
half way raise an OSError in `recv()`, which `execute` does not catch:
`ReceivesReset` leaves the dead worker to the next request or health poll.

Two things the model made visible and the properties tolerate because the code
does. A `stop(restart=True)` that comes while the previous restart thread is
still ending schedules nothing, so recovery then depends on the next health
poll or request: `Recovers` holds only with health polled again and again. And
`start()`'s error for a worker that could not be stopped needs a process that
survives its kill.

### StoreOperations and SerialQueue

The stream's behaviour (capacity one, senders blocked in arrival order, the
hand-over to a blocked receiver, what `aclose` does) is anyio's and is modelled
from the use storage.py makes of it. Operations are numbered as they reach the
stream; the store keeps for each key the number of its last writer, which lets
`NeverOvertaken` say that no late write undoes a newer one. `Serializes` is
`SerialQueue` with the queue mapped to the operation being applied, the buffer
and the blocked senders: only an operation behind the first `Committed`
(the buffer's capacity) can still be withdrawn by its caller.
`CallersAreServed` is about the wake-ups: a caller without a report waits for
an operation that is still queued, and the consumer waits, or has ended, only
behind an empty queue. An exception of the store that ended the consumer
without reporting would break it.

### SolverCache

One solver key. A repodata file is its version, so a marker and the data it
stands for are the same number; a response is the function from files to the
versions it was computed from, with `Fallback` for the JSON data read in the
place of a shard index that could not be fetched. `disk` and `expired` are
conda's cache files, which expire and which other conda processes refresh at
any time. Foreground clients probe and the warmer inspects, as in
`SolverResultService`, then the worker's solve with a capture before and after
collection (one at a time in each worker), publish; each await is a step. The
store is what `StoreOperations` establishes: a write applies, fails (perhaps
leaving nothing) or stays `late`, and a late write applies before any later
operation. Two writes that timed out may be under way for one key, one in the
consumer's hand and one buffered: `late` is then either, and since they apply
in their order before any later operation (`NeverOvertaken`) nothing but the
last one is ever read.

Finding `cache_fallback`: a sharded file may expire between the worker's first
capture and its collection. The capture sees a fresh file, the collection a
stale one, the fetch fails, JSON is read, conda marks the old shard file as
checked, and both captures agree. `is_cacheable_after` (resolve.py:83-95) looks
only at whether the *first* capture was stale, so the response is published and
served until the shard file changes, although docs/reference/cache.md:126 says
that an ambiguous fallback is not retained. The window is milliseconds to
seconds against a time to live of minutes or more, and needs a failing fetch at
that moment; the code has nothing against it, and the run `cache_fallback`
shows `EntriesFaithful` (a retained entry was computed from exactly the files
its markers name) violated.

The passing run says how far that goes, with expiry at any moment.
`NoOtherVersion`: a retained entry never has the data of *another* version than
its markers name, and a fallback only for a sharded file. `OnlyLapsesFallBack`:
a fallback is retained only for a file that expired after the first capture and
before its collection; every other is caught by the comparison of the captures.
`lapsed`, a history kept with an outcome and its entry for that property alone,
holds these files. An outcome whose captures failed is None, since
`is_cacheable_with` refuses it whatever it holds. Only the warmer inspects
(warmer.py:130).

Not in this module: the limits and the order of the LRU, which are
`ResultCacheMemory` (here the entry may be evicted at any time, or not fit),
and, in neither, entries with credentials, corrupt or oversized entries (a
read finds nothing), missing files and `file://` channels (they only make a
snapshot stale), the atomicity of one capture over several files (a capture is
one step).

### ResultCacheMemory

The `entries` of every key, least recently used first, each with its
`memory_size`; `max_size` and `max_bytes` are chosen once among the limits
given, zero included, as the settings allow. `store_entry` puts, replaces,
evicts and counts in the order the code does; `get_stored` is two steps, since
another task may fill, evict or replace the same key while the store is read.
`current_bytes` is maintained by hand in the code, and so it is here:
`MemoryIsBounded` says that it still is the sum of the sizes and that both
limits hold, `HoldsMostRecent` that what is held are the most recently used
keys of `used`, a history kept for the properties, and `EvictsNoMore` that
nothing is evicted which would have fitted. An OrderedDict is a sequence in
which a key has one place, `Place`, from which it is `Taken` when its entry is
moved, replaced or dropped; `Bytes` are the running sums of a sequence, of which
the eviction loop subtracts the first and `Total` is the last. Sizes are bounded
by `MaxEntrySize`; the run has entries that fit beside another one, that fit
alone and that are refused.

### SolverExchange

A call of the client is one action per wait: post, status line, each read of at
most `ReadSize` bytes, the end. Its deadline and the server's are separate
(`over`, `late`) and neither sees the other: the client may have left while the
task holds the limiter or the publication lock. A body has a length; the server
may send more than the client accepts, and a read may return any part of what
is left. The server's handler probes, waits for the limiter, probes again,
solves and publishes over `ResultCacheMemory`; the entry it finds is checked
against the repodata in a thread, so it may have been evicted meanwhile. The
other keys of the cache are used by the public handlers through the same steps.
Whether a check succeeds is `SolverCache`; here it may or may not.

### WarmCandidates

A request is its fingerprint, a number so that the last tie-breaker is an
order. `entries` and `observations` are the attributes; catalogs in the store
are sets of candidates. `Rebalance`, `Prune`, `Recorded` and `Loaded` are the
code's functions written as sets of best-ranked requests instead of loops. The
clock is any value at each call, so it may go back. `record` and the others are
synchronous, so each is one action; `checkpoint` is two, before and after its
write.

### Warmer

A foreground request is "arriving" between `arrive()` and the limiter, since
run_sync passes the event loop once before it acquires; `idle_generation` does
not see it yet. `early` are the requests in that state when a candidate is
selected. The warmer interleaves with requests only where it awaits. `worker`,
`is_ready`, `process` are the worker of the cycle; `behind` is a thread that
`fail_after` abandoned inside `execute()` and that still holds
`operation_lock`, so a replay or the clean-up waits for it. A worker whose
process survived the clean-up is kept in `active_worker`; the next cycle then
goes straight to a replay, finds it not ready, and ends: that cycle is wasted,
but its clean-up tries the shutdown again, which is `WorkerIsReleased`.
What inspection and replay do to the cache is `SolverCache` (its refreshers),
which candidates there are is `WarmCandidates`. Left out: the statistics, the
checkpoint at the end of a cycle (`WarmCandidates`), the exact time left.

### PublicResolve

One response, addressed by markers; a request is a program counter over the
awaits of `run_cached_solve` and the reads of `build_index`. The index a
persistent worker keeps is `data` and the `records` captured with it. When
`records` no longer match it is reloaded in place, one file after the other, so
a reload that fails half-way leaves a mixture under the old records
(`Reloaded`); that stays correct because the next check reloads again.
Responses that carry the error of a platform (`Failed`) are retained like any
other, as the code does.

Finding `public_index`: `build_index` captures what it records *after* loading
(resolve.py:562-579). A file that another conda process replaces in between is
recorded as loaded, and the next request solves over the old data without a
reload, although docs/explanation/performance.md:52 says that changed markers
reload the index; its response is then retained under the newer markers. The
run `public_index` shows `ReloadsWhenChanged` violated.

The passing run has the same replacements at any moment. `missed`, a history of
each request and of the index kept for the properties, names the files that
were replaced between their load and the capture, and the properties say that
nothing else goes wrong: an index used as it is has the data of every file that
was not missed (`ReloadsUnlessMissed`, which a reload half done must not break),
and what is retained under some markers has, of every file its solve did not
miss, the version they name (`RetainedFaithful`). `LoadsAreCurrent`: an index
just built or reloaded is not older than what its request began with, so the
first reload mends what was missed. Where every request solves in a child of its
own nothing outlives the capture, and only the response of that solve itself can
be concerned, which the comparison with the first markers then refuses.

Finding `public_permalink`: two concurrent requests for one response both
solve; the second overwrites what the first has handed out. If one of them had
a transient platform error the body at the permalink changes, against
docs/explanation/caching-and-freshness.md:47.

### ProcessPool

The global pool of the worker process and the tasks in it. The executor is
concurrent.futures and external: a pool worker that dies breaks it for ever,
and `submit` then raises, outside of the try that turns failures into results.
`get_process_pool` (resolve.py:781-791) returns a broken pool again and again,
so every later request over several platforms fails, with the worker ready and
health answering 200, until a time-out or a crash replaces the process;
`SubmitRaises` and `WorkerDies` are these steps. `solve_environments` raises at
the first failure and leaves its other tasks in the pool; they delay later
requests and no more, since results are collected per request. For the
answer, a pool that breaks between two `submit` calls of one request is the same
as one that breaks before the first.

### RepairSearch

The search extends `ProcessPool`: its attempts are requests to the worker among
those of other clients, attempt 0 being the request as it came. A spec is its
kind, which is all that `candidates()` tells apart, and the candidates are
computed from the list of specs as the code does. An attempt's deadline is
`expired`; an attempt that times out before the worker has taken it up is
withdrawn, one that times out inside is stopped with the worker, which takes
the pool with it. `completion` is what the response reports, with "feasible",
"error" and "timeout" for the requests that never search.

Finding `repair_diagnosis`: `evaluate` passes `captured_errors` to `run_solve`,
which drops it when there is a persistent worker (app.py:914-925); the worker
captures every exception. A pool worker that dies during the first solve is
then reported as a solver conflict with HTTP 200, where
tests/test_app.py:3004-3012 wants an internal error.

### ChildSolve

A solve in a child (`run_solve_in_process`) and the parsing of an upload
(`from_content_until`) follow one protocol and are modelled once; a request in
`Parsers` is the latter. The thread polls, receives, terminates, joins, kills,
joins; each join may run into its timeout, so each is a step that may come
before the child's death. A child that survives is the error path of `Finish`.
`recv` has no deadline: it ends with the whole answer or with the end of file,
which comes only when every copy of the sending end is closed. `RecvIsServed`
says that it is never entered on a child that may still hang: the answer is
whole, or the child is writing it, or it is dead. It is a theorem; the run
checks what it is for, `EveryRequestIsAnswered`. Where pool workers are forked
(`Forked`, Python 3.13's default on Linux) they hold copies, and end when
`watch_parent_process` sees their parent gone; that watcher is what
`EveryRequestIsAnswered` needs for a child that died half-way through its
answer. A start that fails is a request without a child (`NotStarted`): that a
child could be left of it, which inputs.py:169-175 also cleans up, is not modelled.

### SolveProcesses

`run_solve` uses the persistent worker if the service has one and an isolated
child otherwise; which it is was read from the environment at import, so
`PERSISTENT_WORKER` is chosen in the initial states and stays. The two share
nothing: the composition is what lets one run check both halves, and a worker
that is not configured is in the state of one that never started. The parsing
of uploads goes through children in either case.

## Runs

| Run | Bounds | Shows |
|---|---|---|
| `processes` (187,580 states) | with `PERSISTENT_WORKER` 2 callers, 2 requests, 2 process handles, 3 faults; without it a solve and an upload over 1 slot, 2 pool workers, forked; fair | SingleProcess, RepliesMatch, ReadyIsServing, NoSpawnAfterShutdown, LockIsReleased, Recovers, ChildrenHaveSlots, AnswersAreHonest, EveryRequestIsAnswered, NothingIsLeftBehind |
| `store` (206,720) | 2 clients and the cleanup task, 1 key, 3 operations, fair | CompletedSetIsStored, CallersAreServed, NeverOvertaken, Serializes, ClosingEnds |
| `solver_cache` (526 thousand) | 1 foreground request, 1 replay, 1 sharded file with 2 versions, store; under a view | NoOtherVersion, OnlyLapsesFallBack, NeverRegresses, RefreshIsPersistent |
| `cache_fallback` | the same | the violation of EntriesFaithful |
| `exchange` (241,296) | 1 client and 1 other task over 1 slot, 2 keys, 1 or 2 entries and 2 bytes at most, entries of 1 to 3 bytes, bodies of 1 or 3 bytes against a limit of 1, fair | ExchangeTypeOK, MemoryIsBounded, HoldsMostRecent, EvictsNoMore, ReadsAreBounded, EveryCallEnds |
| `warm_candidates` (1.84 million) | 4 requests, one with credentials, 2 places, counts to 2, 2 clock readings, 3 changes after a load, 2 foreign catalogs | CatalogBounded, MostRequestedKept, DisplacedByRepeats, PersistedIsStored |
| `warmer` (175,160) | 2 foreground requests over 1 slot, 3 arrivals, 2 candidates, 2 recordings, fair | NoProcessForgotten, YieldsToForeground, DiscardsOnlyUnchanged, ShutdownEnds, WorkerIsReleased |
| `public` (1.14 million) | 2 requests, 2 files with 2 versions, persistent worker; symmetric | RetainedFaithful, ReloadsUnlessMissed, LoadsAreCurrent |
| `public_index` | the same | the violation of ReloadsWhenChanged |
| `public_permalink` | 2 requests, 1 file | the violation of PermalinkImmutable |
| `pool` (2.06 million) | a repair search of up to 3 candidates and 2 attempts or suggestions, a request for a format over 2 platforms and one over 1, 2 pool workers, 1 death; symmetric | SuggestionsAreTested, CompletionIsTrue, LeavesNothingBehind |
| `repair_diagnosis` | the same | the violation of DiagnosisIsConflict |

The type invariants are theorems. One is checked by a run as well, in `exchange`
(`ExchangeTypeOK`, the one of the whole composition): its bound on what a read
buffers and the one place of a key among the entries come from the code's
arithmetic and not from a type.

Why the bounds are enough. Worker: two handles are a process that survived its
kill and a would-be second one; two callers are the one whose request timed out
and the one that would get its answer; three faults are a crash, a failed
replacement and a survived kill in one behaviour. Store: three operations are
one being applied, one buffered and one blocked, which is every place an
operation can be. Cache: two concurrent publications and two versions are an
older and a newer entry. Its view
(`CacheView`) leaves out what no later step or property reads: the answer to a
call that has ended, a snapshot beyond whether it matches, and an outcome that
no snapshot could publish; without it TLC visits 4.78 million states and reports
the same. Exchange: one client
and one other task are the holder of the limiter and whoever waits for it, two
keys the entry found and the one that displaces it, by their bytes where two
entries are allowed and by their number where one is, and an entry of three
bytes is refused; one body fits and one takes a read past the limit.
Candidates: one request more than places without credentials, and a foreign
catalog that overfills the places, so that few changes after a load already
move requests between both maps. Warmer: a request that runs, one that waits
behind it and one that arrives again; a candidate at hand and one still to
come. Public: a file before and after a replacement beside a file that stays,
and two requests in one worker, since a third would see no state of the index
that two cannot produce; the theorems lift these bounds. Pool: two attempts and
up to three candidates reach every limit before and after the last candidate,
and one death is a pool that breaks in the search and serves the requests of
others afterwards, or a worker process that ends in a solve. Child: requests
meet only in the limiter, so one behind the other is every interaction.

A service may stop, or its bounded requests may all have been answered, so the
runs of `SolverCache`, `WarmCandidates`, `Warmer`, `PublicResolve` and
`RepairSearch` do not check for deadlock; `processes` (for the persistent worker)
and `store` do, with an explicit `Terminated` step, and so does `exchange`.

Fairness. Worker: threads that can run do, the lock is granted to a thread that
keeps waiting (strongly, for the deadline of start()), clocks advance, warm-up
ends unless it hangs (a fault), killed processes end, and health is polled
while the service is unavailable, which is what the container's health check
does. A solve need not end: only the caller's deadline is fair. Store: the
store answers, deadlines pass, ready tasks run. A store operation that hung for
ever would block the shutdown; that is an assumption about the store, not
something the code bounds. Warmer: deadlines and budgets end every await of the
cycle and every abandoned thread, the event loop resumes requests that wait for
the limiter, killed processes end. Child: threads run, deadlines pass, a child
that has begun to write has its answer in memory and goes on (or dies), killed
processes die, and pool workers notice that their parent is gone. Nothing makes
a child answer, a solve end or a crash happen. Exchange: the deadlines of both
sides end what waits (`WF_allVars(ClientEnds(c))`,
`WF_allVars(HandlerEnds(t))`): the peer may stall for ever, and the worker may
never answer. The client's header phase is bounded in the code by a time-out of
each receive, not by a total deadline; `CallTimesOut` stands for either.

## Proofs

Eight modules hold theorems, all of them for every value of the constants that
satisfies the named assumption of the module they extend, so for any number of
threads, requests, files, slots and faults. Hardly any of the invariants the
runs check is inductive; each proof module strengthens them to one that is,
with one step per action and, under it, one per conjunct the action can
disturb.

`SolveWorkerProofs`: TypeOK, SingleProcess, RepliesMatch, ReadyIsServing,
NoSpawnAfterShutdown, and ShutdownIsFinal: a shutdown that reports success has
left no process alive. `WorkerInv` adds a handle invariant (a connection is to
the held process, is_ready implies a connection), a lock invariant (the owner
is the one thread whose program counter is inside the lock), an exchange
invariant (what the pipe holds, as a function of the process state and of the
thread that is waiting: outside an exchange it is empty, inside it holds the
caller's own request or its answer), and a shutdown invariant (after shutdown's
stop no thread can pass the check of the flag). Lemmas on `Stop`,
`StopAndRestart` and `recover_if_stopped` keep the action proofs short.

`WarmerProofs`: TypeOK, NoProcessForgotten, WorkerEndsWithCycle (no worker is
usable between cycles) and the action properties YieldsToForeground,
DiscardsOnlyUnchanged and StopsAfterArrival (a cycle takes up nothing more once
foreground work has arrived). `GenerationInv` says why the comparison of
generations is enough although `idle_generation` does not see an arriving
request: while the generation is still the one a candidate was selected at,
whoever is arriving did so before that, and all of these have reached the
limiter when the inspection, which takes a thread, is over.

`ServingProofs`, the memory and the exchange: ExchangeTypeOK, MemoryIsBounded,
HoldsMostRecent, EvictsNoMore and ReadsAreBounded, for any tasks, clients, keys,
sizes and limits (zero included), and `ExchangeSpec => MemorySpec`: whatever
handlers, their deadlines and the public endpoints do, the memory takes only its
own steps. So its invariant is shown once for these. It has two halves. `Recent`
says that, counted from the end, the entries have the keys of `used`, each once;
it is kept when a key is taken out of both, when one is appended to both and when
entries are popped. The other is that `current_bytes` is the total, which none of
these steps makes plain: that the running sums exist at all, that two sequences
with the same entries at some place have sums that grow alike there
(`BytesAlike`), and that the loop of `remember_memory` stops, and at the first
length that is allowed (`EvictFacts`), are inductions over numbers. They are done
with sets: a set of numbers that has 0 and every successor has all of them
(`SetInduction`), because otherwise taking predecessors would map a finite set
injectively into itself and yet miss its greatest element. EvictsNoMore then is
about the order of what is evicted: the last entry evicted stood right before
what is left (`PlaceWithout`), unless nothing is left, the new entry included.
The exchange adds that a request in the handler has a key and that only a look
into the cache, under the publication lock, is past its lookup. ReadsAreBounded
rests on the client's typing and on `EndOfBody` being the only step that returns
something else than a failure.

`ServingProofs`, children: TypeOK, ChildrenHaveSlots, AnswersAreHonest,
RecvIsServed. `Local(r)` says how thread, child, pipe and result of one request
go together at each step; steps of other requests keep it (`SameKeepsLocal`),
and the bound of the limiter is proved apart, with cardinalities. The exchange
and the children have no variable in common; in the server they meet in the
foreground limiter, where one can only make the other wait longer.

`PublicResolveProofs`: TypeOK, RetainedFaithful, ReloadsUnlessMissed and
LoadsAreCurrent, for any requests, files and versions, with or without a
persistent worker and with replacements at any moment. The argument is an order:
versions only grow, so what a request solves over, and what an index holds, is
file by file not newer than the files there now, and, for the files that were
not missed, not older than the markers recorded for it. When those are equal to
the files there now, so is what lies between them. A reload that fails half-way
keeps the old markers and takes the files it has read out of what was missed.

`StoreOperationsProofs`: TypeOK, `Serializes` (the refinement of
`SerialQueue`), NeverOvertaken, CompletedSetIsStored, CallersAreServed,
DrainedWhenStopped. The first part is about sequences: the operation in hand,
the buffer and the blocked senders make one sequence, `Pending`, and each step
of the code, whichever of the three it touches, appends to it, takes its head,
removes an element behind the first or leaves it alone. On top of that the
invariant says that `Pending` is sorted by arrival, that no key was last
written by an operation later than what is queued, and that a reported
operation lies behind the whole queue; a finishing operation is the head, so it
is later than all that was written or reported and earlier than all that is to
come. For CallersAreServed it is enough that an operation leaves `Pending` in
only two ways, reported by the consumer or withdrawn by the very caller that
waits for it.

`SolverCacheProofs`: TypeOK, NoOtherVersion, OnlyLapsesFallBack, NeverRegresses
and RefreshIsPersistent, for any requests, refreshers and files, sharded or not,
that expire and are replaced at any moment. Versions only grow, so everything
that is retained, late in the store or held by a client lies below the files as
they are; the lock makes the entry a client has found the one that memory has
(or none, after an eviction); and between a solve's two captures what was read
of a file lies, unless it is a fallback, between the two markers. A fallback
needs an expired file, so either the first capture was stale already, and the
equal shard markers give it away, or the file has lapsed since.

`WarmCandidatesProofs`: TypeOK, CatalogBounded, MostRequestedKept,
PersistedIsStored and DisplacedByRepeats, for any requests, places, limits and
clock readings. The catalog is a sorted list cut at its limit, so the first
part is about ranking: the number of keys above a key maps the keys of a map
one to one into 0..n-1, both sides have n elements, so the ranks have no gaps
and the best n of at least n keys are n. The second part shows of each
operation that it keeps `GoodCatalog`: both sizes, disjoint maps, no
observation requested more often than a candidate, and observations only beside
full candidates. None of the four is inductive alone. A promotion keeps the
order of the counts only because the candidates were full (a place can become
free by `discard` or by age, and `_rebalance` then fills it before anything
else sees it), and the maps stay full only because of their order and sizes.
The third part is about the generations: a checkpoint under way is of a
generation not yet persisted, and if that is still the current one its payload
is the current catalog. DisplacedByRepeats follows step by step from
`RecordDisplaces`, since every other operation only promotes. The proofs assume
that the cap on a request's count is at least 2 (it is 2^31 - 1,
warm_candidates.py): with a cap of 1 no repeat could be told from a first
request.

`RepairSearchProofs`: the invariant of dispatch and its pool (`Spec`), which
holds for a search among others because `RepairSpec` implies `Spec` (the search
does to the worker only what any client may do), RepairTypeOK,
SuggestionsAreTested, CompletionIsTrue and LeavesNothingBehind, for any list of
specs and any limits.
`SearchInv` relates the search's position to the worker's outcomes: the
attempts before it are answered and tidy, it is the only one that can be at
work, those after it have not begun.

Only model-checked is the liveness: LockIsReleased, Recovers, ClosingEnds,
ShutdownEnds, WorkerIsReleased, EveryRequestIsAnswered, NothingIsLeftBehind and
EveryCallEnds. It needs ENABLED, which the prover does not reason about. The
properties of the runs that expect a violation are false, and so not proved. The
theorems about the worker and the children are about their own specifications,
whose steps are the steps of `SolveProcesses`.

## Plan

What is left, in this order:

1. The native process pool a server without a persistent worker warms at start
(resolve.py), beside `ChildSolve`. 2. Missing files and `file://` channels in
`RepodataSnapshot`.

## Not modelled

Rendering and exporters, lockfile conversion, credential redaction and errors
(text); the command line, preflight, configuration and the plugin's
declarations, the GitHub Action and the image: no state, or none that interacts
with another part. The broker service and the solver plugin hand requests to
`PrestoSolverClient`, whose call is `SolverExchange`. Inside the modelled parts
the digests, the size estimate of an entry and the serialization of a solve are
values without steps.
