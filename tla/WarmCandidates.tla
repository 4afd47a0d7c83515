-------------------------- MODULE WarmCandidates --------------------------
(***************************************************************************)
(* The recorded solver requests eligible for cache warming:                *)
(* SolverWarmCandidates (src/conda_presto/warm_candidates.py), loaded when *)
(* the service starts, recorded into by foreground requests, thinned out   *)
(* by the cache warmer and checkpointed into the persistent store after    *)
(* refresh cycles and at shutdown.                                         *)
(*                                                                         *)
(* A request is its fingerprint; every call reads the system clock, which  *)
(* may have been set back.  A catalog in the store is the set of its       *)
(* candidates.  The store is what StoreOperations promises: a timed-out    *)
(* write may still be applied, before any later operation.                 *)
(***************************************************************************)
EXTENDS Naturals, FiniteSets, Functions

CONSTANTS
    Fingerprints,   \* a set of numbers, in the order of the fingerprints
    Credentialed,   \* those of requests with detected credentials
    max_size,       \* candidates, and observations, at most
    persist,        \* whether catalogs are kept in the store
    MaxRequests,    \* SOLVER_WARM_CANDIDATE_MAX_REQUESTS
    MaxAge,         \* SOLVER_WARM_CANDIDATE_MAX_AGE_S
    MaxTime,        \* bound on the clock
    MaxGeneration,  \* bound on the changes after a load
    Foreign,        \* catalogs that were in the store before
    None, Corrupt

MinRequests == 2    \* SOLVER_WARM_CANDIDATE_MIN_REQUESTS
Times == 0..MaxTime

Metrics == [count : 1..MaxRequests, last : Times]
Maps == UNION {[F -> Metrics] : F \in SUBSET Fingerprints}
Payloads == SUBSET [fingerprint : Fingerprints, count : 0..(MaxRequests + 1), last : Times]

ASSUME WarmAssumption ==
    /\ Fingerprints \subseteq Nat /\ IsFiniteSet(Fingerprints)
    /\ Credentialed \subseteq Fingerprints
    /\ persist \in BOOLEAN
    /\ max_size \in Nat \ {0} /\ MaxRequests \in Nat \ {0, 1}
    /\ MaxAge \in Nat /\ MaxTime \in Nat /\ MaxGeneration \in Nat
    /\ Foreign \subseteq Payloads /\ None # Corrupt

VARIABLES
    phase,          \* "starting", "serving" or "closing"
    entries,        \* the candidates, by fingerprint
    observations,   \* requests seen while the catalog was full
    generation, persisted_generation,
    saving,         \* the checkpoint waiting for its write
    stored, late    \* the store's catalog; a timed-out write to come

catalog == [entries |-> entries, observations |-> observations]
catalogVars == <<entries, observations>>
storeVars == <<stored, late>>
vars == <<phase, catalogVars, generation, persisted_generation, saving, storeVars>>

Empty == [f \in {} |-> None]

TypeOK ==
    /\ phase \in {"starting", "serving", "closing"}
    /\ entries \in Maps /\ observations \in Maps
    /\ generation \in 0..(MaxGeneration + 1)
    /\ persisted_generation \in 0..(MaxGeneration + 1)
    /\ saving \in [generation : 0..(MaxGeneration + 1), payload : Payloads] \cup {None}
    /\ {stored, late} \subseteq Payloads \cup {None, Corrupt}

Init ==
    /\ phase = "starting"
    /\ entries = Empty /\ observations = Empty
    /\ generation = 0 /\ persisted_generation = 0
    /\ saving = None
    /\ stored \in Foreign \cup {None, Corrupt} /\ late = None

-----------------------------------------------------------------------------
(* Ranking: more requests, then the later request, then the fingerprint.   *)

Outranks(a, b) ==
    \/ a.count > b.count
    \/ a.count = b.count /\ a.last > b.last
    \/ a.count = b.count /\ a.last = b.last /\ a.fingerprint < b.fingerprint

Entry(m, f) == [fingerprint |-> f, count |-> m[f].count, last |-> m[f].last]
Above(m, f, g) == Outranks(Entry(m, f), Entry(m, g))
Best(m, n) == {f \in DOMAIN m : Cardinality({g \in DOMAIN m : Above(m, g, f)}) < n}

(* Mutant: the other end of the ranking.                                   *)
Lowest_First(m) == CHOOSE f \in DOMAIN m : \A g \in DOMAIN m \ {f} : Above(m, f, g)

Lowest(m) == CHOOSE f \in DOMAIN m : \A g \in DOMAIN m \ {f} : Above(m, g, f)

Without(m, fs) == Restrict(m, DOMAIN m \ fs)
Joined(m, n) == [f \in DOMAIN m \cup DOMAIN n |-> IF f \in DOMAIN n THEN n[f] ELSE m[f]]
With(m, f, metrics) == [g \in DOMAIN m \cup {f} |-> IF g = f THEN metrics ELSE m[g]]

(* _rebalance: the best observations fill the catalog's free places, the   *)
(* worst of the others are dropped.                                        *)
Rebalance(c) ==
    LET free == IF Cardinality(DOMAIN c.entries) < max_size
                THEN max_size - Cardinality(DOMAIN c.entries) ELSE 0
        promoted == Restrict(c.observations, Best(c.observations, free))
        others == Without(c.observations, DOMAIN promoted)
    IN  [entries |-> Joined(c.entries, promoted),
         observations |-> Restrict(others, Best(others, max_size))]

Expired(m, now) == {f \in DOMAIN m : now > m[f].last + MaxAge}

(* _prune; its result changes if and only if something has expired.        *)
Prune(c, now) ==
    IF Expired(c.entries, now) \cup Expired(c.observations, now) = {} THEN c
    ELSE Rebalance([entries |-> Without(c.entries, Expired(c.entries, now)),
                    observations |-> Without(c.observations, Expired(c.observations, now))])

Becomes(c) == entries' = c.entries /\ observations' = c.observations
Changes == generation <= MaxGeneration /\ generation' = generation + 1

-----------------------------------------------------------------------------
(* record(), after its prune.                                              *)

Touched(metrics, now) ==
    [count |-> IF metrics.count < MaxRequests THEN metrics.count + 1 ELSE MaxRequests,
     last |-> now]

(* An observation that now outranks the lowest candidate trades places     *)
(* with it.                                                                *)
Promote(c, f, metrics) ==
    LET low == Lowest(c.entries) IN
    IF Outranks(Entry(With(Empty, f, metrics), f), Entry(c.entries, low))
    THEN Rebalance([entries |-> With(Without(c.entries, {low}), f, metrics),
                    observations |-> With(Without(c.observations, {f}), low, c.entries[low])])
    ELSE [c EXCEPT !.observations = With(@, f, metrics)]

(* Mutant: a first request takes the lowest candidate's place.             *)
Recorded_Newcomer(c, f, now) ==
    IF f \in DOMAIN c.entries
    THEN [c EXCEPT !.entries = With(@, f, Touched(@[f], now))]
    ELSE IF Cardinality(DOMAIN c.entries) < max_size
    THEN [c EXCEPT !.entries = With(@, f, [count |-> 1, last |-> now])]
    ELSE Promote(c, f, [count |-> 1, last |-> now])

Recorded(c, f, now) ==
    LET room == Cardinality(DOMAIN c.entries) < max_size
        first == [count |-> 1, last |-> now]
        again == Touched(c.observations[f], now)
    IN  CASE f \in DOMAIN c.entries ->
               [c EXCEPT !.entries = With(@, f, Touched(@[f], now))]
          [] f \in DOMAIN c.observations /\ f \notin DOMAIN c.entries ->
               IF room
               THEN [entries |-> With(c.entries, f, again),
                     observations |-> Without(c.observations, {f})]
               ELSE Promote(c, f, again)
          [] OTHER ->
               IF room THEN [c EXCEPT !.entries = With(@, f, first)]
               ELSE Rebalance([c EXCEPT !.observations = With(@, f, first)])

Record(f, now) ==
    /\ phase = "serving"
    /\ Changes
    /\ Becomes(Recorded(Prune(catalog, now), f, now))
    /\ UNCHANGED <<phase, persisted_generation, saving, storeVars>>

(* candidates() prunes before it lists the eligible ones.                  *)
List(now) ==
    /\ phase = "serving"
    /\ Prune(catalog, now) # catalog
    /\ Becomes(Prune(catalog, now))
    /\ Changes
    /\ UNCHANGED <<phase, persisted_generation, saving, storeVars>>

(* Mutant: the freed place stays empty.                                    *)
Discard_Unbalanced(f) ==
    /\ phase = "serving"
    /\ f \in DOMAIN entries \cup DOMAIN observations
    /\ Becomes([entries |-> Without(entries, {f}), observations |-> Without(observations, {f})])
    /\ Changes
    /\ UNCHANGED <<phase, persisted_generation, saving, storeVars>>

Discard(f) ==
    /\ phase = "serving"
    /\ f \in DOMAIN entries \cup DOMAIN observations
    /\ Becomes(Rebalance([entries |-> Without(entries, {f}),
                          observations |-> Without(observations, {f})]))
    /\ Changes
    /\ UNCHANGED <<phase, persisted_generation, saving, storeVars>>

-----------------------------------------------------------------------------
(* checkpoint(): up to the write, and after it.                            *)

Payload(c) ==
    {Entry(c.entries, f) : f \in DOMAIN c.entries \ Credentialed}
      \cup {Entry(c.observations, f) : f \in DOMAIN c.observations \ Credentialed}

Checkpoint(now) ==
    /\ persist /\ phase \in {"serving", "closing"} /\ saving = None
    /\ LET c == Prune(catalog, now) IN
        /\ Becomes(c)
        /\ IF c # catalog THEN Changes ELSE UNCHANGED generation
        /\ saving' = IF generation' = persisted_generation THEN None
                     ELSE [generation |-> generation', payload |-> Payload(c)]
    /\ UNCHANGED <<phase, persisted_generation, storeVars>>

Flushed == IF late # None THEN late ELSE stored

(* Mutant: the generation is read again after the write.                   *)
Saved_Reread ==
    /\ saving # None
    /\ stored' = saving.payload /\ late' = None
    /\ persisted_generation' = generation
    /\ saving' = None
    /\ UNCHANGED <<phase, catalogVars, generation>>

Saved ==
    /\ saving # None
    /\ stored' = saving.payload /\ late' = None
    /\ persisted_generation' =
         IF generation = saving.generation THEN generation ELSE persisted_generation
    /\ saving' = None
    /\ UNCHANGED <<phase, catalogVars, generation>>

(* A write that times out stays in the queue or never got there; one that  *)
(* fails may leave nothing under the key.                                  *)
NotSaved ==
    /\ saving # None
    /\ \/ late' \in {saving.payload, late} /\ UNCHANGED stored
       \/ late' = None /\ stored' \in {Flushed, None}
    /\ saving' = None
    /\ UNCHANGED <<phase, catalogVars, generation, persisted_generation>>

LateWrite ==
    /\ late # None
    /\ stored' = late /\ late' = None
    /\ UNCHANGED <<phase, catalogVars, generation, persisted_generation, saving>>

-----------------------------------------------------------------------------
(* load(), before the service answers its first request.                   *)

Valid(entry, now) ==
    /\ entry.fingerprint \notin Credentialed
    /\ entry.count \in 1..MaxRequests
    /\ entry.last <= now /\ now <= entry.last + MaxAge

(* Of the valid entries of one request the best is kept.                   *)
Admitted(payload, now) ==
    {e \in payload : Valid(e, now)
        /\ \A d \in payload : Valid(d, now) /\ d.fingerprint = e.fingerprint => ~Outranks(d, e)}

ByFingerprint(es) ==
    [f \in {e.fingerprint : e \in es} |->
        LET e == CHOOSE e \in es : e.fingerprint = f IN [count |-> e.count, last |-> e.last]]

Loaded(payload, now) ==
    LET m == ByFingerprint(Admitted(payload, now))
        top == Restrict(m, Best(m, max_size))
    IN  Rebalance([entries |-> top, observations |-> Without(m, DOMAIN top)])

Load(now) ==
    /\ persist /\ phase = "starting"
    /\ stored \notin {None, Corrupt}
    /\ Becomes(Loaded(stored, now))
    /\ generation' = IF Cardinality(DOMAIN entries') + Cardinality(DOMAIN observations')
                          = Cardinality(stored) THEN 0 ELSE 1
    /\ persisted_generation' = 0
    /\ phase' = "serving"
    /\ UNCHANGED <<saving, storeVars>>

(* A corrupt catalog is deleted, on a best-effort basis.                   *)
LoadCorrupt ==
    /\ persist /\ phase = "starting" /\ stored = Corrupt
    /\ generation' = generation + 1 /\ persisted_generation' = 0
    /\ stored' \in {None, Corrupt}
    /\ phase' = "serving"
    /\ UNCHANGED <<catalogVars, saving, late>>

(* Nothing is kept or stored, or the read failed or timed out.             *)
LoadNothing ==
    /\ phase = "starting"
    /\ phase' = "serving"
    /\ UNCHANGED <<catalogVars, generation, persisted_generation, saving, storeVars>>

(* solver_cache_refresher_lifespan: a last checkpoint once the warmer has  *)
(* stopped, then the process ends; it may also be killed at any time.      *)
Close ==
    /\ phase = "serving"
    /\ phase' = "closing"
    /\ UNCHANGED <<catalogVars, generation, persisted_generation, saving, storeVars>>

Stop ==
    /\ phase' = "starting"
    /\ entries' = Empty /\ observations' = Empty
    /\ generation' = 0 /\ persisted_generation' = 0
    /\ saving' = None
    /\ stored' \in {stored, Flushed} /\ late' = None

Next ==
    \/ \E now \in Times :
        \/ \E f \in Fingerprints : Record(f, now)
        \/ List(now) \/ Checkpoint(now) \/ Load(now)
    \/ \E f \in Fingerprints : Discard(f)
    \/ Saved \/ NotSaved \/ LateWrite
    \/ LoadCorrupt \/ LoadNothing \/ Close \/ Stop

Spec == Init /\ [][Next]_vars

-----------------------------------------------------------------------------
(* Properties.                                                             *)

(* The catalog and the observations are bounded and share no request, and  *)
(* requests are only observed while the catalog is full.                   *)
CatalogBounded ==
    /\ Cardinality(DOMAIN entries) <= max_size
    /\ Cardinality(DOMAIN observations) <= max_size
    /\ DOMAIN entries \cap DOMAIN observations = {}
    /\ observations # Empty => Cardinality(DOMAIN entries) = max_size

(* No observed request has been made more often than a candidate: the      *)
(* warmer's catalog holds the most requested ones.                         *)
MostRequestedKept ==
    \A f \in DOMAIN entries, g \in DOMAIN observations :
        entries[f].count >= observations[g].count

(* A request seen for the first time never displaces a candidate: one that *)
(* becomes an observation has traded places with a request that was        *)
(* observed before and has now been made at least as often.  (One that is  *)
(* recorded again after it expired starts over with new metrics.)          *)
DisplacedByRepeats ==
    [][\A g \in DOMAIN entries \cap DOMAIN observations' :
        observations'[g] = entries[g] =>
        \E f \in DOMAIN observations \cap DOMAIN entries' :
            entries'[f].count > 1 /\ entries'[f].count >= observations'[g].count]_vars

(* A generation counted as persisted is in the store: a request recorded   *)
(* while a checkpoint waits for its write makes the next one write again.  *)
PersistedIsStored ==
    persisted_generation > 0 /\ generation = persisted_generation =>
        stored = Payload(catalog) /\ late = None
=============================================================================
