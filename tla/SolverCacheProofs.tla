------------------------- MODULE SolverCacheProofs -------------------------
(***************************************************************************)
(* Proofs about SolverCache for any requests, replays, files and versions. *)
(*                                                                         *)
(* Only the holder of solver_publication_lock changes what is retained, so *)
(* what it has found stays what there is, and is not newer than the        *)
(* markers it compares it with.  That no entry is replaced by an older one *)
(* needs nothing else.                                                     *)
(*                                                                         *)
(* Versions of a file only grow, so what a worker read of a file lies      *)
(* between the markers it captured before and after; when these are the    *)
(* same, so is what it read, unless it read the JSON data of a fallback.   *)
(* A fallback is one for a file that has expired: it had at the first      *)
(* capture, which then shows it, or has since.                             *)
(***************************************************************************)
EXTENDS SolverCache, TLAPS

Holding == {"probeRead", "probeCheck", "probeDecide",
            "publishRead", "publishCheck", "publishDecide", "store"}
Deciding == {"probeDecide", "publishDecide"}
HasOutcome == {"publish", "publishRead", "publishCheck", "publishDecide"}

Below(entry, records) ==
    entry # None => \A r \in Repos : entry.records[r] <= records[r]

EntriesInv ==
    /\ \A entry \in {memory, stored, late} : Below(entry, disk)
    /\ NotOlder(late, stored)

(* While a client holds the lock, what memory has is what it has found.    *)
LockInv(c) == pc[c] \in Holding => lock = c /\ memory \in {None, found[c]}

(* The markers it compares with are not older than anything retained.      *)
DecideInv(c) ==
    pc[c] \in Deciding /\ snap[c] # None =>
        /\ \A r \in Repos : snap[c].records[r] <= disk[r]
        /\ \A entry \in {stored, late, found[c]} : Below(entry, snap[c].records)

StoreInv(c) == pc[c] = "store" => NotOlder(found[c], stored) /\ NotOlder(found[c], late)

(* What a worker has read of a file, between its two captures.             *)
ReadInv(result, r) ==
    /\ result.response[r] # Unread => result.response[r] <= disk[r]
    /\ result.before # None => result.before.records[r] <= disk[r]
    /\ result.before # None /\ result.response[r] \notin {Unread, Fallback} =>
        result.before.records[r] <= result.response[r]
    /\ result.used # None => result.response[r] <= result.used.records[r]
    /\ r \notin Sharded => result.response[r] # Fallback
    /\ result.before # None /\ ~result.before.stale /\ r \notin result.lapsed =>
        /\ result.response[r] # Fallback
        /\ result.response[r] = Unread => ~expired[r]

Collected(result) ==
    /\ result \in Outcomes /\ result.before # None /\ result.used # None
    /\ \A r \in Repos : result.response[r] # Unread /\ ReadInv(result, r)

OutcomeInv(c) ==
    /\ pc[c] = "collect" =>
        /\ outcome[c] \in Outcomes /\ outcome[c].used = None
        /\ \A r \in Repos : ReadInv(outcome[c], r)
    /\ pc[c] \in HasOutcome => outcome[c] = None \/ Collected(outcome[c])

ClientInv(c) ==
    /\ Below(found[c], disk)
    /\ LockInv(c) /\ DecideInv(c) /\ StoreInv(c) /\ OutcomeInv(c)

Sound(entry) == FaithfulOrFallback(entry) /\ LapsesAtMost(entry)

FaithInv ==
    /\ \A entry \in {memory, stored, late} : Sound(entry)
    /\ \A c \in Clients : Sound(found[c])

CacheInv ==
    /\ TypeOK /\ EntriesInv /\ FaithInv
    /\ \A c \in Clients : ClientInv(c)

-----------------------------------------------------------------------------
LEMMA NothingIsSound == Sound(None)
BY DEF Sound, FaithfulOrFallback, LapsesAtMost

LEMMA MarkersAreVersions ==
    ASSUME NEW m \in Markers, NEW r \in Repos
    PROVE  m[r] \in Nat /\ 1 <= m[r] /\ m[r] <= MaxVersion /\ m[r] # Unread
BY CacheAssumption DEF Markers, Unread

LEMMA BelowGrows ==
    ASSUME NEW entry \in Entries \cup {None}, NEW low \in Markers, NEW high \in Markers,
           Below(entry, low), \A r \in Repos : low[r] <= high[r]
    PROVE  Below(entry, high)
<1> SUFFICES ASSUME entry # None, NEW r \in Repos
             PROVE  entry.records[r] <= high[r]
  BY DEF Below
<1>1. entry.records[r] \in Nat /\ low[r] \in Nat /\ high[r] \in Nat
  BY MarkersAreVersions DEF Entries
<1>2. QED BY <1>1 DEF Below

Grow == \A r \in Repos : disk[r] <= disk'[r]

(* A client another one's step leaves alone, and one whose worker at most  *)
(* has a file expire while it collects.                                    *)
Kept(c) == pc'[c] = pc[c] /\ found'[c] = found[c] /\ snap'[c] = snap[c]
Same(c) == Kept(c) /\ outcome'[c] = outcome[c]

(* What it may rely on: nobody else touches what the lock protects, but    *)
(* for evictions and writes that were under way, and files only grow.      *)
Undisturbed(c) ==
    /\ Grow
    /\ pc[c] \in Holding =>
        /\ lock' = lock /\ memory' \in {memory, None}
        /\ stored' \in {stored, late, None} /\ late' \in {late, None}

LEMMA ViewKept ==
    ASSUME CacheInv, TypeOK', NEW c \in Clients, Kept(c), Undisturbed(c), OutcomeInv(c)'
    PROVE  ClientInv(c)'
<1>0. /\ TypeOK /\ ClientInv(c) /\ disk \in Markers /\ disk' \in Markers
      /\ found[c] \in Entries \cup {None} /\ snap[c] \in Snapshots \cup {None}
      /\ {stored, late} \subseteq Entries \cup {None}
    BY DEF CacheInv, TypeOK
<1>1. Below(found[c], disk)'
    BY <1>0, BelowGrows DEF ClientInv, Kept, Undisturbed, Grow, Below
<1>2. LockInv(c)'
    BY <1>0 DEF ClientInv, LockInv, Kept, Undisturbed
<1>3. DecideInv(c)'
  <2> SUFFICES ASSUME pc[c] \in Deciding, snap[c] # None
               PROVE  /\ \A r \in Repos : snap[c].records[r] <= disk'[r]
                      /\ \A entry \in {stored', late', found[c]} : Below(entry, snap[c].records)
    BY DEF DecideInv, Kept, Below
  <2>1. /\ \A r \in Repos : snap[c].records[r] <= disk[r]
        /\ \A entry \in {stored, late, found[c]} : Below(entry, snap[c].records)
    BY <1>0 DEF ClientInv, DecideInv
  <2>2. snap[c].records \in Markers
    BY <1>0 DEF Snapshots
  <2>3. \A r \in Repos : snap[c].records[r] <= disk'[r]
    BY <1>0, <2>1, <2>2, MarkersAreVersions DEF Undisturbed, Grow
  <2>4. stored' \in {stored, late, None} /\ late' \in {late, None}
    BY DEF Undisturbed, Holding, Deciding
  <2>5. QED BY <2>1, <2>3, <2>4 DEF Below
<1>4. StoreInv(c)'
  <2>1. ASSUME pc[c] = "store"
        PROVE  NotOlder(found[c], stored') /\ NotOlder(found[c], late')
    BY <1>0, <2>1 DEF ClientInv, StoreInv, Undisturbed, Holding, NotOlder
  <2>2. QED BY <2>1 DEF StoreInv, Kept, NotOlder
<1>5. QED BY <1>1, <1>2, <1>3, <1>4 DEF ClientInv

(* An outcome is still between the files it was read from and those there. *)
LEMMA OutcomeKept ==
    ASSUME CacheInv, TypeOK', NEW c \in Clients, Same(c), Grow,
           \A r \in Repos : expired'[r] => expired[r] \/ ~Collecting(c, r)
    PROVE  OutcomeInv(c)'
<1>0. /\ TypeOK /\ OutcomeInv(c) /\ disk \in Markers /\ disk' \in Markers
      /\ outcome'[c] = outcome[c] /\ pc'[c] = pc[c]
  BY DEF CacheInv, TypeOK, ClientInv, Same, Kept
<1>1. ASSUME outcome[c] \in Outcomes, NEW r \in Repos, ReadInv(outcome[c], r),
             outcome[c].response[r] = Unread => ~expired'[r] \/ expired[r]
      PROVE  ReadInv(outcome[c], r)'
  <2>1. /\ outcome[c].response[r] \in Nat /\ disk[r] \in Nat /\ disk'[r] \in Nat
        /\ outcome[c].before # None => outcome[c].before.records[r] \in Nat
    BY <1>0, <1>1, MarkersAreVersions, CacheAssumption DEF Outcomes, Snapshots
  <2>2. disk[r] <= disk'[r]
    BY DEF Grow
  <2>3. QED BY <1>0, <1>1, <2>1, <2>2 DEF ReadInv
<1>2. CASE pc[c] = "collect"
  <2>1. \A r \in Repos : ReadInv(outcome[c], r)'
    BY <1>0, <1>1, <1>2 DEF OutcomeInv, Collecting
  <2>2. QED BY <1>0, <1>2, <2>1 DEF OutcomeInv, HasOutcome
<1>3. CASE pc[c] \in HasOutcome /\ Collected(outcome[c])
  <2>1. \A r \in Repos : ReadInv(outcome[c], r)'
    BY <1>0, <1>1, <1>3 DEF Collected
  <2>2. Collected(outcome[c])'
    BY <1>0, <1>3, <2>1 DEF Collected
  <2>3. QED BY <1>0, <1>3, <2>2 DEF OutcomeInv, HasOutcome
<1>4. CASE pc[c] # "collect" /\ ~(pc[c] \in HasOutcome /\ Collected(outcome[c]))
  BY <1>0, <1>4 DEF OutcomeInv
<1>5. QED BY <1>2, <1>3, <1>4

LEMMA SameKept ==
    ASSUME CacheInv, TypeOK', NEW c \in Clients, Same(c), Undisturbed(c),
           \A r \in Repos : expired'[r] => expired[r] \/ ~Collecting(c, r)
    PROVE  ClientInv(c)'
<1>1. OutcomeInv(c)'
  BY OutcomeKept DEF Undisturbed
<1>2. QED BY <1>1, ViewKept DEF Same

-----------------------------------------------------------------------------
(* A step of one client is undisturbed progress for the others: what it    *)
(* changes of what the lock protects it changes as its holder.             *)
HeldAlone(c) ==
    /\ lock' # lock => lock = None \/ lock = c
    /\ <<memory, stored, late>>' # <<memory, stored, late>> => lock = c

LEMMA OthersKept ==
    ASSUME CacheInv, TypeOK', NEW c \in Clients, NEW d \in Clients \ {c},
           Same(d), Grow, HeldAlone(c),
           \A r \in Repos : expired'[r] => expired[r]
    PROVE  ClientInv(d)'
<1>1. ASSUME pc[d] \in Holding
      PROVE  /\ lock' = lock /\ memory' \in {memory, None}
             /\ stored' \in {stored, late, None} /\ late' \in {late, None}
  <2>1. lock = d
    BY <1>1 DEF CacheInv, ClientInv, LockInv
  <2>2. lock # c /\ lock # None
    BY <2>1, CacheAssumption
  <2>3. QED BY <2>2 DEF HeldAlone
<1>2. Undisturbed(d)
  BY <1>1 DEF Undisturbed
<1>3. QED BY <1>2, SameKept

(* The invariant, one part after the other, after a step of one client.    *)
LEMMA ClientStepKept ==
    ASSUME CacheInv, TypeOK', NEW c \in Clients, Grow, HeldAlone(c),
           \A d \in Clients \ {c} : Same(d),
           \A r \in Repos : expired'[r] => expired[r],
           EntriesInv', FaithInv', ClientInv(c)'
    PROVE  CacheInv'
<1>1. ASSUME NEW d \in Clients \ {c} PROVE ClientInv(d)'
  BY <1>1, OthersKept
<1>2. QED BY <1>1 DEF CacheInv

(* A step that leaves alone what is retained.                              *)
LEMMA RetainedKept ==
    ASSUME CacheInv, TypeOK', Grow, memory' \in {memory, None},
           stored' = stored, late' = late,
           \A c \in Clients : found'[c] \in {found[c], memory, None}
    PROVE  EntriesInv' /\ FaithInv'
<1>0. /\ disk \in Markers /\ disk' \in Markers
      /\ {memory, stored, late} \subseteq Entries \cup {None}
  BY DEF CacheInv, TypeOK
<1>1. ASSUME NEW entry \in {memory, stored, late} PROVE Below(entry, disk')
  BY <1>0, <1>1, BelowGrows DEF CacheInv, EntriesInv, Grow
<1>2. Below(memory', disk') /\ Below(stored', disk') /\ Below(late', disk')
  BY <1>1 DEF Below
<1>3. NotOlder(late', stored')
  BY DEF CacheInv, EntriesInv
<1>4. FaithInv'
  BY NothingIsSound DEF CacheInv, FaithInv
<1>5. QED BY <1>2, <1>3, <1>4 DEF EntriesInv, Below

-----------------------------------------------------------------------------
(* Steps that only move a client or end its call.                          *)
LEMMA DiskStays ==
    ASSUME TypeOK, UNCHANGED diskVars
    PROVE  Grow /\ \A r \in Repos : expired'[r] => expired[r]
<1>1. ASSUME NEW r \in Repos PROVE disk[r] <= disk'[r]
  BY MarkersAreVersions DEF TypeOK, diskVars
<1>2. QED BY <1>1 DEF Grow, diskVars

LEMMA BeginKeeps ==
    ASSUME CacheInv, NEW c \in Clients, NEW inspect \in BOOLEAN, Begin(c, inspect)
    PROVE  CacheInv'
<1>0. TypeOK /\ ClientInv(c)
  BY DEF CacheInv
<1>1. TypeOK'
  BY <1>0 DEF Begin, Goes, TypeOK, diskVars, storeVars, Dispositions
<1>2. Grow /\ (\A r \in Repos : expired'[r] => expired[r])
  BY <1>0, DiskStays DEF Begin
<1>3. HeldAlone(c) /\ (\A d \in Clients \ {c} : Same(d))
  BY <1>0 DEF Begin, Goes, TypeOK, HeldAlone, Same, Kept, storeVars
<1>4. EntriesInv' /\ FaithInv'
  BY <1>1, <1>2, RetainedKept DEF Begin, storeVars
<1>5. pc'[c] = "probe"
  BY <1>0 DEF Begin, Goes, TypeOK
<1>6. ClientInv(c)'
  BY <1>0, <1>5 DEF Begin, ClientInv, Below, LockInv, DecideInv, StoreInv, OutcomeInv,
                    Holding, Deciding, HasOutcome, diskVars
<1>7. QED BY <1>1, <1>2, <1>3, <1>4, <1>6, ClientStepKept

(* A call ends, and gives the lock back if it has it.                      *)
LEMMA EndKeeps ==
    ASSUME CacheInv, NEW c \in Clients, NEW disposition \in Dispositions,
           Ends(c, disposition), UNCHANGED <<diskVars, memory, storeVars>>,
           lock' = lock \/ (pc[c] \in Holding /\ lock' = None)
    PROVE  CacheInv'
<1>0. TypeOK /\ ClientInv(c)
  BY DEF CacheInv
<1>1. TypeOK'
  BY <1>0 DEF Ends, Forgets, Goes, TypeOK, diskVars, storeVars
<1>2. Grow /\ (\A r \in Repos : expired'[r] => expired[r])
  BY <1>0, DiskStays
<1>3. HeldAlone(c) /\ (\A d \in Clients \ {c} : Same(d))
  BY <1>0 DEF Ends, Forgets, Goes, TypeOK, HeldAlone, Same, Kept, storeVars, ClientInv, LockInv
<1>4. EntriesInv' /\ FaithInv'
  <2>1. \A d \in Clients : found'[d] \in {found[d], memory, None}
    BY <1>0 DEF Ends, Forgets, TypeOK
  <2>2. QED BY <1>1, <1>2, <2>1, RetainedKept DEF storeVars
<1>5. pc'[c] = "idle" /\ found'[c] = None
  BY <1>0 DEF Ends, Forgets, Goes, TypeOK
<1>6. ClientInv(c)'
  BY <1>5 DEF ClientInv, Below, LockInv, DecideInv, StoreInv, OutcomeInv,
              Holding, Deciding, HasOutcome
<1>7. QED BY <1>1, <1>2, <1>3, <1>4, <1>6, ClientStepKept

LEMMA EndingsKeep ==
    ASSUME CacheInv, NEW c \in Clients,
           ProbeHit(c) \/ Reject(c) \/ SolveFails(c)
    PROVE  CacheInv'
<1>1. CASE ProbeHit(c)
  BY <1>1, EndKeeps DEF ProbeHit, Release, Holding, Dispositions
<1>2. CASE Reject(c)
  BY <1>2, EndKeeps DEF Reject, Release, Holding, Dispositions
<1>3. CASE SolveFails(c)
  BY <1>3, EndKeeps DEF SolveFails, Dispositions
<1>4. QED BY <1>1, <1>2, <1>3

LEMMA ProbeMissKeeps ==
    ASSUME CacheInv, NEW c \in Clients, ProbeMiss(c)
    PROVE  CacheInv'
<1>1. CASE inspecting[c]
  BY <1>1, EndKeeps DEF ProbeMiss, Release, Holding, Dispositions
<1>2. CASE ~inspecting[c]
  <2>0. TypeOK /\ ClientInv(c)
    BY DEF CacheInv
  <2>1. TypeOK'
    BY <1>2, <2>0 DEF ProbeMiss, Release, Goes, TypeOK, diskVars, storeVars
  <2>2. Grow /\ (\A r \in Repos : expired'[r] => expired[r])
    BY <2>0, DiskStays DEF ProbeMiss
  <2>3. HeldAlone(c) /\ (\A d \in Clients \ {c} : Same(d))
    BY <1>2, <2>0 DEF ProbeMiss, Release, Goes, TypeOK, HeldAlone, Same, Kept, storeVars,
                      ClientInv, LockInv, Holding
  <2>4. EntriesInv' /\ FaithInv'
    <3>1. \A d \in Clients : found'[d] \in {found[d], memory, None}
      BY <1>2, <2>0 DEF ProbeMiss, TypeOK
    <3>2. QED BY <2>1, <2>2, <3>1, RetainedKept DEF ProbeMiss, storeVars
  <2>5. pc'[c] = "capture" /\ found'[c] = None
    BY <1>2, <2>0 DEF ProbeMiss, Goes, TypeOK
  <2>6. ClientInv(c)'
    BY <2>5 DEF ClientInv, Below, LockInv, DecideInv, StoreInv, OutcomeInv,
                Holding, Deciding, HasOutcome
  <2>7. QED BY <2>1, <2>2, <2>3, <2>4, <2>6, ClientStepKept
<1>3. QED BY <1>1, <1>2

-----------------------------------------------------------------------------
(* get_stored and the snapshot, in probe and in publish_solver.            *)
ReadStates == {"probeRead", "publishRead"}
CheckStates == {"probeCheck", "publishCheck"}

(* An outcome stays what it is while memory, the store and files are looked *)
(* at, and is complete after the collection.                               *)
LEMMA OutcomeStays ==
    ASSUME NEW c \in Clients, ClientInv(c), TypeOK,
           pc[c] \in HasOutcome \/ pc'[c] \notin HasOutcome,
           pc'[c] # "collect", pc[c] # "collect",
           outcome'[c] = outcome[c], UNCHANGED diskVars
    PROVE  OutcomeInv(c)'
<1>1. ASSUME pc'[c] \in HasOutcome
      PROVE  outcome[c] = None \/ Collected(outcome[c])
  BY <1>1 DEF ClientInv, OutcomeInv
<1>2. Collected(outcome[c]) => Collected(outcome[c])'
  BY DEF Collected, ReadInv, diskVars
<1>3. QED BY <1>1, <1>2 DEF OutcomeInv

LEMMA LookupKeeps ==
    ASSUME CacheInv, NEW c \in Clients,
           \/ Lookup(c, "probe", "probeRead", "probeCheck")
           \/ Lookup(c, "publish", "publishRead", "publishCheck")
    PROVE  CacheInv'
<1>0. TypeOK /\ ClientInv(c)
  BY DEF CacheInv
<1>1. TypeOK'
  BY <1>0 DEF Lookup, Goes, TypeOK, diskVars, storeVars
<1>2. Grow /\ (\A r \in Repos : expired'[r] => expired[r])
  BY <1>0, DiskStays DEF Lookup
<1>3. HeldAlone(c) /\ (\A d \in Clients \ {c} : Same(d))
  BY <1>0 DEF Lookup, Goes, TypeOK, HeldAlone, Same, Kept, storeVars
<1>4. /\ found'[c] = memory /\ memory' = memory /\ lock' = c
      /\ pc'[c] \in ReadStates \cup CheckStates
      /\ pc'[c] \in HasOutcome => pc[c] = "publish"
  BY <1>0 DEF Lookup, Goes, TypeOK, ReadStates, CheckStates, HasOutcome
<1>5. EntriesInv' /\ FaithInv'
  <2>1. \A d \in Clients : found'[d] \in {found[d], memory, None}
    BY <1>0 DEF Lookup, TypeOK
  <2>2. QED BY <1>1, <1>2, <2>1, RetainedKept DEF Lookup, storeVars
<1>6. OutcomeInv(c)'
  <2>1. pc[c] \in {"probe", "publish"} /\ outcome' = outcome /\ UNCHANGED diskVars
    BY DEF Lookup
  <2>2. QED BY <1>0, <1>4, <2>1, OutcomeStays DEF HasOutcome, ReadStates, CheckStates
<1>7. ClientInv(c)'
  <2>1. Below(found[c], disk)'
    BY <1>4, <1>5 DEF EntriesInv, Below
  <2>2. QED BY <1>4, <1>6, <2>1 DEF ClientInv, LockInv, DecideInv, StoreInv, Deciding,
                                    ReadStates, CheckStates
<1>8. QED BY <1>1, <1>2, <1>3, <1>5, <1>7, ClientStepKept

LEMMA ReadStoredKeeps ==
    ASSUME CacheInv, NEW c \in Clients,
           \/ ReadStored(c, "probeRead", "probeCheck")
           \/ ReadStored(c, "publishRead", "publishCheck")
    PROVE  CacheInv'
<1>0. /\ TypeOK /\ ClientInv(c) /\ EntriesInv /\ FaithInv
      /\ lock = c /\ memory \in {None, found[c]}
  BY DEF CacheInv, ClientInv, LockInv, ReadStored, Holding
<1>1. /\ pc[c] \in ReadStates /\ pc'[c] \in CheckStates
      /\ pc[c] \in HasOutcome \/ pc'[c] \notin HasOutcome
      /\ UNCHANGED <<diskVars, lock, inspecting, snap, outcome, answer>>
      /\ \A d \in Clients \ {c} : pc'[d] = pc[d] /\ found'[d] = found[d]
      /\ \/ /\ stored' \in {stored, late} /\ late' = None
            /\ memory' \in {memory, stored', None}
            /\ found'[c] \in {memory, stored'} /\ memory' \in {None, found'[c]}
         \/ UNCHANGED <<found, memory, storeVars>>
  BY <1>0 DEF ReadStored, Goes, TypeOK, ReadStates, CheckStates, HasOutcome
<1>2. TypeOK'
  <2>1. found' \in [Clients -> Entries \cup {None}]
    BY <1>0 DEF ReadStored, TypeOK, storeVars
  <2>2. pc' = [pc EXCEPT ![c] = "probeCheck"] \/ pc' = [pc EXCEPT ![c] = "publishCheck"]
    BY DEF ReadStored, Goes
  <2>3. {memory', stored', late'} \subseteq Entries \cup {None}
    BY <1>0, <1>1 DEF TypeOK, storeVars
  <2>4. QED BY <1>0, <1>1, <2>1, <2>2, <2>3 DEF TypeOK, diskVars
<1>3. Grow /\ (\A r \in Repos : expired'[r] => expired[r])
  BY <1>0, <1>1, DiskStays
<1>4. HeldAlone(c) /\ (\A d \in Clients \ {c} : Same(d))
  BY <1>0, <1>1 DEF HeldAlone, Same, Kept
<1>5. EntriesInv' /\ FaithInv'
  <2>1. {memory', stored', late', found'[c]} \subseteq {memory, stored, late, found[c], None}
    BY <1>1 DEF storeVars
  <2>2. Below(memory, disk) /\ Below(stored, disk) /\ Below(late, disk)
        /\ Below(found[c], disk)
    BY <1>0 DEF EntriesInv, ClientInv
  <2>3. disk' = disk
    BY <1>1 DEF diskVars
  <2>4. Below(memory', disk') /\ Below(stored', disk') /\ Below(late', disk')
    BY <2>1, <2>2, <2>3 DEF Below
  <2>5. NotOlder(late', stored')
    BY <1>0, <1>1 DEF EntriesInv, NotOlder, storeVars
  <2>6. FaithInv'
    BY <1>0, <1>1, <2>1, NothingIsSound DEF FaithInv
  <2>7. QED BY <2>4, <2>5, <2>6 DEF EntriesInv
<1>6. OutcomeInv(c)'
  BY <1>0, <1>1, OutcomeStays DEF ReadStates, CheckStates
<1>7. ClientInv(c)'
  <2>1. Below(found[c], disk)'
    BY <1>0, <1>1 DEF EntriesInv, ClientInv, Below, diskVars, storeVars
  <2>2. LockInv(c)'
    BY <1>0, <1>1 DEF LockInv, storeVars
  <2>3. QED BY <1>1, <1>6, <2>1, <2>2 DEF ClientInv, DecideInv, StoreInv, Deciding, CheckStates
<1>8. QED BY <1>2, <1>3, <1>4, <1>5, <1>7, ClientStepKept

LEMMA SnapshotTyped ==
    ASSUME TypeOK
    PROVE  Snapshot \in Snapshots
BY DEF TypeOK, Snapshot, Snapshots

LEMMA TakeSnapshotKeeps ==
    ASSUME CacheInv, NEW c \in Clients,
           \/ TakeSnapshot(c, "probeCheck", "probeDecide")
           \/ TakeSnapshot(c, "publishCheck", "publishDecide")
    PROVE  CacheInv'
<1>0. TypeOK /\ ClientInv(c) /\ EntriesInv /\ Snapshot \in Snapshots
  BY SnapshotTyped DEF CacheInv
<1>1. TypeOK'
  BY <1>0 DEF TakeSnapshot, Goes, TypeOK, diskVars, storeVars
<1>2. Grow /\ (\A r \in Repos : expired'[r] => expired[r])
  BY <1>0, DiskStays DEF TakeSnapshot
<1>3. HeldAlone(c) /\ (\A d \in Clients \ {c} : Same(d))
  BY <1>0 DEF TakeSnapshot, Goes, TypeOK, HeldAlone, Same, Kept, storeVars
<1>4. EntriesInv' /\ FaithInv'
  BY <1>1, <1>2, RetainedKept DEF TakeSnapshot, storeVars
<1>5. /\ pc[c] \in CheckStates /\ pc'[c] \in Deciding
      /\ pc[c] \in HasOutcome \/ pc'[c] \notin HasOutcome
      /\ snap'[c] \in {Snapshot, None}
      /\ UNCHANGED <<diskVars, memory, storeVars, lock, found, outcome>>
  BY <1>0 DEF TakeSnapshot, Goes, TypeOK, CheckStates, Deciding, HasOutcome
<1>6. OutcomeInv(c)'
  BY <1>0, <1>5, OutcomeStays DEF CheckStates, Deciding
<1>7. DecideInv(c)'
  <2>1. Snapshot.records = disk
    BY DEF Snapshot
  <2>2. \A r \in Repos : disk[r] <= disk[r]
    BY <1>0, MarkersAreVersions DEF TypeOK
  <2>3. Below(stored, disk) /\ Below(late, disk) /\ Below(found[c], disk)
    BY <1>0 DEF EntriesInv, ClientInv
  <2>4. QED BY <1>5, <2>1, <2>2, <2>3 DEF DecideInv, Below, diskVars, storeVars
<1>8. ClientInv(c)'
  BY <1>0, <1>5, <1>6, <1>7 DEF ClientInv, LockInv, StoreInv, Below, Holding, CheckStates,
                                Deciding, diskVars, storeVars
<1>9. QED BY <1>1, <1>2, <1>3, <1>4, <1>8, ClientStepKept

-----------------------------------------------------------------------------
(* store_entry: what is remembered is at least as new as all there is.     *)

(* The entry a client goes on to write, whether it found or computed it.   *)
LEMMA RememberKeeps ==
    ASSUME CacheInv, TypeOK', NEW c \in Clients, pc[c] \in Deciding, snap[c] # None,
           NEW entry \in Entries, entry.records = snap[c].records,
           Sound(entry),
           Remember(entry), found'[c] = entry, pc'[c] = "store",
           UNCHANGED <<diskVars, storeVars, lock>>, Forgets(c),
           \A d \in Clients \ {c} : pc'[d] = pc[d] /\ found'[d] = found[d]
    PROVE  CacheInv'
<1>0. /\ TypeOK /\ ClientInv(c) /\ EntriesInv /\ FaithInv
      /\ lock = c /\ memory' \in {entry, None}
      /\ \A r \in Repos : entry.records[r] <= disk[r]
      /\ Below(stored, entry.records) /\ Below(late, entry.records)
  BY DEF CacheInv, ClientInv, LockInv, DecideInv, Remember, Deciding, Holding
<1>1. Grow /\ (\A r \in Repos : expired'[r] => expired[r])
  BY <1>0, DiskStays
<1>2. HeldAlone(c) /\ (\A d \in Clients \ {c} : Same(d))
  BY <1>0 DEF Forgets, TypeOK, HeldAlone, Same, Kept
<1>3. EntriesInv'
  BY <1>0 DEF EntriesInv, Below, diskVars, storeVars
<1>4. FaithInv'
  BY <1>0, NothingIsSound DEF FaithInv, storeVars
<1>5. NotOlder(entry, stored) /\ NotOlder(entry, late)
  <2>1. ASSUME NEW old \in {stored, late}, old # None, NEW r \in Repos
        PROVE  entry.records[r] >= old.records[r]
    <3>1. old.records[r] <= entry.records[r] /\ old \in Entries
      BY <1>0, <2>1 DEF Below, TypeOK
    <3>2. old.records[r] \in Nat /\ entry.records[r] \in Nat
      BY <3>1, MarkersAreVersions DEF Entries
    <3>3. QED BY <3>1, <3>2
  <2>2. QED BY <2>1 DEF NotOlder
<1>6. ClientInv(c)'
  BY <1>0, <1>5 DEF ClientInv, Below, LockInv, DecideInv, StoreInv, OutcomeInv, NotOlder,
                    Deciding, HasOutcome, diskVars, storeVars
<1>7. QED BY <1>1, <1>2, <1>3, <1>4, <1>6, ClientStepKept

LEMMA FoundAgainKeeps ==
    ASSUME CacheInv, NEW c \in Clients, InspectHit(c) \/ AlreadyCurrent(c)
    PROVE  CacheInv'
<1>0. TypeOK /\ FaithInv /\ pc[c] \in Deciding /\ FoundMatches(c)
  BY DEF CacheInv, InspectHit, AlreadyCurrent, Deciding
<1>1. CASE AlreadyCurrent(c) /\ ~MustPersist(c)
  BY <1>1, EndKeeps DEF AlreadyCurrent, Release, Holding, Dispositions
<1>2. CASE InspectHit(c) \/ MustPersist(c)
  <2>1. /\ Remember(found[c]) /\ Goes(c, "store")
        /\ Answers(c, "cache-hit") \/ Answers(c, "already-current")
        /\ UNCHANGED <<diskVars, storeVars, lock, inspecting, found>> /\ Forgets(c)
    BY <1>2 DEF InspectHit, AlreadyCurrent
  <2>2. TypeOK'
    BY <1>0, <2>1 DEF Remember, Goes, Answers, Forgets, TypeOK, diskVars, storeVars, Dispositions
  <2>3. /\ pc'[c] = "store" /\ found'[c] = found[c]
        /\ \A d \in Clients \ {c} : pc'[d] = pc[d] /\ found'[d] = found[d]
    BY <1>0, <2>1 DEF Goes, TypeOK
  <2>4. /\ snap[c] # None /\ found[c] \in Entries /\ found[c].records = snap[c].records
        /\ Sound(found[c])
    BY <1>0 DEF FoundMatches, matches, TypeOK, FaithInv
  <2>5. QED BY <1>0, <2>1, <2>2, <2>3, <2>4, RememberKeeps
<1>3. QED BY <1>1, <1>2

(* The markers captured before and after a collection, when they are the   *)
(* same, are what the collection has read, but for a file that expired     *)
(* meanwhile and was replaced by a fallback.                               *)
LEMMA PublishableIsFaithful ==
    ASSUME CacheInv, NEW c \in Clients, pc[c] = "publishDecide", Publishable(c)
    PROVE  LET o == outcome[c] IN
           /\ \A r \in Repos : \/ o.response[r] = o.used.records[r]
                               \/ r \in Sharded /\ o.response[r] = Fallback
           /\ o \in Outcomes /\ o.used \in Snapshots
           /\ \A r \in Repos : o.response[r] # Unread
           /\ \A r \in Repos : o.response[r] = Fallback => r \in o.lapsed
<1> DEFINE o == outcome[c]
<1>1. /\ o \in Outcomes /\ o.before # None /\ o.used # None
      /\ \A r \in Repos : o.response[r] # Unread /\ ReadInv(o, r)
  BY DEF CacheInv, ClientInv, OutcomeInv, HasOutcome, Publishable, is_cacheable_with, Collected
<1>2. o.before.records = o.used.records /\ is_cacheable_after(o.used, o.before)
  BY DEF Publishable, is_cacheable_with
<1>3. o.before \in Snapshots /\ o.used \in Snapshots
  BY <1>1 DEF Outcomes
<1>4. ASSUME NEW r \in Repos, o.response[r] # Fallback
      PROVE  o.response[r] = o.used.records[r]
  <2>1. o.before.records[r] <= o.response[r] /\ o.response[r] <= o.used.records[r]
    BY <1>1, <1>2, <1>3, <1>4 DEF ReadInv
  <2>2. o.response[r] \in Nat /\ o.used.records[r] \in Nat
    BY <1>1, <1>3, MarkersAreVersions, CacheAssumption DEF Outcomes, Snapshots
  <2>3. QED BY <1>2, <2>1, <2>2
<1>5. ASSUME NEW r \in Repos, o.response[r] = Fallback
      PROVE  r \in Sharded /\ r \in o.lapsed
  <2>1. r \in Sharded
    BY <1>1, <1>5 DEF ReadInv
  <2>2. ~o.before.stale
    BY <1>2, <2>1 DEF is_cacheable_after
  <2>3. QED BY <1>1, <1>3, <1>5, <2>1, <2>2 DEF ReadInv
<1>6. QED BY <1>1, <1>3, <1>4, <1>5

LEMMA PublishKeeps ==
    ASSUME CacheInv, NEW c \in Clients, Publish(c)
    PROVE  CacheInv'
<1> DEFINE entry == [response |-> outcome[c].response, records |-> outcome[c].used.records,
                     lapsed |-> outcome[c].lapsed]
<1>0. /\ TypeOK /\ pc[c] = "publishDecide" /\ Publishable(c)
      /\ Remember(entry) /\ found' = [found EXCEPT ![c] = entry] /\ Goes(c, "store")
      /\ Answers(c, "not-retained") \/ Answers(c, "published")
      /\ UNCHANGED <<diskVars, storeVars, lock, inspecting>> /\ Forgets(c)
  BY DEF CacheInv, Publish
<1>1. entry \in Entries
  <2>1. outcome[c] \in Outcomes /\ (\A r \in Repos : outcome[c].response[r] # Unread)
    BY <1>0, PublishableIsFaithful
  <2>2. outcome[c].used \in Snapshots
    BY <1>0, PublishableIsFaithful
  <2>3. \A r \in Repos : outcome[c].response[r] \in 0..MaxVersion
    BY <2>1, CacheAssumption DEF Outcomes, Unread
  <2>4. outcome[c].response \in Responses
    BY <2>1, <2>3 DEF Outcomes, Responses
  <2>5. outcome[c].lapsed \in SUBSET Repos
    BY <2>1 DEF Outcomes
  <2>6. QED BY <2>2, <2>4, <2>5 DEF Entries, Snapshots
<1>2. TypeOK'
  BY <1>0, <1>1 DEF Remember, Goes, Answers, Forgets, TypeOK, diskVars, storeVars, Dispositions
<1>3. /\ pc'[c] = "store" /\ found'[c] = entry
      /\ \A d \in Clients \ {c} : pc'[d] = pc[d] /\ found'[d] = found[d]
  BY <1>0 DEF Goes, TypeOK
<1>4. snap[c] # None /\ entry.records = snap[c].records
  BY <1>0 DEF Publishable, is_cacheable_with
<1>5. Sound(entry)
  BY <1>0, PublishableIsFaithful DEF Sound, FaithfulOrFallback, LapsesAtMost
<1>6. pc[c] \in Deciding
  BY <1>0 DEF Deciding
<1> HIDE DEF entry
<1>7. QED BY <1>0, <1>1, <1>2, <1>3, <1>4, <1>5, <1>6, RememberKeeps

(* The write to the store: completed, failed or left behind, it leaves     *)
(* there what was there, what was late, or the entry, never older.         *)
LEMMA WriteKeeps ==
    ASSUME CacheInv, NEW c \in Clients, pc[c] = "store",
           NEW disposition \in Dispositions, Ends(c, disposition), Release,
           stored' \in {found[c], late, stored, None}, late' \in {found[c], late, None},
           late' # None => stored' = stored,
           UNCHANGED <<diskVars, memory>>
    PROVE  CacheInv'
<1>0. /\ TypeOK /\ ClientInv(c) /\ EntriesInv /\ FaithInv /\ lock = c
      /\ NotOlder(found[c], stored) /\ NotOlder(late, stored)
  BY DEF CacheInv, ClientInv, LockInv, StoreInv, EntriesInv, Holding
<1>1. TypeOK'
  <2>1. {found[c], memory, stored, late} \subseteq Entries \cup {None}
    BY <1>0 DEF TypeOK
  <2>2. memory' \in Entries \cup {None}
    BY <2>1
  <2>3. stored' \in Entries \cup {None} /\ late' \in Entries \cup {None}
    BY <2>1
  <2>4. {memory', stored', late'} \subseteq Entries \cup {None}
    BY <2>2, <2>3
  <2>5. found' \in [Clients -> Entries \cup {None}]
    BY <1>0 DEF Ends, Forgets, TypeOK
  <2>6. snap' \in [Clients -> Snapshots \cup {None}]
    BY <1>0 DEF Ends, Forgets, TypeOK
  <2>7. outcome' \in [Clients -> Outcomes \cup {None}]
    BY <1>0 DEF Ends, Forgets, TypeOK
  <2>8. QED BY <1>0, <2>4, <2>5, <2>6, <2>7 DEF Ends, Forgets, Goes, Release, TypeOK, diskVars
<1>2. Grow /\ (\A r \in Repos : expired'[r] => expired[r])
  BY <1>0, DiskStays
<1>3. HeldAlone(c) /\ (\A d \in Clients \ {c} : Same(d))
  BY <1>0 DEF Ends, Forgets, Goes, TypeOK, HeldAlone, Same, Kept
<1>4. EntriesInv'
  BY <1>0 DEF EntriesInv, ClientInv, Below, NotOlder, diskVars
<1>5. FaithInv'
  BY <1>0, NothingIsSound DEF FaithInv, Ends, Forgets, TypeOK
<1>6. pc'[c] = "idle" /\ found'[c] = None
  BY <1>0 DEF Ends, Forgets, Goes, TypeOK
<1>7. ClientInv(c)'
  BY <1>6 DEF ClientInv, Below, LockInv, DecideInv, StoreInv, OutcomeInv,
              Holding, Deciding, HasOutcome
<1>8. QED BY <1>1, <1>2, <1>3, <1>4, <1>5, <1>7, ClientStepKept

LEMMA WritesKeep ==
    ASSUME CacheInv, NEW c \in Clients, WriteCompletes(c) \/ WriteFails(c) \/ Cancel(c)
    PROVE  CacheInv'
<1>0. answer[c] \in Dispositions
  BY DEF CacheInv, TypeOK
<1>1. CASE WriteCompletes(c)
  BY <1>0, <1>1, WriteKeeps DEF WriteCompletes, Dispositions
<1>2. CASE WriteFails(c)
  BY <1>0, <1>2, WriteKeeps DEF WriteFails, Flushed, storeVars, Dispositions
<1>3. CASE Cancel(c) /\ pc[c] = "store"
  BY <1>3, WriteKeeps DEF Cancel, Dispositions
<1>4. CASE Cancel(c) /\ pc[c] # "store"
  BY <1>4, EndKeeps DEF Cancel, Release, Holding, Dispositions, storeVars
<1>5. QED BY <1>1, <1>2, <1>3, <1>4

-----------------------------------------------------------------------------
(* The worker's solve, between its two captures.                           *)
SolvingStep(c) ==
    /\ pc' = pc \/ Goes(c, "collect") \/ Goes(c, "publish")
    /\ UNCHANGED <<memory, storeVars, lock, inspecting, found, snap, answer>>

LEMMA SolvingKeeps ==
    ASSUME CacheInv, TypeOK', NEW c \in Clients, SolvingStep(c), Grow,
           pc'[c] \in {"collect", "publish"}, OutcomeInv(c)',
           \A d \in Clients \ {c} : outcome'[d] = outcome[d],
           \A r \in Repos : expired'[r] => expired[r]
    PROVE  CacheInv'
<1>0. TypeOK /\ ClientInv(c)
  BY DEF CacheInv
<1>1. HeldAlone(c) /\ (\A d \in Clients \ {c} : Same(d))
  BY <1>0 DEF SolvingStep, Goes, TypeOK, HeldAlone, Same, Kept, storeVars
<1>2. EntriesInv' /\ FaithInv'
  <2>1. \A d \in Clients : found'[d] \in {found[d], memory, None}
    BY DEF SolvingStep
  <2>2. QED BY <2>1, RetainedKept DEF SolvingStep, storeVars
<1>3. Below(found[c], disk)'
  BY <1>0, BelowGrows DEF ClientInv, TypeOK, SolvingStep, Grow, Below
<1>4. ClientInv(c)'
  BY <1>3 DEF ClientInv, LockInv, DecideInv, StoreInv, Holding, Deciding
<1>5. QED BY <1>1, <1>2, <1>4, ClientStepKept

LEMMA CaptureBeforeKeeps ==
    ASSUME CacheInv, NEW c \in Clients, CaptureBefore(c)
    PROVE  CacheInv'
<1>0. TypeOK /\ ClientInv(c) /\ Snapshot \in Snapshots
  BY SnapshotTyped DEF CacheInv
<1>1. PICK before \in {Snapshot, None} :
        outcome' = [outcome EXCEPT ![c] =
            [response |-> [r \in Repos |-> Unread], before |-> before, used |-> None,
             lapsed |-> {}]]
  BY DEF CaptureBefore
<1>2. [response |-> [r \in Repos |-> Unread], before |-> before, used |-> None,
       lapsed |-> {}] \in Outcomes
  BY <1>0, <1>1, CacheAssumption DEF Outcomes, Unread
<1>3. TypeOK'
  <2>1. outcome' \in [Clients -> Outcomes \cup {None}]
    BY <1>0, <1>1, <1>2 DEF TypeOK
  <2>2. QED BY <1>0, <2>1 DEF CaptureBefore, Goes, TypeOK, diskVars, storeVars
<1>4. Grow /\ (\A r \in Repos : expired'[r] => expired[r])
  BY <1>0, DiskStays DEF CaptureBefore
<1>5. /\ SolvingStep(c) /\ pc'[c] = "collect"
      /\ \A d \in Clients \ {c} : outcome'[d] = outcome[d]
      /\ disk' = disk /\ expired' = expired
  BY <1>0, <1>1 DEF CaptureBefore, SolvingStep, Goes, TypeOK, diskVars
<1>6. OutcomeInv(c)'
  <2>1. /\ outcome'[c].before = before /\ outcome'[c].used = None
        /\ \A r \in Repos : outcome'[c].response[r] = Unread
        /\ outcome'[c] \in Outcomes
    BY <1>0, <1>1, <1>2 DEF TypeOK
  <2>2. Unread # Fallback
    BY CacheAssumption DEF Unread, Fallback
  <2>3. ASSUME NEW r \in Repos PROVE ReadInv(outcome[c], r)'
    <3>1. disk[r] <= disk[r]
      BY <1>0, MarkersAreVersions DEF TypeOK
    <3>2. before # None => before.records = disk /\ (~before.stale => ~expired[r])
      BY <1>1 DEF Snapshot
    <3>3. QED BY <1>5, <2>1, <2>2, <3>1, <3>2 DEF ReadInv
  <2>4. QED BY <1>5, <2>1, <2>3 DEF OutcomeInv, HasOutcome
<1>7. QED BY <1>3, <1>4, <1>5, <1>6, SolvingKeeps

LEMMA CollectKeeps ==
    ASSUME CacheInv, NEW c \in Clients, NEW r \in Repos, Collect(c, r)
    PROVE  CacheInv'
<1> DEFINE o == outcome[c]
<1>0. /\ TypeOK /\ pc[c] = "collect" /\ o \in Outcomes /\ o.used = None
      /\ o.response[r] = Unread /\ (\A q \in Repos : ReadInv(o, q))
  BY DEF CacheInv, ClientInv, OutcomeInv, Collect, Collecting
<1>1. /\ disk \in Markers /\ disk[r] \in Nat /\ 1 <= disk[r] /\ disk[r] <= MaxVersion
      /\ MaxVersion \in Nat
  BY <1>0, MarkersAreVersions, CacheAssumption DEF TypeOK
<1>2. PICK data \in 0..MaxVersion :
        /\ Reads(c, r, data)
        /\ disk' \in Markers /\ disk[r] <= disk'[r]
        /\ \A q \in Repos \ {r} : disk'[q] = disk[q] /\ expired'[q] = expired[q]
        /\ expired' \in [Repos -> BOOLEAN] /\ (expired'[r] => expired[r])
        /\ \/ data = disk'[r]
           \/ data = Fallback /\ r \in Sharded /\ expired[r] /\ disk' = disk
  <2>1. CASE ~expired[r] /\ Reads(c, r, disk[r]) /\ UNCHANGED diskVars
    BY <1>0, <1>1, <2>1 DEF diskVars, TypeOK
  <2>2. CASE /\ expired[r] /\ expired' = [expired EXCEPT ![r] = FALSE]
             /\ Reads(c, r, disk[r]) /\ UNCHANGED disk
    BY <1>0, <1>1, <2>2 DEF TypeOK
  <2>3. CASE /\ expired[r] /\ expired' = [expired EXCEPT ![r] = FALSE]
             /\ disk[r] < MaxVersion /\ disk' = [disk EXCEPT ![r] = @ + 1]
             /\ Reads(c, r, disk'[r])
    <3>1. disk[r] + 1 \in 1..MaxVersion /\ disk'[r] = disk[r] + 1
      BY <1>1, <2>3 DEF Markers
    <3>2. disk' \in Markers
      BY <1>1, <2>3, <3>1 DEF Markers
    <3>3. \A q \in Repos \ {r} : disk'[q] = disk[q] /\ expired'[q] = expired[q]
      BY <1>0, <1>1, <2>3 DEF Markers, TypeOK
    <3>4. disk'[r] \in 0..MaxVersion /\ disk[r] <= disk'[r]
      BY <1>1, <3>1
    <3>5. QED BY <1>0, <2>3, <3>2, <3>3, <3>4 DEF TypeOK
  <2>4. CASE /\ expired[r] /\ expired' = [expired EXCEPT ![r] = FALSE]
             /\ r \in Sharded /\ Reads(c, r, Fallback) /\ UNCHANGED disk
    BY <1>0, <1>1, <2>4 DEF TypeOK, Fallback
  <2>5. QED BY <2>1, <2>2, <2>3, <2>4 DEF Collect
<1> DEFINE read == [o EXCEPT !.response[r] = data,
                             !.lapsed = IF data = Fallback THEN @ ELSE @ \ {r}]
<1>3. /\ outcome' = [outcome EXCEPT ![c] = read]
      /\ read \in Outcomes /\ read.before = o.before /\ read.used = None
      /\ read.response[r] = data
      /\ \A q \in Repos \ {r} :
            read.response[q] = o.response[q] /\ (q \in read.lapsed <=> q \in o.lapsed)
      /\ data = Fallback => read.lapsed = o.lapsed
  <2>1. data \in 0..(MaxVersion + 1)
    BY <1>1
  <2>2. QED BY <1>0, <1>2, <2>1 DEF Reads, Outcomes
<1>4. outcome'[c] = read /\ (\A d \in Clients \ {c} : outcome'[d] = outcome[d])
  BY <1>0, <1>3 DEF TypeOK
<1>5. TypeOK'
  <2>1. outcome' \in [Clients -> Outcomes \cup {None}]
    BY <1>0, <1>3 DEF TypeOK
  <2>2. QED BY <1>0, <1>2, <2>1 DEF Collect, TypeOK, storeVars
<1>6. Grow /\ (\A q \in Repos : expired'[q] => expired[q])
  <2>1. ASSUME NEW q \in Repos PROVE disk[q] <= disk'[q] /\ (expired'[q] => expired[q])
    BY <1>1, <1>2, MarkersAreVersions
  <2>2. QED BY <2>1 DEF Grow
<1>7. SolvingStep(c) /\ pc'[c] = "collect"
  BY <1>0 DEF Collect, SolvingStep
<1>8. OutcomeInv(c)'
  <2>1. ASSUME NEW q \in Repos \ {r} PROVE ReadInv(outcome[c], q)'
    <3>1. /\ outcome'[c].before = o.before /\ outcome'[c].used = None /\ o.used = None
          /\ outcome'[c].response[q] = o.response[q]
          /\ q \in outcome'[c].lapsed <=> q \in o.lapsed
          /\ disk'[q] = disk[q] /\ expired'[q] = expired[q]
      BY <1>0, <1>2, <1>3, <1>4, <2>1
    <3>2. ReadInv(o, q)
      BY <1>0
    <3>3. QED BY <3>1, <3>2 DEF ReadInv
  <2>2. ReadInv(outcome[c], r)'
    <3>1. o.before # None => o.before.records[r] \in Nat
      BY <1>0, MarkersAreVersions DEF Outcomes, Snapshots
    <3>2. disk'[r] \in Nat /\ disk'[r] # Unread /\ disk'[r] # Fallback /\ data # Unread
      BY <1>2, MarkersAreVersions, CacheAssumption DEF Fallback, Unread
    <3>3. data <= disk'[r]
      BY <1>2, <3>2, CacheAssumption DEF Fallback
    <3>4. o.before # None => o.before.records[r] <= disk'[r]
      BY <1>0, <1>1, <1>2, <3>1, <3>2 DEF ReadInv
    <3>5. o.before # None /\ data \notin {Unread, Fallback} => o.before.records[r] <= data
      BY <1>2, <3>2, <3>4
    <3>6. r \notin Sharded => data # Fallback
      BY <1>2, <3>2
    <3>7. o.before # None /\ ~o.before.stale /\ r \notin read.lapsed => data # Fallback
      BY <1>0, <1>2, <1>3, <3>2 DEF ReadInv
    <3>8. QED BY <1>3, <1>4, <3>2, <3>3, <3>4, <3>5, <3>6, <3>7 DEF ReadInv
  <2>3. \A q \in Repos : ReadInv(outcome[c], q)'
    BY <2>1, <2>2
  <2>4. outcome'[c] \in Outcomes /\ outcome'[c].used = None
    BY <1>3, <1>4
  <2>5. QED BY <1>7, <2>3, <2>4 DEF OutcomeInv, HasOutcome
<1>9. QED BY <1>4, <1>5, <1>6, <1>7, <1>8, SolvingKeeps

LEMMA SolvedKeeps ==
    ASSUME CacheInv, NEW c \in Clients, Solved(c)
    PROVE  CacheInv'
<1> DEFINE o == outcome[c]
<1>0. /\ TypeOK /\ Snapshot \in Snapshots /\ o \in Outcomes
      /\ \A r \in Repos : o.response[r] # Unread /\ ReadInv(o, r)
  BY SnapshotTyped DEF CacheInv, ClientInv, OutcomeInv, Solved
<1>1. PICK used \in {Snapshot, None} :
        outcome' = [outcome EXCEPT ![c] =
            IF o.before = None \/ used = None THEN None ELSE [o EXCEPT !.used = used]]
  BY DEF Solved
<1> DEFINE result == [o EXCEPT !.used = used]
<1>2. /\ result \in Outcomes /\ result.used = used /\ result.before = o.before
      /\ result.response = o.response /\ result.lapsed = o.lapsed
  BY <1>0 DEF Outcomes
<1>3. /\ outcome'[c] = None \/ (outcome'[c] = result /\ o.before # None /\ used # None)
      /\ \A d \in Clients \ {c} : outcome'[d] = outcome[d]
      /\ outcome' \in [Clients -> Outcomes \cup {None}]
  BY <1>0, <1>1, <1>2 DEF TypeOK
<1>4. TypeOK'
  BY <1>0, <1>3 DEF Solved, Goes, TypeOK, diskVars, storeVars
<1>5. Grow /\ (\A r \in Repos : expired'[r] => expired[r])
  BY <1>0, DiskStays DEF Solved
<1>6. SolvingStep(c) /\ pc'[c] = "publish" /\ disk' = disk /\ expired' = expired
  BY <1>0 DEF Solved, SolvingStep, Goes, TypeOK, diskVars
<1>7. ASSUME outcome'[c] # None PROVE Collected(outcome[c])'
  <2>1. outcome'[c] = result /\ o.before # None /\ used = Snapshot /\ used # None
    BY <1>1, <1>3, <1>7
  <2>2. ASSUME NEW r \in Repos
        PROVE  outcome'[c].response[r] # Unread /\ ReadInv(outcome[c], r)'
    <3>1. o.response[r] <= used.records[r]
      BY <1>0, <2>1 DEF ReadInv, Snapshot
    <3>2. /\ outcome'[c].response = o.response /\ outcome'[c].lapsed = o.lapsed
          /\ outcome'[c].before = o.before /\ outcome'[c].used = used
      BY <1>2, <2>1
    <3>3. ReadInv(o, r) /\ o.response[r] # Unread /\ disk' = disk /\ expired' = expired
      BY <1>0, <1>6
    <3>4. QED BY <3>1, <3>2, <3>3 DEF ReadInv
  <2>3. QED BY <1>2, <2>1, <2>2 DEF Collected
<1>8. OutcomeInv(c)'
  BY <1>6, <1>7 DEF OutcomeInv
<1>9. QED BY <1>3, <1>4, <1>5, <1>6, <1>8, SolvingKeeps

-----------------------------------------------------------------------------
(* The rest of the system: files, other keys, the store and restarts.      *)

LEMMA SurroundingsKeep ==
    ASSUME CacheInv, TypeOK', EntriesInv', FaithInv',
           \A c \in Clients : Same(c) /\ Undisturbed(c),
           \A r \in Repos : expired'[r] => expired[r]
    PROVE  CacheInv'
<1>1. ASSUME NEW c \in Clients PROVE ClientInv(c)'
  BY <1>1, SameKept
<1>2. QED BY <1>1 DEF CacheInv

LEMMA ExpireKeeps ==
    ASSUME CacheInv, NEW r \in Repos, Expire(r)
    PROVE  CacheInv'
<1>0. /\ TypeOK /\ disk' = disk /\ expired' = [expired EXCEPT ![r] = TRUE]
      /\ UNCHANGED <<memory, storeVars, lock, pc, inspecting, found, snap, answer>>
      /\ \A c \in Clients :
            outcome'[c] = IF Collecting(c, r) THEN [outcome[c] EXCEPT !.lapsed = @ \cup {r}]
                          ELSE outcome[c]
  BY DEF CacheInv, Expire
<1>1. ASSUME NEW c \in Clients, Collecting(c, r)
      PROVE  /\ outcome[c] \in Outcomes /\ outcome[c].used = None
             /\ outcome'[c] \in Outcomes
             /\ outcome'[c].response = outcome[c].response
             /\ outcome'[c].before = outcome[c].before
             /\ outcome'[c].used = outcome[c].used
             /\ outcome'[c].lapsed = outcome[c].lapsed \cup {r}
  <2>1. outcome[c] \in Outcomes /\ outcome[c].used = None
    BY <1>1 DEF CacheInv, ClientInv, OutcomeInv, Collecting
  <2>2. outcome'[c] = [outcome[c] EXCEPT !.lapsed = @ \cup {r}]
    BY <1>0, <1>1
  <2>3. QED BY <2>1, <2>2 DEF Outcomes
<1>2. TypeOK'
  <2>1. outcome' \in [Clients -> Outcomes \cup {None}]
    BY <1>0, <1>1 DEF Expire, TypeOK
  <2>2. expired' \in [Repos -> BOOLEAN]
    BY <1>0 DEF TypeOK
  <2>3. QED BY <1>0, <2>1, <2>2 DEF TypeOK, storeVars
<1>3. Grow
  BY <1>0, MarkersAreVersions DEF Grow, TypeOK
<1>4. ASSUME NEW c \in Clients PROVE Kept(c) /\ Undisturbed(c)
  BY <1>0, <1>3 DEF Kept, Undisturbed, storeVars
<1>5. ASSUME NEW c \in Clients PROVE ClientInv(c)'
  <2>1. CASE ~Collecting(c, r)
    <3>1. Same(c)
      BY <1>0, <1>4, <2>1 DEF Same
    <3>2. \A q \in Repos : expired'[q] => expired[q] \/ ~Collecting(c, q)
      BY <1>0, <2>1 DEF TypeOK
    <3>3. QED BY <1>2, <1>4, <3>1, <3>2, SameKept
  <2>2. CASE Collecting(c, r)
    <3>1. pc'[c] = "collect" /\ (\A q \in Repos : ReadInv(outcome[c], q))
      BY <1>0, <2>2 DEF Collecting, CacheInv, ClientInv, OutcomeInv
    <3>2. ASSUME NEW q \in Repos PROVE ReadInv(outcome[c], q)'
      BY <1>0, <1>1, <2>2, <3>1 DEF ReadInv, TypeOK
    <3>3. OutcomeInv(c)'
      BY <1>1, <2>2, <3>1, <3>2 DEF OutcomeInv, HasOutcome
    <3>4. QED BY <1>2, <1>4, <3>3, ViewKept
  <2>3. QED BY <2>1, <2>2
<1>6. EntriesInv' /\ FaithInv'
  BY <1>0, <1>2, <1>3, RetainedKept DEF storeVars
<1>7. QED BY <1>2, <1>5, <1>6 DEF CacheInv

LEMMA RefreshKeeps ==
    ASSUME CacheInv, NEW r \in Repos, OtherRefresh(r)
    PROVE  CacheInv'
<1>0. /\ TypeOK /\ disk \in Markers /\ disk[r] \in Nat /\ MaxVersion \in Nat
      /\ expired' = [expired EXCEPT ![r] = FALSE]
  BY MarkersAreVersions, CacheAssumption DEF CacheInv, TypeOK, OtherRefresh
<1>1. disk' \in Markers /\ Grow
  <2>1. disk[r] + 1 \in 1..MaxVersion
    BY <1>0 DEF OtherRefresh
  <2>2. disk' \in Markers
    BY <1>0, <2>1 DEF OtherRefresh, Markers
  <2>3. ASSUME NEW q \in Repos PROVE disk[q] <= disk'[q]
    <3>1. disk[q] \in Nat
      BY <1>0, MarkersAreVersions
    <3>2. CASE q = r
      BY <1>0, <3>2 DEF OtherRefresh, Markers
    <3>3. CASE q # r
      BY <1>0, <3>1, <3>3 DEF OtherRefresh, Markers
    <3>4. QED BY <3>2, <3>3
  <2>4. QED BY <2>2, <2>3 DEF Grow
<1>2. TypeOK' /\ (\A q \in Repos : expired'[q] => expired[q])
  <2>1. expired' \in [Repos -> BOOLEAN] /\ (\A q \in Repos : expired'[q] => expired[q])
    BY <1>0 DEF TypeOK
  <2>2. QED BY <1>0, <1>1, <2>1 DEF OtherRefresh, TypeOK, storeVars
<1>3. ASSUME NEW c \in Clients PROVE Same(c) /\ Undisturbed(c)
  BY <1>1 DEF OtherRefresh, Same, Kept, Undisturbed, storeVars
<1>4. EntriesInv' /\ FaithInv'
  BY <1>1, <1>2, RetainedKept DEF OtherRefresh, storeVars
<1>5. QED BY <1>2, <1>3, <1>4, SurroundingsKeep

LEMMA LossesKeep ==
    ASSUME CacheInv, Evict \/ Outlives \/ LateWrite
    PROVE  CacheInv'
<1>0. /\ TypeOK /\ EntriesInv /\ FaithInv
      /\ UNCHANGED <<diskVars, lock, pc, inspecting, found, snap, outcome, answer>>
      /\ memory' \in {memory, None} /\ stored' \in {stored, late, None}
      /\ late' \in {late, None} /\ (late' # None => stored' \in {stored, None})
  BY DEF CacheInv, Evict, Outlives, LateWrite, storeVars
<1>1. TypeOK'
  <2>1. {memory', stored', late'} \subseteq Entries \cup {None}
    BY <1>0 DEF TypeOK
  <2>2. QED BY <1>0, <2>1 DEF TypeOK, diskVars
<1>2. Grow /\ (\A r \in Repos : expired'[r] => expired[r])
  BY <1>0, DiskStays
<1>3. ASSUME NEW c \in Clients PROVE Same(c) /\ Undisturbed(c)
  BY <1>0, <1>2 DEF Same, Kept, Undisturbed
<1>4. EntriesInv'
  BY <1>0 DEF EntriesInv, Below, NotOlder, diskVars
<1>5. FaithInv'
  BY <1>0, NothingIsSound DEF FaithInv
<1>6. QED BY <1>1, <1>2, <1>3, <1>4, <1>5, SurroundingsKeep

LEMMA RestartKeeps ==
    ASSUME CacheInv, Restart
    PROVE  CacheInv'
<1>0. /\ TypeOK /\ EntriesInv /\ FaithInv /\ UNCHANGED diskVars
      /\ memory' = None /\ late' = None /\ stored' \in {stored, late}
      /\ \A c \in Clients : pc'[c] = "idle" /\ found'[c] = None
  BY DEF CacheInv, Restart, Flushed
<1>1. TypeOK'
  <2>1. {memory', stored', late'} \subseteq Entries \cup {None}
    BY <1>0 DEF TypeOK
  <2>2. QED BY <1>0, <2>1 DEF Restart, TypeOK, diskVars, Dispositions
<1>2. EntriesInv' /\ FaithInv'
  BY <1>0, NothingIsSound DEF EntriesInv, Below, NotOlder, FaithInv, diskVars
<1>3. \A c \in Clients : ClientInv(c)'
  BY <1>0 DEF ClientInv, Below, LockInv, DecideInv, StoreInv, OutcomeInv,
              Holding, Deciding, HasOutcome
<1>4. QED BY <1>1, <1>2, <1>3 DEF CacheInv

-----------------------------------------------------------------------------
LEMMA CacheInvInit == Init => CacheInv
<1> SUFFICES ASSUME Init PROVE CacheInv
  OBVIOUS
<1>1. TypeOK
  BY CacheAssumption DEF Init, TypeOK, Markers, Dispositions
<1>2. \A c \in Clients : ClientInv(c)
  BY DEF Init, ClientInv, Below, LockInv, DecideInv, StoreInv, OutcomeInv,
         Holding, Deciding, HasOutcome
<1>3. EntriesInv /\ FaithInv
  BY NothingIsSound DEF Init, EntriesInv, Below, NotOlder, FaithInv
<1>4. QED BY <1>1, <1>2, <1>3 DEF CacheInv

LEMMA CacheInvStep == CacheInv /\ [Next]_vars => CacheInv'
<1> SUFFICES ASSUME CacheInv, [Next]_vars PROVE CacheInv'
  OBVIOUS
<1>1. ASSUME NEW r \in Repos, Expire(r) \/ OtherRefresh(r) PROVE CacheInv'
  BY <1>1, ExpireKeeps, RefreshKeeps
<1>2. ASSUME NEW c \in Clients, NEW inspect \in BOOLEAN, Begin(c, inspect) PROVE CacheInv'
  BY <1>2, BeginKeeps
<1>3. ASSUME NEW c \in Clients, ProbeHit(c) \/ Reject(c) \/ SolveFails(c) PROVE CacheInv'
  BY <1>3, EndingsKeep
<1>4. ASSUME NEW c \in Clients,
             \/ Lookup(c, "probe", "probeRead", "probeCheck")
             \/ Lookup(c, "publish", "publishRead", "publishCheck")
      PROVE  CacheInv'
  BY <1>4, LookupKeeps
<1>5. ASSUME NEW c \in Clients,
             \/ ReadStored(c, "probeRead", "probeCheck")
             \/ ReadStored(c, "publishRead", "publishCheck")
      PROVE  CacheInv'
  BY <1>5, ReadStoredKeeps
<1>6. ASSUME NEW c \in Clients,
             \/ TakeSnapshot(c, "probeCheck", "probeDecide")
             \/ TakeSnapshot(c, "publishCheck", "publishDecide")
      PROVE  CacheInv'
  BY <1>6, TakeSnapshotKeeps
<1>7. ASSUME NEW c \in Clients, InspectHit(c) \/ AlreadyCurrent(c) PROVE CacheInv'
  BY <1>7, FoundAgainKeeps
<1>8. ASSUME NEW c \in Clients, ProbeMiss(c) PROVE CacheInv'
  BY <1>8, ProbeMissKeeps
<1>9. ASSUME NEW c \in Clients, CaptureBefore(c) PROVE CacheInv'
  BY <1>9, CaptureBeforeKeeps
<1>10. ASSUME NEW c \in Clients, NEW r \in Repos, Collect(c, r) PROVE CacheInv'
  BY <1>10, CollectKeeps
<1>11. ASSUME NEW c \in Clients, Solved(c) PROVE CacheInv'
  BY <1>11, SolvedKeeps
<1>12. ASSUME NEW c \in Clients, Publish(c) PROVE CacheInv'
  BY <1>12, PublishKeeps
<1>13. ASSUME NEW c \in Clients, WriteCompletes(c) \/ WriteFails(c) \/ Cancel(c)
       PROVE  CacheInv'
  BY <1>13, WritesKeep
<1>14. CASE Evict \/ Outlives \/ LateWrite
  BY <1>14, LossesKeep
<1>15. CASE Restart
  BY <1>15, RestartKeeps
<1>16. CASE UNCHANGED vars
  <2>1. TypeOK' /\ EntriesInv' /\ FaithInv'
    BY <1>16, NothingIsSound DEF vars, diskVars, storeVars, CacheInv, TypeOK, EntriesInv, Below, NotOlder,
                 FaithInv
  <2>2. TypeOK
    BY DEF CacheInv
  <2>3. Grow /\ (\A r \in Repos : expired'[r] => expired[r])
    BY <1>16, <2>2, DiskStays DEF vars
  <2>4. ASSUME NEW c \in Clients PROVE Same(c) /\ Undisturbed(c)
    BY <1>16, <2>3 DEF vars, storeVars, Same, Kept, Undisturbed
  <2>5. QED BY <2>1, <2>3, <2>4, SurroundingsKeep
<1>17. QED
  BY <1>1, <1>2, <1>3, <1>4, <1>5, <1>6, <1>7, <1>8, <1>9, <1>10, <1>11, <1>12, <1>13,
     <1>14, <1>15, <1>16 DEF Next

(* The retained entries, the lock and every client's view of them keep     *)
(* their relations in every state of the service.                          *)
THEOREM CacheInvariant == Spec => []CacheInv
<1>1. QED BY CacheInvInit, CacheInvStep, PTL DEF Spec

(* Every variable of the solver cache keeps its type.                      *)
THEOREM CacheTypeCorrect == Spec => []TypeOK
<1>1. CacheInv => TypeOK
  BY DEF CacheInv
<1>2. QED BY <1>1, CacheInvariant, PTL

(* Whatever expires and is replaced when, what SolverResultService retains *)
(* has no file's data of another version than its markers name: at most    *)
(* the JSON data of a fallback in the place of a sharded file.             *)
THEOREM NeverOtherVersion == Spec => []NoOtherVersion
<1>1. CacheInv => NoOtherVersion
  BY DEF CacheInv, FaithInv, Sound, NoOtherVersion
<1>2. QED BY <1>1, CacheInvariant, PTL

(* And the fallbacks that it does retain are all for files that expired    *)
(* between the worker's first capture and their collection: any other, its *)
(* is_cacheable_after recognises.                                          *)
THEOREM OtherFallbacksRejected == Spec => []OnlyLapsesFallBack
<1>1. CacheInv => OnlyLapsesFallBack
  BY DEF CacheInv, FaithInv, Sound, OnlyLapsesFallBack
<1>2. QED BY <1>1, CacheInvariant, PTL

-----------------------------------------------------------------------------
(* What a step does to what is retained.                                   *)
LEMMA NotOlderThanItself ==
    ASSUME NEW entry \in Entries \cup {None}
    PROVE  NotOlder(entry, entry)
BY MarkersAreVersions DEF NotOlder, Entries

LEMMA BelowIsNotOlder ==
    ASSUME NEW old \in Entries \cup {None}, NEW entry \in Entries, Below(old, entry.records)
    PROVE  NotOlder(entry, old)
<1> SUFFICES ASSUME old # None, NEW r \in Repos PROVE entry.records[r] >= old.records[r]
  BY DEF NotOlder
<1>1. old.records[r] \in Nat /\ entry.records[r] \in Nat
  BY MarkersAreVersions DEF Entries
<1>2. QED BY <1>1 DEF Below

(* Memory gets back what it held, nothing, or an entry with the markers    *)
(* the lock's holder has just compared what it found with.                 *)
LEMMA MemoryStep ==
    ASSUME CacheInv, CacheInv', [Next]_vars
    PROVE  NotOlder(memory', memory)
<1>0. memory \in Entries \cup {None} /\ memory' \in Entries \cup {None}
  BY DEF CacheInv, TypeOK
<1>1. CASE memory' \in {memory, None} \/ memory = None
  BY <1>0, <1>1, NotOlderThanItself DEF NotOlder
<1>2. ASSUME NEW c \in Clients, InspectHit(c) \/ AlreadyCurrent(c)
      PROVE  memory' \in {memory, None} \/ memory = None
  BY <1>2 DEF InspectHit, AlreadyCurrent, Remember, CacheInv, ClientInv, LockInv, Holding
<1>3. ASSUME NEW c \in Clients, Publish(c), memory' # None, memory # None
      PROVE  NotOlder(memory', memory)
  <2>1. memory = found[c] /\ Below(found[c], snap[c].records)
    BY <1>3 DEF Publish, Publishable, is_cacheable_with, CacheInv, ClientInv, LockInv,
                DecideInv, Holding, Deciding
  <2>2. memory'.records = snap[c].records
    BY <1>3 DEF Publish, Publishable, is_cacheable_with, Remember
  <2>3. QED BY <1>0, <1>3, <2>1, <2>2, BelowIsNotOlder
<1>4. ASSUME NEW c \in Clients, NEW read, NEW check, ReadStored(c, read, check)
      PROVE  memory' \in {memory, None} \/ memory = None
  BY <1>4 DEF ReadStored
<1>5. (\E c \in Clients : Publish(c) /\ memory' # None /\ memory # None)
        \/ memory' \in {memory, None} \/ memory = None
  BY <1>2, <1>4 DEF Next, vars, Expire, OtherRefresh, Begin, Lookup, TakeSnapshot, ProbeHit,
        ProbeMiss, CaptureBefore, Collect, Solved, SolveFails, AlreadyCurrent, Reject,
        WriteCompletes, WriteFails, Cancel, Evict, Outlives, LateWrite, Restart
<1>6. QED BY <1>1, <1>3, <1>5

(* The store gets a late write, or what its writer found not to be older   *)
(* than what is there.                                                     *)
LEMMA StoredStep ==
    ASSUME CacheInv, [Next]_vars
    PROVE  NotOlder(stored', stored)
<1>0. stored \in Entries \cup {None} /\ NotOlder(stored, stored) /\ NotOlder(late, stored)
  BY NotOlderThanItself DEF CacheInv, TypeOK, EntriesInv
<1>1. ASSUME NEW c \in Clients, WriteCompletes(c) PROVE NotOlder(stored', stored)
  BY <1>1 DEF WriteCompletes, CacheInv, ClientInv, StoreInv
<1>2. ASSUME NEW c \in Clients, WriteFails(c) PROVE stored' \in {stored, late, None}
  BY <1>2 DEF WriteFails, Flushed, storeVars
<1>3. ASSUME NEW c \in Clients, NEW read, NEW check, ReadStored(c, read, check)
      PROVE  stored' \in {stored, late, None}
  BY <1>3 DEF ReadStored, storeVars
<1>4. (\E c \in Clients : WriteCompletes(c)) \/ stored' \in {stored, late, None}
  BY <1>2, <1>3 DEF Next, vars, Expire, OtherRefresh, Begin, Lookup, TakeSnapshot, ProbeHit,
        InspectHit, ProbeMiss, CaptureBefore, Collect, Solved, SolveFails, AlreadyCurrent,
        Reject, Publish, Cancel, Evict, Outlives, LateWrite, Restart, Flushed, storeVars
<1>5. QED BY <1>0, <1>1, <1>4 DEF NotOlder

(* Nothing that SolverResultService and the store retain is ever replaced  *)
(* by an entry for older files, by whichever worker, read or late write.   *)
THEOREM NothingRegresses == Spec => NeverRegresses
<1>1. CacheInv /\ CacheInv' /\ [Next]_vars => NotOlder(memory', memory)
  BY MemoryStep
<1>2. CacheInv /\ [Next]_vars => NotOlder(stored', stored)
  BY StoredStep
<1>3. QED BY <1>1, <1>2, CacheInvariant, PTL DEF Spec, NeverRegresses

(* publish_solver reports a refresh as published or already current only   *)
(* when the store has what was found or computed.                          *)
THEOREM RefreshesPersist == Spec => RefreshIsPersistent
<1>1. ASSUME CacheInv, [Next]_vars, NEW c \in Refreshers, Persistent,
             pc[c] = "store", pc'[c] = "idle", answer'[c] \in {"published", "already-current"}
      PROVE  stored' = found[c]
  <2>0. TypeOK /\ c \in Clients /\ MustPersist(c)
    BY <1>1 DEF CacheInv, Clients, MustPersist
  <2>1. ASSUME NEW d \in Clients, NEW next, Goes(d, next), pc[d] # "store"
        PROVE  FALSE
    BY <1>1, <2>0, <2>1 DEF Goes, TypeOK
  <2>2. PICK d \in Clients : WriteCompletes(d) \/ WriteFails(d) \/ Cancel(d)
    <3>1. pc' # pc /\ ~Restart
      BY <1>1, <2>0 DEF Restart, TypeOK
    <3>2. ASSUME NEW r \in Repos, Expire(r) \/ OtherRefresh(r) PROVE FALSE
      BY <3>1, <3>2 DEF Expire, OtherRefresh
    <3>3. ~Evict /\ ~Outlives /\ ~LateWrite /\ ~UNCHANGED vars
      BY <3>1 DEF Evict, Outlives, LateWrite, vars
    <3>4. ASSUME NEW d \in Clients,
                 \/ \E inspect \in BOOLEAN : Begin(d, inspect)
                 \/ Lookup(d, "probe", "probeRead", "probeCheck")
                 \/ ReadStored(d, "probeRead", "probeCheck")
                 \/ TakeSnapshot(d, "probeCheck", "probeDecide")
                 \/ ProbeHit(d) \/ InspectHit(d) \/ ProbeMiss(d)
          PROVE  FALSE
      BY <3>4, <2>1 DEF Begin, Lookup, ReadStored, TakeSnapshot, ProbeHit, InspectHit,
                        ProbeMiss, Ends
    <3>5. ASSUME NEW d \in Clients,
                 \/ CaptureBefore(d) \/ (\E r \in Repos : Collect(d, r))
                 \/ Solved(d) \/ SolveFails(d)
                 \/ Lookup(d, "publish", "publishRead", "publishCheck")
                 \/ ReadStored(d, "publishRead", "publishCheck")
                 \/ TakeSnapshot(d, "publishCheck", "publishDecide")
                 \/ AlreadyCurrent(d) \/ Reject(d) \/ Publish(d)
          PROVE  FALSE
      BY <3>1, <3>5, <2>1 DEF CaptureBefore, Collect, Solved, SolveFails, Lookup, ReadStored,
                              TakeSnapshot, AlreadyCurrent, Reject, Publish, Ends
    <3>6. QED BY <1>1, <3>1, <3>2, <3>3, <3>4, <3>5 DEF Next
  <2>3. d = c
    BY <1>1, <2>0, <2>2 DEF WriteCompletes, WriteFails, Cancel, Ends, Goes, TypeOK
  <2>4. ~WriteFails(c) /\ ~Cancel(c)
    BY <1>1, <2>0 DEF WriteFails, Cancel, Ends, TypeOK
  <2>5. QED BY <2>2, <2>3, <2>4 DEF WriteCompletes
<1>2. CacheInv /\ [Next]_vars =>
        [\A c \in Refreshers :
            (/\ Persistent
             /\ pc[c] = "store" /\ pc'[c] = "idle"
             /\ answer'[c] \in {"published", "already-current"})
            => stored' = found[c]]_vars
  BY <1>1
<1>3. QED BY <1>2, CacheInvariant, PTL DEF Spec, RefreshIsPersistent
=============================================================================
