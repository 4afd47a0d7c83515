------------------------ MODULE PublicResolveProofs ------------------------
(***************************************************************************)
(* Proofs about PublicResolve for any requests, files and versions.        *)
(*                                                                         *)
(* Versions of a file only grow.  So what a request solves over lies, file *)
(* by file, between the markers it captured first and the files that are   *)
(* there now; when these are the same, so is what it solved over.  The     *)
(* same holds for an index and the markers recorded with it, half reloaded *)
(* or not, and therefore an index whose markers are those of the files may *)
(* be used as it is.                                                       *)
(*                                                                         *)
(* The exception are the files an index has missed, which were replaced    *)
(* between their load and the capture that followed: of these its markers  *)
(* may be newer than its data.  They say nothing of a request that loads   *)
(* the index itself, which solves over data at least as new as its first   *)
(* markers whatever is replaced.                                           *)
(***************************************************************************)
EXTENDS PublicResolve, TLAPS

Between(low, middle, high, but) ==
    \A r \in Repos : (r \notin but => low[r] <= middle[r]) /\ middle[r] <= high[r]

Started(c) == pc[c] \notin {"idle", "capture"}

(* A request's first capture is not newer than the files.                  *)
InitialInv(c) ==
    Started(c) =>
        /\ initial[c] \in Snapshots
        /\ \A r \in Repos : initial[c].records[r] <= disk[r]

(* Each file that was read, it read after that capture and after those of  *)
(* the index that is reloaded.                                             *)
LoadingInv(c) ==
    pc[c] = "loading" =>
        /\ data[c] \in Loading
        /\ \A r \in Repos : InWindow(c, r) =>
            /\ initial[c].records[r] <= data[c][r] /\ data[c][r] <= disk[r]
            /\ index # None => index.records[r] <= data[c][r]
            /\ PersistentWorker /\ r \notin missed[c] => data[c][r] = disk[r]

SolvedInv(c) ==
    /\ pc[c] = "solving" =>
        data[c] \in Markers /\ Between(initial[c].records, data[c], disk, missed[c])
    /\ pc[c] = "final" =>
        \/ data[c] = Failed
        \/ data[c] \in Markers /\ Between(initial[c].records, data[c], disk, missed[c])

IndexInv ==
    /\ index # None =>
        /\ Between(index.records, index.data, disk, index.missed)
        /\ \A r \in Repos : index.records[r] <= disk[r]
    /\ ~PersistentWorker => index = None
    /\ PersistentWorker => \A c, d \in Clients : Solving(c) /\ Solving(d) => c = d

RequestInv(c) == InitialInv(c) /\ LoadingInv(c) /\ SolvedInv(c)

ResolveInv ==
    /\ TypeOK /\ IndexInv
    /\ \A c \in Clients : RequestInv(c)

-----------------------------------------------------------------------------
(* A request that another one's step leaves alone, while files only grow.  *)
Same(c) ==
    /\ pc'[c] = pc[c] /\ initial'[c] = initial[c] /\ data'[c] = data[c]
    /\ missed'[c] = missed[c]

Grow == \A r \in Repos : disk[r] <= disk'[r]

LEMMA MarkersAreNumbers ==
    ASSUME NEW m \in Markers, NEW r \in Repos PROVE m[r] \in Nat /\ m[r] # Unread
BY ResolveAssumption DEF Markers, Unread

LEMMA SameKept ==
    ASSUME ResolveInv, TypeOK', NEW c \in Clients, Same(c), Grow,
           pc[c] = "loading" =>
             /\ index' = index \/ index' = None
             /\ PersistentWorker => disk' = disk
    PROVE  RequestInv(c)'
<1>0. RequestInv(c) /\ TypeOK /\ disk \in Markers /\ disk' \in Markers
    BY DEF ResolveInv, TypeOK
<1>1. InitialInv(c)'
  <2> SUFFICES ASSUME Started(c)
               PROVE  /\ initial[c] \in Snapshots
                      /\ \A r \in Repos : initial[c].records[r] <= disk'[r]
    BY DEF Same, InitialInv, Started
  <2>1. initial[c] \in Snapshots /\ \A r \in Repos : initial[c].records[r] <= disk[r]
    BY <1>0 DEF RequestInv, InitialInv
  <2>2. initial[c].records \in Markers
    BY <2>1 DEF Snapshots
  <2>3. QED BY <1>0, <2>1, <2>2, MarkersAreNumbers DEF Grow
<1>2. LoadingInv(c)'
  <2> SUFFICES ASSUME pc[c] = "loading" PROVE LoadingInv(c)'
    BY DEF Same, LoadingInv
  <2>1. data'[c] \in Loading
    BY <1>0 DEF Same, RequestInv, LoadingInv
  <2>2. ASSUME NEW r \in Repos, InWindow(c, r)'
        PROVE  /\ initial'[c].records[r] <= data'[c][r] /\ data'[c][r] <= disk'[r]
               /\ index' # None => index'.records[r] <= data'[c][r]
               /\ PersistentWorker /\ r \notin missed'[c] => data'[c][r] = disk'[r]
    <3>1. InWindow(c, r)
        BY <2>2 DEF InWindow, Same
    <3>2. data[c][r] \in Nat /\ disk[r] \in Nat /\ disk'[r] \in Nat
        BY <1>0, MarkersAreNumbers, ResolveAssumption DEF RequestInv, LoadingInv, Loading
    <3>3. QED BY <1>0, <3>1, <3>2 DEF RequestInv, LoadingInv, Same, Grow
  <2>3. QED BY <2>1, <2>2 DEF LoadingInv
<1>3. SolvedInv(c)'
  <2>1. ASSUME data[c] \in Markers, Between(initial[c].records, data[c], disk, missed[c])
        PROVE  Between(initial'[c].records, data'[c], disk', missed'[c])
    BY <1>0, <2>1, MarkersAreNumbers DEF Between, Same, Grow
  <2>2. QED BY <1>0, <2>1 DEF RequestInv, SolvedInv, Same
<1>4. QED BY <1>1, <1>2, <1>3 DEF RequestInv

LEMMA IndexKept ==
    ASSUME ResolveInv, TypeOK', Grow, index' = index \/ index' = None,
           \A c \in Clients : Solving(c)' => Solving(c)
    PROVE  IndexInv'
<1>1. ASSUME index # None, index' = index
      PROVE  /\ Between(index'.records, index'.data, disk', index'.missed)
             /\ \A r \in Repos : index'.records[r] <= disk'[r]
  <2>1. index.records \in Markers /\ index.data \in Markers
    BY <1>1 DEF ResolveInv, TypeOK, Indexes
  <2>2. disk \in Markers /\ disk' \in Markers
    BY DEF ResolveInv, TypeOK
  <2>3. QED BY <1>1, <2>1, <2>2, MarkersAreNumbers DEF ResolveInv, IndexInv, Between, Grow
<1>2. IndexInv
    BY DEF ResolveInv
<1>3. index' # None =>
        /\ Between(index'.records, index'.data, disk', index'.missed)
        /\ \A r \in Repos : index'.records[r] <= disk'[r]
    BY <1>1
<1>4. ~PersistentWorker => index' = None
    BY <1>2 DEF IndexInv
<1>5. PersistentWorker => \A c, d \in Clients : Solving(c)' /\ Solving(d)' => c = d
    BY <1>2 DEF IndexInv
<1>6. QED BY <1>3, <1>4, <1>5 DEF IndexInv

-----------------------------------------------------------------------------
(* The files.                                                              *)
LEMMA FilesKeep ==
    ASSUME ResolveInv, NEW r \in Repos,
           Expire(r) \/ OtherRefresh(r)
    PROVE  ResolveInv'
<1>1. TypeOK'
  <2>1. TypeOK
    BY DEF ResolveInv
  <2>2. expired' \in [Repos -> BOOLEAN]
    BY <2>1 DEF Expire, OtherRefresh, TypeOK
  <2>3. disk' \in Markers
    BY <2>1, ResolveAssumption DEF Expire, OtherRefresh, TypeOK, Markers
  <2>4. missed' \in [Clients -> SUBSET Repos]
    BY <2>1 DEF Expire, OtherRefresh, TypeOK
  <2>5. QED BY <2>1, <2>2, <2>3, <2>4 DEF Expire, OtherRefresh, TypeOK
<1>2. Grow
  <2>1. disk \in [Repos -> 1..MaxVersion]
    BY DEF ResolveInv, TypeOK, Markers
  <2>2. QED BY <2>1, ResolveAssumption DEF Expire, OtherRefresh, Grow
<1>3. IndexInv'
    BY <1>1, <1>2, IndexKept DEF Expire, OtherRefresh, Solving, ResolveInv
<1>4. ASSUME NEW c \in Clients PROVE RequestInv(c)'
  <2>1. CASE pc[c] = "loading" /\ OtherRefresh(r)
    <3>1. /\ disk' = [disk EXCEPT ![r] = @ + 1] /\ index' = index
          /\ pc'[c] = pc[c] /\ initial'[c] = initial[c] /\ data'[c] = data[c]
          /\ missed'[c] = IF InWindow(c, r) THEN missed[c] \cup {r} ELSE missed[c]
          /\ disk \in Markers /\ disk' \in Markers
      BY <2>1, <1>1 DEF OtherRefresh, ResolveInv, TypeOK
    <3>2. RequestInv(c) /\ initial[c] \in Snapshots
      BY <2>1 DEF ResolveInv, RequestInv, InitialInv, Started
    <3>3. InitialInv(c)'
      BY <1>2, <3>1, <3>2, MarkersAreNumbers
         DEF RequestInv, InitialInv, Started, Grow, Snapshots
    <3>4. ASSUME NEW s \in Repos, InWindow(c, s)'
          PROVE  /\ initial'[c].records[s] <= data'[c][s] /\ data'[c][s] <= disk'[s]
                 /\ index' # None => index'.records[s] <= data'[c][s]
                 /\ PersistentWorker /\ s \notin missed'[c] => data'[c][s] = disk'[s]
      <4>1. InWindow(c, s) /\ data[c] \in Loading
        BY <2>1, <3>1, <3>2, <3>4 DEF InWindow, RequestInv, LoadingInv
      <4>2. data[c][s] \in Nat /\ disk[s] \in Nat /\ disk'[s] \in Nat /\ disk[s] <= disk'[s]
        BY <1>2, <3>1, <4>1, MarkersAreNumbers, ResolveAssumption DEF Loading, Grow
      <4>3. s \notin missed'[c] => s \notin missed[c] /\ disk'[s] = disk[s]
        BY <3>1, <4>1 DEF Markers
      <4>4. QED BY <2>1, <3>1, <3>2, <4>1, <4>2, <4>3 DEF RequestInv, LoadingInv
    <3>5. LoadingInv(c)'
      BY <2>1, <3>1, <3>2, <3>4 DEF RequestInv, LoadingInv
    <3>6. SolvedInv(c)'
      BY <2>1, <3>1 DEF SolvedInv
    <3>7. QED BY <3>3, <3>5, <3>6 DEF RequestInv
  <2>2. CASE Expire(r)
    BY <1>1, <1>2, <2>2, SameKept DEF Expire, Same
  <2>3. CASE pc[c] # "loading" /\ OtherRefresh(r)
    <3>1. Same(c)
      BY <2>3 DEF OtherRefresh, Same, InWindow
    <3>2. QED BY <1>1, <1>2, <2>3, <3>1, SameKept
  <2>4. QED BY <2>1, <2>2, <2>3
<1>5. QED BY <1>1, <1>3, <1>4 DEF ResolveInv

(* The steps that touch neither files, index, results nor other requests.  *)
LEMMA WalkKeeps ==
    ASSUME ResolveInv, NEW c \in Clients,
           Begin(c) \/ CaptureInitial(c) \/ Lookup(c) \/ Recheck(c) \/ Solved(c)
    PROVE  ResolveInv'
<1>1. TypeOK'
  <2>1. Snapshot \in Snapshots
    BY DEF ResolveInv, TypeOK, Snapshot, Snapshots
  <2>2. CASE Begin(c) \/ Solved(c)
    BY <2>2 DEF Begin, Solved, Goes, diskVars, ResolveInv, TypeOK
  <2>3. CASE CaptureInitial(c)
    BY <2>1, <2>3 DEF CaptureInitial, Goes, diskVars, ResolveInv, TypeOK
  <2>4. CASE Lookup(c)
    <3>1. initial[c].records \in Markers
        BY <2>4 DEF Lookup, ResolveInv, RequestInv, InitialInv, Started, Snapshots
    <3>2. found' \in [Clients -> Responses \cup {None}]
        BY <2>4, <3>1 DEF Lookup, ResolveInv, TypeOK
    <3>3. QED BY <2>4, <3>2 DEF Lookup, Goes, diskVars, ResolveInv, TypeOK
  <2>5. CASE Recheck(c)
    BY <2>1, <2>5 DEF Recheck, Leaves, Misses, Goes, diskVars, ResolveInv, TypeOK
  <2>6. QED BY <2>2, <2>3, <2>4, <2>5
<1>2. disk' = disk /\ index' = index /\ results' = results
    BY DEF Begin, CaptureInitial, Lookup, Recheck, Solved, diskVars
<1>3. Grow
    BY <1>2, MarkersAreNumbers DEF Grow, ResolveInv, TypeOK
<1>4. \A d \in Clients \ {c} : Same(d)
    BY DEF Begin, CaptureInitial, Lookup, Recheck, Solved, Leaves, Misses, Goes, ResolveInv,
       TypeOK, Same
<1>5. ~Solving(c)' \/ Solving(c)
    BY DEF Begin, CaptureInitial, Lookup, Recheck, Solved, Leaves, Misses, Goes, ResolveInv,
       TypeOK, Solving
<1>6. IndexInv'
    BY <1>1, <1>2, <1>3, <1>4, <1>5, IndexKept DEF Same, Solving, ResolveInv
<1>7. RequestInv(c)'
  <2>1. Snapshot \in Snapshots /\ Snapshot.records = disk
    BY DEF ResolveInv, TypeOK, Snapshot, Snapshots
  <2>2. \A r \in Repos : disk[r] <= disk[r]
    BY MarkersAreNumbers DEF ResolveInv, TypeOK
  <2>3. CASE Begin(c) \/ CaptureInitial(c) \/ Recheck(c)
    BY <1>2, <2>1, <2>2, <2>3 DEF Begin, CaptureInitial, Recheck, Leaves, Misses, Goes,
       ResolveInv, TypeOK, RequestInv, InitialInv, LoadingInv, SolvedInv, Started
  <2>4. CASE Lookup(c)
    BY <1>2, <2>4 DEF Lookup, Goes, ResolveInv, TypeOK, RequestInv, InitialInv,
       LoadingInv, SolvedInv, Started
  <2>5. CASE Solved(c)
    BY <1>2, <2>5 DEF Solved, Goes, ResolveInv, TypeOK, RequestInv, InitialInv,
       LoadingInv, SolvedInv, Started, Between
  <2>6. QED BY <2>3, <2>4, <2>5
<1>8. ASSUME NEW d \in Clients \ {c} PROVE RequestInv(d)'
    BY <1>1, <1>2, <1>3, <1>4, SameKept
<1>9. QED BY <1>1, <1>6, <1>7, <1>8 DEF ResolveInv

-----------------------------------------------------------------------------
(* The index and the solve.                                                *)
LEMMA CheckKeeps ==
    ASSUME ResolveInv, NEW c \in Clients, CheckIndex(c)
    PROVE  ResolveInv'
<1>1. /\ disk' = disk /\ index' = index /\ results' = results /\ initial' = initial
      /\ disk \in Markers /\ TypeOK /\ IndexInv /\ InitialInv(c)
    BY DEF CheckIndex, diskVars, ResolveInv, TypeOK, RequestInv
<1>2. ASSUME Unchanged
      PROVE  /\ index.data \in Markers /\ Between(disk, index.data, disk, index.missed)
             /\ index.missed \in SUBSET Repos
  <2>1. /\ index # None /\ index.records = disk /\ index \in Indexes
        /\ Between(index.records, index.data, disk, index.missed)
    BY <1>1, <1>2 DEF Unchanged, Snapshot, TypeOK, IndexInv
  <2>2. QED BY <2>1 DEF Indexes
<1>3. TypeOK'
  <2>1. [r \in Repos |-> Unread] \in Loading /\ Markers \subseteq Loading
    BY ResolveAssumption DEF Loading, Markers, Unread
  <2>2. data' \in [Clients -> Loading \cup {Failed, None}]
    BY <1>1, <1>2, <2>1 DEF CheckIndex, TypeOK
  <2>3. missed' \in [Clients -> SUBSET Repos]
    BY <1>1, <1>2 DEF CheckIndex, Misses, TypeOK
  <2>4. QED BY <1>1, <2>2, <2>3 DEF CheckIndex, Goes, diskVars, TypeOK
<1>4. Grow
    BY <1>1, MarkersAreNumbers DEF Grow
<1>5. \A d \in Clients \ {c} : Same(d)
    BY <1>1 DEF CheckIndex, Misses, Goes, TypeOK, Same
<1>6. IndexInv'
    BY <1>1, <1>5 DEF CheckIndex, WorkerIsFree, IndexInv, Solving, Same
<1>7. RequestInv(c)'
  <2>1. initial[c] \in Snapshots /\ \A r \in Repos : initial[c].records[r] <= disk[r]
    BY <1>1 DEF CheckIndex, InitialInv, Started
  <2>2. InitialInv(c)'
    BY <1>1, <2>1 DEF InitialInv
  <2>3. CASE Unchanged
    <3>1. pc'[c] = "solving" /\ data'[c] = index.data /\ missed'[c] = index.missed
        BY <1>1, <2>3 DEF CheckIndex, Misses, Goes, TypeOK
    <3>2. Between(initial'[c].records, data'[c], disk', missed'[c]) /\ data'[c] \in Markers
      <4>1. initial[c].records \in Markers
        BY <2>1 DEF Snapshots
      <4>2. QED BY <1>1, <1>2, <2>1, <2>3, <3>1, <4>1, MarkersAreNumbers DEF Between
    <3>3. QED BY <1>1, <2>2, <3>1, <3>2 DEF RequestInv, LoadingInv, SolvedInv
  <2>4. CASE ~Unchanged
    <3>1. pc'[c] = "loading" /\ data'[c] = [r \in Repos |-> Unread]
        BY <1>1, <2>4 DEF CheckIndex, Goes, TypeOK
    <3>2. LoadingInv(c)'
        BY <3>1, ResolveAssumption DEF LoadingInv, InWindow, Loading, Unread
    <3>3. QED BY <2>2, <3>1, <3>2 DEF RequestInv, SolvedInv
  <2>5. QED BY <2>3, <2>4
<1>8. ASSUME NEW d \in Clients \ {c} PROVE RequestInv(d)'
    BY <1>1, <1>3, <1>4, <1>5, SameKept
<1>9. QED BY <1>1, <1>3, <1>6, <1>7, <1>8 DEF ResolveInv

LEMMA LoadKeeps ==
    ASSUME ResolveInv, NEW c \in Clients, NEW r \in Repos, Load(c, r)
    PROVE  ResolveInv'
<1>1. /\ index' = index /\ results' = results /\ initial' = initial /\ pc' = pc
      /\ missed' = missed
      /\ disk \in [Repos -> 1..MaxVersion] /\ TypeOK /\ IndexInv
      /\ pc[c] = "loading" /\ InitialInv(c) /\ LoadingInv(c)
    BY DEF Load, ResolveInv, TypeOK, RequestInv, Markers
<1>2. /\ disk' \in Markers /\ disk[r] <= disk'[r]
      /\ \A s \in Repos \ {r} : disk'[s] = disk[s]
    BY <1>1, ResolveAssumption DEF Load, Markers
<1>3. Grow
    BY <1>1, <1>2, MarkersAreNumbers DEF Grow, Markers
<1>4. data[c] \in Loading /\ data' = [data EXCEPT ![c][r] = disk'[r]]
    BY <1>1 DEF Load, LoadingInv
<1>5. /\ data'[c] \in Loading /\ data'[c][r] = disk'[r]
      /\ \A s \in Repos \ {r} : data'[c][s] = data[c][s]
  <2>1. data'[c] = [data[c] EXCEPT ![r] = disk'[r]]
    BY <1>1, <1>4 DEF TypeOK
  <2>2. disk'[r] \in 0..MaxVersion
    BY <1>2, ResolveAssumption DEF Markers
  <2>3. QED BY <1>4, <2>1, <2>2 DEF Loading
<1>6. TypeOK'
  <2>1. expired' \in [Repos -> BOOLEAN]
    BY <1>1 DEF Load, TypeOK
  <2>2. data' \in [Clients -> Loading \cup {Failed, None}]
    BY <1>1, <1>4, <1>5 DEF TypeOK
  <2>3. QED BY <1>1, <1>2, <2>1, <2>2 DEF Load, TypeOK
<1>7. \A d \in Clients \ {c} : Same(d)
    BY <1>1, <1>4 DEF TypeOK, Same
<1>8. IndexInv'
    BY <1>1, <1>3, <1>6, IndexKept DEF Solving
<1>9. RequestInv(c)'
  <2>1. /\ initial[c].records \in Markers
        /\ \A s \in Repos : initial[c].records[s] <= disk[s]
        /\ initial[c] \in Snapshots
    BY <1>1 DEF InitialInv, Started, Snapshots
  <2>2. InitialInv(c)'
    <3>1. \A s \in Repos : initial[c].records[s] <= disk'[s]
        BY <1>1, <1>2, <1>3, <2>1, MarkersAreNumbers DEF Grow, Markers
    <3>2. QED BY <1>1, <2>1, <3>1 DEF InitialInv
  <2>3. /\ initial[c].records[r] <= disk'[r]
        /\ index # None => index.records[r] <= disk'[r]
    <3>1. initial[c].records[r] <= disk'[r]
        BY <1>1, <2>2 DEF InitialInv, Started
    <3>2. ASSUME index # None PROVE index.records[r] <= disk'[r]
      <4>1. index.records \in Markers /\ index.data \in Markers
            /\ index.records[r] <= disk[r]
        BY <1>1, <3>2 DEF TypeOK, IndexInv, Indexes
      <4>2. QED BY <1>1, <1>2, <4>1, MarkersAreNumbers DEF Markers
    <3>3. QED BY <3>1, <3>2
  <2>4. ASSUME NEW s \in Repos, InWindow(c, s)'
        PROVE  /\ initial'[c].records[s] <= data'[c][s] /\ data'[c][s] <= disk'[s]
               /\ index' # None => index'.records[s] <= data'[c][s]
               /\ PersistentWorker /\ s \notin missed'[c] => data'[c][s] = disk'[s]
    <3>1. CASE s = r
        BY <1>1, <1>2, <1>5, <2>3, <3>1, MarkersAreNumbers
    <3>2. CASE s # r
      <4>1. InWindow(c, s)
        BY <1>1, <1>5, <2>4, <3>2 DEF InWindow
      <4>2. QED BY <1>1, <1>2, <1>5, <3>2, <4>1 DEF LoadingInv
    <3>3. QED BY <3>1, <3>2
  <2>5. QED BY <1>1, <1>5, <2>2, <2>4 DEF RequestInv, LoadingInv, SolvedInv
<1>10. ASSUME NEW d \in Clients \ {c} PROVE RequestInv(d)'
  <2>1. PersistentWorker => pc[d] # "loading"
    BY <1>1 DEF IndexInv, Solving
  <2>2. QED BY <1>1, <1>3, <1>6, <1>7, <2>1, SameKept
<1>11. QED BY <1>1, <1>6, <1>8, <1>9, <1>10 DEF ResolveInv

LEMMA RecordKeeps ==
    ASSUME ResolveInv, NEW c \in Clients, RecordIndex(c)
    PROVE  ResolveInv'
<1>1. /\ disk' = disk /\ results' = results /\ initial' = initial /\ data' = data
      /\ disk \in Markers /\ TypeOK /\ IndexInv
      /\ pc[c] = "loading" /\ pc' = [pc EXCEPT ![c] = "solving"]
      /\ InitialInv(c) /\ LoadingInv(c) /\ missed' = [missed EXCEPT ![c] = {}]
    BY DEF RecordIndex, Misses, Goes, diskVars, ResolveInv, TypeOK, RequestInv
<1>2. \A r \in Repos : InWindow(c, r)
    BY <1>1 DEF RecordIndex, InWindow
<1>3. /\ data[c] \in Markers /\ Between(initial[c].records, data[c], disk, {})
      /\ \A r \in Repos : data[c][r] <= disk[r]
      /\ PersistentWorker => \A r \in Repos : r \notin missed[c] => data[c][r] = disk[r]
  <2>1. data[c] \in Markers
    BY <1>1, <1>2, ResolveAssumption DEF LoadingInv, InWindow, Loading, Markers, Unread
  <2>2. Between(initial[c].records, data[c], disk, {})
    BY <1>1, <1>2 DEF LoadingInv, Between
  <2>3. PersistentWorker => \A r \in Repos : r \notin missed[c] => data[c][r] = disk[r]
    BY <1>1, <1>2 DEF LoadingInv
  <2>4. QED BY <2>1, <2>2, <2>3 DEF Between
<1>4. index' = IF PersistentWorker
               THEN [data |-> data[c], records |-> disk, missed |-> missed[c]] ELSE None
    BY DEF RecordIndex, Kept
<1>5. TypeOK'
  <2>1. index' \in Indexes \cup {None}
    BY <1>1, <1>3, <1>4 DEF Indexes, TypeOK
  <2>2. QED BY <1>1, <2>1 DEF RecordIndex, diskVars, TypeOK
<1>6. Grow
    BY <1>1, MarkersAreNumbers DEF Grow
<1>7. \A d \in Clients \ {c} : Same(d)
    BY <1>1 DEF TypeOK, Same
<1>8. IndexInv'
  <2>1. index' # None =>
            /\ Between(index'.records, index'.data, disk', index'.missed)
            /\ \A r \in Repos : index'.records[r] <= disk'[r]
    BY <1>1, <1>3, <1>4, MarkersAreNumbers DEF Between
  <2>2. Solving(c) /\ \A d \in Clients \ {c} : Solving(d)' => Solving(d)
    BY <1>1, <1>7 DEF Solving, Same
  <2>3. PersistentWorker => \A d, e \in Clients : Solving(d)' /\ Solving(e)' => d = e
    BY <1>1, <2>2 DEF IndexInv
  <2>4. QED BY <1>4, <2>1, <2>3 DEF IndexInv
<1>9. RequestInv(c)'
    BY <1>1, <1>3 DEF TypeOK, RequestInv, InitialInv, LoadingInv, SolvedInv, Started
<1>10. ASSUME NEW d \in Clients \ {c} PROVE RequestInv(d)'
  <2>1. PersistentWorker => pc[d] # "loading"
    BY <1>1 DEF IndexInv, Solving
  <2>2. QED BY <1>1, <1>4, <1>5, <1>6, <1>7, <2>1, SameKept
<1>11. QED BY <1>1, <1>5, <1>8, <1>9, <1>10 DEF ResolveInv

(* What a failure does besides what it leaves of the index.                *)
LEMMA FailureEnds ==
    ASSUME ResolveInv, NEW c \in Clients, SolveFails(c),
           index' \in Indexes \cup {None},
           index' # None =>
             /\ Between(index'.records, index'.data, disk, index'.missed)
             /\ \A r \in Repos : index'.records[r] <= disk[r],
           ~PersistentWorker => index' = None,
           index' = index \/ \A d \in Clients \ {c} : pc[d] # "loading"
    PROVE  ResolveInv'
<1>1. /\ disk' = disk /\ expired' = expired /\ results' = results /\ Solving(c)
      /\ disk \in Markers /\ TypeOK /\ IndexInv /\ InitialInv(c)
    BY DEF SolveFails, diskVars, ResolveInv, TypeOK, RequestInv
<1>2. TypeOK'
    BY <1>1 DEF SolveFails, Leaves, Misses, Goes, TypeOK
<1>3. Grow
    BY <1>1, MarkersAreNumbers DEF Grow
<1>4. \A d \in Clients \ {c} : Same(d)
    BY <1>1 DEF SolveFails, Leaves, Misses, Goes, TypeOK, Same
<1>5. \A d \in Clients : Solving(d)' => Solving(d)
    BY <1>1, <1>4 DEF Solving, Same
<1>6. IndexInv'
  <2>1. PersistentWorker => \A d, e \in Clients : Solving(d)' /\ Solving(e)' => d = e
    BY <1>1, <1>5 DEF IndexInv
  <2>2. QED BY <1>1, <2>1 DEF IndexInv
<1>7. RequestInv(c)'
  <2>1. CASE pc'[c] = "final" /\ data'[c] = Failed /\ initial' = initial
    BY <1>1, <2>1 DEF RequestInv, InitialInv, LoadingInv, SolvedInv, Started, Solving
  <2>2. CASE pc'[c] = "idle"
    BY <2>2 DEF RequestInv, InitialInv, LoadingInv, SolvedInv, Started
  <2>3. QED BY <1>1, <2>1, <2>2 DEF SolveFails, Leaves, Misses, Goes, TypeOK
<1>8. ASSUME NEW d \in Clients \ {c} PROVE RequestInv(d)'
    BY <1>1, <1>2, <1>3, <1>4, SameKept
<1>9. QED BY <1>1, <1>2, <1>6, <1>7, <1>8 DEF ResolveInv

LEMMA FailureKeeps ==
    ASSUME ResolveInv, NEW c \in Clients, SolveFails(c)
    PROVE  ResolveInv'
<1>1. /\ disk' = disk /\ expired' = expired /\ results' = results /\ Solving(c)
      /\ disk \in Markers /\ TypeOK /\ IndexInv
      /\ InitialInv(c) /\ LoadingInv(c)
    BY DEF SolveFails, diskVars, ResolveInv, TypeOK, RequestInv
<1>2. CASE pc[c] = "loading" /\ index # None
  <2>1. /\ index' = Reloaded(c) /\ data[c] \in Loading /\ PersistentWorker
        /\ index.records \in Markers /\ index.data \in Markers
        /\ index.missed \in SUBSET Repos
        /\ Between(index.records, index.data, disk, index.missed)
        /\ \A r \in Repos : index.records[r] <= disk[r]
    BY <1>1, <1>2 DEF Indexes, SolveFails, LoadingInv, IndexInv, TypeOK
  <2>2. index'.records = index.records /\ index'.data \in Markers
    BY <2>1, ResolveAssumption DEF Reloaded, Loading, Markers, Unread
  <2>3. ASSUME NEW r \in Repos
        PROVE  /\ r \notin index'.missed => index'.records[r] <= index'.data[r]
               /\ index'.data[r] <= disk[r]
    <3>1. CASE data[c][r] = Unread
        BY <2>1, <3>1 DEF Reloaded, Between
    <3>2. CASE data[c][r] # Unread
        BY <1>1, <1>2, <2>1, <3>2 DEF Reloaded, LoadingInv, InWindow
    <3>3. QED BY <3>1, <3>2
  <2>4. index' \in Indexes
    BY <2>1, <2>2 DEF Indexes, Reloaded
  <2>5. \A d \in Clients \ {c} : pc[d] # "loading"
    BY <1>1, <2>1 DEF IndexInv, Solving
  <2>6. /\ Between(index'.records, index'.data, disk, index'.missed)
        /\ \A r \in Repos : index'.records[r] <= disk[r]
    BY <2>1, <2>2, <2>3 DEF Between
  <2>7. QED BY <1>1, <2>1, <2>4, <2>5, <2>6, FailureEnds
<1>3. CASE ~(pc[c] = "loading" /\ index # None)
    BY <1>1, <1>3, FailureEnds DEF SolveFails, IndexInv, TypeOK
<1>4. QED BY <1>2, <1>3

-----------------------------------------------------------------------------
(* The end of a request, and evictions.                                    *)
LEMMA EndKeeps ==
    ASSUME ResolveInv, NEW c \in Clients, Finish(c) \/ TimesOut(c)
    PROVE  ResolveInv'
<1>1. /\ disk' = disk /\ expired' = expired /\ (index' = index \/ index' = None)
      /\ disk \in Markers /\ TypeOK /\ Leaves(c)
    BY DEF Finish, TimesOut, diskVars, ResolveInv, TypeOK
<1>2. results' \in [Markers -> Responses \cup {None}]
  <2>1. CASE Finish(c) /\ results' # results
    <3>1. results' = [results EXCEPT ![disk] = data[c]] /\ data[c] \in Responses
      BY <2>1 DEF Finish, ResolveInv, RequestInv, SolvedInv, Responses
    <3>2. QED BY <1>1, <3>1 DEF TypeOK
  <2>2. CASE results' = results
    BY <1>1, <2>2 DEF TypeOK
  <2>3. QED BY <2>1, <2>2 DEF TimesOut
<1>3. TypeOK'
    BY <1>1, <1>2 DEF Leaves, Misses, Goes, TypeOK
<1>4. Grow
    BY <1>1, MarkersAreNumbers DEF Grow
<1>5. /\ pc'[c] = "idle"
      /\ \A d \in Clients \ {c} : Same(d)
    BY <1>1 DEF Leaves, Misses, Goes, TypeOK, Same
<1>6. IndexInv'
    BY <1>1, <1>3, <1>4, <1>5, IndexKept DEF Same, Solving
<1>7. RequestInv(c)'
    BY <1>5 DEF RequestInv, InitialInv, LoadingInv, SolvedInv, Started
<1>8. ASSUME NEW d \in Clients \ {c} PROVE RequestInv(d)'
  <2>1. PersistentWorker \/ index' = index
    BY <1>1 DEF ResolveInv, IndexInv
  <2>2. QED BY <1>1, <1>3, <1>4, <1>5, SameKept
<1>9. QED BY <1>2, <1>3, <1>6, <1>7, <1>8 DEF ResolveInv

LEMMA EvictionKeeps ==
    ASSUME ResolveInv, EvictIndex \/ \E m \in Markers : EvictResult(m)
    PROVE  ResolveInv'
<1>1. /\ disk' = disk /\ (index' = index \/ index' = None) /\ TypeOK
      /\ disk \in Markers /\ pc' = pc /\ initial' = initial /\ data' = data
      /\ missed' = missed
    BY DEF EvictIndex, EvictResult, diskVars, ResolveInv, TypeOK
<1>2. TypeOK'
    BY <1>1 DEF EvictIndex, EvictResult, diskVars, TypeOK
<1>4. Grow
    BY <1>1, MarkersAreNumbers DEF Grow
<1>5. IndexInv'
    BY <1>1, <1>2, <1>4, IndexKept DEF Solving
<1>6. ASSUME NEW c \in Clients PROVE RequestInv(c)'
    BY <1>1, <1>2, <1>4, SameKept DEF Same
<1>7. QED BY <1>2, <1>5, <1>6 DEF ResolveInv

-----------------------------------------------------------------------------
LEMMA StepKeeps ==
    ASSUME ResolveInv, [Next]_vars
    PROVE  ResolveInv'
<1>1. ASSUME NEW r \in Repos, Expire(r) \/ OtherRefresh(r) PROVE ResolveInv'
    BY <1>1, FilesKeep
<1>2. ASSUME NEW c \in Clients,
             Begin(c) \/ CaptureInitial(c) \/ Lookup(c) \/ Recheck(c) \/ Solved(c)
      PROVE  ResolveInv'
    BY <1>2, WalkKeeps
<1>3. ASSUME NEW c \in Clients, CheckIndex(c) PROVE ResolveInv'
    BY <1>3, CheckKeeps
<1>4. ASSUME NEW c \in Clients, NEW r \in Repos, Load(c, r) PROVE ResolveInv'
    BY <1>4, LoadKeeps
<1>5. ASSUME NEW c \in Clients, RecordIndex(c) PROVE ResolveInv'
    BY <1>5, RecordKeeps
<1>6. ASSUME NEW c \in Clients, SolveFails(c) PROVE ResolveInv'
    BY <1>6, FailureKeeps
<1>7. ASSUME NEW c \in Clients, Finish(c) \/ TimesOut(c) PROVE ResolveInv'
    BY <1>7, EndKeeps
<1>8. CASE EvictIndex \/ \E m \in Markers : EvictResult(m)
    BY <1>8, EvictionKeeps
<1>9. CASE UNCHANGED vars
    BY <1>9 DEF vars, diskVars, ResolveInv, TypeOK, IndexInv, RequestInv,
       InitialInv, LoadingInv, SolvedInv, Started, Solving, InWindow, Between
<1>10. QED BY <1>1, <1>2, <1>3, <1>4, <1>5, <1>6, <1>7, <1>8, <1>9 DEF Next

(* What each request, the worker's index and the files are to one another  *)
(* they are in every state.                                                *)
THEOREM ResolveInvariant == Spec => []ResolveInv
<1>1. Init => ResolveInv
  <2> SUFFICES ASSUME Init PROVE ResolveInv
    OBVIOUS
  <2>1. [r \in Repos |-> 1] \in Markers
    BY ResolveAssumption DEF Markers
  <2>2. TypeOK
    BY <2>1 DEF Init, TypeOK
  <2>3. IndexInv
    BY DEF Init, IndexInv, Solving
  <2>4. \A c \in Clients : RequestInv(c)
    BY DEF Init, RequestInv, InitialInv, LoadingInv, SolvedInv, Started
  <2>5. QED BY <2>2, <2>3, <2>4 DEF ResolveInv
<1>2. ResolveInv /\ [Next]_vars => ResolveInv'
    BY StepKeeps
<1>3. QED BY <1>1, <1>2, PTL DEF Spec

(* Every variable of run_cached_solve and build_index keeps its type.      *)
THEOREM ResolveTypeCorrect == Spec => []TypeOK
<1>1. ResolveInv => TypeOK
    BY DEF ResolveInv
<1>2. QED BY <1>1, ResolveInvariant, PTL

(* Whatever is replaced when, run_cached_solve retains a response at an    *)
(* address only if it was solved over the files that the address names,    *)
(* but for those that an index used again had missed.                      *)
THEOREM RetainedAreFaithful == Spec => RetainedFaithful
<1>1. ASSUME ResolveInv, [Next]_vars, NEW c \in Clients, NEW m \in Markers,
             pc[c] = "final", pc'[c] = "idle", data[c] # Failed, results'[m] # results[m],
             NEW r \in Repos \ missed[c]
      PROVE  results'[m][r] = m[r]
  <2>1. TypeOK /\ SolvedInv(c) /\ disk \in Markers
    BY <1>1 DEF ResolveInv, RequestInv, TypeOK
  <2>2. Finish(c)
    BY <1>1, <2>1 DEF Next, vars, Expire, OtherRefresh, Begin, CaptureInitial, Lookup,
       Recheck, CheckIndex, Load, RecordIndex, SolveFails, Solved, Finish, TimesOut,
       EvictIndex, EvictResult, Leaves, Goes, Solving, TypeOK
  <2>3. results' = [results EXCEPT ![disk] = data[c]] /\ initial[c].records = disk
    BY <1>1, <2>2 DEF Finish, Retained, Snapshot
  <2>4. m = disk /\ results'[m] = data[c]
    BY <1>1, <2>1, <2>3 DEF TypeOK
  <2>5. data[c] \in Markers /\ disk[r] <= data[c][r] /\ data[c][r] <= disk[r]
    BY <1>1, <2>1, <2>3 DEF SolvedInv, Between
  <2>6. QED BY <2>1, <2>4, <2>5, MarkersAreNumbers
<1>2. ResolveInv /\ [Next]_vars =>
        [\A c \in Clients, m \in Markers :
            (pc[c] = "final" /\ pc'[c] = "idle" /\ data[c] # Failed
                /\ results'[m] # results[m])
            => \A r \in Repos \ missed[c] : results'[m][r] = m[r]]_vars
    BY <1>1
<1>3. QED BY <1>2, ResolveInvariant, PTL DEF Spec, RetainedFaithful

(* An index that was built or reloaded for a request is not older than the *)
(* repodata the request began with, whatever is replaced meanwhile.        *)
THEOREM LoadsCurrent == Spec => LoadsAreCurrent
<1>1. ASSUME ResolveInv, [Next]_vars, NEW c \in Clients,
             pc[c] = "loading", pc'[c] = "solving", NEW r \in Repos
      PROVE  data'[c][r] >= initial[c].records[r]
  <2>1. TypeOK /\ LoadingInv(c) /\ InitialInv(c)
    BY <1>1 DEF ResolveInv, RequestInv
  <2>2. RecordIndex(c)
    BY <1>1, <2>1 DEF Next, vars, Expire, OtherRefresh, Begin, CaptureInitial, Lookup,
       Recheck, CheckIndex, Load, RecordIndex, SolveFails, Solved, Finish, TimesOut,
       EvictIndex, EvictResult, Leaves, Misses, Goes, Solving, TypeOK
  <2>3. InWindow(c, r) /\ data' = data
    BY <2>2 DEF RecordIndex, InWindow
  <2>4. initial[c].records[r] <= data[c][r] /\ data[c] \in Loading
    BY <1>1, <2>1, <2>3 DEF LoadingInv
  <2>5. initial[c].records \in Markers
    BY <1>1, <2>1 DEF InitialInv, Started, Snapshots
  <2>6. data[c][r] \in Nat /\ initial[c].records[r] \in Nat
    BY <2>4, <2>5, ResolveAssumption, MarkersAreNumbers DEF Loading
  <2>7. QED BY <2>3, <2>4, <2>6
<1>2. ResolveInv /\ [Next]_vars =>
        [\A c \in Clients : pc[c] = "loading" /\ pc'[c] = "solving" =>
            \A r \in Repos : data'[c][r] >= initial[c].records[r]]_vars
    BY <1>1
<1>3. QED BY <1>2, ResolveInvariant, PTL DEF Spec, LoadsAreCurrent

(* An index that build_index uses as it is has the data of the files that  *)
(* are there, but of those it has missed, even when it was reloaded in     *)
(* part, by however many requests that failed.                             *)
THEOREM ReloadedUnlessMissed == Spec => ReloadsUnlessMissed
<1>1. ASSUME ResolveInv, [Next]_vars, NEW c \in Clients,
             pc[c] = "solve", pc'[c] = "solving", NEW r \in Repos \ index.missed
      PROVE  data'[c][r] = disk[r]
  <2>1. TypeOK /\ IndexInv /\ disk \in Markers
    BY <1>1 DEF ResolveInv, TypeOK
  <2>2. CheckIndex(c)
    BY <1>1, <2>1 DEF Next, vars, Expire, OtherRefresh, Begin, CaptureInitial, Lookup,
       Recheck, CheckIndex, Load, RecordIndex, SolveFails, Solved, Finish, TimesOut,
       EvictIndex, EvictResult, Leaves, Goes, Solving, TypeOK
  <2>3. Unchanged
    BY <1>1, <2>1, <2>2 DEF CheckIndex, Goes, TypeOK
  <2>4. /\ index # None /\ index.records = disk /\ index.data \in Markers
        /\ Between(index.records, index.data, disk, index.missed)
    BY <2>1, <2>3 DEF Unchanged, Snapshot, TypeOK, IndexInv, Indexes
  <2>5. index.data[r] = disk[r]
    BY <1>1, <2>1, <2>4, MarkersAreNumbers DEF Between
  <2>6. QED BY <1>1, <2>1, <2>2, <2>3, <2>5 DEF CheckIndex, TypeOK
<1>2. ResolveInv /\ [Next]_vars =>
        [\A c \in Clients : pc[c] = "solve" /\ pc'[c] = "solving" =>
            \A r \in Repos \ index.missed : data'[c][r] = disk[r]]_vars
    BY <1>1
<1>3. QED BY <1>2, ResolveInvariant, PTL DEF Spec, ReloadsUnlessMissed
=============================================================================
