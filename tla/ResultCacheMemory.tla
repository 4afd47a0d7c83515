------------------------- MODULE ResultCacheMemory -------------------------
(***************************************************************************)
(* The in-process half of ResultCache (src/conda_presto/cache.py): the     *)
(* least-recently-used entries of all keys, bounded by a number of entries *)
(* and of bytes, and current_bytes, which is kept by hand at every change. *)
(*                                                                         *)
(* Between awaits a call is atomic, so only the read of the store splits   *)
(* get_stored in two.  The store may return anything.  An entry is its key *)
(* and its memory_size; a key names entries of one type only (resolve_key, *)
(* solver_key), so the entry found for it always has the type asked for.   *)
(***************************************************************************)
EXTENDS Naturals, Sequences, SequencesExt

CONSTANTS
    Tasks,         \* tasks of the server
    Keys,
    MaxEntrySize,  \* bound on memory_size
    SizeLimits,    \* values of RESULT_CACHE_SIZE to consider
    ByteLimits,    \* and of RESULT_CACHE_MAX_MEMORY_MB: 0 is no limit
    None

ASSUME CacheMemoryAssumption ==
    /\ MaxEntrySize \in Nat \ {0}
    /\ SizeLimits \subseteq Nat /\ ByteLimits \subseteq Nat
    /\ None \notin Keys

VARIABLES
    max_size, max_bytes,
    entries,       \* the entries, least recently used first
    current_bytes,
    reading,       \* the key a task is reading from the store
    used           \* for the properties: keys by use, the last one last

memoryVars == <<max_size, max_bytes, entries, current_bytes, reading, used>>

Sizes == 1..MaxEntrySize
Entry == [key : Keys, size : Sizes]

MemoryTypeOK ==
    /\ max_size \in SizeLimits /\ max_bytes \in ByteLimits
    /\ entries \in Seq(Entry)
    /\ \A i, j \in DOMAIN entries : entries[i].key = entries[j].key => i = j
    /\ current_bytes \in Nat
    /\ reading \in [Tasks -> Keys \cup {None}]
    /\ used \in Seq(Keys)

MemoryInit ==
    /\ max_size \in SizeLimits /\ max_bytes \in ByteLimits
    /\ entries = <<>> /\ current_bytes = 0
    /\ reading = [c \in Tasks |-> None]
    /\ used = <<>>

-----------------------------------------------------------------------------
KeysOf(es) == [i \in DOMAIN es |-> es[i].key]
Place(keys, key) == CHOOSE i \in DOMAIN keys : keys[i] = key

Holds(key) == key \in ToSet(KeysOf(entries))
Get(key) == entries[Place(KeysOf(entries), key)]

(* A sequence without what stands at the key's place.                      *)
Taken(s, keys, key) ==
    IF key \in ToSet(keys) THEN RemoveAt(s, Place(keys, key)) ELSE s

Without(key) == Taken(entries, KeysOf(entries), key)

SizeOf(key) == IF Holds(key) THEN Get(key).size ELSE 0

(* Mutant: an entry that is found keeps its place.                         *)
move_to_end_Stays(key) == entries

move_to_end(key) == Append(Without(key), Get(key))

(* A key is used when its entry is found or stored, not when it is dropped. *)
Unused(key) == Taken(used, used, key)
Uses(key) == used' = Append(Unused(key), key)

(* The bytes of the first i entries, and of all.                           *)
Bytes(es) ==
    LET sum[i \in 0..Len(es)] == IF i = 0 THEN 0 ELSE sum[i - 1] + es[i].size
    IN  sum
Total(es) == Bytes(es)[Len(es)]

(* Mutant: a cache that is exactly full evicts.                            *)
Over_WhenFull(es, bytes) ==
    es # <<>> /\ (Len(es) >= max_size \/ (max_bytes > 0 /\ bytes > max_bytes))

Over(es, bytes) == Len(es) > max_size \/ (max_bytes > 0 /\ bytes > max_bytes)

(* The eviction loop: the entries and bytes left, oldest popped first.     *)
Evict(es, bytes) ==
    LET without(i) == SubSeq(es, i + 1, Len(es))
        left(i) == bytes - Bytes(es)[i]
        evicted == CHOOSE i \in 0..Len(es) :
            /\ ~Over(without(i), left(i))
            /\ \A j \in 0..(i - 1) : Over(without(j), left(j))
    IN  [entries |-> without(evicted), bytes |-> left(evicted)]

Rejected(size) == max_bytes > 0 /\ size > max_bytes

Drop(key) ==
    /\ entries' = Without(key)
    /\ current_bytes' = current_bytes - SizeOf(key)
    /\ used' = Unused(key)

(* Mutant: the bytes of the entry that is replaced are not given back.     *)
remember_memory_Leaks(key, size) ==
    IF Rejected(size) THEN Drop(key)
    ELSE LET kept == Evict(Append(Without(key), [key |-> key, size |-> size]),
                           current_bytes + size)
         IN entries' = kept.entries /\ current_bytes' = kept.bytes /\ Uses(key)

remember_memory(key, size) ==
    IF Rejected(size) THEN Drop(key)
    ELSE LET kept == Evict(Append(Without(key), [key |-> key, size |-> size]),
                           current_bytes - SizeOf(key) + size)
         IN entries' = kept.entries /\ current_bytes' = kept.bytes /\ Uses(key)

-----------------------------------------------------------------------------
(* get_stored: a hit, or a miss that reads the store if there is one.      *)
Hit(key) ==
    /\ Holds(key)
    /\ entries' = move_to_end(key) /\ Uses(key)
    /\ UNCHANGED <<max_size, max_bytes, current_bytes, reading>>

Miss(c, key) ==
    /\ reading[c] = None /\ ~Holds(key)
    /\ reading' = [reading EXCEPT ![c] = key]
    /\ UNCHANGED <<max_size, max_bytes, entries, current_bytes, used>>

(* Nothing usable: a timeout, a failure, no, a corrupt or a refused entry. *)
ReadNothing(c) ==
    /\ reading[c] # None
    /\ reading' = [reading EXCEPT ![c] = None]
    /\ UNCHANGED <<max_size, max_bytes, entries, current_bytes, used>>

(* An entry of the store: one that was remembered meanwhile wins.          *)
ReadEntry(c, size) ==
    /\ reading[c] # None
    /\ IF Holds(reading[c])
       THEN /\ entries' = move_to_end(reading[c]) /\ Uses(reading[c])
            /\ UNCHANGED current_bytes
       ELSE remember_memory(reading[c], size)
    /\ reading' = [reading EXCEPT ![c] = None]
    /\ UNCHANGED <<max_size, max_bytes>>

(* store_entry, up to its write to the store.                              *)
Store(key, size) ==
    /\ remember_memory(key, size)
    /\ UNCHANGED <<max_size, max_bytes, reading>>

(* discard: the result for the key has credentials.                        *)
Discard(key) ==
    /\ Drop(key)
    /\ UNCHANGED <<max_size, max_bytes, reading>>

MemoryNext ==
    \/ \E key \in Keys : Hit(key) \/ Discard(key)
    \/ \E key \in Keys, size \in Sizes : Store(key, size)
    \/ \E c \in Tasks :
        \/ \E key \in Keys : Miss(c, key)
        \/ ReadNothing(c)
        \/ \E size \in Sizes : ReadEntry(c, size)

MemorySpec == MemoryInit /\ [][MemoryNext]_memoryVars

-----------------------------------------------------------------------------
(* Properties.                                                             *)

(* After any sequence of calls current_bytes is the size of what is held,  *)
(* and both limits hold: a leak would shrink the cache to nothing, the     *)
(* opposite unbound it.                                                    *)
MemoryIsBounded ==
    /\ current_bytes = Total(entries)
    /\ Len(entries) <= max_size
    /\ max_bytes > 0 => current_bytes <= max_bytes

(* However finds, stores, reads of the store, drops and evictions follow   *)
(* each other, what is held are the most recently used entries, in order.  *)
HoldsMostRecent == IsSuffix(KeysOf(entries), used)

(* A key that was used and is not held has been evicted.                   *)
Evicted == ToSet(used') \ ToSet(KeysOf(entries'))

(* Nothing is evicted needlessly: with the last entry evicted what a call  *)
(* leaves would exceed a limit.                                            *)
EvictsNoMore ==
    [][\A i \in DOMAIN entries :
        /\ entries[i].key \in Evicted
        /\ \A j \in DOMAIN entries : entries[j].key \in Evicted => j <= i
        => LET before == <<entries[i]>> \o entries'
           IN  Len(before) > max_size \/ (max_bytes > 0 /\ Total(before) > max_bytes)
      ]_memoryVars
=============================================================================
