----------------------- MODULE WarmCandidatesProofs ------------------------
(***************************************************************************)
(* Proofs about WarmCandidates for any requests, sizes, limits and times.  *)
(*                                                                         *)
(* The catalog is a sorted list cut at a limit.  The first part shows that *)
(* the ranking of a map's keys numbers them from 0 without gaps, so that   *)
(* Best(m, n) has n elements whenever there are n.  The second part shows  *)
(* of each operation on the catalog that it keeps GoodCatalog: sizes,      *)
(* disjointness and the order of the counts together, since a promotion    *)
(* keeps the order only because observations exist only beside a full      *)
(* catalog.                                                                *)
(***************************************************************************)
EXTENDS WarmCandidates, FiniteSetTheorems, TLAPS

-----------------------------------------------------------------------------
(* Maps and their ranking.                                                 *)

(* A map gives metrics to a finite set of fingerprints, and any function   *)
(* that does so is a map.                                                  *)
LEMMA MapShape ==
    ASSUME NEW m \in Maps
    PROVE  /\ m \in [DOMAIN m -> Metrics]
           /\ DOMAIN m \subseteq Fingerprints
           /\ IsFiniteSet(DOMAIN m) /\ Cardinality(DOMAIN m) \in Nat
<1>1. PICK F \in SUBSET Fingerprints : m \in [F -> Metrics]
    BY DEF Maps
<1>2. DOMAIN m = F
    BY <1>1
<1>3. IsFiniteSet(F) /\ Cardinality(F) \in Nat
    BY FS_Subset, FS_CardinalityType, WarmAssumption DEF WarmAssumption
<1>4. QED BY <1>1, <1>2, <1>3

LEMMA IsMap ==
    ASSUME NEW F \in SUBSET Fingerprints, NEW m \in [F -> Metrics]
    PROVE  m \in Maps /\ DOMAIN m = F
BY DEF Maps

LEMMA MetricsAreNumbers ==
    ASSUME NEW m \in Maps, NEW f \in DOMAIN m
    PROVE  /\ f \in Nat /\ m[f] \in Metrics
           /\ m[f].count \in Nat /\ m[f].last \in Nat /\ m[f].count >= 1
<1>1. m[f] \in Metrics /\ f \in Nat
    BY MapShape, WarmAssumption DEF WarmAssumption
<1>2. QED BY <1>1, WarmAssumption DEF Metrics, Times, WarmAssumption

(* The ranking is a strict total order in which the count comes first.     *)
LEMMA RankingOrder ==
    ASSUME NEW m \in Maps, NEW f \in DOMAIN m, NEW g \in DOMAIN m, NEW h \in DOMAIN m
    PROVE  /\ ~Above(m, f, f)
           /\ Above(m, f, g) => ~Above(m, g, f) /\ m[f].count >= m[g].count
           /\ Above(m, f, g) /\ Above(m, g, h) => Above(m, f, h)
           /\ f # g => Above(m, f, g) \/ Above(m, g, f)
<1>1. /\ f \in Nat /\ m[f].count \in Nat /\ m[f].last \in Nat
      /\ g \in Nat /\ m[g].count \in Nat /\ m[g].last \in Nat
      /\ h \in Nat /\ m[h].count \in Nat /\ m[h].last \in Nat
    BY MetricsAreNumbers
<1>2. QED BY <1>1 DEF Above, Outranks, Entry

Higher(m, f) == {g \in DOMAIN m : Above(m, g, f)}
Rank(m, f) == Cardinality(Higher(m, f))

LEMMA RankBounds ==
    ASSUME NEW m \in Maps, NEW f \in DOMAIN m
    PROVE  /\ Rank(m, f) \in 0..(Cardinality(DOMAIN m) - 1)
           /\ IsFiniteSet(Higher(m, f))
<1>1. Higher(m, f) \in SUBSET DOMAIN m /\ f \notin Higher(m, f)
    BY RankingOrder DEF Higher
<1>2. IsFiniteSet(DOMAIN m) /\ Cardinality(DOMAIN m) \in Nat
    BY MapShape
<1>3. /\ IsFiniteSet(Higher(m, f))
      /\ Cardinality(Higher(m, f)) <= Cardinality(DOMAIN m)
      /\ Cardinality(Higher(m, f)) # Cardinality(DOMAIN m)
    BY <1>1, <1>2, FS_Subset
<1>4. Cardinality(Higher(m, f)) \in Nat
    BY <1>3, FS_CardinalityType
<1>5. QED BY <1>2, <1>3, <1>4 DEF Rank

(* A fingerprint above another one has the smaller rank.                   *)
LEMMA RankFollowsOrder ==
    ASSUME NEW m \in Maps, NEW f \in DOMAIN m, NEW g \in DOMAIN m
    PROVE  Above(m, f, g) <=> Rank(m, f) < Rank(m, g)
<1>1. ASSUME NEW a \in DOMAIN m, NEW b \in DOMAIN m, Above(m, a, b)
      PROVE  Rank(m, a) < Rank(m, b)
  <2>1. Higher(m, a) \in SUBSET Higher(m, b)
      BY <1>1, RankingOrder DEF Higher
  <2>2. a \in Higher(m, b) /\ a \notin Higher(m, a)
      BY <1>1, RankingOrder DEF Higher
  <2>3. IsFiniteSet(Higher(m, b))
      BY RankBounds
  <2>4. /\ Cardinality(Higher(m, a)) <= Cardinality(Higher(m, b))
        /\ Cardinality(Higher(m, a)) # Cardinality(Higher(m, b))
      BY <2>1, <2>2, <2>3, FS_Subset
  <2>5. Rank(m, a) \in Nat /\ Rank(m, b) \in Nat
      BY RankBounds, MapShape
  <2>6. QED BY <2>4, <2>5 DEF Rank
<1>2. Rank(m, f) \in Nat /\ Rank(m, g) \in Nat
    BY RankBounds, MapShape
<1>3. CASE f = g
    BY <1>2, <1>3, RankingOrder
<1>4. CASE f # g
  <2>1. Above(m, f, g) \/ Above(m, g, f)
      BY <1>4, RankingOrder
  <2>2. QED BY <2>1, <1>1, <1>2
<1>5. QED BY <1>3, <1>4

(* Every rank below the size of the map is taken.                          *)
LEMMA RanksWithoutGaps ==
    ASSUME NEW m \in Maps, NEW r \in 0..(Cardinality(DOMAIN m) - 1)
    PROVE  \E f \in DOMAIN m : Rank(m, f) = r
<1> DEFINE N == Cardinality(DOMAIN m)
           R == [f \in DOMAIN m |-> Rank(m, f)]
<1>1. N \in Nat /\ IsFiniteSet(DOMAIN m)
    BY MapShape
<1>2. R \in [DOMAIN m -> 0..(N - 1)]
    BY RankBounds
<1>3. \A f, g \in DOMAIN m : R[f] = R[g] => f = g
  <2>1. SUFFICES ASSUME NEW f \in DOMAIN m, NEW g \in DOMAIN m, f # g
                 PROVE  Rank(m, f) # Rank(m, g)
      OBVIOUS
  <2>2. Above(m, f, g) \/ Above(m, g, f)
      BY <2>1, RankingOrder
  <2>3. Rank(m, f) \in Nat /\ Rank(m, g) \in Nat
      BY RankBounds, MapShape
  <2>4. QED BY <2>2, <2>3, RankFollowsOrder
<1>4. R \in Injection(DOMAIN m, 0..(N - 1))
    BY <1>2, <1>3 DEF Injection, IsInjective
<1>5. IsFiniteSet(0..(N - 1)) /\ Cardinality(0..(N - 1)) = N
    BY <1>1, FS_Interval
<1>6. R \in Surjection(DOMAIN m, 0..(N - 1))
    BY <1>4, <1>5, FS_Injection
<1>7. QED BY <1>6 DEF Surjection

(* Best(m, n) has n elements, or all if there are fewer.                   *)
LEMMA BestSize ==
    ASSUME NEW m \in Maps, NEW n \in Nat
    PROVE  /\ Best(m, n) \subseteq DOMAIN m /\ IsFiniteSet(Best(m, n))
           /\ Cardinality(DOMAIN m) <= n => Best(m, n) = DOMAIN m
           /\ Cardinality(DOMAIN m) > n => Cardinality(Best(m, n)) = n
<1> DEFINE N == Cardinality(DOMAIN m)
           B == Best(m, n)
           R == [f \in B |-> Rank(m, f)]
<1>1. B = {f \in DOMAIN m : Rank(m, f) < n}
    BY DEF Best, Rank, Higher
<1>2. N \in Nat /\ IsFiniteSet(DOMAIN m)
    BY MapShape
<1>3. IsFiniteSet(B)
    BY <1>1, <1>2, FS_Subset
<1>4. \A f \in DOMAIN m : Rank(m, f) \in 0..(N - 1)
    BY RankBounds
<1>5. N <= n => B = DOMAIN m
    BY <1>1, <1>2, <1>4
<1>6. ASSUME N > n PROVE Cardinality(B) = n
  <2>1. R \in [B -> 0..(n - 1)]
      BY <1>1, <1>4
  <2>2. \A r \in 0..(n - 1) : \E f \in B : R[f] = r
    <3>1. SUFFICES ASSUME NEW r \in 0..(n - 1) PROVE \E f \in B : R[f] = r
        OBVIOUS
    <3>2. r \in 0..(N - 1) /\ r < n
        BY <1>2, <1>6
    <3>3. PICK f \in DOMAIN m : Rank(m, f) = r
        BY <3>2, RanksWithoutGaps
    <3>4. QED BY <3>2, <3>3, <1>1
  <2>3. \A f, g \in B : R[f] = R[g] => f = g
    <3>1. SUFFICES ASSUME NEW f \in B, NEW g \in B, f # g PROVE Rank(m, f) # Rank(m, g)
        OBVIOUS
    <3>2. f \in DOMAIN m /\ g \in DOMAIN m
        BY <1>1
    <3>3. Above(m, f, g) \/ Above(m, g, f)
        BY <3>1, <3>2, RankingOrder
    <3>4. Rank(m, f) \in Nat /\ Rank(m, g) \in Nat
        BY <3>2, RankBounds, MapShape
    <3>5. QED BY <3>2, <3>3, <3>4, RankFollowsOrder
  <2>4. R \in Injection(B, 0..(n - 1)) /\ R \in Surjection(B, 0..(n - 1))
      BY <2>1, <2>2, <2>3 DEF Injection, IsInjective, Surjection
  <2>5. IsFiniteSet(0..(n - 1)) /\ Cardinality(0..(n - 1)) = n
      BY FS_Interval
  <2>6. QED BY <2>4, <2>5, FS_Injection
<1>7. QED BY <1>1, <1>3, <1>5, <1>6

(* What is not among the best has no higher count than what is.            *)
LEMMA BestOutrank ==
    ASSUME NEW m \in Maps, NEW n \in Nat,
           NEW f \in Best(m, n), NEW g \in DOMAIN m \ Best(m, n)
    PROVE  m[f].count >= m[g].count
<1>1. f \in DOMAIN m /\ g \in DOMAIN m /\ Rank(m, f) < n /\ ~(Rank(m, g) < n)
    BY DEF Best, Rank, Higher
<1>2. Rank(m, f) \in Nat /\ Rank(m, g) \in Nat
    BY <1>1, RankBounds, MapShape
<1>3. Above(m, f, g)
    BY <1>1, <1>2, RankFollowsOrder
<1>4. QED BY <1>1, <1>3, RankingOrder

(* Every other candidate is above the lowest one.                          *)
LEMMA LowestIsLast ==
    ASSUME NEW m \in Maps, DOMAIN m # {}
    PROVE  /\ Lowest(m) \in DOMAIN m
           /\ \A g \in DOMAIN m \ {Lowest(m)} :
                Above(m, g, Lowest(m)) /\ m[g].count >= m[Lowest(m)].count
<1> DEFINE N == Cardinality(DOMAIN m)
<1>1. N \in Nat /\ N # 0
    BY MapShape, FS_EmptySet
<1>2. PICK f \in DOMAIN m : Rank(m, f) = N - 1
    BY <1>1, RanksWithoutGaps
<1>3. ASSUME NEW g \in DOMAIN m \ {f} PROVE Above(m, g, f)
  <2>1. Rank(m, g) \in 0..(N - 1)
      BY RankBounds
  <2>2. ~(N - 1 < Rank(m, g))
      BY <1>1, <2>1
  <2>3. ~Above(m, f, g)
      BY <1>2, <2>2, RankFollowsOrder
  <2>4. QED BY <2>3, RankingOrder
<1>4. \E h \in DOMAIN m : \A g \in DOMAIN m \ {h} : Above(m, g, h)
    BY <1>3
<1>5. /\ Lowest(m) \in DOMAIN m
      /\ \A g \in DOMAIN m \ {Lowest(m)} : Above(m, g, Lowest(m))
    BY <1>4 DEF Lowest
<1>6. \A g \in DOMAIN m \ {Lowest(m)} : m[g].count >= m[Lowest(m)].count
    BY <1>5, RankingOrder
<1>7. QED BY <1>5, <1>6

-----------------------------------------------------------------------------
(* The operations on maps.                                                 *)

LEMMA RestrictedMap ==
    ASSUME NEW m \in Maps, NEW S \in SUBSET DOMAIN m
    PROVE  /\ Restrict(m, S) \in Maps /\ DOMAIN Restrict(m, S) = S
           /\ \A f \in S : Restrict(m, S)[f] = m[f]
<1>1. S \in SUBSET Fingerprints /\ Restrict(m, S) \in [S -> Metrics]
    BY MapShape DEF Restrict
<1>2. QED BY <1>1, IsMap DEF Restrict

LEMMA WithoutMap ==
    ASSUME NEW m \in Maps, NEW fs
    PROVE  /\ Without(m, fs) \in Maps /\ DOMAIN Without(m, fs) = DOMAIN m \ fs
           /\ \A f \in DOMAIN m \ fs : Without(m, fs)[f] = m[f]
BY RestrictedMap DEF Without

LEMMA JoinedMap ==
    ASSUME NEW m \in Maps, NEW n \in Maps
    PROVE  /\ Joined(m, n) \in Maps /\ DOMAIN Joined(m, n) = DOMAIN m \cup DOMAIN n
           /\ \A f \in DOMAIN n : Joined(m, n)[f] = n[f]
           /\ \A f \in DOMAIN m \ DOMAIN n : Joined(m, n)[f] = m[f]
<1>1. DOMAIN m \cup DOMAIN n \in SUBSET Fingerprints
    BY MapShape
<1>2. Joined(m, n) \in [DOMAIN m \cup DOMAIN n -> Metrics]
    BY MapShape DEF Joined
<1>3. QED BY <1>1, <1>2, IsMap DEF Joined

LEMMA WithMap ==
    ASSUME NEW m \in Maps, NEW f \in Fingerprints, NEW metrics \in Metrics
    PROVE  /\ With(m, f, metrics) \in Maps /\ DOMAIN With(m, f, metrics) = DOMAIN m \cup {f}
           /\ With(m, f, metrics)[f] = metrics
           /\ \A g \in DOMAIN m \ {f} : With(m, f, metrics)[g] = m[g]
<1>1. DOMAIN m \cup {f} \in SUBSET Fingerprints
    BY MapShape
<1>2. With(m, f, metrics) \in [DOMAIN m \cup {f} -> Metrics]
    BY MapShape DEF With
<1>3. QED BY <1>1, <1>2, IsMap DEF With

LEMMA EmptyMap ==
    /\ Empty \in Maps /\ DOMAIN Empty = {} /\ Cardinality(DOMAIN Empty) = 0
    /\ \A m \in Maps : DOMAIN m = {} <=> m = Empty
<1>1. DOMAIN Empty = {} /\ Empty \in [{} -> Metrics]
    BY DEF Empty
<1>2. Empty \in Maps
    BY <1>1, IsMap
<1>3. \A m \in Maps : DOMAIN m = {} => m = Empty
    BY MapShape DEF Empty
<1>4. QED BY <1>1, <1>2, <1>3, FS_EmptySet

-----------------------------------------------------------------------------
(* The operations on the catalog.                                          *)

Catalogs == [entries : Maps, observations : Maps]

(* What _rebalance is given: a catalog with free places and any number of  *)
(* observations, none of them requested more often than a candidate.       *)
Draft(c) ==
    /\ c \in Catalogs
    /\ Cardinality(DOMAIN c.entries) <= max_size
    /\ DOMAIN c.entries \cap DOMAIN c.observations = {}
    /\ \A f \in DOMAIN c.entries, g \in DOMAIN c.observations :
        c.entries[f].count >= c.observations[g].count

GoodCatalog(c) ==
    /\ Draft(c)
    /\ Cardinality(DOMAIN c.observations) <= max_size
    /\ DOMAIN c.observations # {} => Cardinality(DOMAIN c.entries) = max_size

(* No candidate is lost or changed by _rebalance, nothing is newly         *)
(* observed.                                                               *)
OnlyPromotes(c, d) ==
    /\ DOMAIN c.entries \subseteq DOMAIN d.entries
    /\ \A f \in DOMAIN c.entries : d.entries[f] = c.entries[f]
    /\ DOMAIN d.observations \subseteq DOMAIN c.observations
    /\ \A g \in DOMAIN d.observations : d.observations[g] = c.observations[g]

LEMMA RebalanceIsGood ==
    ASSUME NEW c, Draft(c)
    PROVE  GoodCatalog(Rebalance(c)) /\ OnlyPromotes(c, Rebalance(c))
<1> DEFINE n == Cardinality(DOMAIN c.entries)
           free == IF n < max_size THEN max_size - n ELSE 0
           best == Best(c.observations, free)
           promoted == Restrict(c.observations, best)
           others == Without(c.observations, DOMAIN promoted)
           newEntries == Joined(c.entries, promoted)
           kept == Best(others, max_size)
           newObservations == Restrict(others, kept)
           d == Rebalance(c)
<1>1. d = [entries |-> newEntries, observations |-> newObservations]
    BY DEF Rebalance
<1> HIDE DEF n, free, best, promoted, others, newEntries, kept, newObservations, d
<1>2. /\ c.entries \in Maps /\ c.observations \in Maps /\ Cardinality(DOMAIN c.entries) <= max_size
      /\ DOMAIN c.entries \cap DOMAIN c.observations = {}
      /\ \A f \in DOMAIN c.entries, g \in DOMAIN c.observations :
            c.entries[f].count >= c.observations[g].count
    BY DEF Draft, Catalogs
<1>3. n \in Nat /\ max_size \in Nat /\ free \in Nat /\ n + free = max_size
    BY <1>2, MapShape, WarmAssumption DEF n, free, WarmAssumption
<1>4. /\ best \subseteq DOMAIN c.observations /\ IsFiniteSet(best)
      /\ Cardinality(DOMAIN c.observations) <= free => best = DOMAIN c.observations
      /\ Cardinality(DOMAIN c.observations) > free => Cardinality(best) = free
    BY <1>2, <1>3, BestSize DEF best
<1>5. /\ promoted \in Maps /\ DOMAIN promoted = best
      /\ \A f \in best : promoted[f] = c.observations[f]
    BY <1>2, <1>4, RestrictedMap DEF promoted
<1>6. /\ others \in Maps /\ DOMAIN others = DOMAIN c.observations \ best
      /\ \A f \in DOMAIN others : others[f] = c.observations[f]
  <2>1. /\ others \in Maps /\ DOMAIN others = DOMAIN c.observations \ DOMAIN promoted
        /\ \A f \in DOMAIN c.observations \ DOMAIN promoted : others[f] = c.observations[f]
      BY <1>2, WithoutMap DEF others
  <2>2. QED BY <2>1, <1>5
<1>7. /\ newEntries \in Maps /\ DOMAIN newEntries = DOMAIN c.entries \cup best
      /\ \A f \in best : newEntries[f] = c.observations[f]
      /\ \A f \in DOMAIN c.entries : newEntries[f] = c.entries[f]
  <2>1. /\ newEntries \in Maps
        /\ DOMAIN newEntries = DOMAIN c.entries \cup DOMAIN promoted
        /\ \A f \in DOMAIN promoted : newEntries[f] = promoted[f]
        /\ \A f \in DOMAIN c.entries \ DOMAIN promoted : newEntries[f] = c.entries[f]
      BY <1>2, <1>5, JoinedMap DEF newEntries
  <2>2. QED BY <2>1, <1>2, <1>4, <1>5
<1>8. /\ kept \subseteq DOMAIN others /\ IsFiniteSet(kept)
      /\ Cardinality(DOMAIN others) <= max_size => kept = DOMAIN others
      /\ Cardinality(DOMAIN others) > max_size => Cardinality(kept) = max_size
    BY <1>3, <1>6, BestSize DEF kept
<1>9. /\ newObservations \in Maps /\ DOMAIN newObservations = kept
      /\ \A g \in kept : newObservations[g] = c.observations[g]
    BY <1>6, <1>8, RestrictedMap DEF newObservations
<1>10. /\ Cardinality(DOMAIN c.observations) \in Nat
       /\ Cardinality(DOMAIN others) \in Nat /\ IsFiniteSet(DOMAIN c.entries)
    BY <1>2, <1>6, MapShape
<1>11. Cardinality(DOMAIN newEntries) = n + Cardinality(best)
  <2>1. DOMAIN c.entries \cap best = {}
      BY <1>2, <1>4
  <2>2. Cardinality(best) \in Nat
      BY <1>4, FS_CardinalityType
  <2>3. Cardinality(DOMAIN c.entries \cup best) = n + Cardinality(best) - 0
      BY <2>1, <1>4, <1>10, FS_Union, FS_EmptySet DEF n
  <2>4. QED BY <2>2, <2>3, <1>3, <1>7
<1>12. Cardinality(best) \in Nat /\ Cardinality(best) <= free
    BY <1>3, <1>4, <1>10, FS_CardinalityType
<1>13. Cardinality(DOMAIN newEntries) <= max_size
    BY <1>3, <1>11, <1>12
<1>14. kept # {} => Cardinality(DOMAIN newEntries) = max_size
  <2>1. SUFFICES ASSUME kept # {} PROVE Cardinality(DOMAIN newEntries) = max_size
      OBVIOUS
  <2>2. best # DOMAIN c.observations
      BY <2>1, <1>6, <1>8
  <2>3. Cardinality(best) = free
      BY <2>2, <1>3, <1>4, <1>10
  <2>4. QED BY <2>3, <1>3, <1>11
<1>15. Cardinality(kept) <= max_size
    BY <1>3, <1>8, <1>10
<1>16. DOMAIN newEntries \cap kept = {}
    BY <1>2, <1>6, <1>7, <1>8
<1>17. ASSUME NEW f \in DOMAIN newEntries, NEW g \in kept
       PROVE  newEntries[f].count >= newObservations[g].count
  <2>1. g \in DOMAIN c.observations \ best /\ newObservations[g] = c.observations[g]
      BY <1>6, <1>8, <1>9
  <2>2. CASE f \in DOMAIN c.entries
      BY <2>1, <2>2, <1>2, <1>7
  <2>3. CASE f \in best
      BY <2>1, <2>3, <1>2, <1>3, <1>7, BestOutrank DEF best
  <2>4. QED BY <2>2, <2>3, <1>7
<1>18. d.entries = newEntries /\ d.observations = newObservations /\ d \in Catalogs
    BY <1>1, <1>7, <1>9 DEF Catalogs
<1>19. GoodCatalog(d)
    BY <1>9, <1>13, <1>14, <1>15, <1>16, <1>17, <1>18 DEF GoodCatalog, Draft
<1>20. OnlyPromotes(c, d)
    BY <1>6, <1>7, <1>8, <1>9, <1>18 DEF OnlyPromotes
<1>21. QED BY <1>19, <1>20 DEF d

LEMMA SmallerMap ==
    ASSUME NEW m \in Maps, NEW n \in Maps, DOMAIN n \subseteq DOMAIN m
    PROVE  Cardinality(DOMAIN n) <= Cardinality(DOMAIN m)
BY MapShape, FS_Subset

(* Dropping requests leaves something to rebalance.                        *)
LEMMA ThinnedIsDraft ==
    ASSUME NEW c, Draft(c), NEW fs, NEW gs
    PROVE  Draft([entries |-> Without(c.entries, fs),
                  observations |-> Without(c.observations, gs)])
<1> DEFINE e == Without(c.entries, fs)
           o == Without(c.observations, gs)
           d == [entries |-> e, observations |-> o]
<1>1. c.entries \in Maps /\ c.observations \in Maps
    BY DEF Draft, Catalogs
<1>2. /\ e \in Maps /\ DOMAIN e = DOMAIN c.entries \ fs
      /\ \A f \in DOMAIN c.entries \ fs : e[f] = c.entries[f]
    BY <1>1, WithoutMap
<1>3. /\ o \in Maps /\ DOMAIN o = DOMAIN c.observations \ gs
      /\ \A f \in DOMAIN c.observations \ gs : o[f] = c.observations[f]
    BY <1>1, WithoutMap
<1> HIDE DEF e, o
<1>4. Cardinality(DOMAIN e) <= Cardinality(DOMAIN c.entries)
    BY <1>1, <1>2, SmallerMap
<1>5. Cardinality(DOMAIN e) \in Nat /\ Cardinality(DOMAIN c.entries) \in Nat
    BY <1>1, <1>2, MapShape
<1>6. Cardinality(DOMAIN e) <= max_size
    BY <1>4, <1>5, WarmAssumption DEF WarmAssumption, Draft
<1>7. d \in Catalogs /\ d.entries = e /\ d.observations = o
    BY <1>2, <1>3 DEF Catalogs
<1>8. Draft(d)
    BY <1>2, <1>3, <1>6, <1>7 DEF Draft
<1>9. QED BY <1>8 DEF e, o

LEMMA PruneIsGood ==
    ASSUME NEW c, GoodCatalog(c), NEW now
    PROVE  /\ GoodCatalog(Prune(c, now))
           /\ DOMAIN Prune(c, now).observations \subseteq DOMAIN c.observations
           /\ \A g \in DOMAIN Prune(c, now).observations :
                Prune(c, now).observations[g] = c.observations[g]
           /\ \A f \in DOMAIN c.entries \ DOMAIN Prune(c, now).entries :
                f \in Expired(c.entries, now)
<1> DEFINE fs == Expired(c.entries, now)
           gs == Expired(c.observations, now)
           thin == [entries |-> Without(c.entries, fs),
                    observations |-> Without(c.observations, gs)]
<1>1. CASE fs \cup gs = {}
    BY <1>1 DEF Prune
<1>2. CASE fs \cup gs # {}
  <2>1. Prune(c, now) = Rebalance(thin)
      BY <1>2 DEF Prune
  <2>2. Draft(thin)
      BY ThinnedIsDraft DEF GoodCatalog
  <2>3. c.entries \in Maps /\ c.observations \in Maps
      BY DEF GoodCatalog, Draft, Catalogs
  <2>4. /\ DOMAIN thin.entries = DOMAIN c.entries \ fs
        /\ DOMAIN thin.observations = DOMAIN c.observations \ gs
        /\ \A g \in DOMAIN thin.observations : thin.observations[g] = c.observations[g]
    <3>1. /\ DOMAIN Without(c.entries, fs) = DOMAIN c.entries \ fs
          /\ DOMAIN Without(c.observations, gs) = DOMAIN c.observations \ gs
          /\ \A g \in DOMAIN c.observations \ gs :
                Without(c.observations, gs)[g] = c.observations[g]
      <4> HIDE DEF fs, gs
      <4>1. QED BY <2>3, WithoutMap
    <3>2. QED BY <3>1
  <2> HIDE DEF thin
  <2>5. GoodCatalog(Rebalance(thin)) /\ OnlyPromotes(thin, Rebalance(thin))
      BY <2>2, RebalanceIsGood
  <2>6. QED BY <2>1, <2>4, <2>5 DEF OnlyPromotes
<1>3. QED BY <1>1, <1>2

LEMMA DiscardIsGood ==
    ASSUME NEW c, GoodCatalog(c), NEW f
    PROVE  LET d == Rebalance([entries |-> Without(c.entries, {f}),
                               observations |-> Without(c.observations, {f})])
           IN  /\ GoodCatalog(d)
               /\ DOMAIN d.observations \subseteq DOMAIN c.observations
<1> DEFINE thin == [entries |-> Without(c.entries, {f}),
                    observations |-> Without(c.observations, {f})]
<1>1. Draft(thin)
    BY ThinnedIsDraft DEF GoodCatalog
<1>2. c.observations \in Maps
    BY DEF GoodCatalog, Draft, Catalogs
<1>3. DOMAIN thin.observations \subseteq DOMAIN c.observations
  <2>1. DOMAIN Without(c.observations, {f}) = DOMAIN c.observations \ {f}
      BY <1>2, WithoutMap
  <2>2. QED BY <2>1
<1> HIDE DEF thin
<1>4. GoodCatalog(Rebalance(thin)) /\ OnlyPromotes(thin, Rebalance(thin))
    BY <1>1, RebalanceIsGood
<1>5. GoodCatalog(Rebalance(thin))
      /\ DOMAIN Rebalance(thin).observations \subseteq DOMAIN c.observations
    BY <1>3, <1>4 DEF OnlyPromotes
<1>6. QED BY <1>5 DEF thin

(* An observation recorded again keeps the catalog in order, whether it    *)
(* trades places or not; what is observed for it is the lowest candidate.  *)
LEMMA PromoteIsGood ==
    ASSUME NEW c, GoodCatalog(c), NEW f \in DOMAIN c.observations,
           NEW metrics \in Metrics
    PROVE  LET d == Promote(c, f, metrics)
           IN  /\ GoodCatalog(d)
               /\ \A g \in DOMAIN d.observations \ DOMAIN c.observations :
                    /\ f \in DOMAIN d.entries /\ d.entries[f] = metrics
                    /\ metrics.count >= d.observations[g].count
<1> DEFINE low == Lowest(c.entries)
           cut == Without(c.entries, {low})
           e == With(cut, f, metrics)
           rest == Without(c.observations, {f})
           o == With(rest, low, c.entries[low])
           swapped == [entries |-> e, observations |-> o]
           seen == With(c.observations, f, metrics)
           outranks == Outranks(Entry(With(Empty, f, metrics), f), Entry(c.entries, low))
           d == Promote(c, f, metrics)
<1>1. d = IF outranks THEN Rebalance(swapped) ELSE [c EXCEPT !.observations = seen]
    BY DEF Promote
<1> HIDE DEF low, cut, e, rest, o, seen, outranks, d
<1>2. /\ c \in Catalogs /\ c.entries \in Maps /\ c.observations \in Maps
      /\ DOMAIN c.entries \cap DOMAIN c.observations = {}
      /\ \A a \in DOMAIN c.entries, g \in DOMAIN c.observations :
            c.entries[a].count >= c.observations[g].count
      /\ Cardinality(DOMAIN c.observations) <= max_size
      /\ Cardinality(DOMAIN c.entries) = max_size
    BY DEF GoodCatalog, Draft, Catalogs
<1>3. DOMAIN c.entries # {}
    BY <1>2, FS_EmptySet, WarmAssumption DEF WarmAssumption
<1>4. /\ low \in DOMAIN c.entries
      /\ \A a \in DOMAIN c.entries \ {low} : c.entries[a].count >= c.entries[low].count
    BY <1>2, <1>3, LowestIsLast DEF low
<1>5. /\ f \in Fingerprints /\ f \notin DOMAIN c.entries /\ f # low
      /\ low \in Fingerprints /\ c.entries[low] \in Metrics
    BY <1>2, <1>4, MapShape
<1>6. /\ metrics.count \in Nat
      /\ \A a \in DOMAIN c.entries : c.entries[a].count \in Nat
      /\ \A g \in DOMAIN c.observations : c.observations[g].count \in Nat
  <2>1. metrics.count \in Nat
      BY WarmAssumption DEF Metrics, WarmAssumption
  <2>2. QED BY <2>1, <1>2, MetricsAreNumbers
<1>7. outranks => metrics.count >= c.entries[low].count
  <2>1. With(Empty, f, metrics)[f] = metrics
      BY DEF With
  <2>2. QED BY <2>1, <1>4, <1>6 DEF outranks, Outranks, Entry
<1>8. ~outranks => c.entries[low].count >= metrics.count
  <2>1. With(Empty, f, metrics)[f] = metrics
      BY DEF With
  <2>2. QED BY <2>1, <1>4, <1>6 DEF outranks, Outranks, Entry
<1>9. CASE outranks
  <2>1. /\ cut \in Maps /\ DOMAIN cut = DOMAIN c.entries \ {low}
        /\ \A a \in DOMAIN c.entries \ {low} : cut[a] = c.entries[a]
      BY <1>2, WithoutMap DEF cut
  <2>2. /\ e \in Maps /\ DOMAIN e = (DOMAIN c.entries \ {low}) \cup {f} /\ e[f] = metrics
        /\ \A a \in DOMAIN c.entries \ {low} : e[a] = c.entries[a]
    <3>1. cut \in Maps /\ f \in Fingerprints
        BY <2>1, <1>5
    <3>2. /\ e \in Maps /\ DOMAIN e = DOMAIN cut \cup {f} /\ e[f] = metrics
          /\ \A a \in DOMAIN cut \ {f} : e[a] = cut[a]
        BY <3>1, WithMap DEF e
    <3>3. QED BY <3>2, <2>1, <1>5
  <2>3. /\ rest \in Maps /\ DOMAIN rest = DOMAIN c.observations \ {f}
        /\ \A g \in DOMAIN c.observations \ {f} : rest[g] = c.observations[g]
      BY <1>2, WithoutMap DEF rest
  <2>4. /\ o \in Maps /\ DOMAIN o = (DOMAIN c.observations \ {f}) \cup {low}
        /\ o[low] = c.entries[low]
        /\ \A g \in DOMAIN c.observations \ {f} : o[g] = c.observations[g]
    <3>1. /\ o \in Maps /\ DOMAIN o = DOMAIN rest \cup {low} /\ o[low] = c.entries[low]
          /\ \A g \in DOMAIN rest \ {low} : o[g] = rest[g]
        BY <2>3, <1>5, WithMap DEF o
    <3>2. low \notin DOMAIN c.observations
        BY <1>2, <1>4
    <3>3. QED BY <3>1, <3>2, <2>3
  <2>5. Cardinality(DOMAIN e) = max_size
    <3>1. IsFiniteSet(DOMAIN c.entries) /\ max_size \in Nat
        BY <1>2, MapShape
    <3>2. /\ IsFiniteSet(DOMAIN c.entries \ {low})
          /\ Cardinality(DOMAIN c.entries \ {low}) = max_size - 1
        BY <3>1, <1>2, <1>4, FS_RemoveElement
    <3>3. f \notin DOMAIN c.entries \ {low}
        BY <1>5
    <3>4. Cardinality((DOMAIN c.entries \ {low}) \cup {f}) = (max_size - 1) + 1
        BY <3>2, <3>3, FS_AddElement
    <3>5. QED BY <3>1, <3>4, <2>2
  <2>6. \A a \in DOMAIN e, g \in DOMAIN o : e[a].count >= o[g].count
    <3>1. SUFFICES ASSUME NEW a \in DOMAIN e, NEW g \in DOMAIN o
                   PROVE  e[a].count >= o[g].count
        OBVIOUS
    <3>2. /\ c.entries[low].count >= o[g].count
          /\ o[g].count \in Nat
        BY <2>4, <1>2, <1>4, <1>6
    <3>3. e[a].count >= c.entries[low].count /\ e[a].count \in Nat
        BY <2>2, <1>4, <1>6, <1>7, <1>9
    <3>4. QED BY <3>2, <3>3, <1>4, <1>6
  <2>7. DOMAIN e \cap DOMAIN o = {}
      BY <2>2, <2>4, <1>2, <1>5
  <2>8. Cardinality(DOMAIN e) <= max_size
      BY <2>5, WarmAssumption DEF WarmAssumption
  <2>9. /\ swapped.entries = e /\ swapped.observations = o /\ swapped \in Catalogs
      BY <2>2, <2>4 DEF Catalogs
  <2>10. Draft(swapped)
      BY <2>6, <2>7, <2>8, <2>9 DEF Draft
  <2> HIDE DEF swapped
  <2>11. GoodCatalog(Rebalance(swapped)) /\ OnlyPromotes(swapped, Rebalance(swapped))
      BY <2>10, RebalanceIsGood
  <2>12. d = Rebalance(swapped)
      BY <1>1, <1>9
  <2>13. f \in DOMAIN d.entries /\ d.entries[f] = metrics
      BY <2>2, <2>9, <2>11, <2>12 DEF OnlyPromotes
  <2>14. ASSUME NEW g \in DOMAIN d.observations \ DOMAIN c.observations
         PROVE  metrics.count >= d.observations[g].count
    <3>1. g \in DOMAIN o /\ d.observations[g] = o[g]
        BY <2>9, <2>11, <2>12 DEF OnlyPromotes
    <3>2. g = low
        BY <3>1, <2>4
    <3>3. QED BY <3>1, <3>2, <2>4, <1>7, <1>9
  <2>15. QED BY <2>11, <2>12, <2>13, <2>14 DEF d
<1>10. CASE ~outranks
  <2>1. /\ seen \in Maps /\ DOMAIN seen = DOMAIN c.observations /\ seen[f] = metrics
        /\ \A g \in DOMAIN c.observations \ {f} : seen[g] = c.observations[g]
    <3>1. DOMAIN c.observations \cup {f} = DOMAIN c.observations
        OBVIOUS
    <3>2. c.observations \in Maps /\ f \in Fingerprints
        BY <1>2, <1>5
    <3>3. /\ seen \in Maps /\ DOMAIN seen = DOMAIN c.observations \cup {f} /\ seen[f] = metrics
          /\ \A g \in DOMAIN c.observations \ {f} : seen[g] = c.observations[g]
        BY <3>2, WithMap DEF seen
    <3>4. QED BY <3>1, <3>3
  <2>2. d = [c EXCEPT !.observations = seen]
      BY <1>1, <1>10
  <2>3. d \in Catalogs /\ d.entries = c.entries /\ d.observations = seen
      BY <2>1, <2>2, <1>2 DEF Catalogs
  <2>4. \A a \in DOMAIN c.entries : c.entries[a].count >= metrics.count
      BY <1>4, <1>6, <1>8, <1>10
  <2>5. \A a \in DOMAIN c.entries, g \in DOMAIN seen : c.entries[a].count >= seen[g].count
      BY <2>1, <2>4, <1>2
  <2>6. GoodCatalog(d)
      BY <2>1, <2>3, <2>5, <1>2, WarmAssumption DEF GoodCatalog, Draft, WarmAssumption
  <2>7. QED BY <2>1, <2>3, <2>6 DEF d
<1>11. QED BY <1>9, <1>10

(* One more request never lowers the count, and makes it at least 2.       *)
LEMMA TouchedCounts ==
    ASSUME NEW metrics \in Metrics, NEW now \in Times
    PROVE  /\ Touched(metrics, now) \in Metrics
           /\ metrics.count \in Nat /\ Touched(metrics, now).count \in Nat
           /\ Touched(metrics, now).count >= metrics.count
           /\ Touched(metrics, now).count > 1
<1>1. MaxRequests \in Nat /\ MaxRequests > 1
    BY WarmAssumption DEF WarmAssumption
<1>2. metrics.count \in 1..MaxRequests
    BY DEF Metrics
<1>3. /\ Touched(metrics, now).count \in 1..MaxRequests
      /\ Touched(metrics, now).count >= metrics.count
      /\ Touched(metrics, now).count > 1
      /\ Touched(metrics, now).last = now
    BY <1>1, <1>2 DEF Touched
<1>4. Touched(metrics, now) \in Metrics
    BY <1>3 DEF Touched, Metrics
<1>5. QED BY <1>1, <1>2, <1>3, <1>4

(* While there is room, nothing is observed: the request, known or not,    *)
(* goes to the catalog.                                                    *)
LEMMA EntryIsGood ==
    ASSUME NEW c, GoodCatalog(c), NEW f \in Fingerprints, NEW metrics \in Metrics,
           IF f \in DOMAIN c.entries THEN metrics.count >= c.entries[f].count
           ELSE Cardinality(DOMAIN c.entries) < max_size
    PROVE  LET d == [c EXCEPT !.entries = With(@, f, metrics)]
           IN  GoodCatalog(d) /\ d.observations = c.observations
<1> DEFINE e == With(c.entries, f, metrics)
           d == [c EXCEPT !.entries = e]
<1>1. /\ c \in Catalogs /\ c.entries \in Maps /\ c.observations \in Maps
      /\ DOMAIN c.entries \cap DOMAIN c.observations = {}
      /\ \A a \in DOMAIN c.entries, g \in DOMAIN c.observations :
            c.entries[a].count >= c.observations[g].count
      /\ Cardinality(DOMAIN c.entries) <= max_size
      /\ Cardinality(DOMAIN c.observations) <= max_size
      /\ DOMAIN c.observations # {} => Cardinality(DOMAIN c.entries) = max_size
    BY DEF GoodCatalog, Draft, Catalogs
<1>2. /\ e \in Maps /\ DOMAIN e = DOMAIN c.entries \cup {f} /\ e[f] = metrics
      /\ \A a \in DOMAIN c.entries \ {f} : e[a] = c.entries[a]
  <2>1. c.entries \in Maps
      BY <1>1
  <2>2. QED BY <2>1, WithMap
<1> HIDE DEF e
<1>3. d \in Catalogs /\ d.entries = e /\ d.observations = c.observations
    BY <1>1, <1>2 DEF Catalogs
<1>4. /\ Cardinality(DOMAIN c.entries) \in Nat /\ IsFiniteSet(DOMAIN c.entries)
      /\ max_size \in Nat
    BY <1>1, MapShape, WarmAssumption DEF WarmAssumption
<1>5. CASE f \in DOMAIN c.entries
  <2>1. DOMAIN e = DOMAIN c.entries
      BY <1>2, <1>5
  <2>2. metrics.count \in Nat
      BY WarmAssumption DEF Metrics, WarmAssumption
  <2>3. ASSUME NEW a \in DOMAIN c.entries, NEW g \in DOMAIN c.observations
        PROVE  e[a].count >= c.observations[g].count
    <3>1. e[a].count >= c.entries[a].count /\ e[a].count \in Nat
        BY <1>1, <1>2, <1>5, <2>2, MetricsAreNumbers
    <3>2. c.entries[a].count \in Nat /\ c.observations[g].count \in Nat
        BY <1>1, MetricsAreNumbers
    <3>3. QED BY <3>1, <3>2, <1>1
  <2>4. Draft(d)
      BY <2>1, <2>3, <1>1, <1>3 DEF Draft
  <2>5. GoodCatalog(d)
      BY <2>1, <2>4, <1>1, <1>3 DEF GoodCatalog
  <2>6. QED BY <2>5, <1>3 DEF e
<1>6. CASE f \notin DOMAIN c.entries
  <2>1. DOMAIN c.observations = {}
      BY <1>1, <1>4, <1>6
  <2>2. Cardinality(DOMAIN e) = Cardinality(DOMAIN c.entries) + 1
      BY <1>2, <1>4, <1>6, FS_AddElement
  <2>3. Cardinality(DOMAIN e) <= max_size
      BY <2>2, <1>4, <1>6
  <2>4. Draft(d)
      BY <2>1, <2>3, <1>3 DEF Draft
  <2>5. GoodCatalog(d)
      BY <2>1, <2>4, <1>1, <1>3 DEF GoodCatalog
  <2>6. QED BY <2>5, <1>3 DEF e
<1>7. QED BY <1>5, <1>6

(* A request becomes an observation when one that was observed has been    *)
(* made again and takes its place, or when it is new to a full catalog.    *)
Displaced(c, d, f, g) ==
    /\ f \in DOMAIN c.observations /\ f \in DOMAIN d.entries
    /\ d.entries[f].count > 1
    /\ d.entries[f].count >= d.observations[g].count

NewlyObserved(c, d, f, g, now) ==
    g = f /\ g \notin DOMAIN c.entries /\ d.observations[g].last = now

LEMMA RecordedIsGood ==
    ASSUME NEW c, GoodCatalog(c), NEW f \in Fingerprints, NEW now \in Times
    PROVE  LET d == Recorded(c, f, now)
           IN  /\ GoodCatalog(d)
               /\ \A g \in DOMAIN d.observations \ DOMAIN c.observations :
                    Displaced(c, d, f, g) \/ NewlyObserved(c, d, f, g, now)
<1> DEFINE first == [count |-> 1, last |-> now]
           room == Cardinality(DOMAIN c.entries) < max_size
           d == Recorded(c, f, now)
<1>1. /\ c \in Catalogs /\ c.entries \in Maps /\ c.observations \in Maps
      /\ DOMAIN c.entries \cap DOMAIN c.observations = {}
      /\ Cardinality(DOMAIN c.entries) <= max_size
      /\ DOMAIN c.observations # {} => Cardinality(DOMAIN c.entries) = max_size
    BY DEF GoodCatalog, Draft, Catalogs
<1>2. first \in Metrics /\ first.count = 1 /\ first.last = now
    BY WarmAssumption DEF Metrics, WarmAssumption
<1>3. Cardinality(DOMAIN c.entries) \in Nat /\ max_size \in Nat
    BY <1>1, MapShape, WarmAssumption DEF WarmAssumption
<1>4. CASE f \in DOMAIN c.entries
  <2> DEFINE touched == Touched(c.entries[f], now)
  <2>1. d = [c EXCEPT !.entries = With(@, f, touched)]
      BY <1>4 DEF Recorded
  <2>2. c.entries[f] \in Metrics
      BY <1>1, <1>4, MapShape
  <2>3. touched \in Metrics /\ touched.count >= c.entries[f].count
      BY <2>2, TouchedCounts
  <2> HIDE DEF touched, d
  <2>4. GoodCatalog(d) /\ d.observations = c.observations
      BY <2>1, <2>3, <1>4, EntryIsGood
  <2>5. QED BY <2>4 DEF d
<1>5. CASE f \in DOMAIN c.observations /\ f \notin DOMAIN c.entries
  <2> DEFINE again == Touched(c.observations[f], now)
  <2>1. ~room
      BY <1>1, <1>3, <1>5
  <2>2. d = Promote(c, f, again)
      BY <1>5, <2>1 DEF Recorded
  <2>3. c.observations[f] \in Metrics
      BY <1>1, <1>5, MapShape
  <2>4. again \in Metrics /\ again.count > 1
      BY <2>3, TouchedCounts
  <2> HIDE DEF again, d
  <2>5. /\ GoodCatalog(d)
        /\ \A g \in DOMAIN d.observations \ DOMAIN c.observations :
            /\ f \in DOMAIN d.entries /\ d.entries[f] = again
            /\ again.count >= d.observations[g].count
      BY <2>2, <2>4, <1>5, PromoteIsGood
  <2>6. \A g \in DOMAIN d.observations \ DOMAIN c.observations : Displaced(c, d, f, g)
      BY <2>4, <2>5, <1>5 DEF Displaced
  <2>7. QED BY <2>5, <2>6 DEF d
<1>6. CASE f \notin DOMAIN c.observations /\ f \notin DOMAIN c.entries
  <2>1. CASE room
    <3>1. d = [c EXCEPT !.entries = With(@, f, first)]
        BY <1>6, <2>1 DEF Recorded
    <3> HIDE DEF d, first
    <3>2. GoodCatalog(d) /\ d.observations = c.observations
        BY <3>1, <2>1, <1>2, <1>6, EntryIsGood
    <3>3. QED BY <3>2 DEF d
  <2>2. CASE ~room
    <3> DEFINE o == With(c.observations, f, first)
               wider == [c EXCEPT !.observations = o]
    <3>1. d = Rebalance(wider)
        BY <1>6, <2>2 DEF Recorded
    <3> HIDE DEF d, first, o
    <3>2. /\ o \in Maps /\ DOMAIN o = DOMAIN c.observations \cup {f} /\ o[f] = first
          /\ \A g \in DOMAIN c.observations \ {f} : o[g] = c.observations[g]
      <4>1. c.observations \in Maps
          BY <1>1
      <4>2. QED BY <4>1, <1>2, WithMap DEF o
    <3>3. wider \in Catalogs /\ wider.entries = c.entries /\ wider.observations = o
        BY <3>2, <1>1 DEF Catalogs
    <3> HIDE DEF wider
    <3>4. \A a \in DOMAIN c.entries, g \in DOMAIN o : c.entries[a].count >= o[g].count
      <4>1. \A a \in DOMAIN c.entries : c.entries[a].count >= first.count
          BY <1>1, <1>2, MetricsAreNumbers
      <4>2. \A a \in DOMAIN c.entries, g \in DOMAIN c.observations :
                c.entries[a].count >= c.observations[g].count
          BY DEF GoodCatalog, Draft
      <4>3. QED BY <4>1, <4>2, <3>2
    <3>5. Draft(wider)
        BY <3>2, <3>3, <3>4, <1>1, <1>6 DEF Draft
    <3>6. GoodCatalog(d) /\ OnlyPromotes(wider, d)
        BY <3>1, <3>5, RebalanceIsGood
    <3>7. ASSUME NEW g \in DOMAIN d.observations \ DOMAIN c.observations
          PROVE  NewlyObserved(c, d, f, g, now)
      <4>1. g \in DOMAIN o /\ d.observations[g] = o[g]
          BY <3>3, <3>6 DEF OnlyPromotes
      <4>2. g = f
          BY <4>1, <3>2
      <4>3. QED BY <4>1, <4>2, <3>2, <1>2, <1>6 DEF NewlyObserved
    <3>8. QED BY <3>6, <3>7 DEF d
  <2>3. QED BY <2>1, <2>2
<1>7. QED BY <1>4, <1>5, <1>6

LEMMA AdmittedAreMap ==
    ASSUME NEW payload \in Payloads, NEW now \in Times
    PROVE  ByFingerprint(Admitted(payload, now)) \in Maps
<1> DEFINE es == Admitted(payload, now)
           F == {e.fingerprint : e \in es}
           m == ByFingerprint(es)
<1>1. \A e \in es : /\ e \in [fingerprint : Fingerprints, count : 0..(MaxRequests + 1), last : Times]
                    /\ e.count \in 1..MaxRequests
    BY DEF Admitted, Valid, Payloads
<1> HIDE DEF es
<1>2. F \in SUBSET Fingerprints
    BY <1>1
<1>3. ASSUME NEW f \in F PROVE m[f] \in Metrics
  <2> DEFINE e == CHOOSE e \in es : e.fingerprint = f
  <2>1. e \in es
      BY <1>3
  <2>2. m[f] = [count |-> e.count, last |-> e.last]
      BY <1>3 DEF ByFingerprint
  <2> HIDE DEF e
  <2>3. QED BY <2>1, <2>2, <1>1 DEF Metrics
<1>4. m = [f \in F |-> m[f]]
    BY DEF ByFingerprint
<1> HIDE DEF m
<1>5. m \in [F -> Metrics]
    BY <1>3, <1>4
<1> HIDE DEF F
<1>6. m \in Maps
    BY <1>2, <1>5, IsMap
<1>7. QED BY <1>6 DEF m, es

(* Whatever the store held, what is loaded of it is a catalog in order.    *)
LEMMA LoadedIsGood ==
    ASSUME NEW payload \in Payloads, NEW now \in Times
    PROVE  GoodCatalog(Loaded(payload, now))
<1> DEFINE m == ByFingerprint(Admitted(payload, now))
           best == Best(m, max_size)
           top == Restrict(m, best)
           rest == Without(m, DOMAIN top)
           c == [entries |-> top, observations |-> rest]
<1>1. Loaded(payload, now) = Rebalance(c)
    BY DEF Loaded
<1>2. m \in Maps
    BY AdmittedAreMap
<1> HIDE DEF m, best, top, rest
<1>3. max_size \in Nat
    BY WarmAssumption DEF WarmAssumption
<1>4. /\ best \subseteq DOMAIN m /\ IsFiniteSet(best)
      /\ Cardinality(DOMAIN m) <= max_size => best = DOMAIN m
      /\ Cardinality(DOMAIN m) > max_size => Cardinality(best) = max_size
    BY <1>2, <1>3, BestSize DEF best
<1>5. /\ top \in Maps /\ DOMAIN top = best /\ \A f \in best : top[f] = m[f]
    BY <1>2, <1>4, RestrictedMap DEF top
<1>6. /\ rest \in Maps /\ DOMAIN rest = DOMAIN m \ best
      /\ \A f \in DOMAIN rest : rest[f] = m[f]
  <2>1. /\ rest \in Maps /\ DOMAIN rest = DOMAIN m \ DOMAIN top
        /\ \A f \in DOMAIN m \ DOMAIN top : rest[f] = m[f]
      BY <1>2, WithoutMap DEF rest
  <2>2. QED BY <2>1, <1>5
<1>7. Cardinality(DOMAIN top) <= max_size
    BY <1>2, <1>3, <1>4, <1>5, MapShape
<1>8. \A f \in DOMAIN top, g \in DOMAIN rest : top[f].count >= rest[g].count
  <2>1. SUFFICES ASSUME NEW f \in best, NEW g \in DOMAIN m \ best
                 PROVE  m[f].count >= m[g].count
      BY <1>5, <1>6
  <2>2. QED BY <1>2, <1>3, BestOutrank DEF best
<1>9. c \in Catalogs /\ c.entries = top /\ c.observations = rest
    BY <1>5, <1>6 DEF Catalogs
<1>10. Draft(c)
    BY <1>5, <1>6, <1>7, <1>8, <1>9 DEF Draft
<1> HIDE DEF c
<1>11. QED BY <1>1, <1>10, RebalanceIsGood

LEMMA PayloadType ==
    ASSUME NEW c \in Catalogs
    PROVE  Payload(c) \in Payloads
<1>1. ASSUME NEW m \in Maps, NEW f \in DOMAIN m
      PROVE  Entry(m, f) \in [fingerprint : Fingerprints, count : 0..(MaxRequests + 1), last : Times]
  <2>1. m[f] \in Metrics /\ f \in Fingerprints
      BY MapShape
  <2>2. m[f].count \in 0..(MaxRequests + 1)
      BY <2>1, WarmAssumption DEF Metrics, WarmAssumption
  <2>3. QED BY <2>1, <2>2 DEF Entry, Metrics
<1>2. c.entries \in Maps /\ c.observations \in Maps
    BY DEF Catalogs
<1>3. QED BY <1>1, <1>2 DEF Payload, Payloads

-----------------------------------------------------------------------------
(* The invariant.                                                          *)

(* Nothing is recorded before the catalog has been loaded.                 *)
NothingBeforeLoad ==
    phase = "starting" =>
        /\ entries = Empty /\ observations = Empty
        /\ generation = 0 /\ persisted_generation = 0
        /\ saving = None

(* A checkpoint under way is of a generation not yet persisted, and as     *)
(* long as that is the current one, of the current catalog.                *)
Generations ==
    /\ persisted_generation <= generation
    /\ saving # None =>
        /\ persisted_generation < saving.generation
        /\ saving.generation <= generation
        /\ generation = saving.generation => saving.payload = Payload(catalog)

WarmInv ==
    /\ TypeOK
    /\ GoodCatalog(catalog)
    /\ NothingBeforeLoad
    /\ Generations
    /\ PersistedIsStored

LEMMA EmptyIsGood ==
    Empty \in Maps /\ GoodCatalog([entries |-> Empty, observations |-> Empty])
BY EmptyMap, WarmAssumption DEF WarmAssumption, GoodCatalog, Draft, Catalogs

LEMMA InitInv == Init => WarmInv
<1>1. SUFFICES ASSUME Init PROVE WarmInv
    OBVIOUS
<1>2. entries \in Maps /\ observations \in Maps /\ GoodCatalog(catalog)
    BY <1>1, EmptyIsGood DEF Init, catalog
<1>3. TypeOK
    BY <1>1, <1>2, WarmAssumption DEF Init, TypeOK, WarmAssumption
<1>4. NothingBeforeLoad /\ Generations /\ PersistedIsStored
    BY <1>1 DEF Init, NothingBeforeLoad, Generations, PersistedIsStored
<1>5. QED BY <1>2, <1>3, <1>4 DEF WarmInv

LEMMA BecomesCatalog ==
    ASSUME NEW c, GoodCatalog(c), Becomes(c)
    PROVE  catalog' = c /\ entries' \in Maps /\ observations' \in Maps
<1>1. c \in Catalogs /\ entries' = c.entries /\ observations' = c.observations
    BY DEF GoodCatalog, Draft, Becomes
<1>2. c = [entries |-> c.entries, observations |-> c.observations]
    BY <1>1 DEF Catalogs
<1>3. QED BY <1>1, <1>2 DEF catalog, Catalogs

(* What an action that changes the catalog has to establish.               *)
LEMMA CatalogChanges ==
    ASSUME WarmInv, phase = "serving", NEW c, GoodCatalog(c), Becomes(c), Changes,
           UNCHANGED <<phase, persisted_generation, saving, storeVars>>
    PROVE  WarmInv'
<1>1. catalog' = c /\ entries' \in Maps /\ observations' \in Maps
    BY BecomesCatalog
<1>2. generation \in Nat /\ generation' \in 0..(MaxGeneration + 1)
      /\ generation' = generation + 1 /\ persisted_generation \in Nat
      /\ (saving # None => saving.generation \in Nat)
    BY WarmAssumption DEF WarmInv, TypeOK, Changes, WarmAssumption
<1>3. TypeOK'
    BY <1>1, <1>2 DEF WarmInv, TypeOK, storeVars
<1>4. GoodCatalog(catalog)'
    BY <1>1
<1>5. NothingBeforeLoad'
    BY DEF NothingBeforeLoad
<1>6. persisted_generation' < generation'
      /\ (saving' # None => saving'.generation < generation')
    BY <1>2 DEF WarmInv, Generations
<1>7. Generations'
    BY <1>2, <1>6 DEF WarmInv, Generations
<1>8. PersistedIsStored'
    BY <1>2, <1>6 DEF PersistedIsStored
<1>9. QED BY <1>3, <1>4, <1>5, <1>7, <1>8 DEF WarmInv

LEMMA CatalogSteps ==
    ASSUME WarmInv,
           \/ \E now \in Times : List(now) \/ \E f \in Fingerprints : Record(f, now)
           \/ \E f \in Fingerprints : Discard(f)
    PROVE  WarmInv'
<1>1. GoodCatalog(catalog)
    BY DEF WarmInv
<1>2. ASSUME NEW now \in Times, List(now) PROVE WarmInv'
  <2>1. GoodCatalog(Prune(catalog, now))
      BY <1>1, PruneIsGood
  <2>2. QED BY <1>2, <2>1, CatalogChanges DEF List
<1>3. ASSUME NEW now \in Times, NEW f \in Fingerprints, Record(f, now) PROVE WarmInv'
  <2>1. GoodCatalog(Prune(catalog, now))
      BY <1>1, PruneIsGood
  <2>2. GoodCatalog(Recorded(Prune(catalog, now), f, now))
      BY <2>1, RecordedIsGood
  <2>3. QED BY <1>3, <2>2, CatalogChanges DEF Record
<1>4. ASSUME NEW f \in Fingerprints, Discard(f) PROVE WarmInv'
  <2> DEFINE d == Rebalance([entries |-> Without(entries, {f}),
                             observations |-> Without(observations, {f})])
  <2>1. catalog.entries = entries /\ catalog.observations = observations
      BY DEF catalog
  <2>2. GoodCatalog(d)
      BY <1>1, <2>1, DiscardIsGood
  <2>3. /\ phase = "serving" /\ Becomes(d) /\ Changes
        /\ UNCHANGED <<phase, persisted_generation, saving, storeVars>>
      BY <1>4 DEF Discard
  <2> HIDE DEF d
  <2>4. QED BY <2>2, <2>3, CatalogChanges
<1>5. QED BY <1>2, <1>3, <1>4

LEMMA CheckpointStep ==
    ASSUME WarmInv, NEW now \in Times, Checkpoint(now)
    PROVE  WarmInv'
<1> DEFINE c == Prune(catalog, now)
<1>1. GoodCatalog(c)
    BY PruneIsGood DEF WarmInv
<1>2. /\ Becomes(c) /\ saving = None /\ phase \in {"serving", "closing"}
      /\ IF c # catalog THEN Changes ELSE UNCHANGED generation
      /\ saving' = IF generation' = persisted_generation THEN None
                   ELSE [generation |-> generation', payload |-> Payload(c)]
      /\ UNCHANGED <<phase, persisted_generation, storeVars>>
    BY DEF Checkpoint
<1> HIDE DEF c
<1>3. catalog' = c /\ entries' \in Maps /\ observations' \in Maps
    BY <1>1, <1>2, BecomesCatalog
<1>4. Payload(c) \in Payloads
    BY <1>1, PayloadType DEF GoodCatalog, Draft
<1>5. /\ generation \in 0..(MaxGeneration + 1) /\ persisted_generation \in 0..(MaxGeneration + 1)
      /\ generation' \in 0..(MaxGeneration + 1)
      /\ persisted_generation <= generation /\ generation <= generation'
      /\ c # catalog => generation' = generation + 1
      /\ c = catalog => generation' = generation
    BY <1>2, WarmAssumption DEF WarmInv, TypeOK, Generations, Changes, WarmAssumption
<1>6. saving' \in [generation : 0..(MaxGeneration + 1), payload : Payloads] \cup {None}
    BY <1>2, <1>4, <1>5
<1>7. TypeOK'
    BY <1>2, <1>3, <1>5, <1>6 DEF WarmInv, TypeOK, storeVars
<1>8. Generations'
  <2>1. saving' # None =>
          /\ generation' # persisted_generation
          /\ saving'.generation = generation' /\ saving'.payload = Payload(c)
      BY <1>2
  <2>2. persisted_generation' = persisted_generation
      BY <1>2
  <2>3. MaxGeneration \in Nat
      BY WarmAssumption DEF WarmAssumption
  <2>4. QED BY <2>1, <2>2, <2>3, <1>3, <1>5 DEF Generations
<1>9. PersistedIsStored'
  <2>1. SUFFICES ASSUME persisted_generation > 0, generation' = persisted_generation
                 PROVE  stored' = Payload(catalog') /\ late' = None
      BY <1>2 DEF PersistedIsStored
  <2>2. generation' = generation /\ c = catalog
      BY <2>1, <1>5
  <2>3. stored = Payload(catalog) /\ late = None
      BY <2>1, <2>2 DEF WarmInv, PersistedIsStored
  <2>4. QED BY <2>2, <2>3, <1>2, <1>3 DEF storeVars
<1>10. NothingBeforeLoad'
    BY <1>2 DEF NothingBeforeLoad
<1>11. QED BY <1>1, <1>3, <1>7, <1>8, <1>9, <1>10 DEF WarmInv

(* The steps of the write.                                                 *)
LEMMA WriteSteps ==
    ASSUME WarmInv, Saved \/ NotSaved \/ LateWrite
    PROVE  WarmInv'
<1> USE WarmAssumption DEF WarmInv
<1>1. CASE Saved
  <2>1. /\ saving # None /\ saving.generation \in Nat /\ saving.payload \in Payloads
        /\ generation \in 0..(MaxGeneration + 1)
        /\ persisted_generation \in 0..(MaxGeneration + 1)
      BY <1>1 DEF Saved, TypeOK
  <2>2. /\ persisted_generation < saving.generation /\ saving.generation <= generation
        /\ generation = saving.generation => saving.payload = Payload(catalog)
      BY <2>1 DEF Generations
  <2>3. /\ stored' = saving.payload /\ late' = None /\ saving' = None
        /\ persisted_generation' =
             IF generation = saving.generation THEN generation ELSE persisted_generation
        /\ UNCHANGED <<phase, entries, observations, generation>> /\ catalog' = catalog
      BY <1>1 DEF Saved, catalogVars, catalog
  <2>4. TypeOK'
      BY <2>1, <2>3 DEF TypeOK
  <2>5. Generations'
      BY <2>1, <2>2, <2>3, WarmAssumption DEF Generations, WarmAssumption
  <2>6. PersistedIsStored'
    <3>1. generation # saving.generation => persisted_generation' # generation'
        BY <2>1, <2>2, <2>3, WarmAssumption DEF WarmAssumption
    <3>2. generation = saving.generation => stored' = Payload(catalog)' /\ late' = None
        BY <2>2, <2>3
    <3>3. QED BY <3>1, <3>2 DEF PersistedIsStored
  <2>7. phase' # "starting"
      BY <2>1, <2>3 DEF NothingBeforeLoad
  <2>8. QED BY <2>3, <2>4, <2>5, <2>6, <2>7 DEF NothingBeforeLoad
<1>2. CASE NotSaved
  <2>1. /\ saving # None /\ saving.generation \in Nat /\ saving.payload \in Payloads
        /\ generation \in 0..(MaxGeneration + 1)
        /\ persisted_generation \in 0..(MaxGeneration + 1)
      BY <1>2 DEF NotSaved, TypeOK
  <2>2. persisted_generation < saving.generation /\ saving.generation <= generation
      BY <2>1 DEF Generations
  <2>3. /\ saving' = None /\ catalog' = catalog
        /\ UNCHANGED <<phase, entries, observations, generation, persisted_generation>>
      BY <1>2 DEF NotSaved, catalogVars, catalog
  <2>4. {stored', late'} \subseteq Payloads \cup {None, Corrupt}
      BY <1>2, <2>1 DEF NotSaved, Flushed, TypeOK
  <2>5. TypeOK'
      BY <2>3, <2>4 DEF TypeOK
  <2>6. persisted_generation' < generation'
      BY <2>1, <2>2, <2>3, WarmAssumption DEF WarmAssumption
  <2>7. Generations' /\ PersistedIsStored'
      BY <2>1, <2>3, <2>6, WarmAssumption DEF Generations, PersistedIsStored, WarmAssumption
  <2>8. phase' # "starting"
      BY <2>1, <2>3 DEF NothingBeforeLoad
  <2>9. QED BY <2>3, <2>5, <2>7, <2>8 DEF NothingBeforeLoad
<1>3. CASE LateWrite
  <2>1. /\ late # None /\ stored' = late /\ late' = None /\ catalog' = catalog
        /\ UNCHANGED <<phase, entries, observations, generation, persisted_generation, saving>>
      BY <1>3 DEF LateWrite, catalogVars, catalog
  <2>2. TypeOK'
      BY <2>1 DEF TypeOK
  <2>3. PersistedIsStored'
      BY <2>1 DEF PersistedIsStored
  <2>4. Generations' /\ NothingBeforeLoad'
      BY <2>1 DEF Generations, NothingBeforeLoad
  <2>5. QED BY <2>1, <2>2, <2>3, <2>4
<1>4. QED BY <1>1, <1>2, <1>3

(* The steps of the service's life.                                        *)
LEMMA LifeSteps ==
    ASSUME WarmInv,
           \/ \E now \in Times : Load(now)
           \/ LoadCorrupt \/ LoadNothing \/ Close \/ Stop
    PROVE  WarmInv'
<1> USE DEF WarmInv
<1>0. MaxGeneration \in Nat
    BY WarmAssumption DEF WarmAssumption
<1>1. ASSUME NEW now \in Times, Load(now) PROVE WarmInv'
  <2>1. /\ stored \in Payloads /\ phase = "starting" /\ saving = None
      BY <1>1 DEF Load, TypeOK, NothingBeforeLoad
  <2>2. GoodCatalog(Loaded(stored, now))
      BY <2>1, LoadedIsGood
  <2>3. /\ Becomes(Loaded(stored, now)) /\ generation' \in {0, 1}
        /\ persisted_generation' = 0 /\ phase' = "serving"
        /\ UNCHANGED <<saving, stored, late>>
      BY <1>1 DEF Load, storeVars
  <2>4. GoodCatalog(catalog)' /\ entries' \in Maps /\ observations' \in Maps
      BY <2>2, <2>3, BecomesCatalog
  <2>5. generation' \in 0..(MaxGeneration + 1) /\ 0 \in 0..(MaxGeneration + 1)
      BY <1>0, <2>3
  <2>6. TypeOK'
      BY <2>3, <2>4, <2>5 DEF TypeOK
  <2>7. Generations' /\ PersistedIsStored' /\ NothingBeforeLoad'
      BY <2>1, <2>3 DEF Generations, PersistedIsStored, NothingBeforeLoad
  <2>8. QED BY <2>4, <2>6, <2>7
<1>2. CASE LoadCorrupt
  <2>1. phase = "starting" /\ saving = None /\ generation = 0
      BY <1>2 DEF LoadCorrupt, NothingBeforeLoad
  <2>2. /\ generation' = 1 /\ persisted_generation' = 0 /\ phase' = "serving"
        /\ stored' \in {None, Corrupt} /\ catalog' = catalog
        /\ UNCHANGED <<entries, observations, saving, late>>
      BY <1>2, <2>1 DEF LoadCorrupt, catalogVars, catalog
  <2>3. generation' \in 0..(MaxGeneration + 1) /\ persisted_generation' \in 0..(MaxGeneration + 1)
      BY <1>0, <2>2
  <2>4. TypeOK'
      BY <2>2, <2>3 DEF TypeOK
  <2>5. Generations' /\ PersistedIsStored' /\ NothingBeforeLoad'
      BY <2>1, <2>2 DEF Generations, PersistedIsStored, NothingBeforeLoad
  <2>6. QED BY <2>2, <2>4, <2>5
<1>3. CASE LoadNothing \/ Close
  <2>1. /\ phase' \in {"serving", "closing"} /\ catalog' = catalog
        /\ UNCHANGED <<entries, observations, generation, persisted_generation,
                       saving, stored, late>>
      BY <1>3 DEF LoadNothing, Close, catalogVars, storeVars, catalog
  <2>2. TypeOK'
      BY <2>1 DEF TypeOK
  <2>3. Generations' /\ PersistedIsStored' /\ NothingBeforeLoad'
      BY <2>1 DEF Generations, PersistedIsStored, NothingBeforeLoad
  <2>4. QED BY <2>1, <2>2, <2>3
<1>4. CASE Stop
  <2>1. /\ phase' = "starting" /\ entries' = Empty /\ observations' = Empty
        /\ generation' = 0 /\ persisted_generation' = 0 /\ saving' = None
        /\ stored' \in {stored, Flushed} /\ late' = None
      BY <1>4 DEF Stop
  <2>2. entries' \in Maps /\ observations' \in Maps /\ GoodCatalog(catalog)'
    <3>1. catalog' = [entries |-> Empty, observations |-> Empty]
        BY <2>1 DEF catalog
    <3>2. QED BY <2>1, <3>1, EmptyIsGood
  <2>3. TypeOK'
      BY <1>0, <2>1, <2>2 DEF TypeOK, Flushed
  <2>4. Generations' /\ PersistedIsStored' /\ NothingBeforeLoad'
      BY <2>1 DEF Generations, PersistedIsStored, NothingBeforeLoad
  <2>5. QED BY <2>2, <2>3, <2>4
<1>5. QED BY <1>1, <1>2, <1>3, <1>4

LEMMA NextInv == WarmInv /\ [Next]_vars => WarmInv'
<1>1. SUFFICES ASSUME WarmInv, [Next]_vars PROVE WarmInv'
    OBVIOUS
<1>2. CASE Next
  <2>1. ASSUME NEW now \in Times, Checkpoint(now) PROVE WarmInv'
      BY <1>1, <2>1, CheckpointStep
  <2>2. QED BY <1>1, <1>2, <2>1, CatalogSteps, WriteSteps, LifeSteps DEF Next
<1>3. CASE UNCHANGED vars
  <2>1. /\ UNCHANGED <<phase, entries, observations, generation, persisted_generation>>
        /\ UNCHANGED <<saving, stored, late>> /\ catalog' = catalog
      BY <1>3 DEF vars, catalogVars, storeVars, catalog
  <2>2. QED BY <1>1, <2>1 DEF WarmInv, TypeOK, NothingBeforeLoad, Generations, PersistedIsStored
<1>4. QED BY <1>1, <1>2, <1>3

(* The catalog is in order, nothing precedes the load and what counts as   *)
(* persisted is stored, in every state of every catalog.                   *)
THEOREM WarmInvariant == Spec => []WarmInv
BY InitInv, NextInv, PTL DEF Spec

-----------------------------------------------------------------------------
(* What follows from it.                                                   *)

(* Counts stay within the code's limits, payloads are of valid entries.    *)
THEOREM WarmTypeCorrect == Spec => []TypeOK
<1>1. WarmInv => TypeOK
    BY DEF WarmInv
<1>2. QED BY <1>1, WarmInvariant, PTL

(* Both parts of the catalog hold at most max_size requests, and none is   *)
(* observed while a place in the catalog is free: whatever is discarded or *)
(* expires, an observation takes the place in the same call.               *)
THEOREM CatalogIsBounded == Spec => []CatalogBounded
<1>1. WarmInv => CatalogBounded
    BY EmptyMap DEF WarmInv, GoodCatalog, Draft, Catalogs, catalog, CatalogBounded
<1>2. QED BY <1>1, WarmInvariant, PTL

(* The candidates are the most requested: nothing that is only observed    *)
(* has been requested more often.                                          *)
THEOREM MostRequestedAreKept == Spec => []MostRequestedKept
<1>1. WarmInv => MostRequestedKept
    BY DEF WarmInv, GoodCatalog, Draft, catalog, MostRequestedKept
<1>2. QED BY <1>1, WarmInvariant, PTL

(* A generation is only counted as persisted if the store holds that very  *)
(* catalog and no older write can still arrive.                            *)
THEOREM PersistedAreStored == Spec => []PersistedIsStored
<1>1. WarmInv => PersistedIsStored
    BY DEF WarmInv
<1>2. QED BY <1>1, WarmInvariant, PTL

(* The candidates that an expiry drops have metrics older than the step,   *)
(* so one that comes back as an observation has new metrics.               *)
LEMMA ExpiredStartOver ==
    ASSUME WarmInv, NEW now \in Times, NEW f \in DOMAIN entries,
           f \in Expired(entries, now)
    PROVE  entries[f].last # now
<1>1. entries \in Maps
    BY DEF WarmInv, TypeOK
<1>2. entries[f].last \in Nat /\ now \in Nat /\ MaxAge \in Nat
    BY <1>1, MetricsAreNumbers, WarmAssumption DEF Times, WarmAssumption
<1>3. now > entries[f].last + MaxAge
    BY DEF Expired
<1>4. QED BY <1>2, <1>3

Displacement ==
    \A g \in DOMAIN entries \cap DOMAIN observations' :
        observations'[g] = entries[g] =>
        \E f \in DOMAIN observations \cap DOMAIN entries' :
            entries'[f].count > 1 /\ entries'[f].count >= observations'[g].count

LEMMA RecordDisplaces ==
    ASSUME WarmInv, NEW now \in Times, NEW f \in Fingerprints, Record(f, now)
    PROVE  Displacement
<1> DEFINE c == Prune(catalog, now)
           d == Recorded(c, f, now)
<1>1. SUFFICES ASSUME NEW g \in DOMAIN entries \cap DOMAIN observations',
                      observations'[g] = entries[g]
               PROVE  \E h \in DOMAIN observations \cap DOMAIN entries' :
                        entries'[h].count > 1 /\ entries'[h].count >= observations'[g].count
    BY DEF Displacement
<1>2. GoodCatalog(catalog) /\ catalog.entries = entries /\ catalog.observations = observations
    BY DEF WarmInv, catalog
<1>3. /\ GoodCatalog(c) /\ DOMAIN c.observations \subseteq DOMAIN observations
      /\ \A h \in DOMAIN entries \ DOMAIN c.entries : h \in Expired(entries, now)
    BY <1>2, PruneIsGood
<1>4. entries' = d.entries /\ observations' = d.observations
    BY DEF Record, Becomes
<1> HIDE DEF c
<1>5. \A h \in DOMAIN d.observations \ DOMAIN c.observations :
        Displaced(c, d, f, h) \/ NewlyObserved(c, d, f, h, now)
    BY <1>3, RecordedIsGood
<1> HIDE DEF d
<1>6. g \notin DOMAIN observations
    BY <1>2 DEF GoodCatalog, Draft
<1>7. CASE Displaced(c, d, f, g)
    BY <1>3, <1>4, <1>7 DEF Displaced
<1>8. CASE NewlyObserved(c, d, f, g, now)
  <2>1. g \in Expired(entries, now) /\ entries[g].last = now
      BY <1>1, <1>3, <1>4, <1>8 DEF NewlyObserved
  <2>2. QED BY <2>1, ExpiredStartOver
<1>9. QED BY <1>1, <1>3, <1>4, <1>5, <1>6, <1>7, <1>8

(* Nothing but a record makes an observation of a candidate.               *)
LEMMA NothingNewlyObserved ==
    ASSUME WarmInv, DOMAIN observations' \subseteq DOMAIN observations
    PROVE  Displacement
BY DEF WarmInv, GoodCatalog, Draft, catalog, Displacement

LEMMA StepDisplaces == WarmInv /\ [Next]_vars => [Displacement]_vars
<1>1. SUFFICES ASSUME WarmInv, Next PROVE Displacement
    BY DEF Displacement
<1>2. GoodCatalog(catalog) /\ catalog.entries = entries /\ catalog.observations = observations
    BY <1>1 DEF WarmInv, catalog
<1>3. ASSUME NEW now \in Times, NEW f \in Fingerprints, Record(f, now) PROVE Displacement
    BY <1>1, <1>3, RecordDisplaces
<1>4. ASSUME NEW now \in Times, List(now) \/ Checkpoint(now) PROVE Displacement
  <2>1. observations' = Prune(catalog, now).observations
      BY <1>4 DEF List, Checkpoint, Becomes
  <2>2. DOMAIN Prune(catalog, now).observations \subseteq DOMAIN observations
      BY <1>2, PruneIsGood
  <2>3. QED BY <1>1, <2>1, <2>2, NothingNewlyObserved
<1>5. ASSUME NEW now \in Times, Load(now) PROVE Displacement
  <2>1. DOMAIN entries = {}
      BY <1>1, <1>5, EmptyMap DEF WarmInv, NothingBeforeLoad, Load
  <2>2. QED BY <2>1 DEF Displacement
<1>6. ASSUME NEW f \in Fingerprints, Discard(f) PROVE Displacement
  <2> DEFINE d == Rebalance([entries |-> Without(entries, {f}),
                             observations |-> Without(observations, {f})])
  <2>1. observations' = d.observations
      BY <1>6 DEF Discard, Becomes
  <2>2. DOMAIN d.observations \subseteq DOMAIN observations
      BY <1>2, DiscardIsGood
  <2> HIDE DEF d
  <2>3. QED BY <1>1, <2>1, <2>2, NothingNewlyObserved
<1>7. CASE Saved \/ NotSaved \/ LateWrite \/ LoadCorrupt \/ LoadNothing \/ Close
  <2>1. observations' = observations
      BY <1>7 DEF Saved, NotSaved, LateWrite, LoadCorrupt, LoadNothing, Close, catalogVars
  <2>2. QED BY <1>1, <2>1, NothingNewlyObserved
<1>8. CASE Stop
  <2>1. DOMAIN observations' = {}
      BY <1>8, EmptyMap DEF Stop
  <2>2. QED BY <2>1 DEF Displacement
<1>9. QED BY <1>1, <1>3, <1>4, <1>5, <1>6, <1>7, <1>8 DEF Next

(* A first request never displaces a candidate: one that becomes an        *)
(* observation as it was has traded places with a request that had been    *)
(* observed and has now been made at least twice and at least as often.    *)
THEOREM RepeatsDisplace == Spec => DisplacedByRepeats
<1>1. WarmInv /\ [Next]_vars => [Displacement]_vars
    BY StepDisplaces
<1>2. Spec => [][Displacement]_vars
    BY <1>1, WarmInvariant, PTL DEF Spec
<1>3. QED BY <1>2 DEF DisplacedByRepeats, Displacement
=============================================================================
