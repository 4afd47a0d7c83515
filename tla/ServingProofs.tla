--------------------------- MODULE ServingProofs ---------------------------
(***************************************************************************)
(* Proofs about what serves a request: the private endpoint of a conda     *)
(* client (SolverExchange) over the memory of the result cache             *)
(* (ResultCacheMemory), for any sets of tasks, clients and keys, any sizes *)
(* and limits; and about the child processes (ChildSolve) of an upload, or *)
(* of a solve without a persistent worker, for any finite set of requests, *)
(* any number of slots and pool workers, and pipes inherited or not.  The  *)
(* two have no variable in common.                                         *)
(*                                                                         *)
(* The exchange only ever does to the memory what ResultCacheMemory says,  *)
(* so the memory's invariant is shown once, for its own steps.  It needs   *)
(* that the bytes counted by hand are a sum over the entries, of which     *)
(* entries are appended, taken out of the middle and popped in front.      *)
(***************************************************************************)
EXTENDS SolverExchange, ChildSolve, FiniteSetTheorems, SequenceTheorems, TLAPS

(* Induction over the numbers, for a set: a least number left out would    *)
(* have a predecessor, and taking predecessors would map a finite set into *)
(* itself without ever reaching its greatest element.                      *)
LEMMA SetInduction ==
    ASSUME NEW S, 0 \in S, \A n \in Nat : n \in S => n + 1 \in S
    PROVE  Nat \subseteq S
<1> SUFFICES ASSUME NEW n \in Nat, n \notin S PROVE FALSE
    OBVIOUS
<1> DEFINE T == {m \in 0..n : m \notin S}
           f == [m \in T |-> m - 1]
<1>1. \A m \in T : m \in Nat \ {0} /\ m - 1 \in T
  <2> SUFFICES ASSUME NEW m \in T PROVE m # 0 /\ m - 1 \in 0..n /\ m - 1 \notin S
    OBVIOUS
  <2>1. m \in 0..n /\ m \notin S /\ m # 0
    OBVIOUS
  <2>2. m - 1 \in Nat /\ m = (m - 1) + 1 /\ m - 1 \in 0..n
    BY <2>1
  <2>3. QED BY <2>1, <2>2
<1>2. IsFiniteSet(T)
  <2>1. IsFiniteSet(0..n) /\ T \subseteq 0..n
    BY FS_Interval
  <2> HIDE DEF T
  <2>2. QED BY <2>1, FS_Subset
<1>3. f \in Injection(T, T)
  <2>1. f \in [T -> T]
    BY <1>1
  <2>2. \A a, b \in T : f[a] = f[b] => a = b
    BY <1>1
  <2>3. QED BY <2>1, <2>2 DEF Injection, IsInjective
<1>4. f \in Surjection(T, T)
    BY <1>2, <1>3, FS_Injection
<1>5. n \in T
    OBVIOUS
<1>6. PICK m \in T : f[m] = n
    BY <1>4, <1>5 DEF Surjection
<1>7. QED BY <1>1, <1>6

LEMMA LeastNumber ==
    ASSUME NEW S, S \subseteq Nat, S # {}
    PROVE  \E n \in S : \A m \in S : n <= m
<1> SUFFICES ASSUME \A n \in S : \E m \in S : m < n PROVE FALSE
    OBVIOUS
<1> DEFINE Below == {n \in Nat : \A m \in S : n <= m}
<1>1. 0 \in Below
    OBVIOUS
<1>2. ASSUME NEW n \in Nat, n \in Below PROVE n + 1 \in Below
  <2> SUFFICES ASSUME NEW m \in S PROVE n + 1 <= m
    OBVIOUS
  <2>1. n <= m /\ n \notin S
    BY <1>2
  <2>2. QED BY <2>1
<1> HIDE DEF Below
<1>3. Nat \subseteq Below
    BY <1>1, <1>2, SetInduction
<1>4. PICK n \in S : TRUE
    OBVIOUS
<1>5. n + 1 \in Below
    BY <1>3
<1>6. QED BY <1>4, <1>5 DEF Below

(* What RemoveAt and SubSeq return, place by place.                        *)
LEMMA RemoveAtFacts ==
    ASSUME NEW T, NEW s \in Seq(T), NEW i \in 1..Len(s)
    PROVE  /\ RemoveAt(s, i) \in Seq(T)
           /\ Len(RemoveAt(s, i)) = Len(s) - 1
           /\ \A j \in 1..(Len(s) - 1) :
                RemoveAt(s, i)[j] = IF j < i THEN s[j] ELSE s[j + 1]
<1> DEFINE a == SubSeq(s, 1, i - 1)
           b == SubSeq(s, i + 1, Len(s))
<1>1. a \in Seq(T) /\ Len(a) = i - 1 /\ \A j \in 1..(i - 1) : a[j] = s[j]
    OBVIOUS
<1>2. b \in Seq(T) /\ Len(b) = Len(s) - i /\ \A j \in 1..(Len(s) - i) : b[j] = s[i + j]
    OBVIOUS
<1>3. RemoveAt(s, i) = a \o b
    BY DEF RemoveAt
<1> HIDE DEF a, b
<1>4. /\ a \o b \in Seq(T) /\ Len(a \o b) = Len(s) - 1
      /\ \A j \in 1..(Len(s) - 1) :
            (a \o b)[j] = IF j <= i - 1 THEN a[j] ELSE b[j - (i - 1)]
  <2>1. Len(a) + Len(b) = Len(s) - 1
    BY <1>1, <1>2
  <2>2. /\ a \o b \in Seq(T) /\ Len(a \o b) = Len(a) + Len(b)
        /\ \A j \in 1..(Len(a) + Len(b)) :
            (a \o b)[j] = IF j <= Len(a) THEN a[j] ELSE b[j - Len(a)]
    BY <1>1, <1>2, ConcatProperties
  <2>3. QED BY <1>1, <2>1, <2>2
<1>5. ASSUME NEW j \in 1..(Len(s) - 1), j >= i PROVE b[j - (i - 1)] = s[j + 1]
  <2>1. j - (i - 1) \in 1..(Len(s) - i) /\ i + (j - (i - 1)) = j + 1
    BY <1>5
  <2>2. QED BY <1>2, <2>1
<1>6. ASSUME NEW j \in 1..(Len(s) - 1), j < i PROVE a[j] = s[j]
    BY <1>1, <1>6
<1>7. ASSUME NEW j \in 1..(Len(s) - 1)
      PROVE  (a \o b)[j] = IF j < i THEN s[j] ELSE s[j + 1]
  <2>1. j <= i - 1 <=> j < i
    OBVIOUS
  <2>2. QED BY <1>4, <1>5, <1>6, <2>1
<1>8. QED BY <1>3, <1>4, <1>7

LEMMA SuffixFacts ==
    ASSUME NEW T, NEW s \in Seq(T), NEW n \in 0..Len(s)
    PROVE  /\ SubSeq(s, n + 1, Len(s)) \in Seq(T)
           /\ Len(SubSeq(s, n + 1, Len(s))) = Len(s) - n
           /\ \A j \in 1..(Len(s) - n) : SubSeq(s, n + 1, Len(s))[j] = s[n + j]
OBVIOUS

(* IsSuffix, which the library defines over reversed sequences, by places. *)
LEMMA SuffixByIndex ==
    ASSUME NEW T, NEW s \in Seq(T), NEW t \in Seq(T)
    PROVE  IsSuffix(s, t) <=>
               Len(s) <= Len(t) /\ \A i \in 1..Len(s) : s[i] = t[Len(t) - Len(s) + i]
<1> DEFINE r == Reverse(s)
           q == Reverse(t)
<1>1. /\ r \in Seq(T) /\ Len(r) = Len(s)
      /\ \A i \in 1..Len(s) : r[i] = s[(Len(s) - i) + 1]
    BY DEF Reverse
<1>2. /\ q \in Seq(T) /\ Len(q) = Len(t)
      /\ \A i \in 1..Len(t) : q[i] = t[(Len(t) - i) + 1]
    BY DEF Reverse
<1>3. IsSuffix(s, t) <=> Len(r) <= Len(q) /\ SubSeq(r, 1, Len(r)) = SubSeq(q, 1, Len(r))
    BY DEF IsSuffix, IsPrefix
<1> HIDE DEF r, q
<1>4. ASSUME Len(s) <= Len(t)
      PROVE  SubSeq(r, 1, Len(r)) = SubSeq(q, 1, Len(r))
             <=> \A i \in 1..Len(s) : r[i] = q[i]
    BY <1>1, <1>2, <1>4
<1>5. ASSUME Len(s) <= Len(t), \A i \in 1..Len(s) : r[i] = q[i], NEW i \in 1..Len(s)
      PROVE  s[i] = t[Len(t) - Len(s) + i]
  <2>1. /\ (Len(s) - i) + 1 \in 1..Len(s) /\ (Len(s) - i) + 1 \in 1..Len(t)
        /\ (Len(s) - ((Len(s) - i) + 1)) + 1 = i
        /\ (Len(t) - ((Len(s) - i) + 1)) + 1 = Len(t) - Len(s) + i
    BY <1>5
  <2>2. r[(Len(s) - i) + 1] = q[(Len(s) - i) + 1]
    BY <1>5, <2>1
  <2>3. QED BY <1>1, <1>2, <2>1, <2>2
<1>6. ASSUME Len(s) <= Len(t), \A i \in 1..Len(s) : s[i] = t[Len(t) - Len(s) + i],
             NEW i \in 1..Len(s)
      PROVE  r[i] = q[i]
  <2>1. /\ (Len(s) - i) + 1 \in 1..Len(s) /\ i \in 1..Len(t)
        /\ Len(t) - Len(s) + ((Len(s) - i) + 1) = (Len(t) - i) + 1
    BY <1>6
  <2>2. s[(Len(s) - i) + 1] = t[Len(t) - Len(s) + ((Len(s) - i) + 1)]
    BY <1>6, <2>1
  <2>3. QED BY <1>1, <1>2, <2>1, <2>2
<1>7. QED BY <1>1, <1>2, <1>3, <1>4, <1>5, <1>6

-----------------------------------------------------------------------------
LEMMA EntryFacts == ASSUME NEW e \in Entry PROVE e.key \in Keys /\ e.size \in Nat \ {0}
BY CacheMemoryAssumption DEF Entry, Sizes

(* The running sums exist.                                                 *)
LEMMA BytesFacts ==
    ASSUME NEW es \in Seq(Entry)
    PROVE  /\ Bytes(es) \in [0..Len(es) -> Nat] /\ Bytes(es)[0] = 0
           /\ \A i \in 1..Len(es) : Bytes(es)[i] = Bytes(es)[i - 1] + es[i].size
<1> DEFINE Sums(g, n) == /\ g \in [0..n -> Nat] /\ g[0] = 0
                         /\ \A i \in 1..n : g[i] = g[i - 1] + es[i].size
           Summed == {n \in Nat : n <= Len(es) => \E g : Sums(g, n)}
<1>1. Len(es) \in Nat /\ \A i \in 1..Len(es) : es[i].size \in Nat
    BY EntryFacts
<1>2. 0 \in Summed
  <2>1. Sums([i \in 0..0 |-> 0], 0)
    OBVIOUS
  <2>2. QED BY <2>1
<1>3. ASSUME NEW n \in Nat, n \in Summed PROVE n + 1 \in Summed
  <2> HIDE DEF Sums
  <2> SUFFICES ASSUME n + 1 <= Len(es) PROVE \E g : Sums(g, n + 1)
    OBVIOUS
  <2> USE DEF Sums
  <2>1. n <= Len(es) /\ es[n + 1].size \in Nat
    BY <1>1
  <2>2. PICK g : Sums(g, n)
    BY <1>3, <2>1
  <2> DEFINE h == [i \in 0..(n + 1) |-> IF i = n + 1 THEN g[n] + es[n + 1].size ELSE g[i]]
  <2>3. h \in [0..(n + 1) -> Nat] /\ h[0] = 0
    BY <2>1, <2>2
  <2>4. \A i \in 1..(n + 1) : h[i] = h[i - 1] + es[i].size
    BY <2>1, <2>2
  <2>5. Sums(h, n + 1)
    BY <2>3, <2>4
  <2>6. QED BY <2>5
<1>4. Len(es) \in Summed
  <2> HIDE DEF Summed
  <2>1. QED BY <1>1, <1>2, <1>3, SetInduction
<1>5. PICK g : Sums(g, Len(es))
    BY <1>1, <1>4
<1>6. g = [i \in 0..Len(es) |-> IF i = 0 THEN 0 ELSE g[i - 1] + es[i].size]
    BY <1>5
<1>7. Bytes(es) = [i \in 0..Len(es) |-> IF i = 0 THEN 0 ELSE Bytes(es)[i - 1] + es[i].size]
    BY <1>6 DEF Bytes
<1> DEFINE b == Bytes(es)
           Natural == {n \in Nat : n <= Len(es) => b[n] \in Nat}
<1>8. /\ DOMAIN b = 0..Len(es) /\ b[0] = 0
      /\ \A i \in 1..Len(es) : b[i] = b[i - 1] + es[i].size
  <2> HIDE DEF b
  <2>1. b = [i \in 0..Len(es) |-> IF i = 0 THEN 0 ELSE b[i - 1] + es[i].size]
    BY <1>7 DEF b
  <2>2. QED BY <1>1, <2>1
<1> HIDE DEF b
<1>9. 0 \in Natural
    BY <1>8
<1>10. ASSUME NEW n \in Nat, n \in Natural PROVE n + 1 \in Natural
  <2> SUFFICES ASSUME n + 1 <= Len(es) PROVE b[n + 1] \in Nat
    OBVIOUS
  <2>1. n + 1 \in 1..Len(es) /\ (n + 1) - 1 = n /\ b[n] \in Nat
    BY <1>1, <1>10
  <2>2. QED BY <1>1, <1>8, <2>1
<1>11. Nat \subseteq Natural
  <2> HIDE DEF Natural
  <2>1. QED BY <1>9, <1>10, SetInduction
<1>12. b \in [0..Len(es) -> Nat]
  <2>1. b = [i \in 0..Len(es) |-> b[i]]
    BY <1>7 DEF b
  <2>2. \A i \in 0..Len(es) : b[i] \in Nat
    BY <1>1, <1>11
  <2>3. QED BY <2>1, <2>2
<1>13. QED BY <1>8, <1>12 DEF b

(* From two places on, two sequences have the same n entries.              *)
SameEntries(es, j, fs, k, n) ==
    /\ j + n <= Len(es) /\ k + n <= Len(fs)
    /\ \A i \in 1..n : es[j + i] = fs[k + i]

(* There their sums grow alike.                                            *)
LEMMA BytesAlike ==
    ASSUME NEW es \in Seq(Entry), NEW fs \in Seq(Entry),
           NEW j \in Nat, NEW k \in Nat, NEW n \in Nat, SameEntries(es, j, fs, k, n)
    PROVE  Bytes(es)[j + n] - Bytes(es)[j] = Bytes(fs)[k + n] - Bytes(fs)[k]
<1>1. /\ j + n <= Len(es) /\ k + n <= Len(fs)
      /\ \A i \in 1..n : es[j + i] = fs[k + i]
    BY DEF SameEntries
<1>2. PICK b, c :
            /\ b = Bytes(es) /\ b \in [0..Len(es) -> Nat]
            /\ c = Bytes(fs) /\ c \in [0..Len(fs) -> Nat]
            /\ \A i \in 1..Len(es) : b[i] = b[i - 1] + es[i].size
            /\ \A i \in 1..Len(fs) : c[i] = c[i - 1] + fs[i].size
    BY BytesFacts
<1> DEFINE Alike == {m \in Nat : m <= n => b[j + m] - b[j] = c[k + m] - c[k]}
<1>3. Len(es) \in Nat /\ Len(fs) \in Nat /\ \A i \in 1..Len(es) : es[i].size \in Nat
    BY EntryFacts
<1>4. (\A i \in 0..Len(es) : b[i] \in Nat) /\ (\A i \in 0..Len(fs) : c[i] \in Nat)
    BY <1>2
<1>5. b[j] \in Nat /\ c[k] \in Nat
    BY <1>1, <1>3, <1>4
<1>6. 0 \in Alike
    BY <1>5
<1>7. ASSUME NEW m \in Nat, m \in Alike PROVE m + 1 \in Alike
  <2>1. SUFFICES ASSUME m + 1 <= n PROVE b[j + (m + 1)] - b[j] = c[k + (m + 1)] - c[k]
    OBVIOUS
  <2> HIDE DEF Alike
  <2>2. PICK p \in Nat : p \in 1..Len(es) /\ p = j + (m + 1) /\ p - 1 = j + m
    BY <1>1, <1>3, <2>1
  <2>3. PICK q \in Nat : q \in 1..Len(fs) /\ q = k + (m + 1) /\ q - 1 = k + m
    BY <1>1, <1>3, <2>1
  <2>4. es[p] = fs[q]
    <3> DEFINE Match(i) == es[j + i] = fs[k + i]
    <3>1. \A i \in 1..n : Match(i)
        BY <1>1
    <3> HIDE DEF Match
    <3>2. Match(m + 1)
        BY <2>1, <3>1
    <3>3. QED BY <2>2, <2>3, <3>2 DEF Match
  <2>5. b[p - 1] \in Nat /\ b[p] \in Nat /\ c[q - 1] \in Nat /\ c[q] \in Nat
    BY <1>3, <1>4, <2>2, <2>3
  <2>6. PICK v \in Nat : b[p] = b[p - 1] + v /\ c[q] = c[q - 1] + v
    BY <1>2, <1>3, <2>2, <2>3, <2>4
  <2>7. b[p - 1] - b[j] = c[q - 1] - c[k]
    BY <1>7, <2>1, <2>2, <2>3 DEF Alike
  <2>8. PICK x \in Nat, y \in Nat, z \in Nat, u \in Nat :
            x = b[p - 1] /\ y = b[j] /\ z = c[q - 1] /\ u = c[k]
    BY <1>5, <2>5, Zenon
  <2>9. x - y = z - u
    BY <2>7, <2>8, Zenon
  <2>10. (x + v) - y = (z + v) - u
    BY <2>9
  <2>11. b[p] - b[j] = c[q] - c[k]
    BY <2>6, <2>8, <2>10, Zenon
  <2>12. QED BY <2>2, <2>3, <2>11
<1>8. n \in Alike
  <2> HIDE DEF Alike
  <2>1. QED BY <1>6, <1>7, SetInduction
<1>9. QED BY <1>2, <1>8

LEMMA TotalIsNat == ASSUME NEW es \in Seq(Entry) PROVE Total(es) \in Nat
<1>1. Bytes(es) \in [0..Len(es) -> Nat] /\ Len(es) \in 0..Len(es)
    BY BytesFacts
<1>2. QED BY <1>1 DEF Total

(* The total when an entry is appended, and when one is removed.           *)
LEMMA TotalAppend ==
    ASSUME NEW es \in Seq(Entry), NEW e \in Entry
    PROVE  Total(Append(es, e)) = Total(es) + e.size
<1> DEFINE fs == Append(es, e)
<1>1. /\ fs \in Seq(Entry) /\ Len(fs) = Len(es) + 1 /\ fs[Len(es) + 1] = e
      /\ Len(es) \in Nat /\ SameEntries(fs, 0, es, 0, Len(es))
    BY DEF SameEntries
<1> HIDE DEF fs
<1>2. Bytes(fs)[0 + Len(es)] - Bytes(fs)[0] = Bytes(es)[0 + Len(es)] - Bytes(es)[0]
    BY <1>1, BytesAlike
<1>3. /\ Bytes(fs)[0] = 0 /\ Bytes(es)[0] = 0
      /\ Bytes(fs)[Len(es) + 1] = Bytes(fs)[(Len(es) + 1) - 1] + e.size
    BY <1>1, BytesFacts
<1>4. Bytes(fs) \in [0..Len(fs) -> Nat] /\ Len(es) \in 0..Len(fs) /\ 0 + Len(es) = Len(es)
      /\ (Len(es) + 1) - 1 = Len(es)
    BY <1>1, BytesFacts
<1>5. PICK x \in Nat, y \in Nat : x = Bytes(fs)[Len(es)] /\ y = Bytes(es)[Len(es)]
    BY <1>4, TotalIsNat DEF Total
<1>6. x - 0 = y - 0
    BY <1>2, <1>3, <1>4, <1>5, Zenon
<1>7. x = y
    BY <1>6
<1>8. QED BY <1>1, <1>3, <1>4, <1>5, <1>7, Zenon DEF Total, fs

(* What is left when the first n entries have been popped.                 *)
Left(es, n) == SubSeq(es, n + 1, Len(es))

LEMMA LeftFacts ==
    ASSUME NEW es \in Seq(Entry), NEW n \in 0..Len(es)
    PROVE  /\ Left(es, n) \in Seq(Entry) /\ Len(Left(es, n)) = Len(es) - n
           /\ \A i \in 1..(Len(es) - n) : Left(es, n)[i] = es[n + i]
           /\ Total(Left(es, n)) = Total(es) - Bytes(es)[n]
<1> DEFINE fs == Left(es, n)
           m == Len(es) - n
<1>1. /\ fs \in Seq(Entry) /\ Len(fs) = m
      /\ \A i \in 1..m : fs[i] = es[n + i]
    BY SuffixFacts DEF Left
<1>2. m \in Nat /\ n + m = Len(es) /\ 0 + m = m /\ n \in Nat
    OBVIOUS
<1> HIDE DEF fs, m
<1>3. SameEntries(es, n, fs, 0, m)
    BY <1>1, <1>2 DEF SameEntries
<1>4. Bytes(es)[n + m] - Bytes(es)[n] = Bytes(fs)[0 + m] - Bytes(fs)[0]
    BY <1>1, <1>2, <1>3, BytesAlike
<1>5. PICK x \in Nat : x = Bytes(fs)[m]
    BY <1>1, TotalIsNat DEF Total
<1>6. Bytes(fs)[0] = 0
    BY <1>1, BytesFacts
<1>7. Total(es) - Bytes(es)[n] = x - 0
    BY <1>2, <1>4, <1>5, <1>6, Zenon DEF Total
<1>8. x - 0 = x
    OBVIOUS
<1>9. Total(fs) = Total(es) - Bytes(es)[n]
    BY <1>1, <1>5, <1>7, <1>8, Zenon DEF Total
<1>10. QED BY <1>1, <1>9 DEF fs, m

LEMMA TotalRemoved ==
    ASSUME NEW es \in Seq(Entry), NEW i \in 1..Len(es)
    PROVE  Total(RemoveAt(es, i)) = Total(es) - es[i].size
<1> DEFINE fs == RemoveAt(es, i)
           h == i - 1
           m == Len(es) - i
<1>1. /\ fs \in Seq(Entry) /\ Len(fs) = Len(es) - 1
      /\ \A j \in 1..(Len(es) - 1) : fs[j] = IF j < i THEN es[j] ELSE es[j + 1]
    BY RemoveAtFacts
<1>2. /\ h \in Nat /\ m \in Nat /\ i \in Nat /\ Len(es) \in Nat
      /\ i + m = Len(es) /\ h + m = Len(es) - 1 /\ h <= Len(es) /\ h <= Len(es) - 1
    OBVIOUS
<1> HIDE DEF fs
<1>3. SameEntries(fs, 0, es, 0, h)
    BY <1>1, <1>2 DEF SameEntries
<1>4. SameEntries(fs, h, es, i, m)
  <2>1. ASSUME NEW j \in 1..m PROVE fs[h + j] = es[i + j]
    <3>1. h + j \in 1..(Len(es) - 1) /\ ~(h + j < i) /\ (h + j) + 1 = i + j
        BY <1>2
    <3>2. QED BY <1>1, <3>1
  <2>2. QED BY <1>1, <1>2, <2>1 DEF SameEntries
<1> HIDE DEF h, m
<1>5. Bytes(fs)[0 + h] - Bytes(fs)[0] = Bytes(es)[0 + h] - Bytes(es)[0]
    BY <1>1, <1>2, <1>3, BytesAlike
<1>6. Bytes(fs)[h + m] - Bytes(fs)[h] = Bytes(es)[i + m] - Bytes(es)[i]
    BY <1>1, <1>2, <1>4, BytesAlike
<1>7. /\ Bytes(fs)[0] = 0 /\ Bytes(es)[0] = 0
      /\ Bytes(es)[i] = Bytes(es)[h] + es[i].size
    BY <1>1, BytesFacts DEF h
<1>8. PICK x \in Nat, y \in Nat, u \in Nat, v \in Nat, z \in Nat, w \in Nat :
            /\ x = Bytes(fs)[h] /\ y = Bytes(fs)[h + m]
            /\ u = Bytes(es)[h] /\ v = Bytes(es)[i] /\ z = Bytes(es)[i + m]
            /\ w = es[i].size
  <2>1. /\ h \in 0..Len(fs) /\ h + m \in 0..Len(fs)
        /\ h \in 0..Len(es) /\ i \in 0..Len(es) /\ i + m \in 0..Len(es)
    BY <1>1, <1>2
  <2>2. Bytes(fs)[h] \in Nat /\ Bytes(fs)[h + m] \in Nat
    BY <1>1, <2>1, BytesFacts
  <2>3. Bytes(es)[h] \in Nat /\ Bytes(es)[i] \in Nat /\ Bytes(es)[i + m] \in Nat
    BY <2>1, BytesFacts
  <2>4. es[i].size \in Nat
    BY EntryFacts
  <2>5. QED BY <2>2, <2>3, <2>4, Zenon
<1>9. x - 0 = u - 0 /\ y - x = z - v /\ v = u + w
  <2>1. 0 + h = h
    BY <1>2
  <2>2. QED BY <1>5, <1>6, <1>7, <1>8, <2>1, Zenon
<1>10. y = z - w
    BY <1>9
<1>11. Total(fs) = y /\ Total(es) = z
    BY <1>1, <1>2, <1>8 DEF Total
<1>12. QED BY <1>8, <1>10, <1>11, Zenon DEF fs

-----------------------------------------------------------------------------
(* The eviction loop ends, and no earlier.                                 *)
LEMMA EvictFacts ==
    ASSUME NEW es \in Seq(Entry), max_size \in Nat, max_bytes \in Nat
    PROVE  \E n \in 0..Len(es) :
            /\ Evict(es, Total(es)) = [entries |-> Left(es, n), bytes |-> Total(Left(es, n))]
            /\ ~Over(Left(es, n), Total(Left(es, n)))
            /\ n > 0 => Over(Left(es, n - 1), Total(Left(es, n - 1)))
<1> DEFINE Full(n) == Over(Left(es, n), Total(es) - Bytes(es)[n])
           Ends(n) == ~Full(n) /\ \A j \in 0..(n - 1) : Full(j)
           Fit == {n \in 0..Len(es) : ~Full(n)}
<1>1. Len(es) \in Fit
  <2>1. Len(Left(es, Len(es))) = 0
    BY LeftFacts
  <2>2. PICK x \in Nat : x = Total(es)
    BY TotalIsNat
  <2>3. Total(es) - Bytes(es)[Len(es)] = 0
    <3>1. x - x = 0
        OBVIOUS
    <3>2. QED BY <2>2, <3>1 DEF Total
  <2>4. ~Over(Left(es, Len(es)), Total(es) - Bytes(es)[Len(es)])
    BY <2>1, <2>3 DEF Over
  <2>5. QED BY <2>4
<1> HIDE DEF Full
<1>2. PICK n \in Fit : \A m \in Fit : n <= m
  <2>1. Fit \subseteq Nat
    OBVIOUS
  <2>2. QED BY <1>1, <2>1, LeastNumber
<1>3. Ends(n)
    BY <1>2
<1> DEFINE i == CHOOSE i \in 0..Len(es) : Ends(i)
<1> HIDE DEF Ends
<1>4. i \in 0..Len(es) /\ Ends(i)
    BY <1>2, <1>3
<1>5. Evict(es, Total(es)) =
        [entries |-> Left(es, i), bytes |-> Total(es) - Bytes(es)[i]]
    BY DEF Evict, Left, Ends, Full
<1> HIDE DEF i
<1>6. \A m \in 0..Len(es) : Total(Left(es, m)) = Total(es) - Bytes(es)[m]
    BY LeftFacts
<1>7. ~Over(Left(es, i), Total(Left(es, i)))
    BY <1>4, <1>6 DEF Ends, Full
<1>8. ASSUME i > 0 PROVE Over(Left(es, i - 1), Total(Left(es, i - 1)))
  <2>1. i - 1 \in 0..(i - 1) /\ i - 1 \in 0..Len(es)
    BY <1>4, <1>8
  <2>2. QED BY <1>4, <1>6, <2>1 DEF Ends, Full
<1>9. QED BY <1>4, <1>5, <1>6, <1>7, <1>8

-----------------------------------------------------------------------------
(* Entries that are the most recent of the keys by use, each key once.     *)
(* Counted from the end, a place among both is the same.                   *)
Recent(es, keys) ==
    /\ es \in Seq(Entry) /\ keys \in Seq(Keys) /\ Len(es) <= Len(keys)
    /\ \A i, j \in 1..Len(keys) : keys[i] = keys[j] => i = j
    /\ \A i \in 1..Len(es), j \in 1..Len(keys) :
            Len(keys) - j = Len(es) - i => keys[j] = es[i].key

(* The keys of the entries.                                                *)
LEMMA KeysOfFacts ==
    ASSUME NEW es \in Seq(Entry)
    PROVE  /\ KeysOf(es) \in Seq(Keys) /\ Len(KeysOf(es)) = Len(es)
           /\ \A i \in 1..Len(es) : KeysOf(es)[i] = es[i].key
           /\ DOMAIN KeysOf(es) = 1..Len(es)
<1>1. \A i \in 1..Len(es) : es[i].key \in Keys
    BY EntryFacts
<1>2. KeysOf(es) = [i \in 1..Len(es) |-> es[i].key]
    BY DEF KeysOf
<1>3. QED BY <1>1, <1>2

LEMMA RecentIsSuffix ==
    ASSUME NEW es, NEW keys, Recent(es, keys) PROVE IsSuffix(KeysOf(es), keys)
<1>1. /\ es \in Seq(Entry) /\ keys \in Seq(Keys) /\ Len(es) <= Len(keys)
      /\ Len(es) \in Nat /\ Len(keys) \in Nat
    BY DEF Recent
<1>2. ASSUME NEW i \in 1..Len(es)
      PROVE  KeysOf(es)[i] = keys[Len(keys) - Len(es) + i]
  <2>1. PICK j \in 1..Len(keys) : j = Len(keys) - Len(es) + i
    <3>1. Len(keys) - Len(es) + i \in 1..Len(keys)
        BY <1>1
    <3>2. QED BY <3>1, Zenon
  <2>2. Len(keys) - j = Len(es) - i
    BY <1>1, <2>1
  <2>3. keys[j] = es[i].key
    BY <2>2 DEF Recent
  <2>4. QED BY <1>1, <2>1, <2>3, KeysOfFacts
<1>3. QED BY <1>1, <1>2, KeysOfFacts, SuffixByIndex

(* The entries' keys are among those that were used, and differ.           *)
LEMMA RecentKeys ==
    ASSUME NEW es, NEW keys, Recent(es, keys)
    PROVE  /\ \A i \in 1..Len(es) : es[i].key \in ToSet(keys)
           /\ \A i, j \in 1..Len(es) : es[i].key = es[j].key => i = j
<1>1. /\ es \in Seq(Entry) /\ keys \in Seq(Keys) /\ Len(es) <= Len(keys)
      /\ Len(es) \in Nat /\ Len(keys) \in Nat
    BY DEF Recent
<1>2. \A i \in 1..Len(es) :
        \E m \in 1..Len(keys) : Len(keys) - m = Len(es) - i /\ keys[m] = es[i].key
  <2> SUFFICES ASSUME NEW i \in 1..Len(es)
               PROVE  \E m \in 1..Len(keys) : Len(keys) - m = Len(es) - i /\ keys[m] = es[i].key
    OBVIOUS
  <2>1. PICK m \in 1..Len(keys) : m = Len(keys) - Len(es) + i
    <3>1. Len(keys) - Len(es) + i \in 1..Len(keys)
        BY <1>1
    <3>2. QED BY <3>1, Zenon
  <2>2. Len(keys) - m = Len(es) - i
    BY <1>1, <2>1
  <2>3. QED BY <2>2 DEF Recent
<1>3. ASSUME NEW i \in 1..Len(es), NEW j \in 1..Len(es), es[i].key = es[j].key
      PROVE  i = j
  <2>1. PICK m \in 1..Len(keys) : Len(keys) - m = Len(es) - i /\ keys[m] = es[i].key
    BY <1>2
  <2>2. PICK n \in 1..Len(keys) : Len(keys) - n = Len(es) - j /\ keys[n] = es[j].key
    BY <1>2
  <2>3. m = n
    BY <1>3, <2>1, <2>2 DEF Recent
  <2>4. QED BY <1>1, <2>1, <2>2, <2>3
<1>4. \A i \in 1..Len(es) : es[i].key \in ToSet(keys)
    BY <1>1, <1>2 DEF ToSet
<1>5. QED BY <1>3, <1>4

LEMMA PlaceFacts ==
    ASSUME NEW T, NEW s \in Seq(T), NEW k \in ToSet(s)
    PROVE  Place(s, k) \in 1..Len(s) /\ s[Place(s, k)] = k
<1>1. \E i \in DOMAIN s : s[i] = k
    BY DEF ToSet
<1>2. Place(s, k) \in DOMAIN s /\ s[Place(s, k)] = k
    BY <1>1 DEF Place
<1>3. QED BY <1>2

(* A sequence without the key at place p, which is past its end when the   *)
(* key does not occur.                                                     *)
TakenAt(s, p, r) ==
    /\ p \in 1..(Len(s) + 1) /\ Len(r) = IF p <= Len(s) THEN Len(s) - 1 ELSE Len(s)
    /\ \A j \in 1..Len(r) : r[j] = IF j < p THEN s[j] ELSE s[j + 1]

LEMMA TakenFacts ==
    ASSUME NEW T, NEW s \in Seq(T), NEW U, NEW keys \in Seq(U), Len(keys) = Len(s), NEW k
    PROVE  /\ Taken(s, keys, k) \in Seq(T)
           /\ \E p \in 1..(Len(s) + 1) :
                /\ TakenAt(s, p, Taken(s, keys, k))
                /\ p <= Len(s) => p = Place(keys, k) /\ keys[p] = k /\ k \in ToSet(keys)
                /\ p > Len(s) => k \notin ToSet(keys) /\ Taken(s, keys, k) = s
<1>1. CASE k \in ToSet(keys)
  <2> DEFINE p == Place(keys, k)
  <2>1. p \in 1..Len(s) /\ keys[p] = k
    BY <1>1, PlaceFacts
  <2> HIDE DEF p
  <2>2. /\ RemoveAt(s, p) \in Seq(T) /\ Len(RemoveAt(s, p)) = Len(s) - 1
        /\ \A j \in 1..(Len(s) - 1) : RemoveAt(s, p)[j] = IF j < p THEN s[j] ELSE s[j + 1]
    BY <2>1, RemoveAtFacts
  <2>3. Taken(s, keys, k) = RemoveAt(s, p)
    BY <1>1 DEF Taken, p
  <2>4. TakenAt(s, p, Taken(s, keys, k)) /\ p \in 1..(Len(s) + 1)
    BY <2>1, <2>2, <2>3 DEF TakenAt
  <2>5. QED BY <1>1, <2>1, <2>2, <2>3, <2>4 DEF p
<1>2. CASE k \notin ToSet(keys)
  <2>1. Taken(s, keys, k) = s
    BY <1>2 DEF Taken
  <2>2. TakenAt(s, Len(s) + 1, s) /\ Len(s) + 1 \in 1..(Len(s) + 1)
    BY DEF TakenAt
  <2>3. ~(Len(s) + 1 <= Len(s)) /\ Len(s) + 1 > Len(s)
    OBVIOUS
  <2>4. QED BY <1>2, <2>1, <2>2, <2>3
<1>3. QED BY <1>1, <1>2

(* Without a key: among the entries and among the keys by use.             *)
LEMMA RecentTaken ==
    ASSUME NEW es, NEW keys, Recent(es, keys), NEW k
    PROVE  /\ Recent(Taken(es, KeysOf(es), k), Taken(keys, keys, k))
           /\ k \notin ToSet(Taken(keys, keys, k))
<1> DEFINE fs == Taken(es, KeysOf(es), k)
           ls == Taken(keys, keys, k)
<1>0. /\ es \in Seq(Entry) /\ keys \in Seq(Keys) /\ Len(es) <= Len(keys)
      /\ \A i, j \in 1..Len(keys) : keys[i] = keys[j] => i = j
      /\ \A i \in 1..Len(es), j \in 1..Len(keys) :
            Len(keys) - j = Len(es) - i => keys[j] = es[i].key
    BY Zenon DEF Recent
<1>1. /\ es \in Seq(Entry) /\ keys \in Seq(Keys)
      /\ Len(es) \in Nat /\ Len(keys) \in Nat /\ Len(es) <= Len(keys)
    BY <1>0
<1>2. /\ fs \in Seq(Entry)
      /\ \E p \in 1..(Len(es) + 1) :
            /\ TakenAt(es, p, fs)
            /\ p <= Len(es) => KeysOf(es)[p] = k
            /\ p > Len(es) => k \notin ToSet(KeysOf(es))
    BY <1>1, KeysOfFacts, TakenFacts
<1>3. /\ ls \in Seq(Keys)
      /\ \E q \in 1..(Len(keys) + 1) :
            /\ TakenAt(keys, q, ls)
            /\ q <= Len(keys) => keys[q] = k
            /\ q > Len(keys) => k \notin ToSet(keys)
    BY <1>1, TakenFacts
<1> HIDE DEF fs, ls
<1>4. PICK p \in 1..(Len(es) + 1) :
            /\ TakenAt(es, p, fs)
            /\ p <= Len(es) => KeysOf(es)[p] = k
            /\ p > Len(es) => k \notin ToSet(KeysOf(es))
    BY <1>2
<1>5. PICK q \in 1..(Len(keys) + 1) :
            /\ TakenAt(keys, q, ls)
            /\ q <= Len(keys) => keys[q] = k
            /\ q > Len(keys) => k \notin ToSet(keys)
    BY <1>3
<1>6. p \in Nat /\ q \in Nat
    BY <1>1
<1>7. /\ p <= Len(es) => es[p].key = k
      /\ p > Len(es) => \A i \in 1..Len(es) : es[i].key # k
      /\ q > Len(keys) => \A i \in 1..Len(keys) : keys[i] # k
    BY <1>1, <1>4, <1>5, <1>6, KeysOfFacts DEF ToSet
(* The key's place among the keys is the one among the entries, or before. *)
<1>8. /\ p <= Len(es) => q <= Len(keys) /\ Len(keys) - q = Len(es) - p
      /\ p > Len(es) => q > Len(keys) \/ Len(keys) - q >= Len(es)
  <2>1. CASE p <= Len(es)
    <3>1. PICK m \in 1..Len(keys) : m = Len(keys) - Len(es) + p
      <4>1. Len(keys) - Len(es) + p \in 1..Len(keys)
        BY <1>1, <1>6, <2>1
      <4>2. QED BY <4>1, Zenon
    <3>2. Len(keys) - m = Len(es) - p /\ p \in 1..Len(es)
      BY <1>1, <1>6, <2>1, <3>1
    <3>3. keys[m] = k
      BY <1>0, <1>7, <2>1, <3>2
    <3>4. q <= Len(keys)
      BY <1>1, <1>6, <1>7, <3>3
    <3>5. q = m
      BY <1>0, <1>5, <1>6, <3>3, <3>4
    <3>6. QED BY <1>1, <1>6, <2>1, <3>2, <3>4, <3>5
  <2>2. CASE p > Len(es) /\ q <= Len(keys)
    <3> SUFFICES ASSUME Len(keys) - q < Len(es) PROVE FALSE
      BY <1>1, <1>6, <2>2
    <3>1. PICK i \in 1..Len(es) : i = Len(es) - (Len(keys) - q)
      <4>1. Len(es) - (Len(keys) - q) \in 1..Len(es)
        BY <1>1, <1>6, <2>2
      <4>2. QED BY <4>1, Zenon
    <3>2. Len(keys) - q = Len(es) - i /\ q \in 1..Len(keys)
      BY <1>1, <1>6, <2>2, <3>1
    <3>3. keys[q] = es[i].key
      BY <1>0, <3>2
    <3>4. QED BY <1>5, <1>7, <2>2, <3>3
  <2>3. QED BY <1>1, <1>6, <2>1, <2>2
<1>9. PICK m \in Nat, n \in Nat :
            /\ m = Len(fs) /\ m = IF p <= Len(es) THEN Len(es) - 1 ELSE Len(es)
            /\ n = Len(ls) /\ n = IF q <= Len(keys) THEN Len(keys) - 1 ELSE Len(keys)
  <2>1. Len(fs) \in Nat /\ Len(ls) \in Nat
    BY <1>2, <1>3
  <2>2. QED BY <1>4, <1>5, <2>1 DEF TakenAt
<1>10. /\ \A i \in 1..m : fs[i] = IF i < p THEN es[i] ELSE es[i + 1]
      /\ \A j \in 1..n : ls[j] = IF j < q THEN keys[j] ELSE keys[j + 1]
    BY <1>4, <1>5, <1>9 DEF TakenAt
<1>11. \A j \in 1..n : \E a \in 1..Len(keys) :
            a # q /\ ls[j] = keys[a] /\ a = IF j < q THEN j ELSE j + 1
  <2> SUFFICES ASSUME NEW j \in 1..n
               PROVE  \E a \in 1..Len(keys) :
                        a # q /\ ls[j] = keys[a] /\ a = IF j < q THEN j ELSE j + 1
    OBVIOUS
  <2>1. CASE j < q
    <3>1. j \in 1..Len(keys) /\ j # q /\ ls[j] = keys[j]
      BY <1>1, <1>6, <1>9, <1>10, <2>1
    <3>2. QED BY <2>1, <3>1
  <2>2. CASE ~(j < q)
    <3>1. j + 1 \in 1..Len(keys) /\ j + 1 # q /\ ls[j] = keys[j + 1]
      BY <1>1, <1>6, <1>9, <1>10, <2>2
    <3>2. QED BY <2>2, <3>1, Zenon
  <2>3. QED BY <2>1, <2>2
<1>12. \A i \in 1..m : \E a \in 1..Len(es) :
            fs[i] = es[a] /\ a = IF i < p THEN i ELSE i + 1
  <2> SUFFICES ASSUME NEW i \in 1..m
               PROVE  \E a \in 1..Len(es) : fs[i] = es[a] /\ a = IF i < p THEN i ELSE i + 1
    OBVIOUS
  <2>1. CASE i < p
    <3>1. i \in 1..Len(es) /\ fs[i] = es[i]
      BY <1>1, <1>6, <1>9, <1>10, <2>1
    <3>2. QED BY <2>1, <3>1
  <2>2. CASE ~(i < p)
    <3>1. i + 1 \in 1..Len(es) /\ fs[i] = es[i + 1]
      BY <1>1, <1>6, <1>9, <1>10, <2>2
    <3>2. QED BY <2>2, <3>1, Zenon
  <2>3. QED BY <2>1, <2>2
<1>13. m <= n
    BY <1>1, <1>6, <1>8, <1>9
<1>14. ASSUME NEW i \in 1..n, NEW j \in 1..n, ls[i] = ls[j] PROVE i = j
  <2>1. PICK a \in 1..Len(keys) : ls[i] = keys[a] /\ a = IF i < q THEN i ELSE i + 1
    BY <1>11
  <2>2. PICK b \in 1..Len(keys) : ls[j] = keys[b] /\ b = IF j < q THEN j ELSE j + 1
    BY <1>11
  <2>3. a = b
    BY <1>0, <1>14, <2>1, <2>2
  <2>4. QED BY <1>6, <1>9, <2>1, <2>2, <2>3
<1>15. ASSUME NEW i \in 1..m, NEW j \in 1..n, n - j = m - i PROVE ls[j] = fs[i].key
  <2>1. PICK a \in 1..Len(keys) : ls[j] = keys[a] /\ a = IF j < q THEN j ELSE j + 1
    BY <1>11
  <2>2. PICK b \in 1..Len(es) : fs[i] = es[b] /\ b = IF i < p THEN i ELSE i + 1
    BY <1>12
  <2>3. Len(keys) - a = Len(es) - b
    <3>1. PICK L \in Nat, K \in Nat : L = Len(es) /\ K = Len(keys)
        BY <1>1
    <3>2. /\ m = IF p <= L THEN L - 1 ELSE L
          /\ n = IF q <= K THEN K - 1 ELSE K
          /\ p <= L => q <= K /\ K - q = L - p
          /\ p > L => q > K \/ K - q >= L
        BY <1>8, <1>9, <3>1, Zenon
    <3>3. /\ a = IF j < q THEN j ELSE j + 1
          /\ b = IF i < p THEN i ELSE i + 1
        BY <2>1, <2>2
    <3>4. K - a = L - b
        BY <1>6, <1>15, <3>2, <3>3
    <3>5. QED BY <3>1, <3>4, Zenon
  <2>4. QED BY <1>0, <2>1, <2>2, <2>3
<1>16. k \notin ToSet(ls)
  <2>1. ASSUME NEW j \in 1..n PROVE ls[j] # k
    <3>1. PICK a \in 1..Len(keys) : a # q /\ ls[j] = keys[a]
      BY <1>11
    <3>2. CASE q <= Len(keys)
      <4>1. q \in 1..Len(keys) /\ keys[q] = k
        BY <1>1, <1>5, <1>6, <3>2
      <4>2. QED BY <1>0, <3>1, <4>1
    <3>3. CASE q > Len(keys)
      BY <1>7, <3>1, <3>3
    <3>4. QED BY <1>1, <1>6, <3>2, <3>3
  <2>2. DOMAIN ls = 1..n
    <3>1. \A s \in Seq(Keys) : DOMAIN s = 1..Len(s)
      OBVIOUS
    <3>2. QED BY <1>3, <1>9, <3>1, Zenon
  <2>3. QED BY <2>1, <2>2 DEF ToSet
<1>17. Recent(fs, ls)
    BY <1>2, <1>3, <1>9, <1>13, <1>14, <1>15 DEF Recent
<1>18. QED BY <1>16, <1>17 DEF fs, ls

(* With an entry more, whose key was taken out before.                     *)
LEMMA RecentAppend ==
    ASSUME NEW es, NEW keys, Recent(es, keys), NEW e \in Entry, e.key \notin ToSet(keys)
    PROVE  Recent(Append(es, e), Append(keys, e.key))
<1> DEFINE fs == Append(es, e)
           ls == Append(keys, e.key)
<1>1. /\ es \in Seq(Entry) /\ keys \in Seq(Keys) /\ Len(es) <= Len(keys)
      /\ \A i, j \in 1..Len(keys) : keys[i] = keys[j] => i = j
      /\ \A i \in 1..Len(es), j \in 1..Len(keys) :
            Len(keys) - j = Len(es) - i => keys[j] = es[i].key
    BY Zenon DEF Recent
<1>2. PICK m \in Nat, n \in Nat : m = Len(es) /\ n = Len(keys) /\ m <= n
    BY <1>1
<1>3. e.key \in Keys /\ \A j \in 1..n : keys[j] # e.key
    BY <1>1, <1>2, EntryFacts DEF ToSet
<1>4. /\ fs \in Seq(Entry) /\ Len(fs) = m + 1 /\ fs[m + 1] = e
      /\ \A i \in 1..m : fs[i] = es[i]
    BY <1>1, <1>2
<1>5. /\ ls \in Seq(Keys) /\ Len(ls) = n + 1 /\ ls[n + 1] = e.key
      /\ \A j \in 1..n : ls[j] = keys[j]
    BY <1>1, <1>2, <1>3
<1> HIDE DEF fs, ls
<1>6. ASSUME NEW i \in 1..(n + 1), NEW j \in 1..(n + 1), ls[i] = ls[j] PROVE i = j
  <2>1. CASE i \in 1..n /\ j \in 1..n
    BY <1>1, <1>2, <1>5, <1>6, <2>1
  <2>2. CASE i = n + 1 \/ j = n + 1
    BY <1>3, <1>5, <1>6, <2>2
  <2>3. QED BY <2>1, <2>2
<1>7. ASSUME NEW i \in 1..(m + 1), NEW j \in 1..(n + 1), (n + 1) - j = (m + 1) - i
      PROVE  ls[j] = fs[i].key
  <2>1. CASE i = m + 1
    <3>1. j = n + 1
      BY <1>7, <2>1
    <3>2. QED BY <1>4, <1>5, <2>1, <3>1
  <2>2. CASE i \in 1..m
    <3>1. j \in 1..n /\ n - j = m - i
      BY <1>7, <2>2
    <3>2. keys[j] = es[i].key
      BY <1>1, <1>2, <2>2, <3>1
    <3>3. QED BY <1>4, <1>5, <2>2, <3>1, <3>2
  <2>3. QED BY <2>1, <2>2
<1>8. Len(fs) <= Len(ls)
    BY <1>2, <1>4, <1>5
<1>9. Recent(fs, ls)
    BY <1>4, <1>5, <1>6, <1>7, <1>8 DEF Recent
<1>10. QED BY <1>9 DEF fs, ls

(* Without its oldest entries.                                             *)
LEMMA RecentLeft ==
    ASSUME NEW es, NEW keys, Recent(es, keys), NEW n \in 0..Len(es)
    PROVE  Recent(Left(es, n), keys)
<1>1. /\ es \in Seq(Entry) /\ keys \in Seq(Keys) /\ Len(es) <= Len(keys)
      /\ \A i, j \in 1..Len(keys) : keys[i] = keys[j] => i = j
      /\ \A i \in 1..Len(es), j \in 1..Len(keys) :
            Len(keys) - j = Len(es) - i => keys[j] = es[i].key
    BY Zenon DEF Recent
<1>2. PICK fs \in Seq(Entry) :
            /\ fs = Left(es, n) /\ Len(fs) = Len(es) - n
            /\ \A i \in 1..(Len(es) - n) : fs[i] = es[n + i]
    BY <1>1, LeftFacts
<1>3. Len(fs) <= Len(keys)
    BY <1>1, <1>2
<1>4. ASSUME NEW i \in 1..Len(fs), NEW j \in 1..Len(keys), Len(keys) - j = Len(fs) - i
      PROVE  keys[j] = fs[i].key
  <2>1. PICK a \in 1..Len(es) : a = n + i
    <3>1. n + i \in 1..Len(es)
      BY <1>1, <1>2
    <3>2. QED BY <3>1, Zenon
  <2>2. Len(keys) - j = Len(es) - a
    BY <1>1, <1>2, <1>4, <2>1
  <2>3. fs[i] = es[a]
    BY <1>2, <2>1
  <2>4. QED BY <1>1, <2>2, <2>3
<1>5. Recent(fs, keys)
    BY <1>1, <1>3, <1>4 DEF Recent
<1>6. QED BY <1>2, <1>5

-----------------------------------------------------------------------------
(* The invariant of the memory: what is held is recent, is counted, and is *)
(* within the limits.                                                      *)
Sound ==
    /\ Recent(entries, used)
    /\ current_bytes = Total(entries) /\ ~Over(entries, current_bytes)

MemoryInv ==
    /\ max_size \in SizeLimits /\ max_bytes \in ByteLimits
    /\ reading \in [Tasks -> Keys \cup {None}]
    /\ Sound

LEMMA MemoryInvType ==
    ASSUME MemoryInv
    PROVE  /\ max_size \in Nat /\ max_bytes \in Nat /\ current_bytes \in Nat
           /\ entries \in Seq(Entry) /\ used \in Seq(Keys)
BY CacheMemoryAssumption, TotalIsNat DEF MemoryInv, Sound, Recent

(* Taking a key out gives its bytes back.                                  *)
LEMMA WithoutFacts ==
    ASSUME MemoryInv, NEW k \in Keys
    PROVE  /\ Recent(Without(k), Unused(k)) /\ k \notin ToSet(Unused(k))
           /\ SizeOf(k) \in Nat /\ Total(Without(k)) = current_bytes - SizeOf(k)
           /\ Holds(k) => /\ Get(k) \in Entry /\ Get(k).key = k /\ Get(k).size = SizeOf(k)
                          /\ Len(Without(k)) = Len(entries) - 1
           /\ ~Holds(k) => Without(k) = entries
<1>1. /\ Recent(Without(k), Unused(k)) /\ k \notin ToSet(Unused(k))
    BY RecentTaken DEF MemoryInv, Sound, Without, Unused
<1>2. /\ entries \in Seq(Entry) /\ current_bytes \in Nat /\ current_bytes = Total(entries)
      /\ KeysOf(entries) \in Seq(Keys) /\ Len(KeysOf(entries)) = Len(entries)
      /\ \A i \in 1..Len(entries) : KeysOf(entries)[i] = entries[i].key
    BY MemoryInvType, KeysOfFacts DEF MemoryInv, Sound
<1>3. CASE Holds(k)
  <2>1. PICK p \in 1..Len(entries) : p = Place(KeysOf(entries), k) /\ entries[p].key = k
    BY <1>2, <1>3, PlaceFacts DEF Holds
  <2>2. Get(k) = entries[p] /\ Get(k) \in Entry /\ SizeOf(k) = entries[p].size
    BY <1>2, <1>3, <2>1 DEF Get, SizeOf
  <2>3. Without(k) = RemoveAt(entries, p)
    BY <1>3, <2>1 DEF Without, Taken, Holds
  <2>4. /\ Len(Without(k)) = Len(entries) - 1
        /\ Total(Without(k)) = current_bytes - SizeOf(k)
    BY <1>2, <2>2, <2>3, RemoveAtFacts, TotalRemoved
  <2>5. SizeOf(k) \in Nat
    BY <2>2, EntryFacts
  <2>6. QED BY <1>1, <1>3, <2>1, <2>2, <2>4, <2>5
<1>4. CASE ~Holds(k)
  <2>1. Without(k) = entries /\ SizeOf(k) = 0
    BY <1>4 DEF Without, Taken, Holds, SizeOf
  <2>2. current_bytes - 0 = current_bytes
    BY <1>2
  <2>3. QED BY <1>1, <1>2, <1>4, <2>1, <2>2
<1>5. QED BY <1>3, <1>4

LEMMA DropKeeps ==
    ASSUME MemoryInv, NEW k \in Keys, Drop(k), UNCHANGED <<max_size, max_bytes>>
    PROVE  Sound'
<1>1. entries' = Without(k) /\ current_bytes' = current_bytes - SizeOf(k) /\ used' = Unused(k)
    BY DEF Drop
<1>2. Recent(entries, used)' /\ (current_bytes = Total(entries))'
    BY <1>1, WithoutFacts
<1>3. Len(entries') <= Len(entries) /\ current_bytes' <= current_bytes
  <2>1. Len(entries) \in Nat /\ current_bytes \in Nat
    BY MemoryInvType
  <2>2. QED BY <1>1, <2>1, WithoutFacts
<1>4. current_bytes' \in Nat /\ Len(entries') \in Nat
    BY <1>2, TotalIsNat DEF Recent
<1>5. ~Over(entries, current_bytes)'
  <2>1. ~Over(entries, current_bytes) /\ Len(entries) \in Nat
    BY MemoryInvType DEF MemoryInv, Sound
  <2>2. QED BY <1>3, <1>4, <2>1, MemoryInvType DEF Over
<1>6. QED BY <1>2, <1>5 DEF Sound

(* An entry that is found is moved, its bytes counted as before.           *)
LEMMA MoveKeeps ==
    ASSUME MemoryInv, NEW k \in Keys, Holds(k), entries' = move_to_end(k), Uses(k),
           UNCHANGED <<max_size, max_bytes, current_bytes>>
    PROVE  Sound'
<1>1. /\ entries' = Append(Without(k), Get(k)) /\ used' = Append(Unused(k), k)
    BY DEF move_to_end, Uses
<1>2. /\ Recent(Without(k), Unused(k)) /\ k \notin ToSet(Unused(k))
      /\ Get(k) \in Entry /\ Get(k).key = k /\ Get(k).size = SizeOf(k) /\ SizeOf(k) \in Nat
      /\ Total(Without(k)) = current_bytes - SizeOf(k) /\ Len(Without(k)) = Len(entries) - 1
    BY WithoutFacts
<1>3. Recent(entries, used)'
    BY <1>1, <1>2, RecentAppend
<1>4. Without(k) \in Seq(Entry) /\ current_bytes \in Nat /\ Len(entries) \in Nat
    BY <1>2, MemoryInvType DEF Recent
<1>5. current_bytes' = Total(entries')
  <2>1. Total(entries') = (current_bytes - SizeOf(k)) + SizeOf(k)
    BY <1>1, <1>2, <1>4, TotalAppend
  <2>2. QED BY <1>2, <1>4, <2>1
<1>6. Len(entries') = Len(entries)
    BY <1>1, <1>2, <1>4
<1>7. ~Over(entries, current_bytes)'
    BY <1>6 DEF Over, MemoryInv, Sound
<1>8. QED BY <1>3, <1>5, <1>7 DEF Sound

(* What is remembered stands last before the eviction, which stops at n.   *)
LEMMA RememberFacts ==
    ASSUME MemoryInv, NEW k \in Keys, NEW size \in Sizes, ~Rejected(size),
           remember_memory(k, size), UNCHANGED <<max_size, max_bytes>>
    PROVE  \E fs, n :
            /\ fs = Append(Without(k), [key |-> k, size |-> size]) /\ fs \in Seq(Entry)
            /\ n \in 0..Len(fs) /\ entries' = Left(fs, n)
            /\ used' = Append(Unused(k), k) /\ Recent(fs, used')
            /\ current_bytes' = Total(entries') /\ ~Over(entries', current_bytes')
            /\ n > 0 => Over(Left(fs, n - 1), Total(Left(fs, n - 1)))
<1> DEFINE e == [key |-> k, size |-> size]
<1>1. PICK fs : fs = Append(Without(k), e)
    OBVIOUS
<1>2. e \in Entry /\ e.key = k /\ e.size = size /\ size \in Nat
    BY CacheMemoryAssumption DEF Entry, Sizes
<1> HIDE DEF e
<1>3. /\ Recent(Without(k), Unused(k)) /\ k \notin ToSet(Unused(k)) /\ SizeOf(k) \in Nat
      /\ Total(Without(k)) = current_bytes - SizeOf(k)
      /\ Without(k) \in Seq(Entry) /\ current_bytes \in Nat
    BY WithoutFacts, MemoryInvType DEF Recent
<1>4. fs \in Seq(Entry) /\ Total(fs) = current_bytes - SizeOf(k) + size
    BY <1>1, <1>2, <1>3, TotalAppend
<1>5. PICK n \in 0..Len(fs) :
            /\ Evict(fs, Total(fs)) = [entries |-> Left(fs, n), bytes |-> Total(Left(fs, n))]
            /\ ~Over(Left(fs, n), Total(Left(fs, n)))
            /\ n > 0 => Over(Left(fs, n - 1), Total(Left(fs, n - 1)))
    BY <1>4, MemoryInvType, EvictFacts
<1>6. /\ entries' = Evict(fs, Total(fs)).entries
      /\ current_bytes' = Evict(fs, Total(fs)).bytes
      /\ used' = Append(Unused(k), k)
    BY <1>1, <1>4 DEF remember_memory, Uses, e
<1>7. entries' = Left(fs, n) /\ current_bytes' = Total(Left(fs, n))
    BY <1>5, <1>6
<1>8. Recent(fs, used')
    BY <1>1, <1>2, <1>3, <1>6, RecentAppend
<1>9. QED BY <1>1, <1>4, <1>5, <1>6, <1>7, <1>8, Zenon DEF e

LEMMA RememberKeeps ==
    ASSUME MemoryInv, NEW k \in Keys, NEW size \in Sizes, remember_memory(k, size),
           UNCHANGED <<max_size, max_bytes>>
    PROVE  Sound'
<1>1. CASE Rejected(size)
    BY <1>1, DropKeeps DEF remember_memory
<1>2. CASE ~Rejected(size)
  <2>1. PICK fs, n :
            /\ n \in 0..Len(fs) /\ entries' = Left(fs, n) /\ Recent(fs, used')
            /\ current_bytes' = Total(entries') /\ ~Over(entries', current_bytes')
    BY <1>2, RememberFacts
  <2>2. Recent(entries', used')
    BY <2>1, RecentLeft
  <2>3. ~Over(entries, current_bytes)'
    BY <2>1 DEF Over
  <2>4. QED BY <2>1, <2>2, <2>3 DEF Sound
<1>3. QED BY <1>1, <1>2

-----------------------------------------------------------------------------
(* The steps of the memory.                                                *)
LEMMA MemoryStepKeeps ==
    ASSUME MemoryInv, MemoryNext PROVE MemoryInv'
<1> USE DEF MemoryInv
<1>1. ASSUME NEW k \in Keys, Hit(k) PROVE MemoryInv'
    BY <1>1, MoveKeeps DEF Hit
<1>2. ASSUME NEW k \in Keys, Discard(k) PROVE MemoryInv'
    BY <1>2, DropKeeps DEF Discard
<1>3. ASSUME NEW k \in Keys, NEW size \in Sizes, Store(k, size) PROVE MemoryInv'
    BY <1>3, RememberKeeps DEF Store
<1>4. ASSUME NEW c \in Tasks, NEW k \in Keys, Miss(c, k) PROVE MemoryInv'
    BY <1>4 DEF Miss, Sound, Over
<1>5. ASSUME NEW c \in Tasks, ReadNothing(c) PROVE MemoryInv'
    BY <1>5 DEF ReadNothing, Sound, Over
<1>6. ASSUME NEW c \in Tasks, NEW size \in Sizes, ReadEntry(c, size) PROVE MemoryInv'
  <2>1. reading[c] \in Keys /\ UNCHANGED <<max_size, max_bytes>>
    BY <1>6 DEF ReadEntry
  <2>2. Sound'
    BY <1>6, <2>1, MoveKeeps, RememberKeeps DEF ReadEntry
  <2>3. QED BY <1>6, <2>1, <2>2 DEF ReadEntry
<1>7. QED BY <1>1, <1>2, <1>3, <1>4, <1>5, <1>6 DEF MemoryNext

LEMMA MemoryInitFits == MemoryInit => MemoryInv
<1> SUFFICES ASSUME MemoryInit PROVE MemoryInv
    OBVIOUS
<1>1. entries = <<>> /\ used = <<>> /\ current_bytes = 0
      /\ max_size \in Nat /\ max_bytes \in Nat
    BY CacheMemoryAssumption DEF MemoryInit
<1>2. /\ <<>> \in Seq(Entry) /\ <<>> \in Seq(Keys) /\ Len(<<>>) = 0
    OBVIOUS
<1>3. Total(<<>>) = 0
    BY <1>2, BytesFacts DEF Total
<1>4. Recent(<<>>, <<>>)
    BY <1>2 DEF Recent
<1>5. ~Over(<<>>, 0)
    BY <1>1, <1>2 DEF Over
<1>6. QED BY <1>1, <1>3, <1>4, <1>5 DEF MemoryInit, MemoryInv, Sound

LEMMA MemoryActionKeeps == MemoryInv /\ [MemoryNext]_memoryVars => MemoryInv'
<1>1. ASSUME MemoryInv, UNCHANGED memoryVars PROVE MemoryInv'
    BY <1>1 DEF memoryVars, MemoryInv, Sound, Over
<1>2. QED BY <1>1, MemoryStepKeeps

(* The inductive invariant of the memory alone: finds, stores, reads of    *)
(* the store, drops and evictions in any order keep the count right, the   *)
(* limits and the order of use.                                            *)
THEOREM MemoryInvariant == MemorySpec => []MemoryInv
BY MemoryInitFits, MemoryActionKeeps, PTL DEF MemorySpec

LEMMA MemoryInvImplies ==
    ASSUME MemoryInv PROVE MemoryTypeOK /\ MemoryIsBounded /\ HoldsMostRecent
<1>1. /\ max_size \in Nat /\ max_bytes \in Nat /\ current_bytes \in Nat
      /\ entries \in Seq(Entry) /\ used \in Seq(Keys)
    BY MemoryInvType
<1>2. \A i, j \in DOMAIN entries : entries[i].key = entries[j].key => i = j
  <2>1. DOMAIN entries = 1..Len(entries)
    BY <1>1
  <2>2. QED BY <2>1, RecentKeys DEF MemoryInv, Sound
<1>3. MemoryTypeOK
    BY <1>1, <1>2 DEF MemoryInv, MemoryTypeOK
<1>4. MemoryIsBounded
    BY <1>1 DEF MemoryInv, Sound, Over, MemoryIsBounded
<1>5. HoldsMostRecent
    BY RecentIsSuffix DEF MemoryInv, Sound, HoldsMostRecent
<1>6. QED BY <1>3, <1>4, <1>5

-----------------------------------------------------------------------------
(* What EvictsNoMore says of a step.                                       *)
NoMore ==
    \A i \in DOMAIN entries :
        /\ entries[i].key \in Evicted
        /\ \A j \in DOMAIN entries : entries[j].key \in Evicted => j <= i
        => LET before == <<entries[i]>> \o entries'
           IN  Len(before) > max_size \/ (max_bytes > 0 /\ Total(before) > max_bytes)

(* Taking a key out keeps the others, in their order.                      *)
LEMMA WithoutOrder ==
    ASSUME MemoryInv, NEW k \in Keys
    PROVE  \E p \in Nat :
            /\ TakenAt(entries, p, Without(k)) /\ Without(k) \in Seq(Entry)
            /\ p <= Len(entries) => entries[p].key = k
<1>1. /\ entries \in Seq(Entry) /\ KeysOf(entries) \in Seq(Keys)
      /\ Len(KeysOf(entries)) = Len(entries)
      /\ \A i \in 1..Len(entries) : KeysOf(entries)[i] = entries[i].key
    BY MemoryInvType, KeysOfFacts
<1>2. Without(k) \in Seq(Entry)
    BY WithoutFacts DEF Recent
<1>3. PICK p \in 1..(Len(entries) + 1) :
            /\ TakenAt(entries, p, Without(k))
            /\ p <= Len(entries) => KeysOf(entries)[p] = k
    BY <1>1, TakenFacts DEF Without
<1>4. p \in Nat /\ (p <= Len(entries) => p \in 1..Len(entries))
    BY <1>1
<1>5. QED BY <1>1, <1>2, <1>3, <1>4

(* An entry with another key has a place there, and there alone.           *)
LEMMA PlaceWithout ==
    ASSUME MemoryInv, NEW k \in Keys, NEW i \in 1..Len(entries), entries[i].key # k
    PROVE  \E j \in 1..Len(Without(k)) :
            /\ Without(k)[j] = entries[i]
            /\ \A b \in 1..Len(Without(k)) : j < b =>
                    \E a \in 1..Len(entries) : i < a /\ Without(k)[b] = entries[a]
<1>1. PICK p \in Nat :
            /\ TakenAt(entries, p, Without(k)) /\ Without(k) \in Seq(Entry)
            /\ p <= Len(entries) => entries[p].key = k
    BY WithoutOrder
<1>2. PICK m \in Nat, n \in Nat : m = Len(entries) /\ n = Len(Without(k))
    BY <1>1, MemoryInvType
<1>3. /\ p \in 1..(m + 1) /\ n = IF p <= m THEN m - 1 ELSE m
      /\ p <= m => entries[p].key = k
    BY <1>1, <1>2, Zenon DEF TakenAt
<1>4. \A j \in 1..n : Without(k)[j] = IF j < p THEN entries[j] ELSE entries[j + 1]
    BY <1>1, <1>2 DEF TakenAt
<1>5. i # p /\ i \in 1..m
    BY <1>2, <1>3
<1>6. PICK j \in 1..n : j = IF i < p THEN i ELSE i - 1
  <2>1. (IF i < p THEN i ELSE i - 1) \in 1..n
    BY <1>3, <1>5
  <2>2. QED BY <2>1, Zenon
<1>7. Without(k)[j] = entries[i]
  <2>1. CASE i < p
    BY <1>4, <1>6, <2>1
  <2>2. CASE ~(i < p)
    <3>1. ~(j < p) /\ j + 1 = i
      BY <1>3, <1>5, <1>6, <2>2
    <3>2. QED BY <1>4, <3>1
  <2>3. QED BY <2>1, <2>2
<1>8. ASSUME NEW b \in 1..n, j < b
      PROVE  \E a \in 1..m : i < a /\ Without(k)[b] = entries[a]
  <2>1. CASE b < p
    <3>1. b \in 1..m /\ i < b
      BY <1>3, <1>5, <1>6, <1>8, <2>1
    <3>2. QED BY <1>4, <2>1, <3>1
  <2>2. CASE ~(b < p)
    <3>1. b + 1 \in 1..m /\ i < b + 1
      BY <1>3, <1>5, <1>6, <1>8, <2>2
    <3>2. Without(k)[b] = entries[b + 1]
      BY <1>4, <2>2
    <3>3. QED BY <3>1, <3>2
  <2>3. QED BY <2>1, <2>2
<1>9. QED BY <1>2, <1>7, <1>8

(* What is held after a step is not evicted by it.                         *)
LEMMA HeldIsNotEvicted ==
    ASSUME entries' \in Seq(Entry), NEW j \in 1..Len(entries')
    PROVE  entries'[j].key \notin Evicted
<1>1. /\ DOMAIN KeysOf(entries') = 1..Len(entries')
      /\ KeysOf(entries')[j] = entries'[j].key
    BY KeysOfFacts
<1>2. entries'[j].key \in ToSet(KeysOf(entries'))
    BY <1>1 DEF ToSet
<1>3. QED BY <1>2 DEF Evicted

(* A key that is taken out, and not used, takes no other with it.          *)
LEMMA DropEvictsNone ==
    ASSUME MemoryInv, NEW k \in Keys, Drop(k) PROVE NoMore
<1>1. entries' = Without(k) /\ used' = Unused(k)
    BY DEF Drop
<1>2. k \notin ToSet(used') /\ entries' \in Seq(Entry)
    BY <1>1, WithoutFacts DEF Recent
<1>3. ASSUME NEW i \in 1..Len(entries) PROVE entries[i].key \notin Evicted
  <2>1. CASE entries[i].key = k
    BY <1>2, <2>1 DEF Evicted
  <2>2. CASE entries[i].key # k
    <3>1. PICK j \in 1..Len(entries') : entries'[j] = entries[i]
      BY <1>1, <2>2, PlaceWithout
    <3>2. QED BY <1>2, <3>1, HeldIsNotEvicted
  <2>3. QED BY <2>1, <2>2
<1>4. DOMAIN entries = 1..Len(entries)
    BY MemoryInvType
<1>5. QED BY <1>3, <1>4 DEF NoMore

(* A key that is used and held then, none is evicted.                      *)
LEMMA MoveEvictsNone ==
    ASSUME MemoryInv, NEW k \in Keys, Holds(k), entries' = move_to_end(k), Uses(k)
    PROVE  NoMore
<1>1. entries' = Append(Without(k), Get(k))
    BY DEF move_to_end
<1>2. Without(k) \in Seq(Entry) /\ Get(k) \in Entry /\ Get(k).key = k
    BY WithoutFacts DEF Recent
<1>3. PICK n \in Nat : n = Len(Without(k))
    BY <1>2
<1>4. /\ entries' \in Seq(Entry) /\ Len(entries') = n + 1 /\ entries'[n + 1] = Get(k)
      /\ \A j \in 1..n : entries'[j] = Without(k)[j]
    BY <1>1, <1>2, <1>3
<1>5. ASSUME NEW i \in 1..Len(entries) PROVE entries[i].key \notin Evicted
  <2>1. CASE entries[i].key = k
    <3>1. n + 1 \in 1..Len(entries')
      BY <1>4
    <3>2. QED BY <1>2, <1>4, <2>1, <3>1, HeldIsNotEvicted
  <2>2. CASE entries[i].key # k
    <3>1. PICK j \in 1..n : Without(k)[j] = entries[i]
      BY <1>3, <2>2, PlaceWithout
    <3>2. entries'[j] = entries[i] /\ j \in 1..Len(entries')
      BY <1>4, <3>1
    <3>3. QED BY <1>4, <3>2, HeldIsNotEvicted
  <2>3. QED BY <2>1, <2>2
<1>6. DOMAIN entries = 1..Len(entries)
    BY MemoryInvType
<1>7. QED BY <1>5, <1>6 DEF NoMore

(* The last entry popped, put back.                                        *)
LEMMA LeftCons ==
    ASSUME NEW es \in Seq(Entry), NEW n \in 1..Len(es)
    PROVE  <<es[n]>> \o Left(es, n) = Left(es, n - 1)
<1>1. PICK m \in Nat : m = Len(es) - n
    OBVIOUS
<1>2. n \in 0..Len(es) /\ n - 1 \in 0..Len(es) /\ Len(es) - (n - 1) = m + 1
    BY <1>1
<1>3. PICK fs \in Seq(Entry) :
            /\ fs = Left(es, n) /\ Len(fs) = m /\ \A i \in 1..m : fs[i] = es[n + i]
    BY <1>1, <1>2, LeftFacts
<1>4. PICK gs \in Seq(Entry) :
            /\ gs = Left(es, n - 1) /\ Len(gs) = m + 1
            /\ \A i \in 1..(m + 1) : gs[i] = es[(n - 1) + i]
    BY <1>2, LeftFacts
<1>5. PICK cs \in Seq(Entry) : cs = <<es[n]>> /\ Len(cs) = 1 /\ cs[1] = es[n]
  <2>1. es[n] \in Entry
    OBVIOUS
  <2>2. \A e \in Entry : <<e>> \in Seq(Entry) /\ Len(<<e>>) = 1 /\ <<e>>[1] = e
    OBVIOUS
  <2>3. QED BY <2>1, <2>2, Zenon
<1>6. PICK hs \in Seq(Entry) :
            /\ hs = cs \o fs /\ Len(hs) = m + 1
            /\ \A i \in 1..(m + 1) : hs[i] = IF i <= 1 THEN cs[i] ELSE fs[i - 1]
  <2>1. /\ cs \o fs \in Seq(Entry) /\ Len(cs \o fs) = Len(cs) + Len(fs)
        /\ \A i \in 1..(Len(cs) + Len(fs)) :
                (cs \o fs)[i] = IF i <= Len(cs) THEN cs[i] ELSE fs[i - Len(cs)]
    BY ConcatProperties
  <2>2. Len(cs) + Len(fs) = m + 1 /\ Len(cs) = 1
    BY <1>3, <1>5
  <2>3. QED BY <2>1, <2>2
<1>7. ASSUME NEW i \in 1..(m + 1) PROVE hs[i] = gs[i]
  <2>1. CASE i = 1
    <3>1. (n - 1) + i = n /\ i <= 1
      BY <2>1
    <3>2. hs[i] = cs[i] /\ gs[i] = es[(n - 1) + i]
      BY <1>4, <1>6, <3>1
    <3>3. QED BY <1>5, <2>1, <3>1, <3>2
  <2>2. CASE i # 1
    <3>1. PICK j \in 1..m : j = i - 1
      <4>1. i - 1 \in 1..m
        BY <2>2
      <4>2. QED BY <4>1, Zenon
    <3>2. n + j = (n - 1) + i /\ ~(i <= 1)
      BY <2>2, <3>1
    <3>3. hs[i] = fs[j] /\ gs[i] = es[(n - 1) + i] /\ fs[j] = es[n + j]
      BY <1>3, <1>4, <1>6, <3>1, <3>2
    <3>4. QED BY <3>2, <3>3
  <2>3. QED BY <2>1, <2>2
<1>8. hs = gs
    BY <1>4, <1>6, <1>7, SeqEqual
<1>9. QED BY <1>3, <1>4, <1>5, <1>6, <1>8

(* Either nothing is left, the new entry included, and then not one entry  *)
(* is allowed; or the last one evicted stands right before what is left,   *)
(* and the loop saw both together exceed a limit.                          *)
LEMMA RememberEvictsNoMore ==
    ASSUME MemoryInv, NEW k \in Keys, NEW size \in Sizes, remember_memory(k, size),
           UNCHANGED <<max_size, max_bytes>>
    PROVE  NoMore
<1>1. CASE Rejected(size)
    BY <1>1, DropEvictsNone DEF remember_memory
<1>2. CASE ~Rejected(size)
  <2> DEFINE e == [key |-> k, size |-> size]
             Exceeds(es) == Len(es) > max_size \/ (max_bytes > 0 /\ Total(es) > max_bytes)
  <2>1. PICK fs, n :
            /\ fs = Append(Without(k), e) /\ fs \in Seq(Entry)
            /\ n \in 0..Len(fs) /\ entries' = Left(fs, n)
            /\ Recent(fs, used')
            /\ n > 0 => Over(Left(fs, n - 1), Total(Left(fs, n - 1)))
    BY <1>2, RememberFacts
  <2>2. e.key = k /\ e.size = size
    OBVIOUS
  <2> HIDE DEF e
  <2>3. /\ max_size \in Nat /\ max_bytes \in Nat /\ entries \in Seq(Entry)
        /\ Without(k) \in Seq(Entry) /\ size \in Nat
    BY MemoryInvType, WithoutFacts, CacheMemoryAssumption DEF Recent, Sizes
  <2>4. PICK w \in Nat, m \in Nat :
            /\ w = Len(Without(k)) /\ m = Len(fs) /\ m = w + 1 /\ fs[m] = e
            /\ \A j \in 1..w : fs[j] = Without(k)[j]
    BY <2>1, <2>3
  <2>5. /\ entries' \in Seq(Entry) /\ Len(entries') = m - n /\ n \in Nat
        /\ \A i \in 1..(m - n) : entries'[i] = fs[n + i]
    <3>1. /\ Left(fs, n) \in Seq(Entry) /\ Len(Left(fs, n)) = Len(fs) - n
          /\ \A i \in 1..(Len(fs) - n) : Left(fs, n)[i] = fs[n + i]
      BY <2>1, LeftFacts
    <3>2. n \in Nat /\ Len(fs) = m
      BY <2>1, <2>4
    <3>3. QED BY <2>1, <3>1, <3>2
  <2>6. ASSUME NEW i \in 1..Len(entries), entries[i].key \in Evicted,
               \A j \in 1..Len(entries) : entries[j].key \in Evicted => j <= i
        PROVE  Exceeds(<<entries[i]>> \o entries')
    <3>1. CASE n = m
      <4>1. Over(Left(fs, m - 1), Total(Left(fs, m - 1)))
        BY <2>1, <2>4, <3>1
      <4>2. Len(Left(fs, m - 1)) = 1 /\ Total(Left(fs, m - 1)) = Total(fs) - Bytes(fs)[m - 1]
        <5>1. m - 1 \in 0..Len(fs) /\ m - (m - 1) = 1
          BY <2>4
        <5>2. QED BY <2>1, <2>4, <5>1, LeftFacts
      <4>3. Total(fs) - Bytes(fs)[m - 1] = size
        <5>1. m \in 1..Len(fs) /\ m - 1 \in 0..Len(fs)
          BY <2>4
        <5>2. Bytes(fs)[m] = Bytes(fs)[m - 1] + size /\ Bytes(fs)[m - 1] \in Nat
          BY <2>1, <2>2, <2>4, <5>1, BytesFacts
        <5>3. PICK x \in Nat : x = Bytes(fs)[m - 1]
          BY <5>2
        <5>4. (x + size) - x = size
          BY <2>3
        <5>5. QED BY <2>4, <5>2, <5>3, <5>4, Zenon DEF Total
      <4>4. 1 > max_size
        BY <1>2, <2>3, <4>1, <4>2, <4>3 DEF Over, Rejected
      <4>5. Len(<<entries[i]>> \o entries') = 1
        BY <2>3, <2>4, <2>5, <3>1
      <4>6. QED BY <4>4, <4>5
    <3>2. CASE n < m
      <4>1. entries[i].key # k
        <5>1. m - n \in 1..Len(entries') /\ n + (m - n) = m
          BY <2>5, <3>2
        <5>2. entries'[m - n].key = k
          BY <2>2, <2>4, <2>5, <5>1
        <5>3. QED BY <2>5, <2>6, <5>1, <5>2, HeldIsNotEvicted
      <4>2. PICK j \in 1..w :
                /\ Without(k)[j] = entries[i]
                /\ \A b \in 1..w : j < b =>
                        \E a \in 1..Len(entries) : i < a /\ Without(k)[b] = entries[a]
        BY <2>4, <4>1, PlaceWithout
      <4>3. fs[j] = entries[i]
        BY <2>4, <4>2
      <4>4. j <= n
        <5> SUFFICES ASSUME j > n PROVE FALSE
          BY <2>4, <2>5
        <5>1. PICK h \in 1..(m - n) : h = j - n /\ n + h = j
          <6>1. j - n \in 1..(m - n) /\ n + (j - n) = j
            BY <2>4, <2>5
          <6>2. QED BY <6>1, Zenon
        <5>2. entries'[h] = entries[i]
          BY <2>5, <4>3, <5>1
        <5>3. QED BY <2>5, <2>6, <5>2, HeldIsNotEvicted
      <4>5. ~(j < n)
        <5> SUFFICES ASSUME j < n PROVE FALSE
          OBVIOUS
        <5>1. n \in 1..w
          BY <2>4, <2>5, <3>2
        <5>2. PICK a \in 1..Len(entries) : i < a /\ Without(k)[n] = entries[a]
          BY <4>2, <5>1
        <5>3. fs[n] = entries[a] /\ n \in 1..Len(fs)
          BY <2>4, <5>1, <5>2
        <5>4. entries[a].key \in ToSet(used')
          BY <2>1, <5>3, RecentKeys
        <5>5. ASSUME NEW b \in 1..Len(entries'), entries'[b].key = entries[a].key PROVE FALSE
          <6>1. PICK c \in 1..Len(fs) : c = n + b /\ c # n
            <7>1. n + b \in 1..Len(fs) /\ n + b # n
              BY <2>4, <2>5
            <7>2. QED BY <7>1, Zenon
          <6>2. fs[c].key = fs[n].key
            BY <2>5, <5>3, <5>5, <6>1
          <6>3. QED BY <2>1, <5>3, <6>1, <6>2, RecentKeys
        <5>6. entries[a].key \notin ToSet(KeysOf(entries'))
          BY <2>5, <5>5, KeysOfFacts DEF ToSet
        <5>7. a <= i
          BY <2>6, <5>4, <5>6 DEF Evicted
        <5>8. QED BY <2>3, <5>2, <5>7
      <4>6. j = n /\ n \in 1..Len(fs)
        BY <2>4, <2>5, <4>4, <4>5
      <4>7. <<entries[i]>> \o entries' = Left(fs, n - 1)
        BY <2>1, <4>3, <4>6, LeftCons
      <4>8. Over(Left(fs, n - 1), Total(Left(fs, n - 1)))
        BY <2>1, <4>6
      <4>9. QED BY <4>7, <4>8 DEF Over
    <3>3. QED BY <2>1, <2>4, <2>5, <3>1, <3>2
  <2>7. DOMAIN entries = 1..Len(entries)
    BY <2>3
  <2>8. QED BY <2>6, <2>7, Zenon DEF NoMore
<1>3. QED BY <1>1, <1>2

(* Without a change nothing is evicted.                                    *)
LEMMA StutterEvictsNone ==
    ASSUME MemoryInv, UNCHANGED entries PROVE NoMore
<1>1. entries' \in Seq(Entry) /\ DOMAIN entries = 1..Len(entries)
    BY MemoryInvType
<1>2. QED BY <1>1, HeldIsNotEvicted DEF NoMore

LEMMA MemoryStepEvictsNoMore ==
    ASSUME MemoryInv, [MemoryNext]_memoryVars PROVE NoMore
<1>1. CASE UNCHANGED memoryVars
    BY <1>1, StutterEvictsNone DEF memoryVars
<1>2. ASSUME NEW k \in Keys, Hit(k) PROVE NoMore
    BY <1>2, MoveEvictsNone DEF Hit
<1>3. ASSUME NEW k \in Keys, Discard(k) PROVE NoMore
    BY <1>3, DropEvictsNone DEF Discard
<1>4. ASSUME NEW k \in Keys, NEW size \in Sizes, Store(k, size) PROVE NoMore
    BY <1>4, RememberEvictsNoMore DEF Store
<1>5. ASSUME NEW c \in Tasks, NEW k \in Keys, Miss(c, k) PROVE NoMore
    BY <1>5, StutterEvictsNone DEF Miss
<1>6. ASSUME NEW c \in Tasks, ReadNothing(c) PROVE NoMore
    BY <1>6, StutterEvictsNone DEF ReadNothing
<1>7. ASSUME NEW c \in Tasks, NEW size \in Sizes, ReadEntry(c, size) PROVE NoMore
  <2>1. reading[c] \in Keys
    BY <1>7 DEF ReadEntry, MemoryInv
  <2>2. QED BY <1>7, <2>1, MoveEvictsNone, RememberEvictsNoMore DEF ReadEntry
<1>8. QED BY <1>1, <1>2, <1>3, <1>4, <1>5, <1>6, <1>7 DEF MemoryNext

-----------------------------------------------------------------------------
(* The exchange: its state besides the memory, and a request's key.        *)
ClientFits ==
    /\ client \in [Clients -> {"idle", "waiting", "reading"}]
    /\ over \subseteq Clients
    /\ got \in [Clients -> {None, "response", "conda_error", "failure"}]
    /\ body \in [Clients -> 0..(ResponseMax + 1)]
    /\ calls \in [Clients -> 0..MaxCalls]

ServerFits ==
    /\ late \subseteq Tasks
    /\ handler \in [Tasks -> Looking \cup {"none", "queued", "solve"}]
    /\ stage \in [Tasks -> {"lookup", "reading", "checking"}]
    /\ found \in [Tasks -> BOOLEAN]
    /\ key \in [Tasks -> Keys \cup {None}]
    /\ \A c \in Tasks :
        /\ handler[c] # "none" => key[c] \in Keys
        /\ stage[c] # "lookup" => handler[c] \in Looking

ReplyFits == reply \in [Clients -> Replies \cup {None}]

ExchangeInv == MemoryInv /\ ClientFits /\ ServerFits /\ ReplyFits

LEMMA ExchangeInvImplies ==
    ASSUME ExchangeInv
    PROVE  ExchangeTypeOK /\ MemoryIsBounded /\ HoldsMostRecent
BY MemoryInvImplies
   DEF ExchangeInv, ClientFits, ServerFits, ReplyFits, ExchangeTypeOK

(* The ways a step of either side leaves its state.                        *)
LEMMA MovesFits ==
    ASSUME ServerFits, NEW c \in Tasks, NEW place \in Looking \cup {"queued", "solve"},
           Moves(c, place), key[c] \in Keys, UNCHANGED <<late, found, key>>
    PROVE  ServerFits'
BY DEF ServerFits, Moves

LEMMA StageFits ==
    ASSUME ServerFits, NEW c \in Tasks, NEW where \in {"lookup", "reading", "checking"},
           stage' = [stage EXCEPT ![c] = where], handler[c] \in Looking,
           UNCHANGED found \/ \E b \in BOOLEAN : found' = [found EXCEPT ![c] = b],
           UNCHANGED <<handler, late, key>>
    PROVE  ServerFits'
BY DEF ServerFits, Looking

LEMMA ArrivesFits ==
    ASSUME ServerFits, NEW c \in Tasks, NEW k \in Keys, Arrives(c, k)
    PROVE  ServerFits' /\ UNCHANGED memoryVars
BY DEF ServerFits, Arrives, Moves, Looking

LEMMA RespondsFits ==
    ASSUME ClientFits, ServerFits, ReplyFits, NEW c \in Tasks,
           NEW status \in {200, 422, 500}, Responds(c, status)
    PROVE  ClientFits' /\ ServerFits' /\ ReplyFits'
<1>1. ClientFits'
    BY DEF ClientFits, Responds, clientSide
<1>2. ServerFits'
    BY DEF ServerFits, Responds, Moves
<1>3. ReplyFits'
    BY DEF ReplyFits, Responds
<1>4. QED BY <1>1, <1>2, <1>3

LEMMA CallReturnsFits ==
    ASSUME ClientFits, ServerFits, ReplyFits, NEW c \in Clients,
           NEW outcome \in {"response", "conda_error", "failure"}, CallReturns(c, outcome)
    PROVE  ClientFits' /\ ServerFits' /\ ReplyFits' /\ UNCHANGED memoryVars
<1>1. ClientFits'
    BY SolverExchangeAssumption DEF ClientFits, CallReturns
<1>2. ServerFits' /\ UNCHANGED memoryVars
    BY DEF ServerFits, CallReturns, serverSide
<1>3. ReplyFits'
    BY DEF ReplyFits, CallReturns
<1>4. QED BY <1>1, <1>2, <1>3

(* What a step of a handler does to the memory is a step of the memory.    *)
LEMMA HandlerStepFits ==
    ASSUME ExchangeInv, NEW c \in Tasks, HandlerStep(c)
    PROVE  [MemoryNext]_memoryVars /\ ClientFits' /\ ServerFits' /\ ReplyFits'
<1> DEFINE Fit == [MemoryNext]_memoryVars /\ ClientFits' /\ ServerFits' /\ ReplyFits'
<1>1. /\ MemoryInv /\ ClientFits /\ ServerFits /\ ReplyFits
      /\ handler[c] # "none" => key[c] \in Keys
      /\ stage[c] # "lookup" => handler[c] \in Looking
    BY DEF ExchangeInv, ServerFits
<1>2. CASE Refuse(c)
    BY <1>1, <1>2, RespondsFits DEF Refuse
<1>3. CASE LookUp(c)
  <2>1. key[c] \in Keys /\ UNCHANGED <<clientSide, handler, late, key, reply>>
    BY <1>1, <1>3 DEF LookUp, Looking
  <2>2. MemoryNext
    BY <1>3, <2>1 DEF LookUp, MemoryNext
  <2>3. ServerFits'
    BY <1>1, <1>3, <2>1, StageFits DEF LookUp
  <2>4. QED BY <1>1, <2>1, <2>2, <2>3 DEF ClientFits, ReplyFits, clientSide
<1>4. CASE ReadsStore(c)
  <2>1. handler[c] \in Looking /\ UNCHANGED <<clientSide, handler, late, key, reply>>
    BY <1>1, <1>4 DEF ReadsStore
  <2>2. MemoryNext
    BY <1>4 DEF ReadsStore, MemoryNext
  <2>3. ServerFits'
    BY <1>1, <1>4, <2>1, StageFits DEF ReadsStore
  <2>4. QED BY <1>1, <2>1, <2>2, <2>3 DEF ClientFits, ReplyFits, clientSide
<1>5. CASE Matches(c)
    BY <1>1, <1>5, RespondsFits DEF Matches, InTime
<1>6. CASE Unmatched(c)
  <2>1. CASE Responds(c, 500)
    BY <1>1, <1>6, <2>1, RespondsFits DEF Unmatched
  <2>2. CASE ~Responds(c, 500)
    <3>1. /\ Moves(c, IF handler[c] = "probe" THEN "queued" ELSE "solve")
          /\ UNCHANGED <<clientSide, late, found, key, reply>> /\ UNCHANGED memoryVars
      BY <1>6, <2>2 DEF Unmatched
    <3>2. key[c] \in Keys
      BY <1>1, <1>6 DEF Unmatched, Looking
    <3>3. QED BY <1>1, <3>1, <3>2, MovesFits DEF ClientFits, ReplyFits, clientSide
  <2>3. QED BY <2>1, <2>2
<1>7. CASE Publishes(c)
  <2>1. [MemoryNext]_memoryVars
    BY <1>1, <1>7 DEF Publishes, MemoryNext
  <2>2. QED BY <1>1, <1>7, <2>1, RespondsFits DEF Publishes, InTime
<1>8. CASE AcquireSlot(c)
    BY <1>1, <1>8, MovesFits DEF AcquireSlot, ClientFits, ReplyFits, clientSide, Looking
<1>9. CASE WorkerSolves(c)
    BY <1>1, <1>9, MovesFits DEF WorkerSolves, ClientFits, ReplyFits, clientSide, Looking
<1>10. CASE WorkerFails(c)
    BY <1>1, <1>10, RespondsFits DEF WorkerFails
<1>11. CASE ServerDeadline(c)
    BY <1>1, <1>11 DEF ServerDeadline, ClientFits, ServerFits, ReplyFits, clientSide
<1>12. CASE GatewayTimeout(c)
  <2>1. reading \in [Tasks -> Keys \cup {None}]
    BY <1>1 DEF MemoryInv
  <2>2. CASE reading[c] # None
    <3>1. ReadNothing(c)
      BY <1>12, <2>2 DEF GatewayTimeout, ReadNothing
    <3>2. MemoryNext
      BY <3>1 DEF MemoryNext
    <3>3. QED BY <1>1, <1>12, <3>2, RespondsFits DEF GatewayTimeout
  <2>3. CASE reading[c] = None
    <3>1. UNCHANGED reading
      BY <1>12, <2>1, <2>3 DEF GatewayTimeout
    <3>2. UNCHANGED memoryVars
      BY <1>12, <3>1 DEF GatewayTimeout, memoryVars
    <3>3. QED BY <1>1, <1>12, <3>2, RespondsFits DEF GatewayTimeout
  <2>4. QED BY <2>2, <2>3
<1>13. QED
    BY <1>2, <1>3, <1>4, <1>5, <1>6, <1>7, <1>8, <1>9, <1>10, <1>11, <1>12 DEF HandlerStep

(* A step of a client leaves the memory alone.                             *)
LEMMA ClientStepFits ==
    ASSUME ExchangeInv, NEW c \in Clients, ClientStep(c)
    PROVE  UNCHANGED memoryVars /\ ClientFits' /\ ServerFits' /\ ReplyFits'
<1>1. ClientFits /\ ServerFits /\ ReplyFits /\ c \in Tasks
    BY SolverExchangeAssumption DEF ExchangeInv
<1>2. ASSUME NEW k \in Keys, Post(c, k)
      PROVE  UNCHANGED memoryVars /\ ClientFits' /\ ServerFits' /\ ReplyFits'
  <2>1. ServerFits' /\ UNCHANGED memoryVars
    BY <1>1, <1>2, ArrivesFits DEF Post
  <2>2. ClientFits' /\ ReplyFits'
    BY <1>1, <1>2, SolverExchangeAssumption DEF Post, ClientFits, ReplyFits
  <2>3. QED BY <2>1, <2>2
<1>3. CASE ClientDeadline(c)
    BY <1>1, <1>3 DEF ClientDeadline, ClientFits, ServerFits, ReplyFits, serverSide
<1>4. CASE CallTimesOut(c) \/ Disconnected(c) \/ BadLength(c) \/ TooLong(c)
    BY <1>1, <1>4, CallReturnsFits DEF CallTimesOut, Disconnected, BadLength, TooLong
<1>5. CASE GetsResponse(c)
    BY <1>1, <1>5 DEF GetsResponse, ClientFits, ServerFits, ReplyFits, serverSide
<1>6. ASSUME NEW n \in 1..ReadSize, Reads(c, n)
      PROVE  UNCHANGED memoryVars /\ ClientFits' /\ ServerFits' /\ ReplyFits'
  <2>1. body[c] \in 0..(ResponseMax + 1) /\ body[c] + n \in 0..(ResponseMax + 1)
    BY <1>1, <1>6, SolverExchangeAssumption DEF Reads, Asked, ClientFits
  <2>2. ClientFits'
    BY <1>1, <1>6, <2>1 DEF Reads, ClientFits
  <2>3. QED BY <1>1, <1>6, <2>2 DEF Reads, ServerFits, ReplyFits, serverSide
<1>7. ASSUME NEW outcome \in {"response", "conda_error", "failure"}, EndOfBody(c, outcome)
      PROVE  UNCHANGED memoryVars /\ ClientFits' /\ ServerFits' /\ ReplyFits'
    BY <1>1, <1>7, CallReturnsFits DEF EndOfBody
<1>8. QED BY <1>2, <1>3, <1>4, <1>5, <1>6, <1>7 DEF ClientStep

LEMMA ExchangeStepFits ==
    ASSUME ExchangeInv, [ExchangeNext]_allVars
    PROVE  [MemoryNext]_memoryVars /\ ClientFits' /\ ServerFits' /\ ReplyFits'
<1>1. ClientFits /\ ServerFits /\ ReplyFits
    BY DEF ExchangeInv
<1>2. ASSUME UNCHANGED exchange PROVE ClientFits' /\ ServerFits' /\ ReplyFits'
    BY <1>1, <1>2 DEF exchange, ClientFits, ServerFits, ReplyFits, serverSide
<1>3. CASE UNCHANGED allVars
    BY <1>2, <1>3 DEF allVars
<1>4. CASE \E c \in Clients : ClientStep(c)
    BY <1>4, ClientStepFits
<1>5. CASE \E t \in Tasks : HandlerStep(t)
    BY <1>5, HandlerStepFits
<1>6. ASSUME NEW t \in Tasks \ Clients, OtherRequest(t)
      PROVE  [MemoryNext]_memoryVars /\ ClientFits' /\ ServerFits' /\ ReplyFits'
    BY <1>1, <1>6, ArrivesFits DEF OtherRequest, ClientFits, ReplyFits, clientSide
<1>7. CASE PublicStep
    BY <1>2, <1>7 DEF PublicStep, MemoryNext
<1>8. QED BY <1>3, <1>4, <1>5, <1>6, <1>7 DEF ExchangeNext

(* The inductive invariant of the exchange: a request in the handler has a *)
(* key, and only a look into the cache, under the publication lock, is     *)
(* past its lookup.                                                        *)
THEOREM ExchangeInvariant == ExchangeSpec => []ExchangeInv
<1>1. ExchangeInit => ExchangeInv
  <2>1. ASSUME ExchangeInit PROVE ClientFits /\ ServerFits /\ ReplyFits
    BY <2>1, SolverExchangeAssumption
       DEF ExchangeInit, ClientFits, ServerFits, ReplyFits, Looking
  <2>2. QED BY <2>1, MemoryInitFits DEF ExchangeInit, ExchangeInv
<1>2. ExchangeInv /\ [ExchangeNext]_allVars => ExchangeInv'
  <2> SUFFICES ASSUME ExchangeInv, [ExchangeNext]_allVars PROVE ExchangeInv'
    OBVIOUS
  <2>1. [MemoryNext]_memoryVars /\ ClientFits' /\ ServerFits' /\ ReplyFits'
    BY ExchangeStepFits
  <2>2. MemoryInv'
    BY <2>1, MemoryActionKeeps DEF ExchangeInv
  <2>3. QED BY <2>1, <2>2 DEF ExchangeInv
<1>3. QED BY <1>1, <1>2, PTL DEF ExchangeSpec

(* Handlers that look up, read the store, publish and are timed out half   *)
(* way, and the public endpoints beside them, do to the memory only what   *)
(* ResultCacheMemory allows: the exchange implements it.                   *)
THEOREM ExchangeServesTheMemory == ExchangeSpec => MemorySpec
<1>1. ExchangeInit => MemoryInit
    BY DEF ExchangeInit
<1>2. ExchangeInv /\ [ExchangeNext]_allVars => [MemoryNext]_memoryVars
    BY ExchangeStepFits
<1>3. QED BY <1>1, <1>2, ExchangeInvariant, PTL DEF ExchangeSpec, MemorySpec

(* Every variable of the exchange keeps its type, and no key is held       *)
(* twice.                                                                  *)
THEOREM ExchangeTypeCorrect == ExchangeSpec => []ExchangeTypeOK
<1>1. ExchangeInv => ExchangeTypeOK
    BY ExchangeInvImplies
<1>2. QED BY <1>1, ExchangeInvariant, PTL

(* However requests come, current_bytes is the size of what is held and    *)
(* both limits of the cache hold.                                          *)
THEOREM MemoryStaysBounded == ExchangeSpec => []MemoryIsBounded
<1>1. ExchangeInv => MemoryIsBounded
    BY ExchangeInvImplies
<1>2. QED BY <1>1, ExchangeInvariant, PTL

(* What is held are the most recently used keys, in the order of use, also *)
(* when an entry was remembered while the store was read for it.           *)
THEOREM MemoryHoldsMostRecent == ExchangeSpec => []HoldsMostRecent
<1>1. ExchangeInv => HoldsMostRecent
    BY ExchangeInvImplies
<1>2. QED BY <1>1, ExchangeInvariant, PTL

(* The eviction loop of remember_memory stops as soon as it may.           *)
THEOREM MemoryEvictsNoMore == ExchangeSpec => EvictsNoMore
<1>1. ExchangeInv /\ [ExchangeNext]_allVars => [NoMore]_memoryVars
    BY ExchangeStepFits, MemoryStepEvictsNoMore DEF ExchangeInv
<1>2. EvictsNoMore <=> [][NoMore]_memoryVars
    BY DEF EvictsNoMore, NoMore
<1>3. QED BY <1>1, <1>2, ExchangeInvariant, PTL DEF ExchangeSpec

(* What ReadsAreBounded says of a step.                                    *)
WholeBody ==
    \A c \in Clients :
        /\ body'[c] <= ResponseMax + 1
        /\ got'[c] \in {"response", "conda_error"} /\ got'[c] # got[c] =>
            /\ reply[c].status = IF got'[c] = "response" THEN 200 ELSE 422
            /\ body[c] = reply[c].size /\ body[c] <= ResponseMax

(* Only EndOfBody returns something else than a failure.                   *)
LEMMA ClientReadsWhole ==
    ASSUME ExchangeInv, NEW c \in Clients, ClientStep(c), NEW d \in Clients,
           got'[d] \in {"response", "conda_error"}, got'[d] # got[d]
    PROVE  /\ reply[d].status = IF got'[d] = "response" THEN 200 ELSE 422
           /\ body[d] = reply[d].size /\ body[d] <= ResponseMax
<1>1. got \in [Clients -> {None, "response", "conda_error", "failure"}]
    BY DEF ExchangeInv, ClientFits
<1>2. ASSUME NEW outcome \in {"response", "conda_error", "failure"}, CallReturns(c, outcome)
      PROVE  d = c /\ got'[d] = outcome
    BY <1>1, <1>2 DEF CallReturns
<1>3. ASSUME NEW k \in Keys, Post(c, k) PROVE FALSE
    BY <1>1, <1>3, SolverExchangeAssumption DEF Post
<1>4. CASE ClientDeadline(c) \/ GetsResponse(c) \/ \E n \in 1..ReadSize : Reads(c, n)
    BY <1>4 DEF ClientDeadline, GetsResponse, Reads
<1>5. CASE CallTimesOut(c) \/ Disconnected(c) \/ BadLength(c) \/ TooLong(c)
    BY <1>2, <1>5 DEF CallTimesOut, Disconnected, BadLength, TooLong
<1>6. ASSUME NEW outcome \in {"response", "conda_error", "failure"}, EndOfBody(c, outcome)
      PROVE  /\ reply[d].status = IF got'[d] = "response" THEN 200 ELSE 422
             /\ body[d] = reply[d].size /\ body[d] <= ResponseMax
    BY <1>2, <1>6 DEF EndOfBody, Decoded
<1>7. QED BY <1>3, <1>4, <1>5, <1>6 DEF ClientStep

LEMMA OthersReturnNothing ==
    ASSUME [ExchangeNext]_allVars, ~\E c \in Clients : ClientStep(c) PROVE UNCHANGED got
<1>1. ASSUME NEW t \in Tasks, HandlerStep(t) PROVE UNCHANGED got
    BY <1>1 DEF HandlerStep, Refuse, LookUp, ReadsStore, Matches, Unmatched, Publishes,
                AcquireSlot, WorkerSolves, WorkerFails, ServerDeadline, GatewayTimeout,
                Responds, clientSide
<1>2. QED BY <1>1 DEF ExchangeNext, allVars, exchange, OtherRequest, PublicStep, clientSide

(* read_response buffers at most a byte past the limit, and solve()        *)
(* returns a response, or raises an error of conda's, only from a whole    *)
(* body.                                                                   *)
THEOREM ReadsStayBounded == ExchangeSpec => ReadsAreBounded
<1>1. ExchangeInv /\ ExchangeInv' /\ [ExchangeNext]_allVars => [WholeBody]_allVars
  <2> SUFFICES ASSUME ExchangeInv, ExchangeInv', [ExchangeNext]_allVars PROVE WholeBody
    OBVIOUS
  <2>1. ASSUME NEW c \in Clients PROVE body'[c] <= ResponseMax + 1
    BY SolverExchangeAssumption DEF ExchangeInv, ClientFits
  <2>2. ASSUME NEW d \in Clients, got'[d] \in {"response", "conda_error"}, got'[d] # got[d]
        PROVE  /\ reply[d].status = IF got'[d] = "response" THEN 200 ELSE 422
               /\ body[d] = reply[d].size /\ body[d] <= ResponseMax
    BY <2>2, OthersReturnNothing, ClientReadsWhole
  <2>3. QED BY <2>1, <2>2 DEF WholeBody
<1>2. ReadsAreBounded <=> [][WholeBody]_allVars
    BY DEF ReadsAreBounded, WholeBody
<1>3. QED BY <1>1, <1>2, ExchangeInvariant, PTL DEF ExchangeSpec

-----------------------------------------------------------------------------
(* Children.  The safety properties speak about answered requests; why     *)
(* they hold is in the steps before, in how thread, child and pipe go      *)
(* together at each of them.  Local says that for one request, ChildInv    *)
(* adds the limiter's bound.                                               *)

(* The thread has made up its mind.                                        *)
Decided(r) == thread[r] \in {"reaping", "joining", "killing", "answered"}

(* The child before it writes, while it writes and once it has.            *)
PipeInv(r) ==
    /\ child[r] \in {"none", "running", "pooling"} =>
        said[r] = NoAnswer /\ pipe[r] = "empty"
    /\ child[r] = "writing" => pipe[r] = "part" /\ Open(r)
    /\ child[r] = "exiting" => pipe[r] = "whole" \/ Decided(r)
    /\ thread[r] = "receiving" => pipe[r] = "whole" \/ child[r] \in {"writing", "dead"}
    /\ pipe[r] = "whole" => child[r] \in {"exiting", "dead"}
    /\ r \in prompt => pipe[r] = "whole"

ResultInv(r) ==
    /\ returned[r] = "ok" => said[r] = "ok" /\ pipe[r] = "whole"
    /\ returned[r] = "timeout" => r \in expired \/ said[r] = "timeout"
    /\ Decided(r) /\ r \in prompt /\ returned[r] # said[r] =>
        thread[r] = "answered" /\ signal[r] = "kill"

ReapInv(r) ==
    /\ thread[r] \in {"idle", "queued", "admitted"} => child[r] = "none"
    /\ thread[r] = "polling" => child[r] # "none"
    /\ thread[r] = "killing" /\ ChildAlive(r) => signal[r] = "kill"
    /\ thread[r] = "answered" /\ ChildAlive(r) => signal[r] = "kill" /\ returned[r] = "error"

Local(r) == PipeInv(r) /\ ResultInv(r) /\ ReapInv(r)

SlotsInv == Cardinality(Admitted) <= MaxConcurrency

ChildInv == ChildTypeOK /\ SlotsInv /\ \A r \in ChildRequests : Local(r)

-----------------------------------------------------------------------------
(* What a step of one request leaves as it is for another.                 *)
Same(s) ==
    /\ thread'[s] = thread[s] /\ returned'[s] = returned[s]
    /\ child'[s] = child[s] /\ signal'[s] = signal[s]
    /\ said'[s] = said[s] /\ pipe'[s] = pipe[s]
    /\ s \in prompt' <=> s \in prompt
    /\ s \in expired => s \in expired'

LEMMA SameKeepsLocal == ASSUME NEW s, Local(s), Same(s) PROVE Local(s)'
BY DEF Local, PipeInv, ResultInv, ReapInv, Same, Decided, Open, ChildAlive

(* Who is admitted does not change, or becomes fewer, but for Acquire.     *)
LEMMA SlotsKept ==
    ASSUME ChildInv, Admitted' \subseteq Admitted PROVE SlotsInv'
<1>1. IsFiniteSet(Admitted)
    BY ChildSolveAssumption, FS_Subset DEF Admitted
<1>2. Cardinality(Admitted') <= Cardinality(Admitted)
    BY <1>1, FS_Subset
<1>3. Cardinality(Admitted) \in Nat /\ Cardinality(Admitted') \in Nat
    BY <1>1, FS_Subset, FS_CardinalityType
<1>4. QED BY <1>2, <1>3, ChildSolveAssumption DEF ChildInv, SlotsInv

LEMMA SlotTaken ==
    ASSUME ChildInv, NEW r \in ChildRequests, Acquire(r) PROVE SlotsInv'
<1>1. Admitted' = Admitted \cup {r} /\ r \notin Admitted
    BY DEF Acquire, Go, Admitted, ChildInv, ChildTypeOK
<1>2. IsFiniteSet(Admitted)
    BY ChildSolveAssumption, FS_Subset DEF Admitted
<1>3. Cardinality(Admitted') = Cardinality(Admitted) + 1
    BY <1>1, <1>2, FS_AddElement
<1>4. Cardinality(Admitted) \in Nat
    BY <1>2, FS_CardinalityType
<1>5. QED BY <1>3, <1>4, ChildSolveAssumption DEF Acquire, SlotsInv

-----------------------------------------------------------------------------
(* The steps of the server.                                                *)
LEMMA ServerKeeps ==
    ASSUME ChildInv, NEW r \in ChildRequests,
           \/ Arrive(r) \/ Expire(r) \/ Cancelled(r) \/ Acquire(r)
           \/ Begin(r) \/ ThreadStep(r)
    PROVE  ChildTypeOK' /\ Local(r)' /\ (\A s \in ChildRequests \ {r} : Same(s))
           /\ (Acquire(r) \/ Admitted' \subseteq Admitted)
<1> USE ChildSolveAssumption
<1>0. ChildTypeOK /\ Local(r)
    BY DEF ChildInv
<1>1. CASE Arrive(r) \/ Expire(r) \/ Acquire(r)
    BY <1>0, <1>1 DEF Arrive, Expire, Acquire, Go, processes, ChildTypeOK, Same, Admitted,
       Local, PipeInv, ResultInv, ReapInv, Decided, Open, ChildAlive
<1>2. CASE Cancelled(r)
    BY <1>0, <1>2 DEF Cancelled, Go, Returns, processes, ChildTypeOK, Same, Admitted, Outcomes,
       Local, PipeInv, ResultInv, ReapInv, Decided, Open, ChildAlive
<1>3. ASSUME NEW outcome \in Outcomes, NotStarted(r, outcome)
      PROVE  ChildTypeOK' /\ Local(r)' /\ (\A s \in ChildRequests \ {r} : Same(s))
             /\ Admitted' \subseteq Admitted
    BY <1>0, <1>3 DEF NotStarted, Go, Returns, processes, ChildTypeOK, Same, Admitted, Outcomes,
       Local, PipeInv, ResultInv, ReapInv, Decided, Open, ChildAlive
<1>4. CASE Start(r)
    BY <1>0, <1>4 DEF Start, Go, ChildTypeOK, Same, Admitted,
       Local, PipeInv, ResultInv, ReapInv, Decided, Open, ChildAlive
<1>5. CASE Poll(r)
    BY <1>0, <1>5 DEF Poll, EndOfFile, Go, processes, ChildTypeOK, Same, Admitted,
       Local, PipeInv, ResultInv, ReapInv, Decided, Open, ChildAlive
<1>6. CASE PollTimesOut(r)
    BY <1>0, <1>6 DEF PollTimesOut, Go, Returns, processes, ChildTypeOK, Same, Admitted, Outcomes,
       Local, PipeInv, ResultInv, ReapInv, Decided, Open, ChildAlive
<1>7. CASE ReceivesAnswer(r)
    BY <1>0, <1>7 DEF ReceivesAnswer, EndOfFile, Go, Returns, processes, ChildTypeOK, Same, Admitted,
       Outcomes, Local, PipeInv, ResultInv, ReapInv, Decided, Open, ChildAlive
<1>8. CASE Terminate(r) \/ Kill(r)
    BY <1>0, <1>8 DEF Terminate, Kill, SignalIfAlive, Go, ChildTypeOK, Same, Admitted,
       Local, PipeInv, ResultInv, ReapInv, Decided, Open, ChildAlive
<1>9. CASE Finish(r)
    BY <1>0, <1>9 DEF Finish, Go, Returns, processes, ChildTypeOK, Same, Admitted, Outcomes,
       Local, PipeInv, ResultInv, ReapInv, Decided, Open, ChildAlive
<1>10. QED BY <1>1, <1>2, <1>3, <1>4, <1>5, <1>6, <1>7, <1>8, <1>9 DEF Begin, ThreadStep

(* The steps of the child and its pool.                                    *)
LEMMA ChildKeeps ==
    ASSUME ChildInv, NEW r \in ChildRequests, ProcessStep(r)
    PROVE  ChildTypeOK' /\ Local(r)' /\ (\A s \in ChildRequests \ {r} : Same(s))
           /\ Admitted' = Admitted
<1> USE ChildSolveAssumption
<1>0. ChildTypeOK /\ Local(r)
    BY DEF ChildInv
<1>1. CASE StartPool(r) \/ PoolBreaks(r) \/ PoolWorkerExits(r)
    BY <1>0, <1>1 DEF StartPool, PoolBreaks, PoolWorkerExits, server, ChildTypeOK, Same,
       Admitted, Local, PipeInv, ResultInv, ReapInv, Decided, Open, ChildAlive
<1>2. ASSUME NEW status \in ChildStatuses(r), Write(r, status)
      PROVE  ChildTypeOK' /\ Local(r)' /\ (\A s \in ChildRequests \ {r} : Same(s))
             /\ Admitted' = Admitted
    BY <1>0, <1>2 DEF Write, ChildStatuses, Outcomes, server, ChildTypeOK, Same, Admitted,
       Local, PipeInv, ResultInv, ReapInv, Decided, Open, ChildAlive
<1>3. CASE WriteRest(r)
    BY <1>0, <1>3 DEF WriteRest, server, ChildTypeOK, Same, Admitted,
       Local, PipeInv, ResultInv, ReapInv, Decided, Open, ChildAlive
<1>4. CASE Exit(r) \/ ChildCrashes(r) \/ DiesOfKill(r)
    BY <1>0, <1>4 DEF Exit, ChildCrashes, DiesOfKill, Dies, server, ChildTypeOK, Same, Admitted,
       Local, PipeInv, ResultInv, ReapInv, Decided, Open, ChildAlive
<1>5. QED BY <1>1, <1>2, <1>3, <1>4 DEF ProcessStep

-----------------------------------------------------------------------------
(* The inductive invariant of the children.                                *)
THEOREM ChildInvariant == ChildSpec => []ChildInv
<1>1. ChildInit => ChildInv
  <2> SUFFICES ASSUME ChildInit PROVE ChildInv
    OBVIOUS
  <2>1. ChildTypeOK
    BY ChildSolveAssumption DEF ChildInit, ChildTypeOK, Outcomes
  <2>2. SlotsInv
    <3>1. Admitted = {}
        BY DEF ChildInit, Admitted
    <3>2. QED BY <3>1, FS_EmptySet, ChildSolveAssumption DEF SlotsInv
  <2>3. ASSUME NEW r \in ChildRequests PROVE Local(r)
    BY <2>3, ChildSolveAssumption DEF ChildInit, Local, PipeInv, ResultInv, ReapInv, Decided,
       Open, ChildAlive
  <2>4. QED BY <2>1, <2>2, <2>3 DEF ChildInv
<1>2. ChildInv /\ [ChildNext]_childVars => ChildInv'
  <2> SUFFICES ASSUME ChildInv, [ChildNext]_childVars PROVE ChildInv'
    OBVIOUS
  <2>1. ASSUME NEW r \in ChildRequests,
               \/ Arrive(r) \/ Expire(r) \/ Cancelled(r) \/ Acquire(r)
               \/ Begin(r) \/ ThreadStep(r) \/ ProcessStep(r)
        PROVE  ChildInv'
    <3>1. /\ ChildTypeOK' /\ Local(r)' /\ \A s \in ChildRequests \ {r} : Same(s)
          /\ Acquire(r) \/ Admitted' \subseteq Admitted
        BY <2>1, ServerKeeps, ChildKeeps
    <3>2. \A s \in ChildRequests : Local(s)'
        BY <3>1, SameKeepsLocal DEF ChildInv
    <3>3. SlotsInv'
        BY <3>1, SlotsKept, SlotTaken
    <3>4. QED BY <3>1, <3>2, <3>3 DEF ChildInv
  <2>2. CASE UNCHANGED childVars
    BY <2>2 DEF childVars, ChildInv, ChildTypeOK, SlotsInv, Admitted, Local, PipeInv, ResultInv,
       ReapInv, Decided, Open, ChildAlive
  <2>3. QED BY <2>1, <2>2 DEF ChildNext
<1>3. QED BY <1>1, <1>2, PTL DEF ChildSpec

(* Every variable keeps its type.                                          *)
THEOREM ChildTypeCorrect == ChildSpec => []ChildTypeOK
<1>1. ChildInv => ChildTypeOK
    BY DEF ChildInv
<1>2. QED BY <1>1, ChildInvariant, PTL

(* However many requests come, the processes that were not killed are at   *)
(* most as many as the slots, and none lives on without its request.       *)
THEOREM LimiterBoundsChildren == ChildSpec => []ChildrenHaveSlots
<1>1. ChildInv => ChildrenHaveSlots
  <2> SUFFICES ASSUME ChildInv PROVE ChildrenHaveSlots
    OBVIOUS
  <2> DEFINE Kept == {r \in ChildRequests : ChildAlive(r) /\ signal[r] # "kill"}
  <2>1. \A r \in ChildRequests : ChildAlive(r) /\ r \notin Admitted =>
            signal[r] = "kill" /\ returned[r] = "error"
    BY DEF ChildInv, Local, ReapInv, Admitted, ChildAlive, ChildTypeOK
  <2>2. IsFiniteSet(Admitted) /\ Kept \subseteq Admitted
    BY <2>1, ChildSolveAssumption, FS_Subset DEF Admitted
  <2>3. Cardinality(Kept) <= Cardinality(Admitted)
    BY <2>2, FS_Subset
  <2>4. Cardinality(Kept) \in Nat /\ Cardinality(Admitted) \in Nat
    BY <2>2, FS_Subset, FS_CardinalityType
  <2>5. Cardinality(Kept) <= MaxConcurrency
    BY <2>3, <2>4, ChildSolveAssumption DEF ChildInv, SlotsInv
  <2>6. QED BY <2>1, <2>5 DEF ChildrenHaveSlots
<1>2. QED BY <1>1, ChildInvariant, PTL

(* No answer is invented, no timeout premature and no answer in time lost. *)
THEOREM AnswersHonest == ChildSpec => []AnswersAreHonest
<1>1. ChildInv => AnswersAreHonest
    BY DEF ChildInv, Local, ResultInv, Decided, AnswersAreHonest
<1>2. QED BY <1>1, ChildInvariant, PTL

(* recv(), which has no deadline, only waits for a child that is writing   *)
(* what it has in memory, or that is dead.                                 *)
THEOREM ReceivesServed == ChildSpec => []RecvIsServed
<1>1. ChildInv => RecvIsServed
    BY DEF ChildInv, Local, PipeInv, RecvIsServed
<1>2. QED BY <1>1, ChildInvariant, PTL
=============================================================================
