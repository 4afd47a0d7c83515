----------------------- MODULE StoreOperationsProofs -----------------------
(***************************************************************************)
(* Proofs about StoreOperations for any clients, keys and bounds.          *)
(*                                                                         *)
(* The operation run() has received, the stream's buffer and its blocked   *)
(* senders are one queue, Pending: every step appends to it, removes its   *)
(* head, withdraws an operation that is in neither of the first two        *)
(* places, or leaves it alone.  That is the refinement of SerialQueue, and *)
(* everything else follows from it: the queue stays in the order of        *)
(* arrival, so nothing overtakes, and what has been reported lies behind.  *)
(***************************************************************************)
EXTENDS StoreOperations, SequenceTheorems, TLAPS

(* Facts about sequences.                                                  *)
LEMMA AppendBehind ==
    ASSUME NEW S, NEW s \in Seq(S), NEW w \in Seq(S), NEW x \in S
    PROVE  s \o Append(w, x) = Append(s \o w, x)
<1>1. <<x>> \in Seq(S) /\ s \o w \in Seq(S)
  BY ConcatProperties
<1>2. Append(w, x) = w \o <<x>> /\ Append(s \o w, x) = (s \o w) \o <<x>>
  BY <1>1, AppendIsConcat
<1>3. QED BY <1>1, <1>2, ConcatAssociative

LEMMA TailBehind ==
    ASSUME NEW S, NEW x \in S, NEW b \in Seq(S), NEW w \in Seq(S)
    PROVE  /\ (<<x>> \o b) \o w # <<>>
           /\ Head((<<x>> \o b) \o w) = x
           /\ Tail((<<x>> \o b) \o w) = (<<>> \o b) \o w
<1> DEFINE q == b \o w
<1>1. q \in Seq(S) /\ <<x>> \in Seq(S) /\ <<>> \in Seq(S)
  BY ConcatProperties
<1>2. (<<x>> \o b) \o w = <<x>> \o q /\ (<<>> \o b) \o w = q
  BY <1>1, ConcatAssociative, ConcatEmptySeq
<1> HIDE DEF q
<1>3. /\ <<x>> \o q \in Seq(S) /\ Len(<<x>> \o q) = Len(q) + 1
      /\ \A i \in 1..(Len(q) + 1) : (<<x>> \o q)[i] = IF i <= 1 THEN x ELSE q[i - 1]
      /\ Len(q) \in Nat
  BY <1>1, ConcatProperties, LenProperties
<1>4. <<x>> \o q # <<>> /\ Head(<<x>> \o q) = x
  BY <1>3
<1>5. /\ Tail(<<x>> \o q) \in Seq(S) /\ Len(Tail(<<x>> \o q)) = Len(q)
      /\ \A i \in 1..Len(q) : Tail(<<x>> \o q)[i] = (<<x>> \o q)[i + 1]
  BY <1>3, <1>4, HeadTailProperties
<1>6. \A i \in 1..Len(q) : Tail(<<x>> \o q)[i] = q[i]
  BY <1>3, <1>5
<1>7. Tail(<<x>> \o q) = q
  BY <1>1, <1>5, <1>6, SeqEqual
<1>8. QED BY <1>2, <1>4, <1>7

LEMMA HeadAndTail ==
    ASSUME NEW S, NEW s \in Seq(S), s # <<>>
    PROVE  <<Head(s)>> \o Tail(s) = s
<1>1. /\ Head(s) \in S /\ Tail(s) \in Seq(S) /\ Len(Tail(s)) = Len(s) - 1
      /\ \A i \in 1..Len(Tail(s)) : Tail(s)[i] = s[i + 1]
      /\ Len(s) \in Nat \ {0} /\ Head(s) = s[1]
  BY HeadTailProperties, EmptySeq
<1>2. <<Head(s)>> \in Seq(S) /\ Len(<<Head(s)>>) = 1 /\ <<Head(s)>>[1] = Head(s)
  BY <1>1
<1>3. /\ <<Head(s)>> \o Tail(s) \in Seq(S) /\ Len(<<Head(s)>> \o Tail(s)) = Len(s)
      /\ \A i \in 1..Len(s) : (<<Head(s)>> \o Tail(s))[i] =
            IF i <= 1 THEN <<Head(s)>>[i] ELSE Tail(s)[i - 1]
  BY <1>1, <1>2, ConcatProperties
<1>4. ASSUME NEW i \in 1..Len(s) PROVE (<<Head(s)>> \o Tail(s))[i] = s[i]
  <2>1. CASE i = 1
    BY <1>1, <1>2, <1>3, <2>1
  <2>2. CASE i # 1
    BY <1>1, <1>3, <2>2
  <2>3. QED BY <2>1, <2>2
<1>5. QED BY <1>3, <1>4, SeqEqual

LEMMA RemoveAtProperties ==
    ASSUME NEW S, NEW s \in Seq(S), NEW i \in 1..Len(s)
    PROVE  /\ RemoveAt(s, i) \in Seq(S) /\ Len(RemoveAt(s, i)) = Len(s) - 1
           /\ \A j \in 1..(Len(s) - 1) : RemoveAt(s, i)[j] = IF j < i THEN s[j] ELSE s[j + 1]
<1>1. Len(s) \in Nat /\ (\A j \in 1..Len(s) : s[j] \in S) /\ i \in Nat
  BY LenProperties, ElementOfSeq
<1> DEFINE before == SubSeq(s, 1, i - 1)
           after  == SubSeq(s, i + 1, Len(s))
<1>2. /\ before \in Seq(S) /\ Len(before) = i - 1
      /\ \A j \in 1..(i - 1) : before[j] = s[j]
  <2>1. (\A j \in 1..(i - 1) : s[j] \in S) /\ 1 \in Int /\ i - 1 \in Int
    BY <1>1
  <2>2. /\ before \in Seq(S) /\ Len(before) = IF 1 <= i - 1 THEN (i - 1) - 1 + 1 ELSE 0
        /\ \A j \in 1..((i - 1) - 1 + 1) : before[j] = s[1 + j - 1]
    BY <2>1, SubSeqProperties
  <2> HIDE DEF before
  <2>3. (i - 1) - 1 + 1 = i - 1 /\ (\A j \in 1..(i - 1) : 1 + j - 1 = j)
    BY <1>1
  <2>4. QED BY <1>1, <2>2, <2>3
<1>3. /\ after \in Seq(S) /\ Len(after) = Len(s) - i
      /\ \A j \in 1..(Len(s) - i) : after[j] = s[i + j]
  <2>1. (\A j \in (i + 1)..Len(s) : s[j] \in S) /\ i + 1 \in Int /\ Len(s) \in Int
    BY <1>1
  <2>2. /\ after \in Seq(S)
        /\ Len(after) = IF i + 1 <= Len(s) THEN Len(s) - (i + 1) + 1 ELSE 0
        /\ \A j \in 1..(Len(s) - (i + 1) + 1) : after[j] = s[(i + 1) + j - 1]
    BY <2>1, SubSeqProperties
  <2> HIDE DEF after
  <2>3. /\ Len(s) - (i + 1) + 1 = Len(s) - i
        /\ \A j \in 1..(Len(s) - i) : (i + 1) + j - 1 = i + j
        /\ i + 1 <= Len(s) \/ Len(s) - i = 0
    BY <1>1
  <2>4. ASSUME NEW j \in 1..(Len(s) - i) PROVE after[j] = s[i + j]
    <3>1. j \in 1..(Len(s) - (i + 1) + 1) /\ (i + 1) + j - 1 = i + j
      BY <2>3
    <3>2. after[j] = s[(i + 1) + j - 1]
      BY <2>2, <3>1
    <3>3. QED BY <3>1, <3>2
  <2>5. Len(after) = Len(s) - i
    BY <2>2, <2>3
  <2>6. QED BY <2>2, <2>4, <2>5
<1>4. RemoveAt(s, i) = before \o after
  BY DEF RemoveAt
<1> HIDE DEF before, after
<1>5. /\ before \o after \in Seq(S) /\ Len(before \o after) = Len(s) - 1
      /\ \A j \in 1..(Len(s) - 1) :
            (before \o after)[j] = IF j <= i - 1 THEN before[j] ELSE after[j - (i - 1)]
  <2>1. Len(before) + Len(after) = Len(s) - 1
    BY <1>1, <1>2, <1>3
  <2>2. /\ before \o after \in Seq(S)
        /\ Len(before \o after) = Len(before) + Len(after)
        /\ \A j \in 1..(Len(before) + Len(after)) : (before \o after)[j] =
                IF j <= Len(before) THEN before[j] ELSE after[j - Len(before)]
    BY <1>2, <1>3, ConcatProperties
  <2>3. QED BY <1>2, <2>1, <2>2
<1>6. ASSUME NEW j \in 1..(Len(s) - 1)
      PROVE  RemoveAt(s, i)[j] = IF j < i THEN s[j] ELSE s[j + 1]
  <2>1. CASE j < i
    <3>1. j \in 1..(i - 1) /\ j <= i - 1
      BY <1>1, <2>1
    <3>2. QED BY <1>2, <1>4, <1>5, <2>1, <3>1
  <2>2. CASE ~(j < i)
    <3>1. j - (i - 1) \in 1..(Len(s) - i) /\ ~(j <= i - 1) /\ i + (j - (i - 1)) = j + 1
      BY <1>1, <2>2
    <3>2. after[j - (i - 1)] = s[j + 1]
      BY <1>3, <3>1
    <3>3. QED BY <1>4, <1>5, <2>2, <3>1, <3>2
  <2>3. QED BY <2>1, <2>2
<1>7. QED BY <1>4, <1>5, <1>6

LEMMA RemoveBehind ==
    ASSUME NEW S, NEW s \in Seq(S), NEW w \in Seq(S), NEW i \in 1..Len(w)
    PROVE  s \o RemoveAt(w, i) = RemoveAt(s \o w, Len(s) + i)
<1>1. /\ Len(s) \in Nat /\ Len(w) \in Nat /\ i \in Nat
      /\ s \o w \in Seq(S) /\ Len(s \o w) = Len(s) + Len(w)
      /\ \A j \in 1..(Len(s) + Len(w)) :
            (s \o w)[j] = IF j <= Len(s) THEN s[j] ELSE w[j - Len(s)]
  BY LenProperties, ConcatProperties
<1>2. /\ RemoveAt(w, i) \in Seq(S) /\ Len(RemoveAt(w, i)) = Len(w) - 1
      /\ \A j \in 1..(Len(w) - 1) : RemoveAt(w, i)[j] = IF j < i THEN w[j] ELSE w[j + 1]
  BY RemoveAtProperties
<1>3. Len(s) + i \in 1..Len(s \o w)
  BY <1>1
<1>4. /\ RemoveAt(s \o w, Len(s) + i) \in Seq(S)
      /\ Len(RemoveAt(s \o w, Len(s) + i)) = Len(s \o w) - 1
      /\ \A j \in 1..(Len(s \o w) - 1) : RemoveAt(s \o w, Len(s) + i)[j] =
            IF j < Len(s) + i THEN (s \o w)[j] ELSE (s \o w)[j + 1]
  BY <1>1, <1>3, RemoveAtProperties
<1> DEFINE v == RemoveAt(w, i)
<1>5. /\ s \o v \in Seq(S) /\ Len(s \o v) = Len(s) + Len(v)
      /\ \A j \in 1..(Len(s) + Len(v)) :
            (s \o v)[j] = IF j <= Len(s) THEN s[j] ELSE v[j - Len(s)]
  BY <1>2, ConcatProperties
<1>6. Len(s \o v) = Len(s \o w) - 1
  BY <1>1, <1>2, <1>5
<1>7. ASSUME NEW j \in 1..Len(s \o v)
      PROVE  (s \o v)[j] = RemoveAt(s \o w, Len(s) + i)[j]
  <2>0. j \in Nat /\ j \in 1..(Len(s) + Len(w) - 1) /\ j \in 1..(Len(s) + Len(w))
        /\ j + 1 \in 1..(Len(s) + Len(w)) /\ j \in 1..(Len(s) + Len(v))
    BY <1>1, <1>2, <1>5
  <2>1. CASE j <= Len(s)
    <3>1. j < Len(s) + i
      BY <1>1, <2>0, <2>1
    <3>2. QED BY <1>1, <1>4, <1>5, <1>6, <2>0, <2>1, <3>1
  <2>2. CASE ~(j <= Len(s)) /\ j < Len(s) + i
    <3>1. j - Len(s) \in 1..(Len(w) - 1) /\ j - Len(s) < i
      BY <1>1, <2>0, <2>2
    <3>2. (s \o v)[j] = w[j - Len(s)]
      BY <1>2, <1>5, <2>0, <2>2, <3>1
    <3>3. QED BY <1>1, <1>4, <1>6, <2>0, <2>2, <3>2
  <2>3. CASE ~(j <= Len(s)) /\ ~(j < Len(s) + i)
    <3>1. /\ j - Len(s) \in 1..(Len(w) - 1) /\ ~(j - Len(s) < i)
          /\ ~(j + 1 <= Len(s)) /\ (j + 1) - Len(s) = (j - Len(s)) + 1
      BY <1>1, <2>0, <2>3
    <3>2. (s \o v)[j] = w[(j - Len(s)) + 1]
      BY <1>2, <1>5, <2>0, <2>3, <3>1
    <3>3. (s \o w)[j + 1] = w[(j + 1) - Len(s)]
      BY <1>1, <2>0, <3>1
    <3>4. QED BY <1>4, <1>6, <2>0, <2>3, <3>1, <3>2, <3>3
  <2>4. QED BY <2>1, <2>2, <2>3
<1>8. QED BY <1>4, <1>5, <1>6, <1>7, SeqEqual

-----------------------------------------------------------------------------
(* Type correctness, and when the consumer finds nothing.                  *)

(* A consumer that blocks, or has ended, has left nothing behind it.       *)
ConsumerInv ==
    /\ consumer \in {"blocked", "ended"} => buffer = <<>> /\ waiting = <<>>
    /\ consumer = "blocked" => status = "running"
    /\ consumer = "ended" => status # "running"
    /\ status = "stopped" => consumer = "ended"

(* A caller and its operation.                                             *)
CallersInv ==
    \A c \in Submitters :
        /\ op[c] = None <=> submitter[c] = "idle"
        /\ op[c] # None => op[c].by = c
        /\ op[c] # None => op[c].at <= sent
        /\ op[c] # None => (op[c].at = 0 <=> submitter[c] = "sending")

ShapeInv == TypeOK /\ ConsumerInv /\ CallersInv

LEMMA OperationFacts ==
    ASSUME NEW item \in Operations
    PROVE  /\ item.by \in Submitters /\ item.kind \in Kinds /\ item.key \in Keys
           /\ item.at \in Nat /\ item.at <= MaxSends
BY StoreAssumption DEF Operations

LEMMA QueueTypes ==
    ASSUME TypeOK
    PROVE  /\ buffer \in Seq(Operations) /\ waiting \in Seq(Operations)
           /\ current # None => current \in Operations
           /\ buffer \o waiting \in Seq(Operations)
           /\ Pending \in Seq(Operations)
           /\ Len(buffer) \in Nat /\ Len(waiting) \in Nat /\ sent \in Nat
<1>1. /\ buffer \in Seq(Operations) /\ waiting \in Seq(Operations)
      /\ current # None => current \in Operations
  BY DEF TypeOK
<1>2. (IF current = None THEN <<>> ELSE <<current>>) \in Seq(Operations)
  BY <1>1
<1>3. (IF current = None THEN <<>> ELSE <<current>>) \o buffer \in Seq(Operations)
  BY <1>1, <1>2, ConcatProperties
<1>4. QED BY <1>1, <1>3, ConcatProperties, LenProperties, StoreAssumption DEF Pending, TypeOK

(* What the steps of the submitters do to the queue.                       *)
Ahead == (IF current = None THEN <<>> ELSE <<current>>) \o buffer

LEMMA AheadTypes ==
    ASSUME TypeOK
    PROVE  Ahead \in Seq(Operations) /\ Pending = Ahead \o waiting
<1>1. buffer \in Seq(Operations) /\ (current # None => current \in Operations)
  BY DEF TypeOK
<1>2. (IF current = None THEN <<>> ELSE <<current>>) \in Seq(Operations)
  BY <1>1
<1>3. QED BY <1>1, <1>2, ConcatProperties DEF Ahead, Pending

LEMMA SendAppends ==
    ASSUME ShapeInv, NEW c \in Submitters, Send(c)
    PROVE  /\ op'[c] \in Operations /\ op'[c].at = sent + 1 /\ op'[c] # None
           /\ op'[c].by = c /\ op'[c].kind = op[c].kind /\ op'[c].key = op[c].key
           /\ Pending' = Append(Pending, op'[c])
           /\ TypeOK'
<1> DEFINE item == [op[c] EXCEPT !.at = sent + 1]
<1>0. /\ TypeOK /\ ConsumerInv /\ op[c] \in Operations /\ op[c].by = c
      /\ sent \in Nat /\ sent < MaxSends /\ MaxSends \in Nat /\ sent' = sent + 1
      /\ op' = [op EXCEPT ![c] = item] /\ None \notin Operations
  BY StoreAssumption DEF ShapeInv, CallersInv, Send, TypeOK
<1>1. /\ item \in Operations /\ item.at = sent + 1 /\ item.by = c
      /\ item.kind = op[c].kind /\ item.key = op[c].key
  BY <1>0 DEF Operations
<1>2. op'[c] = item /\ op' \in [Submitters -> Operations \cup {None}]
  BY <1>0, <1>1 DEF TypeOK
<1>3. /\ Len(buffer) \in Nat /\ Len(buffer) <= 1
      /\ Len(buffer) >= Capacity <=> Len(buffer) = 1
      /\ Len(buffer) < Capacity <=> Len(buffer) = 0
  <2>1. buffer \in Seq(Operations) /\ Len(buffer) <= Capacity
    BY <1>0 DEF TypeOK
  <2>2. Len(buffer) \in Nat
    BY <2>1, LenProperties
  <2> DEFINE n == Len(buffer)
  <2>3. n \in Nat /\ n <= 1 /\ Capacity = 1
    BY <2>1, <2>2 DEF Capacity
  <2> HIDE DEF n
  <2>4. /\ n \in Nat /\ n <= 1 /\ (n >= Capacity <=> n = 1) /\ (n < Capacity <=> n = 0)
    BY <2>3
  <2>5. QED BY <2>4 DEF n
<1>4. /\ \/ /\ consumer = "blocked" /\ current' = item /\ consumer' = "applying"
            /\ UNCHANGED <<buffer, waiting>>
         \/ /\ consumer # "blocked" /\ Len(buffer) = 0
            /\ buffer' = Append(buffer, item)
            /\ UNCHANGED <<consumer, current, waiting>>
         \/ /\ consumer # "blocked" /\ Len(buffer) = 1
            /\ waiting' = Append(waiting, item)
            /\ UNCHANGED <<consumer, current, buffer>>
      /\ SubmitterGoes(c, "waiting") /\ UNCHANGED <<status, store, event>>
  BY <1>0, <1>3 DEF Send
<1> HIDE DEF item
<1>5. Ahead \in Seq(Operations) /\ Pending = Ahead \o waiting
      /\ buffer \in Seq(Operations) /\ waiting \in Seq(Operations)
  BY <1>0, AheadTypes DEF TypeOK
<1>6. Len(buffer) = 0 => buffer = <<>> /\ waiting = <<>>
  <2>1. Len(buffer) = 0 => buffer = <<>>
    BY <1>5, EmptySeq
  <2>2. waiting # <<>> => Len(buffer) = 1
    BY <1>0 DEF TypeOK, Capacity
  <2>3. QED BY <2>1, <2>2
<1>7. Pending' = Append(Pending, item)
  <2>1. CASE consumer = "blocked"
    <3>1. current = None /\ buffer = <<>> /\ waiting = <<>>
      BY <1>0, <2>1 DEF TypeOK, ConsumerInv
    <3>2. Pending = <<>>
      BY <3>1, ConcatEmptySeq, EmptySeq DEF Pending
    <3>3. current' = item /\ item # None /\ buffer' = <<>> /\ waiting' = <<>>
      BY <1>0, <1>1, <1>4, <2>1, <3>1
    <3>4. Pending' = (<<item>> \o <<>>) \o <<>> /\ <<item>> \in Seq(Operations)
      BY <1>1, <3>3 DEF Pending
    <3>5. Pending' = <<item>>
      BY <3>4, ConcatEmptySeq
    <3>6. QED BY <3>2, <3>5
  <2>2. CASE consumer # "blocked" /\ Len(buffer) = 0
    <3> DEFINE first == IF current = None THEN <<>> ELSE <<current>>
    <3>1. first \in Seq(Operations) /\ current' = current /\ buffer' = Append(buffer, item)
          /\ waiting' = <<>> /\ buffer = <<>> /\ waiting = <<>>
      BY <1>0, <1>4, <1>6, <2>2 DEF TypeOK
    <3>2. Pending = (first \o <<>>) \o <<>>
      BY <3>1 DEF Pending
    <3>3. Pending' = (first \o Append(<<>>, item)) \o <<>>
      BY <3>1 DEF Pending
    <3> HIDE DEF first
    <3>4. Pending = first
      BY <3>1, <3>2, ConcatEmptySeq
    <3>5. first \o Append(<<>>, item) = Append(first \o <<>>, item)
      BY <1>1, <3>1, AppendBehind, EmptySeq
    <3>6. Append(first, item) \in Seq(Operations)
      BY <1>1, <3>1
    <3>7. QED BY <3>1, <3>3, <3>4, <3>5, <3>6, ConcatEmptySeq
  <2>3. CASE consumer # "blocked" /\ Len(buffer) = 1
    <3>1. Ahead' = Ahead /\ waiting' = Append(waiting, item)
      BY <1>4, <2>3 DEF Ahead
    <3>2. Pending' = Ahead \o Append(waiting, item)
      BY <3>1 DEF Pending, Ahead
    <3>3. QED BY <1>1, <1>5, <3>2, AppendBehind
  <2>4. QED BY <1>4, <2>1, <2>2, <2>3
<1>8. TypeOK'
  <2>1. /\ current' \in Operations \cup {None}
        /\ current' = None <=> consumer' \in {"polling", "blocked", "ended"}
        /\ consumer' \in {"polling", "blocked", "applying", "verifying", "undoing", "ended"}
    BY <1>0, <1>1, <1>4 DEF TypeOK
  <2>2. /\ buffer' \in Seq(Operations) /\ Len(buffer') <= Capacity
        /\ waiting' \in Seq(Operations) /\ (waiting' # <<>> => Len(buffer') = Capacity)
    <3>1. CASE consumer = "blocked"
      BY <1>0, <1>4, <3>1 DEF TypeOK
    <3>2. CASE consumer # "blocked" /\ Len(buffer) = 0
      <4>1. buffer' = Append(<<>>, item) /\ waiting' = <<>>
        BY <1>4, <1>6, <3>2
      <4>2. <<>> \in Seq(Operations) /\ Len(<<>>) = 0
        BY EmptySeq
      <4>3. Append(<<>>, item) \in Seq(Operations) /\ Len(Append(<<>>, item)) = 1
        BY <1>1, <4>2, AppendProperties
      <4>4. QED BY <4>1, <4>2, <4>3 DEF Capacity
    <3>3. CASE consumer # "blocked" /\ Len(buffer) = 1
      <4>1. buffer' = buffer /\ waiting' = Append(waiting, item)
        BY <1>4, <3>3
      <4>2. waiting' \in Seq(Operations)
        BY <1>1, <1>5, <4>1, AppendProperties
      <4>3. buffer' \in Seq(Operations) /\ Len(buffer') = Capacity /\ Capacity <= Capacity
        BY <1>5, <3>3, <4>1 DEF Capacity
      <4>4. QED BY <4>2, <4>3
    <3>4. QED BY <1>4, <3>1, <3>2, <3>3
  <2>3. sent' \in 0..MaxSends
    BY <1>0
  <2>4. submitter' \in [Submitters -> {"idle", "sending", "waiting"}]
    BY <1>0, <1>4 DEF SubmitterGoes, TypeOK
  <2>5. QED BY <1>0, <1>2, <1>4, <2>1, <2>2, <2>3, <2>4 DEF TypeOK
<1>9. QED BY <1>0, <1>1, <1>2, <1>7, <1>8

LEMMA GiveUpWithdraws ==
    ASSUME ShapeInv, NEW c \in Submitters, GiveUp(c)
    PROVE  /\ \/ Pending' = Pending
              \/ \E i \in (Capacity + 1)..Len(Pending) :
                    Pending' = RemoveAt(Pending, i) /\ Pending[i] = op[c]
           /\ TypeOK'
<1>0. /\ TypeOK /\ Ahead \in Seq(Operations) /\ Pending = Ahead \o waiting
      /\ buffer \in Seq(Operations) /\ waiting \in Seq(Operations)
  BY AheadTypes DEF ShapeInv, TypeOK
<1>1. Ahead' = Ahead /\ Pending' = Ahead \o waiting'
  BY DEF GiveUp, Ahead, Pending
<1>2. /\ \/ waiting' = waiting
         \/ \E i \in 1..Len(waiting) : waiting' = RemoveAt(waiting, i) /\ waiting[i] = op[c]
  BY <1>0, LenProperties DEF GiveUp
<1>3. CASE waiting' = waiting
  <2>1. TypeOK'
    BY <1>0, <1>3 DEF GiveUp, Returns, SubmitterGoes, TypeOK
  <2>2. QED BY <1>0, <1>1, <1>3, <2>1
<1>4. ASSUME NEW i \in 1..Len(waiting), waiting' = RemoveAt(waiting, i), waiting[i] = op[c]
      PROVE  /\ \E j \in (Capacity + 1)..Len(Pending) :
                    Pending' = RemoveAt(Pending, j) /\ Pending[j] = op[c]
             /\ TypeOK'
  <2>1. Len(buffer) = Capacity
    BY <1>0 DEF TypeOK
  <2>2. Len(Ahead) \in Nat /\ Len(waiting) \in Nat /\ Len(Ahead) >= 1
    <3> DEFINE first == IF current = None THEN <<>> ELSE <<current>>
    <3>1. first \in Seq(Operations) /\ Ahead = first \o buffer
      BY <1>0 DEF TypeOK, Ahead
    <3> HIDE DEF first
    <3>2. Len(Ahead) = Len(first) + Len(buffer) /\ Len(first) \in Nat
      BY <1>0, <3>1, ConcatProperties, LenProperties
    <3>3. QED BY <1>0, <2>1, <3>2, LenProperties DEF Capacity
  <2>3. Pending' = RemoveAt(Pending, Len(Ahead) + i)
    BY <1>0, <1>1, <1>4, RemoveBehind
  <2>4. Len(Ahead) + i \in (Capacity + 1)..Len(Pending)
    <3>1. Len(Pending) = Len(Ahead) + Len(waiting)
      BY <1>0, ConcatProperties
    <3>2. QED BY <2>2, <3>1 DEF Capacity
  <2>5. waiting' \in Seq(Operations)
    BY <1>0, <1>4, RemoveAtProperties
  <2>6. TypeOK'
    BY <1>0, <2>1, <2>5 DEF GiveUp, Returns, SubmitterGoes, TypeOK
  <2>7. Pending[Len(Ahead) + i] = op[c]
    <3>1. /\ Len(Ahead) + i \in 1..(Len(Ahead) + Len(waiting))
          /\ ~(Len(Ahead) + i <= Len(Ahead)) /\ (Len(Ahead) + i) - Len(Ahead) = i
      BY <2>2
    <3>2. (Ahead \o waiting)[Len(Ahead) + i] = waiting[(Len(Ahead) + i) - Len(Ahead)]
      BY <1>0, <3>1, ConcatProperties
    <3>3. QED BY <1>0, <1>4, <3>1, <3>2
  <2>8. QED BY <2>3, <2>4, <2>6, <2>7
<1>5. QED BY <1>2, <1>3, <1>4

LEMMA SubmittersType ==
    ASSUME ShapeInv, NEW c \in Submitters,
           \/ \E kind \in Kinds, key \in Keys : Submit(c, kind, key)
           \/ SendClosed(c) \/ Completes(c)
    PROVE  Pending' = Pending /\ TypeOK'
<1>1. TypeOK /\ UNCHANGED <<status, consumer, current, buffer, waiting, sent, store>>
  BY DEF ShapeInv, Submit, SendClosed, Completes, streamVars
<1>2. Pending' = Pending
  BY <1>1 DEF Pending
<1>3. op' \in [Submitters -> Operations \cup {None}]
  <2>1. ASSUME NEW kind \in Kinds, NEW key \in Keys, Submit(c, kind, key)
        PROVE  op' \in [Submitters -> Operations \cup {None}]
    <3>1. [by |-> c, kind |-> kind, key |-> key, at |-> 0] \in Operations
      BY StoreAssumption DEF Operations
    <3>2. QED BY <1>1, <2>1, <3>1 DEF Submit, TypeOK
  <2>2. CASE SendClosed(c) \/ Completes(c)
    BY <1>1, <2>2 DEF SendClosed, Completes, Returns, TypeOK
  <2>3. QED BY <2>1, <2>2
<1>4. /\ submitter' \in [Submitters -> {"idle", "sending", "waiting"}]
      /\ event' \in [Submitters -> {"unset", "ok", "error"}]
  BY <1>1 DEF Submit, SendClosed, Completes, Returns, SubmitterGoes, TypeOK
<1>5. QED BY <1>1, <1>2, <1>3, <1>4 DEF TypeOK

-----------------------------------------------------------------------------
(* What the steps of the consumer do to the queue.                         *)
LEMMA ReceiveKeepsQueue ==
    ASSUME ShapeInv, Receive
    PROVE  Pending' = Pending /\ TypeOK'
<1>0. /\ TypeOK /\ current = None /\ consumer = "polling"
      /\ buffer \in Seq(Operations) /\ waiting \in Seq(Operations)
      /\ UNCHANGED <<status, sent, store, submitter, op, event>>
      /\ None \notin Operations
  BY StoreAssumption DEF ShapeInv, Receive, TypeOK
<1>1. Pending = buffer \o waiting
  <2>1. Pending = (<<>> \o buffer) \o waiting
    BY <1>0 DEF Pending
  <2>2. QED BY <1>0, <2>1, ConcatEmptySeq
<1>2. CASE waiting # <<>>
  <2>1. /\ Head(waiting) \in Operations /\ Tail(waiting) \in Seq(Operations)
        /\ Len(buffer) = Capacity /\ waiting = <<Head(waiting)>> \o Tail(waiting)
    BY <1>0, <1>2, HeadTailProperties, HeadAndTail DEF TypeOK
  <2> DEFINE full == Append(buffer, Head(waiting))
  <2>2. full \in Seq(Operations) /\ full # <<>> /\ Len(full) = Capacity + 1
    BY <1>0, <2>1, AppendProperties
  <2>3. /\ current' = Head(full) /\ buffer' = Tail(full) /\ consumer' = "applying"
        /\ waiting' = Tail(waiting)
    BY <1>2 DEF Receive, Take
  <2>4. full \o Tail(waiting) = buffer \o waiting
    <3>1. <<Head(waiting)>> \in Seq(Operations) /\ full = buffer \o <<Head(waiting)>>
      BY <1>0, <2>1, AppendIsConcat
    <3> HIDE DEF full
    <3>2. (buffer \o <<Head(waiting)>>) \o Tail(waiting)
            = buffer \o (<<Head(waiting)>> \o Tail(waiting))
      BY <1>0, <2>1, <3>1, ConcatAssociative
    <3>3. QED BY <2>1, <3>1, <3>2
  <2> HIDE DEF full
  <2>5. /\ Head(full) \in Operations /\ Tail(full) \in Seq(Operations)
        /\ Len(Tail(full)) = Len(full) - 1
        /\ <<Head(full)>> \o Tail(full) = full
    BY <2>2, HeadTailProperties, HeadAndTail
  <2>6. Pending' = Pending
    <3>1. Pending' = (<<Head(full)>> \o Tail(full)) \o Tail(waiting)
      BY <1>0, <2>3, <2>5 DEF Pending
    <3>2. QED BY <1>1, <2>4, <2>5, <3>1
  <2>7. Len(buffer') = Capacity /\ Capacity <= Capacity
    BY <2>2, <2>3, <2>5 DEF Capacity
  <2>8. QED BY <1>0, <2>1, <2>3, <2>5, <2>6, <2>7 DEF TypeOK
<1>3. CASE waiting = <<>> /\ buffer # <<>>
  <2>1. /\ current' = Head(buffer) /\ buffer' = Tail(buffer) /\ consumer' = "applying"
        /\ waiting' = <<>>
    BY <1>3 DEF Receive, Take
  <2>2. /\ Head(buffer) \in Operations /\ Tail(buffer) \in Seq(Operations)
        /\ Len(Tail(buffer)) = Len(buffer) - 1 /\ Len(buffer) \in Nat
        /\ <<Head(buffer)>> \o Tail(buffer) = buffer /\ Len(buffer) <= Capacity
    BY <1>0, <1>3, HeadTailProperties, HeadAndTail, LenProperties DEF TypeOK
  <2>3. Pending' = Pending
    <3>1. Pending' = (<<Head(buffer)>> \o Tail(buffer)) \o waiting
      BY <1>0, <1>3, <2>1, <2>2 DEF Pending
    <3>2. QED BY <1>1, <2>2, <3>1
  <2>4. Len(buffer') <= Capacity
    BY <2>1, <2>2 DEF Capacity
  <2>5. QED BY <1>0, <1>3, <2>1, <2>2, <2>3, <2>4 DEF TypeOK
<1>4. CASE waiting = <<>> /\ buffer = <<>>
  <2>1. consumer' \in {"blocked", "ended"} /\ UNCHANGED <<current, buffer, waiting>>
    BY <1>4 DEF Receive
  <2>2. QED BY <1>0, <2>1 DEF TypeOK, Pending
<1>5. QED BY <1>2, <1>3, <1>4

LEMMA CurrentLeads ==
    ASSUME TypeOK, current # None
    PROVE  /\ Pending # <<>> /\ Head(Pending) = current /\ current \in Operations
           /\ Tail(Pending) = (<<>> \o buffer) \o waiting
<1>1. /\ current \in Operations /\ buffer \in Seq(Operations) /\ waiting \in Seq(Operations)
      /\ Pending = (<<current>> \o buffer) \o waiting
  BY DEF TypeOK, Pending
<1>2. QED BY <1>1, TailBehind

LEMMA FinishServes ==
    ASSUME ShapeInv, consumer \in {"applying", "verifying", "undoing"},
           NEW outcome \in {"ok", "error"}, Finish(outcome),
           UNCHANGED <<status, streamVars, submitter, op>>,
           store' \in [Keys -> [at : 0..MaxSends, present : BOOLEAN]]
    PROVE  /\ current # None /\ Pending # <<>> /\ Pending' = Tail(Pending)
           /\ TypeOK'
<1>0. TypeOK /\ current # None
  BY DEF ShapeInv, TypeOK
<1>1. current \in Operations /\ Pending # <<>> /\ Tail(Pending) = (<<>> \o buffer) \o waiting
  BY <1>0, CurrentLeads
<1>2. /\ current' = None /\ consumer' = "polling" /\ UNCHANGED <<buffer, waiting, sent>>
      /\ event' \in {[event EXCEPT ![current.by] = outcome], event}
  BY DEF Finish, streamVars
<1>3. Pending' = Tail(Pending)
  BY <1>1, <1>2 DEF Pending
<1>4. event' \in [Submitters -> {"unset", "ok", "error"}]
  BY <1>0, <1>2 DEF TypeOK
<1>5. QED BY <1>0, <1>1, <1>2, <1>3, <1>4 DEF TypeOK

LEMMA WritesType ==
    ASSUME TypeOK, current # None, NEW keys \in SUBSET Keys, NEW present \in BOOLEAN,
           Writes(keys, present)
    PROVE  /\ store' \in [Keys -> [at : 0..MaxSends, present : BOOLEAN]]
           /\ \A k \in Keys : store'[k] =
                IF k \in keys THEN [at |-> current.at, present |-> present] ELSE store[k]
<1>1. current.at \in 0..MaxSends
  BY DEF TypeOK, Operations
<1>2. QED BY <1>1 DEF Writes, TypeOK

FinishesAny ==
    \/ ApplyRaises \/ ApplyGet \/ ApplyDelete \/ ApplyCleanup
    \/ ApplySet /\ ~IsFileStore
    \/ Verify /\ consumer' # "undoing"
    \/ Undo

(* What an operation leaves in the store, and how run() reports it.        *)
LEMMA FinishFacts ==
    ASSUME ShapeInv, FinishesAny
    PROVE  /\ consumer \in {"applying", "verifying", "undoing"}
           /\ current # None /\ current \in Operations
           /\ UNCHANGED <<status, streamVars, submitter, op>>
           /\ store' \in [Keys -> [at : 0..MaxSends, present : BOOLEAN]]
           /\ \A k \in Keys : store'[k] = store[k] \/ store'[k].at = current.at
           /\ \E outcome \in {"ok", "error"} :
                /\ Finish(outcome)
                /\ outcome = "ok" /\ current.kind = "set" =>
                        store'[current.key] = [at |-> current.at, present |-> TRUE]
<1>0. /\ TypeOK /\ consumer \in {"applying", "verifying", "undoing"}
      /\ UNCHANGED <<status, streamVars, submitter, op>>
  BY DEF ShapeInv, FinishesAny, ApplyRaises, ApplyGet, ApplyDelete, ApplyCleanup, ApplySet,
         Verify, Undo
<1>1. /\ current # None /\ current \in Operations /\ current.key \in Keys
      /\ store \in [Keys -> [at : 0..MaxSends, present : BOOLEAN]]
  BY <1>0, OperationFacts DEF TypeOK
<1>2. \/ UNCHANGED store
      \/ \E keys \in SUBSET Keys, present \in BOOLEAN : Writes(keys, present)
  BY <1>1 DEF FinishesAny, ApplyRaises, ApplyGet, ApplyDelete, ApplyCleanup, ApplySet,
              Verify, Undo
<1>3. /\ store' \in [Keys -> [at : 0..MaxSends, present : BOOLEAN]]
      /\ \A k \in Keys : store'[k] = store[k] \/ store'[k].at = current.at
  <2>1. CASE UNCHANGED store
    BY <1>1, <2>1
  <2>2. ASSUME NEW keys \in SUBSET Keys, NEW present \in BOOLEAN, Writes(keys, present)
        PROVE  /\ store' \in [Keys -> [at : 0..MaxSends, present : BOOLEAN]]
               /\ \A k \in Keys : store'[k] = store[k] \/ store'[k].at = current.at
    <3>1. /\ store' \in [Keys -> [at : 0..MaxSends, present : BOOLEAN]]
          /\ \A k \in Keys : store'[k] =
                IF k \in keys THEN [at |-> current.at, present |-> present] ELSE store[k]
      BY <1>0, <1>1, <2>2, WritesType
    <3>2. QED BY <3>1
  <2>3. QED BY <1>2, <2>1, <2>2
<1>4. \E outcome \in {"ok", "error"} :
        /\ Finish(outcome)
        /\ outcome = "ok" /\ current.kind = "set" =>
                store'[current.key] = [at |-> current.at, present |-> TRUE]
  <2>1. CASE ApplyRaises \/ Undo
    BY <2>1 DEF ApplyRaises, Undo
  <2>2. CASE ApplyGet \/ ApplyDelete \/ ApplyCleanup
    BY <2>2 DEF ApplyGet, ApplyDelete, ApplyCleanup
  <2>3. CASE ApplySet /\ ~IsFileStore
    <3>1. Writes({current.key}, TRUE) /\ Finish("ok") /\ {current.key} \in SUBSET Keys
      BY <1>1, <2>3 DEF ApplySet
    <3>2. store'[current.key] = [at |-> current.at, present |-> TRUE]
      BY <1>0, <1>1, <3>1, WritesType
    <3>3. QED BY <3>1, <3>2
  <2>4. CASE Verify /\ consumer' # "undoing"
    BY <2>4 DEF Verify
  <2>5. QED BY <2>1, <2>2, <2>3, <2>4 DEF FinishesAny
<1>5. QED BY <1>0, <1>1, <1>3, <1>4

(* A step between the write and its read back leaves the queue alone.      *)
Continues ==
    \/ ApplySet /\ IsFileStore
    \/ Verify /\ consumer' = "undoing"

LEMMA ContinuesKeepsQueue ==
    ASSUME ShapeInv, Continues
    PROVE  /\ Pending' = Pending /\ TypeOK' /\ current # None
           /\ consumer \in {"applying", "verifying"} /\ consumer' \in {"verifying", "undoing"}
           /\ UNCHANGED <<status, current, streamVars, submitter, op, event>>
           /\ \A k \in Keys : store'[k] = store[k] \/ store'[k].at = current.at
<1>0. TypeOK
  BY DEF ShapeInv
<1>1. /\ consumer \in {"applying", "verifying"} /\ consumer' \in {"verifying", "undoing"}
      /\ UNCHANGED <<status, current, streamVars, submitter, op, event>>
      /\ UNCHANGED store \/ Writes({current.key}, TRUE)
  <2>1. CASE ApplySet /\ IsFileStore
    BY <2>1 DEF ApplySet
  <2>2. CASE Verify /\ consumer' = "undoing"
    BY <2>2 DEF Verify, Finish
  <2>3. QED BY <2>1, <2>2 DEF Continues
<1>2. current # None /\ {current.key} \in SUBSET Keys
  BY <1>0, <1>1, OperationFacts DEF TypeOK
<1>3. /\ store' \in [Keys -> [at : 0..MaxSends, present : BOOLEAN]]
      /\ \A k \in Keys : store'[k] = store[k] \/ store'[k].at = current.at
  <2>1. store \in [Keys -> [at : 0..MaxSends, present : BOOLEAN]]
    BY <1>0 DEF TypeOK
  <2>2. CASE UNCHANGED store
    BY <2>1, <2>2
  <2>3. CASE Writes({current.key}, TRUE)
    <3>1. /\ store' \in [Keys -> [at : 0..MaxSends, present : BOOLEAN]]
          /\ \A k \in Keys : store'[k] =
                IF k \in {current.key} THEN [at |-> current.at, present |-> TRUE] ELSE store[k]
      BY <1>0, <1>2, <2>3, WritesType
    <3>2. QED BY <3>1
  <2>4. QED BY <1>1, <2>2, <2>3
<1>4. TypeOK' /\ Pending' = Pending
  BY <1>0, <1>1, <1>2, <1>3 DEF TypeOK, Pending, streamVars
<1>5. QED BY <1>1, <1>2, <1>3, <1>4

LEMMA ConsumerSteps == ConsumerStep => Receive \/ FinishesAny \/ Continues
BY StoreAssumption DEF ConsumerStep, FinishesAny, Continues

LEMMA FinishesQueue ==
    ASSUME ShapeInv, FinishesAny
    PROVE  Pending # <<>> /\ Pending' = Tail(Pending) /\ TypeOK' /\ current # None
<1>1. PICK outcome \in {"ok", "error"} : Finish(outcome)
  BY FinishFacts
<1>2. QED BY <1>1, FinishFacts, FinishServes

-----------------------------------------------------------------------------
(* The shape of the coordinator's state is an invariant, and every step    *)
(* is one of the abstract queue.                                           *)
LEMMA QueueStep ==
    ASSUME ShapeInv, [Next]_vars
    PROVE  TypeOK' /\ [Queue!Next]_Pending
<1>1. ASSUME NEW c \in Submitters, Send(c) PROVE TypeOK' /\ [Queue!Next]_Pending
  BY <1>1, SendAppends DEF Queue!Next, Queue!Arrive
<1>2. ASSUME NEW c \in Submitters, GiveUp(c) PROVE TypeOK' /\ [Queue!Next]_Pending
  BY <1>2, GiveUpWithdraws DEF Queue!Next, Queue!Withdraw, RemoveAt, Queue!RemoveAt
<1>3. ASSUME NEW c \in Submitters,
             \/ \E kind \in Kinds, key \in Keys : Submit(c, kind, key)
             \/ SendClosed(c) \/ Completes(c)
      PROVE  TypeOK' /\ [Queue!Next]_Pending
  BY <1>3, SubmittersType
<1>4. ASSUME ConsumerStep PROVE TypeOK' /\ [Queue!Next]_Pending
  <2>1. CASE Receive
    BY <2>1, ReceiveKeepsQueue
  <2>2. CASE FinishesAny
    BY <2>2, FinishesQueue DEF Queue!Next, Queue!Serve
  <2>3. CASE Continues
    BY <2>3, ContinuesKeepsQueue
  <2>4. QED BY <1>4, <2>1, <2>2, <2>3, ConsumerSteps
<1>5. ASSUME Close \/ Stopped \/ Terminated \/ UNCHANGED vars
      PROVE  TypeOK' /\ [Queue!Next]_Pending
  <2>1. TypeOK /\ UNCHANGED <<current, buffer, waiting, sent, store, submitter, op, event>>
    BY <1>5 DEF ShapeInv, Close, Stopped, Terminated, vars, streamVars
  <2>2. /\ status' \in {"running", "closing", "stopped"}
        /\ consumer' = consumer \/ (consumer = "blocked" /\ consumer' = "ended")
    BY <1>5, <2>1 DEF Close, Stopped, Terminated, vars, TypeOK
  <2>3. QED BY <2>1, <2>2 DEF TypeOK, Pending
<1>6. QED BY <1>1, <1>2, <1>3, <1>4, <1>5 DEF Next

LEMMA CallersKept ==
    ASSUME ShapeInv, TypeOK', [Next]_vars
    PROVE  CallersInv'
<1>0. /\ TypeOK /\ CallersInv /\ None \notin Operations /\ sent \in Nat
  BY StoreAssumption DEF ShapeInv, TypeOK
<1>1. ASSUME NEW c \in Submitters, Send(c) PROVE CallersInv'
  <2>1. /\ op'[c] \in Operations /\ op'[c].at = sent + 1 /\ op'[c].by = c
    BY <1>1, SendAppends
  <2>2. /\ submitter'[c] = "waiting" /\ sent' = sent + 1 /\ event' = event
        /\ submitter[c] = "sending"
        /\ \A d \in Submitters \ {c} : op'[d] = op[d] /\ submitter'[d] = submitter[d]
    BY <1>0, <1>1 DEF Send, SubmitterGoes, TypeOK
  <2>3. ASSUME NEW d \in Submitters, op[d] # None PROVE op[d].at \in Nat
    BY <1>0, <2>3, OperationFacts DEF TypeOK
  <2>4. QED BY <1>0, <2>1, <2>2, <2>3 DEF CallersInv
<1>2. ASSUME NEW c \in Submitters, Returns(c), UNCHANGED sent PROVE CallersInv'
  <2>1. /\ submitter'[c] = "idle" /\ op'[c] = None /\ event'[c] = "unset"
        /\ \A d \in Submitters \ {c} :
                op'[d] = op[d] /\ submitter'[d] = submitter[d] /\ event'[d] = event[d]
    BY <1>0, <1>2 DEF Returns, SubmitterGoes, TypeOK
  <2>2. QED BY <1>0, <1>2, <2>1 DEF CallersInv
<1>3. ASSUME NEW c \in Submitters, NEW kind \in Kinds, NEW key \in Keys, Submit(c, kind, key)
      PROVE  CallersInv'
  <2>1. /\ submitter'[c] = "sending" /\ submitter[c] = "idle"
        /\ op'[c] = [by |-> c, kind |-> kind, key |-> key, at |-> 0]
        /\ \A d \in Submitters \ {c} : op'[d] = op[d] /\ submitter'[d] = submitter[d]
        /\ event' = event /\ sent' = sent
    BY <1>0, <1>3 DEF Submit, SubmitterGoes, TypeOK, streamVars
  <2>2. op'[c] \in Operations
    BY <2>1, StoreAssumption DEF Operations
  <2>3. op'[c] # None /\ op'[c].by = c /\ op'[c].at = 0
    BY <1>0, <2>1, <2>2
  <2>4. QED BY <1>0, <2>1, <2>3 DEF CallersInv
<1>4. ASSUME UNCHANGED <<submitter, op, sent>> PROVE CallersInv'
  BY <1>0, <1>4 DEF CallersInv
<1>5. CASE ConsumerStep
  <2>1. CASE Receive
    BY <1>4, <2>1 DEF Receive
  <2>2. CASE FinishesAny
    BY <1>4, <2>2, FinishFacts DEF streamVars
  <2>3. CASE Continues
    BY <1>4, <2>3, ContinuesKeepsQueue DEF streamVars
  <2>4. QED BY <1>5, <2>1, <2>2, <2>3, ConsumerSteps
<1>6. CASE Close \/ Stopped \/ Terminated \/ UNCHANGED vars
  BY <1>4, <1>6 DEF Close, Stopped, Terminated, vars, streamVars
<1>7. ASSUME NEW c \in Submitters, SendClosed(c) \/ Completes(c) \/ GiveUp(c)
      PROVE  CallersInv'
  BY <1>2, <1>7 DEF SendClosed, Completes, GiveUp, streamVars
<1>8. QED BY <1>1, <1>3, <1>5, <1>6, <1>7 DEF Next

LEMMA ConsumerKept ==
    ASSUME ShapeInv, TypeOK', [Next]_vars
    PROVE  ConsumerInv'
<1>0. TypeOK /\ ConsumerInv
  BY DEF ShapeInv
<1>1. ASSUME NEW c \in Submitters, Send(c) PROVE ConsumerInv'
  BY <1>0, <1>1 DEF Send, ConsumerInv
<1>2. ASSUME UNCHANGED <<status, consumer, buffer, waiting>> PROVE ConsumerInv'
  BY <1>0, <1>2 DEF ConsumerInv
<1>3. ASSUME NEW c \in Submitters,
             \/ \E kind \in Kinds, key \in Keys : Submit(c, kind, key)
             \/ SendClosed(c) \/ Completes(c)
      PROVE  ConsumerInv'
  BY <1>2, <1>3 DEF Submit, SendClosed, Completes, streamVars
<1>4. ASSUME NEW c \in Submitters, GiveUp(c) PROVE ConsumerInv'
  <2>1. waiting = <<>> => waiting' = <<>>
    BY <1>4 DEF GiveUp
  <2>2. QED BY <1>0, <1>4, <2>1 DEF GiveUp, ConsumerInv
<1>5. CASE ConsumerStep
  <2>1. CASE Receive
    BY <1>0, <2>1 DEF Receive, Take, ConsumerInv
  <2>2. CASE FinishesAny
    <3>1. consumer' = "polling" /\ status' = status
          /\ consumer \in {"applying", "verifying", "undoing"}
      BY <2>2, FinishFacts DEF Finish
    <3>2. QED BY <1>0, <3>1 DEF ConsumerInv
  <2>3. CASE Continues
    <3>1. /\ consumer \in {"applying", "verifying"} /\ consumer' \in {"verifying", "undoing"}
          /\ status' = status
      BY <2>3, ContinuesKeepsQueue
    <3>2. QED BY <1>0, <3>1 DEF ConsumerInv
  <2>4. QED BY <1>5, <2>1, <2>2, <2>3, ConsumerSteps
<1>6. CASE Close
  BY <1>0, <1>6 DEF Close, ConsumerInv, streamVars
<1>7. CASE Stopped
  BY <1>0, <1>7 DEF Stopped, ConsumerInv, streamVars
<1>8. CASE Terminated \/ UNCHANGED vars
  BY <1>2, <1>8 DEF Terminated, vars, streamVars
<1>9. QED BY <1>1, <1>3, <1>4, <1>5, <1>6, <1>7, <1>8 DEF Next

LEMMA ShapeStep == ShapeInv /\ [Next]_vars => ShapeInv' /\ [Queue!Next]_Pending
BY QueueStep, CallersKept, ConsumerKept DEF ShapeInv

LEMMA InitShape == Init => ShapeInv /\ Pending = <<>>
<1> SUFFICES ASSUME Init PROVE ShapeInv /\ Pending = <<>>
  OBVIOUS
<1>1. TypeOK
  <2>1. 0 \in 0..MaxSends /\ Len(<<>>) = 0 /\ <<>> \in Seq(Operations) /\ 0 <= Capacity
    BY StoreAssumption, EmptySeq DEF Capacity
  <2>2. QED BY <2>1 DEF Init, TypeOK
<1>2. ConsumerInv /\ CallersInv
  BY DEF Init, ConsumerInv, CallersInv
<1>3. Pending = <<>>
  <2>1. Pending = (<<>> \o <<>>) \o <<>> /\ <<>> \in Seq(Operations)
    BY EmptySeq DEF Init, Pending
  <2>2. QED BY <2>1, ConcatEmptySeq
<1>4. QED BY <1>1, <1>2, <1>3 DEF ShapeInv

LEMMA ShapeInvariant == Spec => []ShapeInv
<1>1. Init => ShapeInv
  BY InitShape
<1>2. ShapeInv /\ [Next]_vars => ShapeInv'
  BY ShapeStep
<1>3. QED BY <1>1, <1>2, PTL DEF Spec

(* The coordinator's variables have their types: for any number of         *)
(* clients, of keys and of submitted operations, the buffer holds at most  *)
(* one operation and senders block only behind a full one.                 *)
THEOREM StoreTypeCorrect == Spec => []TypeOK
<1>1. ShapeInv => TypeOK
  BY DEF ShapeInv
<1>2. QED BY <1>1, ShapeInvariant, PTL

(* The memory stream, its blocked senders and the consumer are one serial  *)
(* queue: operations are applied in the order in which they reach the      *)
(* stream, and one that the buffer has taken is applied whatever its       *)
(* caller does (submit(), run()).                                          *)
THEOREM StoreSerializes == Spec => Serializes
<1>1. Init => Queue!Init
  BY InitShape DEF Queue!Init
<1>2. ShapeInv /\ [Next]_vars => ShapeInv' /\ [Queue!Next]_Pending
  BY ShapeStep
<1>3. Init => ShapeInv
  BY InitShape
<1>4. QED BY <1>1, <1>2, <1>3, PTL DEF Spec, Serializes, Queue!Spec

(* When lifespan() has ended, every operation that reached the stream and  *)
(* was not withdrawn has been applied.                                     *)
THEOREM StoreDrained == Spec => []DrainedWhenStopped
<1>1. ShapeInv => DrainedWhenStopped
  <2>1. SUFFICES ASSUME ShapeInv, status = "stopped" PROVE Pending = <<>>
    BY DEF DrainedWhenStopped
  <2>2. current = None /\ buffer = <<>> /\ waiting = <<>>
    BY <2>1 DEF ShapeInv, TypeOK, ConsumerInv
  <2>3. Pending = (<<>> \o <<>>) \o <<>> /\ <<>> \in Seq(Operations)
    BY <2>2, EmptySeq DEF Pending
  <2>4. QED BY <2>3, ConcatEmptySeq
<1>2. QED BY <1>1, ShapeInvariant, PTL

-----------------------------------------------------------------------------
(* The queue is in the order of arrival, and the store behind it.          *)
Ordered(q, n) ==
    /\ \A i \in 1..Len(q) : q[i].at \in 1..n
    /\ \A i, j \in 1..Len(q) : i < j => q[i].at < q[j].at

Follows(q, m) == \A i \in 1..Len(q) : m < q[i].at

LEMMA OrderedAppend ==
    ASSUME NEW q \in Seq(Operations), NEW n \in Nat, Ordered(q, n),
           NEW item \in Operations, item.at = n + 1
    PROVE  /\ Ordered(Append(q, item), n + 1)
           /\ \A m \in 0..n : Follows(q, m) => Follows(Append(q, item), m)
<1> DEFINE r == Append(q, item)
<1>1. /\ Len(q) \in Nat /\ Len(r) = Len(q) + 1 /\ r[Len(q) + 1] = item
      /\ \A i \in 1..Len(q) : r[i] = q[i]
  BY AppendProperties, LenProperties
<1> HIDE DEF r
<1>2. \A i \in 1..Len(q) : q[i].at \in 1..n
  BY DEF Ordered
<1>3. \A i \in 1..Len(r) : i \in 1..Len(q) \/ i = Len(q) + 1
  BY <1>1
<1>4. \A i \in 1..Len(r) : r[i].at \in 1..(n + 1)
  BY <1>1, <1>2, <1>3
<1>5. ASSUME NEW i \in 1..Len(r), NEW j \in 1..Len(r), i < j PROVE r[i].at < r[j].at
  <2>1. i \in 1..Len(q)
    BY <1>1, <1>5
  <2>2. CASE j \in 1..Len(q)
    BY <1>1, <1>5, <2>1, <2>2 DEF Ordered
  <2>3. CASE j = Len(q) + 1
    BY <1>1, <1>2, <2>1, <2>3
  <2>4. QED BY <1>3, <2>2, <2>3
<1>6. ASSUME NEW m \in 0..n, Follows(q, m) PROVE Follows(r, m)
  BY <1>1, <1>3, <1>6 DEF Follows
<1>7. QED BY <1>4, <1>5, <1>6 DEF Ordered, r

LEMMA OrderedTail ==
    ASSUME NEW q \in Seq(Operations), NEW n \in Nat, Ordered(q, n), q # <<>>
    PROVE  /\ Ordered(Tail(q), n) /\ Head(q).at \in 1..n /\ Follows(Tail(q), Head(q).at)
           /\ \A m \in 0..n : Follows(q, m) => Follows(Tail(q), m) /\ m < Head(q).at
<1> DEFINE r == Tail(q)
<1>1. /\ Len(q) \in Nat \ {0} /\ Len(r) = Len(q) - 1 /\ Head(q) = q[1]
      /\ \A i \in 1..Len(r) : r[i] = q[i + 1]
  BY HeadTailProperties, EmptySeq
<1> HIDE DEF r
<1>2. /\ \A i \in 1..Len(r) : i + 1 \in 1..Len(q) /\ 1 < i + 1
      /\ 1 \in 1..Len(q)
  BY <1>1
<1>3. ASSUME NEW i \in 1..Len(r) PROVE r[i].at \in 1..n /\ q[1].at < r[i].at
  BY <1>1, <1>2 DEF Ordered
<1>4. ASSUME NEW i \in 1..Len(r), NEW j \in 1..Len(r), i < j PROVE r[i].at < r[j].at
  <2>1. i + 1 \in 1..Len(q) /\ j + 1 \in 1..Len(q) /\ i + 1 < j + 1
    BY <1>2, <1>4
  <2>2. q[i + 1].at < q[j + 1].at
    BY <2>1 DEF Ordered
  <2>3. QED BY <1>1, <2>2
<1>5. ASSUME NEW m \in 0..n, Follows(q, m) PROVE Follows(r, m) /\ m < q[1].at
  BY <1>1, <1>2, <1>5 DEF Follows
<1>6. QED BY <1>1, <1>2, <1>3, <1>4, <1>5 DEF Ordered, Follows, r

LEMMA OrderedRemoveAt ==
    ASSUME NEW q \in Seq(Operations), NEW n \in Nat, Ordered(q, n), NEW p \in 1..Len(q)
    PROVE  /\ Ordered(RemoveAt(q, p), n)
           /\ \A m \in 0..n : Follows(q, m) => Follows(RemoveAt(q, p), m)
<1> DEFINE r == RemoveAt(q, p)
           Was(i) == IF i < p THEN i ELSE i + 1
<1>1. /\ Len(q) \in Nat /\ Len(r) = Len(q) - 1
      /\ \A i \in 1..(Len(q) - 1) : r[i] = IF i < p THEN q[i] ELSE q[i + 1]
  BY RemoveAtProperties, LenProperties
<1> HIDE DEF r
<1>2. \A i \in 1..Len(r) : Was(i) \in 1..Len(q)
  BY <1>1
<1>3. \A i \in 1..Len(r) : r[i] = q[Was(i)]
  BY <1>1
<1>4. \A i, j \in 1..Len(r) : i < j => Was(i) < Was(j)
  BY <1>1
<1> HIDE DEF Was
<1>5. QED BY <1>2, <1>3, <1>4 DEF Ordered, Follows, r

(* Whatever a key's last write, only later operations are still queued;    *)
(* the operation at the head may have written already.                     *)
StoreInv ==
    \A k \in Keys :
        /\ store[k].at <= sent
        /\ \/ Follows(Pending, store[k].at)
           \/ current # None /\ store[k].at = current.at

(* A reported operation lies behind the queue, and a reported set() is in  *)
(* the store, or was followed there.                                       *)
Reported(c) ==
    /\ submitter[c] = "waiting" /\ op[c] # None
    /\ Follows(Pending, op[c].at)
    /\ event[c] = "ok" /\ op[c].kind = "set" =>
        \/ store[op[c].key].at > op[c].at
        \/ store[op[c].key] = [at |-> op[c].at, present |-> TRUE]

EventInv == \A c \in Submitters : event[c] # "unset" => Reported(c)

OrderInv == Ordered(Pending, sent) /\ StoreInv
StoreOpsInv == ShapeInv /\ OrderInv /\ EventInv

(* What a step does to the queue, the store and the count of arrivals.     *)
LEMMA OrderStep ==
    ASSUME ShapeInv, OrderInv, [Next]_vars
    PROVE  OrderInv' /\ (\A k \in Keys : store'[k].at >= store[k].at)
<1>0. /\ TypeOK /\ TypeOK' /\ Pending \in Seq(Operations) /\ Pending' \in Seq(Operations)
      /\ sent \in Nat /\ Ordered(Pending, sent) /\ StoreInv
      /\ \A k \in Keys : store[k].at \in 0..sent
  <2>1. TypeOK /\ TypeOK'
    BY QueueStep DEF ShapeInv
  <2>2. Pending \in Seq(Operations) /\ sent \in Nat
    BY <2>1, QueueTypes
  <2>3. Pending' \in Seq(Operations)
    <3>1. /\ buffer' \in Seq(Operations) /\ waiting' \in Seq(Operations)
          /\ (IF current' = None THEN <<>> ELSE <<current'>>) \in Seq(Operations)
      BY <2>1 DEF TypeOK
    <3>2. QED BY <3>1, ConcatProperties DEF Pending
  <2>4. \A k \in Keys : store[k].at \in Nat /\ store[k].at <= sent
    BY <2>1, StoreAssumption DEF TypeOK, OrderInv, StoreInv
  <2>5. QED BY <2>1, <2>2, <2>3, <2>4 DEF OrderInv
<1>1. current # None => current \in Operations /\ current.at \in 1..sent
        /\ Pending # <<>> /\ Head(Pending) = current
  <2>1. SUFFICES ASSUME current # None
                 PROVE  current \in Operations /\ current.at \in 1..sent
                        /\ Pending # <<>> /\ Head(Pending) = current
    OBVIOUS
  <2>2. current \in Operations /\ Pending # <<>> /\ Head(Pending) = current
    BY <1>0, <2>1, CurrentLeads
  <2>3. QED BY <1>0, <2>2, OrderedTail
<1>2. ASSUME NEW c \in Submitters, Send(c)
      PROVE  OrderInv' /\ (\A k \in Keys : store'[k].at >= store[k].at)
  <2>1. /\ op'[c] \in Operations /\ op'[c].at = sent + 1 /\ Pending' = Append(Pending, op'[c])
        /\ sent' = sent + 1 /\ store' = store
    BY <1>2, SendAppends DEF Send
  <2>2. /\ Ordered(Pending', sent')
        /\ \A m \in 0..sent : Follows(Pending, m) => Follows(Pending', m)
    BY <1>0, <2>1, OrderedAppend
  <2>3. current # None => current' = current
    BY <1>0, <1>2 DEF Send, TypeOK
  <2>4. StoreInv'
    BY <1>0, <2>1, <2>2, <2>3 DEF StoreInv
  <2>5. \A k \in Keys : store'[k].at >= store[k].at
    BY <1>0, <2>1
  <2>6. QED BY <2>2, <2>4, <2>5 DEF OrderInv
<1>3. ASSUME NEW c \in Submitters, GiveUp(c)
      PROVE  OrderInv' /\ (\A k \in Keys : store'[k].at >= store[k].at)
  <2>1. /\ store' = store /\ sent' = sent /\ current' = current
        /\ \/ Pending' = Pending
           \/ \E i \in 1..Len(Pending) : Pending' = RemoveAt(Pending, i)
    <3>1. Len(Pending) \in Nat
      BY <1>0, LenProperties
    <3>2. QED BY <1>3, <3>1, GiveUpWithdraws DEF GiveUp, Capacity
  <2>2. /\ Ordered(Pending', sent)
        /\ \A m \in 0..sent : Follows(Pending, m) => Follows(Pending', m)
    <3>1. CASE Pending' = Pending
      BY <1>0, <3>1
    <3>2. ASSUME NEW i \in 1..Len(Pending), Pending' = RemoveAt(Pending, i)
          PROVE  /\ Ordered(Pending', sent)
                 /\ \A m \in 0..sent : Follows(Pending, m) => Follows(Pending', m)
      BY <1>0, <3>2, OrderedRemoveAt
    <3>3. QED BY <2>1, <3>1, <3>2
  <2>3. QED BY <1>0, <2>1, <2>2 DEF OrderInv, StoreInv
<1>4. ASSUME Pending' = Pending, UNCHANGED <<sent, store>>, current # None => current' = current
      PROVE  OrderInv' /\ (\A k \in Keys : store'[k].at >= store[k].at)
  BY <1>0, <1>4 DEF OrderInv, StoreInv
<1>5. ASSUME FinishesAny
      PROVE  OrderInv' /\ (\A k \in Keys : store'[k].at >= store[k].at)
  <2>1. /\ Pending # <<>> /\ Pending' = Tail(Pending) /\ current # None /\ sent' = sent
        /\ \A k \in Keys : store'[k] = store[k] \/ store'[k].at = current.at
    BY <1>5, FinishFacts, FinishesQueue DEF streamVars
  <2>2. /\ Ordered(Pending', sent) /\ Follows(Pending', current.at)
        /\ \A m \in 0..sent : Follows(Pending, m) => Follows(Pending', m) /\ m < current.at
    BY <1>0, <1>1, <2>1, OrderedTail
  <2>3. \A k \in Keys : store[k].at <= current.at /\ Follows(Pending', store[k].at)
    BY <1>0, <1>1, <2>1, <2>2 DEF StoreInv
  <2>4. ASSUME NEW k \in Keys
        PROVE  /\ store'[k].at <= sent /\ Follows(Pending', store'[k].at)
               /\ store'[k].at >= store[k].at
    <3>1. CASE store'[k] = store[k]
      BY <1>0, <2>3, <3>1
    <3>2. CASE store'[k].at = current.at
      BY <1>0, <1>1, <2>1, <2>2, <2>3, <3>2
    <3>3. QED BY <2>1, <3>1, <3>2
  <2>5. StoreInv'
    BY <2>1, <2>4 DEF StoreInv
  <2>6. QED BY <2>1, <2>2, <2>4, <2>5 DEF OrderInv
<1>6. ASSUME Continues
      PROVE  OrderInv' /\ (\A k \in Keys : store'[k].at >= store[k].at)
  <2>1. /\ Pending' = Pending /\ current # None /\ sent' = sent /\ current' = current
        /\ \A k \in Keys : store'[k] = store[k] \/ store'[k].at = current.at
    BY <1>6, ContinuesKeepsQueue DEF streamVars
  <2>2. \A m \in 0..sent : Follows(Pending, m) => m < current.at
    BY <1>0, <1>1, <2>1, OrderedTail
  <2>3. \A k \in Keys : store[k].at <= current.at
    BY <1>0, <1>1, <2>1, <2>2 DEF StoreInv
  <2>4. QED BY <1>0, <1>1, <2>1, <2>3 DEF OrderInv, StoreInv
<1>7. ASSUME NEW c \in Submitters,
             \/ \E kind \in Kinds, key \in Keys : Submit(c, kind, key)
             \/ SendClosed(c) \/ Completes(c)
      PROVE  OrderInv' /\ (\A k \in Keys : store'[k].at >= store[k].at)
  <2>1. UNCHANGED <<sent, store, current>>
    BY <1>7 DEF Submit, SendClosed, Completes, streamVars
  <2>2. QED BY <1>4, <1>7, <2>1, SubmittersType
<1>8. CASE Receive
  <2>1. UNCHANGED <<sent, store>> /\ current = None
    BY <1>0, <1>8 DEF Receive, TypeOK
  <2>2. QED BY <1>4, <1>8, <2>1, ReceiveKeepsQueue
<1>9. CASE Close \/ Stopped \/ Terminated \/ UNCHANGED vars
  <2>1. UNCHANGED <<sent, store, current, buffer, waiting>>
    BY <1>9 DEF Close, Stopped, Terminated, vars, streamVars
  <2>2. Pending' = Pending
    BY <2>1 DEF Pending
  <2>3. QED BY <1>4, <2>1, <2>2
<1>10. QED BY <1>2, <1>3, <1>5, <1>6, <1>7, <1>8, <1>9, ConsumerSteps DEF Next

LEMMA EventStep ==
    ASSUME ShapeInv, OrderInv, EventInv, [Next]_vars
    PROVE  EventInv'
<1>0. /\ TypeOK /\ CallersInv /\ Pending \in Seq(Operations) /\ sent \in Nat
      /\ Ordered(Pending, sent)
  BY QueueTypes DEF ShapeInv, OrderInv
<1>1. /\ \A k \in Keys : store[k].at \in Nat
      /\ \A c \in Submitters : op[c] # None =>
            op[c] \in Operations /\ op[c].at \in 0..sent /\ op[c].key \in Keys
  <2>1. \A k \in Keys : store[k].at \in Nat
    BY <1>0, StoreAssumption DEF TypeOK
  <2>2. ASSUME NEW c \in Submitters, op[c] # None
        PROVE  op[c] \in Operations /\ op[c].at \in 0..sent /\ op[c].key \in Keys
    <3>1. op[c] \in Operations
      BY <1>0, <2>2 DEF TypeOK
    <3>2. op[c].at \in Nat /\ op[c].key \in Keys /\ op[c].at <= sent
      BY <1>0, <2>2, <3>1, OperationFacts DEF CallersInv
    <3>3. QED BY <1>0, <3>1, <3>2
  <2>3. QED BY <2>1, <2>2
(* A report stands as long as the caller waits: the queue only gets later  *)
(* operations, and the store only their writes.                            *)
<1>2. ASSUME NEW c \in Submitters, event[c] # "unset", event'[c] = event[c],
             op'[c] = op[c], submitter'[c] = submitter[c],
             \A m \in 0..sent : Follows(Pending, m) => Follows(Pending', m),
             store'[op[c].key] = store[op[c].key] \/ store'[op[c].key].at > op[c].at
      PROVE  Reported(c)'
  <2>1. Reported(c) /\ op[c] # None /\ op[c].at \in 0..sent
    BY <1>1, <1>2 DEF EventInv, Reported
  <2>2. Follows(Pending', op[c].at)
    BY <1>2, <2>1 DEF Reported
  <2>3. QED BY <1>2, <2>1, <2>2 DEF Reported
(* The steps that do not finish an operation report nothing new.           *)
<1>3. ASSUME NEW c \in Submitters, Send(c) PROVE EventInv'
  <2>0. /\ op'[c] \in Operations /\ op'[c].at = sent + 1 /\ Pending' = Append(Pending, op'[c])
    BY <1>3, SendAppends
  <2>1. /\ store' = store /\ event' = event /\ submitter[c] = "sending"
        /\ \A d \in Submitters \ {c} : op'[d] = op[d] /\ submitter'[d] = submitter[d]
    BY <1>0, <1>3 DEF Send, SubmitterGoes, TypeOK
  <2>2. \A m \in 0..sent : Follows(Pending, m) => Follows(Pending', m)
    BY <1>0, <2>0, OrderedAppend
  <2>3. event[c] = "unset"
    BY <2>1 DEF EventInv, Reported
  <2>4. \A d \in Submitters : event'[d] # "unset" => d # c /\ event[d] # "unset"
    BY <2>1, <2>3
  <2>5. QED BY <1>2, <2>1, <2>2, <2>4 DEF EventInv
<1>4. ASSUME NEW c \in Submitters, Returns(c), UNCHANGED store,
             \A m \in 0..sent : Follows(Pending, m) => Follows(Pending', m)
      PROVE  EventInv'
  <2>1. /\ event'[c] = "unset"
        /\ \A d \in Submitters \ {c} :
                op'[d] = op[d] /\ submitter'[d] = submitter[d] /\ event'[d] = event[d]
    BY <1>0, <1>4 DEF Returns, SubmitterGoes, TypeOK
  <2>2. \A d \in Submitters : event'[d] # "unset" => d # c /\ event[d] # "unset"
    BY <2>1
  <2>3. QED BY <1>2, <1>4, <2>1, <2>2 DEF EventInv
<1>5. ASSUME NEW c \in Submitters, SendClosed(c) \/ Completes(c) PROVE EventInv'
  <2>1. Returns(c) /\ UNCHANGED store /\ Pending' = Pending
    BY <1>5, SubmittersType DEF SendClosed, Completes
  <2>2. QED BY <1>4, <2>1
<1>6. ASSUME NEW c \in Submitters, GiveUp(c) PROVE EventInv'
  <2>1. /\ Returns(c) /\ store' = store
        /\ \/ Pending' = Pending
           \/ \E i \in 1..Len(Pending) : Pending' = RemoveAt(Pending, i)
    <3>1. Len(Pending) \in Nat
      BY <1>0, LenProperties
    <3>2. QED BY <1>6, <3>1, GiveUpWithdraws DEF GiveUp, Capacity
  <2>2. ASSUME NEW i \in 1..Len(Pending), Pending' = RemoveAt(Pending, i)
        PROVE  \A m \in 0..sent : Follows(Pending, m) => Follows(Pending', m)
    BY <1>0, <2>2, OrderedRemoveAt
  <2>3. \A m \in 0..sent : Follows(Pending, m) => Follows(Pending', m)
    BY <2>1, <2>2
  <2>4. QED BY <1>4, <2>1, <2>3
<1>7. ASSUME Pending' = Pending, UNCHANGED <<store, submitter, op, event>> PROVE EventInv'
  BY <1>2, <1>7 DEF EventInv
<1>8. ASSUME NEW c \in Submitters, NEW kind \in Kinds, NEW key \in Keys, Submit(c, kind, key)
      PROVE  EventInv'
  <2>1. /\ Pending' = Pending /\ store' = store /\ event' = event /\ submitter[c] = "idle"
        /\ \A d \in Submitters \ {c} : op'[d] = op[d] /\ submitter'[d] = submitter[d]
    BY <1>0, <1>8, SubmittersType DEF Submit, SubmitterGoes, TypeOK
  <2>2. \A d \in Submitters : event'[d] # "unset" => d # c /\ event[d] # "unset"
    BY <2>1 DEF EventInv, Reported
  <2>3. QED BY <1>2, <2>1, <2>2 DEF EventInv
<1>9. CASE Receive
  <2>1. Pending' = Pending /\ UNCHANGED <<store, submitter, op, event>>
    BY <1>9, ReceiveKeepsQueue DEF Receive
  <2>2. QED BY <1>7, <2>1
<1>10. CASE Close \/ Stopped \/ Terminated \/ UNCHANGED vars
  <2>1. UNCHANGED <<current, buffer, waiting, store, submitter, op, event>>
    BY <1>10 DEF Close, Stopped, Terminated, vars, streamVars
  <2>2. Pending' = Pending
    BY <2>1 DEF Pending
  <2>3. QED BY <1>7, <2>1, <2>2
(* The operation at the head is later than all that has been reported.     *)
<1>11. ASSUME current # None
       PROVE  /\ current \in Operations /\ current.at \in 1..sent /\ Pending # <<>>
              /\ Head(Pending) = current
              /\ \A m \in 0..sent : Follows(Pending, m) => m < current.at
  <2>1. current \in Operations /\ Pending # <<>> /\ Head(Pending) = current
    BY <1>0, <1>11, CurrentLeads
  <2>2. QED BY <1>0, <2>1, OrderedTail
<1>12. CASE Continues
  <2>1. /\ Pending' = Pending /\ current # None /\ UNCHANGED <<submitter, op, event>>
        /\ \A k \in Keys : store'[k] = store[k] \/ store'[k].at = current.at
    BY <1>12, ContinuesKeepsQueue
  <2>2. ASSUME NEW c \in Submitters, event[c] # "unset"
        PROVE  Reported(c)'
    <3>1. op[c] # None /\ Follows(Pending, op[c].at)
      BY <2>2 DEF EventInv, Reported
    <3>2. op[c].at < current.at /\ op[c].key \in Keys
      BY <1>1, <1>11, <2>1, <3>1
    <3>3. store'[op[c].key] = store[op[c].key] \/ store'[op[c].key].at > op[c].at
      BY <1>1, <1>11, <2>1, <3>1, <3>2
    <3>4. QED BY <1>2, <2>1, <2>2, <3>3
  <2>3. QED BY <2>1, <2>2 DEF EventInv
<1>13. CASE FinishesAny
  <2>1. /\ Pending # <<>> /\ Pending' = Tail(Pending) /\ current # None
        /\ UNCHANGED <<submitter, op>>
        /\ \A k \in Keys : store'[k] = store[k] \/ store'[k].at = current.at
    BY <1>13, FinishFacts, FinishesQueue
  <2>2. PICK outcome \in {"ok", "error"} :
            /\ Finish(outcome)
            /\ outcome = "ok" /\ current.kind = "set" =>
                    store'[current.key] = [at |-> current.at, present |-> TRUE]
    BY <1>13, FinishFacts
  <2>3. /\ Follows(Pending', current.at)
        /\ \A m \in 0..sent : Follows(Pending, m) => Follows(Pending', m)
    BY <1>0, <1>11, <2>1, OrderedTail
  <2>4. ASSUME NEW c \in Submitters, event[c] # "unset", event'[c] = event[c]
        PROVE  Reported(c)'
    <3>1. op[c] # None /\ Follows(Pending, op[c].at)
      BY <2>4 DEF EventInv, Reported
    <3>2. op[c].at < current.at /\ op[c].key \in Keys
      BY <1>1, <1>11, <2>1, <3>1
    <3>3. store'[op[c].key] = store[op[c].key] \/ store'[op[c].key].at > op[c].at
      BY <1>1, <1>11, <2>1, <3>1, <3>2
    <3>4. QED BY <1>2, <2>1, <2>3, <2>4, <3>3
  <2>5. ASSUME NEW c \in Submitters, op[c] = current, event'[c] = outcome
        PROVE  Reported(c)'
    <3>1. op[c] # None /\ op[c].at # 0
      BY <1>11, <2>1, <2>5
    <3>2. submitter[c] = "waiting"
      BY <1>0, <3>1 DEF CallersInv, TypeOK
    <3>3. QED BY <2>1, <2>2, <2>3, <2>5, <3>1, <3>2 DEF Reported
  <2>6. \A c \in Submitters : event'[c] = event[c] \/ (op[c] = current /\ event'[c] = outcome)
    BY <1>0, <2>2 DEF Finish, TypeOK
  <2>7. ASSUME NEW c \in Submitters, event'[c] # "unset" PROVE Reported(c)'
    <3>1. CASE op[c] = current /\ event'[c] = outcome
      BY <2>5, <3>1
    <3>2. CASE event'[c] = event[c]
      BY <2>4, <2>7, <3>2
    <3>3. QED BY <2>6, <3>1, <3>2
  <2>8. QED BY <2>7 DEF EventInv
<1>14. QED
  BY <1>3, <1>5, <1>6, <1>8, <1>9, <1>10, <1>12, <1>13, ConsumerSteps DEF Next

LEMMA StoreInvariant == Spec => []StoreOpsInv
<1>1. Init => StoreOpsInv
  <2>1. SUFFICES ASSUME Init PROVE OrderInv /\ EventInv
    BY InitShape DEF StoreOpsInv
  <2>2. Pending = <<>> /\ Len(<<>>) = 0 /\ 1..0 = {}
    BY <2>1, InitShape
  <2>3. Ordered(Pending, sent) /\ \A m : Follows(Pending, m)
    BY <2>2 DEF Ordered, Follows
  <2>4. StoreInv /\ EventInv
    BY <2>1, <2>3 DEF Init, StoreInv, EventInv
  <2>5. QED BY <2>3, <2>4 DEF OrderInv
<1>2. StoreOpsInv /\ [Next]_vars => StoreOpsInv'
  BY ShapeStep, OrderStep, EventStep DEF StoreOpsInv
<1>3. QED BY <1>1, <1>2, PTL DEF Spec

(* No operation changes what a later one has written or deleted, whatever  *)
(* the callers have given up waiting for.                                  *)
THEOREM NothingOvertaken == Spec => NeverOvertaken
<1>1. StoreOpsInv /\ [Next]_vars => [\A k \in Keys : store'[k].at >= store[k].at]_vars
  BY OrderStep DEF StoreOpsInv
<1>2. QED BY <1>1, StoreInvariant, PTL DEF Spec, NeverOvertaken

(* A set() that submit() reports as completed is in the store, or a later  *)
(* operation has made something else of its key: FileStore's silent loss   *)
(* of a write is always reported as an error.                              *)
THEOREM CompletedSetsStored == Spec => []CompletedSetIsStored
<1>1. StoreOpsInv => CompletedSetIsStored
  BY DEF StoreOpsInv, EventInv, Reported, CompletedSetIsStored
<1>2. QED BY <1>1, StoreInvariant, PTL
-----------------------------------------------------------------------------
(* Nobody waits for nothing.  Being queued survives the arrival of others  *)
(* and the withdrawal of another's operation; only the head leaves, and    *)
(* its caller is told.                                                     *)
Queued(q, x) == \E i \in 1..Len(q) : q[i] = x

LEMMA QueuedAppend ==
    ASSUME NEW S, NEW q \in Seq(S), NEW x \in S
    PROVE  /\ Queued(Append(q, x), x)
           /\ \A y : Queued(q, y) => Queued(Append(q, x), y)
<1>1. /\ Len(q) \in Nat /\ Len(Append(q, x)) = Len(q) + 1
      /\ Append(q, x)[Len(q) + 1] = x
      /\ \A i \in 1..Len(q) : Append(q, x)[i] = q[i]
  BY AppendProperties, LenProperties
<1>2. Len(q) + 1 \in 1..(Len(q) + 1) /\ \A i \in 1..Len(q) : i \in 1..(Len(q) + 1)
  BY <1>1
<1>3. QED BY <1>1, <1>2 DEF Queued

LEMMA QueuedTail ==
    ASSUME NEW S, NEW q \in Seq(S), q # <<>>, NEW y, Queued(q, y), y # Head(q)
    PROVE  Queued(Tail(q), y)
<1>1. /\ Len(q) \in Nat /\ Len(Tail(q)) = Len(q) - 1
      /\ Head(q) = q[1] /\ \A i \in 1..Len(Tail(q)) : Tail(q)[i] = q[i + 1]
  BY HeadTailProperties, LenProperties
<1>2. PICK i \in 1..Len(q) : q[i] = y
  BY DEF Queued
<1>3. i # 1
  BY <1>1, <1>2
<1>4. i - 1 \in 1..(Len(q) - 1) /\ (i - 1) + 1 = i
  BY <1>1, <1>3
<1>5. QED BY <1>1, <1>2, <1>4 DEF Queued

LEMMA QueuedRemoveAt ==
    ASSUME NEW S, NEW q \in Seq(S), NEW n \in 1..Len(q), NEW y, Queued(q, y), y # q[n]
    PROVE  Queued(RemoveAt(q, n), y)
<1>1. /\ Len(q) \in Nat /\ Len(RemoveAt(q, n)) = Len(q) - 1
      /\ \A j \in 1..(Len(q) - 1) : RemoveAt(q, n)[j] = IF j < n THEN q[j] ELSE q[j + 1]
  BY RemoveAtProperties, LenProperties
<1>2. PICK i \in 1..Len(q) : q[i] = y
  BY DEF Queued
<1>3. i # n
  BY <1>2
<1>4. CASE i < n
  <2>1. i \in 1..(Len(q) - 1)
    BY <1>1, <1>4
  <2>2. RemoveAt(q, n)[i] = y
    BY <1>1, <1>2, <1>4, <2>1
  <2>3. QED BY <1>1, <2>1, <2>2 DEF Queued
<1>5. CASE ~(i < n)
  <2>1. i - 1 \in 1..(Len(q) - 1) /\ ~(i - 1 < n) /\ (i - 1) + 1 = i
    BY <1>1, <1>3, <1>5
  <2>2. RemoveAt(q, n)[i - 1] = y
    BY <1>1, <1>2, <2>1
  <2>3. QED BY <1>1, <2>1, <2>2 DEF Queued
<1>6. QED BY <1>4, <1>5

Served(c) == submitter[c] = "waiting" /\ event[c] = "unset" => Queued(Pending, op[c])
ServedInv == \A c \in Submitters : Served(c)

LEMMA ServedStep ==
    ASSUME ShapeInv, ServedInv, [Next]_vars
    PROVE  ServedInv'
<1>0. /\ TypeOK /\ CallersInv /\ Pending \in Seq(Operations) /\ Len(Pending) \in Nat
  BY QueueTypes, LenProperties DEF ShapeInv
(* A caller that only looks on stays queued if its operation does.         *)
<1>1. ASSUME NEW c \in Submitters, UNCHANGED <<submitter[c], op[c], event[c]>>,
             submitter[c] = "waiting" => (Queued(Pending, op[c]) => Queued(Pending', op[c]))
      PROVE  Served(c)'
  BY <1>1 DEF ServedInv, Served
<1>2. ASSUME NEW c \in Submitters, submitter'[c] # "waiting",
             \A d \in Submitters \ {c} :
                /\ UNCHANGED <<submitter[d], op[d], event[d]>>
                /\ submitter[d] = "waiting" => (Queued(Pending, op[d]) => Queued(Pending', op[d]))
      PROVE  ServedInv'
  <2>1. ASSUME NEW d \in Submitters \ {c} PROVE Served(d)'
    BY <1>1, <1>2, <2>1
  <2>2. Served(c)'
    BY <1>2 DEF Served
  <2>3. QED BY <2>1, <2>2 DEF ServedInv
<1>3. ASSUME NEW c \in Submitters, Send(c) PROVE ServedInv'
  <2>1. op'[c] \in Operations /\ Pending' = Append(Pending, op'[c])
    BY <1>3, SendAppends
  <2>2. \A d \in Submitters \ {c} : UNCHANGED <<submitter[d], op[d], event[d]>>
    BY <1>0, <1>3 DEF Send, SubmitterGoes, TypeOK
  <2>3. /\ Queued(Pending', op'[c])
        /\ \A y : Queued(Pending, y) => Queued(Pending', y)
    BY <1>0, <2>1, QueuedAppend
  <2>4. ASSUME NEW d \in Submitters \ {c} PROVE Served(d)'
    BY <1>1, <2>2, <2>3, <2>4
  <2>5. Served(c)'
    BY <2>3 DEF Served
  <2>6. QED BY <2>4, <2>5 DEF ServedInv
<1>4. ASSUME NEW c \in Submitters, GiveUp(c) PROVE ServedInv'
  <2>1. /\ submitter[c] # "idle" /\ submitter'[c] # "waiting"
        /\ \A d \in Submitters \ {c} : UNCHANGED <<submitter[d], op[d], event[d]>>
    BY <1>0, <1>4 DEF GiveUp, Returns, SubmitterGoes, TypeOK
  <2>2. ASSUME NEW d \in Submitters \ {c}, submitter[d] = "waiting", Queued(Pending, op[d])
        PROVE  Queued(Pending', op[d])
    <3>1. op[d] # op[c]
      <4>1. op[d] # None /\ op[c] # None
        BY <1>0, <2>1, <2>2 DEF CallersInv
      <4>2. op[d].by = d /\ op[c].by = c
        BY <1>0, <4>1 DEF CallersInv
      <4>3. QED BY <2>2, <4>2
    <3>2. CASE Pending' = Pending
      BY <2>2, <3>2
    <3>3. ASSUME NEW i \in (Capacity + 1)..Len(Pending),
                 Pending' = RemoveAt(Pending, i), Pending[i] = op[c]
          PROVE  Queued(Pending', op[d])
      <4>1. i \in 1..Len(Pending)
        BY <1>0 DEF Capacity
      <4>2. QED BY <1>0, <2>2, <3>1, <3>3, <4>1, QueuedRemoveAt
    <3>4. QED BY <1>4, <3>2, <3>3, GiveUpWithdraws
  <2>3. QED BY <1>2, <2>1, <2>2
<1>5. ASSUME NEW c \in Submitters,
             \/ \E kind \in Kinds, key \in Keys : Submit(c, kind, key)
             \/ SendClosed(c) \/ Completes(c)
      PROVE  ServedInv'
  <2>1. Pending' = Pending
    BY <1>5, SubmittersType
  <2>2. /\ submitter'[c] # "waiting"
        /\ \A d \in Submitters \ {c} : UNCHANGED <<submitter[d], op[d], event[d]>>
    BY <1>0, <1>5 DEF Submit, SendClosed, Completes, Returns, SubmitterGoes, TypeOK
  <2>3. QED BY <1>2, <2>1, <2>2
<1>6. CASE FinishesAny
  <2>1. /\ Pending # <<>> /\ Pending' = Tail(Pending) /\ current # None
        /\ UNCHANGED <<submitter, op>> /\ Head(Pending) = current
    BY <1>0, <1>6, FinishFacts, FinishesQueue, CurrentLeads
  <2>2. PICK outcome \in {"ok", "error"} : Finish(outcome)
    BY <1>6, FinishFacts
  <2>3. ASSUME NEW c \in Submitters PROVE Served(c)'
    <3>1. CASE submitter[c] = "waiting" /\ op[c] = current
      <4>1. current.by = c
        BY <1>0, <2>1, <3>1 DEF CallersInv
      <4>2. event'[c] = outcome
        BY <1>0, <2>2, <3>1, <4>1 DEF Finish, TypeOK
      <4>3. QED BY <4>2 DEF Served
    <3>2. CASE submitter[c] = "waiting" /\ op[c] # current
      <4>1. Queued(Pending, op[c]) => Queued(Pending', op[c])
        BY <1>0, <2>1, <3>2, QueuedTail
      <4>2. event'[c] = "unset" => event[c] = "unset"
        BY <1>0, <2>2 DEF Finish, TypeOK
      <4>3. QED BY <2>1, <4>1, <4>2 DEF ServedInv, Served
    <3>3. CASE submitter[c] # "waiting"
      BY <2>1, <3>3 DEF Served
    <3>4. QED BY <3>1, <3>2, <3>3
  <2>4. QED BY <2>3 DEF ServedInv
<1>7. ASSUME Pending' = Pending, UNCHANGED <<submitter, op, event>> PROVE ServedInv'
  BY <1>1, <1>7 DEF ServedInv
<1>8. CASE Receive
  BY <1>7, <1>8, ReceiveKeepsQueue DEF Receive
<1>9. CASE Continues
  BY <1>7, <1>9, ContinuesKeepsQueue
<1>10. CASE Close \/ Stopped \/ Terminated \/ UNCHANGED vars
  <2>1. UNCHANGED <<current, buffer, waiting, submitter, op, event>>
    BY <1>10 DEF Close, Stopped, Terminated, vars, streamVars
  <2>2. Pending' = Pending
    BY <2>1 DEF Pending
  <2>3. QED BY <1>7, <2>1, <2>2
<1>11. QED BY <1>3, <1>4, <1>5, <1>6, <1>8, <1>9, <1>10, ConsumerSteps DEF Next

(* No wake-up is lost: who waits without a report has an operation in the  *)
(* queue, and the consumer only waits, or ends, when there is none; it     *)
(* does not wait for a stream that lifespan() has closed.                  *)
THEOREM CallersServed == Spec => []CallersAreServed
<1>1. Init => ServedInv
  BY DEF Init, ServedInv, Served
<1>2. ShapeInv /\ ServedInv /\ [Next]_vars => ServedInv'
  BY ServedStep
<1>3. ShapeInv /\ ServedInv => CallersAreServed
  <2>1. SUFFICES ASSUME ShapeInv, ServedInv PROVE CallersAreServed
    OBVIOUS
  <2>2. Pending \in Seq(Operations) /\ DOMAIN Pending = 1..Len(Pending)
    BY <2>1, QueueTypes, LenProperties DEF ShapeInv
  <2>3. \A c \in Submitters : submitter[c] = "waiting" /\ event[c] = "unset" =>
            \E i \in DOMAIN Pending : Pending[i] = op[c]
    BY <2>1, <2>2 DEF ServedInv, Served, Queued
  <2>4. ASSUME consumer \in {"blocked", "ended"} PROVE Pending = <<>>
    <3>1. current = None /\ buffer = <<>> /\ waiting = <<>>
      BY <2>1, <2>4 DEF ShapeInv, TypeOK, ConsumerInv
    <3>2. QED BY <3>1, ConcatEmptySeq, EmptySeq DEF Pending
  <2>5. consumer = "blocked" => status = "running"
    BY <2>1 DEF ShapeInv, ConsumerInv
  <2>6. QED BY <2>3, <2>4, <2>5 DEF CallersAreServed
<1>4. QED BY <1>1, <1>2, <1>3, ShapeInvariant, PTL DEF Spec

=============================================================================
