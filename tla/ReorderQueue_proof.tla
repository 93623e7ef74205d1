------------------------- MODULE ReorderQueue_proof --------------------------
(* The reorder queue of terminal input, for any sessions, capacity, numbers,  *)
(* clock and schedule of its timers: no send under its lock blocks, every     *)
(* input it took is sent or waits, once, and a timer is set in time for those *)
(* that wait; and where sessions do not begin in the same millisecond, inputs *)
(* are sent in turn unless one has timed out, and in the order of their       *)
(* numbers as far as the queue holds them.                                    *)
(*                                                                            *)
(* The first part is about constants: what a sorted buffer is as a sequence,  *)
(* and what sending its first items does to channel and buffer, so that the   *)
(* operations need no arithmetic on primed variables.                         *)
EXTENDS ReorderQueue, SequenceTheorems, FiniteSetTheorems, TLAPS

(* A sorted buffer is a sequence of its items, each of them once. *)
LEMMA SortedBuffer ==
  ASSUME NEW B, B \subseteq Items, IsFiniteSet(B),
         NEW order \in Bijection(1..Cardinality(B), B)
  PROVE  /\ Cardinality(B) \in Nat
         /\ order \in Seq(Items) /\ Len(order) = Cardinality(B)
         /\ DOMAIN order = 1..Cardinality(B)
         /\ \A i \in 1..Cardinality(B) : order[i] \in B
         /\ \A i, j \in 1..Cardinality(B) : order[i] = order[j] => i = j
         /\ \A b \in B : \E i \in 1..Cardinality(B) : order[i] = b
<1>1. Cardinality(B) \in Nat
  BY FS_CardinalityType
<1>2. order \in [1..Cardinality(B) -> B]
  BY DEF Bijection, Injection
<1>3. order \in [1..Cardinality(B) -> Items]
  BY <1>2
<1>4. order \in Seq(Items) /\ Len(order) = Cardinality(B)
  BY <1>1, <1>3
<1>5. \A i, j \in 1..Cardinality(B) : order[i] = order[j] => i = j
  BY <1>2 DEF Bijection, Injection, IsInjective
<1>6. \A b \in B : \E i \in 1..Cardinality(B) : order[i] = b
  BY DEF Bijection, Surjection
<1> QED BY <1>1, <1>2, <1>4, <1>5, <1>6

(* What is left when the first k are sent has k items fewer. *)
LEMMA WhatIsLeft ==
  ASSUME NEW B, B \subseteq Items, IsFiniteSet(B),
         NEW order \in Bijection(1..Cardinality(B), B), NEW k \in 0..Cardinality(B)
  PROVE  /\ IsFiniteSet(B \ FirstOf(order, k))
         /\ Cardinality(B \ FirstOf(order, k)) = Cardinality(B) - k
         /\ \A b \in B \ FirstOf(order, k) :
              \E i \in (k + 1)..Cardinality(B) : order[i] = b
<1> DEFINE C    == Cardinality(B)
           Left == B \ FirstOf(order, k)
           f    == [i \in (k + 1)..C |-> order[i]]
<1>1. /\ C \in Nat
      /\ \A i \in 1..C : order[i] \in B
      /\ \A i, j \in 1..C : order[i] = order[j] => i = j
      /\ \A b \in B : \E i \in 1..C : order[i] = b
  BY SortedBuffer
<1>k. k \in Nat /\ k <= C
  BY <1>1
<1> HIDE DEF C
<1>2. \A b \in Left : \E i \in (k + 1)..C : order[i] = b
  <2> SUFFICES ASSUME NEW b \in Left PROVE \E i \in (k + 1)..C : order[i] = b
    OBVIOUS
  <2>1. PICK i \in 1..C : order[i] = b
    BY <1>1
  <2>2. i \notin 1..k
    BY <2>1 DEF FirstOf
  <2>3. i \in (k + 1)..C
    BY <2>2, <1>k, <1>1
  <2> QED BY <2>1, <2>3
<1>3. \A i \in (k + 1)..C : i \in 1..C /\ order[i] \in Left
  <2> SUFFICES ASSUME NEW i \in (k + 1)..C PROVE i \in 1..C /\ order[i] \in Left
    OBVIOUS
  <2>1. i \in 1..C /\ i \notin 1..k /\ 1..k \subseteq 1..C
    BY <1>k, <1>1
  <2>2. order[i] \notin FirstOf(order, k)
    BY <2>1, <1>1 DEF FirstOf
  <2> QED BY <2>1, <2>2, <1>1
<1>4. f \in Bijection((k + 1)..C, Left)
  <2>1. f \in [(k + 1)..C -> Left]
    BY <1>3
  <2>2. IsInjective(f)
    BY <1>1, <1>3 DEF IsInjective
  <2>3. \A b \in Left : \E i \in (k + 1)..C : f[i] = b
    BY <1>2
  <2> QED BY <2>1, <2>2, <2>3 DEF Bijection, Injection, Surjection
<1>5. IsFiniteSet((k + 1)..C) /\ Cardinality((k + 1)..C) = C - k
  <2>1. k + 1 \in Int /\ C \in Int
    BY <1>1, <1>k
  <2>2. /\ IsFiniteSet((k + 1)..C)
        /\ Cardinality((k + 1)..C) = IF k + 1 > C THEN 0 ELSE C - (k + 1) + 1
    BY <2>1, FS_Interval
  <2> QED BY <2>2, <1>1, <1>k
<1>6. IsFiniteSet(Left) /\ Cardinality(Left) = C - k
  <2>1. ExistsBijection((k + 1)..C, Left)
    BY <1>4 DEF ExistsBijection
  <2> HIDE DEF Left
  <2> QED BY <1>5, <2>1, FS_Bijection
<1> QED BY <1>2, <1>6 DEF C

(* The channel when they are sent, after a channel S. *)
SentAfter(S, order, k) == S \o SubSeq(order, 1, k)

AddsFirst(S, B, order, k, T) ==
  /\ T \in Seq(Items) /\ Len(T) = Len(S) + k /\ Len(S) \in Nat /\ k \in Nat
  /\ \A i \in 1..Len(S) : T[i] = S[i]
  /\ \A i \in 1..k : T[Len(S) + i] = order[i]
  /\ \A i \in (Len(S) + 1)..Len(T) : i - Len(S) \in 1..k /\ T[i] = order[i - Len(S)]
  /\ \A b \in B : \/ b \in B \ FirstOf(order, k)
                  \/ \E i \in 1..Len(T) : T[i] = b

LEMMA WhatIsSent ==
  ASSUME NEW S \in Seq(Items), NEW B, B \subseteq Items, IsFiniteSet(B),
         NEW order \in Bijection(1..Cardinality(B), B), NEW k \in 0..Cardinality(B),
         NEW T, T = SentAfter(S, order, k)
  PROVE  AddsFirst(S, B, order, k, T)
<1>1. /\ Cardinality(B) \in Nat
      /\ order \in Seq(Items) /\ Len(order) = Cardinality(B)
  BY SortedBuffer
<1>2. k \in Nat /\ k <= Len(order) /\ Len(order) \in Nat /\ Len(S) \in Nat
  BY <1>1
<1>3. PICK P \in Seq(Items) : P = SubSeq(order, 1, k) /\ Len(P) = k /\ \A i \in 1..k : P[i] = order[i]
  <2>1. 1 \in 1..(Len(order) + 1) /\ k \in (1 - 1)..Len(order)
    BY <1>2
  <2>2. /\ SubSeq(order, 1, k) \in Seq(Items)
        /\ Len(SubSeq(order, 1, k)) = k - 1 + 1
        /\ \A i \in 1..(k - 1 + 1) : SubSeq(order, 1, k)[i] = order[1 + i - 1]
    BY <2>1, <1>1, SubSeqProperties
  <2>3. k - 1 + 1 = k /\ \A i \in 1..k : 1 + i - 1 = i
    BY <1>2
  <2> QED BY <2>2, <2>3
<1>4. /\ T \in Seq(Items) /\ Len(T) = Len(S) + Len(P)
      /\ \A i \in 1..(Len(S) + Len(P)) : T[i] = IF i <= Len(S) THEN S[i] ELSE P[i - Len(S)]
  BY <1>3, ConcatProperties DEF SentAfter
<1>5. \A i \in 1..Len(S) : T[i] = S[i]
  BY <1>4, <1>3, <1>2
<1>6. \A i \in (Len(S) + 1)..Len(T) : i - Len(S) \in 1..k /\ T[i] = order[i - Len(S)]
  <2> SUFFICES ASSUME NEW i \in (Len(S) + 1)..Len(T)
               PROVE  i - Len(S) \in 1..k /\ T[i] = order[i - Len(S)]
    OBVIOUS
  <2>1. i \in 1..(Len(S) + Len(P)) /\ ~(i <= Len(S)) /\ i - Len(S) \in 1..k
    BY <1>2, <1>3, <1>4
  <2>2. T[i] = P[i - Len(S)]
    BY <2>1, <1>4
  <2> QED BY <2>1, <2>2, <1>3
<1>7. \A i \in 1..k : T[Len(S) + i] = order[i]
  <2> SUFFICES ASSUME NEW i \in 1..k PROVE T[Len(S) + i] = order[i]
    OBVIOUS
  <2>1. Len(S) + i \in (Len(S) + 1)..Len(T) /\ (Len(S) + i) - Len(S) = i
    BY <1>2, <1>3, <1>4
  <2> QED BY <2>1, <1>6
<1>8. \A b \in FirstOf(order, k) : \E i \in 1..Len(T) : T[i] = b
  <2> SUFFICES ASSUME NEW i \in 1..k PROVE \E j \in 1..Len(T) : T[j] = order[i]
    BY DEF FirstOf
  <2>1. Len(S) + i \in 1..Len(T)
    BY <1>2, <1>3, <1>4
  <2> QED BY <2>1, <1>7
<1> QED BY <1>2, <1>3, <1>4, <1>5, <1>6, <1>7, <1>8 DEF AddsFirst

-----------------------------------------------------------------------------
(* A step takes `count` items in, those of `new`, and the channel and the     *)
(* buffer go from S and B to T and D: nothing sent changes, and all that was  *)
(* in the buffer or is new is in the buffer or sent.                          *)
Carried(S, B, T, D, new, count) ==
  /\ T \in Seq(Items) /\ Len(S) \in Nat /\ Len(T) \in Nat /\ Len(S) <= Len(T)
  /\ D \subseteq B \cup new /\ IsFiniteSet(D)
  /\ Cardinality(B) \in Nat /\ Cardinality(D) \in Nat
  /\ Len(T) + Cardinality(D) = Len(S) + Cardinality(B) + count
  /\ \A i \in 1..Len(S) : T[i] = S[i]
  /\ \A b \in B \cup new : b \in D \/ \E i \in 1..Len(T) : T[i] = b

LEMMA OneMore ==
  ASSUME NEW S \in Seq(Items), NEW x \in Items, NEW T, T = Append(S, x)
  PROVE  /\ T \in Seq(Items) /\ Len(S) \in Nat /\ Len(T) = Len(S) + 1
         /\ \A i \in 1..Len(S) : T[i] = S[i]
         /\ T[Len(S) + 1] = x
<1>1. T \in Seq(Items) /\ Len(T) = Len(S) + 1
  BY AppendProperties
<1>2. (\A i \in 1..Len(S) : T[i] = S[i]) /\ T[Len(S) + 1] = x
  BY AppendProperties
<1> QED BY <1>1, <1>2

LEMMA CarryOld ==
  ASSUME NEW S \in Seq(Items), NEW B, B \subseteq Items, IsFiniteSet(B),
         NEW x \in Items, NEW T, T = Append(S, x)
  PROVE  Carried(S, B, T, B, {x}, 1)
<1>1. Cardinality(B) \in Nat
  BY FS_CardinalityType
<1>2. /\ T \in Seq(Items) /\ Len(S) \in Nat /\ Len(T) = Len(S) + 1
      /\ \A i \in 1..Len(S) : T[i] = S[i]
      /\ T[Len(S) + 1] = x
  BY OneMore
<1>3. \A b \in B \cup {x} : b \in B \/ \E i \in 1..Len(T) : T[i] = b
  <2>1. Len(S) + 1 \in 1..Len(T)
    BY <1>2
  <2> QED BY <2>1, <1>2
<1>4. Len(T) + Cardinality(B) = Len(S) + Cardinality(B) + 1 /\ Len(S) <= Len(T) /\ Len(T) \in Nat
  BY <1>1, <1>2
<1> QED BY <1>1, <1>2, <1>3, <1>4 DEF Carried

LEMMA CarryHold ==
  ASSUME NEW S \in Seq(Items), NEW B, B \subseteq Items, IsFiniteSet(B),
         NEW x \in Items, x \notin B
  PROVE  Carried(S, B, S, B \cup {x}, {x}, 1)
<1>1. Cardinality(B) \in Nat /\ Len(S) \in Nat
  BY FS_CardinalityType
<1>2. IsFiniteSet(B \cup {x}) /\ Cardinality(B \cup {x}) = Cardinality(B) + 1
  BY FS_AddElement
<1>3. Len(S) + Cardinality(B \cup {x}) = Len(S) + Cardinality(B) + 1 /\ Cardinality(B \cup {x}) \in Nat
  BY <1>1, <1>2
<1> QED BY <1>1, <1>2, <1>3 DEF Carried

LEMMA Departures ==
  ASSUME NEW s \in Nat, NEW b \in Nat, NEW k \in 0..b, NEW t, NEW d, t = s + k, d = b - k
  PROVE  t + d = s + b + 0 /\ s <= t /\ t \in Nat /\ d \in Nat
OBVIOUS

LEMMA CarryTimeout ==
  ASSUME NEW S \in Seq(Items), NEW B, B \subseteq Items, IsFiniteSet(B),
         NEW order \in Bijection(1..Cardinality(B), B), NEW k \in 0..Cardinality(B),
         NEW T, T = SentAfter(S, order, k)
  PROVE  Carried(S, B, T, B \ FirstOf(order, k), {}, 0)
<1> DEFINE D == B \ FirstOf(order, k)
<1>1. Cardinality(B) \in Nat
  BY SortedBuffer
<1>2. IsFiniteSet(D) /\ Cardinality(D) = Cardinality(B) - k
  BY WhatIsLeft
<1>a. AddsFirst(S, B, order, k, T)
  BY WhatIsSent
<1>3. /\ T \in Seq(Items) /\ Len(T) = Len(S) + k /\ Len(S) \in Nat /\ k \in Nat
      /\ \A i \in 1..Len(S) : T[i] = S[i]
  BY <1>a DEF AddsFirst
<1>d. \A b \in B : b \in D \/ \E i \in 1..Len(T) : T[i] = b
  BY <1>a DEF AddsFirst
<1> HIDE DEF D
<1>4. /\ Len(T) + Cardinality(D) = Len(S) + Cardinality(B) + 0
      /\ Len(S) <= Len(T) /\ Len(T) \in Nat /\ Cardinality(D) \in Nat
  BY <1>1, <1>2, <1>3, Departures
<1>5. D \subseteq B \cup {}
  BY DEF D
<1>6. \A b \in B \cup {} : b \in D \/ \E i \in 1..Len(T) : T[i] = b
  BY <1>d
<1>7. Carried(S, B, T, D, {}, 0)
  BY <1>1, <1>2, <1>3, <1>4, <1>5, <1>6, Zenon DEF Carried
<1> QED BY <1>7 DEF D

AddsNext(S, B, x, order, k, T) ==
  /\ Carried(S, B, T, B \ FirstOf(order, k), {x}, 1)
  /\ Len(T) = Len(S) + 1 + k /\ Len(S) \in Nat /\ k \in Nat
  /\ T[Len(S) + 1] = x
  /\ \A i \in (Len(S) + 2)..Len(T) :
       i - Len(S) - 1 \in 1..k /\ T[i] = order[i - Len(S) - 1]

LEMMA CarryNext ==
  ASSUME NEW S \in Seq(Items), NEW B, B \subseteq Items, IsFiniteSet(B), NEW x \in Items,
         NEW order \in Bijection(1..Cardinality(B), B), NEW k \in 0..Cardinality(B),
         NEW N, N = Append(S, x), NEW T, T = SentAfter(N, order, k)
  PROVE  AddsNext(S, B, x, order, k, T)
<1>1. PICK M \in Seq(Items) :
        /\ M = Append(S, x) /\ Len(S) \in Nat /\ Len(M) = Len(S) + 1
        /\ \A i \in 1..Len(S) : M[i] = S[i]
        /\ M[Len(S) + 1] = x
  BY OneMore
<1>2. T = SentAfter(M, order, k)
  BY <1>1
<1> DEFINE D == B \ FirstOf(order, k)
<1>3. Carried(M, B, T, D, {}, 0)
  BY <1>2, CarryTimeout
<1>a. AddsFirst(M, B, order, k, T)
  BY <1>2, WhatIsSent
<1>4. /\ Len(T) = Len(M) + k /\ k \in Nat
      /\ \A i \in (Len(M) + 1)..Len(T) : i - Len(M) \in 1..k /\ T[i] = order[i - Len(M)]
  BY <1>a DEF AddsFirst
<1> HIDE DEF D
<1>5. /\ T \in Seq(Items) /\ Len(T) \in Nat /\ D \subseteq B /\ IsFiniteSet(D)
      /\ Cardinality(B) \in Nat /\ Cardinality(D) \in Nat
      /\ Len(T) + Cardinality(D) = Len(M) + Cardinality(B)
      /\ \A i \in 1..Len(M) : T[i] = M[i]
      /\ \A b \in B : b \in D \/ \E i \in 1..Len(T) : T[i] = b
  BY <1>3, <1>1 DEF Carried
<1>b. /\ Len(S) + 1 \in 1..Len(M) /\ 1..Len(S) \subseteq 1..Len(M)
      /\ Len(S) + 1 \in 1..Len(T)
  BY <1>1, <1>4
<1>6. T[Len(S) + 1] = x
  BY <1>1, <1>b, <1>5, Zenon
<1>7. \A i \in 1..Len(S) : T[i] = S[i]
  BY <1>1, <1>b, <1>5, Zenon
<1>8. /\ Len(T) + Cardinality(D) = Len(S) + Cardinality(B) + 1
      /\ Len(S) <= Len(T) /\ Len(T) = Len(S) + 1 + k
  BY <1>1, <1>4, <1>5
<1>9. Carried(S, B, T, D, {x}, 1)
  <2>1. \A b \in B \cup {x} : b \in D \/ \E i \in 1..Len(T) : T[i] = b
    BY <1>b, <1>5, <1>6
  <2> QED BY <1>1, <1>5, <1>7, <1>8, <2>1 DEF Carried
<1>10. \A i \in (Len(S) + 2)..Len(T) :
         i - Len(S) - 1 \in 1..k /\ T[i] = order[i - Len(S) - 1]
  <2> SUFFICES ASSUME NEW i \in (Len(S) + 2)..Len(T)
               PROVE  i - Len(S) - 1 \in 1..k /\ T[i] = order[i - Len(S) - 1]
    OBVIOUS
  <2>1. i \in (Len(M) + 1)..Len(T) /\ i - Len(M) = i - Len(S) - 1
    BY <1>1, <1>5
  <2> QED BY <2>1, <1>4
<1> QED BY <1>1, <1>4, <1>6, <1>8, <1>9, <1>10 DEF D, AddsNext

(* The whole buffer is flushed. *)
Flushes(S, B, order, M) ==
  /\ Carried(S, B, M, {}, {}, 0)
  /\ Len(M) = Len(S) + Cardinality(B)
  /\ \A i \in (Len(S) + 1)..Len(M) :
       i - Len(S) \in 1..Cardinality(B) /\ M[i] = order[i - Len(S)]

LEMMA CarryFlush ==
  ASSUME NEW S \in Seq(Items), NEW B, B \subseteq Items, IsFiniteSet(B),
         NEW order \in Bijection(1..Cardinality(B), B), NEW M, M = S \o order
  PROVE  Flushes(S, B, order, M)
<1>1. PICK k : k = Cardinality(B)
  OBVIOUS
<1>2. /\ k \in Nat /\ k \in 0..Cardinality(B) /\ order \in Seq(Items) /\ Len(order) = k
  BY <1>1, SortedBuffer
<1>3. SubSeq(order, 1, k) = order
  <2>1. /\ SubSeq(order, 1, k) \in Seq(Items) /\ Len(SubSeq(order, 1, k)) = k - 1 + 1
        /\ \A i \in 1..(k - 1 + 1) : SubSeq(order, 1, k)[i] = order[1 + i - 1]
    <3>1. 1 \in 1..(Len(order) + 1) /\ k \in (1 - 1)..Len(order)
      BY <1>2
    <3> QED BY <3>1, <1>2, SubSeqProperties
  <2>2. PICK P \in Seq(Items) : P = SubSeq(order, 1, k)
    BY <2>1
  <2>3. Len(P) = Len(order) /\ \A i \in 1..Len(order) : P[i] = order[i]
    BY <2>1, <2>2, <1>2
  <2>4. P = order
    BY <2>3, <1>2, SeqEqual
  <2> QED BY <2>2, <2>4
<1>4. M = SentAfter(S, order, k)
  BY <1>3 DEF SentAfter
<1>5. B \ FirstOf(order, k) = {}
  <2>1. \A b \in B : \E i \in 1..Cardinality(B) : order[i] = b
    BY SortedBuffer
  <2> QED BY <2>1, <1>1 DEF FirstOf
<1>6. Carried(S, B, M, B \ FirstOf(order, k), {}, 0)
  BY <1>2, <1>4, CarryTimeout
<1>a. AddsFirst(S, B, order, k, M)
  BY <1>2, <1>4, WhatIsSent
<1>7. \A i \in (Len(S) + 1)..Len(M) : i - Len(S) \in 1..k /\ M[i] = order[i - Len(S)]
  BY <1>a DEF AddsFirst
<1>8. Len(M) = Len(S) + k
  BY <1>a DEF AddsFirst
<1> QED BY <1>1, <1>5, <1>6, <1>7, <1>8 DEF Flushes

(* After the flush the first item of a session is sent or held. *)
LEMMA FlushThenOne ==
  ASSUME NEW S, NEW B, NEW M, NEW x, NEW T, Carried(S, B, M, {}, {}, 0),
         T \in Seq(Items), Len(M) \in Nat, Len(T) = Len(M) + 1,
         \A i \in 1..Len(M) : T[i] = M[i], T[Len(M) + 1] = x
  PROVE  Carried(S, B, T, {}, {x}, 1)
<1>1. /\ Len(S) \in Nat /\ Len(S) <= Len(M) /\ Cardinality(B) \in Nat
      /\ Len(M) + Cardinality({}) = Len(S) + Cardinality(B) + 0
      /\ \A i \in 1..Len(S) : M[i] = S[i]
      /\ \A b \in B : \E i \in 1..Len(M) : M[i] = b
  BY DEF Carried
<1>2. IsFiniteSet({}) /\ Cardinality({}) = 0
  BY FS_EmptySet
<1>3. /\ 1..Len(S) \subseteq 1..Len(M) /\ 1..Len(M) \subseteq 1..Len(T)
      /\ Len(M) + 1 \in 1..Len(T) /\ Len(S) <= Len(T) /\ Len(T) \in Nat
  BY <1>1
<1>4. Len(T) + Cardinality({}) = Len(S) + Cardinality(B) + 1
  BY <1>1, <1>2
<1>5. \A i \in 1..Len(S) : T[i] = S[i]
  BY <1>1, <1>3
<1>6. \A b \in B \cup {x} : \E i \in 1..Len(T) : T[i] = b
  BY <1>1, <1>3
<1> QED BY <1>1, <1>2, <1>3, <1>4, <1>5, <1>6 DEF Carried

LEMMA FlushThenHold ==
  ASSUME NEW S, NEW B, NEW M, NEW x, Carried(S, B, M, {}, {}, 0)
  PROVE  Carried(S, B, M, {x}, {x}, 1)
<1>1. /\ Len(S) \in Nat /\ Len(M) \in Nat /\ Cardinality(B) \in Nat
      /\ Len(M) + Cardinality({}) = Len(S) + Cardinality(B) + 0
  BY DEF Carried
<1>2. Cardinality({}) = 0 /\ IsFiniteSet({x}) /\ Cardinality({x}) = 1
  BY FS_EmptySet, FS_Singleton
<1>3. Len(M) + Cardinality({x}) = Len(S) + Cardinality(B) + 1
  BY <1>1, <1>2
<1> QED BY <1>1, <1>2, <1>3 DEF Carried

-----------------------------------------------------------------------------
(* The numbers of acceptance tell the items apart. *)
Numbered == \A b \in buffer : b.n \in 1..accepted

Kept == TypeOK /\ Numbered /\ RoomForAll /\ EachOnce /\ DueInTime

LEMMA RoomArithmetic ==
  ASSUME NEW s \in Int, NEW u \in Int, NEW b \in Int, NEW d \in Int, NEW count \in Int,
         NEW t \in Int, NEW c \in Int, u + d = s + b + count
  PROVE  b + (s - t) + count <= c => d + (u - t) <= c
OBVIOUS

LEMMA CarriedCounts ==
  ASSUME NEW S, NEW B, NEW T, NEW D, NEW new, NEW count \in Nat,
         Carried(S, B, T, D, new, count),
         NEW a \in Nat, NEW t \in 0..Len(S), Len(S) + Cardinality(B) = a
  PROVE  /\ Len(T) + Cardinality(D) = a + count
         /\ t \in 0..Len(T)
         /\ Cardinality(B) + (Len(S) - t) + count <= Cap => Cardinality(D) + (Len(T) - t) <= Cap
<1>1. PICK s \in Nat, u \in Nat, b \in Nat, d \in Nat :
        /\ s = Len(S) /\ u = Len(T) /\ b = Cardinality(B) /\ d = Cardinality(D)
        /\ s <= u /\ u + d = s + b + count
  BY DEF Carried
<1>2. t \in 0..s /\ s + b = a
  BY <1>1
<1>3. u + d = a + count /\ t \in 0..u
  BY <1>1, <1>2
<1>4. Cap \in Nat
  BY BoundsAssumption
<1>5. b + (s - t) + count <= Cap => d + (u - t) <= Cap
  <2>1. /\ s \in Int /\ u \in Int /\ b \in Int /\ d \in Int /\ count \in Int
        /\ t \in Int /\ Cap \in Int /\ u + d = s + b + count
    BY <1>1, <1>2, <1>4
  <2> QED BY <2>1, RoomArithmetic
<1> QED BY <1>1, <1>3, <1>5

(* Channel S and buffer B have the items 1..a, and B no others. *)
AllOf(S, B, a) ==
  /\ \A n \in 1..a : (\E i \in 1..Len(S) : S[i].n = n) \/ (\E b \in B : b.n = n)
  /\ \A b \in B : b.n \in 1..a

(* The items `new` bring the next count numbers. *)
Brings(new, a, count) ==
  /\ \A n \in (a + 1)..(a + count) : \E b \in new : b.n = n
  /\ \A b \in new : b.n \in 1..(a + count)

LEMMA CarriedItems ==
  ASSUME NEW S, NEW B, NEW T, NEW D, NEW new, NEW count \in Nat, NEW a \in Nat,
         Carried(S, B, T, D, new, count), AllOf(S, B, a), Brings(new, a, count)
  PROVE  AllOf(T, D, a + count)
<1>1. /\ Len(S) \in Nat /\ Len(T) \in Nat /\ Len(S) <= Len(T)
      /\ \A i \in 1..Len(S) : T[i] = S[i]
      /\ \A b \in B \cup new : b \in D \/ \E i \in 1..Len(T) : T[i] = b
      /\ D \subseteq B \cup new
  BY DEF Carried
<1>2. ASSUME NEW n \in 1..(a + count)
      PROVE  (\E i \in 1..Len(T) : T[i].n = n) \/ (\E b \in D : b.n = n)
  <2>1. n \in 1..a \/ n \in (a + 1)..(a + count)
    OBVIOUS
  <2>2. (\E i \in 1..Len(S) : S[i].n = n) \/ (\E b \in B \cup new : b.n = n)
    BY <2>1 DEF AllOf, Brings
  <2>3. CASE \E i \in 1..Len(S) : S[i].n = n
    <3>1. PICK i \in 1..Len(S) : S[i].n = n
      BY <2>3
    <3>2. i \in 1..Len(T)
      BY <1>1
    <3> QED BY <3>1, <3>2, <1>1
  <2>4. CASE \E b \in B \cup new : b.n = n
    BY <2>4, <1>1
  <2> QED BY <2>2, <2>3, <2>4
<1>3. ASSUME NEW b \in D PROVE b.n \in 1..(a + count)
  <2>1. b \in B \/ b \in new
    BY <1>1
  <2>2. 1..a \subseteq 1..(a + count)
    OBVIOUS
  <2> QED BY <2>1, <2>2 DEF AllOf, Brings
<1> QED BY <1>2, <1>3 DEF AllOf

(* Whatever is carried over, the invariants of the items are. *)
LEMMA Delivery ==
  ASSUME TypeOK, Numbered, RoomForAll, EachOnce,
         NEW new, new \subseteq Items, NEW count \in Nat,
         Carried(sent, buffer, sent', buffer', new, count),
         \A n \in (accepted + 1)..(accepted + count) : \E b \in new : b.n = n,
         \A b \in new : b.n \in 1..(accepted + count),
         accepted' = accepted + count, UNCHANGED taken,
         Cardinality(buffer) + Waiting + count <= Cap
  PROVE  /\ sent' \in Seq(Items) /\ taken' \in 0..Len(sent') /\ accepted' \in Nat
         /\ buffer' \subseteq Items /\ IsFiniteSet(buffer')
         /\ Numbered' /\ RoomForAll' /\ EachOnce'
<1>1. PICK T, D, t, a : T = sent' /\ D = buffer' /\ t = taken /\ a = accepted
  OBVIOUS
<1>2. Carried(sent, buffer, T, D, new, count)
  BY <1>1
<1>3. /\ a \in Nat /\ t \in 0..Len(sent) /\ Len(sent) + Cardinality(buffer) = a
      /\ DOMAIN sent = 1..Len(sent) /\ buffer \subseteq Items
  BY <1>1 DEF TypeOK, EachOnce
<1>4. Cardinality(buffer) + (Len(sent) - t) + count <= Cap
  BY <1>1 DEF Waiting
<1>5. /\ Len(T) + Cardinality(D) = a + count
      /\ t \in 0..Len(T)
      /\ Cardinality(D) + (Len(T) - t) <= Cap
  BY <1>2, <1>3, <1>4, CarriedCounts
<1>6. AllOf(sent, buffer, a)
  BY <1>1, <1>3 DEF EachOnce, Numbered, AllOf
<1>7. Brings(new, a, count)
  BY <1>1 DEF Brings
<1>8. AllOf(T, D, a + count)
  <2>1. a \in Nat
    BY <1>3
  <2> QED BY <1>2, <1>6, <1>7, <2>1, CarriedItems
<1>9. /\ T \in Seq(Items) /\ DOMAIN T = 1..Len(T) /\ D \subseteq Items /\ IsFiniteSet(D)
  BY <1>2, <1>3 DEF Carried
<1>10. a + count \in Nat /\ a + count = accepted' /\ t = taken'
  BY <1>1, <1>3
<1>11. Numbered'
  BY <1>1, <1>8, <1>10 DEF Numbered, AllOf
<1>12. RoomForAll'
  BY <1>1, <1>5, <1>10 DEF RoomForAll, Waiting
<1>13. EachOnce'
  BY <1>1, <1>5, <1>8, <1>9, <1>10 DEF EachOnce, AllOf
<1> QED BY <1>1, <1>5, <1>9, <1>10, <1>11, <1>12, <1>13

-----------------------------------------------------------------------------
(* What each operation carries over.                                          *)
LEMMA SortedOrders ==
  ASSUME NEW B, NEW order \in Orders(B)
  PROVE  /\ order \in Bijection(1..Cardinality(B), B)
         /\ \A i, j \in 1..Cardinality(B) : i < j => ~Precedes(order[j], order[i])
BY DEF Orders

LEMMA NewItem ==
  ASSUME TypeOK, Numbered, NEW session \in Ids, NEW seq \in Nat
  PROVE  /\ Item(session, seq) \in Items /\ Item(session, seq) \notin buffer
         /\ Item(session, seq).session = session /\ Item(session, seq).seq = seq
         /\ Item(session, seq).n = accepted + 1
<1>1. Item(session, seq) \in Items
  BY DEF TypeOK, Items, Item
<1>2. Item(session, seq).n = accepted + 1 /\ accepted \in Nat
  BY DEF Item, TypeOK
<1>3. Item(session, seq) \notin buffer
  BY <1>2 DEF Numbered
<1> QED BY <1>1, <1>2, <1>3 DEF Item

LEMMA OldCarried ==
  ASSUME TypeOK, Numbered, NEW session \in Ids, NEW seq \in Nat, SendOld(session, seq)
  PROVE  Carried(sent, buffer, sent', buffer', {Item(session, seq)}, 1)
<1>1. PICK T, x : T = sent' /\ x = Item(session, seq)
  OBVIOUS
<1>2. T = Append(sent, x) /\ buffer' = buffer
  BY <1>1 DEF SendOld
<1>3. sent \in Seq(Items) /\ buffer \subseteq Items /\ IsFiniteSet(buffer) /\ x \in Items
  BY <1>1, NewItem DEF TypeOK
<1>4. Carried(sent, buffer, T, buffer, {x}, 1)
  BY <1>2, <1>3, CarryOld
<1> QED BY <1>1, <1>2, <1>4

LEMMA HoldCarried ==
  ASSUME TypeOK, Numbered, NEW session \in Ids, NEW seq \in Nat, Hold(session, seq)
  PROVE  Carried(sent, buffer, sent', buffer', {Item(session, seq)}, 1)
<1>1. PICK x : x = Item(session, seq)
  OBVIOUS
<1>2. sent' = sent /\ buffer' = buffer \cup {x}
  BY <1>1 DEF Hold
<1>3. /\ sent \in Seq(Items) /\ buffer \subseteq Items /\ IsFiniteSet(buffer)
      /\ x \in Items /\ x \notin buffer
  BY <1>1, NewItem DEF TypeOK
<1>4. Carried(sent, buffer, sent, buffer \cup {x}, {x}, 1)
  BY <1>3, CarryHold
<1> QED BY <1>1, <1>2, <1>4

LEMMA NextCarried ==
  ASSUME TypeOK, Numbered, NEW session \in Ids, NEW seq \in Nat, SendNext(session, seq)
  PROVE  /\ Carried(sent, buffer, sent', buffer', {Item(session, seq)}, 1)
         /\ \E order \in Orders(buffer), k \in 0..Cardinality(buffer) :
              /\ Run(order, nextSeqNum + 1, k)
              /\ nextSeqNum' = nextSeqNum + 1 + k /\ buffer' = Rest(order, k)
              /\ Len(sent') = Len(sent) + 1 + k
              /\ sent'[Len(sent) + 1] = Item(session, seq)
              /\ \A i \in (Len(sent) + 2)..Len(sent') :
                   i - Len(sent) - 1 \in 1..k /\ sent'[i] = order[i - Len(sent) - 1]
<1>1. PICK order \in Orders(buffer), k \in 0..Cardinality(buffer) :
        /\ Run(order, nextSeqNum + 1, k)
        /\ sent' = Append(sent, Item(session, seq)) \o SubSeq(order, 1, k)
        /\ nextSeqNum' = nextSeqNum + 1 + k
        /\ buffer' = Rest(order, k)
  BY DEF SendNext
<1>2. PICK N, T, x : x = Item(session, seq) /\ N = Append(sent, x) /\ T = sent'
  OBVIOUS
<1>3. T = SentAfter(N, order, k) /\ buffer' = buffer \ FirstOf(order, k)
  BY <1>1, <1>2 DEF SentAfter, Rest
<1>4. sent \in Seq(Items) /\ buffer \subseteq Items /\ IsFiniteSet(buffer) /\ x \in Items
  BY <1>2, NewItem DEF TypeOK
<1>5. order \in Bijection(1..Cardinality(buffer), buffer)
  BY SortedOrders
<1>6. /\ Carried(sent, buffer, T, buffer \ FirstOf(order, k), {x}, 1)
      /\ Len(T) = Len(sent) + 1 + k
      /\ T[Len(sent) + 1] = x
      /\ \A i \in (Len(sent) + 2)..Len(T) :
           i - Len(sent) - 1 \in 1..k /\ T[i] = order[i - Len(sent) - 1]
  <2>1. AddsNext(sent, buffer, x, order, k, T)
    BY <1>2, <1>3, <1>4, <1>5, CarryNext
  <2> QED BY <2>1 DEF AddsNext
<1> QED BY <1>1, <1>2, <1>3, <1>6

LEMMA TimeoutCarried ==
  ASSUME TypeOK, onTimeout
  PROVE  /\ Carried(sent, buffer, sent', buffer', {}, 0)
         /\ \E order \in Orders(buffer), k \in 0..Cardinality(buffer) :
              /\ LastAged(order, k) /\ SkipPast(FirstOf(order, k)) /\ buffer' = Rest(order, k)
              /\ Len(sent') = Len(sent) + k
              /\ \A i \in (Len(sent) + 1)..Len(sent') :
                   i - Len(sent) \in 1..k /\ sent'[i] = order[i - Len(sent)]
<1>1. PICK order \in Orders(buffer), k \in 0..Cardinality(buffer) :
        /\ LastAged(order, k)
        /\ sent' = sent \o SubSeq(order, 1, k)
        /\ SkipPast(FirstOf(order, k))
        /\ buffer' = Rest(order, k)
  BY DEF onTimeout
<1>2. PICK T : T = sent'
  OBVIOUS
<1>3. T = SentAfter(sent, order, k) /\ buffer' = buffer \ FirstOf(order, k)
  BY <1>1, <1>2 DEF SentAfter, Rest
<1>4. sent \in Seq(Items) /\ buffer \subseteq Items /\ IsFiniteSet(buffer)
  BY DEF TypeOK
<1>5. order \in Bijection(1..Cardinality(buffer), buffer)
  BY SortedOrders
<1>6. Carried(sent, buffer, T, buffer \ FirstOf(order, k), {}, 0)
  BY <1>3, <1>4, <1>5, CarryTimeout
<1>7. AddsFirst(sent, buffer, order, k, T)
  BY <1>3, <1>4, <1>5, WhatIsSent
<1>8. /\ Len(T) = Len(sent) + k
      /\ \A i \in (Len(sent) + 1)..Len(T) : i - Len(sent) \in 1..k /\ T[i] = order[i - Len(sent)]
  BY <1>7 DEF AddsFirst
<1> QED BY <1>1, <1>2, <1>3, <1>6, <1>8

LEMMA OpenSendCarried ==
  ASSUME TypeOK, Numbered, NEW session \in Ids, NEW seq \in Nat, OpenAndSend(session, seq)
  PROVE  /\ Carried(sent, buffer, sent', buffer', {Item(session, seq)}, 1)
         /\ \E order \in Orders(buffer) :
              /\ Len(sent') = Len(sent) + Cardinality(buffer) + 1
              /\ \A i \in (Len(sent) + 1)..(Len(sent) + Cardinality(buffer)) :
                   i - Len(sent) \in 1..Cardinality(buffer) /\ sent'[i] = order[i - Len(sent)]
              /\ sent'[Len(sent')] = Item(session, seq)
<1>1. PICK order \in Orders(buffer) : sent' = Append(sent \o order, Item(session, seq))
  BY DEF OpenAndSend
<1>2. PICK M, T, x : x = Item(session, seq) /\ M = sent \o order /\ T = sent'
  OBVIOUS
<1>3. T = Append(M, x) /\ buffer' = {}
  BY <1>1, <1>2 DEF OpenAndSend
<1>4. sent \in Seq(Items) /\ buffer \subseteq Items /\ IsFiniteSet(buffer) /\ x \in Items
  BY <1>2, NewItem DEF TypeOK
<1>5. order \in Bijection(1..Cardinality(buffer), buffer)
  BY SortedOrders
<1>6. Flushes(sent, buffer, order, M)
  BY <1>2, <1>4, <1>5, CarryFlush
<1>7. Carried(sent, buffer, M, {}, {}, 0)
  BY <1>6 DEF Flushes
<1>8. M \in Seq(Items) /\ Len(M) = Len(sent) + Cardinality(buffer) /\ Len(sent) \in Nat
  BY <1>6 DEF Flushes, Carried
<1>9. /\ T \in Seq(Items) /\ Len(M) \in Nat /\ Len(T) = Len(M) + 1
      /\ \A i \in 1..Len(M) : T[i] = M[i]
      /\ T[Len(M) + 1] = x
  BY <1>3, <1>4, <1>8, OneMore
<1>10. Carried(sent, buffer, T, {}, {x}, 1)
  BY <1>7, <1>9, FlushThenOne
<1>11. \A i \in (Len(sent) + 1)..Len(M) :
         i - Len(sent) \in 1..Cardinality(buffer) /\ T[i] = order[i - Len(sent)]
  <2> SUFFICES ASSUME NEW i \in (Len(sent) + 1)..Len(M)
               PROVE  i - Len(sent) \in 1..Cardinality(buffer) /\ T[i] = order[i - Len(sent)]
    OBVIOUS
  <2>1. i \in 1..Len(M)
    BY <1>8, <1>9
  <2>2. i - Len(sent) \in 1..Cardinality(buffer) /\ M[i] = order[i - Len(sent)]
    BY <1>6 DEF Flushes
  <2> QED BY <2>1, <2>2, <1>9
<1>12. Len(T) = Len(sent) + Cardinality(buffer) + 1
  BY <1>8, <1>9
<1> QED BY <1>1, <1>2, <1>3, <1>8, <1>9, <1>10, <1>11, <1>12

LEMMA OpenHoldCarried ==
  ASSUME TypeOK, Numbered, NEW session \in Ids, NEW seq \in Nat, OpenAndHold(session, seq)
  PROVE  /\ Carried(sent, buffer, sent', buffer', {Item(session, seq)}, 1)
         /\ \E order \in Orders(buffer) :
              /\ Len(sent') = Len(sent) + Cardinality(buffer)
              /\ \A i \in (Len(sent) + 1)..Len(sent') :
                   i - Len(sent) \in 1..Cardinality(buffer) /\ sent'[i] = order[i - Len(sent)]
<1>1. PICK order \in Orders(buffer) : sent' = sent \o order
  BY DEF OpenAndHold
<1>2. PICK T, x : x = Item(session, seq) /\ T = sent'
  OBVIOUS
<1>3. T = sent \o order /\ buffer' = {x}
  BY <1>1, <1>2 DEF OpenAndHold
<1>4. sent \in Seq(Items) /\ buffer \subseteq Items /\ IsFiniteSet(buffer) /\ x \in Items
  BY <1>2, NewItem DEF TypeOK
<1>5. order \in Bijection(1..Cardinality(buffer), buffer)
  BY SortedOrders
<1>6. Flushes(sent, buffer, order, T)
  BY <1>3, <1>4, <1>5, CarryFlush
<1>7. Carried(sent, buffer, T, {x}, {x}, 1)
  <2>1. Carried(sent, buffer, T, {}, {}, 0)
    BY <1>6 DEF Flushes
  <2> QED BY <2>1, FlushThenHold
<1>8. /\ Len(T) = Len(sent) + Cardinality(buffer)
      /\ \A i \in (Len(sent) + 1)..Len(T) :
           i - Len(sent) \in 1..Cardinality(buffer) /\ T[i] = order[i - Len(sent)]
  BY <1>6 DEF Flushes
<1> QED BY <1>1, <1>2, <1>3, <1>7, <1>8

-----------------------------------------------------------------------------
(* QueueItem keeps the invariants.                                            *)
Places(session, seq) ==
  \/ SendOld(session, seq) \/ SendNext(session, seq) \/ Hold(session, seq)
  \/ OpenAndSend(session, seq) \/ OpenAndHold(session, seq)

LEMMA QueueCarries ==
  ASSUME TypeOK, Numbered, NEW session \in Ids, NEW seq \in Nat, Places(session, seq)
  PROVE  Carried(sent, buffer, sent', buffer', {Item(session, seq)}, 1)
BY OldCarried, HoldCarried, NextCarried, OpenSendCarried, OpenHoldCarried DEF Places

LEMMA OpenTypes ==
  ASSUME TypeOK, NEW session \in Ids, OpenSession(session)
  PROVE  /\ sessionOrder' \in [Ids -> Nat] /\ sessionOrder'[NoSession] = 0
         /\ currentSessionId' \in Ids
<1>1. session # NoSession /\ currentSessionId' = session
  BY DEF OpenSession, Known
<1>2. PICK ts \in Times : sessionOrder' = [sessionOrder EXCEPT ![session] = ts]
  BY DEF OpenSession
<1>3. ts \in Nat
  BY TimesAssumption
<1>4. sessionOrder \in [Ids -> Nat] /\ sessionOrder[NoSession] = 0 /\ NoSession \in Ids
  BY DEF TypeOK, Ids
<1> QED BY <1>1, <1>2, <1>3, <1>4

LEMMA QueueSessions ==
  ASSUME TypeOK, Numbered, NEW session \in Ids, NEW seq \in Nat, Places(session, seq)
  PROVE  /\ sessionOrder' \in [Ids -> Nat] /\ sessionOrder'[NoSession] = 0
         /\ currentSessionId' \in Ids /\ nextSeqNum' \in Nat \ {0}
<1>1. CASE SendOld(session, seq) \/ Hold(session, seq)
  BY <1>1 DEF SendOld, Hold, TypeOK, sessionVars
<1>2. CASE SendNext(session, seq)
  <2>1. PICK k \in 0..Cardinality(buffer) : nextSeqNum' = nextSeqNum + 1 + k
    BY <1>2 DEF SendNext
  <2>2. k \in Nat
    BY FS_CardinalityType DEF TypeOK
  <2>3. nextSeqNum \in Nat
    BY DEF TypeOK
  <2>4. nextSeqNum + 1 + k \in Nat \ {0}
    BY <2>2, <2>3
  <2> QED BY <1>2, <2>1, <2>4 DEF SendNext, TypeOK
<1>3. CASE OpenAndSend(session, seq)
  <2>1. nextSeqNum' = 1 + seq /\ 1 + seq \in Nat \ {0}
    BY <1>3 DEF OpenAndSend
  <2> QED BY <1>3, <2>1, OpenTypes DEF OpenAndSend
<1>4. CASE OpenAndHold(session, seq)
  <2>1. nextSeqNum' = 1
    BY <1>4 DEF OpenAndHold
  <2> QED BY <1>4, <2>1, OpenTypes DEF OpenAndHold
<1> QED BY <1>1, <1>2, <1>3, <1>4 DEF Places

LEMMA QueueTimer ==
  ASSUME TypeOK, Numbered, DueInTime, NEW session \in Ids, NEW seq \in Nat,
         Places(session, seq), accepted' = accepted + 1
  PROVE  /\ timer' \in {"none", "armed", "fired"} /\ due' \in 0..accepted' /\ strays' \in Nat
         /\ DueInTime'
<1>1. PICK a \in Nat : a = accepted /\ accepted' = a + 1
  BY DEF TypeOK
<1>2. /\ timer \in {"none", "armed", "fired"} /\ due \in 0..a /\ strays \in Nat
      /\ \A b \in buffer : b.n \in 1..a
  BY <1>1 DEF TypeOK, Numbered
<1>3. 0..a \subseteq 0..(a + 1) /\ a + 1 \in 0..(a + 1) /\ \A d \in 0..a : d <= a + 1
  OBVIOUS
<1>x. Item(session, seq).n = a + 1
  BY <1>1 DEF Item
<1>4. AfterStop \in Nat
  BY <1>2 DEF AfterStop
<1>5. CASE UNCHANGED timerVars /\ buffer' \subseteq buffer
  BY <1>1, <1>2, <1>3, <1>5 DEF timerVars, DueInTime
<1>6. ASSUME EnsureTimer, strays' = strays, buffer' \subseteq buffer \cup {Item(session, seq)}
      PROVE  /\ timer' \in {"none", "armed", "fired"} /\ due' \in 0..accepted' /\ strays' \in Nat
             /\ DueInTime'
  <2>1. CASE timer = "none"
    <3>1. timer' = "armed" /\ due' = a + 1
      BY <1>1, <1>6, <2>1 DEF EnsureTimer, Arm
    <3>2. buffer = {}
      BY <2>1 DEF DueInTime
    <3>3. \A b \in buffer' : b.n = a + 1
      BY <1>6, <1>x, <3>2
    <3>4. \A b \in buffer' : due' <= b.n
      BY <3>1, <3>3, <1>1
    <3> QED BY <3>1, <3>4, <1>1, <1>2, <1>3, <1>6 DEF DueInTime
  <2>2. CASE timer # "none"
    <3>1. timer' = timer /\ due' = due
      BY <1>6, <2>2 DEF EnsureTimer
    <3>2. \A b \in buffer' : due <= b.n
      <4> SUFFICES ASSUME NEW b \in buffer' PROVE due <= b.n
        OBVIOUS
      <4>1. CASE b \in buffer
        BY <4>1 DEF DueInTime
      <4>2. CASE b = Item(session, seq)
        BY <4>2, <1>x, <1>2, <1>3
      <4> QED BY <4>1, <4>2, <1>6
    <3> QED BY <3>1, <3>2, <2>2, <1>1, <1>2, <1>3, <1>6 DEF DueInTime
  <2> QED BY <2>1, <2>2
<1>7. CASE SendOld(session, seq)
  BY <1>5, <1>7 DEF SendOld
<1>8. CASE SendNext(session, seq)
  <2>1. UNCHANGED timerVars /\ \E order, k : buffer' = Rest(order, k)
    BY <1>8 DEF SendNext
  <2> QED BY <1>5, <2>1 DEF Rest
<1>9. CASE Hold(session, seq)
  <2>1. EnsureTimer /\ strays' = strays /\ buffer' = buffer \cup {Item(session, seq)}
    BY <1>9 DEF Hold
  <2> QED BY <1>6, <2>1
<1>10. CASE OpenAndSend(session, seq)
  <2>1. CASE buffer = {}
    BY <1>5, <1>10, <2>1 DEF OpenAndSend
  <2>2. CASE buffer # {}
    <3>1. timer' = "none" /\ due' = 0 /\ strays' = AfterStop /\ buffer' = {}
      BY <1>10, <2>2 DEF OpenAndSend, NoTimer
    <3> QED BY <3>1, <1>1, <1>4 DEF DueInTime
  <2> QED BY <2>1, <2>2
<1>11. CASE OpenAndHold(session, seq)
  <2>0. buffer' = {Item(session, seq)}
    BY <1>11 DEF OpenAndHold
  <2>1. CASE buffer = {}
    <3>1. EnsureTimer /\ strays' = strays
      BY <1>11, <2>1 DEF OpenAndHold
    <3> QED BY <1>6, <2>0, <2>1, <3>1
  <2>2. CASE buffer # {}
    <3>1. timer' = "armed" /\ due' = a + 1 /\ strays' = AfterStop
      BY <1>1, <1>11, <2>2 DEF OpenAndHold, Arm
    <3>2. \A b \in buffer' : due' <= b.n
      BY <2>0, <3>1, <1>x
    <3> QED BY <3>1, <3>2, <1>1, <1>3, <1>4 DEF DueInTime
  <2> QED BY <2>1, <2>2
<1> QED BY <1>7, <1>8, <1>9, <1>10, <1>11 DEF Places

LEMMA QueueKeeps ==
  ASSUME Kept, NEW session \in Ids, NEW seq \in Nat, QueueItem(session, seq)
  PROVE  Kept'
<1>1. TypeOK /\ Numbered /\ RoomForAll /\ EachOnce /\ DueInTime
  BY DEF Kept
<1>2. /\ Places(session, seq) /\ accepted' = accepted + 1
      /\ arrived' = arrived \cup {<<session, seq>>}
      /\ taken' = taken /\ aged' = aged /\ ~Full
  BY DEF QueueItem, Places
<1>3. PICK x : x = Item(session, seq)
  OBVIOUS
<1>4. Carried(sent, buffer, sent', buffer', {x}, 1)
  BY <1>1, <1>2, <1>3, QueueCarries
<1>5. x.n = accepted + 1 /\ x \in Items /\ accepted \in Nat
  BY <1>1, <1>3, NewItem DEF TypeOK
<1>6. /\ \A n \in (accepted + 1)..(accepted + 1) : \E b \in {x} : b.n = n
      /\ \A b \in {x} : b.n \in 1..(accepted + 1)
  BY <1>5
<1>7. Cardinality(buffer) + Waiting + 1 <= Cap
  <2>1. Cardinality(buffer) \in Nat /\ Waiting \in Int /\ Cap \in Nat
    BY <1>1, FS_CardinalityType, BoundsAssumption DEF TypeOK, Waiting
  <2> QED BY <1>2, <2>1 DEF Full
<1>8. /\ sent' \in Seq(Items) /\ taken' \in 0..Len(sent') /\ accepted' \in Nat
      /\ buffer' \subseteq Items /\ IsFiniteSet(buffer')
      /\ Numbered' /\ RoomForAll' /\ EachOnce'
  BY <1>1, <1>2, <1>4, <1>5, <1>6, <1>7, Delivery
<1>9. /\ sessionOrder' \in [Ids -> Nat] /\ sessionOrder'[NoSession] = 0
      /\ currentSessionId' \in Ids /\ nextSeqNum' \in Nat \ {0}
  BY <1>1, <1>2, QueueSessions
<1>10. /\ timer' \in {"none", "armed", "fired"} /\ due' \in 0..accepted' /\ strays' \in Nat
       /\ DueInTime'
  BY <1>1, <1>2, QueueTimer
<1>11. arrived' \subseteq Ids \X Nat /\ aged' \in 0..accepted'
  <2>1. arrived \subseteq Ids \X Nat /\ <<session, seq>> \in Ids \X Nat
    BY <1>1 DEF TypeOK
  <2>2. PICK a, g : a \in Nat /\ a = accepted /\ g = aged /\ g \in 0..a
    BY <1>1 DEF TypeOK
  <2>3. g \in 0..(a + 1)
    BY <2>2
  <2> QED BY <1>1, <1>2, <2>1, <2>2, <2>3 DEF TypeOK
<1>12. TypeOK'
  BY <1>8, <1>9, <1>10, <1>11 DEF TypeOK
<1> QED BY <1>8, <1>10, <1>12 DEF Kept

-----------------------------------------------------------------------------
(* The callbacks keep the invariants.                                         *)
LEMMA SkipPastType ==
  ASSUME TypeOK, NEW items, items \subseteq Items, SkipPast(items)
  PROVE  nextSeqNum' \in Nat \ {0}
<1> DEFINE nexts == {nextSeqNum} \cup {b.seq + 1 : b \in {c \in items : c.session = currentSessionId}}
<1>1. PICK next \in nexts : nextSeqNum' = next
  BY DEF SkipPast
<1>2. nextSeqNum \in Nat \ {0}
  BY DEF TypeOK
<1>3. \A b \in items : b.seq + 1 \in Nat \ {0}
  BY DEF Items
<1> QED BY <1>1, <1>2, <1>3

LEMMA RearmTimer ==
  ASSUME Rearm, buffer' \subseteq Items, Numbered', accepted' \in Nat
  PROVE  timer' \in {"none", "armed", "fired"} /\ due' \in 0..accepted' /\ DueInTime'
<1>1. CASE buffer' = {}
  BY <1>1 DEF Rearm, NoTimer, DueInTime
<1>2. CASE buffer' # {}
  <2>1. PICK b \in buffer' :
          (\A c \in buffer' : b.n <= c.n) /\ timer' = "armed" /\ due' = b.n
    BY <1>2 DEF Rearm, Arm
  <2>2. b.n \in 1..accepted'
    BY DEF Numbered
  <2>3. b.n \in 0..accepted'
    BY <2>2
  <2> QED BY <2>1, <2>3 DEF DueInTime
<1> QED BY <1>1, <1>2

LEMMA TimeoutKeeps ==
  ASSUME Kept, onTimeout, strays' \in Nat
  PROVE  Kept'
<1>1. TypeOK /\ Numbered /\ RoomForAll /\ EachOnce /\ DueInTime
  BY DEF Kept
<1>2. UNCHANGED <<arrived, accepted, sessionOrder, currentSessionId, taken, aged>> /\ Rearm
  BY DEF onTimeout
<1>3. Carried(sent, buffer, sent', buffer', {}, 0)
  BY <1>1, TimeoutCarried
<1>4. accepted \in Nat /\ accepted' = accepted + 0
  BY <1>1, <1>2 DEF TypeOK
<1>5. Cardinality(buffer) + Waiting + 0 <= Cap
  <2>1. Cardinality(buffer) \in Nat /\ Waiting \in Int
    BY <1>1, FS_CardinalityType DEF TypeOK, Waiting
  <2> QED BY <1>1, <2>1 DEF RoomForAll
<1>6. /\ \A n \in (accepted + 1)..(accepted + 0) : \E b \in {} : b.n = n
      /\ \A b \in {} : b.n \in 1..(accepted + 0)
  BY <1>4
<1>7. /\ sent' \in Seq(Items) /\ taken' \in 0..Len(sent') /\ accepted' \in Nat
      /\ buffer' \subseteq Items /\ IsFiniteSet(buffer')
      /\ Numbered' /\ RoomForAll' /\ EachOnce'
  <2>1. {} \subseteq Items /\ 0 \in Nat /\ UNCHANGED taken
    BY <1>2
  <2> QED BY <1>1, <1>3, <1>4, <1>5, <1>6, <2>1, Delivery
<1>8. timer' \in {"none", "armed", "fired"} /\ due' \in 0..accepted' /\ DueInTime'
  BY <1>2, <1>7, RearmTimer
<1>9. nextSeqNum' \in Nat \ {0}
  <2>1. PICK order \in Orders(buffer), k \in 0..Cardinality(buffer) : SkipPast(FirstOf(order, k))
    BY DEF onTimeout
  <2>2. FirstOf(order, k) \subseteq Items
    <3>1. order \in Bijection(1..Cardinality(buffer), buffer)
      BY SortedOrders
    <3>2. /\ Cardinality(buffer) \in Nat
          /\ \A i \in 1..Cardinality(buffer) : order[i] \in buffer
      BY <1>1, <3>1, SortedBuffer DEF TypeOK
    <3>3. 1..k \subseteq 1..Cardinality(buffer)
      BY <3>2
    <3> QED BY <1>1, <3>2, <3>3 DEF FirstOf, TypeOK
  <2> QED BY <1>1, <2>1, <2>2, SkipPastType
<1>10. TypeOK'
  BY <1>1, <1>2, <1>7, <1>8, <1>9 DEF TypeOK
<1> QED BY <1>7, <1>8, <1>10 DEF Kept

(* Steps that leave the items where they are. *)
LEMMA ItemsStay ==
  ASSUME Kept, UNCHANGED <<accepted, buffer, sent, taken>>
  PROVE  Numbered' /\ RoomForAll' /\ EachOnce'
BY DEF Kept, Numbered, RoomForAll, EachOnce, Waiting

LEMMA OthersKeep ==
  ASSUME Kept,
         \/ TimerFires \/ Tick \/ Take
         \/ \E session \in Ids, seq \in Nat : Refuse(session, seq)
         \/ UNCHANGED vars
  PROVE  Kept'
<1>1. TypeOK /\ Numbered /\ RoomForAll /\ EachOnce /\ DueInTime
  BY DEF Kept
<1>2. CASE TimerFires
  <2>1. Numbered' /\ RoomForAll' /\ EachOnce'
    BY <1>2, ItemsStay DEF TimerFires, channelVars
  <2>2. TypeOK' /\ DueInTime'
    BY <1>1, <1>2 DEF TimerFires, channelVars, sessionVars, TypeOK, DueInTime
  <2> QED BY <2>1, <2>2 DEF Kept
<1>3. CASE Tick
  <2>1. Numbered' /\ RoomForAll' /\ EachOnce'
    BY <1>3, ItemsStay DEF Tick, channelVars
  <2>2. aged' \in 0..accepted'
    <3>1. PICK a, g : a = accepted /\ g = aged /\ a \in Nat /\ g \in 0..a /\ aged' \in (g + 1)..a
      BY <1>1, <1>3 DEF Tick, TypeOK
    <3>2. (g + 1)..a \subseteq 0..a
      BY <3>1
    <3> QED BY <1>3, <3>1, <3>2 DEF Tick
  <2>3. TypeOK' /\ DueInTime'
    BY <1>1, <1>3, <2>2 DEF Tick, channelVars, sessionVars, timerVars, TypeOK, DueInTime
  <2> QED BY <2>1, <2>3 DEF Kept
<1>4. CASE Take
  <2>1. PICK t, l, b : t = taken /\ l = Len(sent) /\ b = Cardinality(buffer) /\ t \in 0..l /\ l \in Nat
                       /\ b \in Nat
    BY <1>1, FS_CardinalityType DEF TypeOK
  <2>2. taken' = t + 1 /\ l - t > 0
    BY <1>4, <2>1 DEF Take, Waiting
  <2>3. t + 1 \in 0..l
    BY <2>1, <2>2
  <2>4. b + (l - t) <= Cap => b + (l - (t + 1)) <= Cap
    BY <2>1, BoundsAssumption
  <2>5. RoomForAll'
    BY <1>1, <1>4, <2>1, <2>2, <2>4 DEF RoomForAll, Waiting, Take
  <2>6. Numbered' /\ EachOnce'
    BY <1>1, <1>4 DEF Take, Numbered, EachOnce
  <2>7. TypeOK' /\ DueInTime'
    BY <1>1, <1>4, <2>1, <2>2, <2>3 DEF Take, sessionVars, timerVars, TypeOK, DueInTime
  <2> QED BY <2>5, <2>6, <2>7 DEF Kept
<1>5. ASSUME NEW session \in Ids, NEW seq \in Nat, Refuse(session, seq) PROVE Kept'
  <2>1. Numbered' /\ RoomForAll' /\ EachOnce'
    BY <1>5, ItemsStay DEF Refuse, channelVars
  <2>2. arrived' \subseteq Ids \X Nat
    BY <1>1, <1>5 DEF Refuse, TypeOK
  <2>3. TypeOK' /\ DueInTime'
    BY <1>1, <1>5, <2>2 DEF Refuse, channelVars, sessionVars, timerVars, TypeOK, DueInTime
  <2> QED BY <2>1, <2>3 DEF Kept
<1>6. CASE UNCHANGED vars
  <2>1. Numbered' /\ RoomForAll' /\ EachOnce'
    BY <1>6, ItemsStay DEF vars, channelVars
  <2>2. TypeOK' /\ DueInTime'
    BY <1>1, <1>6 DEF vars, channelVars, sessionVars, timerVars, TypeOK, DueInTime
  <2> QED BY <2>1, <2>2 DEF Kept
<1> QED BY <1>2, <1>3, <1>4, <1>5, <1>6

-----------------------------------------------------------------------------
LEMMA InputTypes ==
  ASSUME NEW input \in Inputs
  PROVE  input[1] \in Ids /\ input[2] \in Nat /\ (~AnyCaller => input[1] \in Sessions /\ input[2] # 0)
         /\ (~AnyCaller => input \notin arrived /\ input = <<input[1], input[2]>>)
         /\ (input[1] = NoSession => input[2] = 0)
<1>1. MaxSeq \in Nat /\ NoSession \notin Sessions
  BY BoundsAssumption, SessionsAssumption
<1>2. CASE AnyCaller
  <2>1. input \in Sessions \X (0..MaxSeq) \/ input = <<NoSession, 0>>
    BY <1>2 DEF Inputs
  <2> QED BY <1>1, <1>2, <2>1 DEF Ids
<1>3. CASE ~AnyCaller
  <2>1. input \in Sessions \X (1..MaxSeq) /\ input \notin arrived
    BY <1>3 DEF Inputs
  <2> QED BY <1>1, <1>3, <2>1 DEF Ids
<1> QED BY <1>2, <1>3

LEMMA KeptInit == Init => Kept
<1> SUFFICES ASSUME Init PROVE Kept
  OBVIOUS
<1>1. IsFiniteSet({}) /\ Cardinality({}) = 0 /\ Len(<<>>) = 0 /\ <<>> \in Seq(Items)
  BY FS_EmptySet
<1>2. TypeOK
  <2>1. sent \in Seq(Items) /\ taken \in 0..Len(sent)
    BY <1>1 DEF Init
  <2>2. buffer \subseteq Items /\ IsFiniteSet(buffer)
    BY <1>1 DEF Init
  <2>3. sessionOrder \in [Ids -> Nat] /\ sessionOrder[NoSession] = 0 /\ currentSessionId \in Ids
    BY DEF Init, Ids
  <2>4. accepted \in Nat /\ aged \in 0..accepted /\ due \in 0..accepted /\ nextSeqNum \in Nat \ {0}
    BY DEF Init
  <2> QED BY <2>1, <2>2, <2>3, <2>4 DEF Init, TypeOK
<1>3. Numbered /\ DueInTime /\ EachOnce
  BY <1>1 DEF Init, Numbered, DueInTime, EachOnce
<1>4. RoomForAll
  BY <1>1, BoundsAssumption DEF Init, RoomForAll, Waiting
<1> QED BY <1>2, <1>3, <1>4 DEF Kept

LEMMA KeptNext == Kept /\ [Next]_vars => Kept'
<1> SUFFICES ASSUME Kept, [Next]_vars PROVE Kept'
  OBVIOUS
<1>1. ASSUME NEW input \in Inputs, QueueItem(input[1], input[2]) PROVE Kept'
  BY <1>1, InputTypes, QueueKeeps
<1>2. ASSUME NEW input \in Inputs, Refuse(input[1], input[2]) PROVE Kept'
  BY <1>2, InputTypes, OthersKeep
<1>3. CASE TimerCallback \/ StrayCallback
  <2>1. onTimeout /\ strays' \in Nat
    BY <1>3 DEF TimerCallback, StrayCallback, Kept, TypeOK
  <2> QED BY <2>1, TimeoutKeeps
<1>4. CASE \/ TimerFires \/ Tick \/ Take
           \/ UNCHANGED vars
  BY <1>4, OthersKeep
<1> QED BY <1>1, <1>2, <1>3, <1>4 DEF Next

(* The queue's variables keep their types. *)
THEOREM TypeCorrect == Spec => []TypeOK
<1>1. Kept => TypeOK
  BY DEF Kept
<1> QED BY <1>1, KeptInit, KeptNext, PTL DEF Spec

(* The channel always has room for the whole buffer, so that no send under   *)
(* the lock blocks: for any capacity, callers, clock and order of timers.     *)
THEOREM SendsNeverBlock == Spec => []RoomForAll
<1>1. Kept => RoomForAll
  BY DEF Kept
<1> QED BY <1>1, KeptInit, KeptNext, PTL DEF Spec

(* Every input the queue took is sent once or waits once. *)
THEOREM EachSentOnce == Spec => []EachOnce
<1>1. Kept => EachOnce
  BY DEF Kept
<1> QED BY <1>1, KeptInit, KeptNext, PTL DEF Spec

(* Whatever timers were stopped or forgotten, one is set in time for every    *)
(* item that waits.                                                           *)
THEOREM TimeoutIsDue == Spec => []DueInTime
<1>1. Kept => DueInTime
  BY DEF Kept
<1> QED BY <1>1, KeptInit, KeptNext, PTL DEF Spec

-----------------------------------------------------------------------------
(* Sessions first seen at different times are told apart by their times.      *)
SessionsApart ==
  /\ \A s, t \in Ids : sessionOrder[s] = sessionOrder[t] /\ s # t => sessionOrder[s] = 0
  /\ \/ sessionOrder[currentSessionId] # 0
     \/ currentSessionId = NoSession /\ \A s \in Ids : sessionOrder[s] = 0

LEMMA CurrentIsSame ==
  ASSUME TypeOK, SessionsApart, NEW session \in Ids, sessionOrder[session] # 0,
         sessionOrder[session] = sessionOrder[currentSessionId]
  PROVE  session = currentSessionId
BY DEF TypeOK, SessionsApart

LEMMA OpenIsNew ==
  ASSUME TypeOK, SessionsApart, NEW session \in Ids, OpenSession(session)
  PROVE  session # currentSessionId /\ session # NoSession /\ sessionOrder[session] = 0
BY DEF TypeOK, SessionsApart, OpenSession, Known

LEMMA ApartNext ==
  ASSUME ~ClockTies, TypeOK, SessionsApart, [Next]_vars
  PROVE  SessionsApart'
<1>1. CASE UNCHANGED <<sessionOrder, currentSessionId>>
  BY <1>1 DEF SessionsApart
<1>2. ASSUME NEW session \in Ids, OpenSession(session) PROVE SessionsApart'
  <2>1. session # NoSession /\ currentSessionId' = session
    BY <1>2, OpenIsNew DEF OpenSession
  <2>2. PICK ts \in Times : /\ \A other \in Ids : sessionOrder[other] # ts
                            /\ sessionOrder' = [sessionOrder EXCEPT ![session] = ts]
    BY <1>2 DEF OpenSession
  <2>3. ts # 0
    BY TimesAssumption
  <2>4. sessionOrder \in [Ids -> Nat]
    BY DEF TypeOK
  <2>5. sessionOrder'[session] = ts /\ \A s \in Ids : s # session => sessionOrder'[s] = sessionOrder[s]
    BY <2>2, <2>4
  <2>6. ASSUME NEW s \in Ids, NEW t \in Ids, sessionOrder'[s] = sessionOrder'[t], s # t
        PROVE  sessionOrder'[s] = 0
    BY <2>2, <2>5, <2>6 DEF SessionsApart
  <2> QED BY <2>1, <2>3, <2>5, <2>6 DEF SessionsApart
<1>3. ASSUME NEW input \in Inputs, QueueItem(input[1], input[2]) PROVE SessionsApart'
  <2>1. input[1] \in Ids
    BY InputTypes
  <2>2. \/ OpenSession(input[1]) \/ UNCHANGED <<sessionOrder, currentSessionId>>
    BY <1>3 DEF QueueItem, SendOld, SendNext, Hold, OpenAndSend, OpenAndHold, sessionVars
  <2> QED BY <2>1, <2>2, <1>1, <1>2
<1>4. CASE \/ \E input \in Inputs : Refuse(input[1], input[2])
           \/ TimerFires \/ Tick \/ Take
           \/ UNCHANGED vars
  BY <1>1, <1>4 DEF Refuse, TimerFires, Tick, Take,
                    vars, sessionVars
<1>5. CASE TimerCallback \/ StrayCallback
  BY <1>1, <1>5 DEF TimerCallback, StrayCallback, onTimeout
<1> QED BY <1>3, <1>4, <1>5 DEF Next

-----------------------------------------------------------------------------
(* Inputs are sent in their turn or after a timeout.                          *)
LEMMA NothingNew ==
  ASSUME TypeOK, Len(sent') = Len(sent)
  PROVE  New = {}
<1>1. Len(sent) \in Nat
  BY DEF TypeOK
<1> QED BY <1>1 DEF New

LEMMA OldInTurn ==
  ASSUME TypeOK, Numbered, NEW session \in Ids, NEW seq \in Nat, session = NoSession => seq = 0,
         SendOld(session, seq)
  PROVE  InTurn
<1>1. PICK x \in Items, l \in Nat : x = Item(session, seq) /\ l = Len(sent)
  BY NewItem DEF TypeOK
<1>2. sent' = Append(sent, x) /\ sent \in Seq(Items)
  BY <1>1 DEF SendOld, TypeOK
<1>3. PICK T : T = sent' /\ Len(T) = l + 1 /\ T[l + 1] = x
  BY <1>1, <1>2, OneMore
<1>4. New = {l + 1}
  BY <1>1, <1>3 DEF New
<1>5. x.session = session /\ x.seq = seq
  BY <1>1, NewItem
<1>6. ~(session = currentSessionId /\ seq >= nextSeqNum)
  <2>1. nextSeqNum \in Nat \ {0} /\ sessionOrder[session] \in Nat
    BY DEF TypeOK
  <2>2. CASE Bypasses(session, seq)
    BY <2>1, <2>2 DEF Bypasses
  <2>3. CASE Before(session, seq, currentSessionId, nextSeqNum)
    BY <2>1, <2>3 DEF Before
  <2> QED BY <2>2, <2>3 DEF SendOld
<1> QED BY <1>3, <1>4, <1>5, <1>6 DEF InTurn

LEMMA NextIsCurrent ==
  ASSUME TypeOK, SessionsApart, NEW session \in Ids, NEW seq \in Nat, SendNext(session, seq)
  PROVE  session = currentSessionId /\ seq = nextSeqNum
<1>1. /\ session # NoSession /\ sessionOrder[session] # 0
      /\ sessionOrder[session] = sessionOrder[currentSessionId] /\ seq = nextSeqNum
  BY DEF SendNext, Known, Bypasses, Same
<1> QED BY <1>1, CurrentIsSame

LEMMA NextInTurn ==
  ASSUME TypeOK, Numbered, SessionsApart, NEW session \in Ids, NEW seq \in Nat,
         SendNext(session, seq)
  PROVE  InTurn
<1>1. PICK x \in Items, l \in Nat : x = Item(session, seq) /\ l = Len(sent)
  BY NewItem DEF TypeOK
<1>2. PICK T : T = sent'
  OBVIOUS
<1>3. PICK order \in Orders(buffer), k \in 0..Cardinality(buffer) :
        /\ Run(order, nextSeqNum + 1, k)
        /\ Len(T) = l + 1 + k
        /\ T[l + 1] = x
        /\ \A i \in (l + 2)..Len(T) : i - l - 1 \in 1..k /\ T[i] = order[i - l - 1]
  BY <1>1, <1>2, NextCarried
<1>4. k \in Nat
  BY FS_CardinalityType DEF TypeOK
<1>5. x.session = currentSessionId /\ x.seq = nextSeqNum
  BY <1>1, NextIsCurrent, NewItem
<1>6. PICK next : next = nextSeqNum /\ next \in Nat
  BY DEF TypeOK
<1>7. \A p \in 1..k : order[p].session = currentSessionId /\ order[p].seq = next + p
  <2> SUFFICES ASSUME NEW p \in 1..k
               PROVE  order[p].session = currentSessionId /\ order[p].seq = next + p
    OBVIOUS
  <2>1. FollowsOn(order[p], nextSeqNum + 1 + p - 1)
    BY <1>3 DEF Run
  <2>2. nextSeqNum + 1 + p - 1 = next + p
    BY <1>4, <1>6
  <2> QED BY <2>1, <2>2 DEF FollowsOn
<1>8. \A p \in 1..k : T[l + 1 + p] = order[p]
  <2> SUFFICES ASSUME NEW p \in 1..k PROVE T[l + 1 + p] = order[p]
    OBVIOUS
  <2>1. l + 1 + p \in (l + 2)..Len(T) /\ (l + 1 + p) - l - 1 = p
    BY <1>3, <1>4
  <2> QED BY <2>1, <1>3
<1>9. ASSUME NEW i \in (l + 1)..Len(T), NEW q \in next..T[i].seq
      PROVE  \E j \in (l + 1)..i : T[j].session = currentSessionId /\ T[j].seq = q
  <2>1. T[i].seq = next + (i - l - 1) /\ i - l - 1 \in 0..k
    <3>1. CASE i = l + 1
      <4>1. i - l - 1 = 0 /\ T[i].seq = next
        BY <3>1, <1>3, <1>5, <1>6
      <4> QED BY <4>1, <1>4, <1>6
    <3>2. CASE i # l + 1
      <4>1. i \in (l + 2)..Len(T)
        BY <3>2, <1>3, <1>4
      <4>2. i - l - 1 \in 1..k /\ T[i] = order[i - l - 1]
        BY <4>1, <1>3
      <4> QED BY <4>2, <1>7
    <3> QED BY <3>1, <3>2
  <2>2. PICK p : p = q - next /\ p \in 0..(i - l - 1) /\ p \in 0..k /\ i \in Int /\ q = next + p
    BY <2>1, <1>4, <1>6
  <2>3. CASE p = 0
    <3>1. l + 1 \in (l + 1)..i /\ q = next
      BY <2>2, <2>3, <1>6
    <3> QED BY <3>1, <1>3, <1>5, <1>6
  <2>4. CASE p # 0
    <3>1. p \in 1..k /\ l + 1 + p \in (l + 1)..i
      BY <2>2, <2>4, <1>4
    <3>2. T[l + 1 + p] = order[p]
      BY <3>1, <1>8
    <3> QED BY <3>1, <3>2, <2>2, <1>7
  <2> QED BY <2>3, <2>4
<1> QED BY <1>1, <1>2, <1>6, <1>9 DEF InTurn, New

LEMMA TimeoutInTurn ==
  ASSUME TypeOK, onTimeout
  PROVE  InTurn
<1>1. PICK T, l : T = sent' /\ l = Len(sent) /\ l \in Nat
  BY DEF TypeOK
<1>2. PICK order \in Orders(buffer), k \in 0..Cardinality(buffer) :
        /\ LastAged(order, k)
        /\ \A i \in (l + 1)..Len(T) : i - l \in 1..k /\ T[i] = order[i - l]
  BY <1>1, TimeoutCarried
<1>3. order \in Bijection(1..Cardinality(buffer), buffer) /\ buffer \subseteq Items /\ IsFiniteSet(buffer)
  BY SortedOrders DEF TypeOK
<1>4. /\ Cardinality(buffer) \in Nat
      /\ \A i \in 1..Cardinality(buffer) : order[i] \in buffer
  BY <1>3, SortedBuffer
<1>5. ASSUME NEW i \in (l + 1)..Len(T)
      PROVE  \E b \in buffer : b.n <= aged /\ ~Precedes(b, T[i])
  <2>1. PICK p \in 1..k : p = i - l /\ T[i] = order[p]
    BY <1>2
  <2>2. k \in 1..Cardinality(buffer) /\ p \in 1..Cardinality(buffer) /\ p <= k /\ k # 0
    BY <1>4
  <2>3. order[k] \in buffer /\ order[k].n <= aged
    BY <1>2, <1>4, <2>2 DEF LastAged
  <2>4. ~Precedes(order[k], order[p])
    <3>1. CASE p < k
      BY <2>2, <3>1, SortedOrders
    <3>2. CASE p = k
      <4>1. PICK b \in Items : b = order[k]
        BY <1>3, <2>3
      <4>2. sessionOrder[b.session] \in Nat /\ b.seq \in Nat
        BY DEF TypeOK, Items
      <4>3. ~Precedes(b, b)
        BY <4>2 DEF Precedes, Before
      <4> QED BY <3>2, <4>1, <4>3
    <3> QED BY <2>2, <3>1, <3>2
  <2> QED BY <2>1, <2>3, <2>4
<1> QED BY <1>1, <1>5 DEF InTurn, New

LEMMA TurnNext ==
  ASSUME Kept, SessionsApart, [Next]_vars
  PROVE  InTurn \/ UNCHANGED vars
<1>1. TypeOK /\ Numbered
  BY DEF Kept
<1>2. ASSUME sent' = sent PROVE InTurn
  <2>1. New = {}
    BY <1>1, <1>2, NothingNew
  <2> QED BY <2>1 DEF InTurn
<1>3. ASSUME NEW input \in Inputs, QueueItem(input[1], input[2]) PROVE InTurn
  <2>1. input[1] \in Ids /\ input[2] \in Nat /\ (input[1] = NoSession => input[2] = 0)
    BY InputTypes
  <2>2. PICK session \in Ids, seq \in Nat : session = input[1] /\ seq = input[2]
    BY <2>1
  <2>3. CASE SendOld(session, seq)
    BY <1>1, <2>1, <2>2, <2>3, OldInTurn
  <2>4. CASE SendNext(session, seq)
    BY <1>1, <2>4, NextInTurn
  <2>5. CASE Hold(session, seq)
    BY <1>2, <2>5 DEF Hold
  <2>6. CASE OpenAndSend(session, seq) \/ OpenAndHold(session, seq)
    <3>1. OpenSession(session) /\ currentSessionId' = session
      BY <2>6 DEF OpenAndSend, OpenAndHold, OpenSession
    <3>2. currentSessionId' # currentSessionId
      BY <1>1, <3>1, OpenIsNew
    <3> QED BY <3>2 DEF InTurn
  <2> QED BY <1>3, <2>2, <2>3, <2>4, <2>5, <2>6 DEF QueueItem
<1>4. CASE TimerCallback \/ StrayCallback
  BY <1>1, <1>4, TimeoutInTurn DEF TimerCallback, StrayCallback
<1>5. CASE \/ \E input \in Inputs : Refuse(input[1], input[2])
           \/ TimerFires \/ Tick \/ Take
           \/ UNCHANGED vars
  BY <1>2, <1>5 DEF Refuse, TimerFires, Tick, Take,
                    vars, channelVars
<1> QED BY <1>3, <1>4, <1>5 DEF Next

(* If no two sessions begin in the same millisecond, whoever calls the queue  *)
(* and however its timers run: an input of the current session goes ahead of  *)
(* its turn only when one that does not come before it has timed out.         *)
THEOREM SentInTurn == ~ClockTies /\ Spec => Patient
<1> SUFFICES ASSUME ~ClockTies PROVE Spec => Patient
  OBVIOUS
<1>1. Init => Kept /\ SessionsApart
  BY KeptInit DEF Init, SessionsApart
<1>2. Kept /\ SessionsApart /\ [Next]_vars => (Kept /\ SessionsApart)'
  BY KeptNext, ApartNext DEF Kept
<1>3. Kept /\ SessionsApart /\ [Next]_vars => [InTurn]_vars
  BY TurnNext
<1> QED BY <1>1, <1>2, <1>3, PTL DEF Spec, Patient

-----------------------------------------------------------------------------
(* The items that wait are ahead of the number the queue waits for, and no    *)
(* two of them are the same input.                                            *)
AheadOfTurn(b) ==
  /\ <<b.session, b.seq>> \in arrived
  /\ sessionOrder[b.session] # 0
  /\ \/ sessionOrder[currentSessionId] < sessionOrder[b.session]
     \/ b.session = currentSessionId /\ nextSeqNum <= b.seq

InputsApart ==
  \A b, c \in buffer : b.session = c.session /\ b.seq = c.seq => b = c

WaitingInv == (\A b \in buffer : AheadOfTurn(b)) /\ InputsApart

LEMMA Strictly ==
  ASSUME TypeOK, InputsApart, NEW order \in Orders(buffer),
         NEW p \in 1..Cardinality(buffer), NEW q \in 1..Cardinality(buffer), p < q,
         order[p].session = order[q].session
  PROVE  order[p].seq < order[q].seq
<1>1. order \in Bijection(1..Cardinality(buffer), buffer) /\ buffer \subseteq Items /\ IsFiniteSet(buffer)
  BY SortedOrders DEF TypeOK
<1>2. order[p] \in buffer /\ order[q] \in buffer /\ order[p] # order[q]
  <2>1. /\ \A i \in 1..Cardinality(buffer) : order[i] \in buffer
        /\ \A i, j \in 1..Cardinality(buffer) : order[i] = order[j] => i = j
    BY <1>1, SortedBuffer
  <2>2. p # q
    BY <1>1, FS_CardinalityType
  <2> QED BY <2>1, <2>2
<1>3. order[p].seq \in Nat /\ order[q].seq \in Nat
  BY <1>1, <1>2 DEF Items
<1>4. ~Precedes(order[q], order[p])
  BY SortedOrders
<1>5. ~(order[q].seq < order[p].seq)
  BY <1>4 DEF Precedes, Before
<1>6. order[p].seq # order[q].seq
  BY <1>2 DEF InputsApart
<1> QED BY <1>3, <1>5, <1>6

(* A sorted run of the buffer, in it and against what it leaves. *)
LEMMA RunInOrder ==
  ASSUME TypeOK, InputsApart, NEW order \in Orders(buffer), NEW k \in 0..Cardinality(buffer)
  PROVE  /\ Cardinality(buffer) \in Nat /\ k \in Nat
         /\ \A p \in 1..k : order[p] \in buffer
         /\ \A p, q \in 1..k :
              p < q /\ order[p].session = order[q].session => order[p].seq < order[q].seq
         /\ \A p \in 1..k : \A b \in Rest(order, k) :
              order[p].session = b.session => order[p].seq < b.seq
<1>1. order \in Bijection(1..Cardinality(buffer), buffer) /\ buffer \subseteq Items /\ IsFiniteSet(buffer)
  BY SortedOrders DEF TypeOK
<1>2. /\ Cardinality(buffer) \in Nat
      /\ \A i \in 1..Cardinality(buffer) : order[i] \in buffer
  BY <1>1, SortedBuffer
<1>3. 1..k \subseteq 1..Cardinality(buffer)
  BY <1>2
<1>4. ASSUME NEW p \in 1..k, NEW b \in Rest(order, k), order[p].session = b.session
      PROVE  order[p].seq < b.seq
  <2>1. \A c \in buffer \ FirstOf(order, k) :
          \E i \in (k + 1)..Cardinality(buffer) : order[i] = c
    BY <1>1, WhatIsLeft
  <2>2. PICK q \in (k + 1)..Cardinality(buffer) : order[q] = b
    BY <2>1 DEF Rest
  <2>3. q \in 1..Cardinality(buffer) /\ p < q
    BY <1>2
  <2> QED BY <2>2, <2>3, <1>3, <1>4, Strictly
<1>5. ASSUME NEW p \in 1..k, NEW q \in 1..k, p < q, order[p].session = order[q].session
      PROVE  order[p].seq < order[q].seq
  BY <1>3, <1>5, Strictly
<1> QED BY <1>2, <1>3, <1>4, <1>5

-----------------------------------------------------------------------------
LEMMA OldInOrder ==
  ASSUME TypeOK, Numbered, WaitingInv, NEW session \in Ids, NEW seq \in Nat,
         ~Bypasses(session, seq), SendOld(session, seq)
  PROVE  InOrder
<1>1. PICK x \in Items, l \in Nat : x = Item(session, seq) /\ l = Len(sent)
  BY NewItem DEF TypeOK
<1>2. sent' = Append(sent, x) /\ sent \in Seq(Items) /\ buffer' = buffer
  BY <1>1 DEF SendOld, TypeOK
<1>3. PICK T : T = sent' /\ Len(T) = l + 1 /\ T[l + 1] = x
  BY <1>1, <1>2, OneMore
<1>4. New = {l + 1} /\ (l + 1 + 1)..Len(T) = {}
  BY <1>1, <1>3 DEF New
<1>5. x.session = session /\ x.seq = seq
  BY <1>1, NewItem
<1>6. ASSUME NEW b \in buffer, b.session = session PROVE seq < b.seq
  <2>1. Before(session, seq, currentSessionId, nextSeqNum)
    BY DEF SendOld
  <2>2. AheadOfTurn(b)
    BY DEF WaitingInv
  <2>3. b.seq \in Nat /\ nextSeqNum \in Nat
    BY DEF TypeOK, Items
  <2>4. sessionOrder[session] \in Nat /\ sessionOrder[currentSessionId] \in Nat
    BY DEF TypeOK
  <2>5. seq < nextSeqNum /\ nextSeqNum <= b.seq
    BY <2>1, <2>2, <2>4, <1>6 DEF Before, AheadOfTurn
  <2> QED BY <2>3, <2>5
<1> QED BY <1>2, <1>3, <1>4, <1>5, <1>6 DEF InOrder

LEMMA NextInOrder ==
  ASSUME TypeOK, Numbered, SessionsApart, WaitingInv, NEW session \in Ids, NEW seq \in Nat,
         <<session, seq>> \notin arrived, SendNext(session, seq)
  PROVE  InOrder /\ \A b \in buffer' : AheadOfTurn(b) => sessionOrder[currentSessionId] < sessionOrder[b.session] \/ nextSeqNum' <= b.seq
<1>1. PICK x \in Items, l \in Nat : x = Item(session, seq) /\ l = Len(sent)
  BY NewItem DEF TypeOK
<1>2. PICK T : T = sent'
  OBVIOUS
<1>3. PICK order \in Orders(buffer), k \in 0..Cardinality(buffer) :
        /\ Run(order, nextSeqNum + 1, k)
        /\ nextSeqNum' = nextSeqNum + 1 + k
        /\ buffer' = Rest(order, k)
        /\ Len(T) = l + 1 + k
        /\ T[l + 1] = x
        /\ \A i \in (l + 2)..Len(T) : i - l - 1 \in 1..k /\ T[i] = order[i - l - 1]
  <2>1. PICK order \in Orders(buffer), k \in 0..Cardinality(buffer) :
          /\ Run(order, nextSeqNum + 1, k)
          /\ nextSeqNum' = nextSeqNum + 1 + k /\ buffer' = Rest(order, k)
          /\ Len(sent') = Len(sent) + 1 + k
          /\ sent'[Len(sent) + 1] = Item(session, seq)
          /\ \A i \in (Len(sent) + 2)..Len(sent') :
               i - Len(sent) - 1 \in 1..k /\ sent'[i] = order[i - Len(sent) - 1]
    BY NextCarried
  <2> QED BY <2>1, <1>1, <1>2
<1>4. /\ k \in Nat
      /\ \A p \in 1..k : order[p] \in buffer
      /\ \A p, q \in 1..k :
           p < q /\ order[p].session = order[q].session => order[p].seq < order[q].seq
      /\ \A p \in 1..k : \A b \in Rest(order, k) :
           order[p].session = b.session => order[p].seq < b.seq
  BY RunInOrder DEF WaitingInv
<1>5. x.session = currentSessionId /\ x.seq = nextSeqNum /\ session = currentSessionId /\ seq = nextSeqNum
  BY <1>1, NextIsCurrent, NewItem
<1>6. ASSUME NEW b \in buffer, b.session = currentSessionId PROVE nextSeqNum < b.seq
  <2>1. AheadOfTurn(b)
    BY DEF WaitingInv
  <2>2. sessionOrder[currentSessionId] \in Nat /\ b.seq \in Nat /\ nextSeqNum \in Nat
    BY DEF TypeOK, Items
  <2>3. nextSeqNum <= b.seq
    BY <2>1, <2>2, <1>6 DEF AheadOfTurn
  <2>4. b.seq # nextSeqNum
    BY <2>1, <1>5, <1>6 DEF AheadOfTurn
  <2> QED BY <2>2, <2>3, <2>4
<1>7. ASSUME NEW i \in (l + 1)..Len(T), NEW b \in buffer', b.session = T[i].session
      PROVE  T[i].seq < b.seq
  <2>1. b \in Rest(order, k) /\ b \in buffer
    BY <1>3 DEF Rest
  <2>2. CASE i = l + 1
    BY <2>1, <2>2, <1>3, <1>5, <1>6, <1>7
  <2>3. CASE i # l + 1
    <3>1. i \in (l + 2)..Len(T)
      BY <2>3, <1>1, <1>3, <1>4
    <3>2. PICK p \in 1..k : T[i] = order[p]
      BY <3>1, <1>3
    <3> QED BY <2>1, <3>2, <1>4, <1>7
  <2> QED BY <2>2, <2>3
<1>8. ASSUME NEW i \in (l + 1)..Len(T), NEW j \in (i + 1)..Len(T), T[j].session = T[i].session
      PROVE  T[i].seq < T[j].seq
  <2>1. /\ i \in Int /\ j \in Int /\ j \in (l + 2)..Len(T) /\ i < j
    BY <1>1, <1>3, <1>4
  <2>2. PICK q \in 1..k : q = j - l - 1 /\ T[j] = order[q]
    BY <2>1, <1>3
  <2>3. CASE i = l + 1
    BY <2>2, <2>3, <1>3, <1>4, <1>5, <1>6, <1>8
  <2>4. CASE i # l + 1
    <3>1. i \in (l + 2)..Len(T)
      BY <2>1, <2>4, <1>1, <1>3, <1>4
    <3>2. PICK p \in 1..k : p = i - l - 1 /\ T[i] = order[p]
      BY <3>1, <1>3
    <3>3. p < q
      BY <2>1, <2>2, <3>2, <1>1
    <3> QED BY <2>2, <3>2, <3>3, <1>4, <1>8
  <2> QED BY <2>3, <2>4
<1>9. InOrder
  BY <1>1, <1>2, <1>7, <1>8 DEF InOrder, New
<1>10. ASSUME NEW b \in buffer', b.session = currentSessionId PROVE nextSeqNum' <= b.seq
  <2>1. b \in Rest(order, k) /\ b \in buffer
    BY <1>3 DEF Rest
  <2>2. PICK next, s : next = nextSeqNum /\ next \in Nat /\ s = b.seq /\ s \in Nat
    BY <2>1 DEF TypeOK, Items
  <2>3. next < s
    BY <2>1, <2>2, <1>6, <1>10
  <2>4. CASE k = 0
    BY <2>2, <2>3, <2>4, <1>3
  <2>5. CASE k # 0
    <3>1. k \in 1..k
      BY <2>5, <1>4
    <3>2. FollowsOn(order[k], nextSeqNum + 1 + k - 1)
      BY <3>1, <1>3 DEF Run
    <3>3. order[k].session = currentSessionId /\ order[k].seq = next + 1 + k - 1
      BY <3>2, <2>2 DEF FollowsOn
    <3>4. next + 1 + k - 1 < s
      BY <3>1, <3>3, <2>1, <2>2, <1>4, <1>10
    <3>5. next + 1 + k <= s
      BY <3>4, <2>2, <1>4
    <3> QED BY <3>5, <2>2, <1>3
  <2> QED BY <2>4, <2>5
<1>11. ASSUME NEW b \in buffer', AheadOfTurn(b)
       PROVE  sessionOrder[currentSessionId] < sessionOrder[b.session] \/ nextSeqNum' <= b.seq
  BY <1>10, <1>11 DEF AheadOfTurn
<1> QED BY <1>9, <1>11

LEMMA TimeoutInOrder ==
  ASSUME TypeOK, WaitingInv, onTimeout
  PROVE  InOrder /\ \A b \in buffer' : b \in buffer /\ (b.session = currentSessionId => nextSeqNum' <= b.seq)
<1>1. PICK T, l : T = sent' /\ l = Len(sent) /\ l \in Nat
  BY DEF TypeOK
<1>2. PICK order \in Orders(buffer), k \in 0..Cardinality(buffer) :
        /\ SkipPast(FirstOf(order, k)) /\ buffer' = Rest(order, k)
        /\ Len(T) = l + k
        /\ \A i \in (l + 1)..Len(T) : i - l \in 1..k /\ T[i] = order[i - l]
  <2>1. PICK order \in Orders(buffer), k \in 0..Cardinality(buffer) :
          /\ LastAged(order, k) /\ SkipPast(FirstOf(order, k)) /\ buffer' = Rest(order, k)
          /\ Len(sent') = Len(sent) + k
          /\ \A i \in (Len(sent) + 1)..Len(sent') :
               i - Len(sent) \in 1..k /\ sent'[i] = order[i - Len(sent)]
    BY TimeoutCarried
  <2> QED BY <2>1, <1>1
<1>3. /\ k \in Nat
      /\ \A p \in 1..k : order[p] \in buffer
      /\ \A p, q \in 1..k :
           p < q /\ order[p].session = order[q].session => order[p].seq < order[q].seq
      /\ \A p \in 1..k : \A b \in Rest(order, k) :
           order[p].session = b.session => order[p].seq < b.seq
  BY RunInOrder DEF WaitingInv
<1>4. ASSUME NEW i \in (l + 1)..Len(T), NEW b \in buffer', b.session = T[i].session
      PROVE  T[i].seq < b.seq
  <2>1. PICK p \in 1..k : T[i] = order[p]
    BY <1>2
  <2> QED BY <2>1, <1>2, <1>3, <1>4
<1>5. ASSUME NEW i \in (l + 1)..Len(T), NEW j \in (i + 1)..Len(T), T[j].session = T[i].session
      PROVE  T[i].seq < T[j].seq
  <2>1. i \in Int /\ j \in Int /\ j \in (l + 1)..Len(T) /\ i < j
    BY <1>1, <1>2, <1>3
  <2>2. PICK p \in 1..k : p = i - l /\ T[i] = order[p]
    BY <1>2
  <2>3. PICK q \in 1..k : q = j - l /\ T[j] = order[q]
    BY <2>1, <1>2
  <2>4. p < q
    BY <2>1, <2>2, <2>3, <1>1
  <2> QED BY <2>2, <2>3, <2>4, <1>3, <1>5
<1>6. InOrder
  BY <1>1, <1>4, <1>5 DEF InOrder, New
<1>7. ASSUME NEW b \in buffer', b.session = currentSessionId PROVE nextSeqNum' <= b.seq
  <2>1. b \in Rest(order, k) /\ b \in buffer
    BY <1>2 DEF Rest
  <2>2. b.seq \in Nat /\ nextSeqNum \in Nat /\ sessionOrder[currentSessionId] \in Nat
    BY <2>1 DEF TypeOK, Items
  <2>a. AheadOfTurn(b)
    BY <2>1 DEF WaitingInv
  <2>3. nextSeqNum <= b.seq
    BY <2>a, <2>2, <1>7 DEF AheadOfTurn
  <2> DEFINE first == {c \in FirstOf(order, k) : c.session = currentSessionId}
             nexts == {nextSeqNum} \cup {c.seq + 1 : c \in first}
  <2>4. PICK next \in nexts : nextSeqNum' = next
    BY <1>2 DEF SkipPast
  <2>5. CASE next = nextSeqNum
    BY <2>3, <2>4, <2>5
  <2>6. CASE next # nextSeqNum
    <3>1. PICK c \in first : next = c.seq + 1
      BY <2>4, <2>6
    <3>2. c \in FirstOf(order, k) /\ c.session = currentSessionId
      OBVIOUS
    <3>3. PICK p \in 1..k : c = order[p]
      BY <3>2 DEF FirstOf
    <3>4. c.seq < b.seq
      BY <3>2, <3>3, <2>1, <1>3, <1>7
    <3>5. c.seq \in Nat
      BY <3>3, <1>3 DEF TypeOK, Items
    <3>6. c.seq + 1 <= b.seq
      BY <3>4, <3>5, <2>2
    <3> QED BY <3>1, <3>6, <2>4
  <2> QED BY <2>5, <2>6
<1>8. ASSUME NEW b \in buffer' PROVE b \in buffer
  BY <1>2 DEF Rest
<1> QED BY <1>6, <1>7, <1>8

LEMMA OpenInOrder ==
  ASSUME TypeOK, Numbered, WaitingInv, NEW session \in Ids, NEW seq \in Nat,
         OpenAndSend(session, seq) \/ OpenAndHold(session, seq)
  PROVE  InOrder
<1>1. PICK x \in Items, l \in Nat : x = Item(session, seq) /\ l = Len(sent)
  BY NewItem DEF TypeOK
<1>2. PICK T : T = sent'
  OBVIOUS
<1>3. sessionOrder[session] = 0 /\ x.session = session
  BY <1>1, NewItem DEF OpenAndSend, OpenAndHold, OpenSession, Known
<1>4. PICK order \in Orders(buffer), k \in 0..Cardinality(buffer) :
        /\ \A i \in (l + 1)..Len(T) : \/ i - l \in 1..k /\ T[i] = order[i - l]
                                      \/ i = Len(T) /\ T[i] = x /\ buffer' = {}
        /\ \A b \in buffer' : b = x
        /\ Len(T) \in Nat
  <2>0. Cardinality(buffer) \in Nat /\ l \in Nat
    BY FS_CardinalityType DEF TypeOK
  <2>1. CASE OpenAndSend(session, seq)
    <3>1. PICK order \in Orders(buffer) :
            /\ Len(sent') = Len(sent) + Cardinality(buffer) + 1
            /\ \A i \in (Len(sent) + 1)..(Len(sent) + Cardinality(buffer)) :
                 i - Len(sent) \in 1..Cardinality(buffer) /\ sent'[i] = order[i - Len(sent)]
            /\ sent'[Len(sent')] = Item(session, seq)
      BY <2>1, OpenSendCarried
    <3>2. PICK k : k = Cardinality(buffer) /\ k \in Nat /\ k \in 0..Cardinality(buffer)
      BY <2>0
    <3>3. /\ Len(T) = l + k + 1 /\ T[Len(T)] = x
          /\ \A i \in (l + 1)..(l + k) : i - l \in 1..k /\ T[i] = order[i - l]
      BY <3>1, <3>2, <1>1, <1>2
    <3>4. buffer' = {} /\ Len(T) \in Nat
      BY <2>0, <2>1, <3>2, <3>3 DEF OpenAndSend
    <3>5. \A i \in (l + 1)..Len(T) : i \in (l + 1)..(l + k) \/ i = Len(T)
      BY <2>0, <3>2, <3>3
    <3>6. \A i \in (l + 1)..Len(T) : \/ i - l \in 1..k /\ T[i] = order[i - l]
                                     \/ i = Len(T) /\ T[i] = x /\ buffer' = {}
      <4> SUFFICES ASSUME NEW i \in (l + 1)..Len(T)
                   PROVE  \/ i - l \in 1..k /\ T[i] = order[i - l]
                          \/ i = Len(T) /\ T[i] = x /\ buffer' = {}
        OBVIOUS
      <4>1. CASE i \in (l + 1)..(l + k)
        BY <4>1, <3>3
      <4>2. CASE i = Len(T)
        BY <4>2, <3>3, <3>4
      <4> QED BY <4>1, <4>2, <3>5
    <3>7. \A b \in buffer' : b = x
      BY <3>4
    <3> QED BY <3>2, <3>4, <3>6, <3>7, Zenon
  <2>2. CASE OpenAndHold(session, seq)
    <3>1. PICK order \in Orders(buffer) :
            /\ Len(sent') = Len(sent) + Cardinality(buffer)
            /\ \A i \in (Len(sent) + 1)..Len(sent') :
                 i - Len(sent) \in 1..Cardinality(buffer) /\ sent'[i] = order[i - Len(sent)]
      BY <2>2, OpenHoldCarried
    <3>2. PICK k : k = Cardinality(buffer) /\ k \in Nat /\ k \in 0..Cardinality(buffer)
      BY <2>0
    <3>3. /\ Len(T) = l + k
          /\ \A i \in (l + 1)..Len(T) : i - l \in 1..k /\ T[i] = order[i - l]
      BY <3>1, <3>2, <1>1, <1>2
    <3>4. buffer' = {x} /\ Len(T) \in Nat
      BY <2>0, <2>2, <3>2, <3>3, <1>1 DEF OpenAndHold
    <3>5. \A b \in buffer' : b = x
      BY <3>4
    <3>6. \A i \in (l + 1)..Len(T) : \/ i - l \in 1..k /\ T[i] = order[i - l]
                                     \/ i = Len(T) /\ T[i] = x /\ buffer' = {}
      BY <3>3, Zenon
    <3> QED BY <3>2, <3>4, <3>5, <3>6, Zenon
  <2> QED BY <2>1, <2>2
<1>5. /\ k \in Nat
      /\ \A p \in 1..k : order[p] \in buffer
      /\ \A p, q \in 1..k :
           p < q /\ order[p].session = order[q].session => order[p].seq < order[q].seq
  BY RunInOrder DEF WaitingInv
<1>6. \A p \in 1..k : order[p].session # x.session
  BY <1>3, <1>5 DEF WaitingInv, AheadOfTurn
<1>7. ASSUME NEW i \in (l + 1)..Len(T), NEW j \in (i + 1)..Len(T), T[j].session = T[i].session
      PROVE  T[i].seq < T[j].seq
  <2>1. i \in Int /\ j \in Int /\ j \in (l + 1)..Len(T) /\ i < j /\ i # Len(T)
    BY <1>1, <1>4
  <2>2. PICK p \in 1..k : p = i - l /\ T[i] = order[p]
    BY <2>1, <1>4
  <2>3. PICK q \in 1..k : q = j - l /\ T[j] = order[q]
    BY <2>1, <2>2, <1>4, <1>6, <1>7
  <2>4. p < q
    BY <2>1, <2>2, <2>3, <1>1
  <2> QED BY <2>2, <2>3, <2>4, <1>5, <1>7
<1>8. ASSUME NEW i \in (l + 1)..Len(T), NEW b \in buffer', b.session = T[i].session
      PROVE  T[i].seq < b.seq
  <2>1. b = x
    BY <1>4
  <2>2. i - l \in 1..k /\ T[i] = order[i - l]
    BY <1>4
  <2> QED BY <2>1, <2>2, <1>6, <1>8
<1> QED BY <1>1, <1>2, <1>7, <1>8 DEF InOrder, New

-----------------------------------------------------------------------------
(* The items that go on waiting stay ahead of the turn. *)
LEMMA StayAhead ==
  ASSUME WaitingInv, arrived \subseteq arrived', buffer' \subseteq buffer,
         UNCHANGED <<sessionOrder, currentSessionId>>,
         \A b \in buffer' : b.session = currentSessionId => nextSeqNum' <= b.seq
  PROVE  WaitingInv'
<1>1. ASSUME NEW b \in buffer' PROVE AheadOfTurn(b)'
  <2>1. AheadOfTurn(b)
    BY DEF WaitingInv
  <2> QED BY <2>1 DEF AheadOfTurn
<1>2. InputsApart'
  BY DEF WaitingInv, InputsApart
<1> QED BY <1>1, <1>2 DEF WaitingInv

LEMMA HoldAhead ==
  ASSUME TypeOK, Numbered, SessionsApart, WaitingInv, NEW session \in Ids, NEW seq \in Nat,
         <<session, seq>> \notin arrived, arrived' = arrived \cup {<<session, seq>>},
         Hold(session, seq)
  PROVE  WaitingInv'
<1>1. PICK x \in Items : x = Item(session, seq) /\ x.session = session /\ x.seq = seq
  BY NewItem
<1>2. /\ buffer' = buffer \cup {x} /\ UNCHANGED <<sessionOrder, currentSessionId, nextSeqNum>>
      /\ sessionOrder[session] # 0
      /\ Before(currentSessionId, nextSeqNum, session, seq)
  BY <1>1 DEF Hold, sessionVars, Known, Bypasses
<1>3. sessionOrder[session] \in Nat /\ sessionOrder[currentSessionId] \in Nat /\ nextSeqNum \in Nat
  BY DEF TypeOK
<1>4. AheadOfTurn(x)'
  <2>1. CASE sessionOrder[currentSessionId] < sessionOrder[session]
    BY <2>1, <1>1, <1>2 DEF AheadOfTurn
  <2>2. CASE sessionOrder[currentSessionId] = sessionOrder[session] /\ nextSeqNum < seq
    <3>1. session = currentSessionId /\ nextSeqNum <= seq
      BY <2>2, <1>2, <1>3, CurrentIsSame
    <3> QED BY <3>1, <1>1, <1>2 DEF AheadOfTurn
  <2> QED BY <2>1, <2>2, <1>2 DEF Before
<1>5. ASSUME NEW b \in buffer PROVE AheadOfTurn(b)' /\ ~(b.session = session /\ b.seq = seq)
  <2>1. AheadOfTurn(b)
    BY DEF WaitingInv
  <2> QED BY <2>1, <1>2 DEF AheadOfTurn
<1>6. InputsApart'
  BY <1>1, <1>2, <1>5 DEF WaitingInv, InputsApart
<1> QED BY <1>2, <1>4, <1>5, <1>6 DEF WaitingInv

LEMMA OpenAhead ==
  ASSUME TypeOK, Numbered, NEW session \in Ids, NEW seq \in Nat,
         arrived' = arrived \cup {<<session, seq>>}, OpenAndHold(session, seq)
  PROVE  WaitingInv'
<1>1. PICK x \in Items : x = Item(session, seq) /\ x.session = session /\ x.seq = seq
  BY NewItem
<1>2. buffer' = {x} /\ nextSeqNum' = 1 /\ seq > 1 /\ OpenSession(session)
  BY <1>1 DEF OpenAndHold
<1>3. currentSessionId' = session /\ sessionOrder'[session] # 0
  <2>1. PICK ts \in Times : sessionOrder' = [sessionOrder EXCEPT ![session] = ts]
    BY <1>2 DEF OpenSession
  <2>2. sessionOrder \in [Ids -> Nat]
    BY DEF TypeOK
  <2> QED BY <1>2, <2>1, <2>2, TimesAssumption DEF OpenSession
<1>4. AheadOfTurn(x)'
  BY <1>1, <1>2, <1>3 DEF AheadOfTurn
<1> QED BY <1>2, <1>4 DEF WaitingInv, InputsApart

LEMMA OrderNext ==
  ASSUME ~AnyCaller, Kept, SessionsApart, WaitingInv, [Next]_vars
  PROVE  WaitingInv' /\ (InOrder \/ UNCHANGED vars)
<1>1. TypeOK /\ Numbered
  BY DEF Kept
<1>2. ASSUME sent' = sent PROVE InOrder
  <2>1. New = {}
    BY <1>1, <1>2, NothingNew
  <2> QED BY <2>1 DEF InOrder
<1>3. ASSUME UNCHANGED <<buffer, sessionOrder, currentSessionId, nextSeqNum>>, arrived \subseteq arrived'
      PROVE  WaitingInv'
  <2>1. ASSUME NEW b \in buffer PROVE AheadOfTurn(b)'
    <3>1. AheadOfTurn(b)
      BY DEF WaitingInv
    <3> QED BY <3>1, <1>3 DEF AheadOfTurn
  <2>2. InputsApart'
    BY <1>3 DEF WaitingInv, InputsApart
  <2> QED BY <2>1, <2>2, <1>3 DEF WaitingInv
<1>4. ASSUME NEW input \in Inputs, QueueItem(input[1], input[2]) PROVE InOrder /\ WaitingInv'
  <2>1. /\ input[1] \in Ids /\ input[2] \in Nat /\ input[1] \in Sessions /\ input[2] # 0
        /\ input \notin arrived /\ input = <<input[1], input[2]>>
    BY InputTypes
  <2>2. PICK session \in Ids, seq \in Nat : session = input[1] /\ seq = input[2]
    BY <2>1
  <2>3. /\ <<session, seq>> \notin arrived /\ ~Bypasses(session, seq)
        /\ arrived' = arrived \cup {<<session, seq>>}
    BY <1>4, <2>1, <2>2, SessionsAssumption DEF Bypasses, QueueItem
  <2>a. arrived \subseteq arrived'
    BY <2>3
  <2>4. CASE SendOld(session, seq)
    <3>1. InOrder
      BY <1>1, <2>3, <2>4, OldInOrder
    <3>2. WaitingInv'
      BY <1>3, <2>4, <2>a DEF SendOld, sessionVars
    <3> QED BY <3>1, <3>2
  <2>5. CASE SendNext(session, seq)
    <3>1. /\ InOrder
          /\ \A b \in buffer' : AheadOfTurn(b) =>
               sessionOrder[currentSessionId] < sessionOrder[b.session] \/ nextSeqNum' <= b.seq
      BY <1>1, <2>3, <2>5, NextInOrder
    <3>2. buffer' \subseteq buffer /\ UNCHANGED <<sessionOrder, currentSessionId>>
      BY <2>5 DEF SendNext, Rest
    <3>3. ASSUME NEW b \in buffer', b.session = currentSessionId PROVE nextSeqNum' <= b.seq
      <4>1. AheadOfTurn(b)
        BY <3>2 DEF WaitingInv
      <4>2. ~(sessionOrder[currentSessionId] < sessionOrder[b.session])
        BY <1>1, <3>3 DEF TypeOK
      <4> QED BY <3>1, <4>1, <4>2
    <3>4. WaitingInv'
      BY <3>2, <3>3, <2>a, StayAhead
    <3> QED BY <3>1, <3>4
  <2>6. CASE Hold(session, seq)
    <3>1. InOrder
      BY <1>2, <2>6 DEF Hold
    <3>2. WaitingInv'
      BY <1>1, <2>3, <2>6, HoldAhead
    <3> QED BY <3>1, <3>2
  <2>7. CASE OpenAndSend(session, seq)
    <3>1. InOrder
      BY <1>1, <2>7, OpenInOrder
    <3>2. WaitingInv'
      BY <2>7 DEF OpenAndSend, WaitingInv, InputsApart
    <3> QED BY <3>1, <3>2
  <2>8. CASE OpenAndHold(session, seq)
    <3>1. InOrder
      BY <1>1, <2>8, OpenInOrder
    <3>2. WaitingInv'
      BY <1>1, <2>3, <2>8, OpenAhead
    <3> QED BY <3>1, <3>2
  <2> QED BY <1>4, <2>2, <2>4, <2>5, <2>6, <2>7, <2>8 DEF QueueItem
<1>5. CASE TimerCallback \/ StrayCallback
  <2>1. onTimeout
    BY <1>5 DEF TimerCallback, StrayCallback
  <2>2. /\ InOrder
        /\ \A b \in buffer' : b \in buffer /\ (b.session = currentSessionId => nextSeqNum' <= b.seq)
    BY <1>1, <2>1, TimeoutInOrder
  <2>3. arrived' = arrived /\ UNCHANGED <<sessionOrder, currentSessionId>>
    BY <2>1 DEF onTimeout
  <2>4. WaitingInv'
    BY <2>2, <2>3, StayAhead
  <2> QED BY <2>2, <2>4
<1>6. ASSUME NEW input \in Inputs, Refuse(input[1], input[2]) PROVE InOrder /\ WaitingInv'
  <2>1. /\ sent' = sent /\ UNCHANGED <<buffer, sessionOrder, currentSessionId, nextSeqNum>>
        /\ arrived \subseteq arrived'
    BY <1>6 DEF Refuse, channelVars, sessionVars
  <2> QED BY <2>1, <1>2, <1>3
<1>7. CASE TimerFires \/ Tick \/ Take \/ UNCHANGED vars
  <2>1. /\ sent' = sent /\ UNCHANGED <<buffer, sessionOrder, currentSessionId, nextSeqNum>>
        /\ arrived' = arrived
    BY <1>7 DEF TimerFires, Tick, Take, vars, channelVars, sessionVars
  <2> QED BY <2>1, <1>2, <1>3
<1> QED BY <1>4, <1>5, <1>6, <1>7 DEF Next

(* With the job manager's use of the queue and sessions that begin in         *)
(* different milliseconds, no input is sent ahead of an earlier one of its    *)
(* session that the queue holds, for any number of sessions and of inputs.    *)
THEOREM SentInOrder == ~AnyCaller /\ ~ClockTies /\ Spec => NothingOvertaken
<1> SUFFICES ASSUME ~AnyCaller, ~ClockTies PROVE Spec => NothingOvertaken
  OBVIOUS
<1> DEFINE Inv == Kept /\ SessionsApart /\ WaitingInv
<1>1. Init => Inv
  BY KeptInit DEF Init, SessionsApart, WaitingInv, InputsApart
<1>2. Inv /\ [Next]_vars => Inv'
  BY KeptNext, ApartNext, OrderNext DEF Kept
<1>3. Inv /\ [Next]_vars => [InOrder]_vars
  BY OrderNext
<1> HIDE DEF Inv
<1> QED BY <1>1, <1>2, <1>3, PTL DEF Spec, NothingOvertaken
=============================================================================
