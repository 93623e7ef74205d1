---------------------------- MODULE CirBuf_proof ----------------------------
(* CirBuf, for every capacity, chunk size and stream length: the ring always *)
(* holds the tail of the stream, and a sleeping writer never misses space.   *)
EXTENDS CirBuf, TLAPS

-----------------------------------------------------------------------------
(* Arithmetic modulo the capacity.                                           *)

LEMMA ModInRange ==
  ASSUME NEW N \in Nat \ {0}, NEW x \in Int
  PROVE  x % N \in 0..(N - 1)
  OBVIOUS

LEMMA ModBelow ==
  ASSUME NEW N \in Nat \ {0}, NEW x \in 0..(N - 1)
  PROVE  x % N = x
  OBVIOUS

LEMMA ModNegative ==
  ASSUME NEW N \in Nat \ {0}, NEW x \in (-N)..(-1)
  PROVE  x % N = x + N
  OBVIOUS

LEMMA ModQuotient ==
  ASSUME NEW N \in Nat \ {0}, NEW x \in Int
  PROVE  \E q \in Int : x = N * q + (x % N)
  <1>1. x = N * (x \div N) + (x % N)
    OBVIOUS
  <1>2. x \div N \in Int
    OBVIOUS
  <1> QED BY <1>1, <1>2

LEMMA ModUnique ==
  ASSUME NEW N \in Nat \ {0}, NEW q \in Int, NEW r \in 0..(N - 1)
  PROVE  (N * q + r) % N = r
  OBVIOUS

(* Whole turns of the ring do not matter. *)
LEMMA ModTurns ==
  ASSUME NEW N \in Nat \ {0}, NEW x \in Int, NEW q \in Int
  PROVE  (N * q + x) % N = x % N
  <1>1. PICK p \in Int : x = N * p + (x % N)
    BY ModQuotient
  <1> DEFINE r == x % N
  <1>2. r \in 0..(N - 1)
    BY ModInRange
  <1> HIDE DEF r
  <1>3. N * q + (N * p + r) = N * (q + p) + r
    BY <1>2
  <1>4. q + p \in Int
    OBVIOUS
  <1>5. (N * (q + p) + r) % N = r
    BY <1>2, <1>4, ModUnique
  <1>6. N * q + x = N * q + (N * p + r)
    BY <1>1 DEF r
  <1> QED BY <1>3, <1>5, <1>6 DEF r

(* Advancing from a reduced position. *)
LEMMA ModAdvance ==
  ASSUME NEW N \in Nat \ {0}, NEW x \in Int, NEW y \in Int
  PROVE  ((x % N) + y) % N = (x + y) % N
  <1>1. PICK p \in Int : x = N * p + (x % N)
    BY ModQuotient
  <1> DEFINE r == x % N
             z == r + y
  <1>2. r \in Int
    BY ModInRange
  <1>3. x = N * p + r
    BY <1>1
  <1> HIDE DEF r
  <1>4. z \in Int
    BY <1>2
  <1>5. x + y = N * p + z
    BY <1>2, <1>3
  <1> HIDE DEF z
  <1>6. (N * p + z) % N = z % N
    BY <1>4, ModTurns
  <1>7. (x + y) % N = z % N
    BY <1>5, <1>6
  <1> QED BY <1>7 DEF z, r

(* The distance between two reduced positions. *)
LEMMA ModDistance ==
  ASSUME NEW N \in Nat \ {0}, NEW x \in Int, NEW y \in Int
  PROVE  ((x % N) - (y % N)) % N = (x - y) % N
  <1>1. PICK q \in Int : y = N * q + (y % N)
    BY ModQuotient
  <1> DEFINE r == y % N
             s == x % N
             d == x - y
             m == -r
  <1>2. r \in Int /\ s \in Int
    BY ModInRange
  <1>3. y = N * q + r
    BY <1>1
  <1> HIDE DEF r
  <1>4. m \in Int /\ d \in Int
    BY <1>2
  <1>5. x + m = N * q + d
    BY <1>2, <1>3
  <1> HIDE DEF d
  <1>6. s - r = s + m
    <2> HIDE DEF s
    <2> QED BY <1>2
  <1> HIDE DEF m
  <1>7. (s + m) % N = (x + m) % N
    BY <1>4, ModAdvance
  <1>8. (N * q + d) % N = d % N
    BY <1>4, ModTurns
  <1>9. (s - r) % N = d % N
    BY <1>5, <1>6, <1>7, <1>8
  <1> QED BY <1>9 DEF s, r, d

-----------------------------------------------------------------------------
(* RingHoldsTail speaks of the slots from readPos on; the writer adds at      *)
(* writePos.  They describe one ring only while writePos is count slots past  *)
(* readPos, so that is part of the inductive invariant.                       *)
WriteFollowsRead == writePos = (readPos + count) % MaxSize
CountWithinStream == count <= totalSize
Inv == TypeOK /\ WriteFollowsRead /\ CountWithinStream /\ RingHoldsTail
         /\ NoLostWakeup /\ AsyncWithinWindow

LEMMA InitInv == Init => Inv
  <1> SUFFICES ASSUME NEW mode \in BOOLEAN, MakeCirBuf(mode) PROVE Inv
    BY DEF Init
  <1> USE DEF MakeCirBuf
  <1>1. 0 % MaxSize = 0 /\ 0 \in Slots
    BY MaxSizeAssumption DEF Slots
  <1>2. buf \in [Slots -> Nat \cup {NoByte}]
    OBVIOUS
  <1>3. windowSize \in 0..MaxSize /\ count \in 0..MaxSize /\ totalSize \in Nat
    BY MaxSizeAssumption
  <1>4. TypeOK
    BY <1>1, <1>2, <1>3 DEF TypeOK
  <1>5. WriteFollowsRead /\ CountWithinStream /\ RingHoldsTail
    BY <1>1 DEF WriteFollowsRead, CountWithinStream, RingHoldsTail
  <1>6. NoLostWakeup /\ AsyncWithinWindow
    BY MaxSizeAssumption DEF NoLostWakeup, AsyncWithinWindow
  <1> QED BY <1>4, <1>5, <1>6 DEF Inv

(* What the window admits, and what that overwrites, stay inside the ring.   *)
LEMMA WriteBounds ==
  ASSUME TypeOK, AsyncWithinWindow, NEW n \in 1..MaxChunk
  PROVE  /\ Admitted(n) \in 0..n
         /\ Overwritten(Admitted(n)) \in 0..(count + Admitted(n))
         /\ count + Admitted(n) - Overwritten(Admitted(n)) \in 0..MaxSize
         /\ Overwritten(Admitted(n)) >= count + Admitted(n) - MaxSize
         /\ syncMode => Overwritten(Admitted(n)) = 0
         /\ ~syncMode => count + Admitted(n) - Overwritten(Admitted(n)) <= windowSize
         /\ syncMode /\ Admitted(n) = 0 => count >= windowSize
         /\ ~syncMode => Admitted(n) # 0
  BY MaxSizeAssumption, MaxChunkAssumption
  DEF TypeOK, AsyncWithinWindow, Admitted, Overwritten, Lesser, Greater

(* A byte at distance d from readPos, after k bytes were stored at writePos. *)
LEMMA StoredBytes ==
  ASSUME TypeOK, WriteFollowsRead, RingHoldsTail, CountWithinStream,
         NEW k \in 0..MaxSize, StoreBytes(k),
         NEW d \in 0..(count + k - 1), d >= count + k - MaxSize
  PROVE  buf'[(readPos + d) % MaxSize] = HeadPos + d
  <1> DEFINE s == (readPos + d) % MaxSize
             off == (s - writePos) % MaxSize
  <1>1. /\ readPos \in Int /\ count \in Int /\ totalSize \in Int /\ d \in Int
        /\ readPos + d \in Int /\ readPos + count \in Int /\ d - count \in Int
    BY DEF TypeOK, Slots
  <1>2. s \in Slots
    BY <1>1, ModInRange, MaxSizeAssumption DEF Slots
  <1>3. off = ((readPos + d) - (readPos + count)) % MaxSize
    BY <1>1, ModDistance, MaxSizeAssumption DEF WriteFollowsRead
  <1>4. (readPos + d) - (readPos + count) = d - count
    BY <1>1
  <1>5. off = (d - count) % MaxSize
    BY <1>3, <1>4
  <1>6. buf'[s] = IF off < k THEN totalSize + off ELSE buf[s]
    BY <1>2 DEF StoreBytes
  <1>7. CASE d < count
    <2>1. d - count \in (-MaxSize)..(-1)
      BY <1>7, MaxSizeAssumption DEF TypeOK
    <2>2. off = d - count + MaxSize
      BY <1>5, <2>1, ModNegative, MaxSizeAssumption
    <2>3. off >= k
      BY <2>2, <1>1, MaxSizeAssumption
    <2>4. buf'[s] = buf[s]
      BY <1>6, <2>2, <2>3, <1>1, MaxSizeAssumption
    <2>5. d \in 0..(count - 1)
      BY <1>7, <1>1
    <2> QED BY <2>4, <2>5 DEF RingHoldsTail
  <1>8. CASE d >= count
    <2>1. d - count \in 0..(MaxSize - 1) /\ d - count < k
      BY <1>8, <1>1, MaxSizeAssumption
    <2>2. off = d - count
      BY <1>5, <2>1, ModBelow, MaxSizeAssumption
    <2>3. buf'[s] = totalSize + (d - count)
      BY <1>6, <2>1, <2>2
    <2>4. totalSize + (d - count) = HeadPos + d
      BY <1>1 DEF HeadPos
    <2> QED BY <2>3, <2>4
  <1> QED BY <1>1, <1>7, <1>8

(* The tail seen after readPos moved o slots forward. *)
LEMMA AdvancedRead ==
  ASSUME NEW r \in Slots, NEW o \in Nat, NEW off \in Nat
  PROVE  (((r + o) % MaxSize) + off) % MaxSize = (r + (o + off)) % MaxSize
  <1>1. r + o \in Int /\ off \in Int /\ (r + o) + off = r + (o + off)
    BY MaxSizeAssumption DEF Slots
  <1> QED BY <1>1, ModAdvance, MaxSizeAssumption

LEMMA WriteInv ==
  ASSUME Inv, NEW n \in 1..MaxChunk, WriteAvailable(n)
  PROVE  Inv'
  <1> DEFINE k == Admitted(n)
             o == Overwritten(k)
  <1>1. TypeOK /\ WriteFollowsRead /\ CountWithinStream /\ RingHoldsTail
        /\ NoLostWakeup /\ AsyncWithinWindow
    BY DEF Inv
  <1>2. /\ k \in 0..n
        /\ o \in 0..(count + k)
        /\ count + k - o \in 0..MaxSize
        /\ o >= count + k - MaxSize
        /\ syncMode => o = 0
        /\ ~syncMode => count + k - o <= windowSize
        /\ syncMode /\ k = 0 => count >= windowSize
        /\ ~syncMode => k # 0
    BY <1>1, WriteBounds
  <1>3. /\ StoreBytes(k)
        /\ writePos' = (writePos + k) % MaxSize
        /\ readPos' = (readPos + o) % MaxSize
        /\ count' = count + k - o
        /\ totalSize' = totalSize + k
        /\ waiterChan' = (k = 0)
        /\ syncMode' = syncMode /\ windowSize' = windowSize
    BY DEF WriteAvailable
  <1> HIDE DEF k, o
  <1>4. /\ k \in 0..MaxSize /\ k \in Nat /\ o \in Nat
        /\ readPos \in Slots /\ readPos \in Int /\ writePos \in Int
        /\ count \in Nat /\ totalSize \in Nat /\ count <= MaxSize
    BY <1>1, <1>2, MaxSizeAssumption, MaxChunkAssumption DEF TypeOK, Slots
  <1>5. TypeOK'
    <2>1. buf' \in [Slots -> Nat \cup {NoByte}]
      <3> DEFINE off(i) == (i - writePos) % MaxSize
                 stored(i) == IF off(i) < k THEN totalSize + off(i) ELSE buf[i]
      <3>1. ASSUME NEW i \in Slots
            PROVE  stored(i) \in Nat \cup {NoByte}
        <4>1. i - writePos \in Int
          BY <1>4 DEF Slots
        <4>2. off(i) \in Nat
          BY <4>1, ModInRange, MaxSizeAssumption
        <4>3. buf[i] \in Nat \cup {NoByte}
          BY <1>1 DEF TypeOK
        <4> HIDE DEF off
        <4> QED BY <1>4, <4>2, <4>3
      <3>2. buf' = [i \in Slots |-> stored(i)]
        BY <1>3 DEF StoreBytes
      <3> HIDE DEF stored
      <3> QED BY <3>1, <3>2
    <2>2. readPos' \in Slots /\ writePos' \in Slots
      <3>1. readPos + o \in Int /\ writePos + k \in Int
        BY <1>4
      <3> QED BY <1>3, <3>1, ModInRange, MaxSizeAssumption DEF Slots
    <2>3. count' \in 0..MaxSize /\ totalSize' \in Nat /\ waiterChan' \in BOOLEAN
      BY <1>2, <1>3, <1>4
    <2>4. syncMode' \in BOOLEAN /\ windowSize' \in 0..MaxSize
      BY <1>1, <1>3 DEF TypeOK
    <2> QED BY <2>1, <2>2, <2>3, <2>4 DEF TypeOK
  <1>6. WriteFollowsRead'
    <2>1. (((readPos + count) % MaxSize) + k) % MaxSize = (readPos + (count + k)) % MaxSize
      BY <1>4, AdvancedRead
    <2>2. (((readPos + o) % MaxSize) + (count + k - o)) % MaxSize
            = (readPos + (o + (count + k - o))) % MaxSize
      <3>1. count + k - o \in Nat
        BY <1>2
      <3> QED BY <1>4, <3>1, AdvancedRead
    <2>3. count + k = o + (count + k - o)
      BY <1>4
    <2> QED BY <1>1, <1>3, <2>1, <2>2, <2>3 DEF WriteFollowsRead
  <1>7. CountWithinStream'
    BY <1>1, <1>3, <1>4 DEF CountWithinStream
  <1>8. RingHoldsTail'
    <2> SUFFICES ASSUME NEW off \in 0..(count' - 1)
                 PROVE  buf'[(readPos' + off) % MaxSize] = HeadPos' + off
      BY DEF RingHoldsTail
    <2>1. off \in Nat /\ o + off \in 0..(count + k - 1) /\ o + off >= count + k - MaxSize
      BY <1>2, <1>3, <1>4, MaxSizeAssumption
    <2>2. (readPos' + off) % MaxSize = (readPos + (o + off)) % MaxSize
      BY <1>3, <1>4, <2>1, AdvancedRead
    <2>3. buf'[(readPos + (o + off)) % MaxSize] = HeadPos + (o + off)
      BY <1>1, <1>3, <1>4, <2>1, StoredBytes
    <2>4. HeadPos' + off = HeadPos + (o + off)
      BY <1>3, <1>4, <2>1 DEF HeadPos
    <2> QED BY <2>2, <2>3, <2>4
  <1>9. NoLostWakeup' /\ AsyncWithinWindow'
    BY <1>1, <1>2, <1>3, <1>4 DEF NoLostWakeup, AsyncWithinWindow, TypeOK
  <1> QED BY <1>5, <1>6, <1>7, <1>8, <1>9 DEF Inv

(* Consume and SetEffectiveWindow both drop o bytes from the old end. *)
LEMMA DropInv ==
  ASSUME Inv, NEW o \in 0..count,
         readPos' = (readPos + o) % MaxSize, count' = count - o,
         UNCHANGED <<buf, writePos, totalSize>>
  PROVE  readPos' \in Slots /\ WriteFollowsRead' /\ CountWithinStream' /\ RingHoldsTail'
  <1>1. TypeOK /\ WriteFollowsRead /\ CountWithinStream /\ RingHoldsTail
    BY DEF Inv
  <1>2. /\ o \in Nat /\ readPos \in Slots /\ readPos \in Int
        /\ count \in Nat /\ totalSize \in Nat
    BY <1>1 DEF TypeOK, Slots
  <1>3. readPos' \in Slots
    <2>1. readPos + o \in Int
      BY <1>2
    <2> QED BY <2>1, ModInRange, MaxSizeAssumption DEF Slots
  <1>4. WriteFollowsRead'
    <2>1. count - o \in Nat /\ o + (count - o) = count
      BY <1>2
    <2>2. (((readPos + o) % MaxSize) + (count - o)) % MaxSize
            = (readPos + (o + (count - o))) % MaxSize
      BY <1>2, <2>1, AdvancedRead
    <2> QED BY <1>1, <2>1, <2>2 DEF WriteFollowsRead
  <1>5. CountWithinStream'
    BY <1>1, <1>2 DEF CountWithinStream
  <1>6. RingHoldsTail'
    <2> SUFFICES ASSUME NEW off \in 0..(count' - 1)
                 PROVE  buf'[(readPos' + off) % MaxSize] = HeadPos' + off
      BY DEF RingHoldsTail
    <2>1. off \in Nat /\ o + off \in 0..(count - 1)
      BY <1>2
    <2>2. (readPos' + off) % MaxSize = (readPos + (o + off)) % MaxSize
      BY <1>2, <2>1, AdvancedRead
    <2>3. buf[(readPos + (o + off)) % MaxSize] = HeadPos + (o + off)
      BY <1>1, <2>1 DEF RingHoldsTail
    <2>4. HeadPos' + off = HeadPos + (o + off)
      BY <1>2, <2>1 DEF HeadPos
    <2> QED BY <2>2, <2>3, <2>4
  <1> QED BY <1>3, <1>4, <1>5, <1>6

LEMMA ConsumeInv ==
  ASSUME Inv, NEW n \in 0..MaxSize, Consume(n)
  PROVE  Inv'
  <1>1. /\ n \in 0..count /\ readPos' = (readPos + n) % MaxSize /\ count' = count - n
        /\ waiterChan' = FALSE
        /\ UNCHANGED <<buf, writePos, totalSize>> /\ UNCHANGED <<syncMode, windowSize>>
    BY MaxSizeAssumption DEF Inv, TypeOK, Consume, TryWakeWriter
  <1>2. readPos' \in Slots /\ WriteFollowsRead' /\ CountWithinStream' /\ RingHoldsTail'
    BY <1>1, DropInv
  <1>3. count' \in 0..MaxSize
    BY <1>1, MaxSizeAssumption DEF Inv, TypeOK
  <1>4. TypeOK'
    BY <1>1, <1>2, <1>3 DEF Inv, TypeOK
  <1>5. NoLostWakeup' /\ AsyncWithinWindow'
    BY <1>1, MaxSizeAssumption DEF Inv, TypeOK, NoLostWakeup, AsyncWithinWindow
  <1> QED BY <1>2, <1>4, <1>5 DEF Inv

LEMMA RetuneInv ==
  ASSUME Inv, NEW mode \in BOOLEAN, NEW w \in 0..(MaxSize + 1),
         SetEffectiveWindow(mode, w)
  PROVE  Inv'
  <1> DEFINE window == Lesser(w, MaxSize)
             excess == Truncated(mode, window)
  <1>1. /\ windowSize' = window /\ syncMode' = mode
        /\ readPos' = (readPos + excess) % MaxSize /\ count' = count - excess
        /\ UNCHANGED <<buf, writePos, totalSize>>
        /\ IF syncMode /\ (window > windowSize \/ ~mode)
           THEN waiterChan' = FALSE ELSE waiterChan' = waiterChan
    BY DEF SetEffectiveWindow, TryWakeWriter
  <1>2. /\ window \in 0..MaxSize /\ excess \in 0..count
        /\ mode => excess = 0
        /\ ~mode => count - excess <= window
    BY MaxSizeAssumption DEF Inv, TypeOK, Truncated, Lesser, Greater
  <1> HIDE DEF window, excess
  <1>3. readPos' \in Slots /\ WriteFollowsRead' /\ CountWithinStream' /\ RingHoldsTail'
    BY <1>1, <1>2, DropInv
  <1>4. count' \in 0..MaxSize
    BY <1>1, <1>2, MaxSizeAssumption DEF Inv, TypeOK
  <1>5. TypeOK'
    BY <1>1, <1>2, <1>3, <1>4 DEF Inv, TypeOK
  <1>6. AsyncWithinWindow'
    BY <1>1, <1>2 DEF AsyncWithinWindow
  <1>7. NoLostWakeup'
    <2> SUFFICES ASSUME waiterChan' PROVE syncMode' /\ count' >= windowSize'
      BY DEF NoLostWakeup
    <2>1. waiterChan /\ ~(syncMode /\ (window > windowSize \/ ~mode))
      BY <1>1
    <2>2. syncMode /\ count >= windowSize
      BY <2>1 DEF Inv, NoLostWakeup
    <2>3. mode /\ ~(window > windowSize)
      BY <2>1, <2>2
    <2>4. count' = count - 0 /\ windowSize' = window /\ syncMode'
      BY <1>1, <1>2, <2>3
    <2>5. count \in Int /\ windowSize \in Int /\ window \in Int
      BY <1>2 DEF Inv, TypeOK
    <2> QED BY <2>2, <2>3, <2>4, <2>5
  <1> QED BY <1>3, <1>5, <1>6, <1>7 DEF Inv

LEMMA NextInv == Inv /\ [Next]_vars => Inv'
  <1> SUFFICES ASSUME Inv, [Next]_vars PROVE Inv'
    OBVIOUS
  <1>1. CASE \E n \in 1..MaxChunk : WriteAvailable(n)
    BY <1>1, WriteInv
  <1>2. CASE \E n \in 0..MaxSize : Consume(n)
    BY <1>2, ConsumeInv
  <1>3. CASE \E mode \in BOOLEAN, w \in 0..(MaxSize + 1) : SetEffectiveWindow(mode, w)
    BY <1>3, RetuneInv
  <1>4. CASE UNCHANGED vars
    BY <1>4 DEF vars, Inv, TypeOK, WriteFollowsRead, CountWithinStream, RingHoldsTail,
                NoLostWakeup, AsyncWithinWindow, HeadPos
  <1> QED BY <1>1, <1>2, <1>3, <1>4 DEF Next

(* The buffer's bookkeeping stays in range, the ring shows the tail of the   *)
(* stream, a sleeping writer has no space and an asynchronous buffer keeps   *)
(* to its window, whatever the order of writes, consumes and retunings.      *)
THEOREM InvHolds == Spec => []Inv
  <1>1. Init => Inv
    BY InitInv
  <1>2. Inv /\ [Next]_vars => Inv'
    BY NextInv
  <1> QED BY <1>1, <1>2, PTL DEF Spec

THEOREM TypeCorrect == Spec => []TypeOK
  <1>1. Inv => TypeOK
    BY DEF Inv
  <1> QED BY <1>1, InvHolds, PTL

(* What PeekDataAt returns is what was written: CirBuf never mixes up bytes. *)
THEOREM RingCorrect == Spec => []RingHoldsTail
  <1>1. Inv => RingHoldsTail
    BY DEF Inv
  <1> QED BY <1>1, InvHolds, PTL

(* No wakeup of the read loop is lost.                                       *)
THEOREM WakeupCorrect == Spec => []NoLostWakeup
  <1>1. Inv => NoLostWakeup
    BY DEF Inv
  <1> QED BY <1>1, InvHolds, PTL

(* A buffer that does not block keeps to its window, also right after a      *)
(* retuning that shrinks it.                                                 *)
THEOREM WindowCorrect == Spec => []AsyncWithinWindow
  <1>1. Inv => AsyncWithinWindow
    BY DEF Inv
  <1> QED BY <1>1, InvHolds, PTL

(* The old end of the buffer, which readers take for the position of what    *)
(* they peek, never moves back, and a blocking writer does not move it.      *)
THEOREM HeadCorrect == Spec => HeadMonotone
  <1> DEFINE Monotone == /\ totalSize' >= totalSize
                         /\ HeadPos' >= HeadPos
                         /\ syncMode /\ totalSize' > totalSize => HeadPos' = HeadPos
  <1>1. Inv /\ [Next]_vars => [Monotone]_vars
    <2> SUFFICES ASSUME Inv, Next PROVE Monotone
      OBVIOUS
    <2>1. TypeOK /\ AsyncWithinWindow /\ count \in Nat /\ totalSize \in Nat
      BY DEF Inv, TypeOK
    <2>2. ASSUME NEW n \in 1..MaxChunk, WriteAvailable(n)
          PROVE  Monotone
      <3> DEFINE k == Admitted(n)
                 o == Overwritten(k)
      <3>1. k \in 0..n /\ o \in 0..(count + k) /\ (syncMode => o = 0)
        BY <2>1, WriteBounds
      <3>2. count' = count + k - o /\ totalSize' = totalSize + k
        BY <2>2 DEF WriteAvailable
      <3> HIDE DEF k, o
      <3> QED BY <2>1, <3>1, <3>2 DEF HeadPos
    <2>3. ASSUME NEW n \in 0..MaxSize, Consume(n)
          PROVE  Monotone
      BY <2>1, <2>3, MaxSizeAssumption DEF Consume, HeadPos
    <2>4. ASSUME NEW mode \in BOOLEAN, NEW w \in 0..(MaxSize + 1), SetEffectiveWindow(mode, w)
          PROVE  Monotone
      <3> DEFINE excess == Truncated(mode, Lesser(w, MaxSize))
      <3>1. excess \in Nat
        BY <2>1, MaxSizeAssumption DEF Truncated, Lesser, Greater
      <3>2. count' = count - excess /\ totalSize' = totalSize
        BY <2>4 DEF SetEffectiveWindow
      <3> HIDE DEF excess
      <3> QED BY <2>1, <3>1, <3>2 DEF HeadPos
    <2> QED BY <2>2, <2>3, <2>4 DEF Next
  <1> QED BY <1>1, InvHolds, PTL DEF Spec, HeadMonotone

-----------------------------------------------------------------------------
(* The ring implements the abstract sliding window.                          *)

PeekIsWindow == PeekDataAt(0, count) = TB!Window(HeadPos, totalSize)

LEMMA PeekLemma == Inv => PeekIsWindow
  <1> SUFFICES ASSUME Inv PROVE PeekIsWindow
    OBVIOUS
  <1>1. /\ readPos \in Int /\ count \in Nat /\ totalSize \in Nat
        /\ Greater(0, Lesser(count, count - 0)) = count /\ totalSize - HeadPos = count
    BY DEF Inv, TypeOK, Slots, Greater, Lesser, HeadPos
  <1>2. ASSUME NEW i \in 1..count
        PROVE  buf[(readPos + 0 + i - 1) % MaxSize] = HeadPos + i - 1
    <2>1. i - 1 \in 0..(count - 1) /\ readPos + 0 + i - 1 = readPos + (i - 1)
      BY <1>1
    <2>2. buf[(readPos + (i - 1)) % MaxSize] = HeadPos + (i - 1)
      BY <2>1 DEF Inv, RingHoldsTail
    <2>3. HeadPos + (i - 1) = HeadPos + i - 1
      BY <1>1 DEF HeadPos
    <2> QED BY <2>1, <2>2, <2>3
  <1>3. [i \in 1..count |-> buf[(readPos + 0 + i - 1) % MaxSize]]
          = [i \in 1..count |-> HeadPos + i - 1]
    BY <1>2
  <1> QED BY <1>1, <1>3 DEF PeekIsWindow, PeekDataAt, TB!Window

LEMMA InitRefines == Init => TB!Init
  <1> SUFFICES ASSUME Init PROVE TB!Init
    OBVIOUS
  <1>1. Inv
    BY InitInv
  <1>2. count = 0 /\ totalSize = 0 /\ windowSize = MaxSize /\ waiterChan = FALSE
        /\ syncMode \in BOOLEAN
    BY DEF Init, MakeCirBuf
  <1>3. HeadPos = 0
    BY <1>2 DEF HeadPos
  <1>4. PeekDataAt(0, count) = <<>>
    BY <1>2 DEF PeekDataAt, Greater, Lesser
  <1> QED BY <1>2, <1>3, <1>4 DEF TB!Init

LEMMA NextRefines ==
  ASSUME Inv, Inv', PeekIsWindow, PeekIsWindow', [Next]_vars
  PROVE  [TB!Next]_(TB!vars)
  <1>1. PeekDataAt(0, count)' = TB!Window(HeadPos', totalSize')
    BY DEF PeekIsWindow
  <1>2. PeekDataAt(0, count) = TB!Window(HeadPos, totalSize)
    BY DEF PeekIsWindow
  <1>3. /\ count \in 0..MaxSize /\ totalSize \in Nat /\ windowSize \in 0..MaxSize
        /\ HeadPos \in Int /\ waiterChan \in BOOLEAN /\ syncMode \in BOOLEAN
    BY DEF Inv, TypeOK, HeadPos
  <1>4. ASSUME NEW n \in 1..MaxChunk, WriteAvailable(n)
        PROVE  TB!Next
    <2> DEFINE k == Admitted(n)
               o == Overwritten(k)
    <2>1. /\ k \in 0..n
          /\ o \in 0..(count + k)
          /\ count + k - o \in 0..MaxSize
          /\ syncMode => o = 0
          /\ ~syncMode => count + k - o <= windowSize
          /\ syncMode /\ k = 0 => count >= windowSize
          /\ ~syncMode => k # 0
      BY WriteBounds DEF Inv
    <2>2. /\ ~waiterChan /\ totalSize + n <= MaxStream
          /\ count' = count + k - o /\ totalSize' = totalSize + k
          /\ waiterChan' = (k = 0)
          /\ syncMode' = syncMode /\ windowSize' = windowSize
      BY <1>4 DEF WriteAvailable
    <2>3. syncMode /\ k # 0 => count + k <= windowSize
      BY <1>3, <2>1, MaxChunkAssumption, MaxSizeAssumption DEF Admitted, Lesser, Greater
    <2>4. ~syncMode => o = IF count + k > windowSize THEN count + k - windowSize ELSE 0
      <3>1. ~syncMode => count <= windowSize
        BY DEF Inv, AsyncWithinWindow
      <3> QED BY <1>3, <2>1, <3>1 DEF Overwritten, Greater
    <2> HIDE DEF k, o
    <2>5. HeadPos' = HeadPos + o
      BY <1>3, <2>1, <2>2 DEF HeadPos
    <2>6. CASE k = 0
      <3>1. syncMode /\ o = 0
        BY <2>1, <2>6
      <3>2. UNCHANGED <<HeadPos, totalSize, syncMode, windowSize>>
        BY <1>3, <2>2, <2>5, <2>6, <3>1
      <3>3. PeekDataAt(0, count)' = PeekDataAt(0, count)
        BY <1>1, <1>2, <3>2
      <3>4. totalSize - HeadPos >= windowSize
        BY <1>3, <2>1, <2>6, <3>1 DEF HeadPos
      <3> QED BY <2>2, <2>6, <3>1, <3>2, <3>3, <3>4 DEF TB!Next, TB!Sleep
    <2>7. CASE k # 0
      <3>1. k \in 1..MaxStream
        BY <1>3, <2>1, <2>2, <2>7, MaxChunkAssumption, MaxSizeAssumption, MaxStreamAssumption
      <3>2. ~waiterChan' /\ ~waiterChan /\ totalSize + k <= MaxStream
        BY <1>3, <2>1, <2>2, <2>7, MaxChunkAssumption, MaxSizeAssumption, MaxStreamAssumption
      <3>3. IF syncMode
            THEN totalSize' <= HeadPos + windowSize /\ HeadPos' = HeadPos
            ELSE HeadPos' = IF totalSize' - HeadPos > windowSize
                            THEN totalSize' - windowSize ELSE HeadPos
        <4>1. CASE syncMode
          BY <4>1, <1>3, <2>1, <2>2, <2>3, <2>5, <2>7 DEF HeadPos
        <4>2. CASE ~syncMode
          BY <4>2, <1>3, <2>1, <2>2, <2>4, <2>5 DEF HeadPos
        <4> QED BY <4>1, <4>2
      <3>4. TB!Extend(k)
        BY <1>1, <1>3, <2>2, <3>2, <3>3 DEF TB!Extend
      <3> QED BY <3>1, <3>4 DEF TB!Next
    <2> QED BY <2>6, <2>7
  <1>5. ASSUME NEW n \in 0..MaxSize, Consume(n)
        PROVE  TB!Next
    <2>1. /\ n <= count /\ count' = count - n /\ waiterChan' = FALSE
          /\ UNCHANGED <<totalSize, syncMode, windowSize>>
      BY <1>5 DEF Consume, TryWakeWriter
    <2>2. HeadPos' = HeadPos + n /\ n <= totalSize - HeadPos
      BY <1>3, <2>1 DEF HeadPos
    <2>3. TB!Release(n)
      BY <1>1, <2>1, <2>2 DEF TB!Release
    <2> QED BY <2>3 DEF TB!Next
  <1>6. ASSUME NEW mode \in BOOLEAN, NEW w \in 0..(MaxSize + 1), SetEffectiveWindow(mode, w)
        PROVE  TB!Next
    <2> DEFINE window == Lesser(w, MaxSize)
               excess == Truncated(mode, window)
    <2>1. /\ windowSize' = window /\ syncMode' = mode /\ count' = count - excess
          /\ totalSize' = totalSize
          /\ waiterChan' = FALSE \/ waiterChan' = waiterChan
      BY <1>6 DEF SetEffectiveWindow, TryWakeWriter
    <2>2. /\ window \in 0..MaxSize
          /\ excess = IF ~mode /\ count > window THEN count - window ELSE 0
      BY <1>3, MaxSizeAssumption DEF Truncated, Lesser, Greater
    <2> HIDE DEF window, excess
    <2>3. HeadPos' = IF ~mode /\ totalSize - HeadPos > window
                     THEN totalSize - window ELSE HeadPos
      BY <1>3, <2>1, <2>2 DEF HeadPos
    <2>4. waiterChan' => mode /\ totalSize - HeadPos' >= window
      <3>1. waiterChan' => syncMode' /\ count' >= windowSize'
        BY DEF Inv, NoLostWakeup
      <3>2. totalSize - HeadPos' = count'
        BY <1>3, <2>1, <2>2 DEF HeadPos
      <3> QED BY <2>1, <3>1, <3>2
    <2>5. TB!Retune(mode, window)
      BY <1>1, <2>1, <2>3, <2>4 DEF TB!Retune
    <2> QED BY <2>2, <2>5 DEF TB!Next
  <1>7. CASE UNCHANGED vars
    BY <1>7 DEF vars, TB!vars, HeadPos, PeekDataAt
  <1> QED BY <1>4, <1>5, <1>6, <1>7 DEF Next

(* Whatever StreamManager observes through CirBuf's methods, the abstract    *)
(* window could have shown it.                                               *)
THEOREM CirBufImplementsTailBuffer == Spec => RefinesTailBuffer
  <1>1. Init => TB!Init
    BY InitRefines
  <1>2. Inv /\ Inv' /\ PeekIsWindow /\ PeekIsWindow' /\ [Next]_vars => [TB!Next]_(TB!vars)
    BY NextRefines
  <1> QED BY <1>1, <1>2, InvHolds, PeekLemma, PTL DEF Spec, RefinesTailBuffer, TB!Spec
=============================================================================
