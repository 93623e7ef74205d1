------------------------------- MODULE CirBuf -------------------------------
(* The job manager's circular output buffer (pkg/jobmanager/cirbuf.go) with  *)
(* the one goroutine that writes to it (StreamManager.readLoop) and the      *)
(* goroutines that consume from it and retune it.  A byte is identified by   *)
(* its position in the stream: the k-th byte ever written is k - 1.          *)
EXTENDS Integers, Sequences, Bounds

CONSTANTS MaxSize,    \* capacity: CirBufSize
          MaxChunk,   \* largest chunk the read loop writes: MaxPacketSize
          MaxStream   \* bound on the bytes written in a behaviour

ASSUME MaxSizeAssumption == MaxSize \in Nat \ {0}
ASSUME MaxChunkAssumption == MaxChunk \in 1..MaxSize
ASSUME MaxStreamAssumption == MaxStream \in Nat

VARIABLES buf, readPos, writePos, count, totalSize, syncMode, windowSize,
          waiterChan  \* TRUE when the blocked writer's channel is queued in it

vars == <<buf, readPos, writePos, count, totalSize, syncMode, windowSize, waiterChan>>

Slots == 0..(MaxSize - 1)
NoByte == -1

TypeOK ==
  /\ buf \in [Slots -> Nat \cup {NoByte}]
  /\ readPos \in Slots
  /\ writePos \in Slots
  /\ count \in 0..MaxSize
  /\ totalSize \in Nat
  /\ syncMode \in BOOLEAN
  /\ windowSize \in 0..MaxSize
  /\ waiterChan \in BOOLEAN

MakeCirBuf(initSyncMode) ==
  /\ buf = [i \in Slots |-> NoByte]
  /\ readPos = 0 /\ writePos = 0 /\ count = 0 /\ totalSize = 0
  /\ syncMode = initSyncMode
  /\ windowSize = MaxSize
  /\ waiterChan = FALSE

Init == \E mode \in BOOLEAN : MakeCirBuf(mode)

HeadPos == totalSize - count

PeekDataAt(offset, n) ==
  [i \in 1..Greater(0, Lesser(n, count - offset)) |-> buf[(readPos + offset + i - 1) % MaxSize]]

(* tryWakeWriter: close the queued channel, if there is one. *)
(* Fault: the channel is taken but never closed. *)
TryWakeWriter_NeverCloses == UNCHANGED waiterChan
TryWakeWriter == waiterChan' = FALSE

(* The loop of WriteAvailable stores k bytes from writePos on. *)
StoreBytes(k) ==
  buf' = [i \in Slots |->
            LET off == (i - writePos) % MaxSize
            IN  IF off < k THEN totalSize + off ELSE buf[i]]

(* How many of n offered bytes the window admits: all of them when it does  *)
(* not block.                                                               *)
(* Faults: sync mode is not looked at; the capacity is taken for the window. *)
Admitted_NeverBlocks(n) == n
Admitted_IgnoresWindow(n) == IF syncMode THEN Lesser(n, MaxSize - count) ELSE n
Admitted(n) == IF syncMode THEN Lesser(n, Greater(0, windowSize - count)) ELSE n

(* Bytes of the window dropped to make room for k new ones. *)
(* Fault: the count is never capped. *)
Overwritten_Never(k) == 0
Overwritten(k) == Greater(0, count + k - Greater(count, windowSize))

WriteAvailable(n) ==
  LET k == Admitted(n)
  IN  /\ ~waiterChan                  \* the writer waits on its channel
      /\ totalSize + n <= MaxStream
      /\ StoreBytes(k)
      /\ writePos' = (writePos + k) % MaxSize
      /\ readPos' = (readPos + Overwritten(k)) % MaxSize
      /\ count' = count + k - Overwritten(k)
      /\ totalSize' = totalSize + k
      /\ waiterChan' = (k = 0)
      /\ UNCHANGED <<syncMode, windowSize>>

Consume(numBytes) ==
  /\ numBytes <= count
  /\ readPos' = (readPos + numBytes) % MaxSize
  /\ count' = count - numBytes
  /\ TryWakeWriter
  /\ UNCHANGED <<buf, writePos, totalSize, syncMode, windowSize>>

(* Bytes truncated when the window of a buffer that does not block shrinks. *)
(* Fault: no truncation. *)
Truncated_None(mode, window) == 0
Truncated(mode, window) == IF mode THEN 0 ELSE Greater(0, count - window)

SetEffectiveWindow(mode, requested) ==
  LET window == Lesser(requested, MaxSize)
      excess == Truncated(mode, window)
  IN  /\ windowSize' = window
      /\ syncMode' = mode
      /\ readPos' = (readPos + excess) % MaxSize
      /\ count' = count - excess
      /\ IF syncMode /\ (window > windowSize \/ ~mode)
         THEN TryWakeWriter
         ELSE UNCHANGED waiterChan
      /\ UNCHANGED <<buf, writePos, totalSize>>

Next ==
  \/ \E n \in 1..MaxChunk : WriteAvailable(n)
  \/ \E n \in 0..MaxSize : Consume(n)
  \/ \E mode \in BOOLEAN, w \in 0..(MaxSize + 1) : SetEffectiveWindow(mode, w)

Spec == Init /\ [][Next]_vars

-----------------------------------------------------------------------------
(* The window read through the ring, by PeekDataAt(0, count), is exactly the *)
(* last count bytes of the stream in order: no wrap, overwrite, truncation   *)
(* or consume shifts readPos against count.                                  *)
RingHoldsTail ==
  \A off \in 0..(count - 1) :
    buf[(readPos + off) % MaxSize] = HeadPos + off

(* A writer sleeping on the channel really has no space: every operation     *)
(* that makes space (consume, a larger window, leaving sync mode) wakes it.  *)
NoLostWakeup == waiterChan => syncMode /\ count >= windowSize

(* Without blocking, the window bounds what is retained. *)
AsyncWithinWindow == ~syncMode => count <= windowSize

(* Bytes leave the buffer only from its old end and never come back, and in  *)
(* sync mode nothing is dropped but what is consumed.                        *)
HeadMonotone ==
  [][ /\ totalSize' >= totalSize
      /\ HeadPos' >= HeadPos
      /\ syncMode /\ totalSize' > totalSize => HeadPos' = HeadPos ]_vars

(* The ring implements the sliding window of TailBuffer. *)
TB == INSTANCE TailBuffer WITH
          Size <- MaxSize, lo <- HeadPos, hi <- totalSize,
          held <- PeekDataAt(0, count), blocking <- syncMode,
          limit <- windowSize, asleep <- waiterChan

RefinesTailBuffer == TB!Spec
=============================================================================
