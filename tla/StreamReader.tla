----------------------------- MODULE StreamReader -----------------------------
(* The receiving end of a stream (pkg/streamclient/streamreader.go): reorders *)
(* packets by sequence number, buffers what the consumer has not read, and    *)
(* acknowledges on receipt.  One Reader serves one stream id; a reconnection  *)
(* replaces it.  RecvData keeps r.lock while it drains the packets that       *)
(* waited, one DrainOne step each.                                            *)
EXTENDS Integers, Sequences, Bounds, Link

CONSTANTS ReadWindow,     \* DefaultStreamRwnd
          ReadSize        \* the consumer's buffer

ASSUME ReadWindowAssumption == ReadWindow \in Nat \ {0}
ASSUME ReadSizeAssumption == ReadSize \in Nat \ {0}

VARIABLES
  rId,
  rLink,              \* connection its writer is known on: an ack that comes by
                      \* another finds no writer there
  rNextSeq, rBuffer, rEof, rErr, rClosed, rLastRwndSent,
  rOoo,               \* oooPackets
  rDraining           \* RecvData holds the lock, in processOOOPacketsLocked

readerVars == <<rId, rLink, rNextSeq, rBuffer, rEof, rErr, rClosed, rLastRwndSent, rOoo, rDraining>>

RwndFor(buffer) == Greater(0, ReadWindow - Len(buffer))
CurrentRwnd == RwndFor(rBuffer)

(* sendAckLocked, for the next sequence number and buffer a method leaves.    *)
AckPacket(seq, rwnd, fin, cancel) ==
  [id |-> rId, seq |-> seq, rwnd |-> rwnd, fin |-> fin, cancel |-> cancel]

SendAck(seq, rwnd, fin, cancel) ==
  /\ ackWire' = Carried(ackWire, AckPacket(seq, rwnd, fin, cancel), rLink)
  /\ rLastRwndSent' = rwnd

(* NewReaderWithSeq *)
NewReader(id, startSeq) ==
  /\ rId' = id /\ rLink' = link /\ rNextSeq' = startSeq /\ rBuffer' = <<>>
  /\ rEof' = FALSE /\ rErr' = FALSE /\ rClosed' = FALSE
  /\ rLastRwndSent' = ReadWindow /\ rOoo' = {} /\ rDraining' = FALSE

-----------------------------------------------------------------------------
(* RecvData.                                                                  *)

Ended == rClosed \/ rEof \/ rErr
Accepts(pk) == ~rDraining /\ ~Ended /\ pk.id = rId

(* Fault: a premature packet is taken for the next one. *)
InOrder_AcceptsEarly(pk) == pk.seq >= rNextSeq
InOrder(pk) == pk.seq = rNextSeq

(* A packet for a reader that is done, for another stream, or an old one. *)
IgnoreData(pk) ==
  /\ ~rDraining
  /\ Ended \/ pk.id # rId \/ (~pk.err /\ pk.seq < rNextSeq /\ ~InOrder(pk))
  /\ UNCHANGED <<readerVars, ackWire>>

(* Broker.processRecvData: a reader that has ended is no longer found, and    *)
(* the packet's own sequence number is acknowledged, at most once a second.   *)
ReaderNotFound(pk) ==
  /\ ~rDraining /\ Ended /\ pk.id = rId
  /\ ackWire' = Carried(ackWire, AckPacket(pk.seq, 0, FALSE, TRUE), rLink)
  /\ UNCHANGED readerVars

(* An error ends the stream whatever its sequence number. *)
RecvError(pk) ==
  /\ Accepts(pk) /\ pk.err
  /\ rErr' = TRUE
  /\ SendAck(rNextSeq, CurrentRwnd, TRUE, FALSE)
  /\ UNCHANGED <<rId, rLink, rNextSeq, rBuffer, rEof, rClosed, rOoo, rDraining>>

(* addOOOPacketLocked: the first packet of a sequence number is kept. *)
RecvEarly(pk) ==
  /\ Accepts(pk) /\ ~pk.err
  /\ pk.seq > rNextSeq /\ ~InOrder(pk)
  /\ rOoo' = IF \E o \in rOoo : o.seq = pk.seq THEN rOoo ELSE rOoo \cup {pk}
  /\ UNCHANGED <<rId, rLink, rNextSeq, rBuffer, rEof, rErr, rClosed, rLastRwndSent, rDraining, ackWire>>

(* recvDataOrderedLocked *)
TakeData(pk) ==
  /\ rBuffer' = rBuffer \o pk.data
  /\ rNextSeq' = rNextSeq + Len(pk.data)
  /\ rEof' = (rEof \/ pk.eof)

RecvInOrder(pk) ==
  /\ Accepts(pk) /\ ~pk.err
  /\ InOrder(pk)
  /\ TakeData(pk)
  /\ rDraining' = TRUE
  /\ UNCHANGED <<rId, rLink, rErr, rClosed, rLastRwndSent, rOoo, ackWire>>

RecvData(pk) == IgnoreData(pk) \/ ReaderNotFound(pk) \/ RecvError(pk) \/ RecvEarly(pk) \/ RecvInOrder(pk)

(* The packets are sorted: one that is not the oldest waiting never follows. *)
NextWaiting(o) == o.seq = rNextSeq /\ \A p \in rOoo : o.seq <= p.seq

DrainOne ==
  /\ rDraining /\ ~rEof
  /\ \E o \in rOoo :
       /\ NextWaiting(o)
       /\ TakeData(o)
       /\ rOoo' = rOoo \ {o}
  /\ UNCHANGED <<rId, rLink, rErr, rClosed, rLastRwndSent, rDraining, ackWire>>

(* One ack for all of it; the end of the stream discards what still waits. *)
FinishRecv ==
  /\ rDraining
  /\ rEof \/ ~\E o \in rOoo : NextWaiting(o)
  /\ rOoo' = IF rEof THEN {} ELSE rOoo
  /\ rDraining' = FALSE
  /\ SendAck(rNextSeq, CurrentRwnd, rEof, FALSE)
  /\ UNCHANGED <<rId, rLink, rNextSeq, rBuffer, rEof, rErr, rClosed>>

-----------------------------------------------------------------------------
(* Read, UpdateNextSeq and Close.                                             *)

(* The bytes Read returns.  An error hides what is still buffered. *)
Readable == IF rClosed \/ rErr THEN <<>> ELSE SubSeq(rBuffer, 1, Lesser(ReadSize, Len(rBuffer)))
Unread == SubSeq(rBuffer, Len(Readable) + 1, Len(rBuffer))

(* A window update is due when the buffer is empty or the window has grown    *)
(* by a fifth.                                                                *)
UpdateDue(buffer) ==
  buffer = <<>> \/ RwndFor(buffer) - rLastRwndSent >= ReadWindow \div 5

Read ==
  /\ ~rDraining
  /\ Readable # <<>>
  /\ rBuffer' = Unread
  /\ IF UpdateDue(Unread)
     THEN SendAck(rNextSeq, RwndFor(Unread), FALSE, FALSE)
     ELSE UNCHANGED <<ackWire, rLastRwndSent>>
  /\ UNCHANGED <<rId, rLink, rNextSeq, rEof, rErr, rClosed, rOoo, rDraining>>

(* Read returns the end of the stream, or the error. *)
ReadEnds == ~rDraining /\ (rErr \/ rClosed \/ (rEof /\ rBuffer = <<>>))

UpdateNextSeq(newSeq) ==
  /\ ~rDraining
  /\ rNextSeq' = newSeq
  /\ UNCHANGED <<rId, rLink, rBuffer, rEof, rErr, rClosed, rLastRwndSent, rOoo, rDraining, ackWire>>

Close ==
  /\ ~rDraining /\ ~rClosed
  /\ rClosed' = TRUE /\ rErr' = TRUE
  /\ SendAck(rNextSeq, CurrentRwnd, FALSE, TRUE)
  /\ UNCHANGED <<rId, rLink, rNextSeq, rBuffer, rEof, rOoo, rDraining>>

ReaderInit(id) ==
  /\ rId = id /\ rLink = link /\ rNextSeq = 0 /\ rBuffer = <<>>
  /\ rEof = FALSE /\ rErr = FALSE /\ rClosed = FALSE
  /\ rLastRwndSent = ReadWindow /\ rOoo = {} /\ rDraining = FALSE

ReaderTypeOK ==
  /\ rId \in Nat /\ rLink \in Nat /\ rNextSeq \in Nat
  /\ rBuffer \in Seq(Nat)
  /\ rEof \in BOOLEAN /\ rErr \in BOOLEAN /\ rClosed \in BOOLEAN /\ rDraining \in BOOLEAN
  /\ rLastRwndSent \in 0..ReadWindow
  /\ rOoo \subseteq [id : Nat, seq : Nat, data : Seq(Nat), eof : BOOLEAN, err : BOOLEAN]
=============================================================================
