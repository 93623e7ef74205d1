---------------------------- MODULE StreamManager ----------------------------
(* The job manager's side of a durable stream                                 *)
(* (pkg/jobmanager/streammanager.go): a read loop fills the output buffer     *)
(* from the PTY, a sender loop sends what the window allows, and the main     *)
(* server's acks and (re)connections move the window.                         *)
(*                                                                            *)
(* The buffer is CirBuf seen through the TailBuffer it implements: the last   *)
(* `count` of `total` bytes, a byte being its position in the stream.         *)
(* sm.lock and the buffer's own lock are different locks: the read loop       *)
(* writes to the buffer while a method of the manager holds sm.lock.          *)
EXTENDS Integers, Sequences, Bounds, Link

CONSTANTS CwndSize,       \* window used while a client is connected
          CirBufSize,     \* capacity of the output buffer
          MaxPacketSize,  \* most bytes of a PTY read and of a packet
          MaxStream       \* bound on the bytes the PTY yields

ASSUME CwndSizeAssumption == CwndSize \in Nat \ {0}
ASSUME CirBufSizeAssumption == CirBufSize \in Nat \ {0}
ASSUME MaxPacketSizeAssumption == MaxPacketSize \in Nat \ {0}
ASSUME MaxStreamAssumption == MaxStream \in Nat

VARIABLES
  rl,                 \* the read loop: "read", "write", "signal" or "done"
  chunk,              \* bytes it has read and not yet written to the buffer
  total, count, syncMode, windowSize,   \* the buffer
  waiterChan,         \* the read loop sleeps on the buffer
  streamId, connected, dataSender, rwndSize, sentNotAcked, maxAckedSeq, maxAckedRwnd,
  terminalEvent, eofPos, terminalEventSent, terminalEventAcked,
  sender,             \* the sender loop: "run", "wait" (on drainCond) or "done"
  smLock,             \* "free", or where the method that holds sm.lock stands
  conn                \* arguments and locals of ClientConnected while it runs

readLoopVars == <<rl, chunk>>
bufVars      == <<total, count, syncMode, windowSize, waiterChan>>
ackVars      == <<sentNotAcked, maxAckedSeq, maxAckedRwnd>>
terminalVars == <<terminalEvent, eofPos, terminalEventSent, terminalEventAcked>>
clientVars   == <<streamId, connected, dataSender, rwndSize>>
smVars == <<readLoopVars, bufVars, ackVars, terminalVars, clientVars, sender, smLock, conn>>

HeadPos == total - count
Positions(from, n) == [i \in 1..n |-> from + i - 1]

DataPacket(seq, data) ==
  [id |-> streamId, seq |-> seq, data |-> data, eof |-> FALSE, err |-> FALSE]
TerminalPacket ==
  [id |-> streamId, seq |-> eofPos, data |-> <<>>,
   eof |-> terminalEvent = "eof", err |-> terminalEvent = "error"]

(* drainCond.Signal: the sender loop is the only waiter. *)
(* Fault: nobody is woken. *)
Signal_Lost == UNCHANGED sender
Signal == sender' = IF sender = "wait" THEN "run" ELSE sender

-----------------------------------------------------------------------------
(* The buffer's operations, as TailBuffer has them.                           *)

(* Fault: the buffer overwrites though it is synchronous. *)
BufAdmitted_NeverBlocks(n) == n
BufAdmitted(n) == IF syncMode THEN Lesser(n, Greater(0, windowSize - count)) ELSE n

BufWrite(n) ==
  LET k == BufAdmitted(n)
  IN  /\ total' = total + k
      /\ count' = Lesser(count + k, Greater(count, windowSize))
      /\ waiterChan' = (k = 0)
      /\ UNCHANGED <<syncMode, windowSize>>

BufConsume(n) ==
  /\ count' = count - n
  /\ waiterChan' = FALSE
  /\ UNCHANGED <<total, syncMode, windowSize>>

BufSetEffectiveWindow(mode, requested) ==
  LET window == Lesser(requested, CirBufSize)
  IN  /\ windowSize' = window
      /\ syncMode' = mode
      /\ count' = IF mode THEN count ELSE Lesser(count, window)
      /\ waiterChan' = (waiterChan /\ ~(syncMode /\ (window > windowSize \/ ~mode)))
      /\ UNCHANGED total

EffectiveWindow(rwnd) == Lesser(CwndSize, rwnd)

-----------------------------------------------------------------------------
(* The read loop.  It takes sm.lock only to look at `closed` and to signal.   *)

ReadPty(n) ==
  /\ rl = "read" /\ smLock = "free"
  /\ total + n <= MaxStream
  /\ chunk' = n
  /\ rl' = "write"
  /\ UNCHANGED <<bufVars, ackVars, terminalVars, clientVars, sender, smLock, conn>>

(* handleReadData: one WriteAvailable, under the buffer's lock alone. *)
WriteChunk ==
  /\ rl = "write" /\ ~waiterChan
  /\ BufWrite(chunk)
  /\ chunk' = chunk - (total' - total)
  /\ rl' = IF total' > total THEN "signal" ELSE rl
  /\ UNCHANGED <<ackVars, terminalVars, clientVars, sender, smLock, conn>>

SignalSender ==
  /\ rl = "signal" /\ smLock = "free"
  /\ Signal
  /\ rl' = IF chunk = 0 THEN "read" ELSE "write"
  /\ UNCHANGED <<chunk, bufVars, ackVars, terminalVars, clientVars, smLock, conn>>

(* handleEOF and handleError. *)
PtyEnds(event) ==
  /\ rl = "read" /\ smLock = "free"
  /\ eofPos' = total
  /\ terminalEvent' = event
  /\ Signal
  /\ rl' = "done"
  /\ UNCHANGED <<chunk, bufVars, ackVars, terminalEventSent, terminalEventAcked,
                 clientVars, smLock, conn>>

-----------------------------------------------------------------------------
(* The sender loop: one call of prepareNextPacket per step.  The packet is    *)
(* handed to the dataSender captured under the lock, the connection the       *)
(* client came on, so it leaves in this step.                                 *)

(* Fault: what is already on its way is not counted. *)
AvailableToSend_IgnoresSent == EffectiveWindow(rwndSize)
AvailableToSend == EffectiveWindow(rwndSize) - sentNotAcked

PacketSize ==
  Lesser(Lesser(AvailableToSend, MaxPacketSize), count - sentNotAcked)

DataReady     == connected /\ count > 0 /\ PacketSize > 0
(* Fault: whether the stream has ended is not looked at. *)
TerminalReady_AnyTime == connected /\ count = 0 /\ ~terminalEventSent
TerminalReady == connected /\ count = 0 /\ terminalEvent # "none" /\ ~terminalEventSent
SenderActs    == sender = "run" /\ smLock = "free"

SenderExits ==
  /\ SenderActs /\ terminalEventAcked
  /\ sender' = "done"
  /\ UNCHANGED <<readLoopVars, bufVars, ackVars, terminalVars, clientVars, smLock, conn>>

SenderWaits ==
  /\ SenderActs /\ ~terminalEventAcked
  /\ ~DataReady /\ ~TerminalReady
  /\ sender' = "wait"
  /\ UNCHANGED <<readLoopVars, bufVars, ackVars, terminalVars, clientVars, smLock, conn>>

SendData ==
  /\ SenderActs /\ ~terminalEventAcked
  /\ DataReady
  /\ LET seq == HeadPos + sentNotAcked
     IN  dataWire' = Carried(dataWire, DataPacket(seq, Positions(seq, PacketSize)), dataSender)
  /\ sentNotAcked' = sentNotAcked + PacketSize
  /\ UNCHANGED <<readLoopVars, bufVars, maxAckedSeq, maxAckedRwnd, terminalVars,
                 clientVars, sender, smLock, conn>>

SendTerminal ==
  /\ SenderActs /\ ~terminalEventAcked
  /\ TerminalReady
  /\ dataWire' = Carried(dataWire, TerminalPacket, dataSender)
  /\ terminalEventSent' = TRUE
  /\ UNCHANGED <<readLoopVars, bufVars, ackVars, terminalEvent, eofPos, terminalEventAcked,
                 clientVars, sender, smLock, conn>>

-----------------------------------------------------------------------------
(* ClientConnected, in the pieces the buffer's lock cuts it into.  conn.seq   *)
(* is what the client has, conn.head the head position read last.             *)

NoConn == [id |-> 0, sender |-> 0, rwnd |-> 0, seq |-> 0, head |-> 0]

(* 101-121: reject a finished stream or a second client, read the head.  The  *)
(* size is read right after it; a client ahead of the stream is refused.      *)
ConnectReadsHead(id, newSender, rwnd, seq) ==
  /\ smLock = "free"
  /\ ~terminalEventAcked /\ ~connected
  /\ seq - HeadPos <= count
  /\ conn' = [id |-> id, sender |-> newSender, rwnd |-> rwnd, seq |-> seq, head |-> HeadPos]
  /\ smLock' = IF seq > HeadPos THEN "consume" ELSE "window"
  /\ UNCHANGED <<readLoopVars, bufVars, ackVars, terminalVars, clientVars, sender>>

ConnectConsumes ==
  /\ smLock = "consume"
  /\ BufConsume(conn.seq - conn.head)
  /\ smLock' = "reread"
  /\ UNCHANGED <<readLoopVars, ackVars, terminalVars, clientVars, sender, conn>>

ConnectRereadsHead ==
  /\ smLock = "reread"
  /\ conn' = [conn EXCEPT !.head = HeadPos]
  /\ smLock' = "window"
  /\ UNCHANGED <<readLoopVars, bufVars, ackVars, terminalVars, clientVars, sender>>

(* 128-145: from here on a full buffer blocks the read loop. *)
ConnectSetsWindow ==
  /\ smLock = "window"
  /\ streamId' = conn.id
  /\ connected' = TRUE /\ dataSender' = conn.sender
  /\ rwndSize' = conn.rwnd
  /\ sentNotAcked' = 0
  /\ BufSetEffectiveWindow(TRUE, EffectiveWindow(conn.rwnd))
  /\ Signal
  /\ smLock' = "free" /\ conn' = NoConn
  /\ UNCHANGED <<readLoopVars, maxAckedSeq, maxAckedRwnd, terminalVars>>

(* What ClientConnected returns. *)
(* Fault: always the position the client asked for. *)
StartSeq_AsAsked == conn.seq
StartSeq == Greater(conn.head, conn.seq)

(* An end of the stream that was not acknowledged is sent again. *)
(* Fault: it counts as sent. *)
SentForGood_NeverResent == terminalEventSent
SentForGood == terminalEventSent /\ terminalEventAcked

ClientDisconnected ==
  /\ smLock = "free" /\ connected
  /\ connected' = FALSE /\ dataSender' = 0
  /\ sentNotAcked' = 0 /\ maxAckedSeq' = 0 /\ maxAckedRwnd' = 0
  /\ terminalEventSent' = SentForGood
  /\ BufSetEffectiveWindow(FALSE, CirBufSize)
  /\ Signal
  /\ UNCHANGED <<readLoopVars, terminalEvent, eofPos, terminalEventAcked, streamId, rwndSize,
                 smLock, conn>>

SetRwndSize(rwnd) ==
  /\ smLock = "free" /\ connected
  /\ rwndSize' = rwnd
  /\ BufSetEffectiveWindow(TRUE, EffectiveWindow(rwnd))
  /\ Signal
  /\ UNCHANGED <<readLoopVars, ackVars, terminalVars, streamId, connected, dataSender, smLock, conn>>

-----------------------------------------------------------------------------
(* RecvAck.                                                                   *)

ForThisStream(ack) == connected /\ ack.id = streamId

(* Fault: an overtaken ack is taken for news. *)
Fresh_Always(ack) == TRUE
Fresh(ack) ==
  \/ ack.seq > maxAckedSeq
  \/ ack.seq = maxAckedSeq /\ ack.rwnd > maxAckedRwnd

RecvFinAck(ack) ==
  /\ smLock = "free" /\ ForThisStream(ack) /\ ack.fin
  /\ terminalEventAcked' = TRUE
  /\ Signal
  /\ UNCHANGED <<readLoopVars, bufVars, ackVars, terminalEvent, eofPos, terminalEventSent,
                 clientVars, smLock, conn>>

(* The wrong stream, or an ack that is not newer than the newest. *)
IgnoreAck(ack) ==
  /\ smLock = "free"
  /\ ~ForThisStream(ack) \/ (~ack.fin /\ ~Fresh(ack))
  /\ UNCHANGED smVars

(* A fresh ack that acknowledges what was not sent only counts as seen. *)
NoteUnusableAck(ack) ==
  /\ smLock = "free" /\ ForThisStream(ack) /\ ~ack.fin /\ Fresh(ack)
  /\ ack.seq < HeadPos \/ ack.seq - HeadPos > sentNotAcked
  /\ maxAckedSeq' = ack.seq /\ maxAckedRwnd' = ack.rwnd
  /\ UNCHANGED <<readLoopVars, bufVars, sentNotAcked, terminalVars, clientVars, sender,
                 smLock, conn>>

(* 216-235; the window follows in AckSetsWindow, the read loop may write in   *)
(* between.                                                                   *)
ApplyAck(ack) ==
  LET acked == ack.seq - HeadPos
  IN  /\ smLock = "free" /\ ForThisStream(ack) /\ ~ack.fin /\ Fresh(ack)
      /\ acked \in 0..sentNotAcked
      /\ maxAckedSeq' = ack.seq /\ maxAckedRwnd' = ack.rwnd
      /\ IF acked > 0 THEN BufConsume(acked) ELSE UNCHANGED bufVars
      /\ sentNotAcked' = sentNotAcked - acked
      /\ rwndSize' = ack.rwnd
      /\ smLock' = IF ack.rwnd > rwndSize \/ acked > 0 THEN "ackSignal" ELSE "ackQuiet"
      /\ UNCHANGED <<readLoopVars, terminalVars, streamId, connected, dataSender, sender, conn>>

AckSetsWindow ==
  /\ smLock \in {"ackSignal", "ackQuiet"}
  /\ BufSetEffectiveWindow(TRUE, EffectiveWindow(rwndSize))
  /\ IF smLock = "ackSignal" THEN Signal ELSE UNCHANGED sender
  /\ smLock' = "free"
  /\ UNCHANGED <<readLoopVars, ackVars, terminalVars, clientVars, conn>>

RecvAck(ack) ==
  RecvFinAck(ack) \/ IgnoreAck(ack) \/ NoteUnusableAck(ack) \/ ApplyAck(ack)

-----------------------------------------------------------------------------
(* After StartJob: connected as stream 1 before the PTY reader is attached.   *)
SmInit(rwnd) ==
  /\ rl = "read" /\ chunk = 0
  /\ total = 0 /\ count = 0
  /\ syncMode = TRUE
  /\ windowSize = Lesser(EffectiveWindow(rwnd), CirBufSize)
  /\ waiterChan = FALSE
  /\ streamId = 1 /\ connected = TRUE /\ dataSender = 1 /\ rwndSize = rwnd
  /\ sentNotAcked = 0 /\ maxAckedSeq = 0 /\ maxAckedRwnd = 0
  /\ terminalEvent = "none" /\ eofPos = -1
  /\ terminalEventSent = FALSE /\ terminalEventAcked = FALSE
  /\ sender = "run"
  /\ smLock = "free"
  /\ conn = NoConn

(* The PTY yields bytes, or ends: where Linux reports the end as EIO, by an   *)
(* error.                                                                     *)
PtyYields == \/ \E n \in 1..MaxPacketSize : ReadPty(n)
             \/ \E event \in {"eof", "error"} : PtyEnds(event)

SmTypeOK ==
  /\ rl \in {"read", "write", "signal", "done"}
  /\ chunk \in Nat
  /\ total \in Nat /\ count \in Nat /\ count <= total
  /\ syncMode \in BOOLEAN /\ waiterChan \in BOOLEAN
  /\ windowSize \in 0..CirBufSize
  /\ streamId \in Nat /\ connected \in BOOLEAN /\ dataSender \in Nat /\ rwndSize \in Nat
  /\ sentNotAcked \in Nat /\ maxAckedSeq \in Nat /\ maxAckedRwnd \in Nat
  /\ terminalEvent \in {"none", "eof", "error"} /\ eofPos \in Nat \cup {-1}
  /\ terminalEventSent \in BOOLEAN /\ terminalEventAcked \in BOOLEAN
  /\ sender \in {"run", "wait", "done"}
  /\ smLock \in {"free", "consume", "reread", "window", "ackSignal", "ackQuiet"}
  /\ conn \in [id : Nat, sender : Nat, rwnd : Nat, seq : Nat, head : Nat]
=============================================================================
