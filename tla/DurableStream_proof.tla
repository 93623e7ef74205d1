------------------------- MODULE DurableStream_proof -------------------------
(* DurableStream, for all sizes, bounds and schedules: its types, the order  *)
(* of the bytes its reader holds, and the wake-ups of its sender loop; then  *)
(* what it promises of the job's output: the ring drops only what the reader *)
(* has; where no superseded loop appends while the file is looked at, the    *)
(* output file implements JobLog; what is sent fits into what the reader has *)
(* room for; and the reader is told of what the ring no longer had.          *)
EXTENDS DurableStream, SequenceTheorems, TLAPS

-----------------------------------------------------------------------------
(* The stream manager on its own.                                            *)

(* What the sender loop may sleep through: a wake-up that is on its way, or  *)
(* nothing to send.                                                          *)
Awake ==
  sender = "wait" =>
    \/ rl = "signal" \/ smLock = "ackSignal"
    \/ ~DataReady /\ ~TerminalReady

SmInv ==
  /\ SmTypeOK
  /\ sentNotAcked <= count /\ (~connected => sentNotAcked = 0)
  /\ smLock = "consume" => conn.seq - conn.head \in 0..count
  /\ smLock \in {"consume", "reread", "window"} => ~connected
  /\ terminalEvent # "none" => eofPos \in Nat
  /\ conn.rwnd = 0
  /\ Awake

USE CwndSizeAssumption, CirBufSizeAssumption, MaxPacketSizeAssumption, MaxStreamAssumption,
    ReadWindowAssumption, ReadSizeAssumption
    DEF Lesser, Greater

LEMMA BufWindow ==
  ASSUME NEW mode \in BOOLEAN, NEW requested \in Nat, count \in Nat,
         BufSetEffectiveWindow(mode, requested)
  PROVE  /\ windowSize' \in 0..CirBufSize /\ syncMode' \in BOOLEAN
         /\ waiterChan' \in BOOLEAN
         /\ count' \in Nat /\ count' <= count
         /\ mode => count' = count
         /\ total' = total
  <1> DEFINE window == Lesser(requested, CirBufSize)
  <1>1. window \in 0..CirBufSize
    OBVIOUS
  <1>2. /\ windowSize' = window /\ syncMode' = mode /\ total' = total
        /\ count' = IF mode THEN count ELSE Lesser(count, window)
    BY Zenon DEF BufSetEffectiveWindow
  <1>3. waiterChan' \in BOOLEAN
    BY Zenon DEF BufSetEffectiveWindow
  <1> HIDE DEF window
  <1> QED BY <1>1, <1>2, <1>3

LEMMA SmReads == ASSUME SmInv, PtyYields PROVE SmInv'
  <1>1. ASSUME NEW n \in 1..MaxPacketSize, ReadPty(n) PROVE SmInv'
    BY <1>1 DEF SmInv, SmTypeOK, Awake, ReadPty, bufVars, ackVars, terminalVars, clientVars,
       DataReady, TerminalReady, PacketSize, AvailableToSend, EffectiveWindow
  <1>2. ASSUME NEW event \in {"eof", "error"}, PtyEnds(event) PROVE SmInv'
    BY <1>2 DEF SmInv, SmTypeOK, Awake, PtyEnds, bufVars, ackVars, clientVars, Signal,
       DataReady, TerminalReady, PacketSize, AvailableToSend, EffectiveWindow
  <1> QED BY <1>1, <1>2 DEF PtyYields

LEMMA SmWrites == ASSUME SmInv, WriteChunk \/ SignalSender PROVE SmInv'
  <1>1. CASE WriteChunk
    BY <1>1 DEF SmInv, SmTypeOK, Awake, WriteChunk, BufWrite, BufAdmitted, ackVars,
       terminalVars, clientVars, DataReady, TerminalReady, PacketSize, AvailableToSend,
       EffectiveWindow
  <1>2. CASE SignalSender
    BY <1>2 DEF SmInv, SmTypeOK, Awake, SignalSender, Signal, bufVars, ackVars, terminalVars,
       clientVars
  <1> QED BY <1>1, <1>2

LEMMA SmSends ==
  ASSUME SmInv, SenderExits \/ SenderWaits \/ SendData \/ SendTerminal PROVE SmInv'
  <1>1. CASE SenderExits \/ SenderWaits
    BY <1>1 DEF SmInv, SmTypeOK, Awake, SenderExits, SenderWaits, SenderActs, readLoopVars, bufVars,
       ackVars, terminalVars, clientVars, DataReady, TerminalReady, PacketSize,
       AvailableToSend, EffectiveWindow
  <1>2. CASE SendData
    BY <1>2 DEF SmInv, SmTypeOK, Awake, SendData, SenderActs, readLoopVars, bufVars,
       terminalVars, clientVars, DataReady, PacketSize, AvailableToSend, EffectiveWindow
  <1>3. CASE SendTerminal
    BY <1>3 DEF SmInv, SmTypeOK, Awake, SendTerminal, SenderActs, readLoopVars, bufVars,
       ackVars, clientVars
  <1> QED BY <1>1, <1>2, <1>3

LEMMA SmConnects ==
  ASSUME SmInv,
         \/ \E id, newSender, seq \in Nat : ConnectReadsHead(id, newSender, 0, seq)
         \/ ConnectConsumes \/ ConnectRereadsHead \/ ConnectSetsWindow
  PROVE  SmInv'
  <1>1. ASSUME NEW id \in Nat, NEW newSender \in Nat, NEW seq \in Nat,
               ConnectReadsHead(id, newSender, 0, seq)
        PROVE  SmInv'
    BY <1>1 DEF SmInv, SmTypeOK, Awake, ConnectReadsHead, HeadPos, readLoopVars, bufVars,
       ackVars, terminalVars, clientVars, DataReady, TerminalReady
  <1>2. CASE ConnectConsumes
    <2>1. /\ count' = count - (conn.seq - conn.head)
          /\ waiterChan' = FALSE /\ smLock = "consume" /\ smLock' = "reread"
          /\ UNCHANGED <<rl, chunk>> /\ UNCHANGED <<total, syncMode, windowSize>>
          /\ UNCHANGED <<sentNotAcked, maxAckedSeq, maxAckedRwnd>>
          /\ UNCHANGED <<terminalEvent, eofPos, terminalEventSent, terminalEventAcked>>
          /\ UNCHANGED <<streamId, connected, dataSender, rwndSize>> /\ UNCHANGED <<sender, conn>>
      BY <1>2, Zenon DEF ConnectConsumes, BufConsume, readLoopVars, ackVars, terminalVars, clientVars
    <2>2. ~connected /\ sentNotAcked = 0 /\ conn.seq - conn.head \in 0..count /\ count \in Nat
      BY <2>1 DEF SmInv, SmTypeOK
    <2>3. count' \in Nat /\ count' <= count
      BY <2>1, <2>2 DEF SmInv, SmTypeOK
    <2>5. count' <= total'
      BY <2>1, <2>3 DEF SmInv, SmTypeOK
    <2>4. SmTypeOK'
      BY <2>1, <2>3, <2>5 DEF SmInv, SmTypeOK
    <2> QED
      BY <2>1, <2>2, <2>3, <2>4 DEF SmInv, Awake, DataReady, TerminalReady
  <1>3. CASE ConnectRereadsHead
    <2>1. total - count \in Nat
      BY DEF SmInv, SmTypeOK
    <2>2. conn \in [id : Nat, sender : Nat, rwnd : Nat, seq : Nat, head : Nat]
      BY DEF SmInv, SmTypeOK
    <2>3. conn' = [conn EXCEPT !.head = total - count]
      BY <1>3 DEF ConnectRereadsHead, HeadPos
    <2>4. /\ conn' \in [id : Nat, sender : Nat, rwnd : Nat, seq : Nat, head : Nat]
          /\ conn'.rwnd = conn.rwnd
      BY <2>1, <2>2, <2>3
    <2> QED
      BY <1>3, <2>4 DEF SmInv, SmTypeOK, Awake, ConnectRereadsHead, readLoopVars, bufVars,
         ackVars, terminalVars, clientVars, DataReady, TerminalReady
  <1>4. CASE ConnectSetsWindow
    BY <1>4 DEF SmInv, SmTypeOK, Awake, ConnectSetsWindow, BufSetEffectiveWindow,
       EffectiveWindow, NoConn, Signal, readLoopVars, terminalVars
  <1> QED BY <1>1, <1>2, <1>3, <1>4

LEMMA SmDisconnects == ASSUME SmInv, ClientDisconnected PROVE SmInv'
  <1>1. BufSetEffectiveWindow(FALSE, CirBufSize)
    BY DEF ClientDisconnected
  <1>2. /\ count' \in Nat /\ count' <= count
        /\ windowSize' \in 0..CirBufSize /\ syncMode' \in BOOLEAN /\ waiterChan' \in BOOLEAN
        /\ total' = total
    BY <1>1, BufWindow DEF SmInv, SmTypeOK
  <1>3. terminalEventSent' \in BOOLEAN
    BY Zenon DEF ClientDisconnected, SentForGood
  <1>4. /\ smLock = "free" /\ connected' = FALSE /\ dataSender' = 0
        /\ sentNotAcked' = 0 /\ maxAckedSeq' = 0 /\ maxAckedRwnd' = 0
        /\ UNCHANGED <<rl, chunk>> /\ UNCHANGED <<terminalEvent, eofPos, terminalEventAcked>>
        /\ UNCHANGED <<streamId, rwndSize>> /\ UNCHANGED <<smLock, conn>>
    BY Zenon DEF ClientDisconnected, readLoopVars
  <1>5. sender' \in {"run", "wait", "done"} /\ sender' # "wait"
    BY DEF SmInv, SmTypeOK, ClientDisconnected, Signal
  <1>6. count' <= total'
    BY <1>2 DEF SmInv, SmTypeOK
  <1>7. dataSender' \in Nat /\ sentNotAcked' \in Nat /\ maxAckedSeq' \in Nat /\ maxAckedRwnd' \in Nat
    BY <1>4
  <1>8. SmTypeOK'
    BY <1>2, <1>3, <1>4, <1>5, <1>6, <1>7 DEF SmInv, SmTypeOK
  <1> QED
    BY <1>2, <1>4, <1>5, <1>8 DEF SmInv, Awake

LEMMA SmResizes == ASSUME SmInv, SetRwndSize(ReadWindow) PROVE SmInv'
  <1>1. BufSetEffectiveWindow(TRUE, EffectiveWindow(ReadWindow))
    BY DEF SetRwndSize
  <1>2. EffectiveWindow(ReadWindow) \in Nat
    BY DEF EffectiveWindow
  <1>3. /\ count' = count /\ total' = total
        /\ windowSize' \in 0..CirBufSize /\ syncMode' \in BOOLEAN /\ waiterChan' \in BOOLEAN
    BY <1>1, <1>2, BufWindow DEF SmInv, SmTypeOK
  <1>4. sender' \in {"run", "wait", "done"} /\ sender' # "wait"
    BY DEF SmInv, SmTypeOK, SetRwndSize, Signal
  <1>5. /\ rwndSize' = ReadWindow
        /\ UNCHANGED <<rl, chunk>> /\ UNCHANGED <<sentNotAcked, maxAckedSeq, maxAckedRwnd>>
        /\ UNCHANGED <<terminalEvent, eofPos, terminalEventSent, terminalEventAcked>>
        /\ UNCHANGED <<streamId, connected, dataSender>> /\ UNCHANGED <<smLock, conn>>
    BY Zenon DEF SetRwndSize, readLoopVars, ackVars, terminalVars
  <1> QED
    BY <1>3, <1>4, <1>5 DEF SmInv, SmTypeOK, Awake

LEMMA SmAcked == ASSUME SmInv, NEW ack \in Acks, RecvAck(ack) PROVE SmInv'
  <1> USE DEF Acks
  <1>1. CASE RecvFinAck(ack)
    BY <1>1 DEF SmInv, SmTypeOK, Awake, RecvFinAck, Signal, readLoopVars, bufVars, ackVars,
       clientVars
  <1>2. CASE IgnoreAck(ack)
    BY <1>2 DEF SmInv, SmTypeOK, Awake, IgnoreAck, smVars, readLoopVars, bufVars, ackVars,
       terminalVars, clientVars, DataReady, TerminalReady, PacketSize, AvailableToSend,
       EffectiveWindow
  <1>3. CASE NoteUnusableAck(ack)
    BY <1>3 DEF SmInv, SmTypeOK, Awake, NoteUnusableAck, readLoopVars, bufVars,
       terminalVars, clientVars, DataReady, TerminalReady, PacketSize, AvailableToSend,
       EffectiveWindow
  <1>4. CASE ApplyAck(ack)
    <2> DEFINE acked == ack.seq - HeadPos
    <2>1. /\ acked \in 0..sentNotAcked
          /\ sentNotAcked' = sentNotAcked - acked
          /\ rwndSize' = ack.rwnd
          /\ smLock' = IF ack.rwnd > rwndSize \/ acked > 0 THEN "ackSignal" ELSE "ackQuiet"
          /\ UNCHANGED <<connected, sender, rl, terminalEvent, terminalEventSent>>
      BY <1>4 DEF ApplyAck, readLoopVars, terminalVars
    <2>2. /\ count' = count - acked /\ total' = total
          /\ UNCHANGED <<syncMode, windowSize>>
      BY <1>4 DEF ApplyAck, BufConsume, bufVars, SmInv, SmTypeOK, HeadPos
    <2>7. waiterChan' \in BOOLEAN
      BY <1>4, Zenon DEF ApplyAck, BufConsume, bufVars, SmInv, SmTypeOK
    <2>3. /\ sentNotAcked \in Nat /\ count \in Nat /\ rwndSize \in Nat /\ sentNotAcked <= count
          /\ ack.rwnd \in Nat /\ ack.seq \in Nat
      BY DEF SmInv, SmTypeOK
    <2>4. /\ sentNotAcked' \in Nat /\ count' \in Nat /\ count' <= count /\ sentNotAcked' <= count'
      BY <2>1, <2>2, <2>3
    <2>5. CASE smLock' = "ackSignal"
      BY <1>4, <2>1, <2>2, <2>3, <2>4, <2>5, <2>7
         DEF SmInv, SmTypeOK, Awake, ApplyAck, readLoopVars, terminalVars
    <2>6. CASE smLock' = "ackQuiet"
      <3>1. acked = 0 /\ ack.rwnd <= rwndSize
        BY <2>1, <2>3, <2>6 DEF HeadPos, SmInv, SmTypeOK
      <3>2. DataReady' => DataReady
        BY <2>1, <2>2, <2>3, <3>1 DEF DataReady, PacketSize, AvailableToSend, EffectiveWindow
      <3>3. TerminalReady' => TerminalReady
        BY <2>1, <2>2, <2>3, <3>1 DEF TerminalReady
      <3>4. smLock = "free"
        BY <1>4 DEF ApplyAck
      <3>5. Awake'
        BY <2>1, <3>2, <3>3, <3>4 DEF SmInv, Awake
      <3> QED
        BY <1>4, <2>1, <2>2, <2>3, <2>4, <2>6, <2>7, <3>5
           DEF SmInv, SmTypeOK, ApplyAck, readLoopVars, terminalVars
    <2> QED BY <2>1, <2>5, <2>6
  <1> QED BY <1>1, <1>2, <1>3, <1>4 DEF RecvAck

LEMMA SmAckWindow == ASSUME SmInv, AckSetsWindow PROVE SmInv'
  BY DEF SmInv, SmTypeOK, Awake, AckSetsWindow, BufSetEffectiveWindow, EffectiveWindow,
     Signal, readLoopVars, ackVars, terminalVars, clientVars, DataReady, TerminalReady,
     PacketSize, AvailableToSend

LEMMA SmStays == ASSUME SmInv, UNCHANGED smVars PROVE SmInv'
  BY DEF SmInv, SmTypeOK, Awake, smVars, readLoopVars, bufVars, ackVars, terminalVars,
     clientVars, DataReady, TerminalReady, PacketSize, AvailableToSend, EffectiveWindow

-----------------------------------------------------------------------------
(* Runs of positions.                                                        *)

LEMMA PositionsType ==
  ASSUME NEW from \in Nat, NEW n \in Nat
  PROVE  Positions(from, n) \in Seq(Nat) /\ Len(Positions(from, n)) = n
  BY DEF Positions

LEMMA PositionsEmpty == ASSUME NEW from \in Int PROVE Positions(from, 0) = <<>>
  BY DEF Positions

LEMMA PositionsJoin ==
  ASSUME NEW from \in Int, NEW m \in Nat, NEW n \in Nat
  PROVE  Positions(from, m) \o Positions(from + m, n) = Positions(from, m + n)
  <1> DEFINE a == Positions(from, m)
  <1> DEFINE b == Positions(from + m, n)
  <1>1. a \in Seq(Int) /\ b \in Seq(Int) /\ Len(a) = m /\ Len(b) = n
    BY DEF Positions
  <1>2. /\ \A i \in 1..m : a[i] = from + i - 1
        /\ \A i \in 1..n : b[i] = from + m + i - 1
    BY DEF Positions
  <1> HIDE DEF a, b
  <1>3. /\ a \o b \in Seq(Int) /\ Len(a \o b) = m + n
        /\ \A i \in 1..(m + n) : (a \o b)[i] = IF i <= m THEN a[i] ELSE b[i - m]
    BY <1>1, ConcatProperties, Zenon
  <1>4. \A i \in 1..(m + n) : (a \o b)[i] = from + i - 1
    BY <1>2, <1>3
  <1>5. /\ Positions(from, m + n) \in Seq(Int) /\ Len(Positions(from, m + n)) = m + n
        /\ \A i \in 1..(m + n) : Positions(from, m + n)[i] = from + i - 1
    BY DEF Positions
  <1>6. a \o b = Positions(from, m + n)
    <2> DEFINE p == Positions(from, m + n)
    <2> DEFINE q == a \o b
    <2>1. p \in Seq(Int) /\ q \in Seq(Int) /\ Len(q) = Len(p)
      BY <1>3, <1>5
    <2>2. \A i \in 1..Len(q) : q[i] = p[i]
      BY <1>3, <1>4, <1>5
    <2> HIDE DEF p, q
    <2> QED BY <2>1, <2>2, SeqEqual, Zenon DEF p, q
  <1> QED BY <1>6 DEF a, b

LEMMA PositionsSub ==
  ASSUME NEW from \in Int, NEW n \in Nat, NEW k \in 0..n
  PROVE  SubSeq(Positions(from, n), k + 1, n) = Positions(from + k, n - k)
  <1> DEFINE a == Positions(from, n)
  <1>1. a \in Seq(Int) /\ Len(a) = n
    BY DEF Positions
  <1> HIDE DEF a
  <1>2. SubSeq(a, k + 1, n) = [i \in 1..(n - k) |-> a[k + i]]
    <2> DEFINE b == SubSeq(a, k + 1, n)
    <2>1. b = [i \in 1..(n - k) |-> a[i + k]]
      BY <1>1
    <2> QED BY <2>1
  <1>3. \A i \in 1..(n - k) : a[k + i] = (from + k) + i - 1
    BY DEF a, Positions
  <1>4. [i \in 1..(n - k) |-> a[k + i]] = [i \in 1..(n - k) |-> (from + k) + i - 1]
    BY <1>3
  <1> QED BY <1>2, <1>4 DEF a, Positions

-----------------------------------------------------------------------------
(* The reader on its own: what it holds, and what arrives for it.            *)

GoodPacket(pk) == pk.data = Positions(pk.seq, Len(pk.data))

ReaderInv ==
  /\ ReaderTypeOK
  /\ rBuffer = Positions(ReadPosition, Len(rBuffer))
  /\ \A o \in rOoo : GoodPacket(o) /\ o.id = rId

LEMMA AckLeaves ==
  ASSUME ackWire \subseteq Acks, ReaderTypeOK,
         NEW seq \in Nat, NEW rwnd \in 0..ReadWindow, NEW fin \in BOOLEAN, NEW cancel \in BOOLEAN,
         ackWire' = Carried(ackWire, AckPacket(seq, rwnd, fin, cancel), rLink)
  PROVE  ackWire' \subseteq Acks
  <1>1. rId \in Nat
    BY DEF ReaderTypeOK
  <1>2. AckPacket(seq, rwnd, fin, cancel) \in Acks
    BY <1>1 DEF AckPacket, Acks
  <1> QED BY <1>2, Zenon DEF Carried

LEMMA WindowLeft ==
  ASSUME NEW buffer \in Seq(Nat) PROVE RwndFor(buffer) \in 0..ReadWindow
  BY DEF RwndFor

LEMMA RdTakes ==
  ASSUME ReaderInv, NEW pk \in Packets, GoodPacket(pk), pk.seq = rNextSeq, TakeData(pk)
  PROVE  /\ rNextSeq' \in Nat /\ rBuffer' \in Seq(Nat) /\ rEof' \in BOOLEAN
         /\ ReadPosition' = ReadPosition
         /\ rBuffer' = Positions(ReadPosition', Len(rBuffer'))
         /\ pk.data = <<>> => rBuffer' = rBuffer
  <1> DEFINE data == pk.data
  <1> DEFINE from == ReadPosition
  <1>1. /\ rBuffer \in Seq(Nat) /\ data \in Seq(Nat) /\ rNextSeq \in Nat
        /\ rEof \in BOOLEAN /\ pk.eof \in BOOLEAN
    BY DEF ReaderInv, ReaderTypeOK, Packets
  <1>2. /\ rBuffer' = rBuffer \o data /\ rNextSeq' = rNextSeq + Len(data)
        /\ rEof' = (rEof \/ pk.eof)
    BY Zenon DEF TakeData
  <1>3. Len(rBuffer) \in Nat /\ Len(data) \in Nat
    BY <1>1
  <1>4. rBuffer' \in Seq(Nat) /\ Len(rBuffer') = Len(rBuffer) + Len(data)
    BY <1>1, <1>2, ConcatProperties, Zenon
  <1>5. from \in Int /\ rNextSeq = from + Len(rBuffer)
    BY <1>1, <1>3 DEF ReadPosition
  <1>6. rBuffer = Positions(from, Len(rBuffer)) /\ data = Positions(from + Len(rBuffer), Len(data))
    BY <1>5 DEF ReaderInv, GoodPacket
  <1>7. rBuffer' = Positions(from, Len(rBuffer'))
    <2> DEFINE m == Len(rBuffer)
    <2> DEFINE n == Len(data)
    <2> HIDE DEF data, from
    <2>1. rBuffer' = Positions(from, m) \o Positions(from + m, n)
      BY <1>2, <1>6, Zenon
    <2>2. m \in Nat /\ n \in Nat /\ Len(rBuffer') = m + n
      BY <1>3, <1>4
    <2> HIDE DEF m, n
    <2>3. Positions(from, m) \o Positions(from + m, n) = Positions(from, m + n)
      BY <1>5, <2>2, PositionsJoin
    <2> QED BY <2>1, <2>2, <2>3, Zenon
  <1>8. ReadPosition' = from
    <2> HIDE DEF data
    <2> QED BY <1>1, <1>2, <1>3, <1>4 DEF ReadPosition
  <1>9. rEof' \in BOOLEAN
    BY <1>1, <1>2, Zenon
  <1>10. rNextSeq' \in Nat
    BY <1>1, <1>2, <1>3
  <1>11. pk.data = <<>> => rBuffer' = rBuffer
    BY <1>1, <1>2, ConcatEmptySeq, Zenon
  <1> QED BY <1>4, <1>7, <1>8, <1>9, <1>10, <1>11

(* A packet arrives.                                                         *)
LEMMA RdReceives ==
  ASSUME ReaderInv, ackWire \subseteq Acks, NEW pk \in Packets, GoodPacket(pk), RecvData(pk)
  PROVE  /\ ReaderInv' /\ ackWire' \subseteq Acks
         /\ rId' = rId /\ rOoo' \subseteq rOoo \cup {pk}
         /\ rBuffer' # rBuffer => pk.id = rId /\ pk.data # <<>>
  <1>1. CASE IgnoreData(pk)
    BY <1>1 DEF IgnoreData, ReaderInv, ReaderTypeOK, ReadPosition, readerVars
  <1>2. CASE ReaderNotFound(pk)
    <2>1. pk.seq \in Nat /\ ReaderTypeOK
      BY DEF Packets, ReaderInv
    <2>2. ackWire' = Carried(ackWire, AckPacket(pk.seq, 0, FALSE, TRUE), rLink) /\ 0 \in 0..ReadWindow
      BY <1>2 DEF ReaderNotFound
    <2>3. ackWire' \subseteq Acks
      BY <2>1, <2>2, AckLeaves
    <2> QED BY <1>2, <2>3 DEF ReaderNotFound, ReaderInv, ReaderTypeOK, ReadPosition, readerVars
  <1>3. CASE RecvError(pk)
    <2>1. ackWire' = Carried(ackWire, AckPacket(rNextSeq, CurrentRwnd, TRUE, FALSE), rLink)
          /\ rLastRwndSent' = CurrentRwnd
      BY <1>3 DEF RecvError, SendAck
    <2>2. CurrentRwnd \in 0..ReadWindow /\ rNextSeq \in Nat /\ ReaderTypeOK
      BY WindowLeft DEF CurrentRwnd, ReaderInv, ReaderTypeOK
    <2>3. ackWire' \subseteq Acks
      BY <2>1, <2>2, AckLeaves
    <2> QED BY <1>3, <2>1, <2>2, <2>3 DEF RecvError, ReaderInv, ReaderTypeOK, ReadPosition
  <1>4. CASE RecvEarly(pk)
    <2>1. pk.id = rId /\ rOoo' \subseteq rOoo \cup {pk}
      BY <1>4 DEF RecvEarly, Accepts
    <2> QED BY <1>4, <2>1 DEF RecvEarly, ReaderInv, ReaderTypeOK, ReadPosition, Packets
  <1>5. CASE RecvInOrder(pk)
    <2>1. pk.id = rId /\ pk.seq = rNextSeq /\ TakeData(pk)
      BY <1>5 DEF RecvInOrder, Accepts, InOrder
    <2>2. /\ rNextSeq' \in Nat /\ rBuffer' \in Seq(Nat) /\ rEof' \in BOOLEAN
          /\ rBuffer' = Positions(ReadPosition', Len(rBuffer'))
          /\ pk.data = <<>> => rBuffer' = rBuffer
      BY <2>1, RdTakes
    <2>3. rDraining' = TRUE /\ UNCHANGED <<rId, rLink, rErr, rClosed>>
          /\ UNCHANGED <<rLastRwndSent, rOoo, ackWire>>
      BY <1>5 DEF RecvInOrder
    <2> QED BY <2>1, <2>2, <2>3 DEF ReaderInv, ReaderTypeOK, GoodPacket
  <1> QED BY <1>1, <1>2, <1>3, <1>4, <1>5 DEF RecvData

(* A packet that waited is taken, or all of them were.                       *)
LEMMA RdDrains ==
  ASSUME ReaderInv, ackWire \subseteq Acks, DrainOne \/ FinishRecv
  PROVE  /\ ReaderInv' /\ ackWire' \subseteq Acks
         /\ rId' = rId /\ rOoo' \subseteq rOoo
         /\ rBuffer' # rBuffer => \E o \in rOoo : o.data # <<>>
  <1>1. CASE DrainOne
    <2>1. PICK o \in rOoo : NextWaiting(o) /\ TakeData(o) /\ rOoo' = rOoo \ {o}
      BY <1>1 DEF DrainOne
    <2>2. GoodPacket(o) /\ o \in Packets /\ o.seq = rNextSeq
      BY <2>1 DEF ReaderInv, ReaderTypeOK, Packets, NextWaiting
    <2>3. /\ rNextSeq' \in Nat /\ rBuffer' \in Seq(Nat) /\ rEof' \in BOOLEAN
          /\ rBuffer' = Positions(ReadPosition', Len(rBuffer'))
          /\ o.data = <<>> => rBuffer' = rBuffer
      BY <2>1, <2>2, RdTakes
    <2>4. UNCHANGED <<rId, rLink, rErr, rClosed>> /\ UNCHANGED <<rLastRwndSent, rDraining, ackWire>>
      BY <1>1 DEF DrainOne
    <2> QED BY <2>1, <2>3, <2>4 DEF ReaderInv, ReaderTypeOK, GoodPacket
  <1>2. CASE FinishRecv
    <2>1. /\ ackWire' = Carried(ackWire, AckPacket(rNextSeq, CurrentRwnd, rEof, FALSE), rLink)
          /\ rLastRwndSent' = CurrentRwnd
      BY <1>2 DEF FinishRecv, SendAck
    <2>2. CurrentRwnd \in 0..ReadWindow /\ rNextSeq \in Nat /\ rEof \in BOOLEAN /\ ReaderTypeOK
      BY WindowLeft DEF CurrentRwnd, ReaderInv, ReaderTypeOK
    <2>3. ackWire' \subseteq Acks
      BY <2>1, <2>2, AckLeaves
    <2> QED BY <1>2, <2>1, <2>2, <2>3 DEF FinishRecv, ReaderInv, ReaderTypeOK, ReadPosition
  <1> QED BY <1>1, <1>2

(* The consumer reads a prefix of the buffer.                                *)
LEMMA RdReads ==
  ASSUME ReaderInv, ackWire \subseteq Acks, Read
  PROVE  /\ ReaderInv' /\ ackWire' \subseteq Acks /\ Readable \in Seq(Nat)
         /\ UNCHANGED <<rId, rOoo>> /\ rBuffer # <<>>
  <1> DEFINE k == Lesser(ReadSize, Len(rBuffer))
  <1> DEFINE n == Len(rBuffer)
  <1>1. /\ rBuffer \in Seq(Nat) /\ rNextSeq \in Nat /\ ReaderTypeOK
        /\ rBuffer = Positions(ReadPosition, n)
    BY DEF ReaderInv, ReaderTypeOK
  <1>2. /\ Readable # <<>> /\ rBuffer' = Unread
        /\ UNCHANGED <<rId, rLink, rNextSeq, rOoo>> /\ UNCHANGED <<rEof, rErr, rClosed, rDraining>>
        /\ \/ SendAck(rNextSeq, RwndFor(Unread), FALSE, FALSE)
           \/ UNCHANGED <<ackWire, rLastRwndSent>>
    BY DEF Read
  <1>3. Readable = SubSeq(rBuffer, 1, k)
    BY <1>2 DEF Readable
  <1>4. n \in Nat /\ k \in 0..n
    BY <1>1
  <1>5. Readable \in Seq(Nat) /\ Len(Readable) = k
    <2>1. \A i \in 1..k : rBuffer[i] \in Nat
      BY <1>1, <1>4
    <2>2. SubSeq(rBuffer, 1, k) \in Seq(Nat) /\ Len(SubSeq(rBuffer, 1, k)) = k
      <3> HIDE DEF k, n
      <3> QED BY <2>1, <1>4, SubSeqProperties
    <2> QED BY <1>3, <2>2
  <1>6. rBuffer # <<>>
    BY <1>1, <1>2, <1>3, <1>4, <1>5
  <1>7. ReadPosition \in Int /\ rNextSeq = ReadPosition + n
    BY <1>1, <1>4 DEF ReadPosition
  <1>8. Unread = Positions(ReadPosition + k, n - k)
    <2>1. Unread = SubSeq(rBuffer, k + 1, n)
      BY <1>5 DEF Unread
    <2> HIDE DEF k, n
    <2> QED BY <1>1, <1>4, <1>7, <2>1, PositionsSub
  <1>9. Unread \in Seq(Nat) /\ Len(Unread) = n - k
    <2>1. \A i \in (k + 1)..n : rBuffer[i] \in Nat
      BY <1>1, <1>4
    <2>2. SubSeq(rBuffer, k + 1, n) \in Seq(Nat)
      <3> HIDE DEF k, n
      <3> QED BY <2>1, <1>4, SubSeqProperties
    <2>3. Unread \in Seq(Nat)
      BY <1>5, <2>2 DEF Unread
    <2>4. Len(Unread) = n - k
      <3> HIDE DEF k, n
      <3> QED BY <1>4, <1>7, <1>8 DEF Positions
    <2> QED BY <2>3, <2>4
  <1>10. ReadPosition' = ReadPosition + k
    <2> HIDE DEF k, n
    <2> QED BY <1>1, <1>2, <1>4, <1>7, <1>9 DEF ReadPosition
  <1>11. rBuffer' = Positions(ReadPosition', Len(rBuffer'))
    BY <1>2, <1>8, <1>9, <1>10
  <1>12. RwndFor(Unread) \in 0..ReadWindow
    BY <1>9, WindowLeft
  <1>13. ackWire' \subseteq Acks /\ rLastRwndSent' \in 0..ReadWindow
    BY <1>1, <1>2, <1>12, AckLeaves DEF SendAck, ReaderTypeOK
  <1>14. ReaderTypeOK'
    BY <1>1, <1>2, <1>9, <1>13 DEF ReaderTypeOK
  <1>15. \A o \in rOoo' : GoodPacket(o) /\ o.id = rId'
    BY <1>2 DEF ReaderInv
  <1> QED BY <1>2, <1>5, <1>6, <1>11, <1>13, <1>14, <1>15 DEF ReaderInv, GoodPacket

LEMMA RdCloses ==
  ASSUME ReaderInv, ackWire \subseteq Acks, Close
  PROVE  /\ ReaderInv' /\ ackWire' \subseteq Acks /\ UNCHANGED <<rId, rOoo, rBuffer>>
  <1>1. /\ ackWire' = Carried(ackWire, AckPacket(rNextSeq, CurrentRwnd, FALSE, TRUE), rLink)
        /\ rLastRwndSent' = CurrentRwnd
    BY DEF Close, SendAck
  <1>2. CurrentRwnd \in 0..ReadWindow /\ rNextSeq \in Nat /\ ReaderTypeOK
    BY WindowLeft DEF CurrentRwnd, ReaderInv, ReaderTypeOK
  <1>3. ackWire' \subseteq Acks
    BY <1>1, <1>2, AckLeaves
  <1> QED BY <1>1, <1>2, <1>3 DEF Close, ReaderInv, ReaderTypeOK, ReadPosition

(* A reader that starts, or is moved while it is empty, holds an empty run.  *)
LEMMA RdStarts ==
  ASSUME NEW id \in Nat, NEW seq \in Nat, link \in Nat, NewReader(id, seq)
  PROVE  ReaderInv'
  <1>1. ReaderTypeOK'
    <2>1. /\ rId' = id /\ rLink' = link /\ rNextSeq' = seq /\ rBuffer' = <<>> /\ rOoo' = {}
          /\ rEof' = FALSE /\ rErr' = FALSE /\ rClosed' = FALSE /\ rDraining' = FALSE
          /\ rLastRwndSent' = ReadWindow
      BY Zenon DEF NewReader
    <2>2. ReadWindow \in 0..ReadWindow /\ <<>> \in Seq(Nat)
      OBVIOUS
    <2> QED BY <2>1, <2>2, Zenon DEF ReaderTypeOK
  <1>2. rBuffer' = <<>> /\ rOoo' = {} /\ ReadPosition' \in Int
    BY DEF NewReader, ReadPosition
  <1>3. rBuffer' = Positions(ReadPosition', Len(rBuffer'))
    <2>1. Len(rBuffer') = 0
      BY <1>2
    <2> HIDE DEF ReadPosition
    <2> QED BY <1>2, <2>1, PositionsEmpty
  <1> QED BY <1>1, <1>2, <1>3 DEF ReaderInv

LEMMA RdMoves ==
  ASSUME ReaderInv, NEW seq \in Nat, UpdateNextSeq(seq), rBuffer = <<>>
  PROVE  ReaderInv' /\ UNCHANGED <<rId, rOoo, rBuffer, ackWire>>
  BY PositionsEmpty DEF UpdateNextSeq, ReaderInv, ReaderTypeOK, ReadPosition

LEMMA RdStays == ASSUME ReaderInv, UNCHANGED readerVars PROVE ReaderInv'
  BY DEF readerVars, ReaderInv, ReaderTypeOK, ReadPosition

-----------------------------------------------------------------------------
(* The whole: what is under way, and what keeps the reader of a stream that  *)
(* is being prepared empty until the answer has moved it.                    *)

WireInv ==
  /\ dataWire \subseteq Packets /\ ackWire \subseteq Acks
  /\ \A pk \in dataWire : GoodPacket(pk) /\ pk.id <= rId

ControlOK ==
  /\ link \in Nat /\ conns \in Nat /\ handlerOpen \in BOOLEAN
  /\ jm \in {"idle", "disconnect", "connect", "connecting"}
  /\ jmArg \in [id : Nat, seq : Nat, on : Nat] /\ attached \in BOOLEAN
  /\ request \in Calls /\ reply \in Calls
  /\ phase \in {"attached", "lost", "stated", "preparing", "starting", "done", "stuck"}

FileOK ==
  /\ wantSeq \in Nat /\ totalGap \in Nat /\ streamDone \in BOOLEAN
  /\ stored \in [out : Seq(Nat), gap : Nat] /\ crashes \in Nat
  /\ out \in Seq(Nat) /\ loopData \in Seq(Nat) /\ lateData \in Seq(Nat)
  /\ loop \in {"none", "read", "append", "done"}

(* No stream is known before its reader was made. *)
Ids == streamId <= rId /\ conn.id <= rId /\ jmArg.id <= rId /\ request.id <= rId

(* A call and its answer are lost with the connection they came on. *)
NoCallDown ==
  /\ link = 0 => request.kind = "none" /\ reply.kind \in {"none", "failed"}
  /\ jm # "idle" => jmArg.on # 0

Corked ==
  phase = "preparing" =>
    /\ rBuffer = <<>> /\ request.kind # "start"
    /\ \A pk \in dataWire \cup rOoo : pk.id = rId => pk.data = <<>>
    /\ streamId = rId => rwndSize = 0 /\ ~attached

IInv == SmInv /\ ReaderInv /\ WireInv /\ ControlOK /\ FileOK /\ Ids /\ NoCallDown /\ Corked

LEMMA IdsAreNumbers ==
  ASSUME SmInv, ReaderInv, ControlOK
  PROVE  /\ streamId \in Nat /\ conn.id \in Nat /\ jmArg.id \in Nat /\ request.id \in Nat
         /\ rId \in Nat
  BY DEF SmInv, SmTypeOK, ReaderInv, ReaderTypeOK, ControlOK, Calls

LEMMA ControlStays ==
  ASSUME ControlOK, UNCHANGED link, UNCHANGED jmVars, UNCHANGED callVars, UNCHANGED phase
  PROVE  ControlOK'
  BY DEF ControlOK, jmVars, callVars

LEMMA FileStays ==
  ASSUME FileOK, UNCHANGED serverVars, UNCHANGED fileVars PROVE FileOK'
  BY DEF FileOK, serverVars, fileVars

-----------------------------------------------------------------------------
(* Packets and acks arrive.                                                  *)

LEMMA DataArrives == ASSUME IInv, ReceiveData PROVE IInv'
  <1>1. PICK pk \in dataWire :
          /\ dataWire' = dataWire \ {pk}
          /\ RecvData(pk)
          /\ UNCHANGED <<link, smVars, jmVars, callVars, serverVars, fileVars>>
    BY DEF ReceiveData
  <1>2. pk \in Packets /\ GoodPacket(pk) /\ ackWire \subseteq Acks
    BY DEF IInv, WireInv
  <1>3. /\ ReaderInv' /\ ackWire' \subseteq Acks
        /\ rId' = rId /\ rOoo' \subseteq rOoo \cup {pk}
        /\ rBuffer' # rBuffer => pk.id = rId /\ pk.data # <<>>
    BY <1>1, <1>2, RdReceives DEF IInv
  <1>4. SmInv'
    BY <1>1, SmStays DEF IInv
  <1>5. ControlOK' /\ FileOK'
    BY <1>1, ControlStays, FileStays DEF IInv, serverVars
  <1>6. WireInv'
    BY <1>1, <1>3 DEF IInv, WireInv, GoodPacket
  <1>7. Ids' /\ NoCallDown'
    BY <1>1, <1>3 DEF IInv, Ids, NoCallDown, smVars, clientVars, jmVars, callVars
  <1>8. Corked'
    BY <1>1, <1>3 DEF IInv, Corked, smVars, clientVars, jmVars, callVars, serverVars
  <1> QED BY <1>3, <1>4, <1>5, <1>6, <1>7, <1>8 DEF IInv

LEMMA DataDrains == ASSUME IInv, ReaderDrains PROVE IInv'
  <1>1. /\ DrainOne \/ FinishRecv
        /\ UNCHANGED <<link, dataWire, smVars, jmVars, callVars, serverVars, fileVars>>
    BY DEF ReaderDrains
  <1>2. /\ ReaderInv' /\ ackWire' \subseteq Acks
        /\ rId' = rId /\ rOoo' \subseteq rOoo
        /\ rBuffer' # rBuffer => \E o \in rOoo : o.data # <<>>
    BY <1>1, RdDrains DEF IInv, WireInv
  <1>3. SmInv'
    BY <1>1, SmStays DEF IInv
  <1>4. ControlOK' /\ FileOK'
    BY <1>1, ControlStays, FileStays DEF IInv, serverVars
  <1>5. WireInv'
    BY <1>1, <1>2 DEF IInv, WireInv, GoodPacket
  <1>6. Ids' /\ NoCallDown'
    BY <1>1, <1>2 DEF IInv, Ids, NoCallDown, smVars, clientVars, jmVars, callVars
  <1>7. Corked'
    BY <1>1, <1>2 DEF IInv, Corked, ReaderInv, smVars, clientVars, jmVars, callVars, serverVars
  <1> QED BY <1>2, <1>3, <1>4, <1>5, <1>6, <1>7 DEF IInv

(* An ack reaches the stream manager only once it is attached.               *)
LEMMA AckArrives == ASSUME IInv, ReceiveAck PROVE IInv'
  <1>1. PICK ack \in ackWire :
          /\ ackWire' = ackWire \ {ack}
          /\ IF attached /\ ack.id = streamId
             THEN RecvAck(ack) /\ attached' = ~(ack.fin \/ ack.cancel)
             ELSE UNCHANGED <<smVars, attached>>
          /\ UNCHANGED <<link, dataWire, readerVars, conns, handlerOpen, jm, jmArg,
                         callVars, serverVars, fileVars>>
    BY DEF ReceiveAck
  <1>2. ack \in Acks
    BY DEF IInv, WireInv
  <1>3. SmInv'
    BY <1>1, <1>2, SmAcked, SmStays DEF IInv
  <1>4. ReaderInv'
    BY <1>1, RdStays DEF IInv
  <1>5. attached' \in BOOLEAN
    BY <1>1, <1>2, Zenon DEF IInv, ControlOK
  <1>6. ControlOK' /\ FileOK'
    BY <1>1, <1>5, FileStays DEF IInv, ControlOK, callVars, serverVars
  <1>7. WireInv'
    BY <1>1 DEF IInv, WireInv, readerVars, GoodPacket
  <1>8. UNCHANGED <<streamId, conn>> /\ (~attached => UNCHANGED <<rwndSize, attached>>)
    BY <1>1, Zenon DEF RecvAck, RecvFinAck, IgnoreAck, NoteUnusableAck, ApplyAck, smVars, clientVars
  <1>9. Ids' /\ NoCallDown'
    BY <1>1, <1>8 DEF IInv, Ids, NoCallDown, readerVars, callVars
  <1>10. Corked'
    BY <1>1, <1>8 DEF IInv, Corked, readerVars, callVars, serverVars
  <1> QED BY <1>3, <1>4, <1>6, <1>7, <1>9, <1>10 DEF IInv

-----------------------------------------------------------------------------
(* Steps of the stream manager.                                              *)

(* What its steps have in common, but for what they send. *)
LEMMA ManagerSteps ==
  ASSUME IInv, SmInv', UNCHANGED <<link, ackWire, readerVars, jmVars, callVars, serverVars, fileVars>>,
         UNCHANGED <<streamId, rwndSize, conn>>,
         \A pk \in dataWire' \ dataWire :
           pk \in Packets /\ GoodPacket(pk) /\ pk.id = streamId /\ (rwndSize = 0 => pk.data = <<>>)
  PROVE  IInv'
  <1>1. ReaderInv' /\ ControlOK' /\ FileOK'
    BY RdStays, ControlStays, FileStays DEF IInv, serverVars
  <1>2. rId \in Nat /\ streamId <= rId
    BY IdsAreNumbers DEF IInv, Ids
  <1>3. WireInv'
    BY <1>2 DEF IInv, WireInv, GoodPacket, readerVars
  <1>4. Ids' /\ NoCallDown'
    BY DEF IInv, Ids, NoCallDown, readerVars, jmVars, callVars
  <1>5. Corked'
    BY DEF IInv, Corked, readerVars, jmVars, callVars, serverVars
  <1> QED BY <1>1, <1>3, <1>4, <1>5 DEF IInv

LEMMA ManagerWorks ==
  ASSUME IInv, ManagerReads \/ ManagerWrites \/ ManagerSends \/ ManagerSetsWindow
  PROVE  IInv'
  <1>1. SmInv'
    BY SmReads, SmWrites, SmSends, SmAckWindow
       DEF IInv, ManagerReads, ManagerWrites, ManagerSends, ManagerSetsWindow
  <1>2. UNCHANGED <<link, dataWire, ackWire, readerVars, jmVars, callVars, serverVars, fileVars>>
    BY DEF ManagerReads, ManagerWrites, ManagerSends, ManagerSetsWindow, linkVars
  <1>3. UNCHANGED <<streamId, rwndSize, conn>>
    BY Zenon DEF ManagerReads, ManagerWrites, ManagerSends, ManagerSetsWindow, PtyYields, ReadPty,
       PtyEnds, WriteChunk, SignalSender, SenderExits, SenderWaits, AckSetsWindow, clientVars
  <1> QED BY <1>1, <1>2, <1>3, ManagerSteps

LEMMA ManagerSendsOne == ASSUME IInv, ManagerTransmits PROVE IInv'
  <1>1. SmInv'
    BY SmSends DEF IInv, ManagerTransmits
  <1>2. UNCHANGED <<link, ackWire, readerVars, jmVars, callVars, serverVars, fileVars>>
    BY DEF ManagerTransmits
  <1>3. UNCHANGED <<streamId, rwndSize, conn>>
    BY Zenon DEF ManagerTransmits, SendData, SendTerminal, clientVars
  <1>4. ASSUME NEW pk \in dataWire' \ dataWire
        PROVE  pk \in Packets /\ GoodPacket(pk) /\ pk.id = streamId /\ (rwndSize = 0 => pk.data = <<>>)
    <2>1. CASE SendData
      <3> DEFINE seq == HeadPos + sentNotAcked
      <3>1. pk = DataPacket(seq, Positions(seq, PacketSize)) /\ DataReady
        BY <1>4, <2>1, Zenon DEF SendData, Carried
      <3>2. seq \in Nat /\ PacketSize \in Nat \ {0} /\ rwndSize # 0 /\ streamId \in Nat
        BY <3>1 DEF IInv, SmInv, SmTypeOK, DataReady, HeadPos, PacketSize, AvailableToSend,
           EffectiveWindow
      <3>3. /\ Positions(seq, PacketSize) \in Seq(Nat)
            /\ Len(Positions(seq, PacketSize)) = PacketSize
        <4> HIDE DEF seq
        <4> QED BY <3>2, PositionsType
      <3> HIDE DEF seq
      <3> QED BY <3>1, <3>2, <3>3 DEF DataPacket, Packets, GoodPacket
    <2>2. CASE SendTerminal
      <3>1. pk = TerminalPacket /\ terminalEvent # "none"
        BY <1>4, <2>2, Zenon DEF SendTerminal, Carried, TerminalReady
      <3>2. eofPos \in Nat /\ streamId \in Nat
        BY <3>1 DEF IInv, SmInv, SmTypeOK
      <3>3. pk \in Packets /\ pk.id = streamId /\ pk.data = <<>>
        BY <3>1, <3>2 DEF TerminalPacket, Packets
      <3>4. pk.seq \in Nat /\ Len(pk.data) = 0
        BY <3>3 DEF Packets
      <3>5. pk.data = Positions(pk.seq, Len(pk.data))
        BY <3>3, <3>4, PositionsEmpty
      <3> QED BY <3>3, <3>5 DEF GoodPacket
    <2> QED BY <2>1, <2>2 DEF ManagerTransmits
  <1> QED BY <1>1, <1>2, <1>3, <1>4, ManagerSteps

-----------------------------------------------------------------------------
(* The output loop and the file.                                             *)

(* Steps that leave the stream manager, the job manager and the calls alone. *)
LEMMA ServerSteps ==
  ASSUME IInv, ReaderInv', FileOK', ackWire' \subseteq Acks,
         UNCHANGED <<link, dataWire, smVars, jmVars, callVars>>, UNCHANGED <<rId, rOoo>>,
         phase' = phase, phase = "preparing" => rBuffer' = rBuffer
  PROVE  IInv'
  <1>1. SmInv'
    BY SmStays DEF IInv
  <1>2. ControlOK'
    BY ControlStays DEF IInv
  <1>3. WireInv'
    BY DEF IInv, WireInv, GoodPacket
  <1>4. Ids' /\ NoCallDown'
    BY DEF IInv, Ids, NoCallDown, smVars, clientVars, jmVars, callVars
  <1>5. Corked'
    BY DEF IInv, Corked, smVars, clientVars, jmVars, callVars
  <1> QED BY <1>1, <1>2, <1>3, <1>4, <1>5 DEF IInv

LEMMA OutputMoves ==
  ASSUME IInv, LoopReads \/ LoopAppends \/ LoopEnds \/ LateAppend \/ FlushCache PROVE IInv'
  <1>1. CASE LoopReads
    <2>1. /\ ReaderInv' /\ ackWire' \subseteq Acks /\ Readable \in Seq(Nat)
          /\ UNCHANGED <<rId, rOoo>> /\ rBuffer # <<>>
      BY <1>1, RdReads DEF LoopReads, IInv, WireInv
    <2>2. FileOK'
      BY <1>1, <2>1 DEF LoopReads, IInv, FileOK, serverVars
    <2>3. phase # "preparing"
      BY <2>1 DEF IInv, Corked
    <2> QED BY <1>1, <2>1, <2>2, <2>3, ServerSteps DEF LoopReads, serverVars
  <1>2. CASE LoopAppends \/ LateAppend \/ FlushCache
    <2>1. /\ UNCHANGED readerVars /\ phase' = phase
          /\ UNCHANGED <<link, dataWire, smVars, jmVars, callVars>> /\ ackWire' = ackWire
      BY <1>2 DEF LoopAppends, LateAppend, FlushCache, linkVars, serverVars
    <2>2. out' \in Seq(Nat) /\ loopData' \in Seq(Nat) /\ lateData' \in Seq(Nat)
      <3>1. out \in Seq(Nat) /\ loopData \in Seq(Nat) /\ lateData \in Seq(Nat)
        BY DEF IInv, FileOK
      <3>2. out \o loopData \in Seq(Nat) /\ out \o lateData \in Seq(Nat) /\ <<>> \in Seq(Nat)
        BY <3>1, ConcatProperties, EmptySeq, Zenon
      <3> QED BY <1>2, <3>1, <3>2, Zenon DEF LoopAppends, LateAppend, FlushCache, fileVars
    <2>3. FileOK'
      <3>1. /\ UNCHANGED <<wantSeq, totalGap, streamDone, crashes>> /\ loop' \in {loop, "read"}
            /\ stored' \in {stored, [out |-> out, gap |-> totalGap]}
        BY <1>2, Zenon DEF LoopAppends, LateAppend, FlushCache, serverVars, fileVars
      <3>2. stored' \in [out : Seq(Nat), gap : Nat]
        BY <3>1 DEF IInv, FileOK
      <3> QED BY <2>2, <3>1, <3>2 DEF IInv, FileOK
    <2>4. ReaderInv' /\ UNCHANGED <<rId, rOoo>> /\ rBuffer' = rBuffer
      BY <2>1, RdStays DEF IInv, readerVars
    <2> QED BY <2>1, <2>3, <2>4, ServerSteps DEF IInv, WireInv
  <1>3. CASE LoopEnds
    <2>1. ReaderInv' /\ ackWire' \subseteq Acks /\ UNCHANGED <<rId, rOoo, rBuffer>>
      BY <1>3, RdCloses DEF LoopEnds, IInv, WireInv
    <2>2. FileOK'
      BY <1>3 DEF LoopEnds, IInv, FileOK
    <2> QED BY <1>3, <2>1, <2>2, ServerSteps DEF LoopEnds
  <1> QED BY <1>1, <1>2, <1>3

-----------------------------------------------------------------------------
(* The connection.                                                           *)

LEMMA ConnectionLost == ASSUME IInv, LinkDrops PROVE IInv'
  <1>1. /\ link' = 0 /\ dataWire' \subseteq dataWire /\ ackWire' \subseteq ackWire
        /\ request' = NoCall
        /\ UNCHANGED <<smVars, readerVars, jmVars, fileVars>>
        /\ UNCHANGED <<wantSeq, totalGap, streamDone, stored, crashes>>
        /\ phase' = IF phase \in {"attached", "done", "stuck"} THEN "lost" ELSE phase
        /\ reply' \in {Call("failed", rId, 0), NoCall}
    BY DEF LinkDrops, LinkLost
  <1>2. SmInv' /\ ReaderInv'
    BY <1>1, SmStays, RdStays DEF IInv
  <1>3. rId \in Nat
    BY IdsAreNumbers DEF IInv
  <1>4. request' \in Calls /\ reply' \in Calls /\ request'.id = 0 /\ request'.kind = "none"
    BY <1>1, <1>3 DEF NoCall, Call, Calls
  <1>5. ControlOK'
    BY <1>1, <1>4 DEF IInv, ControlOK, jmVars
  <1>6. FileOK'
    BY <1>1 DEF IInv, FileOK, fileVars
  <1>7. WireInv'
    BY <1>1 DEF IInv, WireInv, GoodPacket, readerVars
  <1>8. Ids' /\ NoCallDown'
    BY <1>1, <1>3, <1>4 DEF IInv, Ids, NoCallDown, NoCall, Call, readerVars, smVars, clientVars, jmVars
  <1>9. Corked'
    BY <1>1, <1>4 DEF IInv, Corked, readerVars, smVars, clientVars, jmVars
  <1> QED BY <1>2, <1>5, <1>6, <1>7, <1>8, <1>9 DEF IInv

LEMMA ConnectionReturns == ASSUME IInv, LinkReturns PROVE IInv'
  <1>1. /\ link = 0 /\ phase = "lost" /\ link' \in Nat /\ conns' \in Nat
        /\ handlerOpen' \in BOOLEAN
        /\ UNCHANGED <<jm, jmArg, attached>> /\ UNCHANGED callVars /\ UNCHANGED serverVars
        /\ UNCHANGED <<dataWire, ackWire, smVars, readerVars, fileVars>>
    BY ScheduleAssumption DEF LinkReturns, IInv, ControlOK
  <1>2. SmInv' /\ ReaderInv' /\ FileOK'
    BY <1>1, SmStays, RdStays, FileStays DEF IInv
  <1>3. ControlOK'
    BY <1>1 DEF IInv, ControlOK, callVars, serverVars
  <1>4. WireInv' /\ Ids'
    BY <1>1 DEF IInv, WireInv, GoodPacket, Ids, readerVars, smVars, clientVars, callVars
  <1>5. NoCallDown' /\ Corked'
    BY <1>1 DEF IInv, NoCallDown, Corked, callVars, serverVars
  <1> QED BY <1>2, <1>3, <1>4, <1>5 DEF IInv

(* Steps of the job manager that leave the wires, the reader and the server  *)
(* alone.                                                                    *)
LEMMA JobManagerSteps ==
  ASSUME IInv, SmInv', ControlOK', Ids', NoCallDown',
         UNCHANGED <<linkVars, readerVars, serverVars, fileVars>>,
         request' \in {request, NoCall},
         phase = "preparing" /\ streamId' = rId => rwndSize' = 0 /\ ~attached'
  PROVE  IInv'
  <1>1. ReaderInv' /\ FileOK'
    BY RdStays, FileStays DEF IInv
  <1>2. WireInv'
    BY DEF IInv, WireInv, GoodPacket, linkVars, readerVars
  <1>3. Corked'
    BY DEF IInv, Corked, linkVars, readerVars, serverVars, NoCall
  <1> QED BY <1>1, <1>2, <1>3 DEF IInv

LEMMA Disconnects ==
  ASSUME IInv, HandlerReturns \/ PrepareDisconnects PROVE IInv'
  <1>1. /\ ClientDisconnected \/ UNCHANGED smVars
        /\ UNCHANGED <<linkVars, readerVars, conns, jmArg, attached>>
        /\ UNCHANGED <<callVars, serverVars, fileVars>>
        /\ jm' = jm \/ (jm # "idle" /\ jm' = "connect")
        /\ handlerOpen' \in {handlerOpen, FALSE}
    BY DEF HandlerReturns, PrepareDisconnects
  <1>2. SmInv'
    BY <1>1, SmDisconnects, SmStays DEF IInv
  <1>3. UNCHANGED <<streamId, rwndSize, conn>>
    BY <1>1, Zenon DEF ClientDisconnected, smVars, clientVars
  <1>4. ControlOK'
    BY <1>1 DEF IInv, ControlOK, linkVars, callVars, serverVars
  <1>5. Ids'
    BY <1>1, <1>3 DEF IInv, Ids, readerVars, callVars
  <1>6. phase = "preparing" /\ streamId' = rId => rwndSize' = 0 /\ ~attached'
    BY <1>1, <1>3 DEF IInv, Corked
  <1>7. NoCallDown'
    BY <1>1 DEF IInv, NoCallDown, linkVars, callVars
  <1> QED BY <1>1, <1>2, <1>4, <1>5, <1>6, <1>7, JobManagerSteps DEF callVars

-----------------------------------------------------------------------------
(* PrepareConnect and StartStream.                                           *)

LEMMA Answers ==
  ASSUME ControlOK, NEW answer \in Calls, Answer(answer) PROVE reply' \in Calls
  BY DEF Answer, ControlOK

LEMMA PreparesFirst == ASSUME IInv, PrepareBegins \/ PrepareIsRefused PROVE IInv'
  <1>1. /\ UNCHANGED <<linkVars, smVars, readerVars, serverVars, fileVars>>
        /\ UNCHANGED <<conns, handlerOpen, attached>> /\ request' \in {request, NoCall}
    BY DEF PrepareBegins, PrepareIsRefused
  <1>2. /\ request \in Calls /\ request.id \in Nat /\ request.seq \in Nat /\ link \in Nat
        /\ jmArg.id \in Nat /\ rId \in Nat /\ request.id <= rId
        /\ jmArg \in [id : Nat, seq : Nat, on : Nat] /\ reply \in Calls
    BY IdsAreNumbers DEF IInv, ControlOK, Calls, Ids
  <1>3. jmArg' \in {jmArg, NoArg, [id |-> request.id, seq |-> request.seq, on |-> link]}
    BY DEF PrepareBegins, PrepareIsRefused
  <1>4. jmArg' \in [id : Nat, seq : Nat, on : Nat] /\ jmArg'.id <= rId
    BY <1>2, <1>3 DEF NoArg, IInv, Ids
  <1>5. reply' \in Calls
    <2>1. Call("done", request.id, request.seq) \in Calls /\ Call("failed", jmArg.id, 0) \in Calls
      BY <1>2 DEF Call, Calls
    <2> QED BY <1>2, <2>1, Zenon DEF PrepareBegins, PrepareIsRefused, Answer
  <1>6. request' \in Calls /\ request'.id <= rId
    BY <1>1, <1>2 DEF NoCall, Calls
  <1>7. jm' \in {"idle", "disconnect", "connect", "connecting"}
    BY DEF PrepareBegins, PrepareIsRefused, IInv, ControlOK
  <1>8. SmInv'
    BY <1>1, SmStays DEF IInv
  <1>9. ControlOK'
    BY <1>1, <1>4, <1>5, <1>6, <1>7 DEF IInv, ControlOK, linkVars, serverVars
  <1>10. Ids'
    BY <1>1, <1>4, <1>6 DEF IInv, Ids, readerVars, smVars, clientVars
  <1>11. phase = "preparing" /\ streamId' = rId => rwndSize' = 0 /\ ~attached'
    BY <1>1 DEF IInv, Corked, smVars, clientVars
  <1>12. NoCallDown'
    <2>1. CASE PrepareBegins
      BY <2>1 DEF PrepareBegins, IInv, NoCallDown, NoCall, linkVars
    <2>2. CASE PrepareIsRefused
      BY <1>1, <2>2 DEF PrepareIsRefused, Answer, Call, IInv, NoCallDown, NoCall, linkVars
    <2> QED BY <2>1, <2>2
  <1> QED BY <1>1, <1>8, <1>9, <1>10, <1>11, <1>12, JobManagerSteps

LEMMA PreparesOn == ASSUME IInv, PrepareConnects \/ PrepareConnecting PROVE IInv'
  <1>1. /\ UNCHANGED <<linkVars, readerVars, callVars, serverVars, fileVars>>
        /\ UNCHANGED <<conns, handlerOpen, jmArg, attached>>
        /\ jm # "idle" /\ jm' \in {jm, "connecting"}
    BY DEF PrepareConnects, PrepareConnecting, jmVars
  <1>2. jmArg.id \in Nat /\ jmArg.on \in Nat /\ jmArg.seq \in Nat
    BY DEF IInv, ControlOK
  <1>3. SmInv'
    BY <1>2, SmConnects DEF IInv, PrepareConnects, PrepareConnecting
  <1>4. /\ UNCHANGED <<streamId, rwndSize>>
    BY Zenon DEF PrepareConnects, PrepareConnecting, ConnectReadsHead, ConnectConsumes,
       ConnectRereadsHead, clientVars
  <1>5. conn'.id \in {conn.id, jmArg.id}
    <2>1. conn \in [id : Nat, sender : Nat, rwnd : Nat, seq : Nat, head : Nat]
      BY DEF IInv, SmInv, SmTypeOK
    <2> QED BY <2>1 DEF PrepareConnects, PrepareConnecting, ConnectReadsHead, ConnectConsumes,
               ConnectRereadsHead
  <1>6. ControlOK'
    BY <1>1 DEF IInv, ControlOK, linkVars, callVars, serverVars
  <1>7. Ids'
    BY <1>1, <1>4, <1>5 DEF IInv, Ids, readerVars, callVars
  <1>8. phase = "preparing" /\ streamId' = rId => rwndSize' = 0 /\ ~attached'
    BY <1>1, <1>4 DEF IInv, Corked
  <1>9. NoCallDown'
    BY <1>1 DEF IInv, NoCallDown, linkVars, callVars
  <1> QED BY <1>1, <1>3, <1>6, <1>7, <1>8, <1>9, JobManagerSteps DEF callVars

(* The client is connected without a window, and not yet attached.           *)
LEMMA PreparesLast == ASSUME IInv, PrepareEnds PROVE IInv'
  <1>1. /\ UNCHANGED <<linkVars, readerVars, conns, handlerOpen, request, serverVars, fileVars>>
        /\ ConnectSetsWindow /\ attached' = FALSE /\ jm # "idle" /\ jm' = "idle" /\ jmArg' = NoArg
        /\ Answer(Call("prepared", jmArg.id, StartSeq))
    BY DEF PrepareEnds
  <1>2. SmInv'
    BY <1>1, SmConnects DEF IInv
  <1>3. /\ conn.id \in Nat /\ conn.seq \in Nat /\ conn.head \in Nat /\ conn.rwnd = 0
        /\ jmArg.id \in Nat /\ rId \in Nat
    BY IdsAreNumbers DEF IInv, SmInv, SmTypeOK
  <1>4. Call("prepared", jmArg.id, StartSeq) \in Calls
    BY <1>3 DEF Call, Calls, StartSeq
  <1>5. reply' \in Calls
    BY <1>1, <1>4, Answers DEF IInv
  <1>6. streamId' = conn.id /\ rwndSize' = 0 /\ conn' = NoConn
    BY <1>1, <1>3 DEF ConnectSetsWindow
  <1>7. ControlOK'
    BY <1>1, <1>5 DEF IInv, ControlOK, linkVars, serverVars, NoArg
  <1>8. Ids'
    BY <1>1, <1>3, <1>6 DEF IInv, Ids, readerVars, NoArg, NoConn
  <1>9. NoCallDown'
    BY <1>1 DEF IInv, NoCallDown, Answer, linkVars
  <1> QED BY <1>1, <1>2, <1>6, <1>7, <1>8, <1>9, JobManagerSteps

LEMMA StreamStarts == ASSUME IInv, StartStream PROVE IInv'
  <1>1. /\ UNCHANGED <<linkVars, readerVars, conns, handlerOpen, jm, jmArg>>
        /\ UNCHANGED <<serverVars, fileVars>>
        /\ request' = NoCall /\ attached' = TRUE /\ request.kind = "start"
        /\ SetRwndSize(ReadWindow) \/ UNCHANGED smVars
        /\ reply' \in {Call("started", request.id, 0), Call("failed", request.id, 0)}
    BY DEF StartStream
  <1>2. SmInv'
    BY <1>1, SmResizes, SmStays DEF IInv
  <1>3. UNCHANGED <<streamId, conn>>
    BY <1>1, Zenon DEF SetRwndSize, smVars, clientVars
  <1>4. request.id \in Nat /\ rId \in Nat /\ request' \in Calls /\ request'.id = 0
    BY <1>1, IdsAreNumbers DEF IInv, NoCall, Calls
  <1>5. reply' \in Calls
    BY <1>1, <1>4 DEF Call, Calls
  <1>6. ControlOK'
    BY <1>1, <1>4, <1>5 DEF IInv, ControlOK, linkVars, serverVars
  <1>7. Ids'
    BY <1>1, <1>3, <1>4 DEF IInv, Ids, readerVars
  <1>8. phase # "preparing"
    BY <1>1 DEF IInv, Corked
  <1>9. NoCallDown'
    BY <1>1 DEF IInv, NoCallDown, linkVars
  <1> QED BY <1>1, <1>2, <1>6, <1>7, <1>8, <1>9, JobManagerSteps

-----------------------------------------------------------------------------
(* restartStreaming.                                                         *)

LEMMA FileStatted == ASSUME IInv, StatFile PROVE IInv'
  <1>1. /\ UNCHANGED <<linkVars, smVars, readerVars, jmVars, callVars>> /\ UNCHANGED fileVars
        /\ UNCHANGED <<totalGap, streamDone, stored, crashes>>
        /\ wantSeq' = Len(out) + totalGap /\ phase' = "stated"
    BY DEF StatFile, CurrentSeq
  <1>2. SmInv' /\ ReaderInv'
    BY <1>1, SmStays, RdStays DEF IInv
  <1>3. ControlOK'
    BY <1>1 DEF IInv, ControlOK, linkVars, jmVars, callVars
  <1>4. wantSeq' \in Nat
    BY <1>1 DEF IInv, FileOK
  <1>5. FileOK'
    BY <1>1, <1>4 DEF IInv, FileOK, fileVars
  <1>6. WireInv'
    BY <1>1 DEF IInv, WireInv, GoodPacket, linkVars, readerVars
  <1>7. Ids' /\ NoCallDown' /\ Corked'
    BY <1>1 DEF IInv, Ids, NoCallDown, Corked, linkVars, readerVars, smVars, clientVars, jmVars,
       callVars
  <1> QED BY <1>2, <1>3, <1>5, <1>6, <1>7 DEF IInv

(* The new reader's stream is not known anywhere yet.                        *)
LEMMA ReaderCreated == ASSUME IInv, CreateReader PROVE IInv'
  <1>1. /\ NewReader(rId + 1, wantSeq)
        /\ UNCHANGED <<linkVars, smVars, jmVars>>
        /\ UNCHANGED <<wantSeq, totalGap, streamDone, stored, crashes>> /\ out' = out
        /\ phase' = "preparing" /\ loop' = "none" /\ loopData' = <<>>
        /\ lateData' \in {loopData, lateData}
        /\ \/ link = 0 /\ reply' = Call("failed", rId + 1, 0) /\ request' = request
           \/ link # 0 /\ request' = Call("prepare", rId + 1, wantSeq) /\ reply' = reply
    BY DEF CreateReader
  <1>2. /\ rId \in Nat /\ rId + 1 \in Nat /\ wantSeq \in Nat /\ link \in Nat
        /\ request \in Calls /\ reply \in Calls
    BY IdsAreNumbers DEF IInv, ControlOK, FileOK
  <1>3. ReaderInv' /\ rId' = rId + 1 /\ rBuffer' = <<>> /\ rOoo' = {}
    BY <1>1, <1>2, RdStarts DEF NewReader
  <1>4. SmInv'
    BY <1>1, SmStays DEF IInv
  <1>5. request' \in Calls /\ reply' \in Calls
    BY <1>1, <1>2 DEF Call, Calls
  <1>6. ControlOK'
    BY <1>1, <1>5 DEF IInv, ControlOK, linkVars, jmVars
  <1>7. FileOK'
    BY <1>1 DEF IInv, FileOK
  <1>8. WireInv' /\ \A pk \in dataWire' : pk.id # rId'
    <2>1. \A pk \in dataWire : pk.id \in Nat /\ pk.id <= rId
      BY DEF IInv, WireInv, Packets
    <2> QED BY <1>1, <1>2, <1>3, <2>1 DEF IInv, WireInv, GoodPacket, linkVars
  <1>9. Ids' /\ streamId' # rId'
    BY <1>1, <1>2, <1>3, IdsAreNumbers DEF IInv, Ids, Call, smVars, clientVars, jmVars
  <1>10. request'.kind # "start" /\ NoCallDown'
    BY <1>1 DEF IInv, NoCallDown, Call, linkVars, jmVars
  <1>11. Corked'
    BY <1>3, <1>8, <1>9, <1>10 DEF Corked
  <1> QED BY <1>3, <1>4, <1>6, <1>7, <1>8, <1>9, <1>10 , <1>11 DEF IInv

(* Steps of the server that leave the managers alone and do not start to     *)
(* prepare.                                                                  *)
LEMMA RestartSteps ==
  ASSUME IInv, ReaderInv', ackWire' \subseteq Acks,
         UNCHANGED <<link, dataWire, smVars, jmVars>>, rId' = rId,
         UNCHANGED <<wantSeq, stored, crashes, out, loopData>>, lateData' = lateData,
         totalGap' \in Nat, streamDone' \in BOOLEAN, loop' \in {loop, "read"},
         request' = request \/ (request' \in Calls /\ request'.id = rId /\ link # 0),
         reply' \in {reply, NoCall},
         phase' \in {"attached", "lost", "starting", "done", "stuck"}
  PROVE  IInv'
  <1>1. SmInv'
    BY SmStays DEF IInv
  <1>2. reply' \in Calls /\ request' \in Calls
    BY DEF IInv, ControlOK, NoCall, Calls
  <1>3. ControlOK'
    BY <1>2 DEF IInv, ControlOK, jmVars
  <1>4. FileOK'
    BY DEF IInv, FileOK
  <1>5. WireInv'
    BY DEF IInv, WireInv, GoodPacket
  <1>6. Ids' /\ NoCallDown'
    BY IdsAreNumbers DEF IInv, Ids, NoCallDown, NoCall, smVars, clientVars, jmVars
  <1>7. Corked'
    BY DEF Corked
  <1> QED BY <1>1, <1>3, <1>4, <1>5, <1>6, <1>7 DEF IInv

LEMMA CallEnds ==
  ASSUME IInv, Prepared \/ StreamWasDone \/ Started \/ RestartFails \/ CallTimesOut PROVE IInv'
  <1>1. rId \in Nat /\ totalGap \in Nat /\ wantSeq \in Nat /\ reply \in Calls /\ streamDone \in BOOLEAN
    BY IdsAreNumbers DEF IInv, ControlOK, FileOK
  <1>2. CASE Prepared
    <2>1. /\ reply.kind = "prepared" /\ phase = "preparing" /\ reply' = NoCall
          /\ request' = Call("start", rId, 0) /\ phase' = "starting"
          /\ UNCHANGED <<link, dataWire, smVars, jmVars>> /\ UNCHANGED fileVars
          /\ UNCHANGED <<wantSeq, streamDone, stored, crashes>>
          /\ IF reply.seq > wantSeq
             THEN totalGap' = totalGap + (reply.seq - wantSeq) /\ UpdateNextSeq(reply.seq)
             ELSE UNCHANGED <<totalGap, readerVars, ackWire>>
      BY <1>2 DEF Prepared, Gap
    <2>2. rBuffer = <<>> /\ link # 0 /\ reply.seq \in Nat
      BY <1>1, <2>1 DEF IInv, Corked, NoCallDown, Calls
    <2>3. ReaderInv' /\ rId' = rId /\ ackWire' = ackWire
      BY <2>1, <2>2, RdMoves, RdStays DEF IInv, readerVars
    <2>4. totalGap' \in Nat
      BY <1>1, <2>1, <2>2
    <2>5. request' \in Calls /\ request'.id = rId
      BY <1>1, <2>1 DEF Call, Calls
    <2> QED BY <1>1, <2>1, <2>2, <2>3, <2>4, <2>5, RestartSteps DEF fileVars, IInv, WireInv
  <1>3. CASE Started
    <2>1. ReaderInv' /\ rId' = rId /\ ackWire' \subseteq Acks
      BY <1>3, RdStays DEF Started, linkVars, readerVars, IInv, WireInv
    <2> QED BY <1>1, <1>3, <2>1, RestartSteps DEF Started, linkVars
  <1>4. CASE StreamWasDone \/ RestartFails \/ CallTimesOut
    <2>1. ReaderInv' /\ rId' = rId /\ ackWire' \subseteq Acks
      BY <1>4, RdCloses DEF StreamWasDone, RestartFails, CallTimesOut, IInv, WireInv
    <2>2. /\ UNCHANGED <<link, dataWire, smVars, jmVars>> /\ UNCHANGED <<request, fileVars>>
          /\ UNCHANGED <<wantSeq, totalGap, stored, crashes>> /\ reply' \in {reply, NoCall}
          /\ streamDone' \in {streamDone, TRUE} /\ phase' \in {"done", "lost", "stuck"}
      BY <1>4 DEF StreamWasDone, RestartFails, CallTimesOut, callVars
    <2> QED BY <1>1, <2>1, <2>2, RestartSteps DEF fileVars
  <1> QED BY <1>2, <1>3, <1>4

LEMMA ServerStops == ASSUME IInv, ServerCrashes PROVE IInv'
  <1>1. /\ crashes' = crashes + 1 /\ link' = 0 /\ dataWire' = {} /\ ackWire' \subseteq ackWire
        /\ request' = NoCall /\ reply' = NoCall /\ phase' = "lost"
        /\ loop' = "none" /\ loopData' = <<>> /\ lateData' = <<>>
        /\ out' = stored.out /\ totalGap' = stored.gap
        /\ UNCHANGED <<smVars, jmVars>> /\ UNCHANGED <<wantSeq, streamDone, stored>>
    BY DEF ServerCrashes
  <1>2. /\ rClosed' = TRUE /\ rErr' = TRUE /\ rDraining' = FALSE
        /\ rBuffer' = <<>> /\ rOoo' = {}
        /\ UNCHANGED <<rId, rLink, rNextSeq>> /\ UNCHANGED <<rEof, rLastRwndSent>>
    BY DEF ServerCrashes
  <1>3. ReaderInv'
    <2>1. ReaderTypeOK'
      <3>1. <<>> \in Seq(Nat)
        OBVIOUS
      <3> QED BY <1>2, <3>1, Zenon DEF IInv, ReaderInv, ReaderTypeOK
    <2>3. rNextSeq' \in Nat /\ Len(rBuffer') = 0 /\ ReadPosition' \in Int
      BY <1>2, <2>1 DEF ReaderTypeOK, ReadPosition
    <2>2. rBuffer' = Positions(ReadPosition', Len(rBuffer'))
      <3> HIDE DEF ReadPosition
      <3> QED BY <1>2, <2>3, PositionsEmpty
    <2> QED BY <1>2, <2>1, <2>2 DEF ReaderInv
  <1>4. SmInv'
    BY <1>1, SmStays DEF IInv
  <1>5. NoCall \in Calls /\ NoCall.kind = "none" /\ NoCall.id = 0
    BY DEF NoCall, Calls
  <1>6. ControlOK'
    BY <1>1, <1>5 DEF IInv, ControlOK, jmVars
  <1>7. FileOK'
    BY <1>1 DEF IInv, FileOK
  <1>8. WireInv'
    BY <1>1 DEF IInv, WireInv
  <1>9. rId \in Nat
    BY IdsAreNumbers DEF IInv
  <1>10. Ids' /\ NoCallDown' /\ Corked'
    BY <1>1, <1>2, <1>5, <1>9 DEF IInv, Ids, NoCallDown, Corked, smVars, clientVars, jmVars
  <1> QED BY <1>3, <1>4, <1>6, <1>7, <1>8, <1>10 DEF IInv

-----------------------------------------------------------------------------
(* The invariant holds at first and every step keeps it.                     *)

LEMMA InvHolds == Init => IInv
  <1> SUFFICES ASSUME Init PROVE IInv
    OBVIOUS
  <1>1. SmInv
    <2>1. SmInit(ReadWindow)
      BY DEF Init
    <2>2. windowSize \in 0..CirBufSize
      BY <2>1 DEF SmInit, EffectiveWindow
    <2>3. NoConn \in [id : Nat, sender : Nat, rwnd : Nat, seq : Nat, head : Nat]
      BY DEF NoConn
    <2>4. SmTypeOK
      <3>1. /\ rl = "read" /\ chunk = 0 /\ total = 0 /\ count = 0 /\ syncMode = TRUE
            /\ waiterChan = FALSE /\ sender = "run" /\ smLock = "free" /\ conn = NoConn
        BY <2>1, Zenon DEF SmInit
      <3>2. /\ streamId = 1 /\ connected = TRUE /\ dataSender = 1 /\ rwndSize = ReadWindow
            /\ sentNotAcked = 0 /\ maxAckedSeq = 0 /\ maxAckedRwnd = 0
            /\ terminalEvent = "none" /\ eofPos = -1
            /\ terminalEventSent = FALSE /\ terminalEventAcked = FALSE
        BY <2>1, Zenon DEF SmInit
      <3>3. 0 \in Nat /\ 1 \in Nat /\ ReadWindow \in Nat /\ -1 \in Nat \cup {-1} /\ 0 <= 0
        OBVIOUS
      <3> QED BY <2>2, <2>3, <3>1, <3>2, <3>3, Zenon DEF SmTypeOK
    <2> QED BY <2>1, <2>4 DEF SmInv, SmInit, NoConn, Awake
  <1>2. ReaderInv
    <2>1. ReaderInit(1) /\ link = 1
      BY DEF Init, LinkInit
    <2>2. <<>> \in Seq(Nat) /\ ReadWindow \in 0..ReadWindow
      OBVIOUS
    <2>3. ReaderTypeOK
      BY <2>1, <2>2 DEF ReaderInit, ReaderTypeOK
    <2>4. ReadPosition \in Int /\ Len(rBuffer) = 0 /\ rBuffer = <<>> /\ rOoo = {}
      BY <2>1 DEF ReaderInit, ReadPosition
    <2>5. rBuffer = Positions(ReadPosition, Len(rBuffer))
      <3> HIDE DEF ReadPosition
      <3> QED BY <2>4, PositionsEmpty
    <2> QED BY <2>3, <2>4, <2>5 DEF ReaderInv
  <1>3. WireInv
    BY DEF Init, LinkInit, WireInv
  <1>4. ControlOK
    BY ScheduleAssumption DEF Init, LinkInit, ControlOK, NoArg, NoCall, Calls
  <1>5. FileOK
    <2>1. /\ wantSeq = 0 /\ out = <<>> /\ totalGap = 0 /\ streamDone = FALSE
          /\ stored = [out |-> <<>>, gap |-> 0] /\ crashes = 0
          /\ loop = "read" /\ loopData = <<>> /\ lateData = <<>>
      BY Zenon DEF Init
    <2>2. <<>> \in Seq(Nat) /\ [out |-> <<>>, gap |-> 0] \in [out : Seq(Nat), gap : Nat]
      BY EmptySeq
    <2> QED BY <2>1, <2>2 DEF FileOK
  <1>6. Ids /\ NoCallDown /\ Corked
    BY DEF Init, LinkInit, SmInit, ReaderInit, Ids, NoCallDown, Corked, NoArg, NoCall, NoConn
  <1> QED BY <1>1, <1>2, <1>3, <1>4, <1>5, <1>6 DEF IInv

LEMMA InvKept == IInv /\ [Next]_vars => IInv'
  <1> SUFFICES ASSUME IInv, [Next]_vars PROVE IInv'
    OBVIOUS
  <1>1. CASE Wires
    BY <1>1, DataArrives, DataDrains, AckArrives DEF Wires
  <1>2. CASE Manager
    BY <1>2, ManagerWorks, ManagerSendsOne DEF Manager
  <1>3. CASE Output
    BY <1>3, OutputMoves DEF Output
  <1>4. CASE Prepare
    BY <1>4, PreparesFirst, PreparesOn, PreparesLast, Disconnects, StreamStarts DEF Prepare
  <1>5. CASE Restart
    BY <1>5, FileStatted, ReaderCreated, CallEnds DEF Restart
  <1>6. CASE LinkDrops \/ LinkReturns \/ HandlerReturns
    BY <1>6, ConnectionLost, ConnectionReturns, Disconnects
  <1>7. CASE CallTimesOut \/ FlushCache \/ ServerCrashes
    BY <1>7, CallEnds, OutputMoves, ServerStops
  <1>8. CASE UNCHANGED vars
    <2>1. ReaderInv' /\ FileOK' /\ ackWire' \subseteq Acks
      BY <1>8, RdStays, FileStays DEF vars, linkVars, IInv, WireInv
    <2> QED BY <1>8, <2>1, ServerSteps DEF vars, linkVars, readerVars, serverVars
  <1> QED BY <1>1, <1>2, <1>3, <1>4, <1>5, <1>6, <1>7, <1>8 DEF Next

LEMMA InvAlways == Spec => []IInv
  BY InvHolds, InvKept, PTL DEF Spec

(* Every variable keeps its type, whatever the sizes, the bounds and the     *)
(* schedule: TypeOK of DurableStream.                                        *)
THEOREM TypeCorrect == Spec => []TypeOK
  <1>1. IInv => TypeOK
    BY DEF IInv, SmInv, ReaderInv, WireInv, ControlOK, FileOK, TypeOK
  <1> QED BY <1>1, InvAlways, PTL

(* StreamReader's RecvData, Read, UpdateNextSeq and Close, fed by            *)
(* StreamManager over a wire that reorders and loses: the reader holds the   *)
(* stream's bytes in order, none twice and none left out, across every       *)
(* reconnection, crash, timeout and failed restart.                          *)
THEOREM OrderKept == Spec => []BytesInOrder
  <1>1. IInv => BytesInOrder
    BY DEF IInv, ReaderInv, GoodPacket, BytesInOrder
  <1> QED BY <1>1, InvAlways, PTL

(* StreamManager's drainCond: whoever makes data sendable, moves the window  *)
(* or ends the stream wakes the sender loop.                                 *)
THEOREM NoLostSenderWakeup == Spec => []SenderAwake
  <1>1. IInv => SenderAwake
    BY DEF IInv, SmInv, Awake, SenderAwake
  <1> QED BY <1>1, InvAlways, PTL

-----------------------------------------------------------------------------
(* The stream manager on its own: where its numbers stand in the stream.      *)

SmLocal ==
  /\ total + chunk <= MaxStream /\ eofPos <= total
  /\ conn.seq <= total /\ conn.head <= total
  /\ terminalEvent # "none" => rl = "done"
  /\ connected => syncMode

(* The PTY has ended and the ring is empty: nothing more will be sent.        *)
Gone == rl = "done" /\ count = 0

Grows == total' >= total /\ HeadPos' >= HeadPos /\ (Gone => Gone')

(* Steps that leave the buffer's bytes alone. *)
LEMMA SmSame ==
  ASSUME SmInv, SmLocal, UNCHANGED <<total, count, rl, chunk>>, UNCHANGED <<terminalEvent, eofPos>>,
         conn'.seq <= total, conn'.head <= total, connected' => syncMode'
  PROVE  SmLocal' /\ Grows
  <1>1. total \in Nat /\ count \in Nat
    BY DEF SmInv, SmTypeOK
  <1>2. Grows
    BY <1>1 DEF Grows, Gone, HeadPos
  <1> QED BY <1>2 DEF SmLocal

LEMMA SmReadsOn == ASSUME SmInv, SmLocal, PtyYields PROVE SmLocal' /\ Grows
  <1>1. total \in Nat /\ count \in Nat /\ chunk \in Nat
    BY DEF SmInv, SmTypeOK
  <1>2. ASSUME NEW n \in 1..MaxPacketSize, ReadPty(n) PROVE SmLocal' /\ Grows
    BY <1>1, <1>2 DEF SmLocal, Grows, Gone, HeadPos, ReadPty, bufVars, terminalVars, clientVars
  <1>3. ASSUME NEW event \in {"eof", "error"}, PtyEnds(event) PROVE SmLocal' /\ Grows
    BY <1>1, <1>3 DEF SmLocal, Grows, Gone, HeadPos, PtyEnds, bufVars, clientVars
  <1> QED BY <1>2, <1>3 DEF PtyYields

LEMMA SmWritesOn == ASSUME SmInv, SmLocal, WriteChunk \/ SignalSender PROVE SmLocal' /\ Grows
  <1>1. /\ total \in Nat /\ count \in Nat /\ chunk \in Nat /\ windowSize \in Nat /\ count <= total
        /\ eofPos \in Nat \cup {-1} /\ conn.seq \in Nat /\ conn.head \in Nat
    BY DEF SmInv, SmTypeOK
  <1>2. CASE SignalSender
    <2>1. rl = "signal" /\ rl' # "done" /\ UNCHANGED <<total, count, chunk, syncMode>>
          /\ UNCHANGED <<terminalEvent, eofPos, conn, connected>>
      BY <1>2 DEF SignalSender, bufVars, terminalVars, clientVars
    <2> QED BY <1>1, <2>1 DEF SmLocal, Grows, Gone, HeadPos
  <1>3. CASE WriteChunk
    <2>1. PICK k \in 0 .. chunk :
            total' = total + k /\ count' = Lesser(count + k, Greater(count, windowSize))
      <3>1. BufAdmitted(chunk) \in 0 .. chunk
        BY <1>1 DEF BufAdmitted
      <3> QED BY <1>3, <3>1 DEF WriteChunk, BufWrite
    <2>2. /\ chunk' = chunk - k /\ rl = "write" /\ UNCHANGED syncMode
          /\ UNCHANGED <<terminalEvent, eofPos, conn, connected>>
      BY <1>1, <1>3, <2>1 DEF WriteChunk, BufWrite, terminalVars, clientVars
    <2>3. total' >= total /\ total' + chunk' = total + chunk /\ total' - count' >= total - count
      BY <1>1, <2>1, <2>2
    <2>4. total' \in Nat
      BY <1>1, <2>1
    <2>5. eofPos' <= total' /\ conn'.seq <= total' /\ conn'.head <= total'
      BY <1>1, <2>1, <2>2, <2>4 DEF SmLocal
    <2>6. SmLocal'
      BY <2>2, <2>3, <2>5 DEF SmLocal
    <2> QED BY <2>2, <2>3, <2>6 DEF Grows, Gone, HeadPos
  <1> QED BY <1>2, <1>3

LEMMA SmSendsOn ==
  ASSUME SmInv, SmLocal, SenderExits \/ SenderWaits \/ SendData \/ SendTerminal \/ AckSetsWindow
  PROVE  SmLocal' /\ Grows
  <1>1. /\ UNCHANGED <<total, count, rl, chunk>> /\ UNCHANGED <<terminalEvent, eofPos>> /\ UNCHANGED <<conn, connected>>
    BY DEF SenderExits, SenderWaits, SendData, SendTerminal, AckSetsWindow, BufSetEffectiveWindow, readLoopVars,
      bufVars, terminalVars, clientVars
  <1>2. syncMode' = syncMode \/ syncMode' = TRUE
    BY DEF SenderExits, SenderWaits, SendData, SendTerminal, AckSetsWindow, BufSetEffectiveWindow, bufVars
  <1> QED BY <1>1, <1>2, SmSame DEF SmLocal

LEMMA SmConnectsOn ==
  ASSUME SmInv, SmLocal,
         \/ \E id, newSender, seq \in Nat : ConnectReadsHead(id, newSender, 0, seq)
         \/ ConnectConsumes \/ ConnectRereadsHead \/ ConnectSetsWindow
  PROVE  SmLocal' /\ Grows
  <1>1. /\ total \in Nat /\ count \in Nat /\ count <= total
        /\ conn \in [id : Nat, sender : Nat, rwnd : Nat, seq : Nat, head : Nat]
    BY DEF SmInv, SmTypeOK
  <1>2. ASSUME NEW id \in Nat, NEW newSender \in Nat, NEW seq \in Nat, ConnectReadsHead(id, newSender, 0, seq)
        PROVE  SmLocal' /\ Grows
    <2>1. /\ seq - (total - count) <= count
          /\ conn' = [id |-> id, sender |-> newSender, rwnd |-> 0, seq |-> seq, head |-> total - count]
      BY <1>2 DEF ConnectReadsHead, HeadPos
    <2>2. conn'.seq <= total /\ conn'.head <= total
      BY <1>1, <2>1
    <2>3. UNCHANGED <<total, count, rl, chunk>> /\ UNCHANGED <<terminalEvent, eofPos>>
          /\ UNCHANGED <<connected, syncMode>>
      BY <1>2 DEF ConnectReadsHead, readLoopVars, bufVars, terminalVars, clientVars
    <2> QED BY <2>2, <2>3, SmSame DEF SmLocal
  <1>3. CASE ConnectConsumes
    <2>1. PICK n \in 0 .. count : count' = count - n
      BY <1>3 DEF ConnectConsumes, BufConsume, SmInv
    <2>2. /\ UNCHANGED <<total, rl, chunk, syncMode>> /\ UNCHANGED <<terminalEvent, eofPos>>
          /\ UNCHANGED <<conn, connected>>
      BY <1>3 DEF ConnectConsumes, BufConsume, readLoopVars, terminalVars, clientVars
    <2>3. total' - count' >= total - count /\ (count = 0 => count' = 0) /\ total' >= total
      BY <1>1, <2>1, <2>2
    <2>4. SmLocal'
      BY <2>2 DEF SmLocal
    <2> QED BY <2>2, <2>3, <2>4 DEF Grows, Gone, HeadPos
  <1>4. CASE ConnectRereadsHead
    <2>1. conn' = [conn EXCEPT !.head = total - count]
      BY <1>4 DEF ConnectRereadsHead, HeadPos
    <2>2. conn'.seq = conn.seq /\ conn'.head <= total
      BY <1>1, <2>1
    <2>3. UNCHANGED <<total, count, rl, chunk>> /\ UNCHANGED <<terminalEvent, eofPos>>
          /\ UNCHANGED <<connected, syncMode>>
      BY <1>4 DEF ConnectRereadsHead, readLoopVars, bufVars, terminalVars, clientVars
    <2> QED BY <2>2, <2>3, SmSame DEF SmLocal
  <1>5. CASE ConnectSetsWindow
    <2>1. /\ UNCHANGED <<total, count, rl, chunk>> /\ UNCHANGED <<terminalEvent, eofPos>>
          /\ syncMode' = TRUE /\ conn' = NoConn
      BY <1>5 DEF ConnectSetsWindow, BufSetEffectiveWindow, readLoopVars, terminalVars
    <2>2. conn'.seq <= total /\ conn'.head <= total
      BY <1>1, <2>1 DEF NoConn
    <2> QED BY <2>1, <2>2, SmSame
  <1> QED BY <1>2, <1>3, <1>4, <1>5

LEMMA SmResizesOn ==
  ASSUME SmInv, SmLocal, ClientDisconnected \/ SetRwndSize(ReadWindow) \/ UNCHANGED smVars
  PROVE  SmLocal' /\ Grows
  <1>1. total \in Nat /\ count \in Nat /\ windowSize \in Nat /\ EffectiveWindow(ReadWindow) \in Nat
    BY DEF SmInv, SmTypeOK, EffectiveWindow
  <1>2. CASE ClientDisconnected
    <2>1. BufSetEffectiveWindow(FALSE, CirBufSize)
      BY <1>2 DEF ClientDisconnected
    <2>2. count' \in Nat /\ count' <= count /\ total' = total
      BY <1>1, <2>1, BufWindow
    <2>3. UNCHANGED <<rl, chunk>> /\ UNCHANGED <<terminalEvent, eofPos, conn>> /\ connected' = FALSE
      BY <1>2 DEF ClientDisconnected, readLoopVars
    <2>4. SmLocal'
      BY <2>2, <2>3 DEF SmLocal
    <2>5. total' - count' >= total - count /\ (count = 0 => count' = 0) /\ total' >= total
      <3>1. PICK c \in Nat, t \in Nat, d \in Nat : c = count /\ t = total /\ d = count'
        BY <1>1, <2>2
      <3>2. d <= c /\ total' = t
        BY <2>2, <3>1
      <3>3. t - d >= t - c /\ (c = 0 => d = 0) /\ t >= t
        BY <3>2
      <3>4. total' - count' = t - d /\ total - count = t - c
        BY <3>1, <3>2
      <3> QED BY <3>1, <3>2, <3>3, <3>4
    <2> QED BY <2>3, <2>4, <2>5 DEF Grows, Gone, HeadPos
  <1>3. CASE SetRwndSize(ReadWindow)
    <2>1. UNCHANGED <<total, count, rl, chunk>> /\ UNCHANGED <<terminalEvent, eofPos, conn>> /\ syncMode' = TRUE
      BY <1>3 DEF SetRwndSize, BufSetEffectiveWindow, readLoopVars, terminalVars
    <2> QED BY <2>1, SmSame DEF SmLocal
  <1>4. CASE UNCHANGED smVars
    BY <1>4, SmSame DEF SmLocal, smVars, readLoopVars, bufVars, terminalVars, clientVars
  <1> QED BY <1>2, <1>3, <1>4

LEMMA SmAckedOn == ASSUME SmInv, SmLocal, NEW ack \in Acks, RecvAck(ack) PROVE SmLocal' /\ Grows
  <1>1. CASE RecvFinAck(ack) \/ IgnoreAck(ack) \/ NoteUnusableAck(ack)
    <2>1. UNCHANGED <<total, count, rl, chunk>> /\ UNCHANGED <<terminalEvent, eofPos>>
          /\ UNCHANGED <<conn, connected, syncMode>>
      BY <1>1 DEF RecvFinAck, IgnoreAck, NoteUnusableAck, smVars, readLoopVars, bufVars, terminalVars, clientVars
    <2> QED BY <2>1, SmSame DEF SmLocal
  <1>2. CASE ApplyAck(ack)
    <2>1. total \in Nat /\ count \in Nat /\ sentNotAcked \in Nat /\ sentNotAcked <= count
      BY DEF SmInv, SmTypeOK
    <2>2. PICK n \in 0 .. sentNotAcked : n = ack.seq - HeadPos
      BY <1>2 DEF ApplyAck
    <2>3. /\ UNCHANGED <<total, rl, chunk, syncMode>> /\ UNCHANGED <<terminalEvent, eofPos>>
          /\ UNCHANGED <<conn, connected>> /\ count' = count - n
      BY <1>2, <2>1, <2>2 DEF ApplyAck, BufConsume, readLoopVars, bufVars, terminalVars
    <2>4. total' - count' >= total - count /\ (count = 0 => count' = 0) /\ total' >= total
      BY <2>1, <2>2, <2>3
    <2>5. SmLocal'
      BY <2>3 DEF SmLocal
    <2> QED BY <2>3, <2>4, <2>5 DEF Grows, Gone, HeadPos
  <1> QED BY <1>1, <1>2 DEF RecvAck

-----------------------------------------------------------------------------
(* What is under way, and how far it reaches.                                 *)

PacketInv ==
  \A pk \in dataWire \cup rOoo : pk.seq + Len(pk.data) <= total /\ (pk.eof \/ pk.err => Gone)

EndedInv == rEof \/ (rErr /\ ~rClosed) => Gone

AnswerInv == reply.kind = "prepared" => reply.seq <= total

(* An ack of the reader that is open says what the reader has, or nothing new. *)
AckInv ==
  \A ack \in ackWire :
    ack.id <= rId /\ (ack.id = rId /\ ~rClosed => ack.seq <= rNextSeq \/ ack.seq <= HeadPos)

PrepareInv == phase = "preparing" => rNextSeq = wantSeq

DropInv == SmLocal /\ PacketInv /\ EndedInv /\ AnswerInv /\ AckInv /\ PrepareInv

LEMMA Numbers ==
  ASSUME IInv
  PROVE  /\ total \in Nat /\ count \in Nat /\ count <= total /\ HeadPos \in Nat
         /\ rNextSeq \in Nat /\ rId \in Nat /\ wantSeq \in Nat /\ link \in Nat
         /\ dataWire \cup rOoo \subseteq Packets /\ ackWire \subseteq Acks
         /\ reply \in Calls /\ request \in Calls
  BY DEF IInv, SmInv, SmTypeOK, ReaderInv, ReaderTypeOK, WireInv, ControlOK, FileOK, HeadPos, Packets

(* Steps that leave the reader alone. *)
LEMMA ManagerKeeps ==
  ASSUME IInv, DropInv, SmLocal', Grows, IInv', UNCHANGED readerVars, ackWire' \subseteq ackWire,
         phase' = "preparing" => phase = "preparing" /\ wantSeq' = wantSeq,
         \A pk \in dataWire' \ dataWire : pk.seq + Len(pk.data) <= total' /\ (pk.eof \/ pk.err => Gone'),
         reply' = reply \/ (reply'.kind = "prepared" => reply'.seq <= total')
  PROVE  DropInv'
  <1>1. total' >= total /\ HeadPos' >= HeadPos /\ (Gone => Gone')
    BY DEF Grows
  <1>2. PICK t, u, h, k \in Nat : t = total /\ u = total' /\ h = HeadPos /\ k = HeadPos'
    <2>1. total \in Nat /\ total' \in Nat /\ HeadPos \in Nat /\ HeadPos' \in Nat
      <3>1. total' \in Nat /\ count' \in Nat /\ count' <= total'
        BY DEF IInv, SmInv, SmTypeOK
      <3> QED BY <3>1, Numbers DEF HeadPos
    <2> QED BY <2>1
  <1>3. u >= t /\ k >= h
    BY <1>1, <1>2
  <1>4. /\ dataWire \cup rOoo \subseteq Packets /\ ackWire \subseteq Acks /\ reply \in Calls
        /\ UNCHANGED <<rId, rNextSeq, rOoo>> /\ UNCHANGED <<rEof, rErr, rClosed>>
    BY Numbers DEF readerVars
  <1>5. PacketInv'
    <2> SUFFICES ASSUME NEW pk \in dataWire' \cup rOoo'
                 PROVE  pk.seq + Len(pk.data) <= u /\ (pk.eof \/ pk.err => Gone')
      BY <1>2 DEF PacketInv
    <2>1. CASE pk \in dataWire' \ dataWire
      BY <1>2, <2>1
    <2>2. CASE pk \in dataWire \cup rOoo
      <3>1. pk.seq \in Nat /\ Len(pk.data) \in Nat
        BY <1>4, <2>2 DEF Packets
      <3>2. pk.seq + Len(pk.data) <= t /\ (pk.eof \/ pk.err => Gone)
        BY <1>2, <2>2 DEF DropInv, PacketInv
      <3> QED BY <1>1, <1>3, <3>1, <3>2
    <2> QED BY <1>4, <2>1, <2>2
  <1>6. EndedInv' /\ PrepareInv'
    BY <1>1, <1>4 DEF DropInv, EndedInv, PrepareInv
  <1>7. AnswerInv'
    <2>1. reply.kind = "prepared" => reply.seq \in Nat /\ reply.seq <= t
      BY <1>2, <1>4 DEF DropInv, AnswerInv, Calls
    <2> QED BY <1>2, <1>3, <2>1 DEF AnswerInv
  <1>8. AckInv'
    <2> SUFFICES ASSUME NEW ack \in ackWire'
                 PROVE  ack.id <= rId /\ (ack.id = rId /\ ~rClosed => ack.seq <= rNextSeq \/ ack.seq <= k)
      BY <1>2, <1>4 DEF AckInv
    <2>1. /\ ack.seq \in Nat
          /\ ack.id <= rId /\ (ack.id = rId /\ ~rClosed => ack.seq <= rNextSeq \/ ack.seq <= h)
      BY <1>2, <1>4 DEF DropInv, AckInv, Acks
    <2>2. ack.seq <= h => ack.seq <= k
      BY <1>3, <2>1
    <2> QED BY <2>1, <2>2
  <1> QED BY <1>5, <1>6, <1>7, <1>8 DEF DropInv

(* Steps of the reader, and of the server that uses it. *)
LEMMA ReaderKeeps ==
  ASSUME IInv, DropInv, UNCHANGED smVars, dataWire' \cup rOoo' \subseteq dataWire \cup rOoo,
         reply' = reply \/ reply'.kind # "prepared",
         rId' = rId, rNextSeq' \in Nat, rNextSeq' >= rNextSeq, rClosed => rClosed',
         \A ack \in ackWire' \ ackWire :
           ack.id = rId /\ (rClosed' \/ ack.seq <= rNextSeq' \/ ack.seq <= HeadPos),
         EndedInv', PrepareInv'
  PROVE  DropInv'
  <1>1. UNCHANGED <<total, count, rl, HeadPos>>
    BY DEF smVars, readLoopVars, bufVars, HeadPos
  <1>2. Gone' = Gone
    BY <1>1 DEF Gone
  <1>3. SmLocal'
    BY DEF DropInv, SmLocal, smVars, readLoopVars, bufVars, terminalVars, clientVars
  <1>4. PacketInv' /\ AnswerInv'
    BY <1>1, <1>2 DEF DropInv, PacketInv, AnswerInv
  <1>5. AckInv'
    <2> SUFFICES ASSUME NEW ack \in ackWire'
                 PROVE  ack.id <= rId /\ (ack.id = rId /\ ~rClosed' => ack.seq <= rNextSeq' \/ ack.seq <= HeadPos)
      BY <1>1 DEF AckInv
    <2>1. CASE ack \in ackWire
      <3>1. /\ ack.seq \in Nat /\ rNextSeq \in Nat
            /\ ack.id <= rId /\ (ack.id = rId /\ ~rClosed => ack.seq <= rNextSeq \/ ack.seq <= HeadPos)
        BY <2>1, Numbers DEF DropInv, AckInv, Acks
      <3>2. ack.seq <= rNextSeq => ack.seq <= rNextSeq'
        BY <3>1
      <3> QED BY <3>1, <3>2
    <2>2. CASE ack \notin ackWire
      <3>1. rId <= rId
        BY Numbers
      <3> QED BY <2>2, <3>1
    <2> QED BY <2>1, <2>2
  <1> QED BY <1>3, <1>4, <1>5 DEF DropInv

(* An ack that a method of the reader has sent. *)
LEMMA NewAcks ==
  ASSUME NEW seq, NEW rwnd, NEW fin, NEW cancel, NEW ack \in ackWire' \ ackWire,
         ackWire' = Carried(ackWire, AckPacket(seq, rwnd, fin, cancel), rLink)
  PROVE  ack.id = rId /\ ack.seq = seq
  BY DEF Carried, AckPacket

LEMMA DataArrivesOn == ASSUME IInv, DropInv, ReceiveData PROVE DropInv'
  <1>1. PICK pk \in dataWire :
          /\ dataWire' = dataWire \ {pk}
          /\ RecvData(pk)
          /\ UNCHANGED <<link, smVars, jmVars, callVars, serverVars, fileVars>>
    BY DEF ReceiveData
  <1>2. /\ pk \in Packets /\ GoodPacket(pk) /\ ReaderInv /\ ackWire \subseteq Acks
        /\ rNextSeq \in Nat /\ pk.seq \in Nat /\ Len(pk.data) \in Nat
        /\ total \in Nat /\ count \in Nat
    BY Numbers DEF IInv, WireInv, Packets
  <1>3. rId' = rId /\ rOoo' \subseteq rOoo \cup {pk}
    BY <1>1, <1>2, RdReceives
  <1>4. /\ pk.seq + Len(pk.data) <= total /\ (pk.eof \/ pk.err => Gone)
        /\ EndedInv /\ PrepareInv
    BY DEF DropInv, PacketInv
  <1>5. /\ phase' = phase /\ wantSeq' = wantSeq /\ reply' = reply
        /\ Gone' = Gone
    BY <1>1 DEF serverVars, callVars, smVars, readLoopVars, bufVars, Gone
  <1>6. /\ rNextSeq' = rNextSeq \/ (pk.id = rId /\ rNextSeq' = rNextSeq + Len(pk.data))
        /\ UNCHANGED rClosed /\ rEof' \in {rEof, rEof \/ pk.eof} /\ (rErr' = rErr \/ pk.err)
    BY <1>1 DEF RecvData, IgnoreData, ReaderNotFound, RecvError, RecvEarly, RecvInOrder, TakeData, readerVars, Accepts
  <1>7. rNextSeq' \in Nat /\ rNextSeq' >= rNextSeq
    BY <1>2, <1>6
  <1>8. EndedInv'
    BY <1>4, <1>5, <1>6 DEF EndedInv
  <1>9. PrepareInv'
    <2>1. ASSUME phase = "preparing"
          PROVE  rNextSeq' = rNextSeq
      <3>1. pk.id = rId => Len(pk.data) = 0
        BY <2>1 DEF IInv, Corked
      <3> QED BY <1>2, <1>6, <3>1
    <2> QED BY <1>4, <1>5, <2>1 DEF PrepareInv
  <1>10. ASSUME NEW ack \in ackWire' \ ackWire
         PROVE  ack.id = rId /\ (rClosed' \/ ack.seq <= rNextSeq' \/ ack.seq <= HeadPos)
    <2>1. CASE ReaderNotFound(pk)
      <3>1. ack.id = rId /\ ack.seq = pk.seq
        <4>1. ackWire' = Carried(ackWire, AckPacket(pk.seq, 0, FALSE, TRUE), rLink)
          BY <2>1 DEF ReaderNotFound
        <4> QED BY <4>1, <1>10 DEF Carried, AckPacket
      <3>2. rClosed \/ Gone
        BY <1>4, <2>1 DEF ReaderNotFound, Ended, EndedInv
      <3>3. Gone => pk.seq <= HeadPos
        BY <1>2, <1>4 DEF Gone, HeadPos
      <3> QED BY <1>6, <3>1, <3>2, <3>3
    <2>2. CASE RecvError(pk)
      <3>1. ack.id = rId /\ ack.seq = rNextSeq /\ rNextSeq' = rNextSeq
        BY <2>2, <1>10 DEF RecvError, SendAck, Carried, AckPacket
      <3> QED BY <1>2, <3>1
    <2>3. CASE IgnoreData(pk) \/ RecvEarly(pk) \/ RecvInOrder(pk)
      BY <2>3, <1>10 DEF IgnoreData, RecvEarly, RecvInOrder
    <2> QED BY <1>1, <2>1, <2>2, <2>3 DEF RecvData
  <1> QED BY <1>1, <1>3, <1>5, <1>6, <1>7, <1>8, <1>9, <1>10, ReaderKeeps

LEMMA DataDrainsOn == ASSUME IInv, DropInv, ReaderDrains PROVE DropInv'
  <1>1. /\ DrainOne \/ FinishRecv
        /\ UNCHANGED <<link, dataWire, smVars, jmVars, callVars, serverVars, fileVars>>
    BY DEF ReaderDrains
  <1>2. /\ phase' = phase /\ wantSeq' = wantSeq /\ reply' = reply /\ Gone' = Gone
        /\ rNextSeq \in Nat /\ EndedInv /\ PrepareInv
    BY <1>1, Numbers DEF serverVars, callVars, smVars, readLoopVars, bufVars, Gone, DropInv
  <1>3. CASE DrainOne
    <2>1. PICK o \in rOoo : NextWaiting(o) /\ TakeData(o) /\ rOoo' = rOoo \ {o}
      BY <1>3 DEF DrainOne
    <2>2. o.id = rId /\ o.eof \in BOOLEAN /\ Len(o.data) \in Nat /\ (o.eof => Gone)
      BY Numbers DEF IInv, ReaderInv, Packets, DropInv, PacketInv
    <2>3. /\ rNextSeq' = rNextSeq + Len(o.data) /\ rEof' = (rEof \/ o.eof)
          /\ UNCHANGED <<rId, rErr, rClosed, ackWire>>
      BY <1>3, <2>1 DEF DrainOne, TakeData
    <2>4. EndedInv'
      BY <1>2, <2>2, <2>3 DEF EndedInv
    <2>5. PrepareInv'
      <3>1. ASSUME phase = "preparing"
            PROVE  rNextSeq' = rNextSeq
        <4>1. Len(o.data) = 0
          BY <2>2, <3>1 DEF IInv, Corked
        <4> QED BY <1>2, <2>3, <4>1
      <3> QED BY <1>2, <3>1 DEF PrepareInv
    <2>6. rNextSeq' \in Nat /\ rNextSeq' >= rNextSeq
      BY <1>2, <2>2, <2>3
    <2> QED BY <1>1, <1>2, <2>1, <2>3, <2>4, <2>5, <2>6, ReaderKeeps
  <1>4. CASE FinishRecv
    <2>1. /\ UNCHANGED <<rId, rNextSeq, rEof, rErr, rClosed>> /\ rOoo' \subseteq rOoo
          /\ ackWire' = Carried(ackWire, AckPacket(rNextSeq, CurrentRwnd, rEof, FALSE), rLink)
      BY <1>4 DEF FinishRecv, SendAck
    <2>2. \A ack \in ackWire' \ ackWire : ack.id = rId /\ ack.seq = rNextSeq
      BY <2>1 DEF Carried, AckPacket
    <2>3. rNextSeq >= rNextSeq /\ rNextSeq <= rNextSeq
      BY <1>2
    <2> QED BY <1>1, <1>2, <2>1, <2>2, <2>3, ReaderKeeps DEF EndedInv, PrepareInv
  <1> QED BY <1>1, <1>3, <1>4

(* Steps of the stream manager. *)
LEMMA ManagerWorksOn ==
  ASSUME IInv, DropInv, ManagerReads \/ ManagerWrites \/ ManagerSends \/ ManagerSetsWindow
  PROVE  DropInv'
  <1>1. IInv' /\ SmInv /\ SmLocal
    BY ManagerWorks DEF IInv, DropInv
  <1>2. SmLocal' /\ Grows
    BY <1>1, SmReadsOn, SmWritesOn, SmSendsOn
       DEF ManagerReads, ManagerWrites, ManagerSends, ManagerSetsWindow
  <1>3. UNCHANGED <<readerVars, dataWire, ackWire, phase, wantSeq, reply>>
    BY DEF ManagerReads, ManagerWrites, ManagerSends, ManagerSetsWindow, linkVars, serverVars, callVars
  <1> QED BY <1>1, <1>2, <1>3, ManagerKeeps

LEMMA ManagerTransmitsOn == ASSUME IInv, DropInv, ManagerTransmits PROVE DropInv'
  <1>1. IInv' /\ SmInv /\ SmLocal
    BY ManagerSendsOne DEF IInv, DropInv
  <1>2. SmLocal' /\ Grows
    BY <1>1, SmSendsOn DEF ManagerTransmits
  <1>3. UNCHANGED <<readerVars, ackWire, phase, wantSeq, reply>>
    BY DEF ManagerTransmits, serverVars, callVars
  <1>4. ASSUME NEW pk \in dataWire' \ dataWire
        PROVE  pk.seq + Len(pk.data) <= total' /\ (pk.eof \/ pk.err => Gone')
    <2>1. CASE SendData
      <3> DEFINE seq == HeadPos + sentNotAcked
      <3>1. pk = DataPacket(seq, Positions(seq, PacketSize)) /\ DataReady /\ total' = total
        BY <1>4, <2>1, Zenon DEF SendData, Carried, bufVars
      <3>2. seq \in Nat /\ PacketSize \in Nat /\ seq + PacketSize <= total
        BY <3>1 DEF IInv, SmInv, SmTypeOK, DataReady, HeadPos, PacketSize, AvailableToSend, EffectiveWindow
      <3>3. Len(Positions(seq, PacketSize)) = PacketSize
        <4> HIDE DEF seq
        <4> QED BY <3>2, PositionsType
      <3> HIDE DEF seq
      <3> QED BY <3>1, <3>2, <3>3 DEF DataPacket
    <2>2. CASE SendTerminal
      <3>1. pk = TerminalPacket /\ terminalEvent # "none" /\ count = 0 /\ total' = total
        BY <1>4, <2>2, Zenon DEF SendTerminal, Carried, TerminalReady, bufVars
      <3>2. eofPos \in Nat /\ eofPos <= total /\ Gone
        BY <1>1, <3>1 DEF SmInv, SmLocal, Gone
      <3>3. pk.seq = eofPos /\ Len(pk.data) = 0
        BY <3>1 DEF TerminalPacket
      <3> QED BY <1>2, <3>1, <3>2, <3>3 DEF Grows
    <2> QED BY <2>1, <2>2 DEF ManagerTransmits
  <1> QED BY <1>1, <1>2, <1>3, <1>4, ManagerKeeps

LEMMA AckArrivesOn == ASSUME IInv, DropInv, ReceiveAck PROVE DropInv'
  <1>1. PICK ack \in ackWire :
          /\ ackWire' = ackWire \ {ack}
          /\ RecvAck(ack) \/ UNCHANGED smVars
          /\ UNCHANGED <<link, dataWire, readerVars, callVars, serverVars, fileVars>>
    BY DEF ReceiveAck
  <1>2. ack \in Acks /\ IInv' /\ SmInv /\ SmLocal
    BY AckArrives DEF IInv, WireInv, DropInv
  <1>3. SmLocal' /\ Grows
    BY <1>1, <1>2, SmAckedOn, SmResizesOn
  <1> QED BY <1>1, <1>2, <1>3, ManagerKeeps DEF callVars, serverVars

(* Steps of the connection, of PrepareConnect and StartStream. *)
LEMMA ConnectionMovesOn ==
  ASSUME IInv, DropInv, LinkDrops \/ LinkReturns \/ HandlerReturns \/ PrepareDisconnects PROVE DropInv'
  <1>1. IInv' /\ SmInv /\ SmLocal
    BY ConnectionLost, ConnectionReturns, Disconnects DEF IInv, DropInv
  <1>2. SmLocal' /\ Grows
    BY <1>1, SmResizesOn DEF LinkDrops, LinkReturns, HandlerReturns, PrepareDisconnects
  <1>3. /\ UNCHANGED <<readerVars, wantSeq>> /\ ackWire' \subseteq ackWire /\ dataWire' \subseteq dataWire
        /\ phase' = "preparing" => phase = "preparing"
        /\ reply' = reply \/ reply'.kind # "prepared"
    BY DEF LinkDrops, LinkLost, LinkReturns, HandlerReturns, PrepareDisconnects, linkVars, callVars,
           serverVars, NoCall, Call
  <1> QED BY <1>1, <1>2, <1>3, ManagerKeeps

LEMMA PreparesOnward ==
  ASSUME IInv, DropInv, PrepareBegins \/ PrepareIsRefused \/ PrepareConnects \/ PrepareConnecting \/ StartStream
  PROVE  DropInv'
  <1>1. IInv' /\ SmInv /\ SmLocal
    BY PreparesFirst, PreparesOn, StreamStarts DEF IInv, DropInv
  <1>2. jmArg.id \in Nat /\ jmArg.on \in Nat /\ jmArg.seq \in Nat
    BY DEF IInv, ControlOK
  <1>3. SmLocal' /\ Grows
    <2>1. CASE PrepareConnects \/ PrepareConnecting
      BY <1>1, <1>2, <2>1, SmConnectsOn DEF PrepareConnects, PrepareConnecting
    <2>2. CASE PrepareBegins \/ PrepareIsRefused \/ StartStream
      BY <1>1, <2>2, SmResizesOn DEF PrepareBegins, PrepareIsRefused, StartStream
    <2> QED BY <2>1, <2>2
  <1>4. UNCHANGED <<readerVars, wantSeq, phase, ackWire, dataWire>>
    BY DEF PrepareBegins, PrepareIsRefused, PrepareConnects, PrepareConnecting, StartStream, linkVars, serverVars
  <1>5. reply' = reply \/ reply'.kind # "prepared"
    BY DEF PrepareBegins, PrepareIsRefused, PrepareConnects, PrepareConnecting, StartStream, callVars,
           Answer, Call
  <1> QED BY <1>1, <1>3, <1>4, <1>5, ManagerKeeps

(* The answer's position is one the stream has reached. *)
LEMMA PreparesLastOn == ASSUME IInv, DropInv, PrepareEnds PROVE DropInv'
  <1>1. IInv' /\ SmInv /\ SmLocal
    BY PreparesLast DEF IInv, DropInv
  <1>2. SmLocal' /\ Grows
    BY <1>1, SmConnectsOn DEF PrepareEnds
  <1>3. UNCHANGED <<readerVars, wantSeq, phase, ackWire, dataWire>>
    BY DEF PrepareEnds, linkVars, serverVars
  <1>4. reply' = reply \/ reply'.seq = StartSeq
    BY DEF PrepareEnds, Answer, Call
  <1>5. StartSeq <= total /\ total' = total
    BY <1>1 DEF SmLocal, StartSeq, PrepareEnds, ConnectSetsWindow, BufSetEffectiveWindow
  <1> QED BY <1>1, <1>2, <1>3, <1>4, <1>5, ManagerKeeps

(* Steps of the server that leave the reader alone. *)
LEMMA FileMovesOn ==
  ASSUME IInv, DropInv, LoopAppends \/ LateAppend \/ FlushCache \/ StatFile \/ Started PROVE DropInv'
  <1>1. IInv' /\ SmInv /\ SmLocal
    BY OutputMoves, FileStatted, CallEnds DEF IInv, DropInv
  <1>2. UNCHANGED <<readerVars, dataWire, ackWire, smVars>>
    BY DEF LoopAppends, LateAppend, FlushCache, StatFile, Started, linkVars
  <1>3. SmLocal' /\ Grows
    BY <1>1, <1>2, SmResizesOn
  <1>4. phase' = "preparing" => phase = "preparing" /\ wantSeq' = wantSeq
    BY DEF LoopAppends, LateAppend, FlushCache, StatFile, Started, serverVars
  <1>5. reply' = reply \/ reply'.kind # "prepared"
    BY DEF LoopAppends, LateAppend, FlushCache, StatFile, Started, callVars, NoCall
  <1> QED BY <1>1, <1>2, <1>3, <1>4, <1>5, ManagerKeeps

(* Steps of the server that use the reader. *)
LEMMA LoopReadsOn == ASSUME IInv, DropInv, LoopReads PROVE DropInv'
  <1>1. /\ Read /\ UNCHANGED <<dataWire, smVars, phase, wantSeq, reply>>
    BY DEF LoopReads, serverVars, callVars
  <1>2. /\ UNCHANGED <<rId, rNextSeq, rEof, rErr, rClosed, rOoo>>
        /\ \A ack \in ackWire' \ ackWire : ack.id = rId /\ ack.seq = rNextSeq
    <2>1. /\ UNCHANGED <<rId, rNextSeq, rEof, rErr, rClosed, rOoo>>
          /\ \/ ackWire' = ackWire
             \/ ackWire' = Carried(ackWire, AckPacket(rNextSeq, RwndFor(Unread), FALSE, FALSE), rLink)
      BY <1>1, Zenon DEF Read, SendAck
    <2> QED BY <2>1 DEF Carried, AckPacket
  <1>3. Gone' = Gone /\ EndedInv /\ PrepareInv
    BY <1>1 DEF DropInv, smVars, readLoopVars, bufVars, Gone
  <1>4. EndedInv' /\ PrepareInv'
    BY <1>1, <1>2, <1>3 DEF EndedInv, PrepareInv
  <1>5. rNextSeq \in Nat /\ rNextSeq >= rNextSeq /\ rNextSeq <= rNextSeq
    BY Numbers
  <1> QED BY <1>1, <1>2, <1>4, <1>5, ReaderKeeps

LEMMA ReaderClosesOn ==
  ASSUME IInv, DropInv, Close, UNCHANGED <<dataWire, smVars, wantSeq>>,
         phase' = "preparing" => phase = "preparing", reply' = reply \/ reply'.kind # "prepared"
  PROVE  DropInv'
  <1>1. /\ UNCHANGED <<rId, rNextSeq, rEof, rOoo>> /\ rClosed' = TRUE
        /\ ackWire' = Carried(ackWire, AckPacket(rNextSeq, CurrentRwnd, FALSE, TRUE), rLink)
    BY Zenon DEF Close, SendAck
  <1>2. \A ack \in ackWire' \ ackWire : ack.id = rId
    BY <1>1 DEF Carried, AckPacket
  <1>3. Gone' = Gone /\ EndedInv /\ PrepareInv
    BY DEF DropInv, smVars, readLoopVars, bufVars, Gone
  <1>4. EndedInv' /\ PrepareInv'
    BY <1>1, <1>3 DEF EndedInv, PrepareInv
  <1>5. rNextSeq \in Nat /\ rNextSeq >= rNextSeq
    BY Numbers
  <1> QED BY <1>1, <1>2, <1>4, <1>5, ReaderKeeps

LEMMA RestartOn ==
  ASSUME IInv, DropInv, LoopEnds \/ StreamWasDone \/ RestartFails \/ CallTimesOut PROVE DropInv'
  <1>1. Close /\ UNCHANGED <<dataWire, smVars, wantSeq>>
    BY DEF LoopEnds, StreamWasDone, RestartFails, CallTimesOut
  <1>2. (phase' = "preparing" => phase = "preparing") /\ (reply' = reply \/ reply'.kind # "prepared")
    BY DEF LoopEnds, StreamWasDone, RestartFails, CallTimesOut, callVars, NoCall
  <1> QED BY <1>1, <1>2, ReaderClosesOn

LEMMA PreparedOn == ASSUME IInv, DropInv, Prepared PROVE DropInv'
  <1>1. /\ phase = "preparing" /\ phase' = "starting" /\ reply' = NoCall
        /\ UNCHANGED <<dataWire, smVars>>
        /\ IF reply.seq > wantSeq THEN UpdateNextSeq(reply.seq) ELSE UNCHANGED <<readerVars, ackWire>>
    BY DEF Prepared
  <1>2. /\ rNextSeq \in Nat /\ reply.seq \in Nat /\ rNextSeq = wantSeq /\ EndedInv
    BY <1>1, Numbers DEF DropInv, PrepareInv, Calls
  <1>3. /\ UNCHANGED <<rId, rEof, rErr, rClosed, rOoo, ackWire>>
        /\ rNextSeq' = rNextSeq \/ (rNextSeq' = reply.seq /\ reply.seq > wantSeq)
    BY <1>1, Zenon DEF UpdateNextSeq, readerVars
  <1>4. rNextSeq' \in Nat /\ rNextSeq' >= rNextSeq
    BY <1>2, <1>3
  <1>5. Gone' = Gone
    BY <1>1 DEF smVars, readLoopVars, bufVars, Gone
  <1>6. EndedInv' /\ PrepareInv'
    BY <1>1, <1>2, <1>3, <1>5 DEF EndedInv, PrepareInv
  <1>7. reply'.kind # "prepared"
    BY <1>1 DEF NoCall
  <1> QED BY <1>1, <1>3, <1>4, <1>6, <1>7, ReaderKeeps

LEMMA ServerStopsOn == ASSUME IInv, DropInv, ServerCrashes PROVE DropInv'
  <1>1. /\ dataWire' = {} /\ ackWire' \subseteq ackWire /\ rOoo' = {} /\ rClosed' = TRUE
        /\ UNCHANGED <<smVars, rId, rNextSeq, rEof>> /\ phase' = "lost" /\ reply' = NoCall
    BY DEF ServerCrashes
  <1>2. Gone' = Gone /\ EndedInv
    BY <1>1 DEF DropInv, smVars, readLoopVars, bufVars, Gone
  <1>3. EndedInv' /\ PrepareInv'
    BY <1>1, <1>2 DEF EndedInv, PrepareInv
  <1>4. rNextSeq \in Nat /\ rNextSeq >= rNextSeq /\ reply'.kind # "prepared"
    BY <1>1, Numbers DEF NoCall
  <1> QED BY <1>1, <1>3, <1>4, ReaderKeeps

(* No ack under way is the new reader's. *)
LEMMA ReaderCreatedOn == ASSUME IInv, DropInv, CreateReader PROVE DropInv'
  <1>1. /\ rId' = rId + 1 /\ rNextSeq' = wantSeq /\ rOoo' = {}
        /\ rEof' = FALSE /\ rErr' = FALSE
        /\ UNCHANGED <<smVars, ackWire, dataWire, wantSeq>>
        /\ reply' = reply \/ reply'.kind # "prepared"
    BY DEF CreateReader, NewReader, Call, linkVars
  <1>2. UNCHANGED <<total, count, rl, HeadPos>>
    BY <1>1 DEF smVars, readLoopVars, bufVars, HeadPos
  <1>3. SmLocal'
    BY <1>1 DEF DropInv, SmLocal, smVars, readLoopVars, bufVars, terminalVars, clientVars
  <1>4. PacketInv' /\ AnswerInv'
    BY <1>1, <1>2 DEF DropInv, PacketInv, AnswerInv, Gone
  <1>5. EndedInv' /\ PrepareInv'
    BY <1>1 DEF EndedInv, PrepareInv
  <1>6. AckInv'
    <2> SUFFICES ASSUME NEW ack \in ackWire PROVE ack.id <= rId + 1 /\ ack.id # rId + 1
      BY <1>1 DEF AckInv
    <2>1. ack.id \in Nat /\ rId \in Nat /\ ack.id <= rId
      BY Numbers DEF DropInv, AckInv, Acks
    <2> QED BY <2>1
  <1> QED BY <1>3, <1>4, <1>5, <1>6 DEF DropInv

-----------------------------------------------------------------------------
LEMMA DropHolds == Init => DropInv
  <1> SUFFICES ASSUME Init PROVE DropInv
    OBVIOUS
  <1>1. SmInit(ReadWindow)
    BY DEF Init
  <1>2. SmLocal
    BY <1>1 DEF SmInit, SmLocal, NoConn
  <1>3. dataWire = {} /\ ackWire = {} /\ rOoo = {} /\ rEof = FALSE /\ rErr = FALSE
        /\ reply.kind # "prepared" /\ phase # "preparing"
    BY DEF Init, LinkInit, ReaderInit, NoCall
  <1> QED BY <1>2, <1>3 DEF DropInv, PacketInv, EndedInv, AnswerInv, AckInv, PrepareInv

LEMMA DropKept == IInv /\ DropInv /\ [Next]_vars => DropInv'
  <1> SUFFICES ASSUME IInv, DropInv, [Next]_vars PROVE DropInv'
    OBVIOUS
  <1>1. CASE Wires
    BY <1>1, DataArrivesOn, DataDrainsOn, AckArrivesOn DEF Wires
  <1>2. CASE Manager
    BY <1>2, ManagerWorksOn, ManagerTransmitsOn DEF Manager
  <1>3. CASE Output
    BY <1>3, LoopReadsOn, FileMovesOn, RestartOn DEF Output
  <1>4. CASE Prepare
    BY <1>4, PreparesOnward, PreparesLastOn, ConnectionMovesOn DEF Prepare
  <1>5. CASE Restart
    BY <1>5, FileMovesOn, ReaderCreatedOn, PreparedOn, RestartOn DEF Restart
  <1>6. CASE LinkDrops \/ LinkReturns \/ HandlerReturns
    BY <1>6, ConnectionMovesOn
  <1>7. CASE CallTimesOut \/ FlushCache \/ ServerCrashes
    BY <1>7, RestartOn, FileMovesOn, ServerStopsOn
  <1>8. CASE UNCHANGED vars
    <2>1. IInv' /\ SmInv /\ SmLocal
      BY <1>8, InvKept DEF IInv, DropInv
    <2>2. UNCHANGED <<smVars, readerVars, dataWire, ackWire, phase, wantSeq, reply>>
      BY <1>8 DEF vars, linkVars, serverVars, callVars
    <2>3. SmLocal' /\ Grows
      BY <2>1, <2>2, SmResizesOn
    <2> QED BY <2>1, <2>2, <2>3, ManagerKeeps
  <1> QED BY <1>1, <1>2, <1>3, <1>4, <1>5, <1>6, <1>7, <1>8 DEF Next

LEMMA DropAlways == Spec => []DropInv
  BY InvAlways, DropHolds, DropKept, PTL DEF Spec

-----------------------------------------------------------------------------
(* The head of the ring moves for a connected client by its acks alone. *)
LEMMA HeadMovesByAck ==
  ASSUME SmInv, SmLocal, connected, connected', HeadPos' # HeadPos,
         \/ PtyYields \/ WriteChunk \/ SignalSender \/ SenderExits \/ SenderWaits \/ SendData \/ SendTerminal
         \/ AckSetsWindow \/ ClientDisconnected \/ SetRwndSize(ReadWindow) \/ UNCHANGED smVars
         \/ \E id, newSender, seq \in Nat : ConnectReadsHead(id, newSender, 0, seq)
         \/ ConnectConsumes \/ ConnectRereadsHead \/ ConnectSetsWindow
  PROVE  FALSE
  <1>1. total \in Nat /\ count \in Nat /\ chunk \in Nat /\ windowSize \in Nat /\ syncMode
    BY DEF SmInv, SmTypeOK, SmLocal
  <1>2. CASE WriteChunk
    <2>1. PICK k \in 0 .. chunk : total' = total + k /\ count' = Lesser(count + k, Greater(count, windowSize))
                                  /\ k = Lesser(chunk, Greater(0, windowSize - count))
      <3>1. BufAdmitted(chunk) \in 0 .. chunk /\ BufAdmitted(chunk) = Lesser(chunk, Greater(0, windowSize - count))
        BY <1>1 DEF BufAdmitted
      <3> QED BY <1>2, <3>1 DEF WriteChunk, BufWrite
    <2>2. count' = count + k
      BY <1>1, <2>1
    <2> QED BY <1>1, <2>1, <2>2 DEF HeadPos
  <1>3. CASE \/ PtyYields \/ SignalSender \/ SenderExits \/ SenderWaits \/ SendData \/ SendTerminal
             \/ UNCHANGED smVars
             \/ \E id, newSender, seq \in Nat : ConnectReadsHead(id, newSender, 0, seq)
    <2>1. UNCHANGED bufVars
      BY <1>3 DEF PtyYields, ReadPty, PtyEnds, SignalSender, SenderExits, SenderWaits, SendData, SendTerminal,
                  smVars, ConnectReadsHead
    <2> QED BY <2>1 DEF bufVars, HeadPos
  <1>4. CASE AckSetsWindow \/ SetRwndSize(ReadWindow) \/ ConnectSetsWindow
    <2>1. UNCHANGED <<total, count>>
      BY <1>4 DEF AckSetsWindow, SetRwndSize, ConnectSetsWindow, BufSetEffectiveWindow
    <2> QED BY <2>1 DEF HeadPos
  <1>5. CASE ConnectConsumes \/ ConnectRereadsHead
    <2>1. smLock \in {"consume", "reread"}
      BY <1>5 DEF ConnectConsumes, ConnectRereadsHead
    <2> QED BY <2>1 DEF SmInv
  <1>6. CASE ClientDisconnected
    BY <1>6 DEF ClientDisconnected
  <1> QED BY <1>2, <1>3, <1>4, <1>5, <1>6

DropStep ==
  /\ connected /\ connected' /\ streamId' = streamId
  /\ streamId = rId /\ ~rClosed
  /\ HeadPos' > HeadPos
  => HeadPos' <= rNextSeq

LEMMA DropsByAck ==
  ASSUME IInv, DropInv, [Next]_vars PROVE DropStep
  <1> SUFFICES ASSUME connected, connected', streamId = rId, ~rClosed, HeadPos' > HeadPos
               PROVE  HeadPos' <= rNextSeq
    BY DEF DropStep
  <1>1. SmInv /\ SmLocal /\ total \in Nat /\ count \in Nat /\ HeadPos \in Nat /\ HeadPos' \in Int
    <2>1. SmInv' /\ SmInv /\ SmLocal
      BY InvKept DEF IInv, DropInv
    <2> QED BY <2>1 DEF SmInv, SmTypeOK, HeadPos
  <1>2. HeadPos' # HeadPos
    BY <1>1
  <1>3. CASE ReceiveAck
    <2>1. PICK ack \in ackWire : (ack.id = streamId /\ RecvAck(ack)) \/ UNCHANGED smVars
      BY <1>3 DEF ReceiveAck
    <2>2. ApplyAck(ack) /\ ack.id = streamId
      <3>1. UNCHANGED bufVars => HeadPos' = HeadPos
        BY DEF bufVars, HeadPos
      <3> QED BY <1>2, <2>1, <3>1 DEF RecvAck, RecvFinAck, IgnoreAck, NoteUnusableAck, smVars
    <2>3. ack.seq \in Nat /\ rNextSeq \in Nat /\ (ack.seq <= rNextSeq \/ ack.seq <= HeadPos)
      BY <2>2, Numbers DEF DropInv, AckInv, Acks
    <2>4. PICK n \in Nat : n = ack.seq - HeadPos /\ (IF n > 0 THEN BufConsume(n) ELSE UNCHANGED bufVars)
      <3>1. ack.seq - HeadPos \in 0 .. sentNotAcked /\ sentNotAcked \in Nat
        BY <1>1, <2>2 DEF ApplyAck, SmInv, SmTypeOK
      <3> QED BY <2>2, <3>1 DEF ApplyAck
    <2>5. total' = total /\ count' = count - n
      BY <1>1, <2>4 DEF BufConsume, bufVars
    <2>6. HeadPos' = ack.seq
      BY <1>1, <2>3, <2>4, <2>5 DEF HeadPos
    <2> QED BY <1>1, <2>3, <2>6
  <1>4. CASE ReceiveData \/ ReaderDrains \/ Output \/ Restart \/ LinkDrops \/ LinkReturns \/ CallTimesOut
             \/ FlushCache \/ ServerCrashes \/ UNCHANGED vars \/ PrepareBegins \/ PrepareIsRefused
    <2>1. UNCHANGED smVars
      BY <1>4, Zenon DEF ReceiveData, ReaderDrains, Output, LoopReads, LoopAppends, LoopEnds, LateAppend, Restart,
         StatFile, CreateReader, Prepared, StreamWasDone, Started, RestartFails, LinkDrops, LinkReturns,
         CallTimesOut, FlushCache, ServerCrashes, vars, PrepareBegins, PrepareIsRefused
    <2> QED BY <1>1, <1>2, <2>1, HeadMovesByAck
  <1>5. CASE Manager
    BY <1>1, <1>2, <1>5, HeadMovesByAck
       DEF Manager, ManagerReads, ManagerWrites, ManagerSends, ManagerTransmits, ManagerSetsWindow
  <1>6. CASE HandlerReturns \/ PrepareDisconnects \/ PrepareEnds \/ StartStream
    BY <1>1, <1>2, <1>6, HeadMovesByAck DEF HandlerReturns, PrepareDisconnects, PrepareEnds, StartStream
  <1>7. CASE PrepareConnects \/ PrepareConnecting
    <2>1. jmArg.id \in Nat /\ jmArg.on \in Nat /\ jmArg.seq \in Nat
      BY DEF IInv, ControlOK
    <2> QED BY <1>1, <1>2, <1>7, <2>1, HeadMovesByAck DEF PrepareConnects, PrepareConnecting
  <1> QED BY <1>3, <1>4, <1>5, <1>6, <1>7 DEF Next, Wires, Prepare

(* RecvAck and ClientConnected: while a client is connected the ring lets go *)
(* only of what that client's reader has.                                    *)
THEOREM DropsCorrect == Spec => DropsOnlyReceived
  <1>1. IInv /\ DropInv /\ [Next]_vars => DropStep
    BY DropsByAck
  <1>2. Spec => [][DropStep]_vars
    BY <1>1, InvAlways, DropAlways, PTL DEF Spec
  <1> QED BY <1>2 DEF DropStep, DropsOnlyReceived

-----------------------------------------------------------------------------
(* The output file, as long as no output loop has read bytes to append while  *)
(* restartStreaming is between its Stat and its new reader.                   *)

StatAlone == phase = "stated" => loop # "append"

(* The position the file and the recorded gap have reached. *)
Due == Len(out) + totalGap

LoopInv ==
  /\ lateData = <<>>
  /\ loop # "append" => loopData = <<>>
  /\ phase \in {"preparing", "starting"} => loop = "none"
  /\ phase = "stated" => loop # "append"

AccountInv ==
  /\ loop \in {"read", "append"} \/ phase \in {"starting", "attached"}
       => Due + Len(loopData) = ReadPosition
  /\ phase \in {"stated", "preparing"} => wantSeq = Due
  /\ loopData = Positions(Due, Len(loopData))

StoredInv ==
  /\ stored.gap <= totalGap /\ Len(stored.out) <= Len(out)
  /\ stored.out = SubSeq(out, 1, Len(stored.out))

LimitInv == rNextSeq <= total /\ Due + Len(loopData) <= total

LogInv == LoopInv /\ AccountInv /\ StoredInv /\ LimitInv

LEMMA Lengths ==
  ASSUME IInv
  PROVE  /\ Len(out) \in Nat /\ totalGap \in Nat /\ Due \in Nat /\ Len(loopData) \in Nat
         /\ rNextSeq \in Nat /\ Len(rBuffer) \in Nat /\ ReadPosition \in Int /\ total \in Nat
         /\ Len(stored.out) \in Nat /\ stored.gap \in Nat
  BY DEF IInv, FileOK, ReaderInv, ReaderTypeOK, SmInv, SmTypeOK, ReadPosition, Due

LEMMA PrefixWhole ==
  ASSUME NEW s \in Seq(Nat) PROVE s = SubSeq(s, 1, Len(s))
  BY SubSeqFull

LEMMA PrefixExtended ==
  ASSUME NEW s \in Seq(Nat), NEW t \in Seq(Nat), NEW n \in 0 .. Len(s)
  PROVE  SubSeq(s \o t, 1, n) = SubSeq(s, 1, n)
  <1>1. CASE n = 0
    BY <1>1, SubSeqEmpty
  <1>2. CASE n # 0
    <2>1. 1 \in 1 .. Len(s) /\ n \in 1 .. Len(s)
      BY <1>2
    <2> QED BY <2>1, SubSeqOfConcat1
  <1> QED BY <1>1, <1>2

LEMMA PositionsPrefix ==
  ASSUME NEW from \in Int, NEW n \in Nat, NEW k \in 0 .. n
  PROVE  SubSeq(Positions(from, n), 1, k) = Positions(from, k)
  <1> DEFINE a == Positions(from, n)
  <1>1. a \in Seq(Int) /\ Len(a) = n
    BY DEF Positions
  <1> HIDE DEF a
  <1>2. SubSeq(a, 1, k) = [i \in 1..k |-> a[i]]
    BY <1>1
  <1>3. \A i \in 1..k : a[i] = from + i - 1
    BY DEF a, Positions
  <1>4. [i \in 1..k |-> a[i]] = [i \in 1..k |-> from + i - 1]
    BY <1>3
  <1> QED BY <1>2, <1>4 DEF a, Positions

(* Steps that neither move the reader nor the file. *)
LEMMA LogStays ==
  ASSUME IInv, LogInv, UNCHANGED <<loop, loopData, lateData, phase, wantSeq, out, totalGap, stored>>,
         ReadPosition' = ReadPosition, rNextSeq' <= total', total' \in Nat, total' >= total
  PROVE  LogInv'
  <1>1. LoopInv' /\ StoredInv'
    BY DEF LogInv, LoopInv, StoredInv
  <1>2. AccountInv'
    BY DEF LogInv, AccountInv, Due
  <1>3. LimitInv'
    <2>1. Due + Len(loopData) \in Nat /\ Due + Len(loopData) <= total /\ total \in Nat
      BY Lengths DEF LogInv, LimitInv
    <2>2. Due + Len(loopData) <= total'
      BY <2>1
    <2> QED BY <2>2 DEF LimitInv, Due
  <1> QED BY <1>1, <1>2, <1>3 DEF LogInv

(* Packets bring what the stream has. *)
LEMMA DataLogged == ASSUME IInv, DropInv, LogInv, ReceiveData \/ ReaderDrains PROVE LogInv'
  <1>1. UNCHANGED <<loop, loopData, lateData, phase, wantSeq, out, totalGap, stored, total>>
    BY DEF ReceiveData, ReaderDrains, serverVars, fileVars, smVars, bufVars
  <1>2. rNextSeq \in Nat /\ total \in Nat /\ rNextSeq <= total /\ ReaderInv
    BY Lengths DEF LogInv, LimitInv, IInv
  <1>3. ASSUME NEW pk \in dataWire \cup rOoo, pk.seq = rNextSeq, TakeData(pk)
        PROVE  ReadPosition' = ReadPosition /\ rNextSeq' <= total
    <2>1. pk \in Packets /\ GoodPacket(pk) /\ pk.seq + Len(pk.data) <= total
      BY Numbers DEF IInv, WireInv, ReaderInv, DropInv, PacketInv
    <2>2. ReadPosition' = ReadPosition
      BY <1>2, <1>3, <2>1, RdTakes
    <2> QED BY <1>3, <2>1, <2>2 DEF TakeData
  <1>4. ReadPosition' = ReadPosition /\ rNextSeq' <= total
    <2>1. CASE ReceiveData
      <3>1. PICK pk \in dataWire : RecvData(pk)
        BY <2>1 DEF ReceiveData
      <3>2. CASE RecvInOrder(pk)
        BY <1>3, <3>2 DEF RecvInOrder, InOrder
      <3>3. CASE IgnoreData(pk) \/ ReaderNotFound(pk) \/ RecvError(pk) \/ RecvEarly(pk)
        <4>1. UNCHANGED <<rNextSeq, rBuffer>>
          BY <3>3 DEF IgnoreData, ReaderNotFound, RecvError, RecvEarly, readerVars
        <4> QED BY <1>2, <4>1 DEF ReadPosition
      <3> QED BY <3>1, <3>2, <3>3 DEF RecvData
    <2>2. CASE ReaderDrains
      <3>1. CASE DrainOne
        BY <1>3, <3>1 DEF DrainOne, NextWaiting
      <3>2. CASE FinishRecv
        BY <1>2, <3>2 DEF FinishRecv, ReadPosition
      <3> QED BY <2>2, <3>1, <3>2 DEF ReaderDrains
    <2> QED BY <2>1, <2>2
  <1> QED BY <1>1, <1>2, <1>4, LogStays

(* Steps of the stream manager and of the job manager. *)
ManagerStep ==
  ReceiveAck \/ Manager \/ Prepare \/ LinkReturns \/ HandlerReturns

LEMMA TotalGrows ==
  ASSUME IInv, DropInv, ManagerStep
  PROVE  /\ total' \in Nat /\ total' >= total
         /\ total' # total => Manager
  <1>1. SmInv /\ SmLocal /\ total \in Nat /\ total' \in Nat
    BY InvKept DEF IInv, SmInv, SmTypeOK, DropInv, ManagerStep, Next, Wires
  <1>2. CASE Manager
    <2>1. Grows
      BY <1>1, <1>2, SmReadsOn, SmWritesOn, SmSendsOn
         DEF Manager, ManagerReads, ManagerWrites, ManagerSends, ManagerTransmits, ManagerSetsWindow
    <2> QED BY <1>1, <1>2, <2>1 DEF Grows
  <1>3. CASE ReceiveAck
    <2>1. total' = total
      BY <1>3, Zenon DEF ReceiveAck, RecvAck, RecvFinAck, IgnoreAck, NoteUnusableAck, ApplyAck, smVars, bufVars,
             BufConsume
    <2> QED BY <1>1, <2>1
  <1>4. CASE Prepare
    <2>1. total' = total
      BY <1>4, Zenon DEF Prepare, PrepareBegins, PrepareDisconnects, PrepareConnects, PrepareIsRefused, PrepareConnecting,
                  PrepareEnds, StartStream, ConnectReadsHead, ConnectConsumes, ConnectRereadsHead,
                  ConnectSetsWindow, ClientDisconnected, SetRwndSize, BufSetEffectiveWindow, BufConsume,
                  smVars, bufVars
    <2> QED BY <1>1, <2>1
  <1>5. CASE LinkReturns \/ HandlerReturns
    <2>1. total' = total
      BY <1>5, Zenon DEF LinkReturns, HandlerReturns, ClientDisconnected, BufSetEffectiveWindow, smVars, bufVars
    <2> QED BY <1>1, <2>1
  <1> QED BY <1>2, <1>3, <1>4, <1>5 DEF ManagerStep

LEMMA ManagerLogged == ASSUME IInv, DropInv, LogInv, ManagerStep PROVE LogInv'
  <1>1. UNCHANGED <<readerVars, serverVars, fileVars>>
    BY DEF ManagerStep, ReceiveAck, Manager, ManagerReads, ManagerWrites, ManagerSends, ManagerTransmits,
           ManagerSetsWindow, Prepare, PrepareBegins, PrepareDisconnects, PrepareConnects, PrepareIsRefused,
           PrepareConnecting, PrepareEnds, StartStream, LinkReturns, HandlerReturns
  <1>2. /\ UNCHANGED <<loop, loopData, lateData, phase, wantSeq, out, totalGap, stored>>
        /\ rNextSeq' = rNextSeq /\ ReadPosition' = ReadPosition
    BY <1>1 DEF readerVars, serverVars, fileVars, ReadPosition
  <1>3. total' \in Nat /\ total' >= total
    BY TotalGrows
  <1>4. rNextSeq' <= total'
    <2>1. rNextSeq \in Nat /\ total \in Nat /\ rNextSeq <= total
      BY Lengths DEF LogInv, LimitInv
    <2> QED BY <1>2, <1>3, <2>1
  <1> QED BY <1>2, <1>3, <1>4, LogStays

(* Steps of the server that leave the file and the reader's position alone. *)
LEMMA PhaseLogged ==
  ASSUME StatAlone', IInv, LogInv,
         LinkDrops \/ StatFile \/ StreamWasDone \/ Started \/ RestartFails \/ CallTimesOut \/ LoopEnds
  PROVE  LogInv'
  <1>1. /\ UNCHANGED <<out, totalGap, stored, loopData, lateData>> /\ UNCHANGED <<smVars, rNextSeq, rBuffer>>
    BY Zenon DEF LinkDrops, StatFile, StreamWasDone, Started, RestartFails, CallTimesOut, LoopEnds,
       linkVars, readerVars, fileVars, Close
  <1>2. Due' = Due /\ ReadPosition' = ReadPosition /\ total' = total
    BY <1>1 DEF Due, ReadPosition, smVars, bufVars
  <1>3. StoredInv' /\ LimitInv'
    BY <1>1, <1>2 DEF LogInv, StoredInv, LimitInv
  <1>4. LoopInv /\ AccountInv /\ Len(loopData) \in Nat
    BY Lengths DEF LogInv
  <1>5. CASE StatFile
    <2>1. phase' = "stated" /\ loop' = loop /\ wantSeq' = Due /\ loop # "append" /\ phase = "lost"
      BY <1>5 DEF StatFile, CurrentSeq, Due, fileVars, StatAlone
    <2>2. LoopInv' /\ AccountInv'
      BY <1>1, <1>2, <1>4, <2>1 DEF LoopInv, AccountInv
    <2> QED BY <1>3, <2>2 DEF LogInv
  <1>6. CASE Started
    <2>1. phase' = "attached" /\ loop' = "read" /\ wantSeq' = wantSeq /\ phase = "starting"
      BY <1>6 DEF Started
    <2>2. LoopInv' /\ AccountInv'
      BY <1>1, <1>2, <1>4, <2>1 DEF LoopInv, AccountInv
    <2> QED BY <1>3, <2>2 DEF LogInv
  <1>7. CASE StreamWasDone \/ RestartFails \/ CallTimesOut \/ LinkDrops
    <2>1. loop' = loop /\ wantSeq' = wantSeq /\ (phase' = phase \/ phase' \in {"done", "lost", "stuck"})
      BY <1>7 DEF StreamWasDone, RestartFails, CallTimesOut, LinkDrops, fileVars
    <2>2. LoopInv' /\ AccountInv'
      BY <1>1, <1>2, <1>4, <2>1 DEF LoopInv, AccountInv
    <2> QED BY <1>3, <2>2 DEF LogInv
  <1>8. CASE LoopEnds
    <2>1. loop = "read" /\ loop' = "done" /\ wantSeq' = wantSeq /\ phase' = phase
      BY <1>8 DEF LoopEnds
    <2>2. LoopInv' /\ AccountInv'
      BY <1>1, <1>2, <1>4, <2>1 DEF LoopInv, AccountInv
    <2> QED BY <1>3, <2>2 DEF LogInv
  <1> QED BY <1>5, <1>6, <1>7, <1>8

(* What the loop reads is what the file lacks next. *)
LEMMA ReadLogged == ASSUME StatAlone', IInv, LogInv, LoopReads PROVE LogInv'
  <1>1. /\ loop = "read" /\ phase # "stated" /\ Read
        /\ loopData' = Readable /\ loop' = "append"
        /\ UNCHANGED <<phase, wantSeq, totalGap, stored, out, lateData, total>>
    BY DEF LoopReads, StatAlone, serverVars, smVars, bufVars
  <1> DEFINE n == Len(rBuffer)
  <1> DEFINE k == Lesser(ReadSize, n)
  <1>2. /\ rBuffer \in Seq(Nat) /\ rNextSeq \in Nat /\ n \in Nat /\ k \in 0 .. n
        /\ rBuffer = Positions(ReadPosition, n) /\ ReadPosition \in Int
    BY DEF IInv, ReaderInv, ReaderTypeOK, ReadPosition
  <1>3. Readable = SubSeq(rBuffer, 1, k) /\ rBuffer' = Unread /\ rNextSeq' = rNextSeq
    BY <1>1 DEF Read, Readable
  <1>4. Readable = Positions(ReadPosition, k)
    <2> HIDE DEF k, n
    <2> QED BY <1>2, <1>3, PositionsPrefix
  <1>5. Len(Readable) = k
    <2> HIDE DEF k
    <2> QED BY <1>2, <1>4 DEF Positions
  <1>6. Len(Unread) = n - k
    <2>1. Unread = SubSeq(rBuffer, k + 1, n)
      BY <1>5 DEF Unread
    <2>2. \A i \in (k + 1) .. n : rBuffer[i] \in Nat
      BY <1>2
    <2>3. Len(SubSeq(rBuffer, k + 1, n)) = n - k
      <3> HIDE DEF k, n
      <3> QED BY <1>2, <2>2, SubSeqProperties
    <2> QED BY <2>1, <2>3
  <1>7. ReadPosition' = ReadPosition + k
    BY <1>2, <1>3, <1>6 DEF ReadPosition
  <1>8. LoopInv /\ AccountInv /\ loopData = <<>>
    BY <1>1 DEF LogInv, LoopInv
  <1>9. Due' = Due /\ Due \in Nat /\ Due = ReadPosition
    BY <1>1, <1>8, Lengths DEF Due, AccountInv
  <1>10. LoopInv' /\ StoredInv'
    BY <1>1, <1>8 DEF LogInv, LoopInv, StoredInv
  <1>11. AccountInv'
    BY <1>1, <1>4, <1>5, <1>7, <1>8, <1>9 DEF AccountInv, LoopInv
  <1>12. LimitInv'
    <2>1. rNextSeq <= total /\ total \in Nat /\ Due + k <= rNextSeq
      BY <1>2, <1>9, Lengths DEF LogInv, LimitInv, ReadPosition
    <2> QED BY <1>1, <1>2, <1>3, <1>5, <1>9, <2>1 DEF LimitInv
  <1> QED BY <1>10, <1>11, <1>12 DEF LogInv

LEMMA AppendLogged == ASSUME IInv, LogInv, LoopAppends PROVE LogInv'
  <1>1. /\ loop = "append" /\ loop' = "read" /\ loopData' = <<>> /\ out' = out \o loopData
        /\ UNCHANGED <<lateData, phase, wantSeq, totalGap, stored, total, rNextSeq, rBuffer>>
    BY DEF LoopAppends, serverVars, smVars, bufVars, readerVars
  <1>2. /\ out \in Seq(Nat) /\ loopData \in Seq(Nat) /\ Due \in Nat /\ totalGap \in Nat /\ total \in Nat
        /\ stored.out \in Seq(Nat) /\ Len(stored.out) \in Nat /\ Len(out) \in Nat
        /\ Len(loopData) \in Nat
    BY Lengths DEF IInv, FileOK
  <1>3. Len(out') = Len(out) + Len(loopData) /\ Due' = Due + Len(loopData) /\ Len(loopData') = 0
    BY <1>1, <1>2 DEF Due
  <1>4. LoopInv /\ AccountInv /\ StoredInv /\ LimitInv /\ phase \notin {"stated", "preparing", "starting"}
    BY <1>1 DEF LogInv, LoopInv
  <1>5. LoopInv'
    BY <1>1, <1>4 DEF LoopInv
  <1>6. AccountInv'
    <2>1. Due' \in Nat /\ ReadPosition' = ReadPosition
      BY <1>1, <1>2, <1>3 DEF ReadPosition
    <2>2. loopData' = Positions(Due', Len(loopData'))
      <3> HIDE DEF Due
      <3> QED BY <1>1, <1>3, <2>1, PositionsEmpty
    <2>3. Due' + Len(loopData') = ReadPosition'
      BY <1>1, <1>2, <1>3, <1>4, <2>1 DEF AccountInv
    <2> QED BY <1>1, <1>4, <2>2, <2>3 DEF AccountInv
  <1>7. StoredInv'
    <2>1. Len(stored.out) \in 0 .. Len(out) /\ stored.out = SubSeq(out, 1, Len(stored.out))
      BY <1>2, <1>4 DEF StoredInv
    <2>2. stored.out = SubSeq(out', 1, Len(stored.out))
      BY <1>1, <1>2, <2>1, PrefixExtended
    <2>3. Len(stored.out) <= Len(out')
      BY <1>2, <1>3, <2>1
    <2> QED BY <1>1, <1>4, <2>2, <2>3 DEF StoredInv
  <1>8. LimitInv'
    BY <1>1, <1>2, <1>3, <1>4 DEF LimitInv
  <1> QED BY <1>5, <1>6, <1>7, <1>8 DEF LogInv

(* The new reader starts where the file ends. *)
LEMMA CreateLogged == ASSUME IInv, LogInv, CreateReader PROVE LogInv'
  <1>1. /\ phase = "stated" /\ phase' = "preparing" /\ loop' = "none" /\ loopData' = <<>>
        /\ lateData' = (IF loop = "append" THEN loopData ELSE lateData)
        /\ rNextSeq' = wantSeq
        /\ UNCHANGED <<wantSeq, totalGap, stored, out, total>>
    BY DEF CreateReader, NewReader, smVars, bufVars
  <1>2. LoopInv /\ AccountInv /\ StoredInv /\ LimitInv /\ wantSeq = Due /\ Due' = Due /\ loopData = <<>>
    BY <1>1 DEF LogInv, LoopInv, AccountInv, Due
  <1>3. LoopInv' /\ StoredInv' /\ Due \in Nat
    BY <1>1, <1>2, Lengths DEF LoopInv, StoredInv
  <1>4. AccountInv' /\ LimitInv'
    <2>1. loopData' = Positions(Due, 0) /\ Len(loopData') = 0 /\ Len(loopData) = 0
      <3> HIDE DEF Due
      <3> QED BY <1>1, <1>2, <1>3, PositionsEmpty
    <2>2. LimitInv'
      BY <1>1, <1>2, <1>3, <2>1, Lengths DEF LimitInv
    <2>3. AccountInv'
      BY <1>1, <1>2, <1>3, <2>1 DEF AccountInv
    <2> QED BY <2>2, <2>3
  <1> QED BY <1>2, <1>3, <1>4 DEF LogInv

(* The gap is recorded and the reader moved by the same number. *)
LEMMA PreparedLogged == ASSUME IInv, DropInv, LogInv, Prepared PROVE LogInv'
  <1>1. /\ phase = "preparing" /\ phase' = "starting" /\ reply.kind = "prepared"
        /\ UNCHANGED <<wantSeq, stored, out, loop, loopData, lateData, total>>
        /\ IF reply.seq > wantSeq
           THEN totalGap' = totalGap + (reply.seq - wantSeq) /\ UpdateNextSeq(reply.seq)
           ELSE UNCHANGED <<totalGap, readerVars, ackWire>>
    BY DEF Prepared, Gap, fileVars, smVars, bufVars
  <1>2. /\ reply.seq \in Nat /\ reply.seq <= total /\ wantSeq \in Nat /\ total \in Nat
        /\ rNextSeq = wantSeq /\ rBuffer = <<>>
    BY <1>1, Numbers DEF DropInv, AnswerInv, PrepareInv, Calls, IInv, Corked
  <1>3. /\ LoopInv /\ AccountInv /\ StoredInv /\ LimitInv /\ loop = "none" /\ loopData = <<>> /\ wantSeq = Due
        /\ Len(out) \in Nat /\ totalGap \in Nat /\ stored.gap \in Nat /\ Due = Len(out) + totalGap
    BY <1>1, Lengths DEF LogInv, LoopInv, AccountInv, Due
  <1>4. /\ rBuffer' = <<>> /\ totalGap' \in Nat /\ totalGap' >= totalGap
        /\ rNextSeq' = Len(out) + totalGap' /\ rNextSeq' <= total
    <2>1. CASE reply.seq > wantSeq
      BY <1>1, <1>2, <1>3, <2>1 DEF UpdateNextSeq
    <2>2. CASE ~(reply.seq > wantSeq)
      BY <1>1, <1>2, <1>3, <2>2 DEF readerVars, LimitInv
    <2> QED BY <2>1, <2>2
  <1>5. Due' = rNextSeq' /\ Due' \in Nat /\ ReadPosition' = rNextSeq' /\ Len(loopData') = 0 /\ loopData' = <<>>
    BY <1>1, <1>3, <1>4 DEF Due, ReadPosition
  <1>6. LoopInv' /\ StoredInv'
    BY <1>1, <1>3, <1>4 DEF LoopInv, StoredInv
  <1>7. loopData' = Positions(Due', Len(loopData'))
    <2> HIDE DEF Due
    <2> QED BY <1>5, PositionsEmpty
  <1>8. AccountInv' /\ LimitInv'
    BY <1>1, <1>3, <1>4, <1>5, <1>7 DEF AccountInv, LimitInv
  <1> QED BY <1>6, <1>8 DEF LogInv

LEMMA FlushLogged == ASSUME IInv, LogInv, FlushCache PROVE LogInv'
  <1>1. /\ stored' = [out |-> out, gap |-> totalGap]
        /\ UNCHANGED <<loop, loopData, lateData, phase, wantSeq, out, totalGap, total, rNextSeq, rBuffer>>
    BY DEF FlushCache, fileVars, readerVars, smVars, bufVars
  <1>2. out \in Seq(Nat) /\ Len(out) \in Nat /\ totalGap \in Nat
    BY Lengths DEF IInv, FileOK
  <1>3. out = SubSeq(out, 1, Len(out))
    BY <1>2, PrefixWhole
  <1>4. StoredInv'
    BY <1>1, <1>2, <1>3 DEF StoredInv
  <1>5. LoopInv' /\ AccountInv' /\ LimitInv'
    BY <1>1 DEF LogInv, LoopInv, AccountInv, LimitInv, Due, ReadPosition
  <1> QED BY <1>4, <1>5 DEF LogInv

(* A crash puts the file back to a beginning of itself. *)
LEMMA CrashLogged == ASSUME IInv, LogInv, ServerCrashes PROVE LogInv'
  <1>1. /\ out' = stored.out /\ totalGap' = stored.gap /\ loop' = "none" /\ loopData' = <<>>
        /\ lateData' = <<>> /\ phase' = "lost" /\ UNCHANGED <<stored, total, rNextSeq>>
    BY DEF ServerCrashes, smVars, bufVars
  <1>2. /\ StoredInv /\ LimitInv /\ stored.out \in Seq(Nat) /\ Due' \in Nat /\ Due' <= Due
        /\ total \in Nat /\ Due \in Nat /\ Len(loopData) \in Nat /\ stored.gap \in Nat
        /\ Len(stored.out) \in Nat
    <2>1. StoredInv /\ LimitInv /\ stored.out \in Seq(Nat)
      BY DEF LogInv, IInv, FileOK
    <2>2. Due' = Len(stored.out) + stored.gap /\ Due = Len(out) + totalGap
      BY <1>1 DEF Due
    <2> QED BY <2>1, <2>2, Lengths DEF StoredInv
  <1>3. stored.out = SubSeq(stored.out, 1, Len(stored.out))
    BY <1>2, PrefixWhole
  <1>4. LoopInv' /\ StoredInv'
    BY <1>1, <1>2, <1>3 DEF LoopInv, StoredInv
  <1>5. Len(loopData') = 0 /\ loopData' = Positions(Due', 0)
    <2> HIDE DEF Due
    <2> QED BY <1>1, <1>2, PositionsEmpty
  <1>6. AccountInv'
    BY <1>1, <1>5 DEF AccountInv
  <1>7. LimitInv'
    <2>1. rNextSeq <= total /\ Due' <= total /\ Due' \in Nat
      BY <1>2, Lengths DEF LimitInv
    <2>2. rNextSeq' <= total' /\ Due' <= total' /\ Due' \in Nat /\ Len(loopData') = 0
      BY <1>1, <1>5, <2>1
    <2> HIDE DEF Due
    <2> QED BY <2>2 DEF LimitInv
  <1> QED BY <1>4, <1>6, <1>7 DEF LogInv

-----------------------------------------------------------------------------
LEMMA LogHolds == Init => LogInv
  <1> SUFFICES ASSUME Init PROVE LogInv
    OBVIOUS
  <1>1. /\ out = <<>> /\ totalGap = 0 /\ stored = [out |-> <<>>, gap |-> 0]
        /\ loop = "read" /\ loopData = <<>> /\ lateData = <<>> /\ phase = "attached"
        /\ rNextSeq = 0 /\ rBuffer = <<>> /\ total = 0
    BY DEF Init, SmInit, ReaderInit
  <1>2. Due = 0 /\ ReadPosition = 0 /\ Len(loopData) = 0
    <2>1. Len(out) = 0 /\ Len(rBuffer) = 0 /\ Len(loopData) = 0 /\ totalGap = 0 /\ rNextSeq = 0
      BY <1>1
    <2> QED BY <2>1 DEF Due, ReadPosition
  <1>3. loopData = Positions(Due, Len(loopData))
    BY <1>1, <1>2, PositionsEmpty
  <1>4. stored.out = SubSeq(out, 1, Len(stored.out))
    <2>1. <<>> \in Seq(Nat) /\ stored.out = <<>> /\ out = <<>>
      BY <1>1
    <2> QED BY <2>1, PrefixWhole
  <1>5. LoopInv /\ StoredInv /\ LimitInv
    BY <1>1, <1>2, <1>4 DEF LoopInv, StoredInv, LimitInv
  <1>6. AccountInv
    BY <1>1, <1>2, <1>3 DEF AccountInv
  <1> QED BY <1>5, <1>6 DEF LogInv

LEMMA LogKept == StatAlone' /\ IInv /\ DropInv /\ LogInv /\ [Next]_vars => LogInv'
  <1> SUFFICES ASSUME StatAlone', IInv, DropInv, LogInv, [Next]_vars PROVE LogInv'
    OBVIOUS
  <1>1. CASE Wires \/ Manager \/ Prepare \/ LinkReturns \/ HandlerReturns
    BY <1>1, DataLogged, ManagerLogged DEF Wires, ManagerStep
  <1>2. CASE Output
    <2>1. ~LateAppend
      BY DEF LogInv, LoopInv, LateAppend
    <2> QED BY <1>2, <2>1, ReadLogged, AppendLogged, PhaseLogged DEF Output
  <1>3. CASE Restart
    BY <1>3, PhaseLogged, CreateLogged, PreparedLogged DEF Restart
  <1>4. CASE LinkDrops \/ CallTimesOut \/ FlushCache \/ ServerCrashes
    BY <1>4, PhaseLogged, FlushLogged, CrashLogged
  <1>5. CASE UNCHANGED vars
    <2>1. /\ UNCHANGED <<loop, loopData, lateData, phase, wantSeq, out, totalGap, stored>>
          /\ UNCHANGED <<total, rNextSeq, ReadPosition>>
      BY <1>5 DEF vars, serverVars, fileVars, readerVars, smVars, bufVars, ReadPosition
    <2>2. rNextSeq' <= total' /\ total' \in Nat /\ total' >= total
      BY <2>1, Lengths DEF LogInv, LimitInv
    <2> QED BY <2>1, <2>2, LogStays
  <1> QED BY <1>1, <1>2, <1>3, <1>4, <1>5 DEF Next

LEMMA LogAlways == Spec /\ []StatAlone => []LogInv
  <1> QED BY InvAlways, DropAlways, LogHolds, LogKept, PTL DEF Spec

(* restartStreaming and runOutputLoop: in every execution in which no output  *)
(* loop is about to append between a Stat and the reader it is for, the file  *)
(* and the recorded gaps add up to what the attached reader has given out, so *)
(* that the next reconnect asks for the right sequence number.                *)
THEOREM AccountKept == Spec /\ []StatAlone => []Accounted
  <1>1. IInv /\ LogInv => Accounted
    <2> SUFFICES ASSUME IInv, LogInv, phase \in {"starting", "attached"}
                 PROVE  Len(out) + Len(loopData) + totalGap = ReadPosition
      BY DEF Accounted
    <2>1. Due + Len(loopData) = ReadPosition
      BY DEF LogInv, AccountInv
    <2> QED BY <2>1, Lengths DEF Due
  <1> QED BY <1>1, InvAlways, LogAlways, PTL

-----------------------------------------------------------------------------
(* Every step is one of JobLog's on the file, or leaves it alone.             *)

LogSame == UNCHANGED <<total, out, totalGap>>

LEMMA ProduceStep == ASSUME IInv, DropInv, WriteChunk, UNCHANGED <<out, totalGap>> PROVE JL!Next \/ LogSame
  <1>1. total \in Nat /\ chunk \in Nat /\ count \in Nat /\ windowSize \in Nat /\ total + chunk <= MaxStream
    BY DEF IInv, SmInv, SmTypeOK, DropInv, SmLocal
  <1>2. PICK k \in 0 .. chunk : total' = total + k
    <2>1. BufAdmitted(chunk) \in 0 .. chunk
      BY <1>1 DEF BufAdmitted
    <2> QED BY <2>1 DEF WriteChunk, BufWrite
  <1>3. CASE k = 0
    BY <1>1, <1>2, <1>3 DEF LogSame
  <1>4. CASE k # 0
    <2>1. k \in 1 .. MaxStream /\ JL!Produce(k)
      BY <1>1, <1>2, <1>4 DEF JL!Produce
    <2> QED BY <2>1 DEF JL!Next
  <1> QED BY <1>3, <1>4

LEMMA StoreStep == ASSUME IInv, DropInv, LogInv, LoopAppends PROVE JL!Next \/ LogSame
  <1> DEFINE n == Len(loopData)
  <1>1. out' = out \o loopData /\ UNCHANGED <<total, totalGap>>
    BY DEF LoopAppends, smVars, bufVars, serverVars
  <1>2. /\ out \in Seq(Nat) /\ loopData \in Seq(Nat) /\ n \in Nat /\ Due \in Nat /\ total \in Nat
        /\ loopData = Positions(Due, n) /\ Due + n <= total
        /\ total <= MaxStream
    <2>1. total + chunk <= MaxStream /\ chunk \in Nat
      BY DEF IInv, DropInv, SmLocal, SmInv, SmTypeOK
    <2> QED BY <2>1, Lengths DEF IInv, FileOK, LogInv, AccountInv, LimitInv
  <1>3. CASE n = 0
    <2>1. loopData = <<>>
      BY <1>2, <1>3
    <2>2. out \o <<>> = out
      BY <1>2
    <2> QED BY <1>1, <2>1, <2>2 DEF LogSame
  <1>4. CASE n # 0
    <2>1. JL!NextPosition = Due
      BY DEF JL!NextPosition, Due
    <2>2. loopData = [i \in 1..n |-> Due + i - 1]
      BY <1>2 DEF Positions
    <2>3. n \in 1 .. MaxStream
      BY <1>2, <1>4
    <2>4. JL!Store(n)
      <3> HIDE DEF n, Due
      <3> QED BY <1>1, <1>2, <2>1, <2>2 DEF JL!Store
    <2> QED BY <2>3, <2>4 DEF JL!Next
  <1> QED BY <1>3, <1>4

LEMMA SkipStep == ASSUME IInv, DropInv, LogInv, Prepared PROVE JL!Next \/ LogSame
  <1>1. /\ phase = "preparing" /\ reply.kind = "prepared" /\ UNCHANGED <<out, total>>
        /\ IF reply.seq > wantSeq THEN totalGap' = totalGap + (reply.seq - wantSeq) ELSE UNCHANGED totalGap
    BY DEF Prepared, Gap, fileVars, smVars, bufVars
  <1>2. /\ reply.seq \in Nat /\ reply.seq <= total /\ wantSeq \in Nat /\ total \in Nat /\ wantSeq = Due
        /\ total + chunk <= MaxStream /\ chunk \in Nat
    BY <1>1, Numbers DEF DropInv, AnswerInv, SmLocal, Calls, LogInv, AccountInv, IInv, SmInv, SmTypeOK
  <1>3. CASE ~(reply.seq > wantSeq)
    BY <1>1, <1>3 DEF LogSame
  <1>4. CASE reply.seq > wantSeq
    <2>1. PICK n \in Nat : n = reply.seq - wantSeq
      BY <1>2, <1>4
    <2>2. n \in 1 .. MaxStream /\ totalGap' = totalGap + n /\ Due + n <= total
      BY <1>1, <1>2, <1>4, <2>1
    <2>3. JL!NextPosition = Due
      BY DEF JL!NextPosition, Due
    <2>4. JL!Skip(n)
      <3> HIDE DEF Due
      <3> QED BY <1>1, <2>2, <2>3 DEF JL!Skip
    <2> QED BY <2>2, <2>4 DEF JL!Next
  <1> QED BY <1>3, <1>4

LEMMA RestoreStep == ASSUME IInv, LogInv, ServerCrashes PROVE JL!Next
  <1>1. out' = stored.out /\ totalGap' = stored.gap /\ UNCHANGED total
    BY DEF ServerCrashes, smVars, bufVars
  <1>2. /\ Len(stored.out) \in 0 .. Len(out) /\ stored.gap \in 0 .. totalGap
        /\ stored.out = SubSeq(out, 1, Len(stored.out))
    BY Lengths DEF LogInv, StoredInv
  <1>3. JL!Restore(Len(stored.out), stored.gap)
    BY <1>1, <1>2 DEF JL!Restore
  <1> QED BY <1>2, <1>3 DEF JL!Next

LEMMA LogStep ==
  ASSUME IInv, DropInv, LogInv, [Next]_vars PROVE JL!Next \/ LogSame
  <1>1. CASE ManagerStep
    <2>1. UNCHANGED <<out, totalGap>>
      BY <1>1 DEF ManagerStep, ReceiveAck, Manager, ManagerReads, ManagerWrites, ManagerSends, ManagerTransmits,
           ManagerSetsWindow, Prepare, PrepareBegins, PrepareDisconnects, PrepareConnects, PrepareIsRefused,
           PrepareConnecting, PrepareEnds, StartStream, LinkReturns, HandlerReturns, serverVars, fileVars
    <2>2. CASE WriteChunk
      BY <2>1, <2>2, ProduceStep
    <2>3. CASE total' = total
      BY <2>1, <2>3 DEF LogSame
    <2>4. total' = total \/ WriteChunk
      <3>1. total' # total => Manager
        BY <1>1, TotalGrows
      <3>2. ASSUME Manager, ~WriteChunk
            PROVE  total' = total
        BY <3>2, Zenon DEF Manager, ManagerReads, ManagerWrites, ManagerSends, ManagerTransmits, ManagerSetsWindow,
           PtyYields, ReadPty, PtyEnds, SignalSender, SenderExits, SenderWaits, SendData, SendTerminal,
           AckSetsWindow, BufSetEffectiveWindow, bufVars
      <3> QED BY <3>1, <3>2
    <2> QED BY <2>2, <2>3, <2>4
  <1>2. CASE \/ ReceiveData \/ ReaderDrains \/ LoopReads \/ LoopEnds \/ StatFile \/ CreateReader \/ StreamWasDone
             \/ Started \/ RestartFails \/ LinkDrops \/ CallTimesOut \/ FlushCache \/ UNCHANGED vars
    BY <1>2, Zenon DEF ReceiveData, ReaderDrains, LoopReads, LoopEnds, StatFile, CreateReader, StreamWasDone,
       Started, RestartFails, LinkDrops, CallTimesOut, FlushCache, vars, LogSame, smVars, bufVars, serverVars,
       fileVars
  <1>3. ~LateAppend
    BY DEF LogInv, LoopInv, LateAppend
  <1>4. CASE LoopAppends
    BY <1>4, StoreStep
  <1>5. CASE Prepared
    BY <1>5, SkipStep
  <1>6. CASE ServerCrashes
    BY <1>6, RestoreStep
  <1> QED BY <1>1, <1>2, <1>3, <1>4, <1>5, <1>6 DEF Next, Wires, Output, Restart, ManagerStep

(* In the same executions the output file implements JobLog: it holds the     *)
(* stream's bytes in order and without repetition, what it lacks is counted   *)
(* as gap, and a crash takes it back to a beginning of itself.                *)
THEOREM LogRefined == Spec /\ []StatAlone => RefinesJobLog
  <1>1. Init => JL!Init
    BY DEF Init, SmInit, JL!Init
  <1>2. IInv /\ DropInv /\ LogInv /\ [Next]_vars => [JL!Next]_(JL!vars)
    BY LogStep DEF LogSame, JL!vars
  <1> QED BY <1>1, <1>2, InvAlways, DropAlways, LogAlways, PTL DEF Spec, RefinesJobLog, JL!Spec

-----------------------------------------------------------------------------
(* The calls of restartStreaming: one request, its handling or its answer at  *)
(* a time, whatever an earlier connection's call is still doing.              *)

Handling == jm # "idle" /\ jmArg.on = link
Opened == phase = "attached" \/ (phase = "starting" /\ reply.kind = "started")
Waiting == phase = "preparing" \/ (phase = "starting" /\ request.kind = "start")

CallInv ==
  /\ link \in {0, conns} /\ (jm # "idle" => jmArg.on \in 1 .. conns)
  /\ jm = "connecting" => conn.id = jmArg.id
  /\ Handling => jmArg.id = rId
  /\ request.kind \in {"none", "prepare", "start"} /\ reply.kind \notin {"prepare", "start"}
  /\ request.kind # "none" => reply.kind = "none" /\ ~Handling /\ request.id = rId
  /\ reply.kind # "none" => ~Handling
  /\ request.kind = "prepare" \/ Handling \/ reply.kind \in {"prepared", "done"} => phase \in {"preparing", "stuck"}
  /\ request.kind = "start" \/ reply.kind = "started" => phase \in {"starting", "stuck"}
  /\ reply.kind = "failed" => phase \in {"preparing", "starting", "stuck"}
  /\ reply.kind = "prepared" \/ request.kind = "start" \/ Opened => jm = "idle" /\ streamId = rId

LEMMA CallStays ==
  ASSUME CallInv, UNCHANGED <<link, conns, jm, jmArg, request, reply, phase, rId>>, UNCHANGED <<streamId, conn>>
  PROVE  CallInv'
  BY DEF CallInv, Handling, Opened

LEMMA WorkCalls ==
  ASSUME CallInv, Wires \/ Manager \/ Output \/ FlushCache \/ HandlerReturns \/ UNCHANGED vars
  PROVE  CallInv'
  <1>1. CASE Wires
    <2>1. UNCHANGED <<link, conns, jm, jmArg, request, reply, phase>>
      BY <1>1, Zenon DEF Wires, ReceiveData, ReaderDrains, ReceiveAck, jmVars, callVars, serverVars
    <2>2. rId' = rId
      BY <1>1, Zenon DEF Wires, ReceiveData, ReaderDrains, ReceiveAck, RecvData, IgnoreData, ReaderNotFound,
         RecvError, RecvEarly, RecvInOrder, DrainOne, FinishRecv, readerVars
    <2>3. UNCHANGED <<streamId, conn>>
      BY <1>1, Zenon DEF Wires, ReceiveData, ReaderDrains, ReceiveAck, RecvAck, RecvFinAck, IgnoreAck,
         NoteUnusableAck, ApplyAck, smVars, clientVars
    <2> QED BY <2>1, <2>2, <2>3, CallStays
  <1>2. CASE Manager
    <2>1. UNCHANGED <<link, conns, jm, jmArg, request, reply, phase, rId>>
      BY <1>2, Zenon DEF Manager, ManagerReads, ManagerWrites, ManagerSends, ManagerTransmits, ManagerSetsWindow,
         linkVars, jmVars, callVars, serverVars, readerVars
    <2>2. UNCHANGED <<streamId, conn>>
      BY <1>2, Zenon DEF Manager, ManagerReads, ManagerWrites, ManagerSends, ManagerTransmits, ManagerSetsWindow,
         PtyYields, ReadPty, PtyEnds, WriteChunk, SignalSender, SenderExits, SenderWaits, SendData, SendTerminal,
         AckSetsWindow, clientVars
    <2> QED BY <2>1, <2>2, CallStays
  <1>3. CASE Output \/ FlushCache \/ UNCHANGED vars
    <2>1. UNCHANGED <<link, conns, jm, jmArg, request, reply, phase>>
      BY <1>3, Zenon DEF Output, LoopReads, LoopAppends, LoopEnds, LateAppend, FlushCache, vars,
         linkVars, jmVars, callVars, serverVars
    <2>2. UNCHANGED <<rId, streamId, conn>>
      BY <1>3, Zenon DEF Output, LoopReads, LoopAppends, LoopEnds, LateAppend, FlushCache, vars, Read, Close,
         readerVars, smVars, clientVars
    <2> QED BY <2>1, <2>2, CallStays
  <1>4. CASE HandlerReturns
    <2>1. UNCHANGED <<link, conns, jm, jmArg, request, reply, phase, rId>>
      BY <1>4 DEF HandlerReturns, linkVars, callVars, serverVars, readerVars
    <2>2. UNCHANGED <<streamId, conn>>
      BY <1>4, Zenon DEF HandlerReturns, ClientDisconnected, smVars, clientVars
    <2> QED BY <2>1, <2>2, CallStays
  <1> QED BY <1>1, <1>2, <1>3, <1>4

LEMMA PrepareCalls == ASSUME IInv, CallInv, Prepare PROVE CallInv'
  <1>1. UNCHANGED <<link, conns, phase, rId>>
    BY DEF Prepare, PrepareBegins, PrepareDisconnects, PrepareConnects, PrepareIsRefused, PrepareConnecting,
       PrepareEnds, StartStream, linkVars, jmVars, serverVars, readerVars
  <1>2. /\ conn \in [id : Nat, sender : Nat, rwnd : Nat, seq : Nat, head : Nat]
        /\ jm # "idle" => jmArg.on # 0
        /\ link = 0 => request.kind = "none"
        /\ link \in Nat /\ conns \in Nat
    BY DEF IInv, SmInv, SmTypeOK, NoCallDown, ControlOK
  <1>3. CASE PrepareBegins
    <2>1. /\ request.kind = "prepare" /\ jm = "idle" /\ request' = NoCall /\ UNCHANGED <<streamId, conn>>
          /\ \/ reply' = Call("done", request.id, request.seq) /\ UNCHANGED <<jm, jmArg>>
             \/ /\ jmArg' = [id |-> request.id, seq |-> request.seq, on |-> link]
                /\ jm' = "disconnect" /\ reply' = reply
      BY <1>3 DEF PrepareBegins, smVars, clientVars
    <2>2. link \in 1 .. conns
      BY <1>2, <2>1 DEF CallInv
    <2> QED BY <1>1, <2>1, <2>2 DEF CallInv, Handling, Opened, Call, NoCall
  <1>4. CASE PrepareDisconnects
    <2>1. jm = "disconnect" /\ jm' = "connect" /\ UNCHANGED <<jmArg, request, reply>>
      BY <1>4 DEF PrepareDisconnects, callVars
    <2>2. UNCHANGED <<streamId, conn>>
      BY <1>4, Zenon DEF PrepareDisconnects, ClientDisconnected, smVars, clientVars
    <2> QED BY <1>1, <2>1, <2>2 DEF CallInv, Handling, Opened
  <1>5. CASE PrepareConnects
    <2>1. jm = "connect" /\ jm' = "connecting" /\ UNCHANGED <<jmArg, request, reply, streamId>> /\ conn'.id = jmArg.id
      BY <1>5 DEF PrepareConnects, ConnectReadsHead, callVars, clientVars
    <2> QED BY <1>1, <2>1 DEF CallInv, Handling, Opened
  <1>6. CASE PrepareIsRefused
    <2>1. /\ jm = "connect" /\ jm' = "idle" /\ jmArg' = NoArg /\ UNCHANGED <<request, streamId, conn>>
          /\ reply' = IF Handling THEN Call("failed", jmArg.id, 0) ELSE reply
      BY <1>6 DEF PrepareIsRefused, Answer, Handling, smVars, clientVars
    <2> QED BY <1>1, <2>1 DEF CallInv, Handling, Opened, Call
  <1>7. CASE PrepareConnecting
    <2>1. UNCHANGED <<jm, jmArg, request, reply, streamId>>
      BY <1>7, Zenon DEF PrepareConnecting, ConnectConsumes, ConnectRereadsHead, jmVars, callVars, clientVars
    <2>2. conn' = conn \/ conn' = [conn EXCEPT !.head = HeadPos]
      BY <1>7, Zenon DEF PrepareConnecting, ConnectConsumes, ConnectRereadsHead
    <2>3. conn'.id = conn.id
      BY <1>2, <2>2
    <2> QED BY <1>1, <2>1, <2>3 DEF CallInv, Handling, Opened
  <1>8. CASE PrepareEnds
    <2>1. /\ jm = "connecting" /\ jm' = "idle" /\ jmArg' = NoArg /\ request' = request /\ streamId' = conn.id
          /\ reply' = IF Handling THEN Call("prepared", jmArg.id, StartSeq) ELSE reply
      BY <1>8 DEF PrepareEnds, Answer, Handling, ConnectSetsWindow
    <2> QED BY <1>1, <2>1 DEF CallInv, Handling, Opened, Call
  <1>9. CASE StartStream
    <2>1. /\ request.kind = "start" /\ jm = "idle" /\ request' = NoCall /\ UNCHANGED <<jm, jmArg>>
          /\ reply' \in {Call("started", request.id, 0), Call("failed", request.id, 0)}
      BY <1>9 DEF StartStream
    <2>2. UNCHANGED <<streamId, conn>>
      BY <1>9, Zenon DEF StartStream, SetRwndSize, smVars, clientVars
    <2> QED BY <1>1, <2>1, <2>2 DEF CallInv, Handling, Opened, Call, NoCall
  <1> QED BY <1>3, <1>4, <1>5, <1>6, <1>7, <1>8, <1>9 DEF Prepare

LEMMA RestartCalls ==
  ASSUME IInv, CallInv, Restart \/ CallTimesOut \/ ServerCrashes \/ LinkDrops \/ LinkReturns PROVE CallInv'
  <1>1. UNCHANGED <<jm, jmArg, streamId, conn>>
    BY Zenon DEF Restart, StatFile, CreateReader, Prepared, StreamWasDone, Started, RestartFails, CallTimesOut,
       ServerCrashes, LinkDrops, LinkReturns, jmVars, smVars, clientVars
  <1>2. /\ jm # "idle" => jmArg.on # 0
        /\ link = 0 => request.kind = "none" /\ reply.kind \in {"none", "failed"}
        /\ link \in Nat /\ conns \in Nat
    BY DEF IInv, NoCallDown, ControlOK
  <1>3. CASE StatFile \/ StreamWasDone \/ RestartFails \/ CallTimesOut \/ Started
    <2>1. UNCHANGED <<link, conns, rId, request>>
      BY <1>3, Zenon DEF StatFile, StreamWasDone, RestartFails, CallTimesOut, Started, linkVars, jmVars, callVars,
         Close, readerVars
    <2>2. CASE StatFile
      <3>1. phase = "lost" /\ phase' = "stated" /\ reply' = reply
        BY <2>2 DEF StatFile, callVars
      <3> QED BY <1>1, <2>1, <3>1 DEF CallInv, Handling, Opened
    <2>3. CASE StreamWasDone
      <3>1. reply.kind = "done" /\ phase = "preparing" /\ phase' = "done" /\ reply'.kind = "none"
        BY <2>3 DEF StreamWasDone, NoCall
      <3> QED BY <1>1, <2>1, <3>1 DEF CallInv, Handling, Opened
    <2>4. CASE RestartFails
      <3>1. /\ reply.kind = "failed" /\ phase' \in {"lost", "stuck"} /\ (phase' = "lost" => link = 0)
            /\ reply'.kind = "none"
        BY <2>4 DEF RestartFails, NoCall
      <3> QED BY <1>1, <1>2, <2>1, <3>1 DEF CallInv, Handling, Opened
    <2>5. CASE CallTimesOut
      <3>1. phase' = "stuck" /\ reply' = reply
        BY <2>5 DEF CallTimesOut, callVars
      <3> QED BY <1>1, <2>1, <3>1 DEF CallInv, Handling, Opened
    <2>6. CASE Started
      <3>1. reply.kind = "started" /\ phase = "starting" /\ phase' = "attached" /\ reply'.kind = "none"
        BY <2>6 DEF Started, NoCall
      <3> QED BY <1>1, <2>1, <3>1 DEF CallInv, Handling, Opened
    <2> QED BY <1>3, <2>2, <2>3, <2>4, <2>5, <2>6
  <1>4. CASE CreateReader
    <2>1. /\ phase = "stated" /\ phase' = "preparing" /\ rId' = rId + 1 /\ UNCHANGED <<link, conns>>
          /\ \/ link = 0 /\ reply' = Call("failed", rId + 1, 0) /\ request' = request
             \/ link # 0 /\ request' = Call("prepare", rId + 1, wantSeq) /\ reply' = reply
      BY <1>4 DEF CreateReader, NewReader, linkVars, jmVars
    <2>2. ~Handling /\ request.kind = "none" /\ reply.kind = "none"
      <3>1. reply.kind \in {"none", "prepare", "start", "done", "prepared", "started", "failed"}
        BY DEF IInv, ControlOK, Calls
      <3> QED BY <2>1, <3>1 DEF CallInv
    <2> QED BY <1>1, <2>1, <2>2 DEF CallInv, Handling, Opened, Call
  <1>5. CASE Prepared
    <2>1. /\ reply.kind = "prepared" /\ phase = "preparing" /\ phase' = "starting" /\ reply' = NoCall
          /\ request' = Call("start", rId, 0) /\ UNCHANGED <<link, conns>>
      BY <1>5 DEF Prepared, jmVars
    <2>2. rId' = rId
      BY <1>5, Zenon DEF Prepared, UpdateNextSeq, readerVars
    <2> QED BY <1>1, <2>1, <2>2 DEF CallInv, Handling, Opened, Call, NoCall
  <1>6. CASE ServerCrashes
    <2>1. /\ link' = 0 /\ request' = NoCall /\ reply' = NoCall /\ phase' = "lost" /\ UNCHANGED <<rId, conns>>
      BY <1>6 DEF ServerCrashes, jmVars
    <2> QED BY <1>1, <1>2, <2>1 DEF CallInv, Handling, Opened, NoCall
  <1>7. CASE LinkDrops
    <2>1. /\ link' = 0 /\ request' = NoCall /\ UNCHANGED <<rId, conns>>
          /\ reply' = IF phase \in {"preparing", "starting"} THEN Call("failed", rId, 0) ELSE NoCall
          /\ phase' = IF phase \in {"attached", "done", "stuck"} THEN "lost" ELSE phase
      BY <1>7 DEF LinkDrops, LinkLost, readerVars, jmVars
    <2> QED BY <1>1, <1>2, <2>1 DEF CallInv, Handling, Opened, NoCall, Call
  <1>8. CASE LinkReturns
    <2>1. /\ link = 0 /\ phase = "lost" /\ conns' = conns + 1 /\ link' = conns'
          /\ UNCHANGED <<request, reply, phase, rId>>
      BY <1>8 DEF LinkReturns, callVars, serverVars, readerVars
    <2>2. ~Handling /\ ~Handling' /\ (jm # "idle" => jmArg.on \in 1 .. conns')
      BY <1>1, <1>2, <2>1 DEF CallInv, Handling
    <2> QED BY <1>1, <2>1, <2>2 DEF CallInv, Opened
  <1> QED BY <1>3, <1>4, <1>5, <1>6, <1>7, <1>8 DEF Restart

LEMMA CallKept == IInv /\ CallInv /\ [Next]_vars => CallInv'
  <1>1. Next \/ UNCHANGED vars <=> [Next]_vars
    OBVIOUS
  <1> QED BY <1>1, WorkCalls, PrepareCalls, RestartCalls DEF Next

-----------------------------------------------------------------------------
(* The room of the reader.                                                    *)

Room == ReadPosition + ReadWindow
OwnPackets == {pk \in dataWire \cup rOoo : pk.id = rId}
OwnAcks == {ack \in ackWire : ack.id = rId}

EndInv == terminalEvent # "none" => eofPos = total

(* Until the stream is started nothing but its end is sent. *)
IsEnd(pk) == pk.data = <<>> /\ pk.seq = total /\ Gone
AcksEnd(ack) == ack.seq = total /\ ack.rwnd = 0 /\ Gone
Grants(ack) == ack.seq + ack.rwnd <= Room
WaitInv ==
  Waiting =>
    /\ rBuffer = <<>>
    /\ \A pk \in OwnPackets : IsEnd(pk)
    /\ streamId = rId => rwndSize = 0 /\ ~attached
    /\ \A ack \in OwnAcks : Grants(ack) \/ AcksEnd(ack)

(* Then the sender is ahead of the reader for good, or its window is within   *)
(* the reader's room. *)
Over == HeadPos > rNextSeq /\ \A pk \in OwnPackets : pk.seq > rNextSeq
Fits ==
  /\ Len(rBuffer) <= ReadWindow
  /\ connected => HeadPos + rwndSize <= Room
  /\ \A pk \in OwnPackets : pk.seq + Len(pk.data) <= Room
  /\ \A ack \in OwnAcks : Grants(ack)
OpenInv == Opened => Over \/ Fits

RoomInv == EndInv /\ WaitInv /\ OpenInv

LEMMA RoomTypes ==
  ASSUME IInv
  PROVE  /\ ReadPosition \in Int /\ Room \in Int /\ rNextSeq \in Nat /\ Len(rBuffer) \in Nat
         /\ rBuffer \in Seq(Nat) /\ rNextSeq = ReadPosition + Len(rBuffer)
         /\ HeadPos \in Nat /\ total \in Nat /\ rwndSize \in Nat /\ count \in Nat /\ sentNotAcked \in Nat
         /\ \A pk \in dataWire \cup rOoo : pk.seq \in Nat /\ Len(pk.data) \in Nat /\ pk.data \in Seq(Nat)
         /\ \A ack \in ackWire : ack.seq \in Nat /\ ack.rwnd \in Nat /\ ack \in Acks
  <1>1. /\ rBuffer \in Seq(Nat) /\ rwndSize \in Nat /\ sentNotAcked \in Nat
    BY DEF IInv, ReaderInv, ReaderTypeOK, SmInv, SmTypeOK
  <1>2. Len(rBuffer) \in Nat /\ rNextSeq \in Nat /\ HeadPos \in Nat /\ total \in Nat /\ count \in Nat
    BY <1>1, Numbers
  <1>3. ReadPosition \in Int /\ Room \in Int /\ rNextSeq = ReadPosition + Len(rBuffer)
    <2>1. ReadPosition \in Int /\ rNextSeq = ReadPosition + Len(rBuffer)
      BY <1>2 DEF ReadPosition
    <2> QED BY <2>1 DEF Room
  <1>4. \A pk \in dataWire \cup rOoo : pk.seq \in Nat /\ Len(pk.data) \in Nat /\ pk.data \in Seq(Nat)
    BY Numbers DEF Packets
  <1>5. \A ack \in ackWire : ack.seq \in Nat /\ ack.rwnd \in Nat /\ ack \in Acks
    BY Numbers DEF Acks
  <1> QED BY <1>1, <1>2, <1>3, <1>4, <1>5

(* Arithmetic, for numbers that are primed where it is used. *)
LEMMA Minus == ASSUME NEW a \in Nat, NEW b \in Nat, b <= a PROVE a - b \in Nat
  OBVIOUS

LEMMA Shift ==
  ASSUME NEW a \in Int, NEW b \in Int, NEW n \in Int, b >= a
  PROVE  a + n \in Int /\ b + n \in Int /\ b + n >= a + n
  OBVIOUS

LEMMA HeadAhead ==
  ASSUME IInv, IInv', Grows, HeadPos > rNextSeq PROVE HeadPos' \in Nat /\ HeadPos' > rNextSeq
  <1>1. total' \in Nat /\ count' \in Nat /\ count' <= total'
    BY DEF IInv, SmInv, SmTypeOK
  <1>2. HeadPos' \in Nat
    BY <1>1, Minus DEF HeadPos
  <1>3. HeadPos \in Nat /\ rNextSeq \in Nat
    BY Numbers
  <1> QED BY <1>2, <1>3 DEF Grows

LEMMA RoomGrows ==
  ASSUME IInv, IInv', ReadPosition' >= ReadPosition
  PROVE  Room \in Int /\ Room' \in Int /\ Room' >= Room
  <1>1. rNextSeq' \in Nat /\ rBuffer' \in Seq(Nat)
    BY DEF IInv, ReaderInv, ReaderTypeOK
  <1>2. ReadPosition' \in Int
    BY <1>1 DEF ReadPosition
  <1>3. ReadPosition \in Int /\ ReadWindow \in Int
    BY RoomTypes
  <1> QED BY <1>2, <1>3, Shift DEF Room

(* Steps that leave the reader alone. *)
LEMMA ManagerInRoom ==
  ASSUME IInv, IInv', WaitInv, OpenInv, Grows, Gone => total' = total, UNCHANGED readerVars, ackWire' \subseteq ackWire,
         Waiting' => Waiting, Opened' => Opened,
         Waiting' /\ streamId' = rId => rwndSize' = 0 /\ ~attached',
         Opened /\ Fits /\ connected' => HeadPos' + rwndSize' <= Room,
         \A pk \in dataWire' \ dataWire : pk.id = rId =>
           /\ Waiting' => IsEnd(pk)'
           /\ Opened => pk.seq >= HeadPos /\ (Fits => pk.seq + Len(pk.data) <= Room)
  PROVE  WaitInv' /\ OpenInv'
  <1>1. /\ UNCHANGED <<rId, rNextSeq, rBuffer, rOoo>> /\ ReadPosition' = ReadPosition /\ Room' = Room
    BY DEF readerVars, ReadPosition, Room
  <1>2. /\ OwnAcks' \subseteq OwnAcks /\ OwnAcks \subseteq ackWire
        /\ \A pk \in OwnPackets' : pk \in OwnPackets \/ (pk \in dataWire' \ dataWire /\ pk.id = rId)
    BY <1>1 DEF OwnAcks, OwnPackets
  <1>3. Gone => Gone' /\ total' = total
    BY DEF Grows
  <1>4. WaitInv'
    <2> SUFFICES ASSUME Waiting'
                 PROVE  /\ rBuffer = <<>>
                        /\ \A pk \in OwnPackets' : IsEnd(pk)'
                        /\ streamId' = rId => rwndSize' = 0 /\ ~attached'
                        /\ \A ack \in OwnAcks' : Grants(ack)' \/ AcksEnd(ack)'
      BY <1>1 DEF WaitInv
    <2>1. \A pk \in OwnPackets' : IsEnd(pk)'
      <3> TAKE pk \in OwnPackets'
      <3>1. CASE pk \in OwnPackets
        <4>1. IsEnd(pk)
          BY <3>1 DEF WaitInv
        <4> QED BY <4>1, <1>3 DEF IsEnd
      <3>2. CASE pk \in dataWire' \ dataWire /\ pk.id = rId
        BY <3>2
      <3> QED BY <1>2, <3>1, <3>2
    <2>2. \A ack \in OwnAcks' : Grants(ack)' \/ AcksEnd(ack)'
      <3> TAKE ack \in OwnAcks'
      <3>1. Grants(ack) \/ AcksEnd(ack)
        BY <1>2 DEF WaitInv
      <3> QED BY <1>1, <1>3, <3>1 DEF Grants, AcksEnd
    <2> QED BY <2>1, <2>2 DEF WaitInv
  <1>5. OpenInv'
    <2> SUFFICES ASSUME Opened' PROVE Over' \/ Fits'
      BY DEF OpenInv
    <2>1. Over \/ Fits
      BY DEF OpenInv
    <2>2. CASE Over
      <3>1. HeadPos \in Nat /\ rNextSeq \in Nat /\ HeadPos > rNextSeq /\ HeadPos' > rNextSeq
        BY <2>2, HeadAhead, RoomTypes DEF Over
      <3>2. HeadPos' > rNextSeq
        BY <3>1
      <3>3. \A pk \in OwnPackets' : pk.seq > rNextSeq
        <4> TAKE pk \in OwnPackets'
        <4>1. CASE pk \in OwnPackets
          BY <2>2, <4>1 DEF Over
        <4>2. CASE pk \in dataWire' \ dataWire /\ pk.id = rId
          <5>1. pk.seq >= HeadPos
            BY <4>2
          <5>2. pk.seq \in Nat
            BY <4>2 DEF IInv, WireInv, Packets
          <5> QED BY <3>1, <5>1, <5>2
        <4> QED BY <1>2, <4>1, <4>2
      <3> QED BY <1>1, <3>2, <3>3 DEF Over
    <2>3. CASE Fits
      <3>1. \A pk \in OwnPackets' : pk.seq + Len(pk.data) <= Room
        BY <1>2, <2>3 DEF Fits
      <3>2. \A ack \in OwnAcks' : Grants(ack)'
        BY <1>1, <1>2, <2>3 DEF Fits, Grants
      <3>3. Len(rBuffer) <= ReadWindow /\ (connected' => HeadPos' + rwndSize' <= Room)
        BY <2>3 DEF Fits
      <3> QED BY <1>1, <3>1, <3>2, <3>3 DEF Fits
    <2> QED BY <2>1, <2>2, <2>3
  <1> QED BY <1>4, <1>5

(* Steps of the reader, and of the server that uses it. *)
LEMMA ReaderInRoom ==
  ASSUME IInv, IInv', WaitInv, OpenInv, UNCHANGED <<smVars, attached, rId>>,
         dataWire' \cup rOoo' \subseteq dataWire \cup rOoo,
         Waiting' => Waiting /\ rBuffer' = <<>>, Opened' => Opened,
         ReadPosition' >= ReadPosition,
         Opened /\ Over => rNextSeq' = rNextSeq,
         Opened /\ Fits => Len(rBuffer') <= ReadWindow,
         \A ack \in ackWire' \ ackWire :
           /\ Waiting => Grants(ack)' \/ AcksEnd(ack)
           /\ Opened /\ Fits => Grants(ack)'
  PROVE  WaitInv' /\ OpenInv'
  <1>1. UNCHANGED <<total, HeadPos, Gone, streamId>> /\ UNCHANGED <<rwndSize, connected>>
    BY DEF smVars, readLoopVars, bufVars, clientVars, HeadPos, Gone
  <1>2. /\ Room \in Int /\ Room' \in Int /\ Room' >= Room /\ HeadPos \in Nat /\ rwndSize \in Nat
    BY RoomGrows, RoomTypes
  <1>3. /\ OwnPackets' \subseteq OwnPackets
        /\ \A pk \in OwnPackets : pk \in dataWire \cup rOoo
        /\ \A ack \in OwnAcks' : ack \in ackWire' \ ackWire \/ (ack \in OwnAcks /\ ack \in ackWire)
    BY DEF OwnPackets, OwnAcks
  <1>4. ASSUME NEW ack \in ackWire, Grants(ack) PROVE Grants(ack)'
    <2>1. ack.seq \in Nat /\ ack.rwnd \in Nat /\ ack.seq + ack.rwnd <= Room
      BY <1>4, RoomTypes DEF Grants
    <2> QED BY <1>2, <2>1 DEF Grants
  <1>5. WaitInv'
    <2> SUFFICES ASSUME Waiting'
                 PROVE  /\ \A pk \in OwnPackets' : IsEnd(pk)'
                        /\ streamId' = rId' => rwndSize' = 0 /\ ~attached'
                        /\ \A ack \in OwnAcks' : Grants(ack)' \/ AcksEnd(ack)'
      BY DEF WaitInv
    <2>1. \A pk \in OwnPackets' : IsEnd(pk)'
      BY <1>1, <1>3 DEF WaitInv, IsEnd
    <2>2. \A ack \in OwnAcks' : Grants(ack)' \/ AcksEnd(ack)'
      <3> TAKE ack \in OwnAcks'
      <3>1. Grants(ack)' \/ AcksEnd(ack)
        BY <1>3, <1>4 DEF WaitInv
      <3> QED BY <1>1, <3>1 DEF AcksEnd
    <2> QED BY <1>1, <2>1, <2>2 DEF WaitInv
  <1>6. OpenInv'
    <2> SUFFICES ASSUME Opened' PROVE Over' \/ Fits'
      BY DEF OpenInv
    <2>1. Over \/ Fits
      BY DEF OpenInv
    <2>2. CASE Over
      BY <1>1, <1>3, <2>2 DEF Over
    <2>3. CASE Fits
      <3>1. \A pk \in OwnPackets' : pk.seq + Len(pk.data) <= Room'
        <4> TAKE pk \in OwnPackets'
        <4>1. pk.seq \in Nat /\ Len(pk.data) \in Nat /\ pk.seq + Len(pk.data) <= Room
          BY <1>3, <2>3, RoomTypes DEF Fits
        <4> QED BY <1>2, <4>1
      <3>2. \A ack \in OwnAcks' : Grants(ack)'
        BY <1>3, <1>4, <2>3 DEF Fits
      <3>3. connected' => HeadPos' + rwndSize' <= Room'
        BY <1>1, <1>2, <2>3 DEF Fits
      <3> QED BY <2>3, <3>1, <3>2, <3>3 DEF Fits
    <2> QED BY <2>1, <2>2, <2>3
  <1> QED BY <1>5, <1>6

(* Steps after which no stream is attached or about to be. *)
LEMMA ElsewhereInRoom == ASSUME ~Waiting', ~Opened' PROVE WaitInv' /\ OpenInv'
  BY DEF WaitInv, OpenInv

-----------------------------------------------------------------------------
(* The end of the stream stays where it was found. *)
LEMMA EndMoves ==
  ASSUME [Next]_vars, ~WriteChunk, ~PtyYields
  PROVE  UNCHANGED <<total, terminalEvent, eofPos>>
  <1>1. CASE Wires
    BY <1>1, Zenon DEF Wires, ReceiveData, ReaderDrains, ReceiveAck, RecvAck, RecvFinAck, IgnoreAck,
       NoteUnusableAck, ApplyAck, smVars, bufVars, terminalVars, BufConsume
  <1>2. CASE Manager
    BY <1>2, Zenon DEF Manager, ManagerReads, ManagerWrites, ManagerSends, ManagerTransmits, ManagerSetsWindow,
       SignalSender, SenderExits, SenderWaits, SendData, SendTerminal, AckSetsWindow, bufVars, terminalVars,
       BufSetEffectiveWindow
  <1>3. CASE Output \/ Restart \/ LinkDrops \/ LinkReturns \/ CallTimesOut \/ FlushCache \/ ServerCrashes
             \/ UNCHANGED vars
    <2>1. UNCHANGED smVars
      BY <1>3, Zenon DEF Output, LoopReads, LoopAppends, LoopEnds, LateAppend, Restart, StatFile, CreateReader,
         Prepared, StreamWasDone, Started, RestartFails, LinkDrops, LinkReturns, CallTimesOut, FlushCache,
         ServerCrashes, vars
    <2> QED BY <2>1 DEF smVars, bufVars, terminalVars
  <1>4. CASE Prepare \/ HandlerReturns
    BY <1>4, Zenon DEF Prepare, PrepareBegins, PrepareDisconnects, PrepareConnects, PrepareIsRefused,
       PrepareConnecting, PrepareEnds, StartStream, HandlerReturns, ConnectReadsHead, ConnectConsumes,
       ConnectRereadsHead, ConnectSetsWindow, ClientDisconnected, SetRwndSize, BufSetEffectiveWindow, BufConsume,
       smVars, bufVars, terminalVars
  <1> QED BY <1>1, <1>2, <1>3, <1>4 DEF Next

LEMMA EndKept ==
  ASSUME IInv, DropInv, EndInv, [Next]_vars
  PROVE  EndInv' /\ (Gone => total' = total)
  <1>1. CASE WriteChunk
    <2>1. rl = "write" /\ UNCHANGED <<terminalEvent, eofPos>>
      BY <1>1 DEF WriteChunk, terminalVars
    <2>2. terminalEvent = "none"
      BY <2>1 DEF DropInv, SmLocal
    <2> QED BY <2>1, <2>2 DEF EndInv, Gone
  <1>2. CASE PtyYields
    <2>1. total' = total /\ (eofPos' = total \/ UNCHANGED <<terminalEvent, eofPos>>)
      BY <1>2, Zenon DEF PtyYields, ReadPty, PtyEnds, bufVars, terminalVars
    <2> QED BY <2>1 DEF EndInv
  <1>3. CASE ~WriteChunk /\ ~PtyYields
    BY <1>3, EndMoves DEF EndInv
  <1> QED BY <1>1, <1>2, <1>3

-----------------------------------------------------------------------------
(* The stream manager's steps that leave its window alone, and those of       *)
(* neither side. *)
LEMMA QuietInRoom ==
  ASSUME IInv, DropInv, EndInv, WaitInv, OpenInv, [Next]_vars, Grows, UNCHANGED readerVars,
         dataWire' \subseteq dataWire, ackWire' \subseteq ackWire,
         Waiting' => Waiting, Opened' => Opened, UNCHANGED <<streamId, rwndSize, attached>>,
         connected' => connected /\ HeadPos' = HeadPos
  PROVE  WaitInv' /\ OpenInv'
  <1>1. IInv' /\ (Gone => total' = total)
    BY InvKept, EndKept
  <1>2. Waiting' /\ streamId' = rId => rwndSize' = 0 /\ ~attached'
    BY DEF WaitInv
  <1>3. Opened /\ Fits /\ connected' => HeadPos' + rwndSize' <= Room
    BY DEF Fits
  <1>4. \A pk \in dataWire' \ dataWire : pk.id = rId =>
           /\ Waiting' => IsEnd(pk)'
           /\ Opened => pk.seq >= HeadPos /\ (Fits => pk.seq + Len(pk.data) <= Room)
    OBVIOUS
  <1> QED BY <1>1, <1>2, <1>3, <1>4, ManagerInRoom

LEMMA WorkInRoom ==
  ASSUME IInv, DropInv, RoomInv, ManagerReads \/ ManagerWrites \/ ManagerSends \/ ManagerSetsWindow
  PROVE  WaitInv' /\ OpenInv'
  <1>1. SmInv /\ SmLocal /\ EndInv /\ WaitInv /\ OpenInv /\ [Next]_vars
    BY DEF IInv, DropInv, RoomInv, Next, Manager
  <1>2. Grows
    BY <1>1, SmReadsOn, SmWritesOn, SmSendsOn DEF ManagerReads, ManagerWrites, ManagerSends, ManagerSetsWindow
  <1>3. /\ UNCHANGED <<readerVars, dataWire, ackWire, attached>> /\ UNCHANGED <<phase, request, reply>>
        /\ UNCHANGED <<streamId, rwndSize, connected>>
    <2>1. UNCHANGED <<readerVars, dataWire, ackWire, attached>> /\ UNCHANGED <<phase, request, reply>>
      BY DEF ManagerReads, ManagerWrites, ManagerSends, ManagerSetsWindow, linkVars, jmVars, callVars, serverVars
    <2>2. UNCHANGED <<streamId, rwndSize, connected>>
      BY Zenon DEF ManagerReads, ManagerWrites, ManagerSends, ManagerSetsWindow, PtyYields, ReadPty, PtyEnds,
         WriteChunk, SignalSender, SenderExits, SenderWaits, AckSetsWindow, clientVars
    <2> QED BY <2>1, <2>2
  <1>4. connected' => connected /\ HeadPos' = HeadPos
    BY <1>1, <1>3, HeadMovesByAck DEF ManagerReads, ManagerWrites, ManagerSends, ManagerSetsWindow
  <1>5. (Waiting' => Waiting) /\ (Opened' => Opened)
    BY <1>3 DEF Waiting, Opened
  <1> QED BY <1>1, <1>2, <1>3, <1>4, <1>5, QuietInRoom

(* Steps that leave the stream manager alone. *)
LEMMA StillInRoom ==
  ASSUME IInv, DropInv, RoomInv, [Next]_vars, UNCHANGED <<smVars, readerVars, attached>>,
         dataWire' \subseteq dataWire, ackWire' \subseteq ackWire, Waiting' => Waiting, Opened' => Opened
  PROVE  WaitInv' /\ OpenInv'
  <1>1. SmInv /\ SmLocal /\ EndInv /\ WaitInv /\ OpenInv
    BY DEF IInv, DropInv, RoomInv
  <1>2. Grows
    BY <1>1, SmResizesOn
  <1>3. UNCHANGED <<streamId, rwndSize, attached>> /\ UNCHANGED <<connected, HeadPos>>
    BY DEF smVars, bufVars, clientVars, HeadPos
  <1> QED BY <1>1, <1>2, <1>3, QuietInRoom

LEMMA SettlesInRoom ==
  ASSUME IInv, DropInv, RoomInv,
         \/ LinkDrops \/ LinkReturns \/ PrepareBegins \/ PrepareIsRefused \/ LoopAppends \/ LateAppend
         \/ FlushCache \/ StatFile \/ Started \/ UNCHANGED vars
  PROVE  WaitInv' /\ OpenInv'
  <1>1. [Next]_vars
    BY DEF Next, Prepare, Output, Restart
  <1>2. UNCHANGED <<smVars, readerVars, attached>>
    BY Zenon DEF LinkDrops, LinkReturns, PrepareBegins, PrepareIsRefused, LoopAppends, LateAppend, FlushCache,
       StatFile, Started, vars, jmVars
  <1>3. dataWire' \subseteq dataWire /\ ackWire' \subseteq ackWire
    BY DEF LinkDrops, LinkLost, LinkReturns, PrepareBegins, PrepareIsRefused, LoopAppends, LateAppend, FlushCache,
       StatFile, Started, vars, linkVars
  <1>4. (Waiting' => Waiting) /\ (Opened' => Opened)
    <2>1. CASE LinkDrops \/ LinkReturns \/ StatFile \/ Started
      BY <2>1 DEF LinkDrops, LinkReturns, StatFile, Started, Waiting, Opened, NoCall, Call, callVars, serverVars
    <2>2. CASE PrepareBegins \/ PrepareIsRefused
      BY <2>2 DEF PrepareBegins, PrepareIsRefused, Answer, Waiting, Opened, NoCall, Call, serverVars
    <2>3. CASE LoopAppends \/ LateAppend \/ FlushCache \/ UNCHANGED vars
      BY <2>3 DEF LoopAppends, LateAppend, FlushCache, vars, Waiting, Opened, callVars, serverVars
    <2> QED BY <2>1, <2>2, <2>3
  <1> QED BY <1>1, <1>2, <1>3, <1>4, StillInRoom

LEMMA ConnectsInRoom ==
  ASSUME IInv, DropInv, RoomInv, HandlerReturns \/ PrepareDisconnects \/ PrepareConnects \/ PrepareConnecting
  PROVE  WaitInv' /\ OpenInv'
  <1>1. SmInv /\ SmLocal /\ EndInv /\ WaitInv /\ OpenInv /\ [Next]_vars
    BY DEF IInv, DropInv, RoomInv, Next, Prepare
  <1>2. /\ UNCHANGED <<readerVars, dataWire, ackWire, attached>> /\ UNCHANGED <<phase, request, reply>>
        /\ UNCHANGED <<streamId, rwndSize>>
    <2>1. UNCHANGED <<readerVars, dataWire, ackWire, attached>> /\ UNCHANGED <<phase, request, reply>>
      BY DEF HandlerReturns, PrepareDisconnects, PrepareConnects, PrepareConnecting, linkVars, jmVars, callVars,
         serverVars
    <2>2. UNCHANGED <<streamId, rwndSize>>
      BY Zenon DEF HandlerReturns, PrepareDisconnects, PrepareConnects, PrepareConnecting, ClientDisconnected,
         ConnectReadsHead, ConnectConsumes, ConnectRereadsHead, smVars, clientVars
    <2> QED BY <2>1, <2>2
  <1>3. (Waiting' => Waiting) /\ (Opened' => Opened)
    BY <1>2 DEF Waiting, Opened
  <1>4. CASE HandlerReturns \/ PrepareDisconnects
    <2>1. ClientDisconnected \/ UNCHANGED smVars
      BY <1>4 DEF HandlerReturns, PrepareDisconnects
    <2>2. Grows
      BY <1>1, <2>1, SmResizesOn
    <2>3. connected' => connected /\ HeadPos' = HeadPos
      BY <2>1 DEF ClientDisconnected, smVars, clientVars, bufVars, HeadPos
    <2> QED BY <1>1, <1>2, <1>3, <2>2, <2>3, QuietInRoom
  <1>5. CASE PrepareConnects \/ PrepareConnecting
    <2>1. jmArg.id \in Nat /\ jmArg.on \in Nat /\ jmArg.seq \in Nat
      BY DEF IInv, ControlOK
    <2>2. \/ \E id, newSender, seq \in Nat : ConnectReadsHead(id, newSender, 0, seq)
          \/ ConnectConsumes \/ ConnectRereadsHead
      BY <1>5, <2>1 DEF PrepareConnects, PrepareConnecting
    <2>3. Grows
      BY <1>1, <2>2, SmConnectsOn
    <2>4. connected' = connected
      BY <2>2, Zenon DEF ConnectReadsHead, ConnectConsumes, ConnectRereadsHead, clientVars
    <2>5. connected' => connected /\ HeadPos' = HeadPos
      BY <1>1, <2>2, <2>4, HeadMovesByAck
    <2> QED BY <1>1, <1>2, <1>3, <2>3, <2>5, QuietInRoom
  <1> QED BY <1>4, <1>5

LEMMA AckMovesHead ==
  ASSUME SmInv, NEW ack, ack.seq \in Nat, ApplyAck(ack)
  PROVE  HeadPos' = ack.seq /\ rwndSize' = ack.rwnd
  <1>1. total \in Nat /\ count \in Nat /\ HeadPos \in Int /\ sentNotAcked \in Nat
    BY DEF SmInv, SmTypeOK, HeadPos
  <1>2. PICK n \in Nat : n = ack.seq - HeadPos /\ (IF n > 0 THEN BufConsume(n) ELSE UNCHANGED bufVars)
    <2>1. ack.seq - HeadPos \in 0 .. sentNotAcked
      BY DEF ApplyAck
    <2> QED BY <1>1, <2>1 DEF ApplyAck
  <1>3. total' = total /\ count' = count - n
    BY <1>1, <1>2 DEF BufConsume, bufVars
  <1>4. HeadPos' = ack.seq
    BY <1>1, <1>2, <1>3 DEF HeadPos
  <1> QED BY <1>4 DEF ApplyAck

-----------------------------------------------------------------------------
(* What the stream manager sends is within its window. *)
LEMMA DataInRoom ==
  ASSUME IInv, WaitInv, DataReady
  PROVE  /\ PacketSize \in Nat \ {0} /\ HeadPos + sentNotAcked \in Nat
         /\ HeadPos + sentNotAcked + PacketSize <= HeadPos + rwndSize
         /\ Waiting => streamId # rId
  <1>1. /\ HeadPos \in Nat /\ rwndSize \in Nat /\ count \in Nat /\ sentNotAcked \in Nat
    BY RoomTypes
  <1>2. /\ PacketSize \in Nat \ {0} /\ sentNotAcked + PacketSize <= rwndSize
    BY <1>1 DEF DataReady, PacketSize, AvailableToSend, EffectiveWindow
  <1>3. HeadPos + sentNotAcked \in Nat /\ HeadPos + sentNotAcked + PacketSize <= HeadPos + rwndSize /\ rwndSize # 0
    BY <1>1, <1>2
  <1> QED BY <1>2, <1>3 DEF WaitInv

LEMMA TransmitsInRoom ==
  ASSUME IInv, DropInv, RoomInv, ManagerTransmits PROVE WaitInv' /\ OpenInv'
  <1>1. SmInv /\ SmLocal /\ EndInv /\ WaitInv /\ OpenInv /\ [Next]_vars
    BY DEF IInv, DropInv, RoomInv, Next, Manager
  <1>2. IInv' /\ (Gone => total' = total)
    BY <1>1, InvKept, EndKept
  <1>3. Grows
    BY <1>1, SmSendsOn DEF ManagerTransmits
  <1>4. /\ UNCHANGED <<readerVars, ackWire, attached>> /\ UNCHANGED <<phase, request, reply>>
        /\ UNCHANGED <<streamId, rwndSize, connected>> /\ UNCHANGED <<total, count, rl>> /\ HeadPos' = HeadPos
    <2>1. UNCHANGED <<readerVars, ackWire, attached>> /\ UNCHANGED <<phase, request, reply>>
      BY DEF ManagerTransmits, jmVars, callVars, serverVars
    <2>2. UNCHANGED <<streamId, rwndSize, connected>> /\ UNCHANGED <<total, count, rl>>
      BY Zenon DEF ManagerTransmits, SendData, SendTerminal, clientVars, bufVars, readLoopVars
    <2> QED BY <2>1, <2>2 DEF HeadPos
  <1>5. (Waiting' => Waiting) /\ (Opened' => Opened)
    BY <1>4 DEF Waiting, Opened
  <1>6. Waiting' /\ streamId' = rId => rwndSize' = 0 /\ ~attached'
    BY <1>1, <1>4, <1>5 DEF WaitInv
  <1>7. Opened /\ Fits /\ connected' => HeadPos' + rwndSize' <= Room
    BY <1>4 DEF Fits
  <1>8. ASSUME NEW pk \in dataWire' \ dataWire, pk.id = rId
        PROVE  /\ Waiting' => IsEnd(pk)'
               /\ Opened => pk.seq >= HeadPos /\ (Fits => pk.seq + Len(pk.data) <= Room)
    <2>1. HeadPos \in Nat /\ rwndSize \in Nat /\ Room \in Int /\ sentNotAcked \in Nat /\ total \in Nat /\ count \in Nat
      BY RoomTypes
    <2>2. CASE SendData
      <3>1. PICK seq \in Nat, size \in Nat : seq = HeadPos + sentNotAcked /\ size = PacketSize
        BY <1>1, <2>2, DataInRoom DEF SendData
      <3>2. pk = DataPacket(seq, Positions(seq, size)) /\ connected
        BY <1>8, <2>2, <3>1 DEF SendData, Carried, DataReady
      <3>3. pk.id = streamId /\ pk.seq = seq /\ pk.data = Positions(seq, size)
        BY <3>2 DEF DataPacket
      <3>4. Len(pk.data) = size
        BY <3>3, PositionsType
      <3>5. ~Waiting /\ seq + size <= HeadPos + rwndSize
        BY <1>1, <1>8, <2>2, <3>1, <3>3, DataInRoom DEF SendData
      <3>6. seq >= HeadPos
        BY <2>1, <3>1
      <3>7. Fits => seq + size <= Room
        <4>1. Fits => HeadPos + rwndSize <= Room
          BY <3>2 DEF Fits
        <4> QED BY <2>1, <3>5, <4>1
      <3> QED BY <1>5, <3>3, <3>4, <3>5, <3>6, <3>7
    <2>3. CASE SendTerminal
      <3>1. pk = TerminalPacket /\ terminalEvent # "none" /\ count = 0 /\ connected
        BY <1>8, <2>3, Zenon DEF SendTerminal, Carried, TerminalReady
      <3>2. pk.seq = total /\ pk.data = <<>> /\ Len(pk.data) = 0
        BY <1>1, <3>1 DEF TerminalPacket, EndInv
      <3>3. Gone /\ HeadPos = total
        BY <1>1, <2>1, <3>1 DEF SmLocal, Gone, HeadPos
      <3>4. IsEnd(pk)'
        BY <1>4, <3>2, <3>3 DEF IsEnd, Gone
      <3>5. Fits => HeadPos <= Room
        <4>1. Fits => HeadPos + rwndSize <= Room
          BY <3>1 DEF Fits
        <4> QED BY <2>1, <4>1
      <3>6. pk.seq = HeadPos /\ pk.seq + Len(pk.data) = HeadPos /\ pk.seq >= HeadPos
        BY <2>1, <3>2, <3>3
      <3> QED BY <3>4, <3>5, <3>6
    <2> QED BY <2>2, <2>3 DEF ManagerTransmits
  <1> QED BY <1>1, <1>2, <1>3, <1>4, <1>5, <1>6, <1>7, <1>8, ManagerInRoom

(* An ack that moves the window gives no more than the reader granted. *)
LEMMA AckInRoom ==
  ASSUME IInv, DropInv, CallInv, RoomInv, ReceiveAck PROVE WaitInv' /\ OpenInv'
  <1>1. SmInv /\ SmLocal /\ EndInv /\ WaitInv /\ OpenInv /\ [Next]_vars
    BY DEF IInv, DropInv, RoomInv, Next, Wires
  <1>2. PICK ack \in ackWire :
          /\ ackWire' = ackWire \ {ack}
          /\ IF attached /\ ack.id = streamId THEN RecvAck(ack) ELSE UNCHANGED <<smVars, attached>>
          /\ UNCHANGED <<dataWire, readerVars, callVars, serverVars>>
    BY DEF ReceiveAck
  <1>3. ack \in Acks /\ ack.seq \in Nat /\ ack.rwnd \in Nat
    BY RoomTypes
  <1>4. (Waiting' => Waiting) /\ (Opened' => Opened)
    BY <1>2 DEF Waiting, Opened, callVars, serverVars
  <1>5. CASE ~(attached /\ ack.id = streamId)
    BY <1>1, <1>2, <1>4, <1>5, StillInRoom
  <1>6. CASE attached /\ ack.id = streamId
    <2>1. RecvAck(ack)
      BY <1>2, <1>6
    <2>2. Grows /\ IInv' /\ (Gone => total' = total)
      BY <1>1, <1>3, <2>1, SmAckedOn, InvKept, EndKept
    <2>3. streamId' = streamId /\ connected' = connected
      BY <2>1, Zenon DEF RecvAck, RecvFinAck, IgnoreAck, NoteUnusableAck, ApplyAck, smVars, clientVars
    <2>4. Waiting' /\ streamId' = rId => rwndSize' = 0 /\ ~attached'
      BY <1>1, <1>4, <1>6, <2>3 DEF WaitInv
    <2>5. ASSUME Opened, Fits, connected' PROVE HeadPos' + rwndSize' <= Room
      <3>1. CASE RecvFinAck(ack) \/ IgnoreAck(ack) \/ NoteUnusableAck(ack)
        <4>1. UNCHANGED <<bufVars, clientVars>>
          BY <3>1, Zenon DEF RecvFinAck, IgnoreAck, NoteUnusableAck, smVars
        <4>2. HeadPos' = HeadPos /\ rwndSize' = rwndSize
          BY <4>1 DEF bufVars, clientVars, HeadPos
        <4> QED BY <2>3, <2>5, <4>2 DEF Fits
      <3>2. CASE ApplyAck(ack)
        <4>1. HeadPos' = ack.seq /\ rwndSize' = ack.rwnd
          BY <1>1, <1>3, <3>2, AckMovesHead
        <4>2. ack.id = rId
          BY <1>6, <2>5 DEF CallInv
        <4>3. Grants(ack)
          BY <2>5, <4>2 DEF Fits, OwnAcks
        <4> QED BY <4>1, <4>3 DEF Grants
      <3> QED BY <2>1, <3>1, <3>2 DEF RecvAck
    <2>6. \A pk \in dataWire' \ dataWire : pk.id = rId =>
             /\ Waiting' => IsEnd(pk)'
             /\ Opened => pk.seq >= HeadPos /\ (Fits => pk.seq + Len(pk.data) <= Room)
      BY <1>2
    <2> QED BY <1>1, <1>2, <1>4, <2>2, <2>4, <2>5, <2>6, ManagerInRoom
  <1> QED BY <1>5, <1>6

(* PrepareConnect ends with the window closed. *)
LEMMA CorksInRoom ==
  ASSUME IInv, DropInv, CallInv, RoomInv, PrepareEnds PROVE WaitInv' /\ OpenInv'
  <1>1. SmInv /\ SmLocal /\ EndInv /\ WaitInv /\ OpenInv /\ [Next]_vars
    BY DEF IInv, DropInv, RoomInv, Next, Prepare
  <1>2. ConnectSetsWindow /\ attached' = FALSE /\ UNCHANGED <<dataWire, ackWire, readerVars, phase, request>>
        /\ (reply' = reply \/ reply'.kind = "prepared")
    BY DEF PrepareEnds, Answer, Call, linkVars, serverVars
  <1>3. Grows /\ IInv' /\ (Gone => total' = total)
    BY <1>1, <1>2, SmConnectsOn, InvKept, EndKept
  <1>4. (Waiting' => Waiting) /\ ~Opened /\ ~Opened'
    <2>1. ~Opened
      BY DEF PrepareEnds, CallInv
    <2> QED BY <1>2, <2>1 DEF Waiting, Opened
  <1>5. rwndSize' = 0
    BY <1>1, <1>2 DEF ConnectSetsWindow, SmInv
  <1>6. \A pk \in dataWire' \ dataWire : pk.id = rId =>
           /\ Waiting' => IsEnd(pk)'
           /\ Opened => pk.seq >= HeadPos /\ (Fits => pk.seq + Len(pk.data) <= Room)
    BY <1>2
  <1> QED BY <1>1, <1>2, <1>3, <1>4, <1>5, <1>6, ManagerInRoom

(* StartStream opens the window over an empty reader. *)
LEMMA StartsInRoom ==
  ASSUME IInv, DropInv, CallInv, RoomInv, StartStream PROVE WaitInv' /\ OpenInv'
  <1>1. /\ request.kind = "start" /\ request'.kind = "none" /\ UNCHANGED <<dataWire, ackWire, readerVars, phase>>
        /\ IF connected THEN SetRwndSize(ReadWindow)
                        ELSE reply'.kind = "failed"
    BY DEF StartStream, NoCall, Call, linkVars, serverVars
  <1>2. phase \in {"starting", "stuck"}
    BY <1>1 DEF CallInv
  <1>3. ~Waiting'
    BY <1>1, <1>2 DEF Waiting
  <1>4. CASE ~connected \/ phase = "stuck"
    <2>1. ~Opened'
      BY <1>1, <1>2, <1>4 DEF Opened
    <2> QED BY <1>3, <2>1, ElsewhereInRoom
  <1>5. CASE connected /\ phase = "starting"
    <2>1. SetRwndSize(ReadWindow)
      BY <1>1, <1>5
    <2>2. rwndSize' = ReadWindow /\ UNCHANGED <<total, count>>
      BY <2>1 DEF SetRwndSize, BufSetEffectiveWindow
    <2>3. HeadPos' = HeadPos
      BY <2>2 DEF HeadPos
    <2>4. /\ rBuffer = <<>> /\ (\A pk \in OwnPackets : IsEnd(pk))
          /\ \A ack \in OwnAcks : Grants(ack) \/ AcksEnd(ack)
      BY <1>1, <1>5 DEF RoomInv, WaitInv, Waiting
    <2>5. UNCHANGED <<rBuffer, rNextSeq, ReadPosition, Room>> /\ UNCHANGED <<OwnPackets, OwnAcks>>
      BY <1>1 DEF readerVars, ReadPosition, Room, OwnPackets, OwnAcks
    <2>6. /\ HeadPos \in Nat /\ rNextSeq \in Nat /\ total \in Nat /\ count \in Nat /\ count <= total
          /\ Room = rNextSeq + ReadWindow /\ Len(rBuffer) = 0
      <3>1. HeadPos \in Nat /\ rNextSeq \in Nat /\ total \in Nat /\ count \in Nat /\ count <= total
        BY Numbers
      <3>2. Len(rBuffer) = 0
        BY <2>4
      <3>3. ReadPosition = rNextSeq
        BY <3>1, <3>2 DEF ReadPosition
      <3> QED BY <3>1, <3>2, <3>3 DEF Room
    <2>7. HeadPos <= total /\ (Gone => HeadPos = total)
      BY <2>6 DEF HeadPos, Gone
    <2>8. CASE HeadPos > rNextSeq
      <3>1. ASSUME NEW pk \in OwnPackets PROVE pk.seq > rNextSeq
        BY <2>4, <2>6, <2>7, <2>8 DEF IsEnd
      <3>2. Over'
        BY <2>3, <2>5, <2>8, <3>1 DEF Over
      <3> QED BY <1>3, <3>2 DEF OpenInv, WaitInv
    <2>9. CASE HeadPos <= rNextSeq
      <3>1. HeadPos + ReadWindow <= Room /\ HeadPos <= Room
        BY <2>6, <2>9
      <3>2. ASSUME NEW pk \in OwnPackets PROVE pk.seq + Len(pk.data) <= Room
        <4>1. pk.seq = HeadPos /\ Len(pk.data) = 0
          BY <2>4, <2>7 DEF IsEnd
        <4> QED BY <2>6, <3>1, <4>1
      <3>3. ASSUME NEW ack \in OwnAcks PROVE Grants(ack)
        <4>1. AcksEnd(ack) => ack.seq = HeadPos /\ ack.rwnd = 0
          BY <2>7 DEF AcksEnd
        <4>2. AcksEnd(ack) => ack.seq + ack.rwnd <= Room
          BY <2>6, <3>1, <4>1
        <4> QED BY <2>4, <4>2 DEF Grants
      <3>4. Len(rBuffer) <= ReadWindow
        BY <2>6
      <3>5. Fits'
        BY <2>2, <2>3, <2>5, <3>1, <3>2, <3>3, <3>4 DEF Fits, Grants
      <3> QED BY <1>3, <3>5 DEF OpenInv, WaitInv
    <2> QED BY <2>6, <2>8, <2>9
  <1> QED BY <1>2, <1>4, <1>5

-----------------------------------------------------------------------------
(* What the reader takes fits, and it grants what it has left. *)
LEMMA LeftInWindow ==
  ASSUME NEW buffer \in Seq(Nat), Len(buffer) <= ReadWindow
  PROVE  RwndFor(buffer) = ReadWindow - Len(buffer)
  <1>1. PICK n \in Nat : n = Len(buffer)
    OBVIOUS
  <1> QED BY <1>1 DEF RwndFor

LEMMA GrantsRoom ==
  ASSUME IInv, Len(rBuffer) <= ReadWindow PROVE rNextSeq + CurrentRwnd = Room
  <1>1. CurrentRwnd = ReadWindow - Len(rBuffer)
    BY RoomTypes, LeftInWindow DEF CurrentRwnd
  <1>2. PICK n \in Nat, r \in Int : n = Len(rBuffer) /\ r = ReadPosition /\ rNextSeq = r + n
    BY RoomTypes
  <1> QED BY <1>1, <1>2 DEF Room

LEMMA TakesInRoom ==
  ASSUME IInv, NEW pk \in OwnPackets, pk.seq = rNextSeq, TakeData(pk)
  PROVE  /\ ReadPosition' = ReadPosition
         /\ pk.data = <<>> => rBuffer' = rBuffer
         /\ ~Over
         /\ Fits => Len(rBuffer') <= ReadWindow
  <1>1. pk \in dataWire \cup rOoo /\ pk \in Packets /\ GoodPacket(pk) /\ ReaderInv
    BY Numbers DEF OwnPackets, IInv, WireInv, ReaderInv
  <1>2. ReadPosition' = ReadPosition /\ (pk.data = <<>> => rBuffer' = rBuffer)
    BY <1>1, RdTakes
  <1>3. ~Over
    BY <1>1, RoomTypes DEF Over
  <1>4. ASSUME Fits PROVE Len(rBuffer') <= ReadWindow
    <2>1. PICK n \in Nat, m \in Nat, r \in Int :
            n = Len(rBuffer) /\ m = Len(pk.data) /\ r = ReadPosition /\ rNextSeq = r + n
      BY <1>1, RoomTypes
    <2>2. rBuffer \in Seq(Nat) /\ pk.data \in Seq(Nat) /\ rBuffer' = rBuffer \o pk.data
      BY <1>1, RoomTypes DEF TakeData
    <2>3. Len(rBuffer') = n + m
      BY <2>1, <2>2
    <2>4. pk.seq + m <= Room
      BY <1>4, <2>1 DEF Fits
    <2>5. r + n + m <= r + ReadWindow
      BY <2>1, <2>4 DEF Room
    <2>6. n + m <= ReadWindow
      BY <2>5
    <2> QED BY <2>3, <2>6
  <1> QED BY <1>2, <1>3, <1>4

LEMMA DataArrivesInRoom ==
  ASSUME IInv, DropInv, RoomInv, ReceiveData PROVE WaitInv' /\ OpenInv'
  <1>1. WaitInv /\ OpenInv /\ [Next]_vars /\ IInv'
    <2>1. [Next]_vars
      BY DEF Next, Wires
    <2> QED BY <2>1, InvKept DEF RoomInv
  <1>2. PICK pk \in dataWire :
          /\ dataWire' = dataWire \ {pk} /\ RecvData(pk)
          /\ UNCHANGED <<smVars, attached>> /\ UNCHANGED <<phase, request, reply>>
    BY DEF ReceiveData, jmVars, serverVars, callVars
  <1>3. /\ pk \in Packets /\ GoodPacket(pk) /\ ReaderInv /\ ackWire \subseteq Acks
        /\ pk.seq \in Nat /\ Len(pk.data) \in Nat
    BY Numbers DEF IInv, WireInv, Packets
  <1>4. rId' = rId /\ rOoo' \subseteq rOoo \cup {pk} /\ (Waiting' => Waiting) /\ (Opened' => Opened)
    BY <1>2, <1>3, RdReceives DEF Waiting, Opened
  <1>5. dataWire' \cup rOoo' \subseteq dataWire \cup rOoo
    BY <1>2, <1>4
  <1>6. CASE RecvInOrder(pk)
    <2>1. pk \in OwnPackets /\ pk.seq = rNextSeq /\ TakeData(pk) /\ ackWire' = ackWire
      BY <1>2, <1>6 DEF RecvInOrder, Accepts, InOrder, OwnPackets
    <2>2. ReadPosition' = ReadPosition /\ ~Over /\ (Fits => Len(rBuffer') <= ReadWindow)
          /\ (pk.data = <<>> => rBuffer' = rBuffer)
      BY <2>1, TakesInRoom
    <2>3. ReadPosition' >= ReadPosition
      BY <2>2, RoomTypes
    <2>4. Waiting' => Waiting /\ rBuffer' = <<>>
      BY <1>1, <1>4, <2>1, <2>2 DEF WaitInv, IsEnd
    <2> QED BY <1>1, <1>2, <1>4, <1>5, <2>1, <2>2, <2>3, <2>4, ReaderInRoom
  <1>7. CASE IgnoreData(pk) \/ ReaderNotFound(pk) \/ RecvError(pk) \/ RecvEarly(pk)
    <2>1. UNCHANGED <<rNextSeq, rBuffer>>
      BY <1>7 DEF IgnoreData, ReaderNotFound, RecvError, RecvEarly, readerVars
    <2>2. ReadPosition' = ReadPosition /\ Room' = Room
      BY <2>1 DEF ReadPosition, Room
    <2>3. ReadPosition' >= ReadPosition
      BY <2>2, RoomTypes
    <2>4. Waiting' => Waiting /\ rBuffer' = <<>>
      BY <1>1, <1>4, <2>1 DEF WaitInv
    <2>5. Opened /\ Fits => Len(rBuffer') <= ReadWindow
      BY <2>1 DEF Fits
    <2>6. ASSUME NEW ack \in ackWire' \ ackWire
          PROVE  /\ Waiting => Grants(ack)' \/ AcksEnd(ack)
                 /\ Opened /\ Fits => Grants(ack)'
      <3>1. CASE ReaderNotFound(pk)
        <4>1. ack.seq = pk.seq /\ ack.rwnd = 0 /\ pk \in OwnPackets
          <5>1. pk.id = rId /\ ackWire' = Carried(ackWire, AckPacket(pk.seq, 0, FALSE, TRUE), rLink)
            BY <3>1 DEF ReaderNotFound
          <5>2. ack.seq = pk.seq /\ ack.rwnd = 0
            BY <2>6, <5>1 DEF Carried, AckPacket
          <5> QED BY <5>1, <5>2 DEF OwnPackets
        <4>2. Waiting => AcksEnd(ack)
          BY <1>1, <4>1 DEF WaitInv, IsEnd, AcksEnd
        <4>3. Fits => ack.seq + ack.rwnd <= Room
          <5>1. Fits => pk.seq + Len(pk.data) <= Room
            BY <4>1 DEF Fits
          <5> QED BY <1>3, <4>1, <5>1, RoomTypes
        <4> QED BY <2>2, <4>2, <4>3 DEF Grants
      <3>2. CASE RecvError(pk)
        <4>1. ack.seq = rNextSeq /\ ack.rwnd = CurrentRwnd
          BY <2>6, <3>2 DEF RecvError, SendAck, Carried, AckPacket
        <4>2. Len(rBuffer) <= ReadWindow => Grants(ack)'
          <5>1. Len(rBuffer) <= ReadWindow => ack.seq + ack.rwnd = Room
            BY <4>1, GrantsRoom
          <5> QED BY <2>2, <5>1, RoomTypes DEF Grants
        <4>3. Waiting => Len(rBuffer) <= ReadWindow
          BY <1>1 DEF WaitInv
        <4>4. Fits => Len(rBuffer) <= ReadWindow
          BY DEF Fits
        <4> QED BY <4>2, <4>3, <4>4
      <3>3. CASE IgnoreData(pk) \/ RecvEarly(pk)
        BY <2>6, <3>3 DEF IgnoreData, RecvEarly
      <3> QED BY <1>7, <3>1, <3>2, <3>3
    <2> QED BY <1>1, <1>2, <1>4, <1>5, <2>1, <2>3, <2>4, <2>5, <2>6, ReaderInRoom
  <1> QED BY <1>2, <1>6, <1>7 DEF RecvData

(* An ack for what the reader has, with all the room it has left. *)
LEMMA AckingInRoom ==
  ASSUME IInv, IInv', WaitInv, OpenInv, UNCHANGED <<smVars, attached>>, UNCHANGED <<rId, rNextSeq, rBuffer>>,
         dataWire' \cup rOoo' \subseteq dataWire \cup rOoo, Waiting' => Waiting, Opened' => Opened,
         NEW fin, NEW cancel, SendAck(rNextSeq, CurrentRwnd, fin, cancel)
  PROVE  WaitInv' /\ OpenInv'
  <1>1. ReadPosition' = ReadPosition /\ Room' = Room
    BY DEF ReadPosition, Room
  <1>2. ReadPosition' >= ReadPosition
    BY <1>1, RoomTypes
  <1>3. Waiting => Len(rBuffer) <= ReadWindow
    BY DEF WaitInv
  <1>4. Fits => Len(rBuffer) <= ReadWindow
    BY DEF Fits
  <1>5. ASSUME NEW ack \in ackWire' \ ackWire
        PROVE  Len(rBuffer) <= ReadWindow => Grants(ack)'
    <2>1. ack.seq = rNextSeq /\ ack.rwnd = CurrentRwnd
      BY <1>5 DEF SendAck, Carried, AckPacket
    <2>2. Len(rBuffer) <= ReadWindow => ack.seq + ack.rwnd = Room
      BY <2>1, GrantsRoom
    <2> QED BY <1>1, <2>2, RoomTypes DEF Grants
  <1>6. Waiting' => Waiting /\ rBuffer' = <<>>
    BY DEF WaitInv
  <1>7. UNCHANGED <<smVars, attached, rId>>
    OBVIOUS
  <1> QED BY <1>2, <1>3, <1>4, <1>5, <1>6, <1>7, ReaderInRoom

LEMMA DataDrainsInRoom ==
  ASSUME IInv, DropInv, RoomInv, ReaderDrains PROVE WaitInv' /\ OpenInv'
  <1>1. WaitInv /\ OpenInv /\ IInv'
    <2>1. [Next]_vars
      BY DEF Next, Wires
    <2> QED BY <2>1, InvKept DEF RoomInv
  <1>2. UNCHANGED <<dataWire, smVars, attached>> /\ UNCHANGED <<phase, request, reply>>
    BY DEF ReaderDrains, jmVars, serverVars, callVars
  <1>3. rId' = rId /\ rOoo' \subseteq rOoo /\ (Waiting' => Waiting) /\ (Opened' => Opened)
    BY <1>2, RdDrains DEF IInv, WireInv, ReaderDrains, Waiting, Opened
  <1>4. dataWire' \cup rOoo' \subseteq dataWire \cup rOoo
    BY <1>2, <1>3
  <1>5. CASE DrainOne
    <2>1. PICK pk \in rOoo : pk.seq = rNextSeq /\ TakeData(pk) /\ ackWire' = ackWire
      BY <1>5 DEF DrainOne, NextWaiting
    <2>2. pk \in OwnPackets
      BY DEF IInv, ReaderInv, OwnPackets
    <2>3. ReadPosition' = ReadPosition /\ ~Over /\ (Fits => Len(rBuffer') <= ReadWindow)
          /\ (pk.data = <<>> => rBuffer' = rBuffer)
      BY <2>1, <2>2, TakesInRoom
    <2>4. ReadPosition' >= ReadPosition
      BY <2>3, RoomTypes
    <2>5. Waiting' => Waiting /\ rBuffer' = <<>>
      BY <1>1, <1>3, <2>2, <2>3 DEF WaitInv, IsEnd
    <2> QED BY <1>1, <1>2, <1>3, <1>4, <2>1, <2>3, <2>4, <2>5, ReaderInRoom
  <1>6. CASE FinishRecv
    <2>1. SendAck(rNextSeq, CurrentRwnd, rEof, FALSE) /\ UNCHANGED <<rNextSeq, rBuffer>>
      BY <1>6 DEF FinishRecv
    <2> QED BY <1>1, <1>2, <1>3, <1>4, <2>1, AckingInRoom
  <1> QED BY <1>5, <1>6 DEF ReaderDrains

LEMMA ClosesInRoom ==
  ASSUME IInv, DropInv, RoomInv, LoopEnds PROVE WaitInv' /\ OpenInv'
  <1>1. WaitInv /\ OpenInv /\ IInv'
    <2>1. [Next]_vars
      BY DEF Next, Output
    <2> QED BY <2>1, InvKept DEF RoomInv
  <1>2. /\ Close /\ UNCHANGED <<dataWire, smVars, attached>> /\ UNCHANGED <<phase, request, reply>>
    BY DEF LoopEnds, jmVars, callVars
  <1>3. /\ SendAck(rNextSeq, CurrentRwnd, FALSE, TRUE) /\ UNCHANGED <<rId, rNextSeq, rBuffer, rOoo>>
    BY <1>2 DEF Close
  <1>4. (Waiting' => Waiting) /\ (Opened' => Opened)
    BY <1>2 DEF Waiting, Opened
  <1> QED BY <1>1, <1>2, <1>3, <1>4, AckingInRoom

LEMMA ReadsFurther ==
  ASSUME IInv, Read
  PROVE  /\ ReadPosition' >= ReadPosition /\ Len(rBuffer') <= Len(rBuffer)
         /\ Len(rBuffer') \in Nat /\ Unread \in Seq(Nat) /\ Unread = rBuffer' /\ Room' = rNextSeq - Len(rBuffer') + ReadWindow
  <1> DEFINE n == Len(rBuffer)
  <1> DEFINE k == Lesser(ReadSize, n)
  <1>1. rBuffer \in Seq(Nat) /\ rNextSeq \in Nat /\ n \in Nat /\ k \in 0 .. n
    BY RoomTypes
  <1>2. Readable = SubSeq(rBuffer, 1, k) /\ rBuffer' = Unread /\ rNextSeq' = rNextSeq
    BY DEF Read, Readable
  <1>3. Len(Readable) = k
    <2>1. \A i \in 1 .. k : rBuffer[i] \in Nat
      BY <1>1
    <2> HIDE DEF k, n
    <2> QED BY <1>1, <1>2, <2>1, SubSeqProperties
  <1>4. Unread \in Seq(Nat) /\ Len(Unread) = n - k
    <2>1. Unread = SubSeq(rBuffer, k + 1, n)
      BY <1>3 DEF Unread
    <2>2. \A i \in (k + 1) .. n : rBuffer[i] \in Nat
      BY <1>1
    <2>3. Len(SubSeq(rBuffer, k + 1, n)) = n - k /\ SubSeq(rBuffer, k + 1, n) \in Seq(Nat)
      <3> HIDE DEF k, n
      <3> QED BY <1>1, <2>2, SubSeqProperties
    <2> QED BY <2>1, <2>3
  <1>5. PICK m \in Nat : m = Len(rBuffer') /\ m <= n
    <2>1. n - k \in 0 .. n
      BY <1>1
    <2> HIDE DEF k, n
    <2> QED BY <1>2, <1>4, <2>1
  <1>6. ReadPosition' = rNextSeq - m /\ ReadPosition = rNextSeq - n
    BY <1>2, <1>5, Zenon DEF ReadPosition
  <1>7. ReadPosition' >= ReadPosition
    <2> HIDE DEF k, n
    <2> QED BY <1>1, <1>5, <1>6
  <1>8. Room' = rNextSeq - m + ReadWindow
    BY <1>6, Zenon DEF Room
  <1> QED BY <1>2, <1>4, <1>5, <1>7, <1>8

LEMMA ReadsInRoom ==
  ASSUME IInv, DropInv, RoomInv, LoopReads PROVE WaitInv' /\ OpenInv'
  <1>1. WaitInv /\ OpenInv /\ IInv'
    <2>1. [Next]_vars
      BY DEF Next, Output
    <2> QED BY <2>1, InvKept DEF RoomInv
  <1>2. /\ Read /\ UNCHANGED <<dataWire, smVars, attached>> /\ UNCHANGED <<phase, request, reply>>
    BY DEF LoopReads, jmVars, serverVars, callVars
  <1>3. /\ UNCHANGED <<rId, rNextSeq, rOoo>>
        /\ \/ ackWire' = ackWire
           \/ ackWire' = Carried(ackWire, AckPacket(rNextSeq, RwndFor(Unread), FALSE, FALSE), rLink)
    BY <1>2, Zenon DEF Read, SendAck
  <1>4. (Opened' => Opened) /\ (Waiting' => Waiting)
    BY <1>2 DEF Waiting, Opened
  <1>5. ~Waiting
    BY <1>1, <1>2, RdReads DEF IInv, WireInv, WaitInv
  <1>6. /\ ReadPosition' >= ReadPosition /\ Len(rBuffer') <= Len(rBuffer)
        /\ Len(rBuffer') \in Nat /\ Unread \in Seq(Nat) /\ Unread = rBuffer'
        /\ Room' = rNextSeq - Len(rBuffer') + ReadWindow
    BY <1>2, ReadsFurther
  <1>7. Fits => Len(rBuffer') <= ReadWindow
    <2>1. PICK m \in Nat, n \in Nat : m = Len(rBuffer') /\ n = Len(rBuffer) /\ m <= n
      BY <1>6, RoomTypes
    <2>2. Fits => n <= ReadWindow
      BY <2>1 DEF Fits
    <2>3. Fits => m <= ReadWindow
      BY <2>1, <2>2
    <2> QED BY <2>1, <2>3
  <1>8. ASSUME NEW ack \in ackWire' \ ackWire, Fits PROVE Grants(ack)'
    <2>1. ack.seq = rNextSeq /\ ack.rwnd = RwndFor(Unread)
      BY <1>3, <1>8 DEF Carried, AckPacket
    <2>2. PICK m \in Nat : m = Len(Unread) /\ m <= ReadWindow /\ Room' = rNextSeq - m + ReadWindow
      BY <1>6, <1>7, <1>8
    <2>3. ack.rwnd = ReadWindow - m
      BY <1>6, <2>1, <2>2, LeftInWindow
    <2>4. ack.seq + ack.rwnd <= rNextSeq - m + ReadWindow
      <3>1. rNextSeq \in Nat /\ ReadWindow \in Nat
        BY RoomTypes
      <3>2. rNextSeq + (ReadWindow - m) <= rNextSeq - m + ReadWindow
        BY <3>1
      <3> QED BY <2>1, <2>3, <3>2
    <2> QED BY <2>2, <2>4 DEF Grants
  <1>9. dataWire' \cup rOoo' \subseteq dataWire \cup rOoo
    BY <1>2, <1>3
  <1> QED BY <1>1, <1>2, <1>3, <1>4, <1>5, <1>6, <1>7, <1>8, <1>9, ReaderInRoom

(* The answer of PrepareConnect moves an empty reader. *)
LEMMA PreparedInRoom ==
  ASSUME IInv, DropInv, RoomInv, Prepared PROVE WaitInv' /\ OpenInv'
  <1>1. WaitInv /\ OpenInv /\ IInv'
    <2>1. [Next]_vars
      BY DEF Next, Restart
    <2> QED BY <2>1, InvKept DEF RoomInv
  <1>2. /\ phase = "preparing" /\ phase' = "starting" /\ reply'.kind = "none"
        /\ UNCHANGED <<dataWire, smVars, attached>>
        /\ IF reply.seq > wantSeq THEN UpdateNextSeq(reply.seq) ELSE UNCHANGED <<readerVars, ackWire>>
    BY DEF Prepared, NoCall, jmVars
  <1>3. /\ rNextSeq \in Nat /\ reply.seq \in Nat /\ rNextSeq = wantSeq
    BY <1>2, Numbers DEF DropInv, PrepareInv, Calls
  <1>4. /\ UNCHANGED <<rId, rBuffer, rOoo, ackWire>>
        /\ rNextSeq' = rNextSeq \/ (rNextSeq' = reply.seq /\ reply.seq > wantSeq)
    BY <1>2, Zenon DEF UpdateNextSeq, readerVars
  <1>5. Waiting /\ ~Opened /\ ~Opened' /\ rBuffer = <<>>
    BY <1>1, <1>2 DEF Waiting, Opened, WaitInv
  <1>6. ReadPosition' >= ReadPosition
    <2>1. PICK next \in Nat : next = rNextSeq' /\ next >= rNextSeq
      BY <1>3, <1>4
    <2>2. Len(rBuffer) = 0 /\ Len(rBuffer') = 0
      BY <1>4, <1>5
    <2>3. ReadPosition = rNextSeq - 0 /\ ReadPosition' = next - 0
      BY <2>1, <2>2, Zenon DEF ReadPosition
    <2>4. next - 0 >= rNextSeq - 0
      <3>1. next \in Nat /\ rNextSeq \in Nat /\ next >= rNextSeq
        BY <1>3, <2>1
      <3> QED BY <3>1
    <2> QED BY <2>3, <2>4
  <1>7. dataWire' \cup rOoo' \subseteq dataWire \cup rOoo
    BY <1>2, <1>4
  <1> QED BY <1>1, <1>2, <1>4, <1>5, <1>6, <1>7, ReaderInRoom

LEMMA LeavesRoom ==
  ASSUME StreamWasDone \/ RestartFails \/ CallTimesOut \/ ServerCrashes PROVE WaitInv' /\ OpenInv'
  <1>1. phase' \in {"done", "lost", "stuck"}
    BY DEF StreamWasDone, RestartFails, CallTimesOut, ServerCrashes
  <1> QED BY <1>1, ElsewhereInRoom DEF Waiting, Opened

(* Nothing under way is of a stream that was not yet asked for. *)
LEMMA CreatesRoom == ASSUME IInv, DropInv, CreateReader PROVE WaitInv' /\ OpenInv'
  <1>1. /\ rId' = rId + 1 /\ rBuffer' = <<>> /\ rOoo' = {} /\ phase' = "preparing"
        /\ UNCHANGED <<smVars, ackWire, dataWire>>
    BY DEF CreateReader, NewReader, linkVars
  <1>2. rId \in Nat /\ streamId \in Nat /\ streamId <= rId /\ streamId' = streamId
    BY <1>1, IdsAreNumbers DEF IInv, Ids, smVars, clientVars
  <1>3. OwnPackets' = {}
    <2>1. \A pk \in dataWire : pk.id \in Nat /\ pk.id <= rId
      BY DEF IInv, WireInv, Packets
    <2> QED BY <1>1, <1>2, <2>1 DEF OwnPackets
  <1>4. OwnAcks' = {}
    <2>1. \A ack \in ackWire : ack.id \in Nat /\ ack.id <= rId
      BY DEF IInv, WireInv, Acks, DropInv, AckInv
    <2> QED BY <1>1, <1>2, <2>1 DEF OwnAcks
  <1>5. streamId' # rId'
    BY <1>1, <1>2
  <1> QED BY <1>1, <1>3, <1>4, <1>5 DEF WaitInv, OpenInv, Opened

-----------------------------------------------------------------------------
LEMMA RoomHolds == Init => CallInv /\ RoomInv
  <1> SUFFICES ASSUME Init PROVE CallInv /\ RoomInv
    OBVIOUS
  <1>1. /\ link = 1 /\ conns = 1 /\ jm = "idle" /\ request.kind = "none" /\ reply.kind = "none"
        /\ phase = "attached" /\ streamId = 1 /\ rId = 1
    BY DEF Init, LinkInit, SmInit, ReaderInit, NoCall
  <1>2. /\ dataWire = {} /\ ackWire = {} /\ rOoo = {} /\ rBuffer = <<>> /\ rNextSeq = 0
        /\ total = 0 /\ count = 0 /\ rwndSize = ReadWindow /\ terminalEvent = "none"
    BY DEF Init, LinkInit, SmInit, ReaderInit
  <1>3. CallInv
    BY <1>1 DEF CallInv, Handling, Opened
  <1>4. OwnPackets = {} /\ OwnAcks = {}
    BY <1>2 DEF OwnPackets, OwnAcks
  <1>5. Len(rBuffer) = 0 /\ HeadPos = 0 /\ Room = ReadWindow
    <2>1. Len(rBuffer) = 0
      BY <1>2
    <2> QED BY <1>2, <2>1 DEF HeadPos, Room, ReadPosition
  <1>6. Fits
    BY <1>2, <1>4, <1>5 DEF Fits
  <1>7. RoomInv
    BY <1>1, <1>2, <1>6 DEF RoomInv, EndInv, WaitInv, OpenInv, Waiting
  <1> QED BY <1>3, <1>7

LEMMA RoomKept == IInv /\ DropInv /\ CallInv /\ RoomInv /\ [Next]_vars => RoomInv'
  <1> SUFFICES ASSUME IInv, DropInv, CallInv, RoomInv, [Next]_vars PROVE RoomInv'
    OBVIOUS
  <1>1. EndInv'
    BY EndKept DEF RoomInv
  <1>2. CASE Wires
    BY <1>1, <1>2, DataArrivesInRoom, DataDrainsInRoom, AckInRoom DEF Wires, RoomInv
  <1>3. CASE Manager
    BY <1>1, <1>3, WorkInRoom, TransmitsInRoom DEF Manager, RoomInv
  <1>4. CASE Output
    BY <1>1, <1>4, ReadsInRoom, SettlesInRoom, ClosesInRoom DEF Output, RoomInv
  <1>5. CASE Prepare
    BY <1>1, <1>5, SettlesInRoom, ConnectsInRoom, CorksInRoom, StartsInRoom DEF Prepare, RoomInv
  <1>6. CASE Restart
    BY <1>1, <1>6, SettlesInRoom, CreatesRoom, PreparedInRoom, LeavesRoom DEF Restart, RoomInv
  <1>7. CASE LinkDrops \/ LinkReturns \/ HandlerReturns \/ FlushCache \/ UNCHANGED vars
    BY <1>1, <1>7, SettlesInRoom, ConnectsInRoom DEF RoomInv
  <1>8. CASE CallTimesOut \/ ServerCrashes
    BY <1>1, <1>8, LeavesRoom DEF RoomInv
  <1> QED BY <1>2, <1>3, <1>4, <1>5, <1>6, <1>7, <1>8 DEF Next

(* prepareNextPacket against the window of StreamReader's acks: across        *)
(* reconnections, stale acks and overtaken ones, what is sent for the reader  *)
(* that is attached fits into what it has room for.                           *)
THEOREM OverrunNever == Spec => []NoOverrun
  <1>1. IInv /\ RoomInv => NoOverrun
    <2> SUFFICES ASSUME IInv, RoomInv, phase = "attached", HeadPos <= rNextSeq,
                        NEW pk \in dataWire \cup rOoo, pk.id = rId
                 PROVE  pk.seq + Len(pk.data) <= ReadPosition + ReadWindow
      BY DEF NoOverrun
    <2>1. ~Over
      BY RoomTypes DEF Over
    <2>2. Fits
      BY <2>1 DEF RoomInv, OpenInv, Opened
    <2> QED BY <2>2 DEF Fits, OwnPackets, Room
  <1>2. Spec => [](CallInv /\ RoomInv)
    BY InvAlways, DropAlways, RoomHolds, CallKept, RoomKept, PTL DEF Spec
  <1> QED BY <1>1, <1>2, InvAlways, PTL

-----------------------------------------------------------------------------
(* What a reader is told of the head of the ring it is attached to.           *)

(* The position ClientConnected returns is still that of the ring when it     *)
(* sets the window: nothing was overwritten since it read the head.           *)
HeadTold == smLock = "window" => HeadPos <= StartSeq

(* A PrepareConnect for the open reader answers it, or lost its connection. *)
LateInv ==
  /\ jm # "idle" /\ jmArg.id = rId /\ ~rClosed => phase = "preparing" /\ (Handling \/ reply.kind = "failed")
  /\ phase = "stuck" => rClosed

Told == \/ HeadPos <= rNextSeq
        \/ phase = "preparing" /\ reply.kind = "failed"
        \/ phase = "preparing" /\ reply.kind = "prepared" /\ HeadPos <= reply.seq

TellInv == LateInv /\ (connected /\ streamId = rId /\ ~rClosed => Told)

(* A reader that stays open moves forward only. *)
LEMMA ReaderOnward ==
  ASSUME IInv, DropInv, [Next]_vars
  PROVE  \/ UNCHANGED <<rId, rClosed>> /\ rNextSeq' >= rNextSeq
         \/ rId' = rId /\ rClosed'
         \/ CreateReader
  <1>1. rNextSeq \in Nat
    BY Numbers
  <1>2. CASE ReceiveData \/ ReaderDrains
    <2>1. ASSUME NEW pk \in dataWire \cup rOoo, TakeData(pk) PROVE rNextSeq' >= rNextSeq
      <3>1. Len(pk.data) \in Nat
        <4>1. pk.data \in Seq(Nat)
          BY Numbers DEF Packets
        <4> QED BY <4>1
      <3> QED BY <1>1, <2>1, <3>1 DEF TakeData
    <2>2. UNCHANGED <<rId, rClosed>>
      BY <1>2, Zenon DEF ReceiveData, ReaderDrains, RecvData, IgnoreData, ReaderNotFound,
         RecvError, RecvEarly, RecvInOrder, DrainOne, FinishRecv, readerVars
    <2>3. rNextSeq' = rNextSeq \/ \E pk \in dataWire \cup rOoo : TakeData(pk)
      BY <1>2, Zenon DEF ReceiveData, ReaderDrains, RecvData, IgnoreData, ReaderNotFound,
         RecvError, RecvEarly, RecvInOrder, DrainOne, FinishRecv, readerVars
    <2> QED BY <1>1, <2>1, <2>2, <2>3
  <1>3. CASE LoopEnds \/ StreamWasDone \/ RestartFails \/ CallTimesOut \/ ServerCrashes
    <2>1. rId' = rId /\ rClosed'
      BY <1>3, Zenon DEF LoopEnds, StreamWasDone, RestartFails, CallTimesOut, ServerCrashes, Close
    <2> QED BY <2>1
  <1>4. CASE Prepared
    <2>0. IF reply.seq > wantSeq THEN UpdateNextSeq(reply.seq) ELSE UNCHANGED <<readerVars, ackWire>>
      BY <1>4 DEF Prepared
    <2>1. UNCHANGED <<rId, rClosed>> /\ (rNextSeq' = rNextSeq \/ (rNextSeq' = reply.seq /\ reply.seq > wantSeq))
      BY <2>0, Zenon DEF UpdateNextSeq, readerVars
    <2>2. rNextSeq = wantSeq /\ reply.seq \in Nat
      BY <1>4, Numbers DEF Prepared, DropInv, PrepareInv, Calls
    <2> QED BY <1>1, <2>1, <2>2
  <1>5. CASE \/ ReceiveAck \/ Manager \/ LoopReads \/ LoopAppends \/ LateAppend \/ Prepare \/ StatFile \/ Started
             \/ LinkDrops \/ LinkReturns \/ HandlerReturns \/ FlushCache \/ UNCHANGED vars
    <2>1. UNCHANGED <<rId, rClosed, rNextSeq>>
      BY <1>5, Zenon DEF ReceiveAck, Manager, ManagerReads, ManagerWrites, ManagerSends, ManagerTransmits,
         ManagerSetsWindow, LoopReads, Read, LoopAppends, LateAppend, Prepare, PrepareBegins, PrepareDisconnects,
         PrepareConnects, PrepareIsRefused, PrepareConnecting, PrepareEnds, StartStream, StatFile, Started,
         LinkDrops, LinkReturns, HandlerReturns, FlushCache, vars, readerVars
    <2> QED BY <1>1, <2>1
  <1> QED BY <1>2, <1>3, <1>4, <1>5 DEF Next, Wires, Output, Restart

(* The client changes by ClientConnected alone. *)
LEMMA ClientChanges ==
  ASSUME [Next]_vars
  PROVE  UNCHANGED <<connected, streamId>> \/ ~connected' \/ PrepareEnds
  BY Zenon DEF Next, Wires, Manager, Output, Prepare, Restart, ReceiveData, ReaderDrains, ReceiveAck, RecvAck,
     RecvFinAck, IgnoreAck, NoteUnusableAck, ApplyAck, ManagerReads, ManagerWrites, ManagerSends, ManagerTransmits,
     ManagerSetsWindow, PtyYields, ReadPty, PtyEnds, WriteChunk, SignalSender, SenderExits, SenderWaits, SendData,
     SendTerminal, AckSetsWindow, LoopReads, LoopAppends, LoopEnds, LateAppend, PrepareBegins, PrepareDisconnects,
     PrepareConnects, PrepareIsRefused, PrepareConnecting, StartStream, ConnectReadsHead, ConnectConsumes,
     ConnectRereadsHead, ClientDisconnected, SetRwndSize, StatFile, CreateReader, Prepared, StreamWasDone, Started,
     RestartFails, LinkDrops, LinkReturns, HandlerReturns, CallTimesOut, FlushCache, ServerCrashes, vars, smVars,
     clientVars

(* Once a PrepareConnect is answered, or its connection lost, the answer stays *)
(* until restartStreaming takes it.                                            *)
LEMMA AnswerStays ==
  ASSUME IInv, CallInv, phase = "preparing", reply.kind \in {"prepared", "failed"}, [Next]_vars
  PROVE  \/ phase' = "preparing" /\ (reply' = reply \/ reply'.kind = "failed")
         \/ rClosed'
         \/ reply.kind = "prepared" /\ Prepared
  <1>1. ~Handling /\ request.kind = "none"
    BY DEF CallInv
  <1>2. CASE Prepare
    <2>1. reply' = reply
      BY <1>1, <1>2 DEF Prepare, PrepareBegins, PrepareDisconnects, PrepareConnects, PrepareIsRefused,
         PrepareConnecting, PrepareEnds, StartStream, Answer, Handling, callVars
    <2>2. phase' = phase
      BY <1>2, Zenon DEF Prepare, PrepareBegins, PrepareDisconnects, PrepareConnects, PrepareIsRefused,
         PrepareConnecting, PrepareEnds, StartStream, serverVars
    <2> QED BY <2>1, <2>2
  <1>3. CASE LinkDrops
    BY <1>3 DEF LinkDrops, Call
  <1>4. CASE StatFile \/ CreateReader \/ Started \/ LinkReturns
    BY <1>4 DEF StatFile, CreateReader, Started, LinkReturns
  <1>5. CASE LoopEnds \/ StreamWasDone \/ RestartFails \/ CallTimesOut \/ ServerCrashes
    BY <1>5, Zenon DEF LoopEnds, StreamWasDone, RestartFails, CallTimesOut, ServerCrashes, Close
  <1>6. CASE \/ Wires \/ Manager \/ LoopReads \/ LoopAppends \/ LateAppend \/ HandlerReturns \/ FlushCache
             \/ UNCHANGED vars
    <2>1. UNCHANGED <<phase, reply>>
      BY <1>6, Zenon DEF Wires, ReceiveData, ReaderDrains, ReceiveAck, Manager, ManagerReads, ManagerWrites,
         ManagerSends, ManagerTransmits, ManagerSetsWindow, LoopReads, LoopAppends, LateAppend, HandlerReturns,
         FlushCache, vars, callVars, serverVars
    <2> QED BY <2>1
  <1>7. CASE Prepared
    BY <1>7 DEF Prepared
  <1> QED BY <1>2, <1>3, <1>4, <1>5, <1>6, <1>7 DEF Next, Output, Restart

LEMMA LateKept == ASSUME IInv, DropInv, CallInv, LateInv, [Next]_vars PROVE LateInv'
  <1>1. /\ jmArg.id <= rId /\ jmArg.id \in Nat /\ rId \in Nat
    BY IdsAreNumbers DEF IInv, Ids
  <1>2. CASE CreateReader
    <2>1. rId' = rId + 1 /\ jmArg' = jmArg /\ phase' = "preparing"
      BY <1>2 DEF CreateReader, NewReader, jmVars
    <2> QED BY <1>1, <2>1 DEF LateInv
  <1>3. CASE LoopEnds \/ StreamWasDone \/ RestartFails \/ CallTimesOut \/ ServerCrashes
    <2>1. rClosed'
      BY <1>3, Zenon DEF LoopEnds, StreamWasDone, RestartFails, CallTimesOut, ServerCrashes, Close
    <2> QED BY <2>1 DEF LateInv
  <1>4. CASE LinkDrops
    <2>1. /\ UNCHANGED <<jm, jmArg>> /\ UNCHANGED <<rId, rClosed>>
          /\ phase = "preparing" => phase' = "preparing" /\ reply'.kind = "failed"
          /\ phase' # "stuck" \/ phase' = phase
      BY <1>4 DEF LinkDrops, jmVars, readerVars, Call
    <2> QED BY <2>1 DEF LateInv
  <1>5. CASE LinkReturns \/ StatFile \/ Started
    <2>1. /\ UNCHANGED <<jm, jmArg>> /\ phase # "preparing" /\ phase' # "stuck"
      BY <1>5 DEF LinkReturns, StatFile, Started, jmVars, serverVars
    <2>2. UNCHANGED <<rId, rClosed>>
      BY <1>5, Zenon DEF LinkReturns, StatFile, Started, readerVars
    <2> QED BY <2>1, <2>2 DEF LateInv
  <1>6. CASE Prepared
    <2>1. jm = "idle" /\ jm' = jm /\ phase' # "stuck"
      BY <1>6 DEF Prepared, jmVars, CallInv
    <2> QED BY <2>1 DEF LateInv
  <1>7. CASE Prepare
    <2>1. UNCHANGED <<link, phase, rId, rClosed>>
      BY <1>7, Zenon DEF Prepare, PrepareBegins, PrepareDisconnects, PrepareConnects, PrepareIsRefused,
         PrepareConnecting, PrepareEnds, StartStream, linkVars, serverVars, readerVars
    <2>2. CASE jm' = "idle"
      BY <2>1, <2>2 DEF LateInv
    <2>3. CASE PrepareBegins /\ jm' # "idle"
      <3>1. /\ jmArg' = [id |-> request.id, seq |-> request.seq, on |-> link]
            /\ request.kind = "prepare"
        BY <2>3 DEF PrepareBegins
      <3>2. phase \in {"preparing", "stuck"}
        BY <3>1 DEF CallInv
      <3> QED BY <2>1, <3>1, <3>2 DEF LateInv, Handling
    <2>4. CASE jm' # "idle" /\ ~PrepareBegins
      <3>1. jm # "idle" /\ UNCHANGED <<jmArg, reply>>
        BY <1>7, <2>4 DEF Prepare, PrepareDisconnects, PrepareConnects, PrepareIsRefused,
           PrepareConnecting, PrepareEnds, StartStream, jmVars, callVars
      <3> QED BY <2>1, <2>4, <3>1 DEF LateInv, Handling
    <2> QED BY <2>2, <2>3, <2>4
  <1>8. CASE \/ Wires \/ Manager \/ LoopReads \/ LoopAppends \/ LateAppend \/ HandlerReturns \/ FlushCache
             \/ UNCHANGED vars
    <2>1. UNCHANGED <<phase, reply, jm, jmArg>>
      BY <1>8, Zenon DEF Wires, ReceiveData, ReaderDrains, ReceiveAck, Manager, ManagerReads, ManagerWrites,
         ManagerSends, ManagerTransmits, ManagerSetsWindow, LoopReads, LoopAppends, LateAppend, HandlerReturns,
         FlushCache, vars, callVars, serverVars, jmVars
    <2>2. UNCHANGED link
      BY <1>8, Zenon DEF Wires, ReceiveData, ReaderDrains, ReceiveAck, Manager, ManagerReads, ManagerWrites,
         ManagerSends, ManagerTransmits, ManagerSetsWindow, LoopReads, LoopAppends, LateAppend, HandlerReturns,
         FlushCache, vars, linkVars
    <2>3. UNCHANGED <<rId, rClosed>>
      BY <1>8, Zenon DEF Wires, ReceiveData, ReaderDrains, ReceiveAck, RecvData, IgnoreData, ReaderNotFound,
         RecvError, RecvEarly, RecvInOrder, DrainOne, FinishRecv, Manager, ManagerReads, ManagerWrites,
         ManagerSends, ManagerTransmits, ManagerSetsWindow, LoopReads, Read, LoopAppends, LateAppend,
         HandlerReturns, FlushCache, vars, readerVars
    <2> QED BY <2>1, <2>2, <2>3 DEF LateInv, Handling
  <1> QED BY <1>2, <1>3, <1>4, <1>5, <1>6, <1>7, <1>8 DEF Next, Output, Restart

LEMMA TellKept == ASSUME IInv, DropInv, CallInv, TellInv, HeadTold, [Next]_vars PROVE TellInv'
  <1>1. LateInv'
    BY LateKept DEF TellInv
  <1>2. /\ HeadPos \in Nat /\ HeadPos' \in Int /\ rNextSeq \in Nat /\ rNextSeq' \in Nat
        /\ wantSeq \in Nat /\ reply.seq \in Nat /\ streamId \in Nat /\ streamId <= rId /\ rId \in Nat
    <2>1. IInv'
      BY InvKept
    <2>2. total' \in Nat /\ count' \in Nat /\ rNextSeq' \in Nat
      BY <2>1, Zenon DEF IInv, SmInv, SmTypeOK, ReaderInv, ReaderTypeOK
    <2>4. HeadPos' \in Int
      BY <2>2 DEF HeadPos
    <2>3. streamId \in Nat /\ streamId <= rId
      BY IdsAreNumbers DEF IInv, Ids
    <2> QED BY <2>2, <2>3, <2>4, Numbers DEF Calls
  <1> SUFFICES ASSUME connected', streamId' = rId', ~rClosed' PROVE Told'
    BY <1>1 DEF TellInv
  <1>3. CASE PrepareEnds
    <2>1. /\ jm = "connecting" /\ smLock = "window" /\ streamId' = conn.id
          /\ UNCHANGED <<rId, rClosed, phase>>
          /\ reply' = IF Handling THEN Call("prepared", jmArg.id, StartSeq) ELSE reply
      BY <1>3, Zenon DEF PrepareEnds, Answer, Handling, ConnectSetsWindow, readerVars, serverVars
    <2>2. jmArg.id = rId /\ ~rClosed
      BY <2>1 DEF CallInv
    <2>3. phase = "preparing" /\ (Handling \/ reply.kind = "failed")
      BY <2>1, <2>2 DEF TellInv, LateInv
    <2>4. HeadPos' = HeadPos /\ HeadPos <= StartSeq
      <3>1. UNCHANGED <<total, count>>
        BY <1>3 DEF PrepareEnds, ConnectSetsWindow, BufSetEffectiveWindow
      <3> QED BY <2>1, <3>1 DEF HeadPos, HeadTold
    <2>5. CASE Handling
      <3>1. reply'.kind = "prepared" /\ reply'.seq = StartSeq
        BY <2>1, <2>5 DEF Call
      <3> QED BY <2>1, <2>3, <2>4, <3>1 DEF Told
    <2>6. CASE ~Handling
      BY <2>1, <2>3, <2>6 DEF Told
    <2> QED BY <2>5, <2>6
  <1>4. CASE ~PrepareEnds
    <2>1. UNCHANGED <<connected, streamId>>
      BY <1>4, ClientChanges
    <2>2. ~CreateReader
      <3>1. ASSUME CreateReader PROVE FALSE
        <4>1. rId' = rId + 1
          BY <3>1 DEF CreateReader, NewReader
        <4>2. streamId = rId + 1
          BY <2>1, <4>1, Zenon
        <4> QED BY <1>2, <4>2
      <3> QED BY <3>1
    <2>3. UNCHANGED <<rId, rClosed>> /\ rNextSeq' >= rNextSeq
      BY <2>2, ReaderOnward
    <2>4. Told
      BY <2>1, <2>3 DEF TellInv
    <2>5. CASE HeadPos' > HeadPos
      <3>1. HeadPos' <= rNextSeq
        BY <2>1, <2>3, <2>5, DropsByAck DEF DropStep
      <3> QED BY <1>2, <2>3, <3>1 DEF Told
    <2>6. CASE HeadPos' <= HeadPos
      <3>1. CASE HeadPos <= rNextSeq
        BY <1>2, <2>3, <2>6, <3>1 DEF Told
      <3>2. CASE ~(HeadPos <= rNextSeq)
        <4>1. /\ phase = "preparing" /\ reply.kind \in {"prepared", "failed"}
              /\ reply.kind = "prepared" => HeadPos <= reply.seq
          BY <2>4, <3>2 DEF Told
        <4>2. CASE Prepared
          <5>1. IF reply.seq > wantSeq THEN UpdateNextSeq(reply.seq) ELSE UNCHANGED <<readerVars, ackWire>>
            BY <4>2 DEF Prepared
          <5>2. rNextSeq' = reply.seq \/ (rNextSeq' = rNextSeq /\ ~(reply.seq > wantSeq))
            BY <5>1, Zenon DEF UpdateNextSeq, readerVars
          <5>3. rNextSeq = wantSeq /\ reply.kind = "prepared"
            BY <4>2 DEF Prepared, DropInv, PrepareInv
          <5> QED BY <1>2, <2>6, <4>1, <5>2, <5>3 DEF Told
        <4>3. CASE phase' = "preparing" /\ reply'.kind = "failed"
          BY <4>3 DEF Told
        <4>4. CASE phase' = "preparing" /\ reply' = reply
          BY <1>2, <2>6, <4>1, <4>4 DEF Told
        <4> QED BY <4>1, <4>2, <4>3, <4>4, AnswerStays
      <3> QED BY <3>1, <3>2
    <2> QED BY <1>2, <2>5, <2>6
  <1> QED BY <1>3, <1>4

(* ClientConnected, Prepared: where the ring is not overwritten between       *)
(* ClientConnected's reading of the head and its setting of the window, what  *)
(* the ring no longer has when a stream is attached is known to its reader.   *)
THEOREM NothingSilent == Spec /\ []HeadTold => []NoSilentDiscard
  <1>1. Init => CallInv /\ TellInv
    <2> SUFFICES ASSUME Init PROVE TellInv
      BY RoomHolds
    <2>1. jm = "idle" /\ phase = "attached" /\ HeadPos = 0 /\ rNextSeq = 0
      BY DEF Init, SmInit, ReaderInit, HeadPos
    <2> QED BY <2>1 DEF TellInv, LateInv, Told
  <1>2. IInv /\ DropInv /\ CallInv /\ TellInv /\ HeadTold /\ [Next]_vars => (CallInv /\ TellInv)'
    BY CallKept, TellKept
  <1>3. TellInv => NoSilentDiscard
    BY DEF TellInv, Told, NoSilentDiscard
  <1> QED BY <1>1, <1>2, <1>3, InvAlways, DropAlways, PTL DEF Spec

=============================================================================
