--------------------------- MODULE DurableStream ---------------------------
(* The output of a remote job from its PTY to its file on the main server,   *)
(* across lost connections.  It composes                                      *)
(*   StreamManager  the job manager's sender (pkg/jobmanager),                *)
(*   StreamReader   the main server's receiver (pkg/streamclient),            *)
(*   Link           the connection between them,                              *)
(* with the job manager's PrepareConnect and StartStream                      *)
(* (pkg/jobmanager/jobmanager.go) and the main server's restartStreaming and  *)
(* output loop (pkg/jobcontroller/jobcontroller.go).                          *)
(* A stream's id is its number: StartJob opens stream 1 on connection 1 and   *)
(* every restartStreaming opens the next one.                                 *)
EXTENDS StreamManager, StreamReader

CONSTANTS MaxConns,     \* bound on the connections, and on the streams
          MaxCrashes,   \* bound on the crashes of the main server
          HandlerLags,  \* handleJobDomainSocketClient may return after its
                        \* client was connected
          StatRaces     \* the superseded output loop may append around the
                        \* Stat of restartStreaming

ASSUME MaxConnsAssumption == MaxConns \in Nat \ {0}
ASSUME MaxCrashesAssumption == MaxCrashes \in Nat
ASSUME ScheduleAssumption == HandlerLags \in BOOLEAN /\ StatRaces \in BOOLEAN

VARIABLES
  conns,         \* connections so far; the last of them is up or was lost
  handlerOpen,   \* its handleJobDomainSocketClient has not returned
  jm,            \* the handler that holds jm.lock: "idle", or where
                 \* PrepareConnect stands
  jmArg,         \* its argument: the stream, and the connection it came on
  attached,      \* the stream manager is the broker's writer for streamId
  request, reply,\* the call under way between the server and the job manager
  phase,         \* the server: "attached", "done", "lost", a step of
                 \* restartStreaming, or "stuck" after it failed
  wantSeq,       \* currentSeq of restartStreaming
  out, totalGap, \* the job's output file: its bytes, its meta totalgap
  stored,        \* what of the two the file store has flushed
  crashes,       \* crashes of the server so far
  streamDone,    \* job.StreamDone
  loop,          \* runOutputLoop of the current stream
  loopData,      \* what it has read and not yet appended
  lateData       \* the same of a superseded loop that was past its check

jmVars     == <<conns, handlerOpen, jm, jmArg, attached>>
callVars   == <<request, reply>>
serverVars == <<phase, wantSeq, totalGap, streamDone, stored, crashes>>
fileVars   == <<out, loop, loopData, lateData>>
vars == <<linkVars, smVars, readerVars, jmVars, callVars, serverVars, fileVars>>

NoCall == [kind |-> "none", id |-> 0, seq |-> 0]
Call(kind, id, seq) == [kind |-> kind, id |-> id, seq |-> seq]
NoArg == [id |-> 0, seq |-> 0, on |-> 0]

-----------------------------------------------------------------------------
(* Packets and acks arrive (Broker.processRecvData, processRecvAck).  A       *)
(* packet of an earlier stream finds a reader nobody reads any more.          *)

ReceiveData ==
  \E pk \in dataWire :
    /\ dataWire' = dataWire \ {pk}
    /\ RecvData(pk)
    /\ UNCHANGED <<link, smVars, jmVars, callVars, serverVars, fileVars>>

ReaderDrains ==
  /\ DrainOne \/ FinishRecv
  /\ UNCHANGED <<link, dataWire, smVars, jmVars, callVars, serverVars, fileVars>>

(* A final or a cancelling ack removes the writer. *)
ReceiveAck ==
  \E ack \in ackWire :
    /\ ackWire' = ackWire \ {ack}
    /\ IF attached /\ ack.id = streamId
       THEN RecvAck(ack) /\ attached' = ~(ack.fin \/ ack.cancel)
       ELSE UNCHANGED <<smVars, attached>>
    /\ UNCHANGED <<link, dataWire, readerVars, conns, handlerOpen, jm, jmArg,
                   callVars, serverVars, fileVars>>

ManagerReads ==
  /\ PtyYields
  /\ UNCHANGED <<linkVars, readerVars, jmVars, callVars, serverVars, fileVars>>

ManagerWrites ==
  /\ WriteChunk \/ SignalSender
  /\ UNCHANGED <<linkVars, readerVars, jmVars, callVars, serverVars, fileVars>>

ManagerSends ==
  /\ SenderExits \/ SenderWaits
  /\ UNCHANGED dataWire
  /\ UNCHANGED <<link, ackWire, readerVars, jmVars, callVars, serverVars, fileVars>>

ManagerTransmits ==
  /\ SendData \/ SendTerminal
  /\ UNCHANGED <<link, ackWire, readerVars, jmVars, callVars, serverVars, fileVars>>

ManagerSetsWindow ==
  /\ AckSetsWindow
  /\ UNCHANGED <<linkVars, readerVars, jmVars, callVars, serverVars, fileVars>>

-----------------------------------------------------------------------------
(* runOutputLoop.  A superseded loop stops at its next check of jobStreamIds; *)
(* one that is past the check still appends.                                  *)

LoopReads ==
  /\ loop = "read"
  /\ StatRaces \/ phase # "stated"
  /\ Read
  /\ loopData' = Readable
  /\ loop' = "append"
  /\ UNCHANGED <<link, dataWire, smVars, jmVars, callVars, serverVars, out, lateData>>

LoopAppends ==
  /\ loop = "append"
  /\ out' = out \o loopData
  /\ loopData' = <<>>
  /\ loop' = "read"
  /\ UNCHANGED <<linkVars, smVars, readerVars, jmVars, callVars, serverVars, lateData>>

(* The end of the stream, or an error, ends the loop; it closes the reader. *)
LoopEnds ==
  /\ loop = "read"
  /\ StatRaces \/ phase # "stated"
  /\ ReadEnds
  /\ Close
  /\ streamDone' = TRUE
  /\ loop' = "done"
  /\ UNCHANGED <<link, dataWire, smVars, jmVars, callVars, phase, wantSeq, totalGap, stored, crashes,
                 out, loopData, lateData>>

LateAppend ==
  /\ lateData # <<>>
  /\ out' = out \o lateData
  /\ lateData' = <<>>
  /\ UNCHANGED <<linkVars, smVars, readerVars, jmVars, callVars, serverVars, loop, loopData>>

-----------------------------------------------------------------------------
(* The connection.  A new one is a new MainServerConn with its own handler.   *)
(* Nothing tells the stream manager that the old one is gone.                 *)

LinkDrops ==
  /\ conns < MaxConns
  /\ LinkLost
  /\ request' = NoCall
  /\ reply' = IF phase \in {"preparing", "starting"} THEN Call("failed", rId, 0) ELSE NoCall
  /\ phase' = IF phase \in {"attached", "done", "stuck"} THEN "lost" ELSE phase
  /\ UNCHANGED <<smVars, readerVars, jmVars, wantSeq, totalGap, streamDone, stored, crashes, fileVars>>

(* doReconnectJob, up to restartStreaming: it does nothing for a job whose    *)
(* connection is up.                                                          *)
LinkReturns ==
  /\ link = 0 /\ phase = "lost"
  /\ conns' = conns + 1
  /\ link' = conns'
  /\ handlerOpen' = HandlerLags
  /\ UNCHANGED <<dataWire, ackWire, smVars, readerVars, jm, jmArg, attached,
                 callVars, serverVars, fileVars>>

(* The handler returns as soon as it has started the connection's goroutines, *)
(* and its deferred disconnectFromStreamHelper runs then.                     *)
HandlerReturns ==
  /\ handlerOpen
  /\ jm = "idle"
  /\ handlerOpen' = FALSE
  /\ IF dataSender = conns
     THEN ClientDisconnected
     ELSE UNCHANGED smVars
  /\ UNCHANGED <<linkVars, readerVars, conns, jm, jmArg, attached,
                 callVars, serverVars, fileVars>>

-----------------------------------------------------------------------------
(* PrepareConnect, under jm.lock.                                             *)

Answer(answer) == reply' = IF jmArg.on = link THEN answer ELSE reply

PrepareBegins ==
  /\ request.kind = "prepare" /\ jm = "idle" /\ smLock = "free"
  /\ request' = NoCall
  /\ IF terminalEventAcked
     THEN /\ reply' = Call("done", request.id, request.seq)
          /\ UNCHANGED <<jm, jmArg>>
     ELSE /\ jmArg' = [id |-> request.id, seq |-> request.seq, on |-> link]
          /\ jm' = "disconnect"
          /\ UNCHANGED reply
  /\ UNCHANGED <<linkVars, smVars, readerVars, conns, handlerOpen, attached,
                 serverVars, fileVars>>

(* connectToStreamHelper_withlock: first the client it still has. *)
PrepareDisconnects ==
  /\ jm = "disconnect" /\ smLock = "free"
  /\ IF connected THEN ClientDisconnected ELSE UNCHANGED smVars
  /\ jm' = "connect"
  /\ UNCHANGED <<linkVars, readerVars, conns, handlerOpen, jmArg, attached,
                 callVars, serverVars, fileVars>>

(* The stream is corked: connected with no window until StartStream. *)
PrepareConnects ==
  /\ jm = "connect"
  /\ ConnectReadsHead(jmArg.id, jmArg.on, 0, jmArg.seq)
  /\ jm' = "connecting"
  /\ UNCHANGED <<linkVars, readerVars, conns, handlerOpen, jmArg, attached,
                 callVars, serverVars, fileVars>>

PrepareIsRefused ==
  /\ jm = "connect" /\ smLock = "free"
  /\ terminalEventAcked \/ jmArg.seq - HeadPos > count
  /\ jm' = "idle" /\ jmArg' = NoArg
  /\ Answer(Call("failed", jmArg.id, 0))
  /\ UNCHANGED <<linkVars, smVars, readerVars, conns, handlerOpen, attached, request,
                 serverVars, fileVars>>

PrepareConnecting ==
  /\ jm = "connecting"
  /\ ConnectConsumes \/ ConnectRereadsHead
  /\ UNCHANGED <<linkVars, readerVars, jmVars, callVars, serverVars, fileVars>>

PrepareEnds ==
  /\ jm = "connecting"
  /\ ConnectSetsWindow
  /\ attached' = FALSE
  /\ jm' = "idle" /\ jmArg' = NoArg
  /\ Answer(Call("prepared", jmArg.id, StartSeq))
  /\ UNCHANGED <<linkVars, readerVars, conns, handlerOpen, request, serverVars, fileVars>>

StartStream ==
  /\ request.kind = "start" /\ jm = "idle"
  /\ request' = NoCall
  /\ attached' = TRUE
  /\ IF connected
     THEN SetRwndSize(ReadWindow) /\ reply' = Call("started", request.id, 0)
     ELSE smLock = "free" /\ UNCHANGED smVars /\ reply' = Call("failed", request.id, 0)
  /\ UNCHANGED <<linkVars, readerVars, conns, handlerOpen, jm, jmArg, serverVars, fileVars>>

-----------------------------------------------------------------------------
(* restartStreaming.                                                          *)

(* Faults: the gaps are forgotten; the stream is asked for from its start. *)
CurrentSeq_NoGap == Len(out)
CurrentSeq_Zero == 0
CurrentSeq == Len(out) + totalGap

StatFile ==
  /\ phase = "lost" /\ link # 0
  /\ StatRaces \/ loop # "append"
  /\ wantSeq' = CurrentSeq
  /\ phase' = "stated"
  /\ UNCHANGED <<linkVars, smVars, readerVars, jmVars, callVars, totalGap, streamDone, stored, crashes,
                 fileVars>>

(* The new reader's stream supersedes the old loop's. *)
CreateReader ==
  /\ phase = "stated" /\ ~rDraining
  /\ NewReader(rId + 1, wantSeq)
  /\ IF link = 0
     THEN reply' = Call("failed", rId + 1, 0) /\ UNCHANGED request
     ELSE request' = Call("prepare", rId + 1, wantSeq) /\ UNCHANGED reply
  /\ phase' = "preparing"
  /\ loop' = "none" /\ loopData' = <<>>
  /\ lateData' = IF loop = "append" THEN loopData ELSE lateData
  /\ UNCHANGED <<linkVars, smVars, jmVars, wantSeq, totalGap, streamDone, stored, crashes, out>>

(* The answer to JobPrepareConnect: what the job manager no longer has is     *)
(* recorded as gap, and the reader skips it.                                  *)
(* Fault: it is not recorded. *)
Gap_NotRecorded(seq) == 0
Gap(seq) == seq - wantSeq

Prepared ==
  /\ reply.kind = "prepared" /\ phase = "preparing"
  /\ reply' = NoCall
  /\ IF reply.seq > wantSeq
     THEN /\ totalGap' = totalGap + Gap(reply.seq)
          /\ UpdateNextSeq(reply.seq)
     ELSE UNCHANGED <<totalGap, readerVars, ackWire>>
  /\ request' = Call("start", rId, 0)
  /\ phase' = "starting"
  /\ UNCHANGED <<link, dataWire, smVars, jmVars, wantSeq, streamDone, stored, crashes, fileVars>>

StreamWasDone ==
  /\ reply.kind = "done" /\ phase = "preparing"
  /\ reply' = NoCall
  /\ streamDone' = TRUE
  /\ Close
  /\ phase' = "done"
  /\ UNCHANGED <<link, dataWire, smVars, jmVars, request, wantSeq, totalGap, stored, crashes, fileVars>>

Started ==
  /\ reply.kind = "started" /\ phase = "starting"
  /\ reply' = NoCall
  /\ phase' = "attached"
  /\ loop' = "read"
  /\ UNCHANGED <<linkVars, smVars, readerVars, jmVars, request, wantSeq, totalGap,
                 streamDone, stored, crashes, out, loopData, lateData>>

(* A call that fails, by an error or by the loss of its connection, ends      *)
(* restartStreaming.  With the connection up the job counts as connected and  *)
(* nothing restarts its stream before that connection is lost too.            *)
RestartFails ==
  /\ phase \in {"preparing", "starting"}
  /\ reply.kind = "failed"
  /\ reply' = NoCall
  /\ Close
  /\ phase' = IF link = 0 THEN "lost" ELSE "stuck"
  /\ UNCHANGED <<link, dataWire, smVars, jmVars, request, wantSeq, totalGap, streamDone,
                 stored, crashes, fileVars>>

(* A call times out after five seconds; the job manager may still handle it.  *)
CallTimesOut ==
  /\ phase \in {"preparing", "starting"} /\ link # 0
  /\ Close
  /\ phase' = "stuck"
  /\ UNCHANGED <<link, dataWire, smVars, jmVars, callVars, wantSeq, totalGap, streamDone,
                 stored, crashes, fileVars>>

-----------------------------------------------------------------------------
(* The main server stops without warning and starts again.  The file store    *)
(* writes a file's bytes and its meta together, in one transaction, every few *)
(* seconds; what came after that is gone, acknowledged or not.                *)

FlushCache ==
  /\ crashes < MaxCrashes /\ conns < MaxConns
  /\ stored' = [out |-> out, gap |-> totalGap]
  /\ UNCHANGED <<linkVars, smVars, readerVars, jmVars, callVars, phase, wantSeq, totalGap,
                 streamDone, crashes, fileVars>>

ServerCrashes ==
  /\ crashes < MaxCrashes /\ conns < MaxConns
  /\ crashes' = crashes + 1
  /\ link' = 0 /\ dataWire' = {} /\ ackWire' \in SUBSET ackWire
  /\ request' = NoCall /\ reply' = NoCall
  /\ rClosed' = TRUE /\ rErr' = TRUE /\ rDraining' = FALSE
  /\ rBuffer' = <<>> /\ rOoo' = {}
  /\ loop' = "none" /\ loopData' = <<>> /\ lateData' = <<>>
  /\ out' = stored.out /\ totalGap' = stored.gap
  /\ phase' = "lost"
  /\ UNCHANGED <<smVars, rId, rLink, rNextSeq, rEof, rLastRwndSent, jmVars, wantSeq, streamDone, stored>>

-----------------------------------------------------------------------------
Init ==
  /\ LinkInit /\ SmInit(ReadWindow) /\ ReaderInit(1)
  /\ conns = 1 /\ handlerOpen = HandlerLags
  /\ jm = "idle" /\ jmArg = NoArg /\ attached = TRUE
  /\ request = NoCall /\ reply = NoCall
  /\ phase = "attached" /\ wantSeq = 0
  /\ out = <<>> /\ totalGap = 0 /\ streamDone = FALSE
  /\ stored = [out |-> <<>>, gap |-> 0] /\ crashes = 0
  /\ loop = "read" /\ loopData = <<>> /\ lateData = <<>>

Wires   == ReceiveData \/ ReaderDrains \/ ReceiveAck
Manager == \/ ManagerReads \/ ManagerWrites \/ ManagerSends
           \/ ManagerTransmits \/ ManagerSetsWindow
Output  == LoopReads \/ LoopAppends \/ LoopEnds \/ LateAppend
Prepare == \/ PrepareBegins \/ PrepareDisconnects \/ PrepareConnects \/ PrepareIsRefused
           \/ PrepareConnecting \/ PrepareEnds \/ StartStream
Restart == \/ StatFile \/ CreateReader \/ Prepared \/ StreamWasDone \/ Started
           \/ RestartFails

Next == \/ Wires \/ Manager \/ Output \/ Prepare \/ Restart
        \/ LinkDrops \/ LinkReturns \/ HandlerReturns
        \/ CallTimesOut \/ FlushCache \/ ServerCrashes

Spec == Init /\ [][Next]_vars

(* Every goroutine runs, what is under way arrives or is lost with its        *)
(* connection, and a lost connection is made again.  The PTY need not yield.  *)
Fairness ==
  /\ WF_vars(ReceiveData) /\ WF_vars(ReaderDrains) /\ WF_vars(ReceiveAck)
  /\ WF_vars(ManagerWrites) /\ WF_vars(ManagerSends) /\ WF_vars(ManagerTransmits)
  /\ WF_vars(ManagerSetsWindow)
  /\ WF_vars(LoopReads) /\ WF_vars(LoopAppends) /\ WF_vars(LoopEnds)
  /\ WF_vars(Prepare) /\ WF_vars(Restart)

FairSpec == Spec /\ Fairness /\ WF_vars(LinkReturns)

(* The same where a lost connection may stay lost. *)
DetachedSpec == Spec /\ Fairness

-----------------------------------------------------------------------------
Packets == [id : Nat, seq : Nat, data : Seq(Nat), eof : BOOLEAN, err : BOOLEAN]
Acks == [id : Nat, seq : Nat, rwnd : 0..ReadWindow, fin : BOOLEAN, cancel : BOOLEAN]
Calls == [kind : {"none", "prepare", "start", "done", "prepared", "started", "failed"},
          id : Nat, seq : Nat]

TypeOK ==
  /\ SmTypeOK /\ ReaderTypeOK
  /\ link \in Nat /\ dataWire \subseteq Packets /\ ackWire \subseteq Acks
  /\ conns \in Nat /\ handlerOpen \in BOOLEAN
  /\ jm \in {"idle", "disconnect", "connect", "connecting"}
  /\ jmArg \in [id : Nat, seq : Nat, on : Nat] /\ attached \in BOOLEAN
  /\ request \in Calls /\ reply \in Calls
  /\ phase \in {"attached", "lost", "stated", "preparing", "starting", "done", "stuck"}
  /\ wantSeq \in Nat /\ totalGap \in Nat /\ streamDone \in BOOLEAN
  /\ stored \in [out : Seq(Nat), gap : Nat] /\ crashes \in Nat
  /\ out \in Seq(Nat) /\ loopData \in Seq(Nat) /\ lateData \in Seq(Nat)
  /\ loop \in {"none", "read", "append", "done"}

(* The position the output file and the gaps account for. *)
ReadPosition == rNextSeq - Len(rBuffer)

(* Whatever the order of arrival, and across reconnections, the reader holds *)
(* the stream's bytes in order, none twice and none left out.                *)
BytesInOrder ==
  /\ rBuffer = Positions(ReadPosition, Len(rBuffer))
  /\ \A pk \in rOoo : pk.data = Positions(pk.seq, Len(pk.data))

(* While a stream is attached, the output file and the recorded gaps add up  *)
(* to what its reader has given out: the sequence number the next reconnect  *)
(* asks for is the right one.                                                *)
Accounted ==
  phase \in {"starting", "attached"} =>
    Len(out) + Len(loopData) + totalGap = ReadPosition

(* While a client is connected the ring lets go only of what that client's   *)
(* reader has: the read loop blocks rather than overwrite, and no late ack   *)
(* of an earlier stream consumes for this one.  (What is dropped for a       *)
(* reader that was closed is counted as gap by the next restart.)            *)
DropsOnlyReceived ==
  [][/\ connected /\ connected' /\ streamId' = streamId
     /\ streamId = rId /\ ~rClosed
     /\ HeadPos' > HeadPos
     => HeadPos' <= rNextSeq]_vars

(* What the ring no longer has when a stream is attached, its reader has or  *)
(* was told it will not get: no reader waits for bytes that are gone.        *)
(* (True where nothing is overwritten between ClientConnected's reading of   *)
(* the head and its setting of the window; see README.)                      *)
NoSilentDiscard ==
  phase = "attached" /\ connected /\ streamId = rId /\ ~rClosed => HeadPos <= rNextSeq

(* The bytes sent never exceed what the reader has room for: stale and       *)
(* overtaken acks never widen the window beyond it.  (A ring that overwrote  *)
(* between ClientConnected's reading of its head and its setting of the      *)
(* window sends bytes the reader does not expect; see README.)               *)
NoOverrun ==
  phase = "attached" /\ HeadPos <= rNextSeq =>
    \A pk \in dataWire \cup rOoo :
      pk.id = rId => pk.seq + Len(pk.data) <= ReadPosition + ReadWindow

(* The sender loop never sleeps on work: whoever makes data sendable, moves  *)
(* the window or ends the stream wakes it.                                   *)
SenderAwake ==
  sender = "wait" /\ smLock = "free" /\ rl # "signal" => ~DataReady /\ ~TerminalReady

(* Every byte the PTY yields gets to the output file or is recorded as gap,  *)
(* unless an error ends the stream, the job manager called it done, or a     *)
(* restart failed.                                                           *)
EveryByteStored ==
  \A n \in 1..MaxStream :
    total >= n ~> \/ Len(out) + totalGap >= n
                  \/ terminalEvent = "error" \/ phase \in {"done", "stuck"}

(* The server learns that the stream has ended, unless a restart failed or   *)
(* bytes were lost on the way.                                               *)
EndIsSeen == terminalEvent # "none" ~> streamDone \/ phase = "stuck" \/ totalGap > 0

(* The output file implements JobLog. *)
JL == INSTANCE JobLog WITH produced <- total, file <- out, gap <- totalGap
RefinesJobLog == JL!Spec

-----------------------------------------------------------------------------
(* What the documentation says and the code does not keep; see README.       *)

(* docs/docs/durable-sessions.mdx:32: terminal output is buffered while the  *)
(* connection is lost: a chunk read from the PTY does not wait for it.       *)
DetachedOutputIsBuffered == link = 0 /\ rl = "write" ~> link # 0 \/ rl # "write"
=============================================================================
