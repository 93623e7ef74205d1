# Verification of snorkeling

snorkeling (a fork of Wave Terminal) runs terminals on remote hosts that
outlive the connection to them. A *job manager* on the remote host owns the
process and its PTY; the *main server* (`wavesrv`, Go) receives the PTY's output
as a flow-controlled stream, stores it, and keeps the user's workspaces, tabs and
blocks; *Electron windows* show one page per tab, and a page shows a tiled layout
of blocks, terminals among them, over a WebSocket and HTTP calls.
This directory holds TLA+ models of the parts of the program where concurrency,
lost connections and crashes meet, the TLC runs that check them, and TLAPS
proofs about them. Two paths are followed from end to end: the output of a
detached program (PTY, ring, stream, output file, terminal on the screen), and a
change of what the user sees (window, tab view, layout, and the events that
bring the server's changes to the page). A third, the way of what is typed to the
detached program, is modelled where it is put back in order.

## Inventory of the system

| component | state | operations | interacts with | hard behaviours | what makes it correct |
|---|---|---|---|---|---|
| `pkg/jobmanager/cirbuf.go` circular buffer | ring, indices, window, mode, wait channel | WriteAvailable, PeekDataAt, Consume, SetEffectiveWindow | read loop and sender loop of the stream manager, under its own lock | wrap-around, window moved under a blocked writer | holds the tail of the stream; no lost wake-up |
| `pkg/jobmanager/streammanager.go` | connection, window, bytes under way, newest ack, end of stream | read loop, sender loop, ClientConnected/Disconnected, RecvAck, SetRwndSize | buffer, broker, job manager | two locks, a condition variable, stale acks, end of stream sent again | sender never sleeps on work; window respected; nothing discarded unseen |
| `pkg/streamclient/streamreader.go` | next sequence number, buffer, out-of-order packets, end or error | RecvData, Read, UpdateNextSeq, Close | broker, output loop | reordering, duplicates, an end that overtakes | bytes in order, once |
| `pkg/streamclient/streambroker.go` | readers, writers, routes by stream id; two work queues | Create/Attach/Detach, SendData, SendAck, RecvData, RecvAck | RPC | packets for readers that are gone | acks go to the stream they name |
| `pkg/streamclient/streamwriter.go` | send buffer, window, end and its ack | Write, RecvAck, Close | broker | as the stream manager, without reconnection | end acknowledged exactly when everything was |
| `pkg/jobmanager/jobmanager.go`, `mainserverconn.go` | command, attached client, stream client, pending stream | StartJob, PrepareConnect, StartStream, disconnectFromStreamHelper, input queue, exit notification | stream manager, RPC peers | handler's deferred call, one client kicks out another | one stream client at a time |
| `pkg/jobcontroller/jobcontroller.go` | job records, connection status, current stream id per job | StartJob, ReconnectJob, restartStreaming, runOutputLoop, TerminateJobManager, Attach/DetachJob, pruning | job manager (RPC), file store, object store, events | superseded output loops, calls that time out, jobs that end while disconnected | output file is the stream, in order, gaps counted |
| `pkg/filestore` | cached parts and file records, SQLite | AppendData, WriteAt, WriteFile, WriteMeta, FlushCache | job and block controllers | flush errors, circular files, crash before a flush | after a crash a prefix survives |
| `pkg/utilds/quickreorderqueue.go` | buffer, out channel, session order, timer | QueueItem, onTimeout | controllers number inputs, a goroutine each hands them in, a loop takes them out | stopped timers whose callbacks still come, capacity, sessions and the clock | never blocks its lock; no input lost; ordered within the timeout |
| `pkg/wps` | subscriptions, persisted events | Subscribe, Unsubscribe, Publish, ReadEventHistory | router, controllers | publish and subscribe interleave | a page gets what it subscribed to |
| `pkg/wshutil` router and RPC, `pkg/web/ws.go` | links, routes, pending requests; a link per page | register/unregister, announce, bind/unbind, request, response | everything | an old connection's end noticed after the new one's start; a goroutine per request | a route leads to its latest link |
| `pkg/remote/conncontroller` | connection status, monitor | connect, close, monitor ticks | job controller | stalls, reconnection | status follows the connection |
| `pkg/blockcontroller` | a controller per block | resync, start, stop, input | job controller, local PTYs | restart races | one live controller per block |
| `pkg/wstore`, `pkg/wcore`, `pkg/service` | objects in SQLite, versions | CRUD in transactions, QueueLayoutAction, UpdateObject | everything | a read and a write in two transactions | updates not lost for good |
| AI chat, agent sessions and status (`pkg/aiusechat`, `pkg/aisessions`, `pkg/agent*`) | chats, parsed session files, status records | HTTP streams, file parsing, polling | frontend | - | format fidelity |
| `pkg/scheduler` | tasks, next times | timer loop | block controllers | missed ticks | due tasks run once |
| `emain/` windows and tab views | action queue, loops, active view, loaded views, cache | create, close, switch tab; switch workspace; remove, evict, close | server by HTTP, pages by IPC | requests at every await, early returns, timers | one loop; window and server agree; no view leaked |
| `frontend/app/view/term` | screen, write queue, offset, loaded | open, append, truncate, save, dispose | file store over HTTP, events | output while loading, saves that race | the screen shows the file |
| `frontend/layout` | tree, leafs, pending drag, batch of actions | insert, split, replace, move, merge, close, server's actions | object store, blocks | stale drags, late answers, in-place changes, batches | no block lost, ids unique, nodes keep their identity |
| `frontend/app/store/wos.ts` | copies of objects with versions | update event, reload, set and push | server, layout | late answers, unversioned writes | page and server agree |
| `frontend/app/store/ws.ts`, `wps.ts`, `wshrouter.ts` | socket, queue, timers, subscribers | connect, reconnect, push, subscribe | server | reconnection, order of messages | reachable, right subscription |
| other views, `tsunami/`, `cmd/` | what is shown | rendering, start-up | server | - | - |

How the durable stream works: `StartJob` opens stream 1. The read loop copies the
PTY into the ring; the sender loop sends what the window allows; the broker of
the main server gives each packet to the stream's `Reader`, which reorders,
acknowledges on receipt, and is drained by `runOutputLoop` into the job's output
file. When the connection comes back, `restartStreaming` takes the file's size
plus the recorded gaps as sequence number, creates a new reader, and calls
`JobPrepareConnect` (the job manager drops its old client, discards what the
server has, and connects the new stream *corked*, with a receive window of 0)
and then `JobStartStream` (which opens the window). What the ring had to drop is
added to the file's `totalgap`.

How a page is fed: it opens a WebSocket (`ws.ts`), announces its route and
subscribes to events (`wps.ts`); the server registers one link per page
(`ws.go`), and loses route and subscriptions with it. Objects arrive as update
events with versions (`wos.ts`) or as answers to HTTP calls. The layout of a tab is
such an object, and two parties write it: the server queues actions in it
(`QueueLayoutAction`), the page applies them to its tree, and 100 ms later
pushes tree and empty queue back. A terminal is filled from the screen saved when
it was last idle, the part of the output file after it, and then events.

The hazards this leads to are listed, each with its line and the properties that
cover it, in `PROJECT.json`.

## Modules

| module | models | notes |
|---|---|---|
| `Bounds` | minimum and maximum | shared helpers |
| `TailBuffer` | *specification* | a sliding window on a stream: what `CirBuf` promises |
| `CirBuf` | `cirbuf.go` | one action per method, bytes are positions in the stream |
| `MCCirBuf` | | TLC instance of `CirBuf` |
| `CirBuf_proof` | | proofs about `CirBuf` |
| `Link` | the connection | packets and acks under way |
| `StreamManager` | `streammanager.go` | uses the buffer in the form of `TailBuffer` |
| `StreamReader` | `streamreader.go`, the receiving side of `streambroker.go` | |
| `JobLog` | *specification* | the output file: in order, once, lacking only what is counted as gap |
| `DurableStream` | the composition, with `PrepareConnect`/`StartStream` (`jobmanager.go`) and `restartStreaming`, `runOutputLoop`, reconnection (`jobcontroller.go`), flush and crash | |
| `MCDurableStream` | | TLC instance of `DurableStream` |
| `DurableStream_proof` | | proofs about `DurableStream`: types, order, wake-ups; ring, output file and window |
| `ReorderQueue` | `quickreorderqueue.go`, with `getNextInputSeq`, `JobInputCommand` and `processInputQueue` around it | one job's queue of terminal input |
| `MCReorderQueue`, `ReorderQueue_proof` | | TLC instance, proofs |
| `WindowActions` | `emain-window.ts`, `emain-tabview.ts`, with the answers of `workspace.go` and `window.go` | one window, its server side, its cache of views |
| `MCWindowActions`, `WindowActions_proof` | | TLC instance, proofs |
| `TermView` | `termwrap.ts`, with the block file of `blockcontroller.go` and `SaveTerminalState` | one block, its file, the view that shows it |
| `MCTermView`, `TermView_proof` | | TLC instance, proofs |
| `LayoutNode` | `layoutNode.ts`, `layoutTree.ts` | pure functions on trees |
| `LayoutModel` | `layoutModel.ts`, `inlineTabs.ts`, the callers in `global.ts`, the server's block commands | one tab |
| `MCLayoutModel` | | TLC instance |
| `LayoutSync` | the layout object: `wos.ts`, `layoutModel.ts`'s batches and pushes, `layout.go`, `DBUpdate`, `UpdateObject` | one tab, its object on both sides |
| `MCLayoutSync`, `LayoutSync_proof` | | TLC instance, proofs |
| `PageEvents` | `ws.ts`, `wps.ts`, `wshrouter.ts` and the server's `ws.go`, router and broker | one page, its connections, one event type |
| `MCPageEvents`, `PageEvents_proof` | | TLC instance, proofs |
| `SequenceLemmas` | | what queue operations do to the elements of a sequence, for the proofs |

### The durable stream

**State.** A byte is its position in the PTY's output, so a sequence of bytes
says which bytes they are and in which order. `CirBuf` keeps the real ring
(`buf`, `readPos`, `writePos`, `count`); `StreamManager` only `total` and `count`,
which the refinement `CirBuf => TailBuffer` justifies (the buffer then holds the
positions `total - count .. total - 1`). Stream ids are the numbers of the
streams, connections are numbered as well (`dataSender`, `rLink`): a message
handed to a connection that is gone is carried nowhere.

**Granularity.** One action per critical section. `sm.lock` and the buffer's lock
are two locks and the read loop takes only the second to write, so the methods
of `StreamManager` that use the buffer more than once are cut where a write may
come in between: `ClientConnected` into reading the head, consuming, reading it
again and setting the window (`smLock` says where the method stands, `conn`
holds its locals), `RecvAck` into consuming and setting the window.
`prepareNextPacket` is one action and includes handing the packet to the data
sender that was captured under the lock. `Reader.RecvData` holds the reader's
lock while it drains the packets that waited; each of those is a step and
nothing else of the reader happens in between (`rDraining`).

**Connection.** `dataWire` and `ackWire` are sets: a message may overtake another
(both ends are written to reorder; the RPC queues of today keep stream commands
in order, and the models do not lean on that). A lost connection keeps any
subset of what was under way: what had reached the other side's queue. A crash
of the server keeps no packets. `LinkReturns` is `doReconnectJob` up to
`restartStreaming`: nothing is done for a job that counts as connected, hence
the phase `"stuck"` after a failed restart on a connection that stays up.

**Server.** `phase` is where `restartStreaming` stands; `loop`, `loopData` and
`lateData` are the output loop of the current stream and what a superseded loop,
past its check of `jobStreamIds`, still has in hand. `stored` is what the last
flush wrote: bytes and meta of a file go to SQLite in one transaction
(`blockstore_dbops.go:94-117`).

**Two schedules are parameters.** `HandlerLags` lets
`handleJobDomainSocketClient` return after its client was connected, and
`StatRaces` lets the superseded loop append around the `Stat` of
`restartStreaming`. Both happen in the program. The race breaks `Accounted`
and `RefinesJobLog` (observation 5), so of the runs only `durable_live` has
`StatRaces`. The theorems are for every combination: those about these two
properties speak of every execution in which no loop is about to append between a
`Stat` and its reader (`StatAlone`), whatever the parameter allows.

### The queue of terminal input

A controller of the main server numbers its inputs 1, 2, ... under a session id of its
own; each input is a call that the job manager handles in a goroutine of its own, so
the queue may see them in any order and some never (`Inputs`). Every method runs under
`q.lock` from end to end and is one action of `ReorderQueue`; `QueueItem` is split by
its outcome into `SendOld`, `SendNext`, `Hold`, `OpenAndSend` and `OpenAndHold`. An
item is its session, its number and `n`, the count of items taken so far, which tells
two items apart and stands for the time of arrival: `aged` is the last one that
arrived at least `timeout` ago, and `Tick` moves it. Equal items of a sorted buffer
come in any order, as `sort.Slice` is not stable. A session is first seen in some
millisecond of `Times`, in no particular order: the wall clock may be set back. `sent`
is all that was put into the channel, `sent[1..taken]` what the loop of the job
manager has received.

`q.timer` is `timer`, with `due` the item whose timeout it was set for. `Stop` does
not reach a callback that waits for the lock, and `onTimeout` sets `q.timer = nil`
whichever timer it was called by; `strays` counts the callbacks that are still to come of
timers `q.timer` does not name, and each may come at any time (the program's
come when their timer is due, so the model has more behaviours than the program here).

`Close` and `SetNextSeqNum` are called by tests only and left out.

**Two parameters.** `AnyCaller` adds what the type allows and the job manager does
not do: numbers that repeat, number 0, no session. `ClockTies` lets two sessions be
first seen in the same millisecond, against the assumption stated in
`quickreorderqueue.go:21`. The run has neither. Capacity, account and timers do not
depend on them, and their theorems are for all four combinations. The order does: with
a tie two sessions compare by number alone (observation 14), and a number that
repeats at the head of the sorted buffer stops `processBuffer_withlock`.

### The window

`WindowActions` takes the main process of Electron as what it is: one handler at
a time, up to its next await. A loop that has reached no await is at `"turn"`, and
then nothing else runs; otherwise it waits for the server (`"backend"`), for the
configuration a new view needs (`"config"`), or for the page (`"init"`). The
`finally` clause that shifts the queue is part of every end of an iteration:
`Continue` goes round, `Return` leaves the loop. The server's side of the calls
(`CreateTab`, `SetActiveTab`, `CloseTab`, `SwitchWorkspace`) is a function of the
workspaces; the answer and what the loop does with it up to its next await are
one action. A tab view is a tab and a number: a tab that is shown again after its
view was evicted has another view.

### The terminal view

A byte is the number of its append. `termFile` holds all of them since the last
truncation; `FileFrom` gives what the circular file still has. The block
controller changes the file and then publishes (`publishing`), events reach the
page in order, and xterm parses what was written to it later (`writes`), which is
when `ptyOffset` moves.

`processAndCacheData` starts a save and does not wait for it, so any number are under
way (`saving`), each written by the server in two steps, the screen and then its
offset. Two starts are 1.5 s apart for all terminals together
(`MinTermSaveIntervalMs`), which the model leaves out, as it does not keep one save
from ending after the next. `dispose` does not stop the idle timer: a closed view
joins `disposed`, may parse what xterm had queued, and goes on to save its screen
(`DisposedSaves`) while other views load and save. A view that is closed while it
loads, or after its loading failed, is forgotten: the first goes on loading into a
disposed xterm, the second has no timer. `disturbed` records what the property makes
exceptions for: output or a save under way while a view was loading, a load that
failed or was cut short, and two saves whose steps crossed.

### The layout

`LayoutNode` translates the functions of `layoutNode.ts` and `layoutTree.ts`, which
change nodes in place, to functions that return the changed tree. `LayoutModel` keeps
the tree and the leafs of the last `updateTree`. Blocks are looked up among these
leafs (`getNodeByBlockId`), which are objects: a leaf that `balanceNode` copied into
its parent stays in the atom as an object the tree no longer has (`detached`).
`balanceNode` throws at a group without children and at the hole (`undefined`, here
`None`) an empty group leaves among its parent's children; it then returns the tree as
far as it was changed, with `ok` false, and each operation stops where the exception
takes it (`Closes`, `Commits`, `GivesUp`). `findParent` throws at a hole, too
(`findParentThrows`). A drag is what hovering computed (`pendingTreeAction`,
`pendingInlineTabDrop`) until it is dropped, and anything may happen in between.
Creating a block is two steps, the call and what is done with its answer. The batch of
the server's actions (`batch`) runs without a pause except where `closeNode` and the
cleanup await a deletion. A node's UUID is the smallest number that nothing refers to,
so ids may be used again once nothing can tell.

`LayoutSync` takes the tree as how often each block is in it, and models instead
who writes the object: a handler of the server reads, writes with a new version and
publishes, as three steps; a push overwrites it without looking at the version; the
page's copy is set by newer events, by answers to a reload whatever their
version, and by its own pushes; whoever sets it starts a batch, and batches
interleave where they await a deletion. `disturbed` records which of these
crossings has happened, for the exceptions the properties make.

### The page's events

`PageEvents` numbers the connections and the subscription requests. The page's
socket, its queue and its timers are as in `ws.ts`; `up` and `wire` are the
connection; on the server `served` is where each connection stands, `current` the
link registered for the page, `route` and `subs` what router and broker have, and
`handlers` the goroutines that were started and have not run. A lost connection
keeps any initial part of what was under way, and its end is noticed at any later
time.

## Runs

| run | bounds | shows |
|---|---|---|
| `cirbuf` | ring 4, chunks 3, stream 10 | the ring wraps twice; every order of writes, consumes and window changes |
| `durable` | window 2, ring 2, packets of 1-2 bytes, stream 3, one reconnection, before it perhaps a crash of the server, lagging handler, at most 2 packets and acks under way (`TwoUnderWay`) | `BytesInOrder`, `Accounted`, `NoOverrun`, `SenderAwake`, `DropsOnlyReceived`, and the file implements `JobLog` |
| `durable_live` | window 1, ring 2, stream 2, packets of 1-2 bytes, one reconnection, racing `Stat`, at most 2 packets and acks under way (`TwoUnderWay`) | liveness under fairness; nothing unseen is discarded without being counted |
| `detached_output` | window 1, ring 3, stream 2 | finding 1 |
| `window` | 3 workspaces (one saved, one open elsewhere), 5 tabs, 5 requests, 1 failed call, 1 cached view | the queue, the views and the server agree |
| `window_stuck` | the same with 3 requests | finding 2 |
| `term` | file of 2 bytes, 3 appends, 1 truncation, 4 views, 3 saves; once truncated or disturbed, the first view only (`StillTelling`) | a terminal opened again from screens saved before |
| `layout` | 3 blocks in 3 saved trees, 1 gesture, 2 things waiting at once, nodes full with 2 children | the tree and its blocks |
| `layout_siblings` | the same | finding 3 |
| `layoutsync` | 2 blocks, 2 handlers, 1 reload, 1 push under way | both sides of the layout object |
| `input_queue` | 2 sessions, capacity 3, numbers 1-3, 4 inputs, no ties, the job manager's use | inputs in any order: capacity, account, timers, order, and all are handled |
| `events` | 2 connections, 2 changes of 2 scopes and the blank one, 1 attempt | route and subscriptions after a lost connection |

The bounds are enough for the case each run is about. Durable stream: a packet and its
successor under way together (window 2), a chunk that does not fit the window, a ring
that overwrites, an ack overtaken by another, an end of stream sent before and after a
reconnection, a gap, bytes that a crash takes back. A second reconnection, which must
count the gap of the first, is in no run: it is what `AccountKept` and `LogRefined`
are proved for. Reads take all there is in these runs (`ReadSize` equals the window);
the proofs cover any size. `window`: two actions behind the one in process (one
replaced), a view evicted while it is being replaced, a workspace deleted by leaving
it, a tab closed twice. `term`: the file wraps, a view starts from a screen that
another view saved, which started from one as well, and saves overlap, of one view, of
two, and of a closed one. `layout` (510,467 states): the tab starts with two tiles
side by side, a tile beside a group of two, or a tile above a row of two. Each of the
three blocks is closed, replaced, split from, dragged or brought back in some order;
the third block is created where there were two, next to them or, the root being full,
below it; a dragged tile goes into a nested group or next to its grandparent's
children; a batch of two actions empties a nested group, and a block is closed, or
created, on the tree with the hole this leaves. Three blocks are not enough for a
merge, a split or a cleanup that meets a hole before its node, which is why these
branches of `Drop`, `HandleTargeted` and `HandleCleanupOrphaned` are not taken in the
run. `layoutsync`: two handlers that overwrite each other, and one of them and the
page, with one kind of other disturbance (`StillTelling`); one push is under way at a
time, so that a push overtaking another is not in the run. `events`: both changes may
fall before, into or after the time without a connection, so the queue can hold two
messages, of which the timer sends the second. `input_queue`: two items wait behind a
missing one while another session begins and the timer runs out, a fourth is refused
or comes after it, and a callback of a stopped timer forgets a second timer.

`TwoUnderWay` leaves out what happens with more messages under way; a state at the
bound is not taken for one where the system has stopped, since fairness is about the
actions, not about the bound. `MaxConns`, `MaxCrashes`, `MaxRequests`, `MaxGestures`
and the like bound what the user and the environment do, never what the program does
about it. Deadlock is not checked where the system may stop: a stream that has ended,
a closed window, a page that gave up, an environment that does nothing more.

Properties, with the code they are about:

* `RingHoldsTail`, `NoLostWakeup`, `AsyncWithinWindow`, `HeadMonotone`,
  `RefinesTailBuffer` - the ring.
* `BytesInOrder` - reader and packets that wait, across overtaking packets,
  resent bytes and the sequence number moved by a gap.
* `Accounted` - file + bytes in hand + gaps = what the reader gave out: the next
  reconnection asks for the right sequence number.
* `NoOverrun` - acks that arrive late or out of order never let the sender
  exceed the reader's window.
* `DropsOnlyReceived` - while a client is connected the ring lets go only of what
  this client's reader has.
* `NoSilentDiscard` - the head of the ring never passes what the reader has or
  was told it will not get.
* `SenderAwake` - no lost signal of `drainCond`.
* `EveryByteStored`, `EndIsSeen` - liveness; the exceptions they name are
  observations 1-4.
* `RefinesJobLog` - the file grows by the next bytes, the gap by bytes that
  exist, a crash takes back a suffix, and nothing else happens to either.
* `Serialized` - one activation of `processActionQueue`, whatever arrives while it
  waits. `QuietAgrees` - once all is processed, the window shows the server's
  active tab of the server's workspace in a living view. `ViewsAccounted` - main
  process, window and cache have the same views.
* `QuietLoadsAreExact` - saved screen, offset, file and events fit together over
  any number of views and of saves nobody waits for, those of closed views included.
* `IdsUnique` - `findNode` finds one node. `NoneLost` - no block of the tab
  disappears from its layout except where its place was lost. `NodesStay` - what
  shows the same blocks stays the same node (a node with a new id is unmounted and
  mounted again, and a terminal is loaded anew).
* `AppliedOnce`, `SettledAgrees` - the server's actions over everything that
  overwrites and overtakes them.
* `RoomForAll` - the channel has room for the whole buffer, so no send with the lock
  held blocks. `EachOnce` - an input that was taken waits or was sent, once.
  `DueInTime` - there is a timer early enough for every item that waits, whatever
  stopped timers' callbacks do.
* `NothingOvertaken` - no input is sent ahead of an earlier one of its session that
  the queue holds. `Patient` - an input goes ahead of missing ones only after a
  timeout. `EveryInputHandled` - every input taken reaches the job manager's loop.
* `QuietRoute`, `QuietSubs` - after any lost connection the route leads to the
  page's connection, and it gets the events it has handlers for and no others.
  `BecomesReachable` - it gets there, with its queue sent.

**Fairness.** In the durable stream every goroutine of the two processes runs (weak
fairness per kind of step), a packet or ack under way on a live connection arrives, an
RPC that arrived is handled and answered, and a lost connection is made again. These
are what the Go scheduler, TCP and the connection controller's reconnection give.
Nothing is assumed of the PTY, of timeouts, of lost connections, of flushes or of
crashes. `DetachedSpec` drops the last assumption, that a connection comes back. In
`PageEvents` the page's callbacks and timers run, the server accepts, registers and
reads, and the goroutines it started run. Nothing is assumed of users, of lost
connections, nor of when the end of a lost connection is noticed; a page whose last
connection is refused until it gives up is the exception `BecomesReachable` names (20
attempts, `ws.ts:109`). In `ReorderQueue` time passes, a timer that is due fires, its
callback gets the lock, and the job manager's loop receives; no input need arrive and
no stray callback need come. The other modules state safety only.

## Findings

Each is a run that TLC ends with a counterexample; `PROJECT.json` quotes the
sentence it goes against.

1. `detached_output`: nothing tells the stream manager that the connection is
   gone. The deferred `disconnectFromStreamHelper` (`jobmanager.go:425`) runs
   when the handler returns, which is right after it started its goroutines. The
   buffer stays synchronous, and a detached program blocks on its PTY after one
   window (64 KB) although the ring has 2 MB.
2. `window_stuck`: an iteration of `processActionQueue` that returns early - a
   workspace that another window shows, the last tab closed - shifts the queue and
   leaves the loop. What was requested meanwhile stays in the queue with nothing
   to process it, and since the queue is not empty no later request of the window
   starts the loop: the window ignores its user.
3. `layout_siblings`: `DeleteBlockCommand` deletes one block and queues a delete
   action; the page closes the whole node that shows the block, and `onNodeDelete`
   deletes the other blocks of an inline-tab group.

## Observations

Other behaviour met on the models, without a run of its own. Where a property
makes an exception for it, dropping the exception makes the run fail.

*Durable stream*

1. Acknowledged bytes in the superseded reader are lost, and not counted as gap,
   when the job manager answers that the stream is done (`jobcontroller.go:1247`
   and 1270-1287): exception `done` of `EveryByteStored`.
2. The end of the stream ignores the cork (`streammanager.go:374`); if it arrives
   before the gap is known it waits among the out-of-order packets, and
   `UpdateNextSeq` (`streamreader.go:189`) does not look there: the exception
   `totalGap > 0` of `EndIsSeen`.
3. A `JobPrepareConnect` or `JobStartStream` that fails or times out on a connection
   that stays up is never retried, because the job counts as connected
   (`jobcontroller.go:1066`): exception `stuck`.
4. An error hides acknowledged bytes (`streamreader.go:161`); on Linux the end of a
   PTY is such an error (EIO): exception `"error"`.
5. With `StatRaces` the superseded loop appends after `Stat`
   (`jobcontroller.go:1238`); those bytes are stored twice, and `Accounted` and
   `RefinesJobLog` fail.
6. `ClientConnected` reads the head before it makes the buffer synchronous
   (`streammanager.go:113-137`); what the read loop overwrites in between is not
   in the sequence number it returns. `NoSilentDiscard` then fails with a ring of 2
   and a stream of 3, and `NoOverrun` and `DropsOnlyReceived` exclude the case. With
   the shipped sizes the ring must be nearly full. `NothingSilent` proves the property
   of all executions in which it does not happen.
7. The cancelling ack for a packet without reader (`streambroker.go:196`) names the
   end of that packet; if the packet overtook another, the ack covers that one
   too. The bytes are counted as gap by the next restart.

*Window*

8. An action replaced at [1] may be a `closetab` or `createtab`, which is lost
   without a word. A closed tab whose removal timer fires while it is on show
   keeps its view for good. A page that never becomes ready blocks its window's
   queue. A `switchtab` that waited behind a workspace switch sets a tab of the
   other workspace as active (`SetActiveTab` does not compare).

*Terminal*

9. `heldData` is filled while a view loads and never written: output that arrives then
   is missing from the screen until the next load. Output appended before the file is
   read and delivered after loading is written twice. `ptyOffset` is not reset by a
   truncation, counts what was written rather than the position in a file that has
   wrapped, and writes that xterm had queued are parsed after `terminal.clear()`. Two
   saves may overlap, as they are not awaited (`termwrap.ts:785`) and a closed view
   goes on saving (`termwrap.ts:791`): where the server writes both screens before the
   offset of the first, the file has the screen of one save with the offset of the
   other, and the next view loses or repeats what is between the two. These are the
   exceptions of `QuietLoadsAreExact`; `ShowsFile` alone fails.

*Layout*

10. `updateTree` collects the leafs (`layoutModel.ts:911`) before `balanceNode`
    copies the one leaf of a group into the group (`layoutNode.ts:206`): the leaf
    object in the atom is then not in the tree. `restoreInlineTabBlock` and
    `closeBlock` change that object, and a block restored from it is shown twice
    (`ShownOnce` fails; `NodesStay` says nothing of such trees).
11. Blocks lose their place (`unplaced`): the target was closed before the server
    answered; a whole group was replaced or cleaned up for one of its blocks; a
    dragged block left its group and `moveNode` then threw because the parent
    computed while hovering had gone; a batch that inserts next to a lone leaf moves
    it into a node the atom does not know, so that a later split or replacement in
    the batch finds nothing. A cleanup deletes blocks that were created and not
    yet placed. A dragged node that was deleted meanwhile is inserted again.
    A batch that removes the last child of a group makes `updateTree` throw: where
    the group is the root at `layoutNode.ts:191`; where it is nested,
    `balanceNode` puts `undefined` in its place (`layoutNode.ts:199`) and
    `isNodeSubtreeHidden` fails on it (`layoutModel.ts:1051`, from 959) before the
    filter at `layoutNode.ts:205` is reached. The tree keeps the hole, the
    leafs stay as they were, and every later `updateTree` throws at
    `layoutNode.ts:193`. Example: of `row[b1, col[b3, b2]]` one batch removes b3
    and b2. Closing b1 then takes its node from the tree and throws before
    `onNodeDelete` is called: b1 stays in the tab without a tile. A block that is
    to be split from or to replace one behind the hole is not placed, as `findParent`
    throws; and an action that throws ends its batch, whose other actions wait for the next.

*Layout object*

12. The answer of `reinitWave`, which replaces the page's copy whatever its
    version (`wos.ts:181`, while `createWaveValueObject` takes care not to,
    212-215), can make the version guard drop the event that carries a queued
    action: the block is never shown. So can publications that overtake each other.
    A deletion handled before the layout is mounted is dropped. A push that fails is
    not retried. A handler that writes back an old layout after a page was loaded
    again makes it apply an insertion twice. `SettledAgrees` and `AppliedOnce` name
    these cases.

*Page events*

13. Subscriptions queued while the socket was closed are snapshots. `onopen` sends
    the newest subscription first and the queue after it, 100 ms apart, so an old
    snapshot replaces the newest until the event type's subscribers change again.
    Two requests of one page may also be handled in reverse order
    (`wshrpc.go:433`). `QuietSubs` is about the times when the newest was handled
    last. Events published while the page is not connected are not sent again.
    A `registerConn` delayed past the next connection's would replace it by a
    dead link; the model excludes this because the page waits half a second at
    least.

*Terminal input*

14. `JobInputCommand` (`mainserverconn.go:132`) drops the error of `QueueItem`: an
    input refused because the queue is full is lost, and its sender is told of
    success. Behind an input that is lost the queue stays behind: `onTimeout` sends
    what has timed out and moves `nextSeqNum`, but does not go on to items in the buffer
    that then continue the sequence, so each of those waits for its own timeout (which the
    comment at `quickreorderqueue.go:15` allows). Two sessions first seen in the
    same millisecond compare by number alone; `Patient` and `NothingOvertaken` then
    fail.

## Proofs

TLAPS checks eight modules. They assume of the constants only what the modules
declare: ring, windows, packet and read sizes are positive naturals, the bounds on the
environment are naturals, the two schedules are Booleans; in the window, each
workspace starts with at least one tab, no tab is in two places of a list, and the
tabs that exist are numbered from 1; in the layout object, the blocks at the start are
blocks; in the input queue, the empty session id is none of the controllers', the
clock is past 0, the capacity is positive. Whether a proof needs it or not, no bound
of a run is used: the theorems hold for any number of connections, crashes, requests
and views.

`InvHolds` (`WindowInvHolds`) is in each module the theorem about the inductive
invariant, which TLC checked on the run before it was proved; the others follow
from it. The types are part of every invariant and have their own theorem
`TypeCorrect`.

**`CirBuf_proof`.** For every capacity, chunk size and stream length: the types,
`RingHoldsTail`, `NoLostWakeup`, `AsyncWithinWindow`, `HeadMonotone`, and that the
ring implements `TailBuffer`. The contents of the ring are only known through
`(readPos + i) % Size`, so the invariant says that the write position is `count`
places after the read position and that each of the `count` places holds its
stream position. Preserving it is modular arithmetic: the lemmas at the top of
the module reduce an advance past the end of the ring to whole turns of it.

**`DurableStream_proof`.** For every size, any number of reconnections and
crashes, and all four combinations of the schedules: `TypeOK`, `BytesInOrder`
and `SenderAwake`. None of them is inductive. `IInv` adds:

* `Awake`: `SenderAwake` allows the sender loop to sleep on work only while
  `sm.lock` is held or a signal is due. The invariant says which signal it is:
  the read loop's after a write, or the one `RecvAck` still owes after it
  consumed. An ack that moves nothing owes none, which is sound because then
  nothing became sendable.
* `sentNotAcked <= count`, and a window computed by `ClientConnected` that is
  consumed is still in the buffer: without the first `RecvAck` could consume
  more than there is.
* `WireInv` and `ReaderInv`: every packet under way or waiting is a run of the
  stream that starts at its sequence number, and the reader's buffer is the run
  that ends before the next one. `PositionsJoin` and `PositionsSub` say that runs
  join and split.
* `Corked`: the one step that moves the next sequence number without taking
  bytes is `UpdateNextSeq`. It is harmless because the reader is then empty, and
  that is so because no byte of a stream leaves the job manager before
  `StartStream` gave it a window. The invariant follows this through the wire,
  the packets that wait, and the pending call.
* `Ids`, `NoCallDown`: no stream id is known before its reader was made, and no
  call or answer outlives its connection.

Each action has its lemma; `InvKept` puts them together.

It continues with four more invariants, about the ring, the output file and the window.

* `DropInv`, for every schedule, gives `DropsOnlyReceived`. The head of the ring
  moves past a byte because an ack says so or because `ClientConnected` was asked
  to, so the invariant bounds both: an ack of the open reader names what the reader
  has, or nothing new (`AckInv`), and the position a `JobPrepareConnect` asks for is
  the reader's (`PrepareInv`). The exception is the end of the stream: its packet
  may be acknowledged by number when nothing is left to send (`Gone`), so the
  invariant says that whoever knows the end, a packet or the reader, knows it only
  then.
* `LogInv`, for every schedule, of all executions in which no output loop is about to
  append between a `Stat` and its reader (`StatAlone`; observation 5 is what happens
  otherwise), gives `Accounted` and with it that the file implements `JobLog`.
  `Accounted` speaks of a reader that is attached; while `restartStreaming` runs, the
  same account is kept by the sequence number it asked for (`AccountInv`), which is
  why no loop may hold data then (`LoopInv`). What a flush stored is a prefix of the
  file with no larger gap (`StoredInv`), so that a crash is a step of `JobLog`; and
  the account never passes the end of the stream (`LimitInv`), so that a gap counts
  bytes that exist.
* `CallInv` and `RoomInv`, for every schedule, give `NoOverrun`. It is about an
  attached reader, but what makes it true happens before: `PrepareConnect` corks
  the sender, and the window opens when `StartStream` is handled. `CallInv` says
  which of the two calls stands where, however an earlier connection's call still
  lags (one request, its handling or its answer at a time, and only for the
  reader's own stream), so that `Waiting`, until `StartStream`, and `Opened`, from
  its handling on, are what the two sides agree on. While `Waiting` the reader is
  empty and nothing of its stream is under way but its end (`WaitInv`, with
  `EndInv`: the end stays where it was found). Once `Opened`, either the ring had
  overwritten between `ClientConnected`'s reading of its head and its setting of
  the window, and the sender stays ahead of the reader for good (`Over`, what
  `NoOverrun` excludes), or the window, every packet and every ack still under way
  stay within the reader's room (`Fits`).
* `TellInv` gives `NoSilentDiscard`, for every schedule, of all executions in which
  the ring is not overwritten between `ClientConnected`'s reading of its head and its
  setting of the window (`HeadTold`; observation 6 is what happens otherwise). Between
  the handling of `PrepareConnect` and the moment `restartStreaming` takes its answer
  the head may have passed the reader, but not the position in the answer, and a call
  that lags can be for the open reader only if its answer was given up (`LateInv`). In
  `durable_live` the ring holds the whole stream, so the premise is true there.

**`WindowActions_proof`.** For any workspaces, tabs, number of requests, failures
and loops: the types, `Serialized`, `QuietAgrees` and `ViewsAccounted`.

* `Serialized`: only the queue says that a loop is running:
  `_queueActionInternal` starts one when the queue was empty. `IInv` therefore
  also says that a loop at an await has its action in the queue, and with the shape
  of queue and loops it is inductive: a loop's iteration ends by shifting a queue
  whose head is its own, and a request is handled only while every loop is at an
  await.
* The other two are about quiet states, and between those the window and the server
  do not agree. `WindowInv` says what is true meanwhile: a loop that waits for
  the configuration is going to create a view of the server's active tab, no view
  of that tab is alive (so it will be the only one), and only with such a loop may
  the window show another tab or a destroyed view (`ShownInv`, `CacheInv`). A
  workspace lists a tab once, below the next number, and nothing once it is
  deleted, and the window's own is deleted only when the window closes
  (`TabsInv`).
* The server's lists lose elements. `Without` is the recursive function that says
  so; what it returns is shown in the module by induction on the length of the
  list, as a statement about the set of lengths for which it is true.

**`TermView_proof`.** For every size of the file and of the screen saved, and any
number of appends, truncations, views and saves: the types and `QuietLoadsAreExact`.
The property speaks of a view that has loaded and has nothing left to parse. The
invariant gives for every earlier moment what has been shown and where the rest is:
`LoadInv` the screen while it is filled (saved screen, then the file from the saved
offset), `ShowInv` the bytes of a loaded view, split into parsed, written to xterm, in
an event, and about to be published. `CacheInv` carries the saved screen from one view
to the next: screen and offset fit except between the two steps of a save, and each
save under way fits in itself. `DisposedInv` says of a closed view what `ShowInv` says
of the one that is shown: it can still save, long after other views have loaded, and
its screen must then reach the offset it is saved with. That no two saves cross is
part of the premise `~disturbed`, not of the invariant.

**`PageEvents_proof`.** For every set of scopes and any number of connections and
changes: the types, `QuietRoute` and `QuietSubs`. Connections are numbered, and
the server may be registering an older one than the page has; `LinkInv` says how
far the two can be apart, and that the link the server has for the page is the
page's once the page's is registered. `RouteInv` says where the announcement of the
open connection is (on the wire, in a goroutine, or done), `NewestIsCurrent` and
`RequestInv` that the newest subscription request travels on no connection but the
last and says what the page wants, `SubsInv` that it stands once it was handled
last.

**`LayoutSync_proof`.** For every set of blocks and any number of handlers,
reloads and pushes: the types, `AppliedOnce` and `SettledAgrees`.

For `AppliedOnce` two arguments are needed, since either of two disturbances may have
happened. Without a reload the page remembers what it has processed (`PageInv`). With
reloads, but without an overwrite, versions order the layouts: one that is as new as a
layout that shows a block has not the block's insertion queued (`OrderInv`), which
needs that a handler about to write has read the newest layout (`VersionInv`), that a
block is created by one handler (`OwnInv`), and that what a fresh page has loaded is
older than nothing it may still take up (`FreshInv`).

`SettledAgrees` rests on an invariant of its own (`CalmInv`), for executions in which
nothing but overwritten rows has come in between. Each row that is saved or on its
way brings at most one action that the page will not have been told of by rows of
lower versions, and a deletion only after its insertion (`FitsInv`, and `DraftsInv`
for the rows that handlers are about to write), and rows come in the order of their
versions (`NewsInv`). So a batch holds one new action at most, `closeNode` finds the
blocks it is asked for, and what waits for a deletion holds nothing new (`TurnInv`): two
new actions in one batch, an insertion and the deletion of the same block, would leave
the block shown for good, as `closeNode` looks for it among the leafs of the last
`updateTree`. No action is lost though its row is overwritten (`OccursInv`), the page
shows what exists up to the actions still to come (`ShownInv`), and the page saves again
whenever a handler has overwritten what it saved (`WritesInv`).

**`ReorderQueue_proof`.** For any sessions, capacity, numbers and clock, and any
order of timers and callbacks: the types, `RoomForAll`, `EachOnce` and `DueInTime`;
without ties also `Patient`, and `NothingOvertaken` for the job manager's use.

* `Kept` is the first four together with `Numbered` (what waits was accepted under a
  number up to `accepted`). Buffer and channel are a set and a sequence; the lemmas at
  the top say what a sorted buffer is as a sequence and what sending its first items
  leaves (`SortedBuffer`, `WhatIsLeft`), and `Carried` says of every operation how
  many items it moves from one to the other, so that capacity and account are one sum.
  A timer is never missing, because whatever forgets one (a flush, a callback of
  any timer) either empties the buffer or sets the next for the oldest item left.
* `SentInTurn` is about steps. It needs that sessions are told apart by their times
  (`SessionsApart`), so that what compares as the current session is of it: what
  `processBuffer_withlock` sends then continues the numbers without a hole, and what
  `onTimeout` sends comes before, or is, an item that has timed out.
* `SentInOrder` needs in addition what waits (`WaitingInv`): no two items have the same
  session and number, and each is of the current session with a number not yet
  reached, or of a session that compares as later (one that began before the clock was
  set back), so that an input that comes in turn, or late, overtakes none.

**`SequenceLemmas`.** What the queue operations (append, head and tail, prefix,
update) do to the set of elements. No theorem of its own is listed.

## Only model-checked

* Liveness (`EveryByteStored`, `EndIsSeen`, `BecomesReachable`, `EveryInputHandled`):
  out of the prover's reach.
* Everything about `LayoutModel` (`TypeOK`, `IdsUnique`, `NoneLost`, `NodesStay`):
  trees are handled by recursive operators, which the prover does not take, and
  what they compute for every tree would need induction over trees.

## Not modelled, and why

* Routes and queues of the stream broker: delivery is that of `Link`. The broker's
  work queues keep order per connection, which `Link` does not assume.
* The one-second limit on the answer to a packet without reader
  (`streambroker.go:179`): the answer may always be sent.
* `StreamManager.Close`, and `Close` and `SetNextSeqNum` of the input queue (called by
  tests only), and `AttachReader` (once, before
  the first connection).
* A second main server taking over the job manager
  (`jobmanager.go`, `SetAttachedClient`): connections come one after the other.
* Of the window: `moveTabToNewWindow` and its way back, bounds, focus, quitting.
* Of the terminal: escape sequences, input, shell integration, search; what a view
  that is closed while it loads goes on to do; the 1.5 s between the starts of two saves.
* Of the layout: merging, restoring and dragging on a tree with a hole (`Gesture`;
  what was hovered before the hole came may be dropped on it), and reloading the page
  with such a tree; focus, magnification, sizes, swapping, ephemeral, hidden and
  minimized blocks, titles and the order inside a group, clearing the tree. Two
  batches at once are in `LayoutSync`, not in `LayoutModel`. `replaceBlock` deletes
  the old block 300 ms later, in the model at once.
* Of the page: calls that are answered and their timeouts, file subjects, pings,
  persisted events, star scopes.
* What an input does to the process (`HandleInput`), and inputs that reach the job manager
  before the job is started, which are dropped.
* The lifecycle of a job, flush errors and
  circular parts of the file store, the stream writer, the SSH connection
  controller, block controllers, the scheduler and the polling of agent status are
  worth modelling and are not modelled yet; `PROJECT.json` lists their hazards.
* The rest has no protocol of its own: generated RPC code, configuration, AI chat
  and session parsers, command lines, and by far the most lines of all, React
  components - markdown, preview, editor, widgets, session views, settings -
  that render what the server sends and call it once per click. This is why the
  share of the implementation's lines that the models stand for is small, and why it
  stays small: the lines that decide about order, loss and agreement are few, and
  most of them are in the modules above.

## Plan

1. `JobLifecycle`: attached client, exit notification and termination,
   `TerminateOnReconnect`, attachment to blocks, auto-reconnect and pruning.
2. `FileStore`: cache entries, parts, circular files, `FlushCache` with errors.
3. Calls with answers between a page and the server, on `PageEvents`.
4. Theorems about trees, with `LayoutNode` on functions over node ids in place of
   recursive operators.
