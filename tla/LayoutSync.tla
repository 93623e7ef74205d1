----------------------------- MODULE LayoutSync -----------------------------
(* The saved layout of a tab, its copy in the page's object store, and the   *)
(* layout the page works on.  Handlers of the server queue actions in the    *)
(* saved layout and publish it; the page applies them and, after a while,    *)
(* writes back the whole layout with an empty queue.  Every write replaces   *)
(* the row, whatever it was read from; only the page compares versions.      *)
(*                                                                           *)
(* A layout is what it shows: how often each block occurs in it.  The page   *)
(* runs one callback at a time, up to its next await: while a batch has the  *)
(* "turn" nothing else runs in it.                                           *)
EXTENDS Integers, Sequences, SequencesExt

CONSTANTS Blocks,      \* blocks the server's handlers create
          Start,       \* the blocks shown at first
          MaxHandlers, \* bound on the handlers at work at once
          MaxReloads,  \* bound on the times the page is loaded or initialised again
          MaxPushes    \* bound on the writes under way from the page

ASSUME SyncAssumption ==
  /\ Start \subseteq Blocks
  /\ MaxHandlers \in Nat /\ MaxReloads \in Nat /\ MaxPushes \in Nat \ {0}

VARIABLES
  saved,         \* the row: [tree, pending, version]
  live,          \* blocks that exist
  used,          \* blocks that have existed
  handlers,      \* handlers at work: [step, action, copy]
  events,        \* published layouts on their way to the page
  pushes,        \* UpdateObject calls on their way to the server
  page,          \* "loading" or "open"
  answer,        \* the reply to GetObject: "none", "asked", or the layout
  dataAtom,      \* the object store's copy
  tree, leafs,   \* the layout the page works on; the blocks of its last updateTree
  mounted,       \* the tiles are on the page
  processedActionIds,
  turn, waiting, \* the batch that runs, and those that wait for a deletion
  timer,         \* persistDebounceTimer
  reloads,
  disturbed      \* history: what has come in between, see Disturbances

server == <<saved, live, used>>
wires == <<events, pushes, answer>>
layout == <<tree, leafs, mounted>>
batches == <<turn, waiting, processedActionIds>>
vars == <<server, handlers, wires, page, dataAtom, layout, batches, timer, reloads, disturbed>>

Actions == [op : {"insert", "delete"}, block : Blocks]
Trees == [Blocks -> Nat]
Showing(S) == [b \in Blocks |-> IF b \in S THEN 1 ELSE 0]
Shown(t) == {b \in Blocks : t[b] > 0}
Layout(t, pending, version) == [tree |-> t, pending |-> pending, version |-> version]
NoLayout == Layout(Showing({}), <<>>, 0)
Idle == [running |-> FALSE, actions |-> <<>>]
Yielded == ~turn.running

(* What the properties have to except: the page was loaded again; a handler  *)
(* wrote back a layout read before another write; a message was overtaken or *)
(* lost; a deletion reached a page whose tiles were not mounted.             *)
Disturbances == {"reload", "overwritten", "overtaken", "lost", "unmounted"}
Disturbs(what, really) == disturbed' = IF really THEN disturbed \cup {what} ELSE disturbed

Init ==
  /\ saved = Layout(Showing(Start), <<>>, 1)
  /\ live = Start /\ used = Start /\ handlers = {}
  /\ events = <<>> /\ pushes = <<>> /\ answer = NoLayout
  /\ page = "open" /\ dataAtom = saved
  /\ tree = saved.tree /\ leafs = Start /\ mounted = TRUE
  /\ processedActionIds = {} /\ turn = Idle /\ waiting = <<>>
  /\ timer = FALSE /\ reloads = 0 /\ disturbed = {}

-----------------------------------------------------------------------------
(* The server.  A handler of CreateBlock or DeleteBlock changes the blocks,  *)
(* reads the layout, queues its action, writes the layout and publishes what *)
(* it has written; two handlers, or a handler and a write of the page, may   *)
(* do so at once.                                                            *)

Handler(step, action, copy) == [step |-> step, action |-> action, copy |-> copy]
CanStart == Cardinality(handlers) < MaxHandlers
Moves(h, next) == handlers' = (handlers \ {h}) \cup {next}

CreateBlock(b) ==
  /\ CanStart /\ b \notin used
  /\ live' = live \cup {b} /\ used' = used \cup {b}
  /\ handlers' = handlers \cup {Handler("read", [op |-> "insert", block |-> b], NoLayout)}
  /\ UNCHANGED <<saved, wires, page, dataAtom, layout, batches, timer, reloads, disturbed>>

(* A block's id is known once its handler has returned. *)
DeleteBlock(b) ==
  /\ CanStart /\ b \in live /\ \A h \in handlers : h.action.block # b
  /\ live' = live \ {b} /\ UNCHANGED used
  /\ handlers' = handlers \cup {Handler("read", [op |-> "delete", block |-> b], NoLayout)}
  /\ UNCHANGED <<saved, wires, page, dataAtom, layout, batches, timer, reloads, disturbed>>

QueueReads_QueuesBlock(h) ==
  /\ h.step = "read"
  /\ Moves(h, Handler("write", h.action, [saved EXCEPT !.pending = Append(@, h.action.block)]))
  /\ UNCHANGED <<server, wires, page, dataAtom, layout, batches, timer, reloads, disturbed>>

(* QueueLayoutAction: DBGet, then DBUpdate, which takes a version of its own. *)
QueueReads(h) ==
  /\ h.step = "read"
  /\ Moves(h, Handler("write", h.action, [saved EXCEPT !.pending = Append(@, h.action)]))
  /\ UNCHANGED <<server, wires, page, dataAtom, layout, batches, timer, reloads, disturbed>>

QueueWrites(h) ==
  /\ h.step = "write"
  /\ saved' = [h.copy EXCEPT !.version = saved.version + 1]
  /\ Moves(h, Handler("publish", h.action, saved'))
  /\ Disturbs("overwritten", h.copy.version # saved.version)
  /\ UNCHANGED <<live, used, wires, page, dataAtom, layout, batches, timer, reloads>>

(* A published layout is overtaken by one of a later version.                *)
Overtakes(version) ==
  \/ \E h \in handlers : h.step = "publish" /\ h.copy.version < version
  \/ \E i \in DOMAIN events : events[i].version < version

(* Nothing orders the publications of two handlers. *)
Publish(h) ==
  /\ h.step = "publish"
  /\ handlers' = handlers \ {h}
  /\ events' = Append(events, h.copy)
  /\ Disturbs("overtaken", \E k \in handlers : k.step = "publish" /\ k.copy.version < h.copy.version)
  /\ UNCHANGED <<server, pushes, answer, page, dataAtom, layout, batches, timer, reloads>>

(* UpdateObject compares no version and publishes nothing.                   *)
UpdateObject(i) ==
  /\ saved' = [pushes[i] EXCEPT !.version = saved.version + 1]
  /\ pushes' = RemoveAt(pushes, i)
  /\ Disturbs("overtaken", i > 1)
  /\ UNCHANGED <<live, used, handlers, events, answer, page, dataAtom, layout, batches, timer, reloads>>

(* A call that fails is not made again. *)
UpdateObjectFails ==
  /\ pushes # <<>>
  /\ pushes' = Tail(pushes)
  /\ Disturbs("lost", TRUE)
  /\ UNCHANGED <<server, handlers, events, answer, page, dataAtom, layout, batches, timer, reloads>>

-----------------------------------------------------------------------------
(* The page's copy.  Whoever sets it wakes the layout model: a queue that is *)
(* not empty is processed.                                                   *)

SetAtom(value) ==
  /\ dataAtom' = value
  /\ turn' = IF page = "open" /\ value.pending # <<>> THEN [running |-> TRUE, actions |-> value.pending] ELSE turn

(* updateWaveObject ignores what is not newer. *)
UpdateWaveObject ==
  /\ Yielded /\ events # <<>>
  /\ events' = Tail(events)
  /\ IF dataAtom.version >= Head(events).version
     THEN UNCHANGED <<dataAtom, turn>>
     ELSE SetAtom(Head(events))
  /\ UNCHANGED <<server, handlers, pushes, answer, page, layout, waiting, processedActionIds, timer, reloads,
                 disturbed>>

GetObject ==
  /\ answer.version = 0 /\ page = "loading"
  /\ answer' = saved
  /\ UNCHANGED <<server, handlers, events, pushes, page, dataAtom, layout, batches, timer, reloads, disturbed>>

(* reinitWave asks for the layout of a page that is shown again, and the     *)
(* answer replaces the copy, older or not.                                   *)
ReloadWaveObject ==
  /\ page = "open" /\ answer.version = 0 /\ reloads < MaxReloads
  /\ reloads' = reloads + 1
  /\ answer' = saved
  /\ UNCHANGED <<server, handlers, events, pushes, page, dataAtom, layout, batches, timer, disturbed>>

ReloadAnswers ==
  /\ Yielded /\ page = "open" /\ answer.version > 0
  /\ SetAtom(answer)
  /\ answer' = NoLayout
  /\ Disturbs("overtaken", Overtakes(answer.version))
  /\ UNCHANGED <<server, handlers, events, pushes, page, layout, waiting, processedActionIds, timer, reloads>>

(* The page is closed and loaded again.  Its writes under way still arrive.  *)
Reload ==
  /\ Yielded /\ reloads < MaxReloads
  /\ reloads' = reloads + 1
  /\ page' = "loading" /\ dataAtom' = NoLayout /\ answer' = NoLayout
  /\ tree' = NoLayout.tree /\ leafs' = {} /\ mounted' = FALSE
  /\ turn' = Idle /\ waiting' = <<>> /\ processedActionIds' = {}
  /\ timer' = FALSE /\ events' = <<>> /\ Disturbs("reload", TRUE)
  /\ UNCHANGED <<server, handlers, pushes>>

(* createWaveValueObject keeps what an event has made newer; the layout      *)
(* model starts from the result.                                             *)
InitializeFromWaveObject ==
  /\ page = "loading" /\ answer.version > 0
  /\ page' = "open" /\ answer' = NoLayout
  /\ dataAtom' = IF dataAtom.version >= answer.version THEN dataAtom ELSE answer
  /\ tree' = dataAtom'.tree
  /\ turn' = IF dataAtom'.pending # <<>> THEN [running |-> TRUE, actions |-> dataAtom'.pending] ELSE Idle
  /\ UNCHANGED <<server, handlers, events, pushes, leafs, mounted, waiting, processedActionIds, timer, reloads,
                 disturbed>>

Mount ==
  /\ Yielded /\ page = "open" /\ ~mounted
  /\ mounted' = TRUE /\ leafs' = Shown(tree)
  /\ UNCHANGED <<server, handlers, wires, page, dataAtom, tree, batches, timer, reloads, disturbed>>

-----------------------------------------------------------------------------
(* processPendingBackendActions. *)

Handle == turn.running /\ turn.actions # <<>>
Processed == processedActionIds' = processedActionIds \cup {Head(turn.actions)}
GoesOn == turn' = [turn EXCEPT !.actions = Tail(@)] /\ UNCHANGED waiting

SkipProcessed ==
  /\ Handle /\ Head(turn.actions) \in processedActionIds
  /\ GoesOn
  /\ UNCHANGED <<server, handlers, wires, page, dataAtom, layout, processedActionIds, timer, reloads, disturbed>>

HandleInsert ==
  /\ Handle /\ Head(turn.actions) \notin processedActionIds
  /\ Head(turn.actions).op = "insert"
  /\ Processed /\ GoesOn
  /\ tree' = [tree EXCEPT ![Head(turn.actions).block] = @ + 1]
  /\ UNCHANGED <<server, handlers, wires, page, dataAtom, leafs, mounted, timer, reloads, disturbed>>

(* closeNode: the layout changes and is to be saved; the batch waits for the *)
(* deletion.  A block that is no leaf of the last updateTree is not found.   *)
HandleDelete ==
  /\ Handle /\ Head(turn.actions) \notin processedActionIds
  /\ Head(turn.actions).op = "delete"
  /\ Processed
  /\ LET b == Head(turn.actions).block
     IN  IF b \in leafs
         THEN /\ tree' = [tree EXCEPT ![b] = 0]
              /\ leafs' = Shown(tree') /\ timer' = TRUE
              /\ turn' = Idle /\ waiting' = Append(waiting, Tail(turn.actions))
         ELSE GoesOn /\ UNCHANGED <<tree, leafs, timer>>
  /\ Disturbs("unmounted", ~mounted)
  /\ UNCHANGED <<server, handlers, wires, page, dataAtom, mounted, reloads>>

BatchResumes(i) ==
  /\ Yielded
  /\ waiting' = RemoveAt(waiting, i) /\ turn' = [running |-> TRUE, actions |-> waiting[i]]
  /\ UNCHANGED <<server, handlers, wires, page, dataAtom, layout, processedActionIds, timer, reloads, disturbed>>

BatchEnds_NotSaved ==
  /\ turn.running /\ turn.actions = <<>>
  /\ turn' = Idle
  /\ leafs' = IF mounted THEN Shown(tree) ELSE leafs
  /\ UNCHANGED <<server, handlers, wires, page, dataAtom, tree, mounted, waiting, processedActionIds, timer, reloads,
                 disturbed>>

BatchEnds ==
  /\ turn.running /\ turn.actions = <<>>
  /\ turn' = Idle /\ timer' = TRUE
  /\ leafs' = IF mounted THEN Shown(tree) ELSE leafs
  /\ UNCHANGED <<server, handlers, wires, page, dataAtom, tree, mounted, waiting, processedActionIds, reloads,
                 disturbed>>

(* The user closes a block of the page. *)
CloseBlock(b) ==
  /\ Yielded /\ page = "open" /\ b \in leafs
  /\ tree' = [tree EXCEPT ![b] = 0] /\ leafs' = Shown(tree')
  /\ timer' = TRUE
  /\ live' = live \ {b}
  /\ UNCHANGED <<saved, used, handlers, wires, page, dataAtom, mounted, batches, reloads, disturbed>>

PersistToBackend_KeepsQueue ==
  /\ Yielded /\ timer /\ Len(pushes) < MaxPushes
  /\ timer' = FALSE
  /\ dataAtom' = [dataAtom EXCEPT !.tree = tree]
  /\ pushes' = Append(pushes, [dataAtom' EXCEPT !.version = 0])
  /\ UNCHANGED <<server, handlers, events, answer, page, layout, batches, reloads, disturbed>>

(* persistToBackend, when its timer fires: the copy gets the layout and an   *)
(* empty queue, and so does the server.                                      *)
PersistToBackend ==
  /\ Yielded /\ timer /\ Len(pushes) < MaxPushes
  /\ timer' = FALSE
  /\ dataAtom' = Layout(tree, <<>>, dataAtom.version)
  /\ pushes' = Append(pushes, [dataAtom' EXCEPT !.version = 0])
  /\ UNCHANGED <<server, handlers, events, answer, page, layout, batches, reloads, disturbed>>

Next ==
  \/ \E b \in Blocks : CreateBlock(b) \/ DeleteBlock(b) \/ CloseBlock(b)
  \/ \E h \in handlers : QueueReads(h) \/ QueueWrites(h) \/ Publish(h)
  \/ (\E i \in DOMAIN pushes : UpdateObject(i)) \/ UpdateObjectFails
  \/ UpdateWaveObject \/ GetObject \/ ReloadWaveObject \/ ReloadAnswers
  \/ Reload \/ InitializeFromWaveObject \/ Mount
  \/ SkipProcessed \/ HandleInsert \/ HandleDelete \/ BatchEnds
  \/ (\E i \in DOMAIN waiting : BatchResumes(i))
  \/ PersistToBackend

Spec == Init /\ [][Next]_vars

-----------------------------------------------------------------------------
(* Properties. *)

Layouts == [tree : Trees, pending : Seq(Actions), version : Nat]

TypeOK ==
  /\ saved \in Layouts /\ live \subseteq used /\ used \subseteq Blocks
  /\ \A h \in handlers : h.step \in {"read", "write", "publish"} /\ h.action \in Actions /\ h.copy \in Layouts
  /\ events \in Seq(Layouts) /\ pushes \in Seq(Layouts) /\ answer \in Layouts /\ dataAtom \in Layouts
  /\ page \in {"loading", "open"} /\ tree \in Trees /\ leafs \subseteq Blocks /\ mounted \in BOOLEAN
  /\ processedActionIds \subseteq Actions /\ turn \in [running : BOOLEAN, actions : Seq(Actions)]
  /\ waiting \in Seq(Seq(Actions)) /\ timer \in BOOLEAN /\ reloads \in 0..MaxReloads /\ disturbed \subseteq Disturbances

(* An action that the server queues takes effect once: over lost updates,    *)
(* overtaken publications, rollbacks and batches that interleave no block is *)
(* shown twice, in the page or in what is saved of it; and so over pages     *)
(* that are loaded again, unless a handler has overwritten the page's        *)
(* layout and with it the sign that the action has been applied.             *)
AppliedOnce ==
  ~({"reload", "overwritten"} \subseteq disturbed) =>
    \A b \in Blocks : tree[b] <= 1 /\ saved.tree[b] <= 1

Settled ==
  /\ page = "open" /\ mounted /\ Yielded /\ waiting = <<>> /\ ~timer
  /\ handlers = {} /\ events = <<>> /\ pushes = <<>> /\ answer = NoLayout

(* The server overwrites queued actions and the page's layouts, and the page *)
(* overwrites the queue; still, once all has settled, page and server show   *)
(* the blocks that exist and no action is queued, unless something else than *)
(* such an overwrite came in between.                                        *)
SettledAgrees ==
  Settled /\ disturbed \subseteq {"overwritten"} =>
    /\ Shown(tree) = live
    /\ saved.tree = tree /\ saved.pending = <<>>
=============================================================================
