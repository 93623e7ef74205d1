-------------------------- MODULE LayoutSync_proof --------------------------
(* The layout of a tab between the server's handlers and its page, for every  *)
(* set of blocks and every bound.                                             *)
EXTENDS LayoutSync, SequenceLemmas, TLAPS

-----------------------------------------------------------------------------
(* Sequences and layouts. *)

LEMMA RangeRemoveAt ==
  ASSUME NEW S, NEW s \in Seq(S), NEW i \in DOMAIN s
  PROVE  /\ RemoveAt(s, i) \in Seq(S) /\ Range(RemoveAt(s, i)) \subseteq Range(s)
         /\ s[i] \in S /\ s[i] \in Range(s)
  <1>1. i \in 1 .. Len(s) /\ Len(s) \in Nat
    OBVIOUS
  <1>2. SubSeq(s, 1, i - 1) \in Seq(S) /\ Range(SubSeq(s, 1, i - 1)) \subseteq Range(s)
    <2>1. i - 1 \in 0 .. Len(s)
      BY <1>1
    <2> QED BY <2>1, RangePrefix
  <1>3. SubSeq(s, i + 1, Len(s)) \in Seq(S) /\ Range(SubSeq(s, i + 1, Len(s))) \subseteq Range(s)
    <2> DEFINE t == SubSeq(s, i + 1, Len(s))
    <2>1. \A j \in i + 1 .. Len(s) : s[j] \in S
      BY <1>1
    <2>2. /\ t \in Seq(S) /\ Len(t) = (IF i + 1 <= Len(s) THEN Len(s) - (i + 1) + 1 ELSE 0)
          /\ \A j \in 1 .. Len(s) - (i + 1) + 1 : t[j] = s[i + 1 + j - 1]
      BY <1>1, <2>1, SubSeqProperties
    <2> HIDE DEF t
    <2>3. \A j \in 1 .. Len(t) : \E k \in 1 .. Len(s) : t[j] = s[k]
      <3> TAKE j \in 1 .. Len(t)
      <3>1. j + i \in 1 .. Len(s) /\ t[j] = s[j + i]
        BY <1>1, <2>2
      <3> QED BY <3>1
    <2>4. Range(t) = {t[j] : j \in 1 .. Len(t)} /\ Range(s) = {s[j] : j \in 1 .. Len(s)}
      BY <2>2, RangeEquality
    <2>5. Range(t) \subseteq Range(s)
      BY <2>3, <2>4
    <2> QED BY <2>2, <2>5 DEF t
  <1>4. PICK a \in Seq(S), b \in Seq(S) : a = SubSeq(s, 1, i - 1) /\ b = SubSeq(s, i + 1, Len(s))
    BY <1>2, <1>3
  <1>5. RemoveAt(s, i) = a \o b
    BY <1>4 DEF RemoveAt
  <1>6. a \o b \in Seq(S) /\ Range(a \o b) = Range(a) \cup Range(b)
    BY RangeConcat
  <1>7. s[i] \in S /\ s[i] \in Range(s)
    BY <1>1 DEF Range
  <1> QED BY <1>2, <1>3, <1>4, <1>5, <1>6, <1>7

LEMMA LayoutType ==
  ASSUME NEW t \in Trees, NEW p \in Seq(Actions), NEW v \in Nat
  PROVE  /\ Layout(t, p, v) \in Layouts
         /\ Layout(t, p, v).tree = t /\ Layout(t, p, v).pending = p /\ Layout(t, p, v).version = v
  BY DEF Layout, Layouts

LEMMA LayoutParts ==
  ASSUME NEW l \in Layouts
  PROVE  l.tree \in Trees /\ l.pending \in Seq(Actions) /\ l.version \in Nat
  BY DEF Layouts

LEMMA Renumbered ==
  ASSUME NEW l \in Layouts, NEW v \in Nat
  PROVE  /\ [l EXCEPT !.version = v] \in Layouts
         /\ [l EXCEPT !.version = v].tree = l.tree /\ [l EXCEPT !.version = v].pending = l.pending
         /\ [l EXCEPT !.version = v].version = v
  BY DEF Layouts

LEMMA Queued ==
  ASSUME NEW l \in Layouts, NEW p \in Seq(Actions)
  PROVE  /\ [l EXCEPT !.pending = p] \in Layouts
         /\ [l EXCEPT !.pending = p].tree = l.tree /\ [l EXCEPT !.pending = p].pending = p
         /\ [l EXCEPT !.pending = p].version = l.version
  BY DEF Layouts

LEMMA NoLayoutShows ==
  /\ NoLayout \in Layouts /\ NoLayout.pending = <<>> /\ NoLayout.version = 0
  /\ NoLayout.tree \in Trees /\ \A b \in Blocks : NoLayout.tree[b] = 0
  <1>1. Showing({}) \in Trees /\ \A b \in Blocks : Showing({})[b] = 0
    BY DEF Showing, Trees
  <1>2. <<>> \in Seq(Actions) /\ 0 \in Nat
    OBVIOUS
  <1>3. /\ NoLayout \in Layouts /\ NoLayout.pending = <<>> /\ NoLayout.version = 0
        /\ NoLayout.tree = Showing({})
    BY <1>1, <1>2 DEF NoLayout, Layout, Layouts
  <1> QED BY <1>1, <1>3

Turns == [running : BOOLEAN, actions : Seq(Actions)]

LEMMA TurnType ==
  ASSUME NEW q \in Seq(Actions), NEW r \in BOOLEAN
  PROVE  [running |-> r, actions |-> q] \in Turns
  BY DEF Turns

LEMMA TurnParts ==
  ASSUME turn \in Turns
  PROVE  turn.running \in BOOLEAN /\ turn.actions \in Seq(Actions)
  BY DEF Turns

LEMMA IdleRests == Idle \in Turns /\ Idle.running = FALSE /\ Idle.actions = <<>>
  <1>1. <<>> \in Seq(Actions)
    OBVIOUS
  <1> QED BY <1>1 DEF Idle, Turns

(* A turn that goes on has its first action behind it. *)
LEMMA TurnGoesOn ==
  ASSUME turn \in Turns, Handle
  PROVE  /\ Head(turn.actions) \in Actions /\ Tail(turn.actions) \in Seq(Actions)
         /\ Range(turn.actions) = {Head(turn.actions)} \cup Range(Tail(turn.actions))
         /\ GoesOn => turn' \in Turns /\ turn'.running /\ turn'.actions = Tail(turn.actions)
  <1>1. turn.actions \in Seq(Actions) /\ turn.actions # <<>> /\ turn.running
    BY TurnParts DEF Handle
  <1>2. /\ Head(turn.actions) \in Actions /\ Tail(turn.actions) \in Seq(Actions)
        /\ Range(turn.actions) = {Head(turn.actions)} \cup Range(Tail(turn.actions))
    BY <1>1, RangeHeadTail
  <1>3. GoesOn => turn' = [turn EXCEPT !.actions = Tail(turn.actions)]
    BY DEF GoesOn
  <1>4. GoesOn => turn' \in Turns /\ turn'.running /\ turn'.actions = Tail(turn.actions)
    BY <1>1, <1>2, <1>3 DEF Turns
  <1> QED BY <1>2, <1>4

-----------------------------------------------------------------------------
(* Types, action by action. *)

Handlers == [step : {"read", "write", "publish"}, action : Actions, copy : Layouts]

ServerOK ==
  /\ saved \in Layouts /\ live \subseteq used /\ used \subseteq Blocks
  /\ handlers \subseteq Handlers
WiresOK == events \in Seq(Layouts) /\ pushes \in Seq(Layouts) /\ answer \in Layouts
PageOK ==
  /\ page \in {"loading", "open"} /\ dataAtom \in Layouts
  /\ tree \in Trees /\ leafs \subseteq Blocks /\ mounted \in BOOLEAN /\ timer \in BOOLEAN
BatchesOK == processedActionIds \subseteq Actions /\ turn \in Turns /\ waiting \in Seq(Seq(Actions))
BoundsOK == reloads \in 0..MaxReloads /\ disturbed \subseteq Disturbances

Types == ServerOK /\ WiresOK /\ PageOK /\ BatchesOK /\ BoundsOK

LEMMA HandlerType ==
  ASSUME NEW step \in {"read", "write", "publish"}, NEW action \in Actions, NEW copy \in Layouts
  PROVE  /\ Handler(step, action, copy) \in Handlers
         /\ Handler(step, action, copy).step = step /\ Handler(step, action, copy).action = action
         /\ Handler(step, action, copy).copy = copy
  BY DEF Handler, Handlers

LEMMA HandlerParts ==
  ASSUME NEW h \in Handlers
  PROVE  h.step \in {"read", "write", "publish"} /\ h.action \in Actions /\ h.copy \in Layouts
  BY DEF Handlers

LEMMA DisturbsType ==
  ASSUME disturbed \subseteq Disturbances, NEW what \in Disturbances, NEW really \in BOOLEAN, Disturbs(what, really)
  PROVE  disturbed' \subseteq Disturbances /\ disturbed \subseteq disturbed'
  BY DEF Disturbs

(* SetAtom hands the queue to a new turn. *)
LEMMA AtomSet ==
  ASSUME NEW value \in Layouts, turn \in Turns, SetAtom(value)
  PROVE  /\ dataAtom' = value /\ turn' \in Turns
         /\ turn' = turn \/ (page = "open" /\ turn'.running /\ turn'.actions = value.pending)
  <1>1. value.pending \in Seq(Actions)
    BY LayoutParts
  <1>2. [running |-> TRUE, actions |-> value.pending] \in Turns
    BY <1>1 DEF Turns
  <1> QED BY <1>2 DEF SetAtom

LEMMA BlocksMove ==
  ASSUME Types, NEW b \in Blocks, CreateBlock(b) \/ DeleteBlock(b) \/ CloseBlock(b) PROVE Types'
  <1>1. CASE CreateBlock(b) \/ DeleteBlock(b)
    <2>1. PICK op \in {"insert", "delete"} :
            handlers' = handlers \cup {Handler("read", [op |-> op, block |-> b], NoLayout)}
      BY <1>1 DEF CreateBlock, DeleteBlock
    <2>2. [op |-> op, block |-> b] \in Actions
      BY DEF Actions
    <2>3. handlers' \subseteq Handlers
      BY <2>1, <2>2, NoLayoutShows, HandlerType DEF Types, ServerOK
    <2>4. ServerOK'
      BY <1>1, <2>3 DEF Types, ServerOK, CreateBlock, DeleteBlock
    <2> QED
      BY <1>1, <2>4 DEF Types, WiresOK, PageOK, BatchesOK, BoundsOK, CreateBlock, DeleteBlock,
         wires, layout, batches
  <1>2. CASE CloseBlock(b)
    <2>1. tree' = [tree EXCEPT ![b] = 0] /\ leafs' = Shown(tree') /\ timer' = TRUE /\ live' = live \ {b}
          /\ UNCHANGED <<saved, used, handlers, wires, page, dataAtom, mounted, batches, reloads, disturbed>>
      BY <1>2 DEF CloseBlock
    <2>2. tree' \in Trees /\ leafs' \subseteq Blocks
      BY <2>1 DEF Types, PageOK, Trees, Shown
    <2> QED BY <2>1, <2>2 DEF Types, ServerOK, WiresOK, PageOK, BatchesOK, BoundsOK, wires, batches
  <1> QED BY <1>1, <1>2

LEMMA QueueMoves ==
  ASSUME Types, NEW h \in handlers, QueueReads(h) \/ QueueWrites(h) \/ Publish(h) PROVE Types'
  <1>1. h \in Handlers /\ h.action \in Actions /\ h.copy \in Layouts /\ saved \in Layouts
    BY HandlerParts DEF Types, ServerOK
  <1>2. CASE QueueReads(h)
    <2> DEFINE copy == [saved EXCEPT !.pending = Append(@, h.action)]
    <2>1. /\ handlers' = (handlers \ {h}) \cup {Handler("write", h.action, copy)}
          /\ UNCHANGED <<server, wires, page, dataAtom, layout, batches, timer, reloads, disturbed>>
      BY <1>2 DEF QueueReads, Moves
    <2>2. copy \in Layouts
      <3>1. Append(saved.pending, h.action) \in Seq(Actions)
        BY <1>1, LayoutParts
      <3> QED BY <1>1, <3>1, Queued
    <2> HIDE DEF copy
    <2>3. Handler("write", h.action, copy) \in Handlers
      BY <1>1, <2>2, HandlerType
    <2> QED
      BY <2>1, <2>3 DEF Types, ServerOK, WiresOK, PageOK, BatchesOK, BoundsOK, server, wires, layout, batches
  <1>3. CASE QueueWrites(h)
    <2>1. /\ saved' = [h.copy EXCEPT !.version = saved.version + 1]
          /\ handlers' = (handlers \ {h}) \cup {Handler("publish", h.action, saved')}
          /\ Disturbs("overwritten", h.copy.version # saved.version)
          /\ UNCHANGED <<live, used, wires, page, dataAtom, layout, batches, timer, reloads>>
      BY <1>3 DEF QueueWrites, Moves
    <2>2. saved' \in Layouts
      <3>1. saved.version + 1 \in Nat
        BY <1>1, LayoutParts
      <3> QED BY <1>1, <2>1, <3>1, Renumbered
    <2>3. Handler("publish", h.action, saved') \in Handlers
      BY <1>1, <2>2, HandlerType
    <2>4. disturbed' \subseteq Disturbances
      BY <2>1 DEF Disturbs, Disturbances, Types, BoundsOK
    <2> QED
      BY <2>1, <2>2, <2>3, <2>4 DEF Types, ServerOK, WiresOK, PageOK, BatchesOK, BoundsOK, wires, layout, batches
  <1>4. CASE Publish(h)
    <2>1. /\ handlers' = handlers \ {h} /\ events' = Append(events, h.copy)
          /\ UNCHANGED <<server, pushes, answer, page, dataAtom, layout, batches, timer, reloads>>
      BY <1>4 DEF Publish
    <2>2. events' \in Seq(Layouts)
      BY <1>1, <2>1 DEF Types, WiresOK
    <2>3. disturbed' \subseteq Disturbances
      BY <1>4 DEF Publish, Disturbs, Disturbances, Types, BoundsOK
    <2> QED
      BY <2>1, <2>2, <2>3 DEF Types, ServerOK, WiresOK, PageOK, BatchesOK, BoundsOK, server, layout, batches
  <1> QED BY <1>2, <1>3, <1>4

LEMMA PushesMove ==
  ASSUME Types, (\E i \in DOMAIN pushes : UpdateObject(i)) \/ UpdateObjectFails PROVE Types'
  <1>1. pushes \in Seq(Layouts) /\ saved \in Layouts
    BY DEF Types, WiresOK, ServerOK
  <1>2. ASSUME NEW i \in DOMAIN pushes, UpdateObject(i)
        PROVE  Types'
    <2>1. /\ saved' = [pushes[i] EXCEPT !.version = saved.version + 1] /\ pushes' = RemoveAt(pushes, i)
          /\ UNCHANGED <<live, used, handlers, events, answer, page, dataAtom, layout, batches, timer, reloads>>
      BY <1>2 DEF UpdateObject
    <2>2. pushes' \in Seq(Layouts) /\ pushes[i] \in Layouts
      BY <1>1, <2>1, RangeRemoveAt
    <2>3. saved' \in Layouts
      <3>1. saved.version + 1 \in Nat
        BY <1>1, LayoutParts
      <3> QED BY <2>1, <2>2, <3>1, Renumbered
    <2>4. disturbed' \subseteq Disturbances
      BY <1>2 DEF UpdateObject, Disturbs, Disturbances, Types, BoundsOK
    <2> QED
      BY <2>1, <2>2, <2>3, <2>4 DEF Types, ServerOK, WiresOK, PageOK, BatchesOK, BoundsOK, layout, batches
  <1>3. CASE UpdateObjectFails
    <2>1. /\ pushes # <<>> /\ pushes' = Tail(pushes)
          /\ UNCHANGED <<server, handlers, events, answer, page, dataAtom, layout, batches, timer, reloads>>
      BY <1>3 DEF UpdateObjectFails
    <2>2. pushes' \in Seq(Layouts)
      BY <1>1, <2>1
    <2>3. disturbed' \subseteq Disturbances
      BY <1>3 DEF UpdateObjectFails, Disturbs, Disturbances, Types, BoundsOK
    <2> QED
      BY <2>1, <2>2, <2>3 DEF Types, ServerOK, WiresOK, PageOK, BatchesOK, BoundsOK, server, layout, batches
  <1> QED BY <1>2, <1>3

LEMMA CopyMoves ==
  ASSUME Types, UpdateWaveObject \/ ReloadAnswers PROVE Types'
  <1>1. /\ events \in Seq(Layouts) /\ answer \in Layouts /\ dataAtom \in Layouts /\ turn \in Turns
    BY DEF Types, WiresOK, PageOK, BatchesOK
  <1>2. CASE UpdateWaveObject
    <2>1. /\ events # <<>> /\ events' = Tail(events)
          /\ UNCHANGED <<dataAtom, turn>> \/ SetAtom(Head(events))
          /\ UNCHANGED <<server, handlers, pushes, answer, page, layout, waiting, processedActionIds, timer,
                         reloads, disturbed>>
      BY <1>2 DEF UpdateWaveObject
    <2>2. Head(events) \in Layouts /\ events' \in Seq(Layouts)
      BY <1>1, <2>1, RangeHeadTail
    <2>3. dataAtom' \in Layouts /\ turn' \in Turns
      BY <1>1, <2>1, <2>2, AtomSet
    <2> QED BY <2>1, <2>2, <2>3 DEF Types, ServerOK, WiresOK, PageOK, BatchesOK, BoundsOK, server, layout
  <1>3. CASE ReloadAnswers
    <2>1. /\ SetAtom(answer) /\ answer' = NoLayout
          /\ UNCHANGED <<server, handlers, events, pushes, page, layout, waiting, processedActionIds, timer, reloads>>
      BY <1>3 DEF ReloadAnswers
    <2>2. dataAtom' \in Layouts /\ turn' \in Turns /\ answer' \in Layouts
      BY <1>1, <2>1, AtomSet, NoLayoutShows
    <2>3. disturbed' \subseteq Disturbances
      BY <1>3 DEF ReloadAnswers, Disturbs, Disturbances, Types, BoundsOK
    <2> QED BY <2>1, <2>2, <2>3 DEF Types, ServerOK, WiresOK, PageOK, BatchesOK, BoundsOK, server, layout
  <1> QED BY <1>2, <1>3

LEMMA PageLoads ==
  ASSUME Types, GetObject \/ ReloadWaveObject \/ Reload \/ InitializeFromWaveObject \/ Mount PROVE Types'
  <1>1. MaxReloads \in Nat
    BY SyncAssumption
  <1>2. CASE GetObject
    BY <1>2 DEF GetObject, Types, ServerOK, WiresOK, PageOK, BatchesOK, BoundsOK, server, layout, batches
  <1>3. CASE ReloadWaveObject
    <2>1. reloads' \in 0..MaxReloads
      BY <1>1, <1>3 DEF ReloadWaveObject, Types, BoundsOK
    <2>2. /\ answer' = saved
          /\ UNCHANGED <<server, handlers, events, pushes, page, dataAtom, layout, batches, timer, disturbed>>
      BY <1>3 DEF ReloadWaveObject
    <2> QED BY <2>1, <2>2 DEF Types, ServerOK, WiresOK, PageOK, BatchesOK, BoundsOK, server, layout, batches
  <1>4. CASE Reload
    <2>1. reloads' \in 0..MaxReloads
      BY <1>1, <1>4 DEF Reload, Types, BoundsOK
    <2>2. /\ page' = "loading" /\ dataAtom' = NoLayout /\ answer' = NoLayout
          /\ tree' = NoLayout.tree /\ leafs' = {} /\ mounted' = FALSE
          /\ turn' = Idle /\ waiting' = <<>> /\ processedActionIds' = {}
          /\ timer' = FALSE /\ events' = <<>> /\ Disturbs("reload", TRUE)
          /\ UNCHANGED <<server, handlers, pushes>>
      BY <1>4 DEF Reload
    <2>3. events' \in Seq(Layouts) /\ waiting' \in Seq(Seq(Actions))
      BY <2>2
    <2>4. disturbed' \subseteq Disturbances
      BY <2>2 DEF Disturbs, Disturbances, Types, BoundsOK
    <2> QED
      BY <2>1, <2>2, <2>3, <2>4, NoLayoutShows, IdleRests
         DEF Types, ServerOK, WiresOK, PageOK, BatchesOK, BoundsOK, server
  <1>5. CASE InitializeFromWaveObject
    <2>1. /\ page' = "open" /\ answer' = NoLayout
          /\ dataAtom' \in {dataAtom, answer}
          /\ tree' = dataAtom'.tree
          /\ turn' \in {[running |-> TRUE, actions |-> dataAtom'.pending], Idle}
          /\ UNCHANGED <<server, handlers, events, pushes, leafs, mounted, waiting, processedActionIds, timer,
                         reloads, disturbed>>
      BY <1>5 DEF InitializeFromWaveObject
    <2>2. dataAtom' \in Layouts /\ answer' \in Layouts
      BY <2>1, NoLayoutShows DEF Types, WiresOK, PageOK
    <2>3. tree' \in Trees /\ dataAtom'.pending \in Seq(Actions)
      BY <2>1, <2>2, LayoutParts
    <2>4. turn' \in Turns
      BY <2>1, <2>3, IdleRests, TurnType
    <2> QED
      BY <2>1, <2>2, <2>3, <2>4 DEF Types, ServerOK, WiresOK, PageOK, BatchesOK, BoundsOK, server
  <1>6. CASE Mount
    BY <1>6 DEF Mount, Types, ServerOK, WiresOK, PageOK, BatchesOK, BoundsOK, server, wires, batches, Shown
  <1> QED BY <1>2, <1>3, <1>4, <1>5, <1>6

LEMMA BatchMoves ==
  ASSUME Types, SkipProcessed \/ HandleInsert \/ HandleDelete \/ BatchEnds \/ \E i \in DOMAIN waiting : BatchResumes(i)
  PROVE  Types'
  <1>1. /\ turn \in Turns /\ waiting \in Seq(Seq(Actions)) /\ processedActionIds \subseteq Actions
        /\ tree \in Trees /\ leafs \subseteq Blocks
    BY DEF Types, PageOK, BatchesOK
  <1>2. CASE SkipProcessed
    <2>1. turn' \in Turns /\ UNCHANGED waiting
      BY <1>1, <1>2, TurnGoesOn DEF SkipProcessed, GoesOn
    <2> QED
      BY <1>2, <2>1 DEF SkipProcessed, Types, ServerOK, WiresOK, PageOK, BatchesOK, BoundsOK, server, wires, layout
  <1>3. CASE HandleInsert
    <2>1. /\ Handle /\ Processed /\ GoesOn
          /\ tree' = [tree EXCEPT ![Head(turn.actions).block] = @ + 1]
          /\ UNCHANGED <<server, handlers, wires, page, dataAtom, leafs, mounted, timer, reloads, disturbed>>
      BY <1>3 DEF HandleInsert
    <2>2. turn' \in Turns /\ Head(turn.actions) \in Actions /\ UNCHANGED waiting
      BY <1>1, <2>1, TurnGoesOn DEF GoesOn
    <2>3. processedActionIds' \subseteq Actions /\ tree' \in Trees
      BY <1>1, <2>1, <2>2 DEF Processed, Trees, Actions
    <2> QED
      BY <1>1, <2>1, <2>2, <2>3 DEF Types, ServerOK, WiresOK, PageOK, BatchesOK, BoundsOK, server, wires
  <1>4. CASE HandleDelete
    <2> DEFINE b == Head(turn.actions).block
    <2>1. /\ Handle /\ Processed
          /\ UNCHANGED <<server, handlers, wires, page, dataAtom, mounted, reloads>>
          /\ Disturbs("unmounted", ~mounted)
          /\ \/ /\ tree' = [tree EXCEPT ![b] = 0] /\ leafs' = Shown(tree') /\ timer' = TRUE
                /\ turn' = Idle /\ waiting' = Append(waiting, Tail(turn.actions))
             \/ GoesOn /\ UNCHANGED <<tree, leafs, timer>>
      BY <1>4 DEF HandleDelete
    <2>2. Head(turn.actions) \in Actions /\ Tail(turn.actions) \in Seq(Actions) /\ (GoesOn => turn' \in Turns)
      BY <1>1, <2>1, TurnGoesOn
    <2>3. processedActionIds' \subseteq Actions
      BY <1>1, <2>1, <2>2 DEF Processed
    <2>4. turn' \in Turns /\ waiting' \in Seq(Seq(Actions))
      <3>1. Append(waiting, Tail(turn.actions)) \in Seq(Seq(Actions))
        BY <1>1, <2>2
      <3> QED BY <1>1, <2>1, <2>2, <3>1, IdleRests DEF GoesOn
    <2>5. tree' \in Trees /\ leafs' \subseteq Blocks /\ timer' \in BOOLEAN
      <3>1. tree' \in Trees
        BY <1>1, <2>1 DEF Trees
      <3>2. leafs' \subseteq Blocks
        BY <1>1, <2>1 DEF Shown
      <3>3. timer' \in BOOLEAN
        BY <2>1, Zenon DEF Types, PageOK
      <3> QED BY <3>1, <3>2, <3>3
    <2>6. disturbed' \subseteq Disturbances
      BY <2>1 DEF Disturbs, Disturbances, Types, BoundsOK
    <2> QED
      BY <2>1, <2>3, <2>4, <2>5, <2>6 DEF Types, ServerOK, WiresOK, PageOK, BatchesOK, BoundsOK, server, wires
  <1>5. CASE BatchEnds
    <2>1. leafs' \subseteq Blocks
      BY <1>1, <1>5 DEF BatchEnds, Shown
    <2> QED
      BY <1>5, <2>1, IdleRests
         DEF BatchEnds, Types, ServerOK, WiresOK, PageOK, BatchesOK, BoundsOK, server, wires
  <1>6. ASSUME NEW i \in DOMAIN waiting, BatchResumes(i)
        PROVE  Types'
    <2>1. waiting' \in Seq(Seq(Actions)) /\ waiting[i] \in Seq(Actions)
      BY <1>1, <1>6, RangeRemoveAt DEF BatchResumes
    <2>2. turn' \in Turns
      BY <1>6, <2>1, TurnType DEF BatchResumes
    <2> QED
      BY <1>6, <2>1, <2>2
         DEF BatchResumes, Types, ServerOK, WiresOK, PageOK, BatchesOK, BoundsOK, server, wires, layout
  <1> QED BY <1>2, <1>3, <1>4, <1>5, <1>6

LEMMA LayoutPersists == ASSUME Types, PersistToBackend PROVE Types'
  <1>1. /\ timer' = FALSE /\ dataAtom' = Layout(tree, <<>>, dataAtom.version)
        /\ pushes' = Append(pushes, [dataAtom' EXCEPT !.version = 0])
        /\ UNCHANGED <<server, handlers, events, answer, page, layout, batches, reloads, disturbed>>
    BY DEF PersistToBackend
  <1>2. dataAtom' \in Layouts
    <2>1. tree \in Trees /\ dataAtom.version \in Nat /\ <<>> \in Seq(Actions)
      BY LayoutParts DEF Types, PageOK
    <2> QED BY <1>1, <2>1, LayoutType
  <1>3. pushes' \in Seq(Layouts)
    <2>1. [dataAtom' EXCEPT !.version = 0] \in Layouts
      BY <1>2, Renumbered
    <2> QED BY <1>1, <2>1 DEF Types, WiresOK
  <1> QED
    BY <1>1, <1>2, <1>3 DEF Types, ServerOK, WiresOK, PageOK, BatchesOK, BoundsOK, server, layout, batches

LEMMA TypesHold == Init => Types
  <1> SUFFICES ASSUME Init PROVE Types
    OBVIOUS
  <1>1. Start \subseteq Blocks /\ MaxReloads \in Nat
    BY SyncAssumption
  <1>2. Showing(Start) \in Trees /\ <<>> \in Seq(Actions) /\ 1 \in Nat
    BY DEF Showing, Trees
  <1>3. saved \in Layouts /\ saved.tree \in Trees
    <2>1. saved = Layout(Showing(Start), <<>>, 1)
      BY DEF Init
    <2>2. Layout(Showing(Start), <<>>, 1) \in Layouts
      BY <1>2 DEF Layout, Layouts
    <2> QED BY <2>1, <2>2, LayoutParts
  <1>4. ServerOK
    BY <1>1, <1>3 DEF Init, ServerOK
  <1>5. WiresOK /\ BatchesOK
    BY NoLayoutShows, IdleRests DEF Init, WiresOK, BatchesOK
  <1>6. PageOK /\ BoundsOK
    <2>1. page = "open" /\ dataAtom = saved /\ tree = saved.tree /\ leafs = Start /\ mounted = TRUE
          /\ timer = FALSE /\ reloads = 0 /\ disturbed = {}
      BY DEF Init
    <2>2. PageOK
      BY <1>1, <1>3, <2>1, Zenon DEF PageOK
    <2>3. 0 \in 0..MaxReloads
      BY <1>1
    <2> QED BY <2>1, <2>2, <2>3 DEF BoundsOK
  <1> QED BY <1>4, <1>5, <1>6 DEF Types

LEMMA TypesKept == Types /\ [Next]_vars => Types'
  <1> SUFFICES ASSUME Types, [Next]_vars PROVE Types'
    OBVIOUS
  <1>1. CASE UNCHANGED vars
    BY <1>1 DEF vars, server, wires, layout, batches, Types, ServerOK, WiresOK, PageOK, BatchesOK, BoundsOK
  <1>2. CASE Next
    BY <1>2, BlocksMove, QueueMoves, PushesMove, CopyMoves, PageLoads, BatchMoves, LayoutPersists DEF Next
  <1> QED BY <1>1, <1>2

(* Every variable of the server, the wires and the page keeps its type.       *)
THEOREM TypeCorrect == Spec => []TypeOK
  <1>1. Types => TypeOK
    BY HandlerParts DEF Types, ServerOK, WiresOK, PageOK, BatchesOK, BoundsOK, Turns, TypeOK
  <1> QED BY <1>1, TypesHold, TypesKept, PTL DEF Spec

-----------------------------------------------------------------------------
(* An inserted block appears once: a page that is not loaded again remembers  *)
(* the actions it has processed.                                              *)

Insert(b) == [op |-> "insert", block |-> b]
Single(t) == \A b \in Blocks : t[b] <= 1
InTurns(b) ==
  Insert(b) \in Range(turn.actions) \/ \E q \in Range(waiting) : Insert(b) \in Range(q)

(* The layouts that are, or may become, the saved one. *)
Held == {saved, answer} \cup Range(events) \cup Range(pushes) \cup {h.copy : h \in handlers}

(* No block twice, and no block that was there at first inserted. *)
Plain(l) == Single(l.tree) /\ \A b \in Start : Insert(b) \notin Range(l.pending)

AppliedHere ==
  \A b \in Blocks : tree[b] <= 1 /\ (tree[b] > 0 => b \in Start \/ Insert(b) \in processedActionIds)

PageOnce ==
  /\ page = "open" /\ Start \subseteq used
  /\ AppliedHere
  /\ \A l \in Held : Plain(l)
  /\ \A b \in Start : ~InTurns(b) /\ \A h \in handlers : h.action # Insert(b)

LEMMA InsertType ==
  ASSUME NEW b \in Blocks
  PROVE  /\ Insert(b) \in Actions /\ Insert(b).op = "insert" /\ Insert(b).block = b
         /\ \A a \in Actions : a.op = "insert" /\ a.block = b => a = Insert(b)
  BY DEF Insert, Actions

LEMMA EmptyIsPlain == Plain(NoLayout)
  <1>1. \A b \in Blocks : NoLayout.tree[b] <= 1
    BY NoLayoutShows
  <1>2. Range(NoLayout.pending) = {}
    BY NoLayoutShows, RangeEmpty
  <1> QED BY <1>1, <1>2 DEF Plain, Single

LEMMA RangeType ==
  ASSUME NEW S, NEW s \in Seq(S) PROVE Range(s) \subseteq S
  BY DEF Range

LEMMA RangeTail ==
  ASSUME NEW S, NEW s \in Seq(S), s # <<>>
  PROVE  Tail(s) \in Seq(S) /\ Range(Tail(s)) \subseteq Range(s) /\ Head(s) \in Range(s)
  BY RangeHeadTail

(* What a step has to show: that it adds nothing but plain layouts, and turns *)
(* that come from them.                                                       *)
LEMMA PageKeeps ==
  ASSUME PageOnce, page' = page, used \subseteq used', AppliedHere',
         \A l \in Held' : l \in Held \/ Plain(l),
         \A h \in handlers' : (\E k \in handlers : h.action = k.action) \/ \A b \in Start : h.action # Insert(b),
         \A b \in Start : InTurns(b)' => InTurns(b) \/ \E l \in Held : Insert(b) \in Range(l.pending)
  PROVE  PageOnce'
  <1>1. page' = "open" /\ Start \subseteq used' /\ \A l \in Held' : Plain(l)
    BY DEF PageOnce
  <1>2. \A b \in Start : \A h \in handlers' : h.action # Insert(b)
    BY DEF PageOnce
  <1>3. \A b \in Start : ~InTurns(b)'
    BY DEF PageOnce, Plain
  <1> QED BY <1>1, <1>2, <1>3 DEF PageOnce, Plain, Single

LEMMA BlocksOnce ==
  ASSUME Types, PageOnce, NEW b \in Blocks, CreateBlock(b) \/ DeleteBlock(b) \/ CloseBlock(b) PROVE PageOnce'
  <1>1. CASE CloseBlock(b)
    <2>1. /\ tree' = [tree EXCEPT ![b] = 0] /\ processedActionIds' = processedActionIds
          /\ UNCHANGED <<page, used, handlers, saved, answer, events, pushes, turn, waiting>>
      BY <1>1 DEF CloseBlock, wires, batches
    <2>2. AppliedHere'
      BY <2>1 DEF PageOnce, AppliedHere, Types, PageOK, Trees
    <2>3. Held' = Held /\ \A c \in Start : InTurns(c)' = InTurns(c)
      BY <2>1 DEF Held, InTurns
    <2> QED BY <2>1, <2>2, <2>3, PageKeeps
  <1>2. CASE CreateBlock(b) \/ DeleteBlock(b)
    <2>1. PICK a \in Actions :
            /\ handlers' = handlers \cup {Handler("read", a, NoLayout)}
            /\ a = [op |-> "delete", block |-> b] \/ (a = Insert(b) /\ b \notin used)
      BY <1>2 DEF CreateBlock, DeleteBlock, Insert, Actions
    <2>2. /\ UNCHANGED <<page, tree, processedActionIds, saved, answer, events, pushes, turn, waiting>>
          /\ used \subseteq used'
      BY <1>2 DEF CreateBlock, DeleteBlock, wires, batches, layout
    <2>3. Handler("read", a, NoLayout).action = a /\ Handler("read", a, NoLayout).copy = NoLayout
      BY NoLayoutShows, HandlerType
    <2>4. \A l \in Held' : l \in Held \/ Plain(l)
      BY <2>1, <2>2, <2>3, EmptyIsPlain DEF Held
    <2>5. \A c \in Start : a # Insert(c)
      BY <2>1 DEF Insert, PageOnce
    <2>6. AppliedHere' /\ \A c \in Start : InTurns(c)' = InTurns(c)
      BY <2>2 DEF PageOnce, AppliedHere, InTurns
    <2> QED BY <2>1, <2>2, <2>3, <2>4, <2>5, <2>6, PageKeeps
  <1> QED BY <1>1, <1>2

LEMMA QueueOnce ==
  ASSUME Types, PageOnce, NEW h \in handlers, QueueReads(h) \/ QueueWrites(h) \/ Publish(h) PROVE PageOnce'
  <1>1. h \in Handlers /\ h.action \in Actions /\ h.copy \in Layouts /\ saved \in Layouts
    BY HandlerParts DEF Types, ServerOK
  <1>2. UNCHANGED <<page, used, tree, processedActionIds, answer, pushes, turn, waiting>>
    BY DEF QueueReads, QueueWrites, Publish, server, wires, batches, layout
  <1>3. AppliedHere' /\ \A c \in Start : InTurns(c)' = InTurns(c)
    BY <1>2 DEF PageOnce, AppliedHere, InTurns
  <1>4. saved \in Held /\ h.copy \in Held /\ Plain(saved) /\ Plain(h.copy)
    BY DEF Held, PageOnce
  <1>5. CASE QueueReads(h)
    <2> DEFINE copy == [saved EXCEPT !.pending = Append(@, h.action)]
    <2>1. handlers' = (handlers \ {h}) \cup {Handler("write", h.action, copy)} /\ UNCHANGED <<saved, events>>
      BY <1>5 DEF QueueReads, Moves, server, wires
    <2>2. /\ Append(saved.pending, h.action) \in Seq(Actions)
          /\ Range(Append(saved.pending, h.action)) = Range(saved.pending) \cup {h.action}
      BY <1>1, LayoutParts, RangeAppend
    <2>3. copy \in Layouts /\ copy.tree = saved.tree /\ copy.pending = Append(saved.pending, h.action)
      BY <1>1, <2>2, Queued
    <2>4. Plain(copy)
      <3> HIDE DEF copy
      <3> QED BY <1>4, <2>2, <2>3 DEF Plain, PageOnce
    <2> HIDE DEF copy
    <2>5. Handler("write", h.action, copy).action = h.action /\ Handler("write", h.action, copy).copy = copy
      BY <1>1, <2>3, HandlerType
    <2>6. \A l \in Held' : l \in Held \/ Plain(l)
      BY <1>2, <2>1, <2>4, <2>5 DEF Held
    <2> QED BY <1>2, <1>3, <2>1, <2>5, <2>6, PageKeeps
  <1>6. CASE QueueWrites(h)
    <2>1. /\ saved' = [h.copy EXCEPT !.version = saved.version + 1]
          /\ handlers' = (handlers \ {h}) \cup {Handler("publish", h.action, saved')} /\ UNCHANGED events
      BY <1>6 DEF QueueWrites, Moves, wires
    <2>2. saved' \in Layouts /\ saved'.tree = h.copy.tree /\ saved'.pending = h.copy.pending
      <3>1. saved.version + 1 \in Nat
        BY <1>1, LayoutParts
      <3> QED BY <1>1, <2>1, <3>1, Renumbered
    <2>3. Plain(saved')
      BY <1>4, <2>2 DEF Plain
    <2>4. Handler("publish", h.action, saved').action = h.action /\ Handler("publish", h.action, saved').copy = saved'
      BY <1>1, <2>2, HandlerType
    <2>5. \A l \in Held' : l \in Held \/ Plain(l)
      BY <1>2, <2>1, <2>3, <2>4 DEF Held
    <2> QED BY <1>2, <1>3, <2>1, <2>4, <2>5, PageKeeps
  <1>7. CASE Publish(h)
    <2>1. handlers' = handlers \ {h} /\ events' = Append(events, h.copy) /\ UNCHANGED saved
      BY <1>7 DEF Publish, server
    <2>2. Range(events') = Range(events) \cup {h.copy}
      BY <1>1, <2>1, RangeAppend DEF Types, WiresOK
    <2>3. Held' \subseteq Held
      BY <1>2, <2>1, <2>2 DEF Held
    <2> QED BY <1>2, <1>3, <2>1, <2>3, PageKeeps
  <1> QED BY <1>5, <1>6, <1>7

LEMMA PushesOnce ==
  ASSUME Types, PageOnce, (\E i \in DOMAIN pushes : UpdateObject(i)) \/ UpdateObjectFails PROVE PageOnce'
  <1>1. pushes \in Seq(Layouts) /\ saved \in Layouts
    BY DEF Types, WiresOK, ServerOK
  <1>2. UNCHANGED <<page, used, tree, processedActionIds, handlers, events, answer, turn, waiting>>
    BY DEF UpdateObject, UpdateObjectFails, server, batches, layout
  <1>3. AppliedHere' /\ \A c \in Start : InTurns(c)' = InTurns(c)
    BY <1>2 DEF PageOnce, AppliedHere, InTurns
  <1>4. ASSUME NEW i \in DOMAIN pushes, UpdateObject(i)
        PROVE  PageOnce'
    <2>1. saved' = [pushes[i] EXCEPT !.version = saved.version + 1] /\ pushes' = RemoveAt(pushes, i)
      BY <1>4 DEF UpdateObject
    <2>2. Range(pushes') \subseteq Range(pushes) /\ pushes[i] \in Layouts /\ pushes[i] \in Range(pushes)
      BY <1>1, <2>1, RangeRemoveAt
    <2>3. saved' \in Layouts /\ saved'.tree = pushes[i].tree /\ saved'.pending = pushes[i].pending
      <3>1. saved.version + 1 \in Nat
        BY <1>1, LayoutParts
      <3> QED BY <2>1, <2>2, <3>1, Renumbered
    <2>4. Plain(saved')
      BY <2>2, <2>3 DEF Held, PageOnce, Plain
    <2>5. \A l \in Held' : l \in Held \/ Plain(l)
      BY <1>2, <2>2, <2>4 DEF Held
    <2> QED BY <1>2, <1>3, <2>5, PageKeeps
  <1>5. CASE UpdateObjectFails
    <2>1. Range(pushes') \subseteq Range(pushes) /\ UNCHANGED saved
      BY <1>1, <1>5, RangeTail DEF UpdateObjectFails, server
    <2>2. Held' \subseteq Held
      BY <1>2, <2>1 DEF Held
    <2> QED BY <1>2, <1>3, <2>2, PageKeeps
  <1> QED BY <1>4, <1>5

LEMMA CopyOnce ==
  ASSUME Types, PageOnce, UpdateWaveObject \/ ReloadAnswers PROVE PageOnce'
  <1>1. /\ events \in Seq(Layouts) /\ answer \in Layouts /\ turn \in Turns
    BY DEF Types, WiresOK, BatchesOK
  <1>2. UNCHANGED <<page, used, tree, processedActionIds, handlers, pushes, saved, waiting>>
    BY DEF UpdateWaveObject, ReloadAnswers, server, layout
  <1>3. AppliedHere'
    BY <1>2 DEF PageOnce, AppliedHere
  <1>4. PICK l \in Layouts : l \in Held /\ (turn' = turn \/ turn'.actions = l.pending)
    <2>1. CASE UpdateWaveObject
      <3>1. /\ events # <<>>
            /\ UNCHANGED <<dataAtom, turn>> \/ SetAtom(Head(events))
        BY <2>1 DEF UpdateWaveObject
      <3>2. Head(events) \in Layouts /\ Head(events) \in Range(events)
        BY <1>1, <3>1, RangeHeadTail, RangeTail
      <3>3. turn' = turn \/ turn'.actions = Head(events).pending
        BY <1>1, <3>1, <3>2, AtomSet
      <3> QED BY <3>2, <3>3 DEF Held
    <2>2. CASE ReloadAnswers
      <3>1. SetAtom(answer)
        BY <2>2 DEF ReloadAnswers
      <3>2. turn' = turn \/ turn'.actions = answer.pending
        BY <1>1, <3>1, AtomSet
      <3> QED BY <1>1, <3>2 DEF Held
    <2> QED BY <2>1, <2>2
  <1>5. Held' \subseteq Held \cup {NoLayout}
    <2>1. CASE UpdateWaveObject
      <3>1. Range(events') \subseteq Range(events) /\ answer' = answer
        BY <1>1, <2>1, RangeTail DEF UpdateWaveObject
      <3> QED BY <1>2, <3>1 DEF Held
    <2>2. CASE ReloadAnswers
      <3>1. events' = events /\ answer' = NoLayout
        BY <2>2 DEF ReloadAnswers
      <3> QED BY <1>2, <3>1 DEF Held
    <2> QED BY <2>1, <2>2
  <1>6. \A m \in Held' : m \in Held \/ Plain(m)
    BY <1>5, EmptyIsPlain
  <1>7. \A b \in Start : InTurns(b)' => InTurns(b) \/ Insert(b) \in Range(l.pending)
    BY <1>2, <1>4 DEF InTurns
  <1> QED BY <1>2, <1>3, <1>4, <1>6, <1>7, PageKeeps

LEMMA LoadsOnce ==
  ASSUME Types, PageOnce, GetObject \/ ReloadWaveObject \/ InitializeFromWaveObject \/ Mount PROVE PageOnce'
  <1>1. ReloadWaveObject \/ Mount
    BY DEF PageOnce, GetObject, InitializeFromWaveObject
  <1>2. /\ UNCHANGED <<page, used, tree, processedActionIds, handlers, events, pushes, saved, turn, waiting>>
        /\ answer' \in {saved, answer}
    BY <1>1 DEF ReloadWaveObject, Mount, server, wires, layout, batches
  <1>3. AppliedHere' /\ \A b \in Start : InTurns(b)' = InTurns(b)
    BY <1>2 DEF PageOnce, AppliedHere, InTurns
  <1>4. Held' \subseteq Held
    BY <1>2 DEF Held
  <1> QED BY <1>2, <1>3, <1>4, PageKeeps

(* What the actions of a batch leave alone. *)
LEMMA BatchesStay ==
  ASSUME SkipProcessed \/ HandleInsert \/ HandleDelete \/ BatchEnds \/ \E i \in DOMAIN waiting : BatchResumes(i)
  PROVE  /\ UNCHANGED <<saved, used, events, pushes, answer, handlers, page, dataAtom>>
         /\ Held' = Held
  <1>1. UNCHANGED <<saved, used, events, pushes, answer, handlers, page, dataAtom>>
    BY DEF SkipProcessed, HandleInsert, HandleDelete, BatchEnds, BatchResumes, server, wires
  <1> QED BY <1>1 DEF Held

(* Nothing comes into a batch that was not in one. *)
LEMMA TurnsShrink ==
  ASSUME Types,
         SkipProcessed \/ HandleInsert \/ HandleDelete \/ BatchEnds \/ \E i \in DOMAIN waiting : BatchResumes(i)
  PROVE  /\ \A b \in Blocks : InTurns(b)' => InTurns(b)
         /\ ~turn.running => UNCHANGED <<tree, processedActionIds>>
         /\ processedActionIds \subseteq processedActionIds'
  <1>1. turn \in Turns /\ waiting \in Seq(Seq(Actions)) /\ turn.running \in BOOLEAN
    BY TurnParts DEF Types, BatchesOK
  <1>2. CASE SkipProcessed \/ HandleInsert
    <2>1. Handle /\ GoesOn /\ waiting' = waiting /\ processedActionIds \subseteq processedActionIds'
      BY <1>2 DEF SkipProcessed, HandleInsert, GoesOn, Processed
    <2>2. Range(turn'.actions) \subseteq Range(turn.actions) /\ turn.running
      BY <1>1, <2>1, TurnGoesOn DEF Handle
    <2> QED BY <2>1, <2>2 DEF InTurns
  <1>3. CASE HandleDelete
    <2>1. Handle /\ Processed /\ \/ turn' = Idle /\ waiting' = Append(waiting, Tail(turn.actions))
                                 \/ GoesOn /\ waiting' = waiting
      BY <1>3 DEF HandleDelete, GoesOn
    <2>2. Tail(turn.actions) \in Seq(Actions) /\ Range(Tail(turn.actions)) \subseteq Range(turn.actions)
      BY <1>1, <2>1, TurnGoesOn
    <2>3. Range(Append(waiting, Tail(turn.actions))) = Range(waiting) \cup {Tail(turn.actions)}
      <3>1. PICK S : S = Seq(Actions)
        OBVIOUS
      <3>2. PICK q \in S : q = Tail(turn.actions)
        BY <2>2, <3>1
      <3>3. waiting \in Seq(S)
        BY <1>1, <3>1
      <3>4. Range(Append(waiting, q)) = Range(waiting) \cup {q}
        BY <3>3, RangeAppend
      <3> QED BY <3>2, <3>4
    <2>4. CASE turn' = Idle /\ waiting' = Append(waiting, Tail(turn.actions))
      <3>1. Range(turn'.actions) = {}
        BY <2>4, IdleRests, RangeEmpty
      <3>2. \A b \in Blocks : InTurns(b)' => InTurns(b)
        BY <2>2, <2>3, <2>4, <3>1 DEF InTurns
      <3> QED BY <2>1, <3>2 DEF Handle, Processed
    <2>5. CASE GoesOn /\ waiting' = waiting
      <3>1. Range(turn'.actions) \subseteq Range(turn.actions)
        BY <1>1, <2>1, <2>2, <2>5, TurnGoesOn
      <3> QED BY <2>1, <2>5, <3>1 DEF InTurns, Handle, Processed
    <2> QED BY <2>1, <2>4, <2>5
  <1>4. CASE BatchEnds
    <2>1. turn' = Idle /\ UNCHANGED <<waiting, tree, processedActionIds>>
      BY <1>4 DEF BatchEnds
    <2>2. Range(turn'.actions) = {}
      BY <2>1, IdleRests, RangeEmpty
    <2> QED BY <2>1, <2>2 DEF InTurns
  <1>5. ASSUME NEW i \in DOMAIN waiting, BatchResumes(i)
        PROVE  /\ \A b \in Blocks : InTurns(b)' => InTurns(b)
               /\ UNCHANGED <<tree, processedActionIds>>
    <2>1. /\ waiting' = RemoveAt(waiting, i) /\ turn' = [running |-> TRUE, actions |-> waiting[i]]
          /\ UNCHANGED <<tree, processedActionIds>>
      BY <1>5 DEF BatchResumes, layout
    <2>2. Range(waiting') \subseteq Range(waiting) /\ waiting[i] \in Range(waiting)
      BY <1>1, <2>1, RangeRemoveAt
    <2>3. turn'.actions = waiting[i]
      BY <2>1
    <2> QED BY <2>1, <2>2, <2>3 DEF InTurns
  <1> QED BY <1>2, <1>3, <1>4, <1>5

LEMMA BatchOnce ==
  ASSUME Types, PageOnce,
         SkipProcessed \/ HandleInsert \/ HandleDelete \/ BatchEnds \/ \E i \in DOMAIN waiting : BatchResumes(i)
  PROVE  PageOnce'
  <1>1. /\ UNCHANGED <<page, used, handlers>> /\ Held' = Held
    BY BatchesStay
  <1>2. \A b \in Start : InTurns(b)' => InTurns(b)
    BY TurnsShrink, SyncAssumption
  <1>3. AppliedHere'
    <2>1. CASE UNCHANGED tree /\ processedActionIds \subseteq processedActionIds'
      BY <2>1 DEF PageOnce, AppliedHere
    <2>2. CASE HandleInsert
      <3> DEFINE a == Head(turn.actions)
      <3>1. /\ Handle /\ a \notin processedActionIds /\ a.op = "insert"
            /\ processedActionIds' = processedActionIds \cup {a}
            /\ tree' = [tree EXCEPT ![a.block] = @ + 1]
        BY <2>2 DEF HandleInsert, Processed
      <3>2. a \in Actions /\ a \in Range(turn.actions)
        BY <3>1, TurnGoesOn DEF Types, BatchesOK
      <3>3. PICK b \in Blocks : a.block = b /\ a = Insert(b)
        BY <3>1, <3>2, InsertType DEF Actions
      <3> HIDE DEF a
      <3>4. tree \in Trees /\ b \notin Start
        BY <3>2, <3>3 DEF PageOnce, InTurns, Types, PageOK, a
      <3>5. tree[b] = 0
        BY <3>1, <3>3, <3>4 DEF PageOnce, AppliedHere, Trees
      <3> QED BY <3>1, <3>3, <3>4, <3>5 DEF PageOnce, AppliedHere, Trees
    <2>3. CASE HandleDelete
      <3>1. /\ processedActionIds \subseteq processedActionIds' /\ Handle
            /\ tree' = [tree EXCEPT ![Head(turn.actions).block] = 0] \/ tree' = tree
        BY <2>3 DEF HandleDelete, Processed
      <3> QED BY <3>1 DEF PageOnce, AppliedHere, Types, PageOK, Trees
    <2> QED
      BY <2>1, <2>2, <2>3, TurnsShrink DEF SkipProcessed, BatchEnds, BatchResumes, layout
  <1> QED BY <1>1, <1>2, <1>3, PageKeeps

LEMMA PersistOnce == ASSUME Types, PageOnce, PersistToBackend PROVE PageOnce'
  <1>1. /\ dataAtom' = Layout(tree, <<>>, dataAtom.version)
        /\ pushes' = Append(pushes, [dataAtom' EXCEPT !.version = 0])
        /\ UNCHANGED <<page, used, tree, processedActionIds, handlers, saved, events, answer, turn, waiting>>
    BY DEF PersistToBackend, server, layout, batches
  <1>2. tree \in Trees /\ dataAtom.version \in Nat /\ <<>> \in Seq(Actions)
    BY LayoutParts DEF Types, PageOK
  <1>3. dataAtom' \in Layouts /\ dataAtom'.tree = tree /\ dataAtom'.pending = <<>>
    BY <1>1, <1>2 DEF Layout, Layouts
  <1>4. PICK l \in Layouts : l = [dataAtom' EXCEPT !.version = 0] /\ l.tree = tree /\ l.pending = <<>>
    <2>1. PICK m \in Layouts : m = dataAtom'
      BY <1>3
    <2>2. m.tree = tree /\ m.pending = <<>>
      BY <1>3, <2>1
    <2>3. [m EXCEPT !.version = 0] \in Layouts /\ [m EXCEPT !.version = 0].tree = m.tree
          /\ [m EXCEPT !.version = 0].pending = m.pending
      BY Renumbered
    <2> QED BY <2>1, <2>2, <2>3
  <1>5. Plain(l)
    BY <1>4, RangeEmpty DEF Plain, Single, PageOnce, AppliedHere
  <1>6. Range(pushes') = Range(pushes) \cup {l}
    BY <1>1, <1>4, RangeAppend DEF Types, WiresOK
  <1>7. \A m \in Held' : m \in Held \/ Plain(m)
    BY <1>1, <1>5, <1>6 DEF Held
  <1>8. AppliedHere' /\ \A b \in Start : InTurns(b)' = InTurns(b)
    BY <1>1 DEF PageOnce, AppliedHere, InTurns
  <1> QED BY <1>1, <1>7, <1>8, PageKeeps

PageInv == "reload" \notin disturbed => PageOnce

(* The history only grows. *)
LEMMA HistoryGrows == [Next]_vars => disturbed \subseteq disturbed'
  <1>1. UNCHANGED vars => disturbed \subseteq disturbed'
    BY DEF vars
  <1>2. Next => disturbed \subseteq disturbed'
    BY DEF Next, Disturbs, CreateBlock, DeleteBlock, CloseBlock, QueueReads, QueueWrites, Publish, UpdateObject,
       UpdateObjectFails, UpdateWaveObject, GetObject, ReloadWaveObject, ReloadAnswers, Reload,
       InitializeFromWaveObject, Mount, SkipProcessed, HandleInsert, HandleDelete, BatchEnds, BatchResumes,
       PersistToBackend
  <1> QED BY <1>1, <1>2

LEMMA PageInvKept == Types /\ PageInv /\ [Next]_vars => PageInv'
  <1> SUFFICES ASSUME Types, PageInv, [Next]_vars, "reload" \notin disturbed' PROVE PageOnce'
    BY DEF PageInv
  <1>1. PageOnce
    BY HistoryGrows DEF PageInv
  <1>2. CASE UNCHANGED vars
    <2>1. UNCHANGED <<page, used, tree, processedActionIds, handlers, saved, events, pushes, answer, turn, waiting>>
      BY <1>2 DEF vars, server, wires, layout, batches
    <2>2. AppliedHere' /\ Held' = Held /\ \A b \in Start : InTurns(b)' = InTurns(b)
      BY <1>1, <2>1 DEF PageOnce, AppliedHere, Held, InTurns
    <2> QED BY <1>1, <2>1, <2>2, PageKeeps
  <1>3. CASE Next
    <2>1. ~Reload
      BY DEF Reload, Disturbs
    <2> QED
      BY <1>1, <1>3, <2>1, BlocksOnce, QueueOnce, PushesOnce, CopyOnce, LoadsOnce, BatchOnce, PersistOnce DEF Next
  <1> QED BY <1>2, <1>3

LEMMA PageInvHolds == Init => PageInv
  <1> SUFFICES ASSUME Init PROVE PageOnce
    BY DEF PageInv
  <1>1. PICK l \in Layouts : l = Layout(Showing(Start), <<>>, 1) /\ l.tree = Showing(Start) /\ l.pending = <<>>
    <2>1. Showing(Start) \in Trees /\ <<>> \in Seq(Actions) /\ 1 \in Nat
      BY DEF Showing, Trees
    <2>2. Layout(Showing(Start), <<>>, 1) \in Layouts
      BY <2>1 DEF Layout, Layouts
    <2>3. Layout(Showing(Start), <<>>, 1).tree = Showing(Start) /\ Layout(Showing(Start), <<>>, 1).pending = <<>>
      BY DEF Layout
    <2> QED BY <2>2, <2>3
  <1>2. /\ saved = l /\ tree = l.tree /\ page = "open" /\ used = Start /\ handlers = {}
        /\ events = <<>> /\ pushes = <<>> /\ answer = NoLayout /\ turn = Idle /\ waiting = <<>>
    BY <1>1 DEF Init
  <1>3. \A b \in Blocks : l.tree[b] <= 1 /\ (l.tree[b] > 0 => b \in Start)
    BY <1>1 DEF Showing
  <1>4. Plain(l)
    BY <1>1, <1>3, RangeEmpty DEF Plain, Single
  <1>5. Held = {l, NoLayout}
    BY <1>2, RangeEmpty DEF Held
  <1>6. \A b \in Start : ~InTurns(b)
    BY <1>2, IdleRests, RangeEmpty DEF InTurns
  <1> QED BY <1>2, <1>3, <1>4, <1>5, <1>6, EmptyIsPlain DEF PageOnce, AppliedHere

-----------------------------------------------------------------------------
(* An inserted block appears once: as long as every handler writes back what  *)
(* it has read, a layout that shows a block has not the action queued.        *)

(* The layouts that may become the page's: the saved one, and those on their  *)
(* way to the page. *)
Rows ==
  {saved, answer} \cup Range(events) \cup {h.copy : h \in {k \in handlers : k.step = "publish"}}
    \cup (IF page = "loading" THEN {dataAtom} ELSE {})

LoadingInv ==
  page = "loading" =>
    tree = NoLayout.tree /\ turn = Idle /\ waiting = <<>> /\ processedActionIds = {} /\ timer = FALSE

(* Nothing is newer than the saved layout, and a handler whose layout is as   *)
(* new has read it.                                                           *)
VersionInv ==
  /\ \A l \in Rows \cup {dataAtom} : l.version <= saved.version
  /\ \A h \in handlers : h.step = "write" =>
       /\ h.copy.version <= saved.version
       /\ h.copy.version = saved.version =>
            h.copy.tree = saved.tree /\ h.copy.pending = Append(saved.pending, h.action)

(* A block is created by one handler. *)
OwnInv ==
  \A h \in handlers : /\ h.action.block \in used
                      /\ \A k \in handlers : h.action = k.action /\ h.action.op = "insert" => h = k

LEMMA RowsType == Types => \A l \in Rows : l \in Layouts
  <1> SUFFICES ASSUME Types, NEW l \in Rows PROVE l \in Layouts
    OBVIOUS
  <1>1. Range(events) \subseteq Layouts
    BY RangeType DEF Types, WiresOK
  <1>2. \A h \in handlers : h.copy \in Layouts
    BY HandlerParts DEF Types, ServerOK
  <1> QED BY <1>1, <1>2 DEF Rows, Types, ServerOK, WiresOK, PageOK

(* Where the rows of the next state come from. *)
RowsMove ==
  /\ Rows' \subseteq Rows \cup {NoLayout, saved'}
  /\ saved' = saved \/ saved'.version = saved.version + 1
  /\ \E l \in Rows \cup {NoLayout, dataAtom} : dataAtom'.version = l.version

LEMMA QueueRows ==
  ASSUME Types, NEW h \in handlers, QueueReads(h) \/ QueueWrites(h) \/ Publish(h) PROVE RowsMove
  <1>1. h \in Handlers /\ h.action \in Actions /\ h.copy \in Layouts /\ saved \in Layouts
    BY HandlerParts DEF Types, ServerOK
  <1>2. UNCHANGED <<page, dataAtom, answer>>
    BY DEF QueueReads, QueueWrites, Publish, server, wires
  <1>3. CASE QueueReads(h)
    <2>1. PICK c : handlers' = (handlers \ {h}) \cup {Handler("write", h.action, c)} /\ UNCHANGED <<saved, events>>
      BY <1>3 DEF QueueReads, Moves, server, wires
    <2>2. Handler("write", h.action, c).step = "write"
      BY DEF Handler
    <2> QED BY <1>2, <2>1, <2>2 DEF Rows, RowsMove
  <1>4. CASE QueueWrites(h)
    <2>1. /\ saved' = [h.copy EXCEPT !.version = saved.version + 1]
          /\ handlers' = (handlers \ {h}) \cup {Handler("publish", h.action, saved')} /\ UNCHANGED events
      BY <1>4 DEF QueueWrites, Moves, wires
    <2>2. saved'.version = saved.version + 1
      <3>1. saved.version + 1 \in Nat
        BY <1>1, LayoutParts
      <3> QED BY <1>1, <2>1, <3>1, Renumbered
    <2>3. Handler("publish", h.action, saved').copy = saved'
      BY DEF Handler
    <2>4. Rows' \subseteq Rows \cup {NoLayout, saved'}
      BY <1>2, <2>1, <2>3 DEF Rows
    <2> QED BY <1>2, <2>2, <2>4 DEF RowsMove
  <1>5. CASE Publish(h)
    <2>1. handlers' = handlers \ {h} /\ events' = Append(events, h.copy) /\ UNCHANGED saved /\ h.step = "publish"
      BY <1>5 DEF Publish, server
    <2>2. Range(events') = Range(events) \cup {h.copy}
      BY <1>1, <2>1, RangeAppend DEF Types, WiresOK
    <2>3. Rows' \subseteq Rows
      BY <1>2, <2>1, <2>2 DEF Rows
    <2> QED BY <1>2, <2>1, <2>3 DEF RowsMove
  <1> QED BY <1>3, <1>4, <1>5

LEMMA PushRows ==
  ASSUME Types, (\E i \in DOMAIN pushes : UpdateObject(i)) \/ UpdateObjectFails PROVE RowsMove
  <1>1. pushes \in Seq(Layouts) /\ saved \in Layouts
    BY DEF Types, WiresOK, ServerOK
  <1>2. UNCHANGED <<page, handlers, events, answer, dataAtom>>
    BY DEF UpdateObject, UpdateObjectFails
  <1>3. Rows' \subseteq Rows \cup {NoLayout, saved'}
    BY <1>2 DEF Rows
  <1>4. saved' = saved \/ saved'.version = saved.version + 1
    <2>1. ASSUME NEW i \in DOMAIN pushes, UpdateObject(i)
          PROVE  saved'.version = saved.version + 1
      <3>1. pushes[i] \in Layouts
        BY <1>1, RangeRemoveAt
      <3>2. saved.version + 1 \in Nat
        BY <1>1, LayoutParts
      <3> QED BY <2>1, <3>1, <3>2, Renumbered DEF UpdateObject
    <2> QED BY <2>1 DEF UpdateObjectFails, server
  <1> QED BY <1>2, <1>3, <1>4 DEF RowsMove

LEMMA CopyRows ==
  ASSUME Types, UpdateWaveObject \/ ReloadAnswers PROVE RowsMove
  <1>1. events \in Seq(Layouts) /\ answer \in Layouts /\ turn \in Turns
    BY DEF Types, WiresOK, BatchesOK
  <1>2. UNCHANGED <<page, saved, handlers>>
    BY DEF UpdateWaveObject, ReloadAnswers, server, layout
  <1>3. CASE UpdateWaveObject
    <2>1. /\ events # <<>> /\ events' = Tail(events) /\ UNCHANGED answer
          /\ UNCHANGED <<dataAtom, turn>> \/ SetAtom(Head(events))
      BY <1>3 DEF UpdateWaveObject
    <2>2. /\ Head(events) \in Layouts /\ Head(events) \in Range(events)
          /\ Range(events') \subseteq Range(events)
      BY <1>1, <2>1, RangeHeadTail, RangeTail
    <2>3. dataAtom' \in {dataAtom, Head(events)}
      BY <2>1 DEF SetAtom
    <2>4. Rows' \subseteq Rows /\ dataAtom' \in Rows \cup {dataAtom}
      BY <1>2, <2>1, <2>2, <2>3 DEF Rows
    <2> QED BY <1>2, <2>4 DEF RowsMove
  <1>4. CASE ReloadAnswers
    <2>1. /\ events' = events /\ answer' = NoLayout /\ dataAtom' = answer /\ page = "open"
      BY <1>4 DEF ReloadAnswers, SetAtom
    <2>2. Rows' \subseteq Rows \cup {NoLayout} /\ answer \in Rows
      BY <1>2, <2>1 DEF Rows
    <2> QED BY <1>2, <2>1, <2>2 DEF RowsMove
  <1> QED BY <1>3, <1>4

LEMMA LoadRows ==
  ASSUME Types, GetObject \/ ReloadWaveObject \/ Reload \/ InitializeFromWaveObject \/ Mount PROVE RowsMove
  <1>1. UNCHANGED <<saved, handlers>>
    BY DEF GetObject, ReloadWaveObject, Reload, InitializeFromWaveObject, Mount, server
  <1>2. CASE GetObject \/ ReloadWaveObject \/ Mount
    <2>1. answer' \in {answer, saved} /\ UNCHANGED <<events, page, dataAtom>>
      BY <1>2 DEF GetObject, ReloadWaveObject, Mount, wires
    <2> QED BY <1>1, <2>1 DEF Rows, RowsMove
  <1>3. CASE Reload
    <2>1. events' = <<>> /\ answer' = NoLayout /\ dataAtom' = NoLayout
      BY <1>3 DEF Reload
    <2>2. Rows' \subseteq Rows \cup {NoLayout}
      BY <1>1, <2>1, RangeEmpty DEF Rows
    <2> QED BY <1>1, <2>1, <2>2 DEF RowsMove
  <1>4. CASE InitializeFromWaveObject
    <2>1. /\ page = "loading" /\ page' = "open" /\ answer' = NoLayout /\ UNCHANGED events
          /\ dataAtom' \in {dataAtom, answer}
      BY <1>4 DEF InitializeFromWaveObject
    <2>2. Rows' \subseteq Rows \cup {NoLayout} /\ dataAtom' \in Rows
      BY <1>1, <2>1 DEF Rows
    <2> QED BY <1>1, <2>2 DEF RowsMove
  <1> QED BY <1>2, <1>3, <1>4

LEMMA OtherRows ==
  ASSUME Types, LoadingInv,
         \/ \E b \in Blocks : CreateBlock(b) \/ DeleteBlock(b) \/ CloseBlock(b)
         \/ SkipProcessed \/ HandleInsert \/ HandleDelete \/ BatchEnds \/ \E i \in DOMAIN waiting : BatchResumes(i)
         \/ PersistToBackend
  PROVE  RowsMove /\ UNCHANGED <<page, saved, events, answer>>
  <1>1. CASE \E b \in Blocks : CreateBlock(b) \/ DeleteBlock(b) \/ CloseBlock(b)
    <2>1. UNCHANGED <<page, saved, events, answer, dataAtom>>
      BY <1>1 DEF CreateBlock, DeleteBlock, CloseBlock, wires
    <2>2. \A h \in handlers' : h \in handlers \/ h.step # "publish"
      <3>1. PICK a : handlers' \subseteq handlers \cup {Handler("read", a, NoLayout)}
        BY <1>1 DEF CreateBlock, DeleteBlock, CloseBlock
      <3> QED BY <3>1 DEF Handler
    <2>3. Rows' \subseteq Rows
      BY <2>1, <2>2 DEF Rows
    <2> QED BY <2>1, <2>3 DEF RowsMove
  <1>2. CASE SkipProcessed \/ HandleInsert \/ HandleDelete \/ BatchEnds \/ \E i \in DOMAIN waiting : BatchResumes(i)
    <2>1. UNCHANGED <<page, saved, events, answer, handlers, dataAtom>>
      BY <1>2, BatchesStay
    <2>2. Rows' = Rows
      BY <2>1 DEF Rows
    <2> QED BY <2>1, <2>2 DEF RowsMove
  <1>3. CASE PersistToBackend
    <2>1. UNCHANGED <<page, saved, events, answer, handlers>> /\ timer
          /\ dataAtom' = Layout(tree, <<>>, dataAtom.version)
      BY <1>3 DEF PersistToBackend, server
    <2>2. page = "open"
      BY <2>1 DEF LoadingInv, Types, PageOK
    <2>3. Rows' = Rows
      BY <2>1, <2>2 DEF Rows
    <2>4. dataAtom'.version = dataAtom.version
      BY <2>1 DEF Layout
    <2> QED BY <2>1, <2>3, <2>4 DEF RowsMove
  <1> QED BY <1>1, <1>2, <1>3

LEMMA RowsFollow == Types /\ LoadingInv /\ Next => RowsMove
  BY QueueRows, PushRows, CopyRows, LoadRows, OtherRows DEF Next

LEMMA LoadingKept == Types /\ LoadingInv /\ [Next]_vars => LoadingInv'
  <1> SUFFICES ASSUME Types, LoadingInv, [Next]_vars, page' = "loading"
               PROVE  /\ tree' = NoLayout.tree /\ turn' = Idle /\ waiting' = <<>>
                      /\ processedActionIds' = {} /\ timer' = FALSE
    BY DEF LoadingInv
  <1>1. CASE UNCHANGED vars
    BY <1>1 DEF vars, layout, batches, LoadingInv
  <1>2. CASE Reload
    BY <1>2 DEF Reload
  <1>3. CASE Next /\ ~Reload
    <2>1. page = "loading"
      BY <1>3 DEF Next, CreateBlock, DeleteBlock, CloseBlock, QueueReads, QueueWrites, Publish, UpdateObject,
         UpdateObjectFails, UpdateWaveObject, GetObject, ReloadWaveObject, ReloadAnswers,
         InitializeFromWaveObject, Mount, SkipProcessed, HandleInsert, HandleDelete, BatchEnds, BatchResumes,
         PersistToBackend, layout
    <2>2. /\ tree = NoLayout.tree /\ turn = Idle /\ waiting = <<>> /\ processedActionIds = {} /\ timer = FALSE
          /\ turn.running = FALSE /\ DOMAIN waiting = {}
      BY <2>1, IdleRests DEF LoadingInv
    <2>3. \/ \E b \in Blocks : CreateBlock(b) \/ DeleteBlock(b)
          \/ \E h \in handlers : QueueReads(h) \/ QueueWrites(h) \/ Publish(h)
          \/ (\E i \in DOMAIN pushes : UpdateObject(i)) \/ UpdateObjectFails
          \/ UpdateWaveObject \/ GetObject
      <3>1. ~(\E b \in Blocks : CloseBlock(b)) /\ ~ReloadWaveObject /\ ~ReloadAnswers /\ ~Mount
        BY <2>1 DEF CloseBlock, ReloadWaveObject, ReloadAnswers, Mount
      <3>2. ~SkipProcessed /\ ~HandleInsert /\ ~HandleDelete /\ ~BatchEnds /\ ~PersistToBackend
        BY <2>2 DEF SkipProcessed, HandleInsert, HandleDelete, BatchEnds, PersistToBackend, Handle
      <3>3. ~InitializeFromWaveObject /\ ~\E i \in DOMAIN waiting : BatchResumes(i)
        BY <2>2 DEF InitializeFromWaveObject
      <3> QED BY <1>3, <3>1, <3>2, <3>3 DEF Next
    <2>4. UNCHANGED <<tree, turn, waiting, processedActionIds, timer>>
      BY <2>1, <2>3 DEF CreateBlock, DeleteBlock, QueueReads, QueueWrites, Publish, UpdateObject,
         UpdateObjectFails, UpdateWaveObject, GetObject, SetAtom, layout, batches
    <2> QED BY <2>2, <2>4
  <1> QED BY <1>1, <1>2, <1>3
LEMMA VersionKept == Types /\ LoadingInv /\ VersionInv /\ [Next]_vars => VersionInv'
  <1> SUFFICES ASSUME Types, LoadingInv, VersionInv, [Next]_vars PROVE VersionInv'
    OBVIOUS
  <1>1. CASE UNCHANGED vars
    BY <1>1 DEF vars, server, wires, VersionInv, Rows
  <1>2. CASE Next
    <2>1. RowsMove /\ Types'
      BY <1>2, RowsFollow, TypesKept
    <2>2. saved.version \in Nat /\ saved'.version \in Nat /\ saved \in Layouts
      BY <2>1, LayoutParts DEF Types, ServerOK, Layouts
    <2>3. saved'.version >= saved.version /\ (saved' = saved \/ saved'.version > saved.version)
      BY <2>1, <2>2 DEF RowsMove
    <2>4. \A l \in Rows \cup {NoLayout, dataAtom} : l.version \in Nat /\ l.version <= saved'.version
      <3>1. \A l \in Rows \cup {NoLayout, dataAtom} : l \in Layouts
        BY RowsType, NoLayoutShows DEF Types, PageOK
      <3>2. \A l \in Rows \cup {NoLayout, dataAtom} : l.version \in Nat
        BY <3>1, LayoutParts
      <3>3. \A l \in Rows \cup {dataAtom} : l.version <= saved.version
        BY DEF VersionInv
      <3>4. NoLayout.version = 0
        BY NoLayoutShows
      <3> QED BY <2>2, <2>3, <3>2, <3>3, <3>4
    <2>5. \A l \in Rows' \cup {dataAtom'} : l.version <= saved'.version
      BY <2>1, <2>2, <2>4 DEF RowsMove
    <2>6. ASSUME NEW h \in handlers', h.step = "write"
          PROVE  /\ h.copy.version <= saved'.version
                 /\ h.copy.version = saved'.version =>
                      h.copy.tree = saved'.tree /\ h.copy.pending = Append(saved'.pending, h.action)
      <3>1. CASE h \in handlers
        <4>1. /\ h.copy.version <= saved.version
              /\ h.copy.version = saved.version =>
                   h.copy.tree = saved.tree /\ h.copy.pending = Append(saved.pending, h.action)
          BY <2>6, <3>1 DEF VersionInv
        <4>2. h.copy.version \in Nat
          BY <3>1, HandlerParts, LayoutParts DEF Types, ServerOK
        <4>3. h.copy.version <= saved'.version /\ (h.copy.version = saved'.version => saved' = saved)
          BY <2>2, <2>3, <4>1, <4>2
        <4> QED BY <4>1, <4>3
      <3>2. CASE h \notin handlers
        <4>1. ASSUME NEW a, h = Handler("read", a, NoLayout) \/ h = Handler("publish", a, saved')
              PROVE  FALSE
          BY <2>6, <4>1 DEF Handler
        <4>2. PICK k \in handlers : QueueReads(k)
          <5>1. ~(\E b \in Blocks : CreateBlock(b) \/ DeleteBlock(b))
            <6> SUFFICES ASSUME \E b \in Blocks : CreateBlock(b) \/ DeleteBlock(b) PROVE FALSE
              OBVIOUS
            <6>1. PICK a : handlers' = handlers \cup {Handler("read", a, NoLayout)}
              BY DEF CreateBlock, DeleteBlock
            <6> QED BY <3>2, <4>1, <6>1
          <5>2. ~(\E k \in handlers : QueueWrites(k) \/ Publish(k))
            BY <3>2, <4>1 DEF QueueWrites, Publish, Moves
          <5>3. handlers' # handlers
            BY <3>2
          <5> QED
            BY <1>2, <5>1, <5>2, <5>3 DEF Next, CloseBlock, UpdateObject, UpdateObjectFails, UpdateWaveObject,
               GetObject, ReloadWaveObject, ReloadAnswers, Reload, InitializeFromWaveObject, Mount, SkipProcessed,
               HandleInsert, HandleDelete, BatchEnds, BatchResumes, PersistToBackend
        <4>3. /\ h = Handler("write", k.action, [saved EXCEPT !.pending = Append(@, k.action)]) /\ saved' = saved
          BY <3>2, <4>2 DEF QueueReads, Moves, server
        <4>4. Append(saved.pending, k.action) \in Seq(Actions)
          BY <2>2, LayoutParts, HandlerParts DEF Types, ServerOK
        <4>5. h.action = k.action /\ h.copy = [saved EXCEPT !.pending = Append(saved.pending, k.action)]
          BY <4>3 DEF Handler
        <4>6. /\ h.copy.tree = saved.tree /\ h.copy.pending = Append(saved.pending, k.action)
              /\ h.copy.version = saved.version
          BY <2>2, <4>4, <4>5, Queued
        <4>7. h.copy.version <= saved'.version
          BY <2>2, <4>3, <4>6
        <4> QED BY <4>3, <4>5, <4>6, <4>7
      <3> QED BY <3>1, <3>2
    <2> QED BY <2>5, <2>6 DEF VersionInv
  <1> QED BY <1>1, <1>2

(* A handler of the next state is one of this state with its action, or one   *)
(* that has just begun.                                                       *)
LEMMA HandlersFollow ==
  ASSUME Types, Next
  PROVE  /\ used \subseteq used'
         /\ \A h \in handlers' :
              \/ h \in handlers
              \/ h.action.op = "insert" /\ h.action.block \in used' \ used /\ h.action = Insert(h.action.block)
                 /\ handlers' = handlers \cup {h} /\ h.step = "read"
              \/ h.action.op = "delete" /\ h.action.block \in used'
              \/ \E k \in handlers : h.action = k.action /\ handlers' = (handlers \ {k}) \cup {h} /\ k.step # "publish"
  <1>1. CASE UNCHANGED <<used, handlers>>
    BY <1>1
  <1>2. ASSUME NEW b \in Blocks, CreateBlock(b)
        PROVE  /\ used' = used \cup {b} /\ b \notin used
               /\ handlers' = handlers \cup {Handler("read", Insert(b), NoLayout)}
               /\ Handler("read", Insert(b), NoLayout).action = Insert(b)
               /\ Handler("read", Insert(b), NoLayout).step = "read"
               /\ Insert(b).op = "insert" /\ Insert(b).block = b
    <2>1. /\ used' = used \cup {b} /\ b \notin used
          /\ handlers' = handlers \cup {Handler("read", Insert(b), NoLayout)}
      BY <1>2 DEF CreateBlock, Insert
    <2>2. Handler("read", Insert(b), NoLayout).action = Insert(b) /\ Handler("read", Insert(b), NoLayout).step = "read"
      BY DEF Handler
    <2> QED BY <2>1, <2>2, InsertType
  <1>3. ASSUME NEW b \in Blocks, DeleteBlock(b)
        PROVE  /\ used' = used /\ b \in used
               /\ \E h : handlers' = handlers \cup {h} /\ h.action.op = "delete" /\ h.action.block = b
    <2>1. /\ used' = used /\ b \in used
          /\ handlers' = handlers \cup {Handler("read", [op |-> "delete", block |-> b], NoLayout)}
      BY <1>3 DEF DeleteBlock, Types, ServerOK
    <2>2. Handler("read", [op |-> "delete", block |-> b], NoLayout).action = [op |-> "delete", block |-> b]
      BY DEF Handler
    <2> QED BY <2>1, <2>2
  <1>4. ASSUME NEW k \in handlers, QueueReads(k) \/ QueueWrites(k) \/ Publish(k)
        PROVE  /\ used' = used
               /\ handlers' \subseteq handlers \/ \E h : h.action = k.action /\ handlers' = (handlers \ {k}) \cup {h}
                                                         /\ k.step # "publish"
    <2>1. used' = used
      BY <1>4 DEF QueueReads, QueueWrites, Publish, server
    <2>2. CASE Publish(k)
      BY <2>1, <2>2 DEF Publish
    <2>3. CASE QueueReads(k) \/ QueueWrites(k)
      <3>1. PICK s, c : handlers' = (handlers \ {k}) \cup {Handler(s, k.action, c)}
        BY <2>3 DEF QueueReads, QueueWrites, Moves
      <3>2. Handler(s, k.action, c).action = k.action
        BY DEF Handler
      <3> QED BY <2>1, <2>3, <3>1, <3>2 DEF QueueReads, QueueWrites
    <2> QED BY <1>4, <2>2, <2>3
  <1>5. \/ UNCHANGED <<used, handlers>>
        \/ \E b \in Blocks : CreateBlock(b) \/ DeleteBlock(b)
        \/ \E k \in handlers : QueueReads(k) \/ QueueWrites(k) \/ Publish(k)
    BY DEF Next, CloseBlock, UpdateObject, UpdateObjectFails, UpdateWaveObject,
       GetObject, ReloadWaveObject, ReloadAnswers, Reload, InitializeFromWaveObject, Mount, SkipProcessed,
       HandleInsert, HandleDelete, BatchEnds, BatchResumes, PersistToBackend, server
  <1>6. CASE \E b \in Blocks : CreateBlock(b)
    BY <1>2, <1>6
  <1>7. CASE \E b \in Blocks : DeleteBlock(b)
    BY <1>3, <1>7
  <1>8. CASE \E k \in handlers : QueueReads(k) \/ QueueWrites(k) \/ Publish(k)
    BY <1>4, <1>8
  <1> QED BY <1>1, <1>5, <1>6, <1>7, <1>8

LEMMA OwnKept == Types /\ OwnInv /\ [Next]_vars => OwnInv'
  <1> SUFFICES ASSUME Types, OwnInv, [Next]_vars PROVE OwnInv'
    OBVIOUS
  <1>1. CASE UNCHANGED vars
    BY <1>1 DEF vars, server, OwnInv
  <1>2. CASE Next
    <2>1. used \subseteq used'
      BY <1>2, HandlersFollow
    <2>2. \A h \in handlers' : h.action.block \in used'
      BY <1>2, <2>1, HandlersFollow DEF OwnInv
    <2>3. ASSUME NEW h \in handlers', NEW k \in handlers', h.action = k.action, h.action.op = "insert"
          PROVE  h = k
      <3>1. CASE h \in handlers /\ k \in handlers
        BY <2>3, <3>1 DEF OwnInv
      <3>2. ASSUME NEW g \in handlers', NEW f \in handlers', g.action = f.action, g.action.op = "insert", g \notin handlers
            PROVE  f = g
        <4>1. CASE g.action.block \notin used /\ handlers' = handlers \cup {g}
          BY <3>2, <4>1 DEF OwnInv
        <4>2. CASE \E e \in handlers : g.action = e.action /\ handlers' = (handlers \ {e}) \cup {g}
          <5>1. PICK e \in handlers : g.action = e.action /\ handlers' = (handlers \ {e}) \cup {g}
            BY <4>2
          <5>2. f \in handlers => f = e
            BY <3>2, <5>1 DEF OwnInv
          <5> QED BY <5>1, <5>2
        <4> QED BY <1>2, <3>2, <4>1, <4>2, HandlersFollow
      <3> QED BY <2>3, <3>1, <3>2
    <2> QED BY <2>2, <2>3 DEF OwnInv
  <1> QED BY <1>1, <1>2
Bears(l, b) == l.tree[b] > 0 \/ Insert(b) \in Range(l.pending)

(* The insertion of b has left the handler that creates b. *)
Seen(b) ==
  \/ tree[b] > 0 \/ Insert(b) \in processedActionIds \/ InTurns(b)
  \/ \E l \in Rows \cup Range(pushes) : Bears(l, b)

SinglesInv ==
  /\ Single(tree) /\ \A l \in Rows \cup Range(pushes) : Single(l.tree)
  /\ \A l \in Range(pushes) : l.pending = <<>>

SeenInv ==
  \A b \in Blocks :
    /\ Seen(b) => b \in used
    /\ \A h \in handlers : h.action = Insert(b) /\ h.step # "publish" => ~Seen(b)

(* A layout at least as new as one that shows b has not the insertion queued. *)
OrderInv ==
  \A x, y \in Rows : \A b \in Blocks :
    x.tree[b] > 0 /\ y.version >= x.version => Insert(b) \notin Range(y.pending)

(* Versions that the page may still take up. *)
Newer(v) == v >= dataAtom.version \/ (answer.version > 0 /\ v >= answer.version)

(* A block the page has loaded, and not inserted itself, is not queued. *)
FreshInv ==
  \A b \in Blocks : page = "open" /\ tree[b] > 0 /\ Insert(b) \notin processedActionIds =>
    ~InTurns(b) /\ \A y \in Rows : Newer(y.version) => Insert(b) \notin Range(y.pending)

RowOnce == SinglesInv /\ SeenInv /\ OrderInv /\ FreshInv

(* Most steps take layouts from where they were, or put the page's in the row. *)
Pushed(l) ==
  l \in Layouts /\ l.pending = <<>> /\ l.version > saved.version /\ \E p \in Range(pushes) : l.tree = p.tree
RowsCome == \A l \in Rows' : l \in Rows \cup {NoLayout} \/ Pushed(l)
PushesCome == \A l \in Range(pushes') : l \in Range(pushes) \/ (l.tree = tree /\ l.pending = <<>>)
BlocksCome ==
  \A b \in Blocks : /\ tree'[b] <= 1
                    /\ tree'[b] > 0 \/ InTurns(b)' \/ Insert(b) \in processedActionIds' => Seen(b)
PageComes ==
  page' = "open" =>
    /\ \A b \in Blocks : tree'[b] > 0 /\ Insert(b) \notin processedActionIds' =>
         page = "open" /\ tree[b] > 0 /\ Insert(b) \notin processedActionIds
    /\ \A b \in Blocks : InTurns(b)' =>
         InTurns(b) \/ \E y \in Rows : Newer(y.version) /\ Insert(b) \in Range(y.pending)
    /\ \A y \in Rows : Newer(y.version)' => Newer(y.version)

LEMMA SeenShrinks ==
  ASSUME RowOnce, RowsCome, PushesCome, BlocksCome
  PROVE  \A b \in Blocks : Seen(b)' => Seen(b)
  <1> SUFFICES ASSUME NEW b \in Blocks, Seen(b)' PROVE Seen(b)
    OBVIOUS
  <1>1. CASE tree'[b] > 0 \/ InTurns(b)' \/ Insert(b) \in processedActionIds'
    BY <1>1 DEF BlocksCome
  <1>2. ASSUME NEW l \in Rows', Bears(l, b)
        PROVE  Seen(b)
    <2>1. l # NoLayout
      BY <1>2, NoLayoutShows, RangeEmpty DEF Bears
    <2>2. CASE l \in Rows
      BY <1>2, <2>2 DEF Seen
    <2>3. CASE Pushed(l)
      <3>1. PICK p \in Range(pushes) : l.tree = p.tree /\ l.pending = <<>>
        BY <2>3 DEF Pushed
      <3>2. p.tree[b] > 0
        BY <1>2, <3>1, RangeEmpty DEF Bears
      <3> QED BY <3>2 DEF Seen, Bears
    <2> QED BY <2>1, <2>2, <2>3 DEF RowsCome
  <1>3. ASSUME NEW l \in Range(pushes'), Bears(l, b)
        PROVE  Seen(b)
    <2>1. CASE l \in Range(pushes)
      BY <1>3, <2>1 DEF Seen
    <2>2. CASE l.tree = tree /\ l.pending = <<>>
      BY <1>3, <2>2, RangeEmpty DEF Seen, Bears
    <2> QED BY <2>1, <2>2 DEF PushesCome
  <1> QED BY <1>1, <1>2, <1>3 DEF Seen

LEMMA SinglesKept ==
  ASSUME SinglesInv, RowsCome, PushesCome, BlocksCome PROVE SinglesInv'
  <1>1. Single(tree)'
    BY DEF BlocksCome, Single
  <1>2. \A l \in Rows' : Single(l.tree)
    <2>1. Single(NoLayout.tree)
      BY EmptyIsPlain DEF Plain
    <2> QED BY <2>1 DEF RowsCome, SinglesInv, Pushed
  <1>3. \A l \in Range(pushes') : Single(l.tree) /\ l.pending = <<>>
    BY DEF PushesCome, SinglesInv
  <1> QED BY <1>1, <1>2, <1>3 DEF SinglesInv, Single

LEMMA SeenKept ==
  ASSUME Types, Next, RowOnce, \A b \in Blocks : Seen(b)' => Seen(b) PROVE SeenInv'
  <1> SUFFICES ASSUME NEW b \in Blocks
               PROVE  /\ Seen(b)' => b \in used'
                      /\ \A h \in handlers' : h.action = Insert(b) /\ h.step # "publish" => ~Seen(b)'
    BY DEF SeenInv
  <1>1. Seen(b)' => b \in used'
    BY HandlersFollow DEF RowOnce, SeenInv
  <1>2. ASSUME NEW h \in handlers', h.action = Insert(b), h.step # "publish"
        PROVE  ~Seen(b)
    <2>1. h.action.block = b /\ h.action.op = "insert"
      BY <1>2, InsertType
    <2>2. CASE h \in handlers
      BY <1>2, <2>2 DEF RowOnce, SeenInv
    <2>3. CASE b \notin used
      BY <2>3 DEF RowOnce, SeenInv
    <2>4. CASE \E k \in handlers : h.action = k.action /\ k.step # "publish"
      BY <1>2, <2>4 DEF RowOnce, SeenInv
    <2> QED BY <2>1, <2>2, <2>3, <2>4, HandlersFollow
  <1> QED BY <1>1, <1>2

LEMMA OrderKept ==
  ASSUME Types, VersionInv, OrderInv, RowsCome PROVE OrderInv'
  <1> SUFFICES ASSUME NEW x \in Rows', NEW y \in Rows', NEW b \in Blocks, x.tree[b] > 0, y.version >= x.version
               PROVE  Insert(b) \notin Range(y.pending)
    BY DEF OrderInv
  <1>1. NoLayout.tree[b] = 0 /\ Range(NoLayout.pending) = {} /\ Range(<<>>) = {}
    BY NoLayoutShows, RangeEmpty
  <1>2. x \in Rows \/ Pushed(x)
    BY <1>1 DEF RowsCome
  <1>3. CASE y = NoLayout \/ Pushed(y)
    BY <1>1, <1>3 DEF Pushed
  <1>4. CASE y \in Rows /\ x \in Rows
    BY <1>4 DEF OrderInv
  <1>5. CASE y \in Rows /\ Pushed(x)
    <2>1. y.version <= saved.version /\ x.version > saved.version
      BY <1>5 DEF VersionInv, Pushed
    <2>2. y.version \in Nat /\ saved.version \in Nat
      BY <1>5, RowsType DEF Layouts, Types, ServerOK
    <2>3. x.version \in Nat
      BY <1>5 DEF Pushed, Layouts
    <2> QED BY <2>1, <2>2, <2>3
  <1> QED BY <1>2, <1>3, <1>4, <1>5 DEF RowsCome

LEMMA FreshKept ==
  ASSUME FreshInv, RowsCome, PageComes PROVE FreshInv'
  <1> SUFFICES ASSUME NEW b \in Blocks, page' = "open", tree'[b] > 0, Insert(b) \notin processedActionIds'
               PROVE  ~InTurns(b)' /\ \A y \in Rows' : Newer(y.version)' => Insert(b) \notin Range(y.pending)
    BY DEF FreshInv
  <1>1. ~InTurns(b) /\ \A y \in Rows : Newer(y.version) => Insert(b) \notin Range(y.pending)
    BY DEF FreshInv, PageComes
  <1>2. ~InTurns(b)'
    BY <1>1 DEF PageComes
  <1>3. ASSUME NEW y \in Rows', Newer(y.version)'
        PROVE  Insert(b) \notin Range(y.pending)
    <2>1. Range(NoLayout.pending) = {} /\ Range(<<>>) = {}
      BY NoLayoutShows, RangeEmpty
    <2>2. CASE y \in Rows
      BY <1>1, <1>3, <2>2 DEF PageComes
    <2>3. CASE y = NoLayout \/ Pushed(y)
      BY <2>1, <2>3 DEF Pushed
    <2> QED BY <2>2, <2>3 DEF RowsCome
  <1> QED BY <1>2, <1>3

LEMMA RowKeeps ==
  ASSUME Types, VersionInv, RowOnce, Next, RowsCome, PushesCome, BlocksCome, PageComes PROVE RowOnce'
  BY SeenShrinks, SinglesKept, SeenKept, OrderKept, FreshKept DEF RowOnce
LEMMA SavedStays == RowsMove /\ saved' = saved => RowsCome
  BY DEF RowsMove, RowsCome, Rows

LEMMA QuietPage ==
  ASSUME RowOnce, UNCHANGED <<page, answer, processedActionIds>>, dataAtom'.version = dataAtom.version,
         \A b \in Blocks : tree'[b] \in {tree[b], 0} /\ (InTurns(b)' => InTurns(b))
  PROVE  BlocksCome /\ PageComes
  <1>1. \A b \in Blocks : tree'[b] <= 1 /\ (tree'[b] > 0 => tree[b] > 0)
    BY DEF RowOnce, SinglesInv, Single
  <1>2. BlocksCome
    BY <1>1 DEF BlocksCome, Seen
  <1>3. \A y \in Rows : Newer(y.version)' => Newer(y.version)
    BY DEF Newer
  <1> QED BY <1>1, <1>2, <1>3 DEF PageComes

LEMMA BlocksRow ==
  ASSUME Types, LoadingInv, VersionInv, RowOnce, Next, NEW b \in Blocks, CreateBlock(b) \/ DeleteBlock(b) \/ CloseBlock(b)
  PROVE  RowOnce'
  <1>1. RowsCome
    BY OtherRows, SavedStays
  <1>2. UNCHANGED <<page, answer, processedActionIds, dataAtom, turn, waiting, pushes>>
    BY DEF CreateBlock, DeleteBlock, CloseBlock, wires, batches
  <1>3. \A c \in Blocks : tree'[c] \in {tree[c], 0} /\ (InTurns(c)' => InTurns(c))
    <2>1. tree' = tree \/ tree' = [tree EXCEPT ![b] = 0]
      BY DEF CreateBlock, DeleteBlock, CloseBlock, layout
    <2>2. \A c \in Blocks : tree'[c] \in {tree[c], 0}
      BY <2>1 DEF Types, PageOK, Trees
    <2> QED BY <1>2, <2>2 DEF InTurns
  <1>4. PushesCome
    BY <1>2 DEF PushesCome
  <1> QED BY <1>1, <1>2, <1>3, <1>4, QuietPage, RowKeeps

LEMMA QueueRow ==
  ASSUME Types, VersionInv, RowOnce, Next, NEW h \in handlers, QueueReads(h) \/ Publish(h)
  PROVE  RowOnce'
  <1>1. UNCHANGED <<saved, page, answer, processedActionIds, dataAtom, tree, turn, waiting, pushes>>
    BY DEF QueueReads, Publish, server, wires, layout, batches
  <1>2. RowsCome
    BY <1>1, QueueRows, SavedStays
  <1>3. PushesCome /\ \A c \in Blocks : tree'[c] \in {tree[c], 0} /\ (InTurns(c)' => InTurns(c))
    BY <1>1 DEF PushesCome, InTurns
  <1> QED BY <1>1, <1>2, <1>3, QuietPage, RowKeeps

(* A handler that writes what it has read adds its action to the row. *)
LEMMA WriteRow ==
  ASSUME Types, LoadingInv, VersionInv, OwnInv, RowOnce, NEW h \in handlers, QueueWrites(h), "overwritten" \notin disturbed'
  PROVE  RowOnce'
  <1>1. h \in Handlers /\ h.action \in Actions /\ h.copy \in Layouts /\ saved \in Layouts /\ saved.pending \in Seq(Actions)
    BY HandlerParts, LayoutParts DEF Types, ServerOK
  <1>2. /\ h.step = "write" /\ saved' = [h.copy EXCEPT !.version = saved.version + 1]
        /\ handlers' = (handlers \ {h}) \cup {Handler("publish", h.action, saved')}
        /\ h.copy.version = saved.version
        /\ UNCHANGED <<used, events, pushes, answer, page, dataAtom, tree, turn, waiting, processedActionIds>>
    BY DEF QueueWrites, Moves, wires, layout, batches, Disturbs
  <1>3. /\ saved'.tree = saved.tree /\ saved'.pending = Append(saved.pending, h.action)
        /\ saved'.version = saved.version + 1 /\ saved.version \in Nat
    <2>1. saved.version \in Nat /\ saved.version + 1 \in Nat
      BY <1>1, LayoutParts
    <2>2. saved'.tree = h.copy.tree /\ saved'.pending = h.copy.pending /\ saved'.version = saved.version + 1
      BY <1>1, <1>2, <2>1, Renumbered
    <2>3. h.copy.tree = saved.tree /\ h.copy.pending = Append(saved.pending, h.action)
      BY <1>2 DEF VersionInv
    <2> QED BY <2>1, <2>2, <2>3
  <1>4. Range(saved'.pending) = Range(saved.pending) \cup {h.action}
    BY <1>1, <1>3, RangeAppend
  <1>5. /\ Rows' \subseteq Rows \cup {saved', NoLayout} /\ saved \in Rows
    BY QueueRows DEF RowsMove, Rows
  <1>6. \A b \in Blocks : h.action = Insert(b) => ~Seen(b) /\ b \in used
    BY <1>2, InsertType DEF RowOnce, SeenInv, OwnInv
  <1>7. \A b \in Blocks : ~Bears(NoLayout, b)
    BY NoLayoutShows, RangeEmpty DEF Bears
  <1>8. \A b \in Blocks : InTurns(b)' = InTurns(b)
    BY <1>2 DEF InTurns
  <1>9. \A b \in Blocks : Seen(b)' => Seen(b) \/ h.action = Insert(b)
    <2>1. \A b \in Blocks : Bears(saved', b) => Bears(saved, b) \/ h.action = Insert(b)
      BY <1>3, <1>4 DEF Bears
    <2>2. \A b \in Blocks : \A l \in Rows' : Bears(l, b) => Seen(b) \/ h.action = Insert(b)
      BY <1>5, <1>7, <2>1 DEF Seen
    <2> QED BY <1>2, <1>8, <2>2 DEF Seen
  <1>10. SinglesInv'
    <2>1. \A l \in Rows' : Single(l.tree)
      BY <1>3, <1>5, EmptyIsPlain DEF RowOnce, SinglesInv, Plain
    <2>2. Single(tree)' /\ \A l \in Range(pushes') : Single(l.tree) /\ l.pending = <<>>
      BY <1>2 DEF RowOnce, SinglesInv, Single
    <2> QED BY <2>1, <2>2 DEF SinglesInv, Single
  <1>11. SeenInv'
    <2> SUFFICES ASSUME NEW b \in Blocks
                 PROVE  /\ Seen(b)' => b \in used'
                        /\ \A k \in handlers' : k.action = Insert(b) /\ k.step # "publish" => ~Seen(b)'
      BY DEF SeenInv
    <2>1. Seen(b)' => b \in used'
      BY <1>2, <1>6, <1>9 DEF RowOnce, SeenInv
    <2>2. ASSUME NEW k \in handlers', k.action = Insert(b), k.step # "publish"
          PROVE  ~Seen(b)'
      <3>1. Handler("publish", h.action, saved').step = "publish"
        BY DEF Handler
      <3>2. k \in handlers /\ k # h
        BY <1>2, <2>2, <3>1
      <3>3. ~Seen(b)
        BY <2>2, <3>2 DEF RowOnce, SeenInv
      <3>4. h.action # Insert(b)
        BY <2>2, <3>2, InsertType DEF OwnInv
      <3> QED BY <1>9, <3>3, <3>4
    <2> QED BY <2>1, <2>2
  <1>12. OrderInv'
    <2> SUFFICES ASSUME NEW x \in Rows', NEW y \in Rows', NEW b \in Blocks, x.tree[b] > 0, y.version >= x.version
                 PROVE  Insert(b) \notin Range(y.pending)
      BY DEF OrderInv
    <2>1. \A l \in Rows : l.version \in Nat /\ l.version <= saved.version
      BY RowsType DEF Layouts, VersionInv
    <2>2. x # NoLayout
      BY <1>7 DEF Bears
    <2>3. Seen(b)
      BY <1>3, <1>5, <2>2 DEF Seen, Bears
    <2>4. CASE y = NoLayout
      BY <2>4, NoLayoutShows, RangeEmpty
    <2>5. CASE y \in Rows /\ x \in Rows
      BY <2>5 DEF RowOnce, OrderInv
    <2>6. CASE y \in Rows /\ x = saved'
      <3>1. y.version <= saved.version /\ y.version \in Nat
        BY <2>1, <2>6
      <3>2. y.version >= saved.version + 1
        BY <1>3, <2>6
      <3> QED BY <1>3, <3>1, <3>2
    <2>7. CASE y = saved'
      <3>1. \E z \in Rows : z.tree[b] > 0 /\ saved.version >= z.version
        <4>1. CASE x \in Rows
          <5>1. x.version \in Nat /\ x.version <= saved.version
            BY <2>1, <4>1
          <5>2. saved.version >= x.version
            BY <1>3, <5>1
          <5> QED BY <4>1, <5>2
        <4>2. CASE x = saved'
          BY <1>3, <1>5, <4>2
        <4> QED BY <1>5, <2>2, <4>1, <4>2
      <3>2. Insert(b) \notin Range(saved.pending)
        BY <1>5, <3>1 DEF RowOnce, OrderInv
      <3> QED BY <1>4, <1>6, <2>3, <2>7, <3>2
    <2> QED BY <1>5, <2>2, <2>4, <2>5, <2>6, <2>7
  <1>13. FreshInv'
    <2> SUFFICES ASSUME NEW b \in Blocks, page = "open", tree[b] > 0, Insert(b) \notin processedActionIds
                 PROVE  ~InTurns(b)' /\ \A y \in Rows' : Newer(y.version)' => Insert(b) \notin Range(y.pending)
      BY <1>2 DEF FreshInv
    <2>1. ~InTurns(b) /\ \A y \in Rows : Newer(y.version) => Insert(b) \notin Range(y.pending)
      BY DEF RowOnce, FreshInv
    <2>2. Newer(saved.version)
      <3>1. dataAtom.version <= saved.version /\ dataAtom.version \in Nat
        BY LayoutParts DEF VersionInv, Types, PageOK
      <3>2. saved.version >= dataAtom.version
        BY <1>3, <3>1
      <3> QED BY <3>2 DEF Newer
    <2>3. Seen(b)
      BY DEF Seen
    <2>4. Insert(b) \notin Range(saved'.pending)
      BY <1>4, <1>5, <1>6, <2>1, <2>2, <2>3
    <2>5. \A y \in Rows : Newer(y.version)' => Newer(y.version)
      BY <1>2 DEF Newer
    <2>6. Insert(b) \notin Range(NoLayout.pending)
      BY <1>7 DEF Bears
    <2> QED BY <1>5, <1>8, <2>1, <2>4, <2>5, <2>6
  <1> QED BY <1>10, <1>11, <1>12, <1>13 DEF RowOnce

LEMMA PushRow ==
  ASSUME Types, VersionInv, RowOnce, Next, (\E i \in DOMAIN pushes : UpdateObject(i)) \/ UpdateObjectFails
  PROVE  RowOnce'
  <1>1. pushes \in Seq(Layouts) /\ saved \in Layouts
    BY DEF Types, WiresOK, ServerOK
  <1>2. UNCHANGED <<page, answer, processedActionIds, dataAtom, tree, turn, waiting>>
    BY DEF UpdateObject, UpdateObjectFails, layout, batches
  <1>3. BlocksCome /\ PageComes
    <2>1. \A c \in Blocks : tree'[c] \in {tree[c], 0} /\ (InTurns(c)' => InTurns(c))
      BY <1>2 DEF InTurns
    <2> QED BY <1>2, <2>1, QuietPage
  <1>4. ASSUME NEW i \in DOMAIN pushes, UpdateObject(i)
        PROVE  RowsCome /\ PushesCome
    <2>1. saved' = [pushes[i] EXCEPT !.version = saved.version + 1] /\ pushes' = RemoveAt(pushes, i)
      BY <1>4 DEF UpdateObject
    <2>2. Range(pushes') \subseteq Range(pushes) /\ pushes[i] \in Layouts /\ pushes[i] \in Range(pushes)
      BY <1>1, <2>1, RangeRemoveAt
    <2>3. saved.version \in Nat /\ saved.version + 1 \in Nat /\ saved.version + 1 > saved.version
      BY <1>1, LayoutParts
    <2>4. /\ saved' \in Layouts /\ saved'.tree = pushes[i].tree /\ saved'.pending = pushes[i].pending
          /\ saved'.version = saved.version + 1
      BY <2>1, <2>2, <2>3, Renumbered
    <2>5. Pushed(saved')
      BY <2>2, <2>3, <2>4 DEF Pushed, RowOnce, SinglesInv
    <2>6. RowsMove
      BY <1>4, PushRows
    <2> QED BY <2>2, <2>5, <2>6 DEF RowsCome, RowsMove, PushesCome
  <1>5. CASE UpdateObjectFails
    <2>1. Range(pushes') \subseteq Range(pushes) /\ UNCHANGED saved
      BY <1>1, <1>5, RangeTail DEF UpdateObjectFails, server
    <2> QED BY <1>3, <1>5, <2>1, PushRows, SavedStays, RowKeeps DEF PushesCome
  <1> QED BY <1>3, <1>4, <1>5, RowKeeps
(* The page takes up a layout no older than its own, or the answer it waits   *)
(* for.                                                                       *)
LEMMA CopyRow ==
  ASSUME Types, VersionInv, RowOnce, Next, UpdateWaveObject \/ ReloadAnswers PROVE RowOnce'
  <1>1. /\ events \in Seq(Layouts) /\ answer \in Layouts /\ dataAtom \in Layouts /\ turn \in Turns
    BY DEF Types, WiresOK, PageOK, BatchesOK
  <1>2. UNCHANGED <<page, saved, tree, processedActionIds, pushes, waiting>>
    BY DEF UpdateWaveObject, ReloadAnswers, server, layout
  <1>3. RowsCome /\ PushesCome
    BY <1>2, CopyRows, SavedStays DEF PushesCome
  <1>4. PICK y \in Rows :
          /\ turn' = turn \/ (turn'.actions = y.pending /\ Newer(y.version))
          /\ \A v \in Nat : Newer(v)' => Newer(v)
    <2>1. CASE UpdateWaveObject
      <3>1. /\ events # <<>> /\ UNCHANGED answer
            /\ \/ UNCHANGED <<dataAtom, turn>>
               \/ SetAtom(Head(events)) /\ ~(dataAtom.version >= Head(events).version)
        BY <2>1 DEF UpdateWaveObject
      <3>2. PICK l \in Layouts : l = Head(events) /\ l \in Rows
        BY <1>1, <3>1, RangeHeadTail, RangeTail DEF Rows
      <3>3. CASE UNCHANGED <<dataAtom, turn>>
        BY <3>1, <3>2, <3>3 DEF Newer
      <3>4. CASE SetAtom(l) /\ ~(dataAtom.version >= l.version)
        <4>1. dataAtom.version \in Nat /\ l.version \in Nat
          BY <1>1, LayoutParts
        <4>2. dataAtom'.version = l.version /\ (turn' = turn \/ turn'.actions = l.pending)
          BY <1>1, <3>4, AtomSet
        <4>3. l.version >= dataAtom.version /\ \A v \in Nat : v >= l.version => v >= dataAtom.version
          BY <3>4, <4>1
        <4> QED BY <3>1, <3>2, <4>2, <4>3 DEF Newer
      <3> QED BY <3>1, <3>2, <3>3, <3>4
    <2>2. CASE ReloadAnswers
      <3>1. SetAtom(answer) /\ answer' = NoLayout /\ answer.version > 0
        BY <2>2 DEF ReloadAnswers
      <3>2. dataAtom' = answer /\ (turn' = turn \/ turn'.actions = answer.pending)
        BY <1>1, <3>1, AtomSet
      <3>3. answer'.version = 0 /\ answer.version \in Nat
        BY <1>1, <3>1, NoLayoutShows, LayoutParts
      <3>4. \A v \in Nat : Newer(v)' => Newer(v)
        BY <3>1, <3>2, <3>3 DEF Newer
      <3>5. Newer(answer.version) /\ answer \in Rows
        BY <3>1, <3>3 DEF Newer, Rows
      <3> QED BY <3>2, <3>4, <3>5
    <2> QED BY <2>1, <2>2
  <1>5. \A b \in Blocks : InTurns(b)' => InTurns(b) \/ (Newer(y.version) /\ Insert(b) \in Range(y.pending))
    BY <1>2, <1>4 DEF InTurns
  <1>6. BlocksCome
    BY <1>2, <1>5 DEF BlocksCome, Seen, Bears, RowOnce, SinglesInv, Single
  <1>7. PageComes
    <2>1. \A l \in Rows : Newer(l.version)' => Newer(l.version)
      BY <1>4, RowsType, LayoutParts
    <2> QED BY <1>2, <1>5, <2>1 DEF PageComes
  <1> QED BY <1>3, <1>6, <1>7, RowKeeps

LEMMA LoadRow ==
  ASSUME Types, VersionInv, RowOnce, Next, GetObject \/ ReloadWaveObject \/ Reload \/ Mount PROVE RowOnce'
  <1>1. UNCHANGED <<saved, pushes>>
    BY DEF GetObject, ReloadWaveObject, Reload, Mount, server, wires
  <1>2. RowsCome /\ PushesCome
    BY <1>1, LoadRows, SavedStays DEF PushesCome
  <1>3. CASE Mount
    <2>1. UNCHANGED <<page, answer, processedActionIds, dataAtom, tree, turn, waiting>>
      BY <1>3 DEF Mount, wires, batches
    <2>2. \A c \in Blocks : tree'[c] \in {tree[c], 0} /\ (InTurns(c)' => InTurns(c))
      BY <2>1 DEF InTurns
    <2> QED BY <1>2, <2>1, <2>2, QuietPage, RowKeeps
  <1>4. CASE Reload
    <2>1. /\ page' = "loading" /\ tree' = NoLayout.tree /\ turn' = Idle /\ waiting' = <<>>
          /\ processedActionIds' = {}
      BY <1>4 DEF Reload
    <2>2. \A b \in Blocks : ~InTurns(b)' /\ tree'[b] = 0
      BY <2>1, IdleRests, NoLayoutShows, RangeEmpty DEF InTurns
    <2>3. BlocksCome
      BY <2>1, <2>2 DEF BlocksCome
    <2>4. PageComes
      BY <2>1 DEF PageComes
    <2> QED BY <1>2, <2>3, <2>4, RowKeeps
  <1>5. CASE GetObject \/ ReloadWaveObject
    <2>1. /\ UNCHANGED <<page, processedActionIds, dataAtom, tree, turn, waiting>>
          /\ answer' = saved
      BY <1>5 DEF GetObject, ReloadWaveObject, layout, batches
    <2>2. \A b \in Blocks : InTurns(b)' = InTurns(b)
      BY <2>1 DEF InTurns
    <2>3. BlocksCome
      BY <2>1, <2>2 DEF BlocksCome, Seen, RowOnce, SinglesInv, Single
    <2>4. \A v \in Nat : Newer(v)' => Newer(v)
      <3>1. saved.version \in Nat /\ dataAtom.version \in Nat /\ dataAtom.version <= saved.version
        BY LayoutParts DEF Types, ServerOK, PageOK, VersionInv
      <3>2. \A v \in Nat : v >= saved.version => v >= dataAtom.version
        BY <3>1
      <3> QED BY <2>1, <3>2 DEF Newer
    <2>5. \A l \in Rows : Newer(l.version)' => Newer(l.version)
      BY <2>4, RowsType, LayoutParts
    <2>6. PageComes
      BY <2>1, <2>2, <2>5 DEF PageComes
    <2> QED BY <1>2, <2>3, <2>6, RowKeeps
  <1> QED BY <1>3, <1>4, <1>5

(* The layout the page starts from shows no block that is queued in it, or in *)
(* a newer one. *)
LEMMA InitializeRow ==
  ASSUME Types, LoadingInv, VersionInv, RowOnce, Next, InitializeFromWaveObject PROVE RowOnce'
  <1>1. /\ page = "loading" /\ answer' = NoLayout /\ answer.version > 0
        /\ dataAtom' \in {dataAtom, answer} /\ tree' = dataAtom'.tree
        /\ turn' = IF dataAtom'.pending # <<>> THEN [running |-> TRUE, actions |-> dataAtom'.pending] ELSE Idle
        /\ UNCHANGED <<saved, handlers, events, pushes, waiting, processedActionIds>>
    BY DEF InitializeFromWaveObject, server
  <1>2. RowsCome /\ PushesCome /\ RowsMove
    BY <1>1, LoadRows, SavedStays DEF PushesCome
  <1>3. PICK d \in Rows : d = dataAtom'
    BY <1>1 DEF Rows
  <1>4. waiting = <<>> /\ processedActionIds = {}
    BY <1>1 DEF LoadingInv
  <1>5. Range(turn'.actions) = Range(d.pending)
    <2>1. CASE d.pending = <<>>
      BY <1>1, <1>3, <2>1, IdleRests
    <2>2. CASE d.pending # <<>>
      BY <1>1, <1>3, <2>2
    <2> QED BY <2>1, <2>2
  <1>6. \A b \in Blocks : InTurns(b)' => Insert(b) \in Range(d.pending)
    BY <1>1, <1>4, <1>5, RangeEmpty DEF InTurns
  <1>7. BlocksCome
    BY <1>1, <1>3, <1>4, <1>6 DEF BlocksCome, Seen, Bears, RowOnce, SinglesInv, Single
  <1>8. FreshInv'
    <2> SUFFICES ASSUME NEW b \in Blocks, d.tree[b] > 0
                 PROVE  ~InTurns(b)' /\ \A y \in Rows' : Newer(y.version)' => Insert(b) \notin Range(y.pending)
      BY <1>1, <1>3 DEF FreshInv
    <2>1. \A y \in Rows : y.version >= d.version => Insert(b) \notin Range(y.pending)
      BY DEF RowOnce, OrderInv
    <2>2. d.version >= d.version
      BY RowsType, LayoutParts
    <2>3. ~InTurns(b)'
      BY <1>6, <2>1, <2>2
    <2>4. \A y \in Rows' : Newer(y.version)' => y.version >= d.version
      BY <1>1, <1>3, NoLayoutShows DEF Newer
    <2>5. \A y \in Rows' : y \in Rows \cup {NoLayout}
      BY <1>1, <1>2 DEF RowsMove, Rows
    <2>6. Insert(b) \notin Range(NoLayout.pending)
      BY NoLayoutShows, RangeEmpty
    <2> QED BY <2>1, <2>3, <2>4, <2>5, <2>6
  <1> QED BY <1>2, <1>7, <1>8, SeenShrinks, SinglesKept, SeenKept, OrderKept DEF RowOnce

LEMMA BatchRow ==
  ASSUME Types, LoadingInv, VersionInv, RowOnce, Next,
         SkipProcessed \/ HandleInsert \/ HandleDelete \/ BatchEnds \/ \E i \in DOMAIN waiting : BatchResumes(i)
  PROVE  RowOnce'
  <1>1. /\ UNCHANGED <<saved, pushes, answer, page, dataAtom>> /\ RowsCome /\ PushesCome
    BY BatchesStay, OtherRows, SavedStays DEF PushesCome
  <1>2. \A b \in Blocks : InTurns(b)' => InTurns(b)
    BY TurnsShrink
  <1>3. processedActionIds \subseteq processedActionIds'
    BY TurnsShrink
  <1>4. tree \in Trees /\ turn \in Turns
    BY DEF Types, PageOK, BatchesOK
  <1>5. \A y \in Rows : Newer(y.version)' => Newer(y.version)
    BY <1>1 DEF Newer
  <1>6. CASE UNCHANGED <<tree, processedActionIds>>
    BY <1>1, <1>2, <1>6, QuietPage, RowKeeps
  <1>7. CASE HandleInsert \/ HandleDelete
    <2>1. PICK a \in Actions :
            /\ a \in Range(turn.actions) /\ a \notin processedActionIds /\ turn.running
            /\ processedActionIds' = processedActionIds \cup {a}
            /\ \/ a.op = "insert" /\ tree' = [tree EXCEPT ![a.block] = @ + 1]
               \/ tree' = [tree EXCEPT ![a.block] = 0] \/ tree' = tree
      <3>1. Handle
        BY <1>7 DEF HandleInsert, HandleDelete
      <3>2. Head(turn.actions) \in Actions /\ Head(turn.actions) \in Range(turn.actions) /\ turn.running
        BY <1>4, <3>1, TurnGoesOn DEF Handle
      <3> QED BY <1>7, <3>2 DEF HandleInsert, HandleDelete, Processed
    <2>2. page = "open"
      BY <2>1, IdleRests DEF LoadingInv, Types, PageOK
    <2>3. a.block \in Blocks /\ (a.op = "insert" => a = Insert(a.block))
      BY InsertType DEF Actions
    <2>4. \A b \in Blocks : Insert(b) \in processedActionIds' => Seen(b)
      BY <2>1 DEF Seen, InTurns
    <2>5. CASE a.op = "insert" /\ tree' = [tree EXCEPT ![a.block] = @ + 1]
      <3>1. PICK c \in Blocks : c = a.block /\ a = Insert(c)
        BY <2>3, <2>5
      <3>2. InTurns(c)
        BY <2>1, <3>1 DEF InTurns
      <3>3. tree[c] \in Nat /\ ~(tree[c] > 0)
        BY <1>4, <2>1, <2>2, <3>1, <3>2 DEF RowOnce, FreshInv, Trees
      <3>4. tree'[c] = 1 /\ \A b \in Blocks : b # c => tree'[b] = tree[b]
        BY <1>4, <2>5, <3>1, <3>3 DEF Trees
      <3>5. BlocksCome
        <4>1. \A b \in Blocks : tree'[b] <= 1
          BY <3>4 DEF RowOnce, SinglesInv, Single
        <4>2. \A b \in Blocks : tree'[b] > 0 => Seen(b)
          BY <3>2, <3>4 DEF Seen
        <4> QED BY <1>2, <2>4, <4>1, <4>2 DEF BlocksCome, Seen
      <3>6. PageComes
        BY <1>1, <1>2, <1>5, <2>1, <3>1, <3>4 DEF PageComes
      <3> QED BY <1>1, <3>5, <3>6, RowKeeps
    <2>6. CASE tree' = [tree EXCEPT ![a.block] = 0] \/ tree' = tree
      <3>1. \A b \in Blocks : tree'[b] <= 1 /\ (tree'[b] > 0 => tree[b] > 0)
        BY <1>4, <2>3, <2>6 DEF RowOnce, SinglesInv, Single, Trees
      <3>2. BlocksCome
        BY <1>2, <2>4, <3>1 DEF BlocksCome, Seen
      <3>3. PageComes
        BY <1>1, <1>2, <1>3, <1>5, <3>1 DEF PageComes
      <3> QED BY <1>1, <3>2, <3>3, RowKeeps
    <2> QED BY <2>1, <2>5, <2>6
  <1> QED BY <1>6, <1>7 DEF SkipProcessed, BatchEnds, BatchResumes, layout

LEMMA PersistRow ==
  ASSUME Types, LoadingInv, VersionInv, RowOnce, Next, PersistToBackend PROVE RowOnce'
  <1>1. /\ dataAtom' = Layout(tree, <<>>, dataAtom.version)
        /\ pushes' = Append(pushes, [dataAtom' EXCEPT !.version = 0])
        /\ UNCHANGED <<page, saved, answer, tree, processedActionIds, turn, waiting>>
    BY DEF PersistToBackend, server, layout, batches
  <1>2. tree \in Trees /\ dataAtom.version \in Nat /\ <<>> \in Seq(Actions)
    BY LayoutParts DEF Types, PageOK
  <1>3. /\ dataAtom' \in Layouts /\ dataAtom'.tree = tree /\ dataAtom'.pending = <<>>
        /\ dataAtom'.version = dataAtom.version
    BY <1>1, <1>2 DEF Layout, Layouts
  <1>4. PICK l \in Layouts : l = [dataAtom' EXCEPT !.version = 0] /\ l.tree = tree /\ l.pending = <<>>
    <2>1. PICK m \in Layouts : m = dataAtom'
      BY <1>3
    <2>2. m.tree = tree /\ m.pending = <<>>
      BY <1>3, <2>1
    <2>3. [m EXCEPT !.version = 0] \in Layouts /\ [m EXCEPT !.version = 0].tree = m.tree
          /\ [m EXCEPT !.version = 0].pending = m.pending
      BY Renumbered
    <2> QED BY <2>1, <2>2, <2>3
  <1>5. Range(pushes') = Range(pushes) \cup {l}
    BY <1>1, <1>4, RangeAppend DEF Types, WiresOK
  <1>6. PushesCome
    BY <1>4, <1>5 DEF PushesCome
  <1>7. RowsCome
    BY OtherRows, SavedStays
  <1>8. \A c \in Blocks : tree'[c] \in {tree[c], 0} /\ (InTurns(c)' => InTurns(c))
    BY <1>1 DEF InTurns
  <1> QED BY <1>1, <1>3, <1>6, <1>7, <1>8, QuietPage, RowKeeps

RowInv == "overwritten" \notin disturbed => RowOnce
SyncInv == Types /\ PageInv /\ LoadingInv /\ VersionInv /\ OwnInv /\ RowInv

LEMMA RowInvKept == Types /\ LoadingInv /\ VersionInv /\ OwnInv /\ RowInv /\ [Next]_vars => RowInv'
  <1> SUFFICES ASSUME Types, LoadingInv, VersionInv, OwnInv, RowInv, [Next]_vars, "overwritten" \notin disturbed'
               PROVE  RowOnce'
    BY DEF RowInv
  <1>1. RowOnce
    BY HistoryGrows DEF RowInv
  <1>2. CASE UNCHANGED vars
    BY <1>1, <1>2 DEF vars, server, wires, layout, batches, RowOnce, SinglesInv, SeenInv, OrderInv, FreshInv, Rows,
       Seen, InTurns, Newer, Single
  <1>3. CASE Next
    <2>1. \A h \in handlers : QueueWrites(h) => RowOnce'
      BY <1>1, WriteRow
    <2> QED
      BY <1>1, <1>3, <2>1, BlocksRow, QueueRow, PushRow, CopyRow, LoadRow, InitializeRow, BatchRow, PersistRow
         DEF Next
  <1> QED BY <1>2, <1>3
LEMMA SyncInvHolds == Init => SyncInv
  <1> SUFFICES ASSUME Init PROVE SyncInv
    OBVIOUS
  <1>1. Types /\ PageInv
    BY TypesHold, PageInvHolds
  <1>2. PICK l \in Layouts : l = saved /\ l.tree = Showing(Start) /\ l.pending = <<>> /\ l.version = 1
    BY <1>1 DEF Types, ServerOK, Init, Layout
  <1>3. /\ tree = l.tree /\ page = "open" /\ dataAtom = l /\ used = Start /\ handlers = {}
        /\ events = <<>> /\ pushes = <<>> /\ answer = NoLayout /\ turn = Idle /\ waiting = <<>>
        /\ processedActionIds = {}
    BY <1>2 DEF Init
  <1>4. Rows = {l, NoLayout} /\ Range(pushes) = {} /\ Range(l.pending) = {}
    BY <1>2, <1>3, RangeEmpty DEF Rows
  <1>5. \A b \in Blocks : NoLayout.tree[b] = 0 /\ NoLayout.version = 0 /\ Range(NoLayout.pending) = {}
    BY NoLayoutShows, RangeEmpty
  <1>6. \A b \in Blocks : l.tree[b] \in {0, 1} /\ (l.tree[b] > 0 => b \in Start)
    BY <1>2 DEF Showing
  <1>7. LoadingInv /\ OwnInv
    BY <1>3 DEF LoadingInv, OwnInv
  <1>8. VersionInv
    BY <1>2, <1>3, <1>4, NoLayoutShows DEF VersionInv
  <1>9. \A b \in Blocks : ~InTurns(b)
    BY <1>3, IdleRests, RangeEmpty DEF InTurns
  <1>10. SinglesInv
    BY <1>3, <1>4, <1>5, <1>6 DEF SinglesInv, Single
  <1>11. SeenInv
    BY <1>3, <1>4, <1>5, <1>6, <1>9 DEF SeenInv, Seen, Bears
  <1>12. OrderInv /\ FreshInv
    BY <1>4, <1>5, <1>9 DEF OrderInv, FreshInv
  <1> QED BY <1>1, <1>7, <1>8, <1>10, <1>11, <1>12 DEF SyncInv, RowInv, RowOnce

LEMMA SyncInvKept == SyncInv /\ [Next]_vars => SyncInv'
  BY TypesKept, PageInvKept, LoadingKept, VersionKept, OwnKept, RowInvKept DEF SyncInv

(* The invariant that the application of queued actions rests on: a page that *)
(* is not loaded again knows what it has processed; and handlers that write   *)
(* back what they have read keep, of a block, either its tile or the action   *)
(* that inserts it.                                                           *)
THEOREM InvHolds == Spec => []SyncInv
  BY SyncInvHolds, SyncInvKept, PTL DEF Spec

(* processPendingBackendActions applies an action once: no block is shown     *)
(* twice, in the page or in the saved layout, whatever is lost, overtaken or  *)
(* interleaved, unless both a page was loaded again and a handler overwrote   *)
(* the layout that bore the sign of the action's application.                 *)
THEOREM AppliedCorrect == Spec => []AppliedOnce
  <1>1. SyncInv => AppliedOnce
    <2> SUFFICES ASSUME SyncInv, ~({"reload", "overwritten"} \subseteq disturbed), NEW b \in Blocks
                 PROVE  tree[b] <= 1 /\ saved.tree[b] <= 1
      BY DEF AppliedOnce
    <2>1. CASE "reload" \notin disturbed
      <3>1. PageOnce
        BY <2>1 DEF SyncInv, PageInv
      <3> QED BY <3>1 DEF PageOnce, AppliedHere, Held, Plain, Single
    <2>2. CASE "overwritten" \notin disturbed
      <3>1. SinglesInv
        BY <2>2 DEF SyncInv, RowInv, RowOnce
      <3> QED BY <3>1 DEF SinglesInv, Single, Rows
    <2> QED BY <2>1, <2>2
  <1> QED BY <1>1, InvHolds, PTL

-----------------------------------------------------------------------------
(* What settles.  While nothing but overwritten rows has come in between, the *)
(* page is open all along, and publications arrive in the order of versions.  *)

Delete(b) == [op |-> "delete", block |-> b]

(* The layouts on their way to the page. *)
News == Range(events) \cup {h.copy : h \in {k \in handlers : k.step = "publish"}}
TurnsTo(a) == a \in processedActionIds \/ a \in Range(turn.actions)
Before(a, v) == TurnsTo(a) \/ \E n \in News : n.version < v /\ a \in Range(n.pending)
Sent(a) == TurnsTo(a) \/ \E n \in News : a \in Range(n.pending)
Occurs(a) == Sent(a) \/ \E h \in handlers : h.action = a
Placed(b) == b \in Start \/ Insert(b) \in processedActionIds

(* Of the actions queued in l the page will know all but one when l comes. *)
Fits(l) ==
  /\ \A a, c \in Range(l.pending) : a = c \/ Before(a, l.version) \/ Before(c, l.version)
  /\ \A b \in Blocks \ Start : Delete(b) \in Range(l.pending) => Before(Insert(b), l.version)
Known(l) == \A a \in Range(l.pending) : Sent(a)

(* Without a reload the page is open, and without a batch its turn is empty.  *)
OpenInv == page = "open" /\ mounted /\ Start \subseteq used /\ (~turn.running => turn.actions = <<>>)

(* Publications come in the order of versions, and a version names one row.   *)
NewsInv ==
  /\ \A i, j \in DOMAIN events : i <= j => events[i].version <= events[j].version
  /\ \A h \in handlers, n \in Range(events) : h.step = "publish" => n.version <= h.copy.version
  /\ \A n \in News : n.pending # <<>>
  /\ \A n \in News, l \in News \cup {saved} : n.version = l.version => n = l
  /\ \A n \in News : answer.version > 0 /\ n.version = answer.version => n = answer

FitsInv ==
  /\ \A l \in News \cup {saved, answer} : Fits(l)
  /\ Known(saved) /\ Known(answer)

(* A handler carries, besides its own action, what the page will be told      *)
(* anyway; and it deletes what the page has been told to insert.              *)
Drafted(h) ==
  /\ \A b \in Blocks \ Start : h.action = Delete(b) => Sent(Insert(b))
  /\ h.step # "read" => h.action \in Range(h.copy.pending)
  /\ h.step = "write" =>
       /\ \A a \in Range(h.copy.pending) : a = h.action \/ Sent(a)
       /\ \A b \in Blocks \ Start : Delete(b) \in Range(h.copy.pending) => Sent(Insert(b))
DraftsInv == \A h \in handlers : Drafted(h)

(* The page's copy is not newer than what the page has taken up.              *)
ArrivedInv == \A n \in News : n.version <= dataAtom.version => \A a \in Range(n.pending) : TurnsTo(a)

(* A batch brings one action at most that is new to the page, and a deletion  *)
(* only of what has been placed; the blocks that closeNode finds are those    *)
(* that are shown, until nothing in the batch is new any more.                *)
TurnInv ==
  /\ \A a, c \in Range(turn.actions) : a = c \/ a \in processedActionIds \/ c \in processedActionIds
  /\ \A b \in Blocks : Delete(b) \in Range(turn.actions) => Placed(b)
  /\ \A q \in Range(waiting) : Range(q) \subseteq processedActionIds
  /\ leafs = Shown(tree) \/ (turn.running /\ Range(turn.actions) \subseteq processedActionIds)

(* No action is lost on its way to the page, and none comes from nowhere.     *)
OccursInv ==
  \A b \in Blocks :
    /\ Occurs(Insert(b)) <=> b \in used \ Start
    /\ Occurs(Delete(b)) => b \in used \ live

(* What exists and has been placed is shown; of what does not exist either    *)
(* nothing is shown any more, or the deletion is still to come.               *)
ShownInv ==
  \A b \in Blocks :
    /\ tree[b] > 0 => Placed(b)
    /\ b \in live /\ Placed(b) => tree[b] > 0
    /\ b \in used \ live => \/ Placed(b) /\ tree[b] = 0
                            \/ Occurs(Delete(b)) /\ Delete(b) \notin processedActionIds

(* The page is about to save what it shows; or its last write under way shows *)
(* it; or the saved row does, unless a handler has just written a newer one,  *)
(* which will start a batch and with it a write.                              *)
Agrees(l) == l.tree = tree /\ l.pending = <<>>
WritesInv ==
  /\ \A l \in Range(pushes) : l.pending = <<>>
  /\ \/ timer \/ turn.running \/ waiting # <<>>
     \/ pushes # <<>> /\ Agrees(pushes[Len(pushes)])
     \/ pushes = <<>> /\ Agrees(saved)
     \/ pushes = <<>> /\ \E n \in News : n.version = saved.version /\ n.version > dataAtom.version

Calm == disturbed \subseteq {"overwritten"}
Told ==
  /\ OpenInv /\ NewsInv /\ FitsInv /\ DraftsInv /\ ArrivedInv /\ TurnInv /\ OccursInv /\ ShownInv /\ WritesInv
CalmInv == Calm => Told

Ready == Types /\ VersionInv /\ Told

(* What a step may not take away: what the page knows, and the news. *)
TurnsKept == \A a : TurnsTo(a) => TurnsTo(a)'
NewsKept == \A n \in News : n \in News' \/ \A a \in Range(n.pending) : TurnsTo(a)'
Tells == \A a : (Sent(a) => Sent(a)') /\ \A v : Before(a, v) => Before(a, v)'

(* And what it may not add: an action that no handler has come with. *)
TurnsCome == \A a : TurnsTo(a)' => Occurs(a)
NewsCome == \A n \in News' : n \in News \/ \A a \in Range(n.pending) : Occurs(a)
SameActions ==
  /\ \A h \in handlers : Sent(h.action)' \/ \E k \in handlers' : k.action = h.action
  /\ \A h \in handlers' : \E k \in handlers : k.action = h.action
SameOccur == \A a : Occurs(a)' <=> Occurs(a)

LEMMA DeleteType ==
  \A b \in Blocks : /\ Delete(b) \in Actions /\ Delete(b).op = "delete" /\ Delete(b).block = b
                    /\ \A c \in Blocks : Delete(b) # Insert(c) /\ (Delete(b) = Delete(c) => b = c)
                                         /\ (Insert(b) = Insert(c) => b = c)
  <1> TAKE b \in Blocks
  <1>1. Delete(b) \in Actions /\ Delete(b).op = "delete" /\ Delete(b).block = b
    BY DEF Delete, Actions
  <1>2. \A c \in Blocks : /\ Delete(c).op = "delete" /\ Delete(c).block = c
                          /\ Insert(c).op = "insert" /\ Insert(c).block = c
    BY DEF Delete, Insert
  <1> QED BY <1>1, <1>2

LEMMA ActionKinds ==
  \A a \in Actions : a.block \in Blocks /\ (a = Insert(a.block) \/ a = Delete(a.block))
                     /\ (a.op = "insert" <=> a = Insert(a.block)) /\ (a.op = "delete" <=> a = Delete(a.block))
  BY DEF Actions, Insert, Delete

LEMMA NewsType ==
  ASSUME Types, VersionInv
  PROVE  /\ saved \in Layouts /\ answer \in Layouts /\ dataAtom \in Layouts
         /\ saved.version \in Nat /\ answer.version \in Nat /\ dataAtom.version \in Nat
         /\ answer.version <= saved.version /\ dataAtom.version <= saved.version
         /\ \A n \in News : n \in Layouts /\ n.version \in Nat /\ n.version <= saved.version
  <1>1. saved \in Layouts /\ answer \in Layouts /\ dataAtom \in Layouts
    BY DEF Types, ServerOK, WiresOK, PageOK
  <1>2. News \subseteq Rows /\ saved \in Rows /\ answer \in Rows
    BY DEF News, Rows
  <1>3. \A n \in Rows \cup {dataAtom} : n.version <= saved.version
    BY DEF VersionInv
  <1>4. \A n \in News : n \in Layouts
    BY <1>2, RowsType
  <1> QED BY <1>1, <1>2, <1>3, <1>4, LayoutParts

LEMMA FlowsOn ==
  ASSUME TurnsKept, NewsKept PROVE Tells
  BY DEF TurnsKept, NewsKept, Tells, Sent, Before

LEMMA OccursSame ==
  ASSUME TurnsKept, NewsKept, TurnsCome, NewsCome, SameActions PROVE SameOccur
  <1>1. \A a : Occurs(a) => Occurs(a)'
    BY FlowsOn DEF SameActions, Occurs, Tells
  <1>2. \A a : Sent(a)' => Occurs(a)
    BY DEF TurnsCome, NewsCome, Sent, Occurs
  <1>3. \A a : Occurs(a)' => Occurs(a)
    BY <1>2 DEF SameActions, Occurs
  <1> QED BY <1>1, <1>3 DEF SameOccur

LEMMA FitsKeep ==
  ASSUME FitsInv, TurnsKept, NewsKept,
         \A l \in News' : l \in News \/ Fits(l)',
         saved' = saved \/ saved'.pending = <<>> \/ (Fits(saved)' /\ Known(saved)'),
         answer' \in {answer, saved, NoLayout}
  PROVE  FitsInv'
  <1>1. Tells
    BY FlowsOn
  <1>2. \A l : Fits(l) => Fits(l)'
    BY <1>1 DEF Fits, Tells
  <1>3. \A l : Known(l) => Known(l)'
    BY <1>1 DEF Known, Tells
  <1>4. \A l : l.pending = <<>> => Fits(l)' /\ Known(l)'
    BY RangeEmpty DEF Fits, Known
  <1>5. Fits(saved)' /\ Known(saved)'
    <2>1. CASE saved' = saved
      BY <1>2, <1>3, <2>1 DEF FitsInv
    <2>2. CASE saved'.pending = <<>>
      <3>1. PICK l : l = saved'
        OBVIOUS
      <3>2. Fits(l)' /\ Known(l)'
        BY <1>4, <2>2, <3>1
      <3> QED BY <3>1, <3>2
    <2> QED BY <2>1, <2>2
  <1>6. Fits(answer)' /\ Known(answer)'
    <2>1. PICK l : l = answer'
      OBVIOUS
    <2>2. Fits(l)' /\ Known(l)'
      BY <1>2, <1>3, <1>4, <2>1, NoLayoutShows DEF FitsInv
    <2> QED BY <2>1, <2>2
  <1>7. \A l \in News' : Fits(l)'
    BY <1>2 DEF FitsInv
  <1> QED BY <1>5, <1>6, <1>7 DEF FitsInv

LEMMA DraftsKeep ==
  ASSUME DraftsInv, TurnsKept, NewsKept, \A h \in handlers' : h \in handlers \/ Drafted(h)'
  PROVE  DraftsInv'
  <1>1. \A h : Drafted(h) => Drafted(h)'
    BY FlowsOn DEF Drafted, Tells
  <1> QED BY <1>1 DEF DraftsInv

LEMMA OccursKeep ==
  ASSUME OccursInv, SameOccur, used' = used, live' \subseteq live PROVE OccursInv'
  BY DEF OccursInv, SameOccur

LEMMA ShownKeep ==
  ASSUME ShownInv, SameOccur, UNCHANGED <<tree, processedActionIds, live, used>> PROVE ShownInv'
  BY DEF ShownInv, SameOccur, Placed

LEMMA NewsStay ==
  ASSUME UNCHANGED <<events, saved>>, answer' \in {answer, NoLayout},
         \A h : h.step = "publish" => (h \in handlers' <=> h \in handlers)
  PROVE  News' = News /\ (NewsInv => NewsInv')
  <1>1. News' = News
    BY DEF News
  <1>2. NoLayout.version = 0
    BY NoLayoutShows
  <1>3. ASSUME NewsInv PROVE NewsInv'
    <2>1. answer'.version > 0 => answer' = answer
      BY <1>2
    <2> QED BY <1>1, <1>3, <2>1 DEF NewsInv
  <1> QED BY <1>1, <1>3

LEMMA ArrivedKeep ==
  ASSUME ArrivedInv, TurnsKept, dataAtom'.version = dataAtom.version,
         \A n \in News' : n \in News \/ ~(n.version <= dataAtom.version)
  PROVE  ArrivedInv'
  BY DEF ArrivedInv, TurnsKept

LEMMA TurnStays ==
  ASSUME UNCHANGED <<processedActionIds, turn>>
  PROVE  TurnsKept /\ TurnsCome /\ \A a : TurnsTo(a)' = TurnsTo(a)
  BY DEF TurnsKept, TurnsCome, TurnsTo, Occurs, Sent

LEMMA WritesStay ==
  ASSUME WritesInv, UNCHANGED <<tree, timer, turn, waiting, pushes, saved, dataAtom>>, News \subseteq News'
  PROVE  WritesInv'
  BY DEF WritesInv, Agrees

(* A handler that begins knows of the block it is to delete. *)
LEMMA BlocksCalm ==
  ASSUME Ready, NEW b \in Blocks, CreateBlock(b) \/ DeleteBlock(b) PROVE Told'
  <1>1. PICK a \in {Insert(b), Delete(b)} :
          /\ handlers' = handlers \cup {Handler("read", a, NoLayout)}
          /\ a = Insert(b) => b \notin used /\ live' = live \cup {b} /\ used' = used \cup {b}
          /\ a = Delete(b) => b \in live /\ (\A h \in handlers : h.action.block # b)
                              /\ live' = live \ {b} /\ used' = used
    BY DEF CreateBlock, DeleteBlock, Insert, Delete
  <1>2. UNCHANGED <<saved, events, pushes, answer, page, dataAtom, tree, leafs, mounted, turn, waiting,
                    processedActionIds, timer>>
    BY DEF CreateBlock, DeleteBlock, wires, layout, batches
  <1>3. PICK h0 : h0 = Handler("read", a, NoLayout) /\ h0.step = "read" /\ h0.action = a
    <2>1. Handler("read", a, NoLayout).step = "read" /\ Handler("read", a, NoLayout).action = a
      BY DEF Handler
    <2> QED BY <2>1
  <1>4. handlers' = handlers \cup {h0}
    BY <1>1, <1>3
  <1>5. News' = News /\ NewsInv'
    BY <1>2, <1>3, <1>4, NewsStay DEF Ready, Told
  <1>6. TurnsKept /\ NewsKept /\ \A c : TurnsTo(c)' = TurnsTo(c)
    BY <1>2, <1>5, TurnStays DEF NewsKept
  <1>7. \A c : (Sent(c)' <=> Sent(c)) /\ (Occurs(c)' <=> (Occurs(c) \/ c = a))
    BY <1>3, <1>4, <1>5, <1>6 DEF Sent, Occurs
  <1>8. live \subseteq used /\ Start \subseteq used
    BY DEF Ready, Types, ServerOK, Told, OpenInv
  <1>9. /\ \A c \in Blocks : Occurs(Insert(c)) <=> c \in used \ Start
        /\ \A c \in Blocks : Occurs(Delete(c)) => c \in used \ live
    BY DEF Ready, Told, OccursInv
  <1>10. \A c \in Blocks : /\ Delete(b) # Insert(c) /\ Delete(c) # Insert(b)
                           /\ (Delete(b) = Delete(c) => b = c) /\ (Insert(b) = Insert(c) => b = c)
    BY DeleteType
  <1>11. OpenInv'
    BY <1>1, <1>2 DEF Ready, Told, OpenInv
  <1>12. FitsInv'
    BY <1>2, <1>5, <1>6, FitsKeep DEF Ready, Told
  <1>13. DraftsInv'
    <2>1. ASSUME NEW c \in Blocks \ Start, a = Delete(c) PROVE Sent(Insert(c))
      <3>1. c = b /\ a = Delete(b)
        BY <1>10, <2>1
      <3>2. Occurs(Insert(b))
        BY <1>1, <1>8, <1>9, <2>1, <3>1
      <3>3. Insert(b).block = b
        BY DEF Insert
      <3> QED BY <1>1, <3>1, <3>2, <3>3 DEF Occurs
    <2>2. Drafted(h0)'
      BY <1>3, <1>7, <2>1 DEF Drafted
    <2> QED BY <1>4, <1>6, <2>2, DraftsKeep DEF Ready, Told
  <1>14. ArrivedInv'
    BY <1>2, <1>5, <1>6, ArrivedKeep DEF Ready, Told
  <1>15. TurnInv'
    BY <1>2 DEF Ready, Told, TurnInv, Placed, Shown
  <1>16. OccursInv'
    BY <1>1, <1>7, <1>8, <1>9, <1>10 DEF OccursInv
  <1>17. ShownInv'
    <2>1. \A c \in Blocks : Placed(c)' = Placed(c) /\ tree'[c] = tree[c]
      BY <1>2 DEF Placed
    <2>2. Placed(b) => b \in used
      BY <1>8, <1>9 DEF Placed, Occurs, Sent, TurnsTo
    <2>3. b \in live => Delete(b) \notin processedActionIds
      BY <1>9 DEF Occurs, Sent, TurnsTo
    <2> QED BY <1>1, <1>2, <1>7, <1>10, <2>1, <2>2, <2>3 DEF Ready, Told, ShownInv
  <1>18. WritesInv'
    BY <1>2, <1>5, WritesStay DEF Ready, Told
  <1> QED BY <1>5, <1>11, <1>12, <1>13, <1>14, <1>15, <1>16, <1>17, <1>18 DEF Told

LEMMA CloseCalm ==
  ASSUME Ready, NEW b \in Blocks, CloseBlock(b) PROVE Told'
  <1>1. /\ ~turn.running /\ b \in leafs
        /\ tree' = [tree EXCEPT ![b] = 0] /\ leafs' = Shown(tree') /\ timer' = TRUE /\ live' = live \ {b}
        /\ UNCHANGED <<saved, used, handlers, events, pushes, answer, page, dataAtom, mounted, turn, waiting,
                       processedActionIds>>
    BY DEF CloseBlock, Yielded, wires, batches
  <1>2. News' = News /\ NewsInv'
    BY <1>1, NewsStay DEF Ready, Told
  <1>3. TurnsKept /\ NewsKept /\ TurnsCome /\ NewsCome /\ SameActions
    BY <1>1, <1>2, TurnStays DEF NewsKept, NewsCome, SameActions
  <1>4. SameOccur
    BY <1>3, OccursSame
  <1>5. tree'[b] = 0 /\ (\A c \in Blocks : c # b => tree'[c] = tree[c]) /\ tree[b] > 0
    <2>1. tree \in Trees /\ leafs = Shown(tree)
      BY <1>1 DEF Ready, Types, PageOK, Told, TurnInv
    <2> QED BY <1>1, <2>1 DEF Trees, Shown
  <1>6. OpenInv' /\ FitsInv' /\ DraftsInv' /\ ArrivedInv' /\ OccursInv'
    BY <1>1, <1>2, <1>3, <1>4, FitsKeep, DraftsKeep, ArrivedKeep, OccursKeep DEF Ready, Told, OpenInv
  <1>7. TurnInv'
    BY <1>1 DEF Ready, Told, TurnInv, Placed, Shown
  <1>8. ShownInv'
    BY <1>1, <1>4, <1>5 DEF Ready, Told, ShownInv, SameOccur, Placed
  <1>9. WritesInv'
    BY <1>1 DEF Ready, Told, WritesInv
  <1> QED BY <1>2, <1>6, <1>7, <1>8, <1>9 DEF Told

(* The page asks for the saved layout again. *)
LEMMA AskCalm ==
  ASSUME Ready, ReloadWaveObject PROVE Told'
  <1>1. /\ answer' = saved
        /\ UNCHANGED <<saved, live, used, handlers, events, pushes, page, dataAtom, tree, leafs, mounted, turn,
                       waiting, processedActionIds, timer>>
    BY DEF ReloadWaveObject, server, layout, batches
  <1>2. News' = News
    BY <1>1 DEF News
  <1>3. NewsInv'
    BY <1>1, <1>2 DEF Ready, Told, NewsInv
  <1>4. TurnsKept /\ NewsKept /\ TurnsCome /\ NewsCome /\ SameActions
    BY <1>1, <1>2, TurnStays DEF NewsKept, NewsCome, SameActions
  <1>5. SameOccur
    BY <1>4, OccursSame
  <1>6. OpenInv' /\ FitsInv' /\ DraftsInv' /\ ArrivedInv' /\ OccursInv' /\ ShownInv' /\ WritesInv'
    BY <1>1, <1>2, <1>4, <1>5, FitsKeep, DraftsKeep, ArrivedKeep, OccursKeep, ShownKeep, WritesStay
       DEF Ready, Told, OpenInv
  <1>7. TurnInv'
    BY <1>1 DEF Ready, Told, TurnInv, Placed, Shown
  <1> QED BY <1>3, <1>6, <1>7 DEF Told

Ordered(s) == \A i, j \in DOMAIN s : i <= j => s[i].version <= s[j].version

LEMMA OrderedAppend ==
  ASSUME NEW s \in Seq(Layouts), NEW l \in Layouts, Ordered(s), \A n \in Range(s) : n.version <= l.version
  PROVE  Ordered(Append(s, l))
  <1>1. /\ Len(s) \in Nat /\ DOMAIN s = 1 .. Len(s) /\ DOMAIN Append(s, l) = 1 .. Len(s) + 1
        /\ Append(s, l)[Len(s) + 1] = l /\ \A i \in 1 .. Len(s) : Append(s, l)[i] = s[i]
    OBVIOUS
  <1>2. l.version <= l.version
    BY LayoutParts
  <1>3. \A i \in 1 .. Len(s) : s[i].version <= l.version
    BY <1>1 DEF Range
  <1>4. PICK t : t = Append(s, l)
    OBVIOUS
  <1>5. ASSUME NEW i \in 1 .. Len(s) + 1, NEW j \in 1 .. Len(s) + 1, i <= j PROVE t[i].version <= t[j].version
    <2>1. CASE j = Len(s) + 1
      <3>1. i \in 1 .. Len(s) \/ i = Len(s) + 1
        BY <1>1
      <3> QED BY <1>1, <1>2, <1>3, <1>4, <2>1, <3>1
    <2>2. CASE j # Len(s) + 1
      <3>1. i \in 1 .. Len(s) /\ j \in 1 .. Len(s)
        BY <1>1, <1>5, <2>2
      <3> QED BY <1>1, <1>4, <1>5, <3>1 DEF Ordered
    <2> QED BY <2>1, <2>2
  <1> QED BY <1>1, <1>4, <1>5 DEF Ordered

LEMMA OrderedTail ==
  ASSUME NEW s \in Seq(Layouts), s # <<>>, Ordered(s)
  PROVE  Ordered(Tail(s)) /\ \A n \in Range(s) : Head(s).version <= n.version
  <1>1. /\ Len(s) \in Nat \ {0} /\ DOMAIN s = 1 .. Len(s) /\ DOMAIN Tail(s) = 1 .. Len(s) - 1
        /\ Head(s) = s[1] /\ \A i \in 1 .. Len(s) - 1 : Tail(s)[i] = s[i + 1]
    OBVIOUS
  <1>2. \A i \in 1 .. Len(s) : s[1].version <= s[i].version
    BY <1>1 DEF Ordered
  <1>3. PICK t : t = Tail(s)
    OBVIOUS
  <1>4. ASSUME NEW i \in 1 .. Len(s) - 1, NEW j \in 1 .. Len(s) - 1, i <= j PROVE t[i].version <= t[j].version
    <2>1. i + 1 \in 1 .. Len(s) /\ j + 1 \in 1 .. Len(s) /\ i + 1 <= j + 1
      BY <1>1, <1>4
    <2> QED BY <1>1, <1>3, <2>1 DEF Ordered
  <1> QED BY <1>1, <1>2, <1>3, <1>4 DEF Ordered, Range

LEMMA NewsOrdered == NewsInv => Ordered(events)
  BY DEF NewsInv, Ordered

LEMMA NotDisturbed ==
  ASSUME NEW what, what # "overwritten", NEW P, Disturbs(what, P), Calm' PROVE ~P
  BY DEF Disturbs, Calm

LEMMA AllBefore ==
  ASSUME Types, VersionInv, NEW a, Sent(a) PROVE Before(a, saved.version + 1)
  <1>1. \A n \in News : n.version < saved.version + 1
    BY NewsType
  <1> QED BY <1>1 DEF Sent, Before

LEMMA ReadCalm ==
  ASSUME Ready, NEW h \in handlers, QueueReads(h) PROVE Told'
  <1>1. /\ saved \in Layouts /\ saved.pending \in Seq(Actions) /\ h.action \in Actions
    BY LayoutParts, HandlerParts DEF Ready, Types, ServerOK
  <1>2. PICK c \in Layouts : c = [saved EXCEPT !.pending = Append(@, h.action)]
                             /\ Range(c.pending) = Range(saved.pending) \cup {h.action}
    <2>1. PICK p \in Seq(Actions) :
            p = Append(saved.pending, h.action) /\ Range(p) = Range(saved.pending) \cup {h.action}
      BY <1>1, RangeAppend
    <2>2. [saved EXCEPT !.pending = p] \in Layouts /\ [saved EXCEPT !.pending = p].pending = p
      BY <1>1, <2>1, Queued
    <2>3. [saved EXCEPT !.pending = p] = [saved EXCEPT !.pending = Append(@, h.action)]
      BY <2>1
    <2> QED BY <2>1, <2>2, <2>3
  <1>3. PICK h1 : h1 = Handler("write", h.action, c) /\ h1.step = "write" /\ h1.action = h.action /\ h1.copy = c
    <2>1. /\ Handler("write", h.action, c).step = "write" /\ Handler("write", h.action, c).action = h.action
          /\ Handler("write", h.action, c).copy = c
      BY DEF Handler
    <2> QED BY <2>1
  <1>4. /\ h.step = "read" /\ handlers' = (handlers \ {h}) \cup {h1}
        /\ UNCHANGED <<saved, live, used, events, pushes, answer, page, dataAtom, tree, leafs, mounted, turn,
                       waiting, processedActionIds, timer>>
    BY <1>2, <1>3 DEF QueueReads, Moves, server, wires, layout, batches
  <1>5. News' = News /\ NewsInv'
    BY <1>3, <1>4, NewsStay DEF Ready, Told
  <1>6. TurnsKept /\ NewsKept /\ TurnsCome /\ NewsCome /\ SameActions
    BY <1>3, <1>4, <1>5, TurnStays DEF NewsKept, NewsCome, SameActions
  <1>7. SameOccur /\ Tells
    BY <1>6, OccursSame, FlowsOn
  <1>8. Drafted(h1)'
    <2>1. \A a \in Range(c.pending) : a = h.action \/ Sent(a)'
      BY <1>2, <1>7 DEF Ready, Told, FitsInv, Known, Tells
    <2>2. ASSUME NEW b \in Blocks \ Start, Delete(b) \in Range(c.pending) PROVE Sent(Insert(b))'
      <3>1. CASE Delete(b) = h.action
        BY <1>7, <3>1 DEF Ready, Told, DraftsInv, Drafted, Tells
      <3>2. CASE Delete(b) \in Range(saved.pending)
        BY <1>7, <3>2 DEF Ready, Told, FitsInv, Fits, Before, Sent, Tells
      <3> QED BY <1>2, <2>2, <3>1, <3>2
    <2> QED BY <1>2, <1>3, <2>1, <2>2 DEF Drafted
  <1>9. DraftsInv'
    BY <1>4, <1>6, <1>8, DraftsKeep DEF Ready, Told
  <1>10. OpenInv' /\ FitsInv' /\ ArrivedInv' /\ OccursInv' /\ ShownInv' /\ WritesInv'
    BY <1>4, <1>5, <1>6, <1>7, FitsKeep, ArrivedKeep, OccursKeep, ShownKeep, WritesStay DEF Ready, Told, OpenInv
  <1>11. TurnInv'
    BY <1>4 DEF Ready, Told, TurnInv, Placed, Shown
  <1> QED BY <1>5, <1>9, <1>10, <1>11 DEF Told

(* What a handler writes is queued behind all that the page has been told. *)
LEMMA WriteCalm ==
  ASSUME Ready, NEW h \in handlers, QueueWrites(h) PROVE Told'
  <1>1. saved \in Layouts /\ h.copy \in Layouts /\ h.action \in Actions
    BY LayoutParts, HandlerParts DEF Ready, Types, ServerOK
  <1>2. /\ h.step = "write" /\ saved' = [h.copy EXCEPT !.version = saved.version + 1]
        /\ handlers' = (handlers \ {h}) \cup {Handler("publish", h.action, saved')}
        /\ UNCHANGED <<live, used, events, pushes, answer, page, dataAtom, tree, leafs, mounted, turn, waiting,
                       processedActionIds, timer>>
    BY DEF QueueWrites, Moves, wires, layout, batches
  <1>3. PICK v \in Nat : v = saved.version + 1
    BY <1>1, LayoutParts
  <1>4. PICK l \in Layouts : l = saved' /\ l.pending = h.copy.pending /\ l.version = v
    BY <1>1, <1>2, <1>3, Renumbered
  <1>5. PICK h1 : handlers' = (handlers \ {h}) \cup {h1} /\ h1.step = "publish" /\ h1.action = h.action /\ h1.copy = l
    <2>1. /\ Handler("publish", h.action, l).step = "publish" /\ Handler("publish", h.action, l).action = h.action
          /\ Handler("publish", h.action, l).copy = l
      BY DEF Handler
    <2> QED BY <1>2, <1>4, <2>1
  <1>6. News' = News \cup {l}
    <2>1. {k \in handlers' : k.step = "publish"} = {k \in handlers : k.step = "publish"} \cup {h1}
      BY <1>2, <1>5
    <2> QED BY <1>2, <1>5, <2>1 DEF News
  <1>7. /\ \A n \in News \cup {saved} : n.version < v /\ n.version <= v /\ n.version # v
        /\ answer.version # v /\ ~(v <= dataAtom.version) /\ v > dataAtom.version
    BY <1>3, NewsType DEF Ready
  <1>8. h.action \in Range(l.pending) /\ l.pending # <<>>
    BY <1>2, <1>4, RangeEmpty DEF Ready, Told, DraftsInv, Drafted
  <1>9. NewsInv'
    <2>1. \A n \in Range(events) : n.version <= v
      BY <1>7 DEF News
    <2>2. /\ \A i, j \in DOMAIN events' : i <= j => events'[i].version <= events'[j].version
          /\ \A k \in handlers', n \in Range(events') : k.step = "publish" => n.version <= k.copy.version
      BY <1>2, <1>4, <1>5, <2>1 DEF Ready, Told, NewsInv
    <2>3. \A n \in News' : n.pending # <<>>
      BY <1>6, <1>8 DEF Ready, Told, NewsInv
    <2>4. \A n \in News', m \in News' \cup {l} : n.version = m.version => n = m
      BY <1>4, <1>6, <1>7 DEF Ready, Told, NewsInv
    <2>5. \A n \in News' : answer.version > 0 /\ n.version = answer.version => n = answer
      BY <1>4, <1>6, <1>7 DEF Ready, Told, NewsInv
    <2> QED BY <1>2, <1>4, <2>2, <2>3, <2>4, <2>5 DEF NewsInv
  <1>10. TurnsKept /\ NewsKept /\ TurnsCome /\ NewsCome /\ SameActions
    <2>1. \A a \in Range(l.pending) : Occurs(a)
      BY <1>2, <1>4 DEF Ready, Told, DraftsInv, Drafted, Occurs
    <2> QED BY <1>2, <1>5, <1>6, <2>1, TurnStays DEF NewsKept, NewsCome, SameActions
  <1>11. SameOccur /\ Tells
    BY <1>10, OccursSame, FlowsOn
  <1>12. \A a : Sent(a) => Before(a, v)' /\ Sent(a)'
    BY <1>3, <1>11, AllBefore DEF Ready, Tells
  <1>13. Fits(l)' /\ Known(l)'
    <2>1. \A a \in Range(l.pending) : a = h.action \/ Before(a, v)'
      BY <1>2, <1>4, <1>12 DEF Ready, Told, DraftsInv, Drafted
    <2>2. \A b \in Blocks \ Start : Delete(b) \in Range(l.pending) => Before(Insert(b), v)'
      BY <1>2, <1>4, <1>12 DEF Ready, Told, DraftsInv, Drafted
    <2>3. Known(l)'
      BY <1>6 DEF Known, Sent
    <2> QED BY <1>4, <2>1, <2>2, <2>3 DEF Fits
  <1>14. FitsInv'
    <2>1. Fits(saved)' /\ Known(saved)'
      BY <1>4, <1>13
    <2> QED BY <1>2, <1>6, <1>10, <1>13, <2>1, FitsKeep DEF Ready, Told
  <1>15. DraftsInv'
    <2>1. Drafted(h1)'
      BY <1>5, <1>8, <1>12 DEF Ready, Told, DraftsInv, Drafted
    <2> QED BY <1>5, <1>10, <2>1, DraftsKeep DEF Ready, Told
  <1>16. OpenInv' /\ ArrivedInv' /\ OccursInv' /\ ShownInv'
    BY <1>2, <1>4, <1>6, <1>7, <1>10, <1>11, ArrivedKeep, OccursKeep, ShownKeep DEF Ready, Told, OpenInv
  <1>17. TurnInv'
    BY <1>2 DEF Ready, Told, TurnInv, Placed, Shown
  <1>18. WritesInv'
    <2>1. l \in News' /\ l.version = saved'.version /\ l.version > dataAtom'.version
      BY <1>2, <1>4, <1>6, <1>7
    <2> QED BY <1>2, <2>1 DEF Ready, Told, WritesInv, Agrees
  <1> QED BY <1>9, <1>14, <1>15, <1>16, <1>17, <1>18 DEF Told

LEMMA PublishCalm ==
  ASSUME Ready, Calm', NEW h \in handlers, Publish(h) PROVE Told'
  <1>1. /\ h.step = "publish" /\ handlers' = handlers \ {h} /\ events' = Append(events, h.copy)
        /\ \A k \in handlers : k.step = "publish" => ~(k.copy.version < h.copy.version)
        /\ UNCHANGED <<saved, live, used, pushes, answer, page, dataAtom, tree, leafs, mounted, turn, waiting,
                       processedActionIds, timer>>
    <2>1. Disturbs("overtaken", \E k \in handlers : k.step = "publish" /\ k.copy.version < h.copy.version)
      BY DEF Publish
    <2>2. ~(\E k \in handlers : k.step = "publish" /\ k.copy.version < h.copy.version)
      BY <2>1, NotDisturbed
    <2> QED BY <2>2 DEF Publish, server, layout, batches
  <1>2. events \in Seq(Layouts) /\ h.copy \in Layouts
    BY HandlerParts DEF Ready, Types, ServerOK, WiresOK
  <1>3. Range(events') = Range(events) \cup {h.copy}
    BY <1>1, <1>2, RangeAppend
  <1>4. News' = News
    BY <1>1, <1>3 DEF News
  <1>5. \A k \in handlers : k.step = "publish" => h.copy.version <= k.copy.version
    <2>1. \A k \in handlers : k.copy.version \in Nat
      BY HandlerParts, LayoutParts DEF Ready, Types, ServerOK
    <2> QED BY <1>1, <2>1
  <1>6. NewsInv'
    <2>1. Ordered(events) /\ \A n \in Range(events) : n.version <= h.copy.version
      BY <1>1, NewsOrdered DEF Ready, Told, NewsInv
    <2>2. PICK es : es = events' /\ Ordered(es)
      BY <1>1, <1>2, <2>1, OrderedAppend
    <2>3. \A i, j \in DOMAIN events' : i <= j => events'[i].version <= events'[j].version
      BY <2>2 DEF Ordered
    <2>4. \A k \in handlers', n \in Range(events') : k.step = "publish" => n.version <= k.copy.version
      BY <1>1, <1>3, <1>5 DEF Ready, Told, NewsInv
    <2> QED BY <1>1, <1>4, <2>3, <2>4 DEF Ready, Told, NewsInv
  <1>7. TurnsKept /\ NewsKept /\ TurnsCome /\ NewsCome /\ SameActions
    <2>1. h.copy \in News' /\ h.action \in Range(h.copy.pending)
      BY <1>1, <1>4 DEF News, Ready, Told, DraftsInv, Drafted
    <2>2. Sent(h.action)'
      BY <2>1 DEF Sent
    <2> QED BY <1>1, <1>4, <2>2, TurnStays DEF NewsKept, NewsCome, SameActions
  <1>8. SameOccur
    BY <1>7, OccursSame
  <1>9. OpenInv' /\ FitsInv' /\ DraftsInv' /\ ArrivedInv' /\ OccursInv' /\ ShownInv' /\ WritesInv'
    BY <1>1, <1>4, <1>7, <1>8, FitsKeep, DraftsKeep, ArrivedKeep, OccursKeep, ShownKeep, WritesStay
       DEF Ready, Told, OpenInv
  <1>10. TurnInv'
    BY <1>1 DEF Ready, Told, TurnInv, Placed, Shown
  <1> QED BY <1>6, <1>9, <1>10 DEF Told

LEMMA FirstRemoved ==
  ASSUME NEW S, NEW s \in Seq(S), 1 \in DOMAIN s
  PROVE  /\ RemoveAt(s, 1) \in Seq(S) /\ Len(RemoveAt(s, 1)) = Len(s) - 1 /\ Len(s) \in Nat \ {0}
         /\ RemoveAt(s, 1) # <<>> => RemoveAt(s, 1)[Len(RemoveAt(s, 1))] = s[Len(s)]
  <1>1. Len(s) \in Nat \ {0}
    OBVIOUS
  <1>2. SubSeq(s, 1, 0) = <<>> /\ SubSeq(s, 2, Len(s)) = Tail(s)
    BY <1>1
  <1>3. /\ Tail(s) \in Seq(S) /\ Len(Tail(s)) = Len(s) - 1
        /\ \A i \in 1 .. Len(s) - 1 : Tail(s)[i] = s[i + 1]
    BY <1>1
  <1>4. RemoveAt(s, 1) = <<>> \o Tail(s)
    BY <1>2 DEF RemoveAt
  <1>5. RemoveAt(s, 1) = Tail(s)
    BY <1>3, <1>4
  <1>6. PICK t \in Seq(S) : t = Tail(s) /\ Len(t) = Len(s) - 1 /\ \A i \in 1 .. Len(s) - 1 : t[i] = s[i + 1]
    BY <1>3
  <1>7. t # <<>> => t[Len(t)] = s[Len(s)]
    <2>1. t # <<>> => Len(s) - 1 \in 1 .. Len(s) - 1 /\ Len(s) - 1 + 1 = Len(s)
      BY <1>1, <1>6
    <2> QED BY <1>6, <2>1
  <1> QED BY <1>1, <1>5, <1>6, <1>7

(* The page's writes arrive in the order it makes them in. *)
LEMMA UpdateCalm ==
  ASSUME Ready, Calm', NEW i \in DOMAIN pushes, UpdateObject(i) PROVE Told'
  <1>1. /\ saved' = [pushes[i] EXCEPT !.version = saved.version + 1] /\ pushes' = RemoveAt(pushes, i)
        /\ UNCHANGED <<live, used, handlers, events, answer, page, dataAtom, tree, leafs, mounted, turn, waiting,
                       processedActionIds, timer>>
    BY DEF UpdateObject, layout, batches
  <1>2. pushes \in Seq(Layouts) /\ i = 1
    <2>1. Disturbs("overtaken", i > 1)
      BY DEF UpdateObject
    <2>2. ~(i > 1)
      BY <2>1, NotDisturbed
    <2>3. pushes \in Seq(Layouts)
      BY DEF Ready, Types, WiresOK
    <2> QED BY <2>2, <2>3
  <1>3. PICK v \in Nat : v = saved.version + 1
    BY NewsType DEF Ready
  <1>4. PICK l \in Layouts : l = saved' /\ l.pending = pushes[1].pending /\ l.version = v /\ l.tree = pushes[1].tree
    <2>1. pushes[1] \in Layouts
      BY <1>2, RangeRemoveAt
    <2> QED BY <1>1, <1>2, <1>3, <2>1, Renumbered
  <1>5. /\ \A p \in Range(pushes) : p.pending = <<>>
        /\ Range(pushes') \subseteq Range(pushes) /\ pushes[1] \in Range(pushes)
    BY <1>1, <1>2, RangeRemoveAt DEF Ready, Told, WritesInv
  <1>6. l.pending = <<>>
    BY <1>4, <1>5
  <1>7. News' = News /\ \A n \in News : n.version # v
    <2>1. News' = News
      BY <1>1 DEF News
    <2> QED BY <1>3, <2>1, NewsType DEF Ready
  <1>8. NewsInv'
    BY <1>1, <1>4, <1>7 DEF Ready, Told, NewsInv
  <1>9. TurnsKept /\ NewsKept /\ TurnsCome /\ NewsCome /\ SameActions
    BY <1>1, <1>7, TurnStays DEF NewsKept, NewsCome, SameActions
  <1>10. SameOccur
    BY <1>9, OccursSame
  <1>11. saved'.pending = <<>>
    BY <1>4, <1>6
  <1>12. OpenInv' /\ FitsInv' /\ DraftsInv' /\ ArrivedInv' /\ OccursInv' /\ ShownInv'
    BY <1>1, <1>7, <1>9, <1>10, <1>11, FitsKeep, DraftsKeep, ArrivedKeep, OccursKeep, ShownKeep
       DEF Ready, Told, OpenInv
  <1>13. TurnInv'
    BY <1>1 DEF Ready, Told, TurnInv, Placed, Shown
  <1>14. WritesInv'
    <2>1. pushes # <<>> /\ \A p \in Range(pushes') : p.pending = <<>>
      BY <1>2, <1>5
    <2>2. (timer \/ turn.running \/ waiting # <<>>) \/ Agrees(pushes[Len(pushes)])
      BY <2>1 DEF Ready, Told, WritesInv
    <2>3. CASE timer \/ turn.running \/ waiting # <<>>
      BY <1>1, <2>1, <2>3 DEF WritesInv
    <2>4. CASE Agrees(pushes[Len(pushes)])
      <3>1. /\ Len(RemoveAt(pushes, 1)) = Len(pushes) - 1 /\ Len(pushes) \in Nat \ {0}
            /\ RemoveAt(pushes, 1) # <<>> => RemoveAt(pushes, 1)[Len(RemoveAt(pushes, 1))] = pushes[Len(pushes)]
        <4>1. 1 \in DOMAIN pushes /\ pushes \in Seq(Layouts)
          BY <1>2
        <4> QED BY <4>1, FirstRemoved
      <3>2. CASE pushes' # <<>>
        <4>1. Agrees(pushes[Len(pushes)])'
          <5>1. PICK p : p = pushes[Len(pushes)] /\ p.tree = tree /\ p.pending = <<>>
            BY <2>4 DEF Agrees
          <5>2. pushes'[Len(pushes')] = p
            BY <1>1, <1>2, <3>1, <3>2, <5>1
          <5> QED BY <1>1, <5>1, <5>2 DEF Agrees
        <4> QED BY <2>1, <3>2, <4>1 DEF WritesInv
      <3>3. CASE pushes' = <<>>
        <4>1. PICK t : t = RemoveAt(pushes, 1)
          OBVIOUS
        <4>2. t = <<>> /\ Len(t) = Len(pushes) - 1
          BY <1>1, <1>2, <3>1, <3>3, <4>1
        <4>3. Len(t) = 0
          BY <4>2
        <4>5. \A k \in Nat : k - 1 = 0 => k = 1
          OBVIOUS
        <4>6. Len(pushes) = 1
          BY <3>1, <4>2, <4>3, <4>5
        <4>4. Agrees(saved)'
          BY <1>1, <1>4, <1>6, <2>4, <4>6 DEF Agrees
        <4> QED BY <2>1, <3>3, <4>4 DEF WritesInv
      <3> QED BY <3>2, <3>3
    <2> QED BY <2>2, <2>3, <2>4
  <1> QED BY <1>8, <1>12, <1>13, <1>14 DEF Told

LEMMA FailsDisturbs == ASSUME Calm' PROVE ~UpdateObjectFails
  BY NotDisturbed DEF UpdateObjectFails

(* What the page's copy is set to, when nothing older is on its way. *)
LEMMA SetCalm ==
  ASSUME Ready, ~turn.running, NEW l \in Layouts, Fits(l), \A a \in Range(l.pending) : Sent(a),
         \A n \in News : ~(n.version < l.version), SetAtom(l),
         UNCHANGED <<processedActionIds, waiting, tree, leafs>>
  PROVE  /\ dataAtom' = l /\ TurnsKept /\ TurnsCome /\ TurnInv' /\ (~turn'.running => turn'.actions = <<>>)
         /\ \A a \in Range(l.pending) : TurnsTo(a)'
         /\ l.pending # <<>> => turn'.running
  <1>1. turn.actions = <<>> /\ page = "open" /\ Range(turn.actions) = {}
    BY RangeEmpty DEF Ready, Told, OpenInv
  <1>2. \A a : Before(a, l.version) => a \in processedActionIds
    BY <1>1 DEF Before, TurnsTo
  <1>3. /\ dataAtom' = l
        /\ \/ l.pending = <<>> /\ turn' = turn
           \/ l.pending # <<>> /\ turn'.running /\ turn'.actions = l.pending
    BY <1>1 DEF SetAtom
  <1>4. Range(turn'.actions) = Range(l.pending)
    BY <1>1, <1>3, RangeEmpty
  <1>5. TurnsKept /\ TurnsCome /\ \A a \in Range(l.pending) : TurnsTo(a)'
    BY <1>1, <1>4 DEF TurnsKept, TurnsCome, TurnsTo, Occurs, Sent
  <1>6. TurnInv'
    <2>1. \A a, c \in Range(turn'.actions) : a = c \/ a \in processedActionIds \/ c \in processedActionIds
      BY <1>2, <1>4 DEF Fits
    <2>2. \A b \in Blocks : Delete(b) \in Range(turn'.actions) => Placed(b)
      BY <1>2, <1>4 DEF Fits, Placed
    <2>3. leafs = Shown(tree) /\ \A q \in Range(waiting) : Range(q) \subseteq processedActionIds
      BY DEF Ready, Told, TurnInv
    <2> QED BY <2>1, <2>2, <2>3 DEF TurnInv, Placed, Shown
  <1> QED BY <1>1, <1>3, <1>5, <1>6

LEMMA ReceiveCalm ==
  ASSUME Ready, UpdateWaveObject PROVE Told'
  <1>1. /\ ~turn.running /\ events # <<>> /\ events' = Tail(events)
        /\ \/ dataAtom.version >= Head(events).version /\ UNCHANGED <<dataAtom, turn>>
           \/ ~(dataAtom.version >= Head(events).version) /\ SetAtom(Head(events))
        /\ UNCHANGED <<saved, live, used, handlers, pushes, answer, page, tree, leafs, mounted, waiting,
                       processedActionIds, timer>>
    BY DEF UpdateWaveObject, Yielded, server, layout
  <1>2. events \in Seq(Layouts)
    BY DEF Ready, Types, WiresOK
  <1>3. PICK n0 \in Layouts : n0 = Head(events) /\ n0 \in Range(events)
    BY <1>1, <1>2, RangeHeadTail
  <1>4. Range(events) = {n0} \cup Range(events') /\ n0 \in News
    BY <1>1, <1>2, <1>3, RangeHeadTail DEF News
  <1>5. News = {n0} \cup News'
    BY <1>1, <1>4 DEF News
  <1>6. /\ \A n \in News : n \in Layouts /\ n.version \in Nat /\ n0.version <= n.version
        /\ dataAtom.version \in Nat /\ n0.version \in Nat
    <2>1. \A n \in Range(events) : n0.version <= n.version
      BY <1>1, <1>2, <1>3, NewsOrdered, OrderedTail DEF Ready, Told
    <2>2. \A n \in News : n0.version <= n.version
      BY <1>3, <2>1 DEF Ready, Told, NewsInv, News
    <2> QED BY <1>4, <2>2, NewsType DEF Ready
  <1>7. NewsInv'
    <2>1. PICK es : es = events' /\ Ordered(es)
      BY <1>1, <1>2, NewsOrdered, OrderedTail DEF Ready, Told
    <2>2. \A i, j \in DOMAIN events' : i <= j => events'[i].version <= events'[j].version
      BY <2>1 DEF Ordered
    <2> QED BY <1>1, <1>4, <1>5, <2>2 DEF Ready, Told, NewsInv
  <1>8. ASSUME dataAtom.version >= n0.version, UNCHANGED <<dataAtom, turn>>
        PROVE  /\ TurnsKept /\ NewsKept /\ TurnsCome /\ ArrivedInv' /\ TurnInv' /\ WritesInv'
               /\ (~turn'.running => turn'.actions = <<>>)
    <2>1. n0.version <= dataAtom.version
      BY <1>6, <1>8
    <2>2. TurnsKept /\ TurnsCome /\ \A a : TurnsTo(a)' = TurnsTo(a)
      BY <1>1, <1>8, TurnStays
    <2>3. NewsKept
      BY <1>4, <1>5, <2>1, <2>2 DEF NewsKept, Ready, Told, ArrivedInv
    <2>4. ArrivedInv'
      BY <1>5, <1>8, <2>2 DEF Ready, Told, ArrivedInv
    <2>5. TurnInv'
      BY <1>1, <1>8 DEF Ready, Told, TurnInv, Placed, Shown
    <2>6. \A n \in News : n.version > dataAtom.version => n \in News'
      <3>1. ~(n0.version > dataAtom.version)
        BY <1>6, <1>8
      <3> QED BY <1>5, <3>1
    <2>7. WritesInv'
      BY <1>1, <1>8, <2>6 DEF Ready, Told, WritesInv, Agrees
    <2> QED BY <1>8, <2>2, <2>3, <2>4, <2>5, <2>7 DEF Ready, Told, OpenInv
  <1>9. ASSUME SetAtom(n0)
        PROVE  /\ TurnsKept /\ NewsKept /\ TurnsCome /\ ArrivedInv' /\ TurnInv' /\ WritesInv'
               /\ (~turn'.running => turn'.actions = <<>>)
    <2>1. \A n \in News : ~(n.version < n0.version)
      BY <1>6
    <2>2. Fits(n0) /\ \A a \in Range(n0.pending) : Sent(a)
      BY <1>4 DEF Ready, Told, FitsInv, Sent
    <2>3. /\ dataAtom' = n0 /\ TurnsKept /\ TurnsCome /\ TurnInv' /\ (~turn'.running => turn'.actions = <<>>)
          /\ \A a \in Range(n0.pending) : TurnsTo(a)'
          /\ n0.pending # <<>> => turn'.running
      BY <1>1, <1>9, <2>1, <2>2, SetCalm
    <2>4. turn'.running
      BY <1>4, <2>3 DEF Ready, Told, NewsInv
    <2>5. \A n \in News : n.version <= n0.version => n = n0
      <3>1. \A n \in News : n.version <= n0.version => n.version = n0.version
        BY <1>6
      <3> QED BY <1>4, <3>1 DEF Ready, Told, NewsInv
    <2>6. NewsKept
      BY <1>5, <2>3 DEF NewsKept
    <2>7. ArrivedInv'
      BY <1>5, <2>3, <2>5 DEF ArrivedInv
    <2>8. WritesInv'
      BY <1>1, <2>4 DEF Ready, Told, WritesInv
    <2> QED BY <2>3, <2>6, <2>7, <2>8
  <1>10. /\ TurnsKept /\ NewsKept /\ TurnsCome /\ ArrivedInv' /\ TurnInv' /\ WritesInv'
         /\ (~turn'.running => turn'.actions = <<>>)
    BY <1>1, <1>3, <1>8, <1>9
  <1>11. NewsCome /\ SameActions
    BY <1>1, <1>5 DEF NewsCome, SameActions
  <1>12. SameOccur
    BY <1>10, <1>11, OccursSame
  <1>13. OpenInv' /\ FitsInv' /\ DraftsInv' /\ OccursInv' /\ ShownInv'
    BY <1>1, <1>5, <1>10, <1>12, FitsKeep, DraftsKeep, OccursKeep, ShownKeep DEF Ready, Told, OpenInv
  <1> QED BY <1>7, <1>10, <1>13 DEF Told

LEMMA AnswerCalm ==
  ASSUME Ready, Calm', ReloadAnswers PROVE Told'
  <1>1. /\ ~turn.running /\ answer.version > 0 /\ SetAtom(answer) /\ answer' = NoLayout
        /\ UNCHANGED <<saved, live, used, handlers, events, pushes, page, tree, leafs, mounted, waiting,
                       processedActionIds, timer>>
    BY DEF ReloadAnswers, Yielded, server, layout
  <1>2. \A n \in News : ~(n.version < answer.version)
    <2>1. Disturbs("overtaken", Overtakes(answer.version))
      BY DEF ReloadAnswers
    <2>2. ~Overtakes(answer.version)
      BY <2>1, NotDisturbed
    <2>3. \A n \in Range(events) : \E i \in DOMAIN events : events[i] = n
      BY DEF Range
    <2> QED BY <2>2, <2>3 DEF Overtakes, News
  <1>3. PICK l \in Layouts : l = answer
    BY NewsType DEF Ready
  <1>4. Fits(l) /\ \A a \in Range(l.pending) : Sent(a)
    BY <1>3 DEF Ready, Told, FitsInv, Known
  <1>5. /\ dataAtom' = l /\ TurnsKept /\ TurnsCome /\ TurnInv' /\ (~turn'.running => turn'.actions = <<>>)
        /\ \A a \in Range(l.pending) : TurnsTo(a)'
        /\ l.pending # <<>> => turn'.running
    BY <1>1, <1>2, <1>3, <1>4, SetCalm
  <1>6. News' = News /\ NewsInv'
    BY <1>1, NewsStay DEF Ready, Told
  <1>7. NewsKept /\ NewsCome /\ SameActions
    BY <1>1, <1>6 DEF NewsKept, NewsCome, SameActions
  <1>8. SameOccur
    BY <1>5, <1>7, OccursSame
  <1>9. \A n \in News : n.version <= l.version => n = l
    <2>1. \A n \in News : n.version <= answer.version => n.version = answer.version
      BY <1>2, NewsType DEF Ready
    <2> QED BY <1>1, <1>3, <2>1 DEF Ready, Told, NewsInv
  <1>10. ArrivedInv'
    BY <1>5, <1>6, <1>9 DEF ArrivedInv
  <1>11. WritesInv'
    <2>1. CASE l.pending # <<>>
      BY <1>1, <1>5, <2>1 DEF Ready, Told, WritesInv
    <2>2. CASE l.pending = <<>>
      <3>1. \A n \in News : n # l
        BY <2>2 DEF Ready, Told, NewsInv
      <3>2. \A n \in News : n.version > l.version
        BY <1>3, <1>9, <3>1, NewsType DEF Ready
      <3>3. turn' = turn
        BY <1>1, <1>3, <2>2 DEF SetAtom
      <3> QED BY <1>1, <1>5, <1>6, <3>2, <3>3 DEF Ready, Told, WritesInv, Agrees
    <2> QED BY <2>1, <2>2
  <1>12. OpenInv' /\ FitsInv' /\ DraftsInv' /\ OccursInv' /\ ShownInv'
    BY <1>1, <1>5, <1>6, <1>7, <1>8, FitsKeep, DraftsKeep, OccursKeep, ShownKeep DEF Ready, Told, OpenInv
  <1> QED BY <1>5, <1>6, <1>10, <1>11, <1>12 DEF Told

LEMMA BatchRest ==
  ASSUME Ready, TurnsKept, TurnsCome, UNCHANGED <<saved, live, used, events, pushes, answer, handlers, dataAtom>>
  PROVE  /\ News' = News /\ NewsInv' /\ FitsInv' /\ DraftsInv' /\ ArrivedInv' /\ OccursInv' /\ SameOccur
  <1>1. News' = News /\ NewsInv'
    BY NewsStay DEF Ready, Told
  <1>2. NewsKept /\ NewsCome /\ SameActions
    BY <1>1 DEF NewsKept, NewsCome, SameActions
  <1>3. SameOccur
    BY <1>2, OccursSame
  <1> QED BY <1>1, <1>2, <1>3, FitsKeep, DraftsKeep, ArrivedKeep, OccursKeep DEF Ready, Told

LEMMA BatchKeeps ==
  ASSUME SkipProcessed \/ HandleInsert \/ HandleDelete \/ BatchEnds \/ \E i \in DOMAIN waiting : BatchResumes(i)
  PROVE  UNCHANGED <<saved, live, used, events, pushes, answer, handlers, dataAtom, page, mounted>>
  BY DEF SkipProcessed, HandleInsert, HandleDelete, BatchEnds, BatchResumes, server, wires, layout

LEMMA SkipCalm ==
  ASSUME Ready, SkipProcessed PROVE Told'
  <1>1. Handle /\ GoesOn /\ Head(turn.actions) \in processedActionIds
        /\ UNCHANGED <<tree, leafs, waiting, processedActionIds, timer>>
    BY DEF SkipProcessed, GoesOn, layout
  <1>2. /\ turn'.running /\ Range(turn.actions) = {Head(turn.actions)} \cup Range(turn'.actions)
    BY <1>1, TurnGoesOn DEF Ready, Types, BatchesOK
  <1>3. TurnsKept /\ TurnsCome
    BY <1>1, <1>2 DEF TurnsKept, TurnsCome, TurnsTo, Occurs, Sent
  <1>4. UNCHANGED <<saved, live, used, events, pushes, answer, handlers, dataAtom, page, mounted>>
    BY BatchKeeps
  <1>5. News' = News /\ NewsInv' /\ FitsInv' /\ DraftsInv' /\ ArrivedInv' /\ OccursInv' /\ SameOccur
    BY <1>3, <1>4, BatchRest
  <1>6. TurnInv'
    BY <1>1, <1>2 DEF Ready, Told, TurnInv, Placed, Shown
  <1>7. OpenInv' /\ ShownInv' /\ WritesInv'
    BY <1>1, <1>2, <1>4, <1>5, ShownKeep DEF Ready, Told, OpenInv, WritesInv
  <1> QED BY <1>5, <1>6, <1>7 DEF Told

(* What is handled is the one action of the batch that the page does not know. *)
LEMMA OneIsHandled ==
  ASSUME Ready, Handle, Head(turn.actions) \notin processedActionIds
  PROVE  /\ Head(turn.actions) \in Actions /\ Tail(turn.actions) \in Seq(Actions)
         /\ Head(turn.actions) \in Range(turn.actions)
         /\ Range(turn.actions) = {Head(turn.actions)} \cup Range(Tail(turn.actions))
         /\ Range(Tail(turn.actions)) \subseteq processedActionIds \cup {Head(turn.actions)}
         /\ leafs = Shown(tree) /\ Occurs(Head(turn.actions))
         /\ (GoesOn => turn'.running /\ turn'.actions = Tail(turn.actions))
  <1>1. /\ Head(turn.actions) \in Actions /\ Tail(turn.actions) \in Seq(Actions)
        /\ Range(turn.actions) = {Head(turn.actions)} \cup Range(Tail(turn.actions))
        /\ (GoesOn => turn'.running /\ turn'.actions = Tail(turn.actions))
    BY TurnGoesOn DEF Ready, Types, BatchesOK
  <1>2. Head(turn.actions) \in Range(turn.actions)
    BY <1>1
  <1> QED BY <1>1, <1>2 DEF Ready, Told, TurnInv, Occurs, Sent, TurnsTo

LEMMA InsertCalm ==
  ASSUME Ready, HandleInsert PROVE Told'
  <1>1. /\ Handle /\ Head(turn.actions) \notin processedActionIds /\ Head(turn.actions).op = "insert"
        /\ processedActionIds' = processedActionIds \cup {Head(turn.actions)} /\ GoesOn
        /\ tree' = [tree EXCEPT ![Head(turn.actions).block] = @ + 1]
        /\ UNCHANGED <<leafs, waiting, timer>>
    BY DEF HandleInsert, Processed, GoesOn
  <1>2. PICK b \in Blocks : b = Head(turn.actions).block /\ Head(turn.actions) = Insert(b)
    BY <1>1, OneIsHandled, ActionKinds
  <1>3. /\ Range(turn.actions) = {Insert(b)} \cup Range(turn'.actions) /\ turn'.running
        /\ Range(turn'.actions) \subseteq processedActionIds'
        /\ processedActionIds' = processedActionIds \cup {Insert(b)}
        /\ Occurs(Insert(b)) /\ Insert(b) \notin processedActionIds
    BY <1>1, <1>2, OneIsHandled
  <1>4. TurnsKept /\ TurnsCome
    BY <1>3 DEF TurnsKept, TurnsCome, TurnsTo, Occurs, Sent
  <1>5. UNCHANGED <<saved, live, used, events, pushes, answer, handlers, dataAtom, page, mounted>>
    BY BatchKeeps
  <1>6. News' = News /\ NewsInv' /\ FitsInv' /\ DraftsInv' /\ ArrivedInv' /\ OccursInv' /\ SameOccur
    BY <1>4, <1>5, BatchRest
  <1>7. /\ \A c \in Blocks : c # b => tree'[c] = tree[c]
        /\ tree'[b] > 0 /\ tree'[b] \in Nat
    <2>1. tree \in Trees
      BY DEF Ready, Types, PageOK
    <2> QED BY <1>1, <1>2, <2>1 DEF Trees
  <1>8. /\ \A c \in Blocks : Placed(c)' <=> Placed(c) \/ c = b
        /\ \A c \in Blocks : Delete(c) \in processedActionIds' => Delete(c) \in processedActionIds
        /\ b \in used \ Start /\ ~Placed(b)
    <2>1. \A c \in Blocks : Insert(c) = Insert(b) => c = b
      BY DeleteType
    <2>2. \A c \in Blocks : Delete(c) # Insert(b)
      BY DeleteType
    <2>3. b \in used \ Start
      BY <1>3 DEF Ready, Told, OccursInv
    <2> QED BY <1>3, <2>1, <2>2, <2>3 DEF Placed
  <1>9. TurnInv'
    BY <1>1, <1>3, <1>8 DEF Ready, Told, TurnInv
  <1>10. ShownInv'
    <2>1. \A c \in Blocks : tree[c] > 0 => Placed(c)
      BY DEF Ready, Told, ShownInv
    <2>2. \A c \in Blocks : c # b => /\ c \in live /\ Placed(c) => tree[c] > 0
                                     /\ c \in used \ live => \/ Placed(c) /\ tree[c] = 0
                                                             \/ Occurs(Delete(c))
                                                                /\ Delete(c) \notin processedActionIds
      BY DEF Ready, Told, ShownInv
    <2>3. b \in used \ live => Occurs(Delete(b)) /\ Delete(b) \notin processedActionIds
      BY <1>8 DEF Ready, Told, ShownInv
    <2>4. \A c \in Blocks : Occurs(Delete(c))' <=> Occurs(Delete(c))
      BY <1>6 DEF SameOccur
    <2> QED BY <1>5, <1>7, <1>8, <2>1, <2>2, <2>3, <2>4 DEF ShownInv
  <1>11. OpenInv' /\ WritesInv'
    BY <1>1, <1>3, <1>5 DEF Ready, Told, OpenInv, WritesInv
  <1> QED BY <1>6, <1>9, <1>10, <1>11 DEF Told

(* A block to be deleted has been placed before: closeNode finds it, unless   *)
(* the user has closed it. *)
LEMMA DeleteCalm ==
  ASSUME Ready, HandleDelete PROVE Told'
  <1>1. /\ Handle /\ Head(turn.actions) \notin processedActionIds /\ Head(turn.actions).op = "delete"
        /\ processedActionIds' = processedActionIds \cup {Head(turn.actions)}
    BY DEF HandleDelete, Processed
  <1>2. PICK b \in Blocks : b = Head(turn.actions).block /\ Head(turn.actions) = Delete(b)
    BY <1>1, OneIsHandled, ActionKinds
  <1>3. /\ Range(turn.actions) = {Delete(b)} \cup Range(Tail(turn.actions))
        /\ Range(Tail(turn.actions)) \subseteq processedActionIds'
        /\ processedActionIds' = processedActionIds \cup {Delete(b)}
        /\ Occurs(Delete(b)) /\ Delete(b) \notin processedActionIds
        /\ leafs = Shown(tree) /\ Tail(turn.actions) \in Seq(Actions)
    BY <1>1, <1>2, OneIsHandled
  <1>4. \/ /\ b \in leafs /\ tree' = [tree EXCEPT ![b] = 0] /\ leafs' = Shown(tree') /\ timer' = TRUE
           /\ turn' = Idle /\ waiting' = Append(waiting, Tail(turn.actions))
        \/ /\ b \notin leafs /\ GoesOn /\ UNCHANGED <<tree, leafs, timer>>
    BY <1>2 DEF HandleDelete
  <1>5. tree \in Trees
    BY DEF Ready, Types, PageOK
  <1>6. tree'[b] = 0 /\ \A c \in Blocks : c # b => tree'[c] = tree[c]
    <2>1. CASE tree' = [tree EXCEPT ![b] = 0]
      BY <1>5, <2>1 DEF Trees
    <2>2. CASE b \notin leafs /\ tree' = tree
      <3>1. ~(tree[b] > 0) /\ tree[b] \in Nat
        BY <1>3, <1>5, <2>2 DEF Shown, Trees
      <3> QED BY <2>2, <3>1
    <2> QED BY <1>4, <2>1, <2>2
  <1>7. /\ \/ turn' = Idle /\ leafs' = Shown(tree') /\ timer' = TRUE /\ waiting' = Append(waiting, Tail(turn.actions))
           \/ turn'.running /\ turn'.actions = Tail(turn.actions) /\ UNCHANGED <<tree, leafs, timer, waiting>>
        /\ turn'.running => turn'.actions = Tail(turn.actions)
        /\ Range(turn'.actions) \subseteq Range(Tail(turn.actions)) /\ (~turn'.running => turn'.actions = <<>>)
    <2>1. CASE turn' = Idle
      <3>1. turn'.running = FALSE /\ turn'.actions = <<>>
        BY <2>1, IdleRests
      <3>2. ~GoesOn
        BY <1>1, <3>1, OneIsHandled
      <3> QED BY <1>4, <2>1, <3>1, <3>2, RangeEmpty
    <2>2. CASE GoesOn /\ UNCHANGED <<tree, leafs, timer>>
      <3>1. turn'.running /\ turn'.actions = Tail(turn.actions) /\ waiting' = waiting
        BY <1>1, <2>2, OneIsHandled DEF GoesOn
      <3> QED BY <2>2, <3>1
    <2> QED BY <1>4, <2>1, <2>2
  <1>8. TurnsKept /\ TurnsCome
    BY <1>3, <1>7 DEF TurnsKept, TurnsCome, TurnsTo, Occurs, Sent
  <1>9. UNCHANGED <<saved, live, used, events, pushes, answer, handlers, dataAtom, page, mounted>>
    BY BatchKeeps
  <1>10. News' = News /\ NewsInv' /\ FitsInv' /\ DraftsInv' /\ ArrivedInv' /\ OccursInv' /\ SameOccur
    BY <1>8, <1>9, BatchRest
  <1>11. \A c \in Blocks : /\ Placed(c)' <=> Placed(c)
                           /\ Delete(c) \in processedActionIds' <=> Delete(c) \in processedActionIds \/ c = b
    <2>1. \A c \in Blocks : (Delete(c) = Delete(b) <=> c = b) /\ Insert(c) # Delete(b)
      BY DeleteType
    <2> QED BY <1>3, <2>1 DEF Placed
  <1>12. Placed(b) /\ b \in used \ live
    BY <1>3 DEF Ready, Told, TurnInv, OccursInv
  <1>13. \A q \in Range(waiting') : Range(q) \subseteq processedActionIds'
    <2>1. Range(Append(waiting, Tail(turn.actions))) = Range(waiting) \cup {Tail(turn.actions)}
      <3>1. waiting \in Seq(Seq(Actions)) /\ Tail(turn.actions) \in Seq(Actions)
        BY <1>3 DEF Ready, Types, BatchesOK
      <3>2. PICK Q : Q = Seq(Actions)
        OBVIOUS
      <3>3. PICK q \in Q, w \in Seq(Q) : w = waiting /\ q = Tail(turn.actions)
        BY <3>1, <3>2
      <3>4. Range(Append(w, q)) = Range(w) \cup {q}
        BY RangeAppend
      <3> QED BY <3>3, <3>4
    <2>2. \A q \in Range(waiting') : q \in Range(waiting) \/ q = Tail(turn.actions)
      BY <1>7, <2>1
    <2> QED BY <1>3, <2>2 DEF Ready, Told, TurnInv
  <1>14. TurnInv'
    <2>1. leafs' = Shown(tree') \/ (turn'.running /\ Range(turn'.actions) \subseteq processedActionIds')
      BY <1>3, <1>7
    <2>2. \A c \in Blocks : Delete(c) \in Range(turn'.actions) => Placed(c)'
      BY <1>3, <1>7, <1>11 DEF Ready, Told, TurnInv
    <2>3. \A a, c \in Range(turn'.actions) : a = c \/ a \in processedActionIds' \/ c \in processedActionIds'
      BY <1>3, <1>7
    <2> QED BY <1>13, <2>1, <2>2, <2>3 DEF TurnInv, Shown
  <1>15. ShownInv'
    <2>1. \A c \in Blocks : c # b => /\ tree[c] > 0 => Placed(c)
                                     /\ c \in live /\ Placed(c) => tree[c] > 0
                                     /\ c \in used \ live => \/ Placed(c) /\ tree[c] = 0
                                                             \/ Occurs(Delete(c))
                                                                /\ Delete(c) \notin processedActionIds
      BY DEF Ready, Told, ShownInv
    <2>2. \A c \in Blocks : Occurs(Delete(c))' <=> Occurs(Delete(c))
      BY <1>10 DEF SameOccur
    <2> QED BY <1>6, <1>9, <1>11, <1>12, <2>1, <2>2 DEF ShownInv
  <1>16. WritesInv'
    <2>1. timer' \/ turn'.running
      BY <1>7
    <2> QED BY <1>9, <2>1 DEF Ready, Told, WritesInv
  <1>17. OpenInv'
    BY <1>7, <1>9 DEF Ready, Told, OpenInv
  <1> QED BY <1>10, <1>14, <1>15, <1>16, <1>17 DEF Told

LEMMA ResumeCalm ==
  ASSUME Ready, NEW i \in DOMAIN waiting, BatchResumes(i) PROVE Told'
  <1>1. /\ ~turn.running /\ waiting' = RemoveAt(waiting, i) /\ turn' = [running |-> TRUE, actions |-> waiting[i]]
        /\ UNCHANGED <<tree, leafs, processedActionIds, timer>>
    BY DEF BatchResumes, Yielded, layout
  <1>2. /\ Range(waiting') \subseteq Range(waiting) /\ waiting[i] \in Range(waiting)
    <2>1. waiting \in Seq(Seq(Actions))
      BY DEF Ready, Types, BatchesOK
    <2> QED BY <1>1, <2>1, RangeRemoveAt
  <1>3. turn'.running /\ Range(turn'.actions) \subseteq processedActionIds /\ Range(turn.actions) = {}
    <2>1. turn'.running /\ turn'.actions = waiting[i]
      BY <1>1
    <2> QED BY <1>1, <1>2, <2>1, RangeEmpty DEF Ready, Told, TurnInv, OpenInv
  <1>4. TurnsKept /\ TurnsCome
    BY <1>1, <1>3 DEF TurnsKept, TurnsCome, TurnsTo, Occurs, Sent
  <1>5. UNCHANGED <<saved, live, used, events, pushes, answer, handlers, dataAtom, page, mounted>>
    BY BatchKeeps
  <1>6. News' = News /\ NewsInv' /\ FitsInv' /\ DraftsInv' /\ ArrivedInv' /\ OccursInv' /\ SameOccur
    BY <1>4, <1>5, BatchRest
  <1>7. TurnInv'
    <2>1. \A b \in Blocks : Delete(b) \in Range(turn'.actions) => Placed(b)'
      <3> SUFFICES ASSUME NEW b \in Blocks, Delete(b) \in Range(turn'.actions) PROVE Placed(b)'
        OBVIOUS
      <3>1. Delete(b) \in processedActionIds
        BY <1>3
      <3>2. b \in used \ live
        BY <3>1 DEF Ready, Told, OccursInv, Occurs, Sent, TurnsTo
      <3>3. Placed(b)
        BY <3>1, <3>2 DEF Ready, Told, ShownInv
      <3> QED BY <1>1, <3>3 DEF Placed
    <2> QED BY <1>1, <1>2, <1>3, <2>1 DEF Ready, Told, TurnInv, Shown
  <1>8. OpenInv' /\ ShownInv' /\ WritesInv'
    BY <1>1, <1>3, <1>5, <1>6, ShownKeep DEF Ready, Told, OpenInv, WritesInv
  <1> QED BY <1>6, <1>7, <1>8 DEF Told

LEMMA EndCalm ==
  ASSUME Ready, BatchEnds PROVE Told'
  <1>1. /\ turn.actions = <<>> /\ turn' = Idle /\ timer' = TRUE /\ leafs' = Shown(tree)
        /\ UNCHANGED <<tree, waiting, processedActionIds>>
    BY DEF BatchEnds, Ready, Told, OpenInv
  <1>2. turn'.running = FALSE /\ turn'.actions = <<>> /\ Range(turn.actions) = {} /\ Range(turn'.actions) = {}
    BY <1>1, IdleRests, RangeEmpty
  <1>3. TurnsKept /\ TurnsCome
    BY <1>1, <1>2 DEF TurnsKept, TurnsCome, TurnsTo, Occurs, Sent
  <1>4. UNCHANGED <<saved, live, used, events, pushes, answer, handlers, dataAtom, page, mounted>>
    BY BatchKeeps
  <1>5. News' = News /\ NewsInv' /\ FitsInv' /\ DraftsInv' /\ ArrivedInv' /\ OccursInv' /\ SameOccur
    BY <1>3, <1>4, BatchRest
  <1>6. TurnInv'
    BY <1>1, <1>2 DEF Ready, Told, TurnInv, Shown
  <1>7. OpenInv' /\ ShownInv' /\ WritesInv'
    BY <1>1, <1>2, <1>4, <1>5, ShownKeep DEF Ready, Told, OpenInv, WritesInv
  <1> QED BY <1>5, <1>6, <1>7 DEF Told

(* The page saves what it shows. *)
LEMMA PersistCalm ==
  ASSUME Ready, PersistToBackend PROVE Told'
  <1>1. /\ ~turn.running /\ dataAtom' = Layout(tree, <<>>, dataAtom.version)
        /\ pushes' = Append(pushes, [dataAtom' EXCEPT !.version = 0])
        /\ UNCHANGED <<saved, live, used, handlers, events, answer, page, tree, leafs, mounted, turn, waiting,
                       processedActionIds>>
    BY DEF PersistToBackend, Yielded, server, layout, batches
  <1>2. tree \in Trees /\ dataAtom.version \in Nat /\ <<>> \in Seq(Actions) /\ pushes \in Seq(Layouts)
    BY LayoutParts DEF Ready, Types, PageOK, WiresOK
  <1>3. PICK l \in Layouts : l = dataAtom' /\ l.tree = tree /\ l.pending = <<>> /\ l.version = dataAtom.version
    <2>1. PICK t \in Trees, q \in Seq(Actions), v \in Nat : t = tree /\ q = <<>> /\ v = dataAtom.version
      BY <1>2
    <2>2. /\ Layout(t, q, v) \in Layouts /\ Layout(t, q, v).tree = t /\ Layout(t, q, v).pending = q
          /\ Layout(t, q, v).version = v
      BY LayoutType
    <2> QED BY <1>1, <2>1, <2>2
  <1>4. PICK p \in Layouts : p = [l EXCEPT !.version = 0] /\ p.tree = tree /\ p.pending = <<>>
    <2>1. /\ [l EXCEPT !.version = 0] \in Layouts /\ [l EXCEPT !.version = 0].tree = l.tree
          /\ [l EXCEPT !.version = 0].pending = l.pending
      BY Renumbered
    <2> QED BY <1>3, <2>1
  <1>5. pushes' = Append(pushes, p)
    BY <1>1, <1>3, <1>4
  <1>6. /\ Range(pushes') = Range(pushes) \cup {p} /\ pushes' # <<>> /\ pushes'[Len(pushes')] = p
    <2>1. Range(Append(pushes, p)) = Range(pushes) \cup {p}
      BY <1>2, RangeAppend
    <2>2. Append(pushes, p) # <<>> /\ Append(pushes, p)[Len(Append(pushes, p))] = p
      BY <1>2, AppendProperties
    <2> QED BY <1>5, <2>1, <2>2
  <1>7. TurnsKept /\ TurnsCome
    BY <1>1, TurnStays
  <1>8. News' = News
    BY <1>1 DEF News
  <1>9. NewsKept /\ NewsCome /\ SameActions
    BY <1>1, <1>8 DEF NewsKept, NewsCome, SameActions
  <1>10. SameOccur
    BY <1>7, <1>9, OccursSame
  <1>11. NewsInv'
    BY <1>1, NewsStay DEF Ready, Told
  <1>12. ArrivedInv'
    <2>1. dataAtom'.version = dataAtom.version
      BY <1>3
    <2> QED BY <1>7, <1>8, <2>1, ArrivedKeep DEF Ready, Told
  <1>13. OpenInv' /\ FitsInv' /\ DraftsInv' /\ OccursInv' /\ ShownInv'
    BY <1>1, <1>7, <1>8, <1>9, <1>10, FitsKeep, DraftsKeep, OccursKeep, ShownKeep DEF Ready, Told, OpenInv
  <1>14. TurnInv'
    BY <1>1 DEF Ready, Told, TurnInv, Placed, Shown
  <1>15. WritesInv'
    <2>1. Agrees(p)'
      BY <1>1, <1>4 DEF Agrees
    <2>2. Agrees(pushes[Len(pushes)])'
      BY <1>6, <2>1 DEF Agrees
    <2> QED BY <1>4, <1>6, <2>2 DEF Ready, Told, WritesInv
  <1> QED BY <1>11, <1>12, <1>13, <1>14, <1>15 DEF Told

LEMMA OpenStays ==
  ASSUME Ready, Calm' PROVE ~(GetObject \/ Reload \/ InitializeFromWaveObject \/ Mount)
  <1>1. page = "open" /\ mounted
    BY DEF Ready, Told, OpenInv
  <1>2. ~Reload
    <2> SUFFICES ASSUME Reload PROVE FALSE
      OBVIOUS
    <2>1. Disturbs("reload", TRUE)
      BY DEF Reload
    <2> QED BY <2>1, NotDisturbed
  <1> QED BY <1>1, <1>2 DEF GetObject, InitializeFromWaveObject, Mount

LEMMA CalmKept == Types /\ VersionInv /\ CalmInv /\ [Next]_vars => CalmInv'
  <1> SUFFICES ASSUME Types, VersionInv, CalmInv, [Next]_vars, Calm' PROVE Told'
    BY DEF CalmInv
  <1>1. Ready
    BY HistoryGrows DEF CalmInv, Calm, Ready
  <1>2. CASE UNCHANGED vars
    BY <1>1, <1>2 DEF vars, server, wires, layout, batches, Ready, Told, OpenInv, NewsInv, FitsInv, DraftsInv,
       ArrivedInv, TurnInv, OccursInv, ShownInv, WritesInv, Fits, Known, Drafted, Before, Sent, Occurs, TurnsTo,
       News, Placed, Shown, Agrees
  <1>3. CASE Next
    <2>1. \A b \in Blocks : CreateBlock(b) \/ DeleteBlock(b) \/ CloseBlock(b) => Told'
      BY <1>1, BlocksCalm, CloseCalm
    <2>2. \A h \in handlers : QueueReads(h) \/ QueueWrites(h) \/ Publish(h) => Told'
      BY <1>1, ReadCalm, WriteCalm, PublishCalm
    <2>3. (\E i \in DOMAIN pushes : UpdateObject(i)) \/ UpdateObjectFails => Told'
      BY <1>1, UpdateCalm, FailsDisturbs
    <2>4. UpdateWaveObject \/ ReloadWaveObject \/ ReloadAnswers \/ PersistToBackend => Told'
      BY <1>1, ReceiveCalm, AskCalm, AnswerCalm, PersistCalm
    <2>5. SkipProcessed \/ HandleInsert \/ HandleDelete \/ BatchEnds
          \/ (\E i \in DOMAIN waiting : BatchResumes(i)) => Told'
      BY <1>1, SkipCalm, InsertCalm, DeleteCalm, EndCalm, ResumeCalm
    <2>6. ~(GetObject \/ Reload \/ InitializeFromWaveObject \/ Mount)
      BY <1>1, OpenStays
    <2> QED BY <1>3, <2>1, <2>2, <2>3, <2>4, <2>5, <2>6 DEF Next
  <1> QED BY <1>2, <1>3

LEMMA CalmHolds == Init => CalmInv
  <1> SUFFICES ASSUME Init PROVE Told
    BY DEF CalmInv
  <1>1. /\ live = Start /\ used = Start /\ handlers = {} /\ events = <<>> /\ pushes = <<>> /\ answer = NoLayout
        /\ page = "open" /\ tree = saved.tree /\ leafs = Start /\ mounted = TRUE
        /\ processedActionIds = {} /\ turn = Idle /\ waiting = <<>>
        /\ saved.tree = Showing(Start) /\ saved.pending = <<>>
    BY DEF Init, Layout
  <1>2. /\ News = {} /\ Range(saved.pending) = {} /\ Range(answer.pending) = {} /\ Range(turn.actions) = {}
        /\ Range(waiting) = {} /\ Range(pushes) = {} /\ turn.actions = <<>>
    BY <1>1, RangeEmpty, IdleRests, NoLayoutShows DEF News
  <1>3. \A a : ~Occurs(a) /\ ~Sent(a)
    BY <1>1, <1>2 DEF Occurs, Sent, TurnsTo
  <1>4. (\A b \in Blocks : tree[b] = IF b \in Start THEN 1 ELSE 0) /\ Start \subseteq Blocks
    BY <1>1, SyncAssumption DEF Showing
  <1>5. leafs = Shown(tree)
    BY <1>1, <1>4 DEF Shown
  <1>6. OpenInv /\ NewsInv /\ DraftsInv /\ ArrivedInv
    BY <1>1, <1>2, RangeEmpty DEF OpenInv, NewsInv, DraftsInv, ArrivedInv
  <1>7. FitsInv
    BY <1>2 DEF FitsInv, Fits, Known
  <1>8. TurnInv
    BY <1>2, <1>5 DEF TurnInv
  <1>9. OccursInv /\ ShownInv
    BY <1>1, <1>3, <1>4 DEF OccursInv, ShownInv, Placed
  <1>10. WritesInv
    BY <1>1, <1>2 DEF WritesInv, Agrees
  <1> QED BY <1>6, <1>7, <1>8, <1>9, <1>10 DEF Told

(* Once all has settled, page and server show the blocks that exist and no    *)
(* action is queued: though handlers overwrite the page's layouts and the     *)
(* page the queue, the page knows of each action in time (no batch brings it  *)
(* two that it does not know, nor a deletion before the insertion), and it    *)
(* saves what it shows after each batch.                                      *)
THEOREM SettledCorrect == Spec => []SettledAgrees
  <1>1. SyncInv /\ CalmInv => SettledAgrees
    <2> SUFFICES ASSUME Types, Told, Settled
                 PROVE  Shown(tree) = live /\ saved.tree = tree /\ saved.pending = <<>>
      BY DEF SyncInv, CalmInv, Calm, SettledAgrees
    <2>1. /\ ~turn.running /\ waiting = <<>> /\ ~timer /\ handlers = {} /\ events = <<>> /\ pushes = <<>>
      BY DEF Settled, Yielded
    <2>2. News = {} /\ Range(turn.actions) = {}
      BY <2>1, RangeEmpty DEF Told, OpenInv, News
    <2>3. \A a : Occurs(a) => a \in processedActionIds
      BY <2>1, <2>2 DEF Occurs, Sent, TurnsTo
    <2>4. saved.tree = tree /\ saved.pending = <<>>
      BY <2>1, <2>2 DEF Told, WritesInv, Agrees
    <2>5. live \subseteq used /\ used \subseteq Blocks /\ Start \subseteq used
      BY DEF Types, ServerOK, Told, OpenInv
    <2>6. \A b \in Blocks : b \in used => Placed(b)
      BY <2>3 DEF Told, OccursInv, Placed
    <2>7. \A b \in Blocks : Placed(b) => b \in used
      BY <2>5 DEF Told, OccursInv, Placed, Occurs, Sent, TurnsTo
    <2>8. \A b \in Blocks : tree[b] > 0 <=> b \in live
      BY <2>3, <2>5, <2>6, <2>7 DEF Told, ShownInv
    <2> QED BY <2>4, <2>5, <2>8 DEF Shown
  <1>2. SyncInv => Types /\ VersionInv
    BY DEF SyncInv
  <1> QED BY <1>1, <1>2, CalmHolds, CalmKept, InvHolds, PTL DEF Spec
=============================================================================
