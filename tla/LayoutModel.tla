---------------------------- MODULE LayoutModel -----------------------------
(* The layout of one tab (layoutModel.ts): the tree, a drag that is computed *)
(* on one tree and committed on another, the actions the server queues, and  *)
(* the blocks that belong to the tab.  A function of the page runs to its    *)
(* end, or to an await, before another starts; what it has done when it      *)
(* throws stays done.  Sizes, focus, magnification, ephemeral and hidden     *)
(* blocks are left out, and so are gestures on a tree with a hole.           *)
(* A node's id is a fresh UUID: here, the smallest number nothing refers to.  *)
EXTENDS LayoutNode, FiniteSets

CONSTANTS Blocks,      \* the blocks that can be in the tab
          Saved,       \* the layouts it is saved with
          MaxCreated,  \* bound on the blocks it has ever had
          IndexArrs,   \* where the server asks for blocks by index
          Splits,      \* how a block is split: direction and position
          DropSides,   \* the places of a tile something is dropped at
          MaxUnderWay, \* bound on what waits at once
          MaxGestures  \* bound on how often the user merges, restores or drags

ASSUME LayoutModelAssumption ==
  /\ MaxCreated \in Nat /\ MaxUnderWay \in Nat /\ MaxGestures \in Nat /\ DropSides \subseteq Sides
  /\ Splits \subseteq [dir : {"row", "column"}, position : {"before", "after"}]

VARIABLES
  root,                  \* treeState.rootNode
  leafs,                 \* of the leafs atom: the ids of those that are nodes of the tree,
  detached,              \* and those that are not: copies the tree no longer uses
  mounted,               \* the layout is on the page
  pendingTreeAction,     \* what dropping now would do
  pendingInlineTabDrop,  \* and for a block dragged out of a group
  dragging,              \* what the user holds: "none", a "tile", a "block" of a group
  blockids,              \* the blocks of the tab, on the server
  placing,               \* created by the page, not placed yet
  pendingActions,        \* the server's queue
  batch, turning,        \* what the page still has to do of it; it is at it, not at an await
  created,               \* history: a block's id is used once
  gestures,              \* of the user, counted for the bound
  unplaced               \* history: blocks whose place was lost

tree == <<root, leafs, detached>>
drag == <<pendingTreeAction, pendingInlineTabDrop, dragging>>
requested == <<placing, pendingActions, batch, turning>>
vars == <<tree, drag, mounted, blockids, requested, created, gestures, unplaced>>

end == [op |-> "end"]   \* the rest of processPendingBackendActions
NoDrop == [block |-> "none", source |-> 0, target |-> 0, center |-> FALSE]

Init ==
  /\ root \in Saved /\ leafs = {} /\ detached = {} /\ mounted = FALSE
  /\ pendingTreeAction = NoAction /\ pendingInlineTabDrop = NoDrop /\ dragging = "none"
  /\ blockids = BlocksOf(root) /\ placing = {} /\ pendingActions = <<>>
  /\ batch = <<>> /\ turning = FALSE
  /\ created = BlocksOf(root) /\ gestures = 0 /\ unplaced = {}

(* Everything an id can still be found in. *)
Mentioned ==
  Ids(root) \cup leafs \cup {n.id : n \in detached}
    \cup (CASE pendingTreeAction.type = "move" -> {pendingTreeAction.parentId, pendingTreeAction.node.id}
            [] pendingTreeAction.type = "merge" -> {pendingTreeAction.source, pendingTreeAction.target}
            [] OTHER -> {})
    \cup {pendingInlineTabDrop.source, pendingInlineTabDrop.target}
Fresh == Min((1..30) \ Mentioned)
Fresh2 == Min((1..30) \ (Mentioned \cup {Fresh}))

(* getNodeByBlockId: a leaf of the last update that shows the block now.     *)
LeafsWith(b) ==
  LET found == {n \in {m \in Nodes(root) : m.id \in leafs} \cup detached : b \in ToSet(n.blocks)}
  IN  IF found = {} THEN {None} ELSE found

InTree(n) == findNode(root, n.id) # None

-----------------------------------------------------------------------------
(* updateTree, which does nothing when the layout is not on the page.  The   *)
(* leafs it collects before balanceNode copies the one leaf of a group into  *)
(* the group are not the nodes of the balanced tree.  When balanceNode       *)
(* throws the leafs atom stays, its leafs copied or not in the tree any more. *)
Gone(t, r) == {n \in Nodes(t.root) : n.id \in t.leafs \ Ids(r)}
IdsOf(nodes) == {n.id : n \in nodes}

Collected(t, b) ==
  LET known == {n \in b.copied : n.id \in t.leafs}
  IN  [root |-> b.node,
       leafs |-> (IF b.ok THEN IdsOf({n \in Nodes(b.node) : IsLeaf(n)}) ELSE t.leafs \cap Ids(b.node)) \ IdsOf(b.copied),
       detached |-> IF b.ok THEN b.copied ELSE t.detached \cup known \cup Gone(t, b.node)]
Updated(t, r) == Collected(t, balanceNode(r))

Tree == [root |-> root, leafs |-> leafs, detached |-> detached]
Becomes(t) == root' = t.root /\ leafs' = t.leafs /\ detached' = t.detached
Rebuilt(r) == [root |-> r, leafs |-> leafs \cap Ids(r), detached |-> detached \cup Gone(Tree, r)]

Throws(r) == mounted /\ ~balanceNode(r).ok
UpdateTree(r) == Becomes(IF mounted THEN Updated(Tree, r) ELSE Rebuilt(r))

-----------------------------------------------------------------------------
(* treeReducer, without the update. *)

NewLeaf(b) == Leaf(Fresh, <<b>>)
NextLocation == findNextInsertLocation(root)

(* A leaf something is inserted into is moved into a node of its own, which  *)
(* the leafs atom does not know.                                             *)
Moved(loc) == IF root # None /\ IsLeaf(findNode(root, loc.id)) THEN {loc.id} ELSE {}

Delete(r, id) == IF r # None /\ id \in Ids(r) THEN DeleteIn(r, id) ELSE r
Split(r, n, b, dir, position) == SplitIn(r, n.id, dir, position, NewLeaf(b), Fresh2)
Replace(n, b) == ReplaceIn(root, n.id, NewLeaf(b))

(* removeBlockIdFromInlineTabNode *)
Without(n, b) == [n EXCEPT !.blocks = Remove(@, b)]
WithOnly(n, b) == [n EXCEPT !.blocks = <<b>>]
With(n, b) == IF b \in ToSet(n.blocks) THEN n ELSE [n EXCEPT !.blocks = Append(@, b)]
Throwing(op, n) ==   \* splitHorizontal, splitVertical, replaceNode
  CASE op = "split" -> SplitThrows(root, n.id)
    [] op = "replace" -> n # None /\ ReplaceThrows(root, n.id)
    [] OTHER -> FALSE
TreeWithout(n, b) == IF n \in detached THEN root ELSE Put(root, n.id, Without(n, b))

(* mergeInlineTabAction *)
Mergeable(a) ==
  LET target == findNode(root, a.target)  source == findNode(root, a.source)
  IN  target # None /\ source # None /\ target # source /\ Len(source.blocks) = 1
Merge(a) ==
  LET target == findNode(root, a.target)
  IN  Delete(Put(root, target.id, With(target, findNode(root, a.source).blocks[1])), a.source)

-----------------------------------------------------------------------------
(* The page's own operations. *)

Yielded == ~turning
Idle == Yielded /\ mounted /\ dragging = "none"   \* and no drag holds the user's hands
Leave(blocks) == blockids' = blockids \ blocks

(* The tiles the user sees: leafs of the tree that the last update collected. *)
Tiles == {n \in Nodes(root) : IsLeaf(n) /\ n.id \in leafs \cup IdsOf(detached)}

(* What waits: actions of the server, blocks to be placed.                   *)
UnderWay ==
  Len(SelectSeq(pendingActions \o batch, LAMBDA a : a # end)) + Cardinality(placing)
More == UnderWay < MaxUnderWay

Creates(b) == Cardinality(created) < MaxCreated /\ created' = created \cup {b}

(* createBlock, createBlockSplit..., replaceBlock and the callers of          *)
(* addBlockToInlineTab: the server creates the block, and when it answers    *)
(* the block is put where the user asked.                                    *)
CreateBlock(how) ==
  /\ Idle /\ More
  /\ Creates(how.block) /\ how.at \in BlocksOf(root) \cup {how.block}
  /\ blockids' = blockids \cup {how.block} /\ placing' = placing \cup {how}
  /\ UNCHANGED <<tree, drag, mounted, gestures, pendingActions, batch, turning, unplaced>>

Placed(how, n) ==
  CASE how.op = "insert" -> InsertIn(root, NextLocation, NewLeaf(how.block), Fresh2)
    [] how.op = "split" -> Split(root, n, how.block, how.split.dir, how.split.position)
    [] how.op = "replace" -> Replace(n, how.block)
    [] how.op = "tab" -> Put(root, n.id, With(findNode(root, n.id), how.block))

PlaceBlock(how) ==
  /\ Yielded /\ how \in placing
  /\ placing' = placing \ {how}
  /\ \E n \in LeafsWith(how.at) :
       LET throws == Throwing(how.op, n)
           placed == how.op = "insert" \/ (InTree(n) /\ ~throws)
           siblings == IF how.op = "replace" /\ placed THEN ToSet(findNode(root, n.id).blocks) \ {how.at} ELSE {}
       IN  /\ \/ placed /\ UpdateTree(Placed(how, n))
              \/ ~placed /\ (throws \/ n = None \/ how.op = "tab") /\ UNCHANGED tree
              \/ ~placed /\ ~throws /\ n # None /\ how.op # "tab" /\ UpdateTree(root)
           /\ unplaced' = unplaced \cup siblings \cup (IF placed THEN {} ELSE {how.block})
  /\ Leave(IF how.op = "replace" THEN {how.at} ELSE {})
  /\ UNCHANGED <<drag, mounted, created, gestures, pendingActions, batch, turning>>

(* The tree is updated first: when that throws, the blocks stay in the tab,  *)
(* though the layout has no place for them any more.                         *)
Closes(rest, leaving) ==
  /\ UpdateTree(rest)
  /\ IF Throws(rest) THEN unplaced' = unplaced \cup leaving /\ UNCHANGED blockids
     ELSE Leave(leaving) /\ UNCHANGED unplaced

(* closeNode hands every block of the node to onNodeDelete.                  *)
Closable(n) == InTree(n) /\ ~DeleteThrows(root, n.id)
ClosesNode(n) == Closes(Delete(root, n.id), ToSet(findNode(root, n.id).blocks))

CloseBlock(b) ==
  /\ Idle
  /\ \E n \in LeafsWith(b) :
       \/ Len(n.blocks) > 1 /\ Closes(TreeWithout(n, b), {b})
       \/ Len(n.blocks) = 1 /\ Closable(n) /\ ClosesNode(n)
  /\ UNCHANGED <<drag, mounted, created, gestures, requested>>

(* closeAllInlineTabBlocks *)
CloseNode(n) ==
  /\ Idle /\ Closable(n)
  /\ ClosesNode(n)
  /\ UNCHANGED <<drag, mounted, created, gestures, requested>>

Gesture == gestures < MaxGestures /\ ~Holed(root) /\ gestures' = gestures + 1

Rearrange(r) ==
  /\ Idle
  /\ UpdateTree(r)
  /\ UNCHANGED <<drag, mounted, created, blockids, requested, unplaced>>

(* A resize of the window updates the tree, too, and the end of a drag that  *)
(* drops nothing.                                                            *)
OnContainerResize == Rearrange(root) /\ UNCHANGED gestures
ClearPendingAction ==
  /\ Yielded /\ pendingTreeAction.type # "none"
  /\ pendingTreeAction' = NoAction /\ dragging' = "none"
  /\ UpdateTree(root)
  /\ pendingInlineTabDrop' = IF Throws(root) THEN pendingInlineTabDrop ELSE NoDrop
  /\ UNCHANGED <<mounted, created, gestures, blockids, requested, unplaced>>

(* inlineMinimizeBlock merges with a neighbour, here with any other leaf;    *)
(* restoreInlineTabBlock splits a block off again.                           *)
InlineMinimizeBlock(n, target) ==
  LET a == [source |-> n.id, target |-> target.id]
  IN  Mergeable(a) /\ Rearrange(Merge(a))

RestoreInlineTabBlock(b) ==
  \E n \in LeafsWith(b) :
    LET split == Split(TreeWithout(n, b), n, b, "row", "after")
    IN  Len(n.blocks) > 1 /\ Rearrange(split)

(* cleanupInlineTabBlockIds: a group forgets a block that left the tab.      *)
CleanupInlineTabBlockIds(n) ==
  \E b \in ToSet(n.blocks) \ blockids :
    Len(n.blocks) > 1 /\ Rearrange(Put(root, n.id, Without(n, b))) /\ UNCHANGED gestures

-----------------------------------------------------------------------------
(* Dragging: hovering computes what a drop would do, dropping does it.  Over *)
(* a tile it goes through treeReducer, which updates the tree.               *)

Hovers(holding, action) ==
  /\ pendingTreeAction' = action /\ dragging' = IF action.type = "none" THEN "none" ELSE holding
  /\ UNCHANGED <<mounted, created, blockids, requested, unplaced>>

HoverTile(n, target, side) ==
  /\ n # target
  /\ Hovers("tile", computeMoveNode(root, target, side, n, FALSE))
  /\ UpdateTree(root) /\ UNCHANGED pendingInlineTabDrop

(* setPendingInlineTabMerge *)
HoverTileCenter(n, target) ==
  LET a == [type |-> "merge", source |-> n.id, target |-> target.id]
  IN  /\ Mergeable(a)
      /\ Hovers("tile", a)
      /\ UpdateTree(root) /\ UNCHANGED pendingInlineTabDrop

(* setPendingInlineTabDrop: one block of a group is dragged. *)
HoverBlock(n, b, target, side, center) ==
  LET preview == NewLeaf(b)
      action == IF center THEN [type |-> "merge", source |-> preview.id, target |-> target.id]
                ELSE computeMoveNode(root, target, side, preview, TRUE)
  IN  /\ Len(n.blocks) > 1 /\ b \in ToSet(n.blocks)
      /\ action.type # "none" /\ (center => n # target)
      /\ Hovers("block", action)
      /\ pendingInlineTabDrop' = [block |-> b, source |-> n.id, target |-> target.id, center |-> center]
      /\ UNCHANGED tree

(* onDrop commits the pending action, in a treeReducer within treeReducer:   *)
(* the tree is updated twice, and between the two the action is cleared.     *)
(* When moveNode throws, the parent it was computed for being gone, the tree *)
(* is as it was, and the action stays.                                       *)
Commits(done) ==
  LET once == Updated(Tree, done)
      throws == ~balanceNode(done).ok
  IN  /\ Becomes(IF throws THEN once ELSE Updated(once, once.root))
      /\ pendingTreeAction' = IF throws THEN pendingTreeAction ELSE NoAction

Drop ==
  LET a == pendingTreeAction
      halfway == Put(root, a.target, With(findNode(root, a.target), findNode(root, a.source).blocks[1]))
  IN  /\ Yielded /\ dragging = "tile" /\ dragging' = "none"
      /\ \/ a.type = "move" /\ ~MoveThrows(root, a) /\ Commits(MoveIn(root, a, Fresh))
         \/ a.type = "move" /\ MoveThrows(root, a) /\ UNCHANGED <<tree, pendingTreeAction>>
         \/ a.type = "merge" /\ ~Mergeable(a) /\ Commits(root)
         \/ a.type = "merge" /\ Mergeable(a) /\ ~DeleteThrows(root, a.source) /\ Commits(Merge(a))
         \/ /\ a.type = "merge" /\ Mergeable(a) /\ DeleteThrows(root, a.source)
            /\ root' = halfway /\ UNCHANGED <<leafs, detached, pendingTreeAction>>
      /\ UNCHANGED <<pendingInlineTabDrop, mounted, created, gestures, blockids, requested, unplaced>>

(* commitPendingInlineTabDrop takes the block out of its group first; where  *)
(* moveNode throws, it is nowhere.                                           *)
DropBlock ==
  LET d == pendingInlineTabDrop
      source == findNode(root, d.source)
      target == findNode(root, d.target)
      out == Put(root, d.source, Without(source, d.block))
      stays == \/ source = None \/ target = None \/ Len(source.blocks) <= 1 \/ d.block \notin ToSet(source.blocks)
               \/ d.center /\ d.block \in ToSet(target.blocks)
      lost == ~stays /\ ~d.center /\ MoveThrows(out, pendingTreeAction)
  IN  /\ Yielded /\ dragging = "block" /\ dragging' = "none"
      /\ pendingTreeAction' = NoAction /\ pendingInlineTabDrop' = NoDrop
      /\ CASE stays -> UNCHANGED tree
           [] lost -> root' = out /\ UNCHANGED <<leafs, detached>>
           [] ~stays /\ d.center -> UpdateTree(Put(out, target.id, With(target, d.block)))
           [] ~stays /\ ~d.center /\ ~lost -> UpdateTree(MoveIn(out, pendingTreeAction, Fresh))
      /\ unplaced' = IF lost THEN unplaced \cup {d.block} ELSE unplaced
      /\ UNCHANGED <<mounted, created, gestures, blockids, requested>>

-----------------------------------------------------------------------------
(* The server: it changes the tab and queues what the layout has to do.      *)

Queue(a) == More /\ pendingActions' = Append(pendingActions, a)

ServerCreates(a) ==
  /\ Creates(a.block) /\ a.at \in blockids \cup {a.block}
  /\ Queue(a)
  /\ blockids' = (IF a.op = "replace" THEN blockids \ {a.at} ELSE blockids) \cup {a.block}
  /\ UNCHANGED <<tree, drag, mounted, gestures, placing, batch, turning, unplaced>>

(* DeleteBlockCommand, or MoveBlockToTab to another tab.                     *)
ServerRemoves(b, op) ==
  /\ b \in blockids
  /\ Queue([op |-> op, at |-> b])
  /\ Leave({b})
  /\ UNCHANGED <<tree, drag, mounted, created, gestures, placing, batch, turning, unplaced>>

(* TileLayout is mounted: the server is asked to queue a cleanup. *)
Mount ==
  /\ Yielded /\ ~mounted
  /\ mounted' = TRUE
  /\ Queue([op |-> "cleanuporphaned"])
  /\ UNCHANGED <<tree, drag, created, gestures, blockids, placing, batch, turning, unplaced>>

-----------------------------------------------------------------------------
(* processPendingBackendActions *)

BatchBegins ==
  /\ Yielded /\ batch = <<>>
  /\ pendingActions # <<>> /\ batch' = Append(pendingActions, end) /\ pendingActions' = <<>>
  /\ turning' = TRUE
  /\ UNCHANGED <<tree, drag, mounted, created, gestures, blockids, placing, unplaced>>

BatchResumes ==
  /\ Yielded /\ batch # <<>> /\ turning' = TRUE
  /\ UNCHANGED <<tree, drag, mounted, created, gestures, blockids, placing, pendingActions, batch, unplaced>>

Turn(ops) == turning /\ batch # <<>> /\ batch[1].op \in ops
Handled == batch' = Tail(batch) /\ UNCHANGED <<turning, pendingActions>>

(* An action that throws ends the batch; the rest is for the next time.      *)
GivesUp ==
  /\ batch' = <<>> /\ turning' = FALSE
  /\ pendingActions' = SelectSeq(Tail(batch), LAMBDA a : a # end) \o pendingActions

(* handleBackendAction for the actions that reach no await: the tree is not  *)
(* updated between them.                                                     *)
HandleInsert ==
  LET a == batch[1]
      at == findInsertLocationFromIndexArr(root, a.arr)
      loc == IF a.op = "insert" THEN NextLocation ELSE [at EXCEPT !.index = @ + 1]
      throws == a.op = "insertatindex" /\ root # None /\ at = NoLocation
  IN  /\ Turn({"insert", "insertatindex"})
      /\ \/ /\ ~throws /\ Handled
            /\ root' = InsertIn(root, loc, NewLeaf(a.block), Fresh2)
            /\ leafs' = leafs \ Moved(loc) /\ UNCHANGED <<detached, unplaced>>
         \/ throws /\ GivesUp /\ unplaced' = unplaced \cup {a.block} /\ UNCHANGED tree
      /\ UNCHANGED <<drag, mounted, created, gestures, blockids, placing>>

HandleTargeted ==
  LET a == batch[1]
  IN  /\ Turn({"split", "replace"})
      /\ \E n \in LeafsWith(a.at) :
           LET throws == Throwing(a.op, n)
               siblings == IF a.op = "replace" THEN ToSet(findNode(root, n.id).blocks) \ {a.at} ELSE {}
           IN  \/ /\ InTree(n) /\ ~throws /\ Handled
                  /\ Becomes(Rebuilt(IF a.op = "split" THEN Split(root, n, a.block, a.split.dir, a.split.position)
                                     ELSE Replace(n, a.block)))
                  /\ unplaced' = unplaced \cup siblings
               \/ /\ ~InTree(n) \/ throws
                  /\ IF throws THEN GivesUp ELSE Handled
                  /\ unplaced' = unplaced \cup {a.block} /\ UNCHANGED tree
      /\ UNCHANGED <<drag, mounted, created, gestures, blockids, placing>>

HandleRemoveFromLayout ==
  LET b == batch[1].at
  IN  /\ Turn({"removefromlayout"})
      /\ \E n \in LeafsWith(b) :
           \/ /\ Len(n.blocks) > 1 /\ Handled
              /\ root' = TreeWithout(n, b) /\ UNCHANGED leafs
              /\ detached' = IF n \in detached THEN (detached \ {n}) \cup {Without(n, b)} ELSE detached
           \/ /\ Len(n.blocks) = 1 /\ ~DeleteThrows(root, n.id) /\ Handled
              /\ Becomes(Rebuilt(Delete(root, n.id)))
           \/ Len(n.blocks) = 1 /\ DeleteThrows(root, n.id) /\ GivesUp /\ UNCHANGED tree
           \/ n = None /\ Handled /\ UNCHANGED tree
      /\ UNCHANGED <<drag, mounted, created, gestures, blockids, placing, unplaced>>

(* closeNode updates the tree, and waits for onNodeDelete.                   *)
HandleDelete ==
  /\ Turn({"delete"})
  /\ \E n \in LeafsWith(batch[1].at) :
       \/ ~InTree(n) /\ Handled /\ UNCHANGED <<tree, blockids, unplaced>>
       \/ InTree(n) /\ ~Closable(n) /\ GivesUp /\ UNCHANGED <<tree, blockids, unplaced>>
       \/ /\ Closable(n) /\ ClosesNode(n)
          /\ IF Throws(Delete(root, n.id)) THEN GivesUp
             ELSE batch' = Tail(batch) /\ turning' = FALSE /\ UNCHANGED pendingActions
  /\ UNCHANGED <<drag, mounted, created, gestures, placing>>

(* cleanupOrphanedBlocks: nodes with a block that is not in the tab leave    *)
(* the layout, blocks of the tab that have no node are deleted.              *)
HandleCleanupOrphaned ==
  LET stale == {n \in Nodes(root) : \E b \in ToSet(n.blocks) : b \notin blockids}
      removed == {n \in stale : ~DeleteThrows(root, n.id)}
      RemoveNode(n, r) == Delete(r, n.id)
      orphans == IF mounted /\ root # None THEN blockids \ BlocksOf(root) ELSE {}
  IN  /\ Turn({"cleanuporphaned"})
      /\ Becomes(Rebuilt(FoldSet(RemoveNode, root, removed)))
      /\ unplaced' = unplaced \cup (UNION {ToSet(n.blocks) : n \in removed} \cap blockids)
      /\ \/ removed # stale /\ GivesUp
         \/ removed = stale /\ orphans = {} /\ Handled
         \/ /\ removed = stale /\ orphans # {}
            /\ batch' = <<[op |-> "deleteorphans", blocks |-> orphans]>> \o Tail(batch)
            /\ UNCHANGED <<turning, pendingActions>>
      /\ UNCHANGED <<drag, mounted, created, gestures, blockids, placing>>

(* One onNodeDelete after the other, each waited for; what is an orphan was  *)
(* decided before the first.                                                 *)
DeleteOrphan(b) ==
  LET others == batch[1].blocks \ {b}
  IN  /\ Turn({"deleteorphans"}) /\ b \in batch[1].blocks
      /\ Leave({b})
      /\ batch' = (IF others = {} THEN <<>> ELSE <<[batch[1] EXCEPT !.blocks = others]>>) \o Tail(batch)
      /\ turning' = FALSE
      /\ UNCHANGED <<tree, drag, mounted, created, gestures, placing, pendingActions, unplaced>>

BatchEnds ==
  /\ Turn({"end"})
  /\ batch' = <<>> /\ turning' = FALSE
  /\ UpdateTree(root)
  /\ UNCHANGED <<drag, mounted, created, gestures, blockids, placing, pendingActions, unplaced>>

-----------------------------------------------------------------------------

(* What a block can be created for: "at" is a block that is there.           *)
Hows(b) ==
  {[op |-> "insert", block |-> b, at |-> b]} \cup [op : {"replace", "tab"}, block : {b}, at : Blocks \ {b}]
    \cup [op : {"split"}, block : {b}, at : Blocks \ {b}, split : Splits]
ServerHows(b) ==
  {h \in Hows(b) : h.op # "tab"} \cup [op : {"insertatindex"}, block : {b}, at : {b}, arr : IndexArrs]

UserStep ==
  \/ \E b \in Blocks \ created : \E how \in Hows(b) : CreateBlock(how)
  \/ \E how \in placing : PlaceBlock(how)
  \/ \E b \in Blocks : CloseBlock(b)
  \/ OnContainerResize
  \/ \E n \in Tiles : CloseNode(n) \/ CleanupInlineTabBlockIds(n)

GestureStep ==
  /\ Yielded /\ mounted /\ Gesture
  /\ \/ \E b \in Blocks : RestoreInlineTabBlock(b)
     \/ \E n, target \in Tiles :
          \/ InlineMinimizeBlock(n, target) \/ HoverTileCenter(n, target)
          \/ \E side \in DropSides : HoverTile(n, target, side)
          \/ \E b \in ToSet(n.blocks), side \in DropSides, center \in BOOLEAN : HoverBlock(n, b, target, side, center)

DragStep ==
  \/ GestureStep
  \/ Drop \/ DropBlock \/ ClearPendingAction

ServerStep ==
  \/ \E b \in Blocks \ created : \E a \in ServerHows(b) : ServerCreates(a)
  \/ \E b \in Blocks, op \in {"delete", "removefromlayout"} : ServerRemoves(b, op)

BatchStep ==
  \/ BatchBegins \/ BatchResumes \/ HandleInsert \/ HandleTargeted \/ HandleRemoveFromLayout
  \/ HandleDelete \/ HandleCleanupOrphaned \/ (\E b \in Blocks : DeleteOrphan(b)) \/ BatchEnds

Next == Mount \/ UserStep \/ DragStep \/ ServerStep \/ BatchStep

Spec == Init /\ [][Next]_vars

-----------------------------------------------------------------------------
Settled == mounted /\ Yielded /\ batch = <<>> /\ pendingActions = <<>> /\ placing = {}

(* The type invariant. *)
TypeOK ==
  /\ \A n \in Nodes(root) : n.blocks = <<>> \/ n.children = <<>>
  /\ Ids(root) \cup leafs \subseteq Nat /\ BlocksOf(root) \subseteq Blocks
  /\ mounted \in BOOLEAN /\ turning \in BOOLEAN
  /\ blockids \cup created \cup unplaced \subseteq Blocks
  /\ UnderWay <= MaxUnderWay

(* Each node of the tree has an id of its own: findNode and findParent find  *)
(* one node, whatever moves, splits and merges made the tree.                *)
IdsUnique == \A m, n \in Nodes(root) : m.id = n.id => m = n

(* A block is shown by one leaf, once.                                       *)
ShownOnce == Cardinality(BlocksOf(root)) = Len(BlockOrder(root))

(* When nothing is under way, a block of the tab is in its layout, unless    *)
(* its place was lost on the way: a target that was closed before the server *)
(* answered, a group that was replaced or cleaned up as a whole, a drop next *)
(* to a node that had gone, and a tile whose closing, or a block whose       *)
(* placing, met a part of the tree without tiles, at which the code throws.  *)
NoneLost == Settled => blockids \subseteq BlocksOf(root) \cup unplaced

(* The server has removed the block it names from the tab already: carrying  *)
(* out what it queued deletes no block that is in the layout.                *)
SiblingsStay == [][turning /\ batch' # batch => (blockids \ blockids') \cap BlocksOf(root) = {}]_vars

(* What shows the same blocks stays the same node: its component is not      *)
(* unmounted and mounted again (logLeafNodeIdChanges watches for this).      *)
NodesShowing(bs) == {n.id : n \in {m \in Nodes(root) : m.blocks = bs}}
NodesStay ==
  [][\A n \in Nodes(root) :
       LET before == NodesShowing(n.blocks)  after == NodesShowing(n.blocks)'
       IN  IsLeaf(n) /\ ShownOnce /\ after # {} => before \cap after # {}]_root
=============================================================================
