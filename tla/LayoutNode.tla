----------------------------- MODULE LayoutNode -----------------------------
(* The tree of a tab's tiled layout (layoutNode.ts, layoutTree.ts): nodes    *)
(* with a direction and either children or the blocks they show, and the     *)
(* functions that change a tree.  The code changes nodes in place; here each *)
(* function returns the changed tree.  Indices count from 0, as in the code. *)
EXTENDS Integers, Sequences, SequencesExt

CONSTANT MaxChildren   \* DEFAULT_MAX_CHILDREN

ASSUME LayoutNodeAssumption == MaxChildren \in Nat \ {0}

\* Also the undefined that stands for a child: a hole in the tree.
None == [id |-> 0, dir |-> "row", blocks |-> <<>>, children |-> <<>>]
Leaf(id, blocks) == [id |-> id, dir |-> "row", blocks |-> blocks, children |-> <<>>]
Group(id, dir, children) == [id |-> id, dir |-> dir, blocks |-> <<>>, children |-> children]

IsLeaf(n) == n.blocks # <<>>
reverseFlexDirection(dir) == IF dir = "row" THEN "column" ELSE "row"

(* validateNode: a group whose children have all been removed is invalid.    *)
Valid(n) == IsLeaf(n) \/ n.children # <<>>

Splice(s, i, new) ==
  LET at == IF Len(s) <= i THEN Len(s) ELSE i
  IN  SubSeq(s, 1, at) \o new \o SubSeq(s, at + 1, Len(s))

RECURSIVE Nodes(_)
Nodes(n) == IF n = None THEN {} ELSE {n} \cup UNION {Nodes(c) : c \in ToSet(n.children)}

RECURSIVE Ids(_)
Ids(n) == IF n = None THEN {} ELSE {n.id} \cup UNION {Ids(c) : c \in ToSet(n.children)}
findNode(n, id) ==
  LET found == {m \in Nodes(n) : m.id = id}
  IN  IF found = {} THEN None ELSE CHOOSE m \in found : TRUE
HasChild(n, id) == \E i \in 1..Len(n.children) : n.children[i].id = id
findParent(n, id) ==
  LET parents == {m \in Nodes(n) : HasChild(m, id)}
  IN  IF parents = {} THEN None ELSE CHOOSE m \in parents : TRUE
IndexIn(n, id) == (CHOOSE i \in 1..Len(n.children) : n.children[i].id = id) - 1

Holed(n) == \E m \in Nodes(n) : None \in ToSet(m.children)

(* findParent asks each child it comes to for its id, and throws at a hole   *)
(* that comes before the node it looks for.                                  *)
RECURSIVE Visited(_)
Visited(n) == FlattenSeq([i \in 1..Len(n.children) |-> <<n.children[i]>> \o Visited(n.children[i])])
findParentThrows(n, id) ==
  \/ n = None
  \/ /\ n.id # id /\ Holed(n)
     /\ LET seen == Visited(n)
        IN  \E i \in 1..Len(seen) : seen[i] = None /\ \A j \in 1..i : seen[j].id # id

RECURSIVE Leaves(_)
Leaves(n) == IF IsLeaf(n) THEN <<n>> ELSE FlattenSeq([i \in 1..Len(n.children) |-> Leaves(n.children[i])])

(* The blocks that are shown, in the order of the leaves. *)
BlockOrder(n) == LET leaves == Leaves(n) IN FlattenSeq([i \in 1..Len(leaves) |-> leaves[i].blocks])
BlocksOf(n) == UNION {ToSet(m.blocks) : m \in Nodes(n)}

(* An assignment to the node with an id, wherever it is in the tree.         *)
RECURSIVE Put(_, _, _)
Put(n, id, new) ==
  IF n.id = id THEN new
  ELSE [n EXCEPT !.children = [i \in 1..Len(n.children) |-> Put(n.children[i], id, new)]]

-----------------------------------------------------------------------------
(* layoutNode.ts *)

(* A leaf becomes a group of one: the new inner leaf keeps the id.           *)
addIntermediateNodeNewLeaf(n, fresh) ==
  Group(n.id, n.dir, <<[n EXCEPT !.id = fresh, !.dir = reverseFlexDirection(n.dir)]>>)
addIntermediateNodeKeepsData(n, fresh) ==
  [n EXCEPT !.id = fresh, !.children = <<[n EXCEPT !.dir = reverseFlexDirection(n.dir)]>>]
addIntermediateNode(n, fresh) ==
  Group(fresh, n.dir, <<[n EXCEPT !.dir = reverseFlexDirection(n.dir)]>>)

(* A child with the parent's direction is turned, or replaced by its own     *)
(* children.                                                                 *)
addChildAt(n, idx, child, fresh) ==
  LET parent == IF IsLeaf(n) THEN addIntermediateNode(n, fresh) ELSE n
      added == IF child.dir # parent.dir THEN <<child>>
               ELSE IF ~IsLeaf(child) THEN child.children
               ELSE <<[child EXCEPT !.dir = reverseFlexDirection(parent.dir)]>>
  IN  [parent EXCEPT !.children = Splice(@, idx, added)]

removeChildAfter(n, id, start) ==
  LET found == {i \in (start + 2)..Len(n.children) : n.children[i].id = id}
  IN  IF found = {} THEN n
      ELSE [n EXCEPT !.children = RemoveAt(@, CHOOSE i \in found : \A j \in found : i <= j)]
removeChild(n, id, start) ==
  LET found == {i \in (start + 1)..Len(n.children) : n.children[i].id = id}
  IN  IF found = {} THEN n
      ELSE [n EXCEPT !.children = RemoveAt(@, CHOOSE i \in found : \A j \in found : i <= j)]

(* balanceNode, on the way down: children are turned against their parent,   *)
(* a group of one group gives way to its grandchildren, an empty group       *)
(* leaves a hole.                                                            *)
Turned(n, c) == IF c # None /\ c.dir = n.dir THEN [c EXCEPT !.dir = reverseFlexDirection(n.dir)] ELSE c

Flattened(n) ==
  LET Child(c) ==
        IF Len(c.children) = 1 /\ ~IsLeaf(c.children[1]) THEN c.children[1].children
        ELSE IF ~Valid(c) THEN <<None>>
        ELSE <<Turned(n, c)>>
  IN  [n EXCEPT !.children = FlattenSeq([i \in 1..Len(n.children) |-> Child(n.children[i])])]

(* It throws at a group without children, at a hole an earlier one left, and *)
(* in the callback of updateTree at a hole it has just made: the nodes it    *)
(* has come to by then are changed.  On the way up a group of one leaf       *)
(* becomes the leaf, which is copied: the original was collected already.    *)
Balance(node, ok, copied) == [node |-> node, ok |-> ok, copied |-> copied]

Holes(n) == {i \in 1..Len(n.children) : n.children[i] = None \/ n.children[i].children = <<None>>}
StopsAtHole(n, holes) ==
  LET Before(i) == \A j \in holes : i <= j
      TurnedBefore(i) == IF Before(i) THEN Turned(n, n.children[i]) ELSE n.children[i]
  IN  Balance([n EXCEPT !.children = [i \in 1..Len(n.children) |-> TurnedBefore(i)]], FALSE, {})

Climbs(n, flat, below) ==
  LET walked == {i \in DOMAIN below : \A j \in DOMAIN below : below[j].ok \/ i <= j}
      ok == \A i \in walked : below[i].ok
      children == [i \in DOMAIN below |-> IF i \in walked THEN below[i].node ELSE flat.children[i]]
      collapses == ok /\ Len(below) = 1 /\ IsLeaf(below[1].node)
      copied == IF collapses /\ IsLeaf(flat.children[1]) THEN {flat.children[1]}
                ELSE UNION {below[i].copied : i \in walked}
  IN  Balance(IF collapses THEN [below[1].node EXCEPT !.dir = n.dir] ELSE [flat EXCEPT !.children = children], ok, copied)

RECURSIVE balanceNode(_)
balanceNode(n) ==
  LET flat == Flattened(n)
  IN  IF n = None THEN Balance(None, TRUE, {})
      ELSE IF ~Valid(n) THEN Balance(n, FALSE, {})
      ELSE IF Holes(n) # {} THEN StopsAtHole(n, Holes(n))
      ELSE IF None \in ToSet(flat.children) THEN Balance(flat, FALSE, {})
      ELSE Climbs(n, flat, [i \in 1..Len(flat.children) |-> balanceNode(flat.children[i])])

(* findNextInsertLocation: the first of the locations with the smallest      *)
(* depth ^ (index + maxChildren), later children first.                      *)
RECURSIVE InsertLocations(_, _)
InsertLocations(n, depth) ==
  LET len == Len(n.children)
      below == FlattenSeq([i \in 1..len |-> InsertLocations(n.children[len + 1 - i], depth + 1)])
  IN  IF n = None THEN <<>>
      ELSE IF IsLeaf(n) THEN <<[id |-> n.id, index |-> 1, depth |-> depth]>>
      ELSE (IF len < MaxChildren THEN <<[id |-> n.id, index |-> len, depth |-> depth]>> ELSE <<>>) \o below

findNextInsertLocation(n) ==
  LET locs == InsertLocations(n, 1)
      Weight(i) == locs[i].depth ^ (locs[i].index + MaxChildren)
  IN  locs[CHOOSE i \in 1..Len(locs) :
             \A j \in 1..Len(locs) : Weight(i) < Weight(j) \/ (Weight(i) = Weight(j) /\ i <= j)]

(* Throws, which is no location, at a hole and below an empty group.         *)
NoLocation == [id |-> 0, index |-> 0]
RECURSIVE findInsertLocationFromIndexArr(_, _)
findInsertLocationFromIndexArr(n, indexArr) ==
  LET len == IF IsLeaf(n) THEN 1 ELSE Len(n.children)
      next == IF indexArr[1] < len THEN indexArr[1] ELSE len - 1
  IN  IF n = None THEN NoLocation
      ELSE IF Len(indexArr) = 1 \/ IsLeaf(n) THEN [id |-> n.id, index |-> next]
      ELSE IF next < 0 THEN NoLocation
      ELSE findInsertLocationFromIndexArr(n.children[next + 1], Tail(indexArr))

-----------------------------------------------------------------------------
(* layoutTree.ts, as functions of the root. *)

InsertIn(root, loc, leaf, fresh) ==
  IF root = None THEN leaf
  ELSE Put(root, loc.id, addChildAt(findNode(root, loc.id), loc.index, leaf, fresh))

DeleteThrows(root, id) == root # None /\ findParentThrows(root, id)
DeleteIn(root, id) ==
  IF root = None \/ root.id = id THEN None
  ELSE LET parent == findParent(root, id)
       IN  IF parent = None THEN root ELSE Put(root, parent.id, removeChild(parent, id, 0))

ReplaceThrows(root, id) == findParentThrows(root, id)
ReplaceIn(root, id, leaf) == IF id \in Ids(root) THEN Put(root, id, leaf) ELSE root

(* splitHorizontal ("row") and splitVertical ("column"). *)
SplitThrows(root, id) == id \in Ids(root) /\ findParentThrows(root, id)
SplitIn(root, id, dir, position, leaf, fresh) ==
  LET target == findNode(root, id)
      parent == findParent(root, id)
      after == IF position = "after" THEN 1 ELSE 0
      both == IF position = "before" THEN <<leaf, target>> ELSE <<target, leaf>>
  IN  IF target = None THEN root
      ELSE IF parent # None /\ parent.dir = dir
      THEN Put(root, parent.id, [parent EXCEPT !.children = Splice(@, IndexIn(parent, id) + after, <<leaf>>)])
      ELSE Put(root, id, Group(fresh, dir, both))

(* moveNode: the node is added at its new place, then taken from its old     *)
(* parent; where that is the same one, the search starts after the new place.*)
MoveThrows(root, a) ==
  findParentThrows(root, a.node.id) \/ ~(a.insertAtRoot \/ a.parentId \in Ids(root))

MoveIn(root, a, fresh) ==
  LET node == IF a.node.id \in Ids(root) THEN findNode(root, a.node.id) ELSE a.node
      oldParent == findParent(root, node.id)
      into == IF a.insertAtRoot THEN root ELSE findNode(root, a.parentId)
      same == ~a.insertAtRoot /\ oldParent # None /\ oldParent.id = into.id
      start == IF same /\ IndexIn(oldParent, node.id) >= a.index THEN a.index + 1 ELSE 0
      added == Put(root, into.id, addChildAt(into, a.index, node, fresh))
      from == findNode(added, oldParent.id)
  IN  IF oldParent = None THEN added
      ELSE Put(added, from.id, removeChild(from, node.id, start))

-----------------------------------------------------------------------------
(* computeMoveNode: what dropping node at the target in a direction would    *)
(* do.  "override" says that node is a preview, not in the tree.             *)

Sides == [along : {"row", "column"}, offset : {0, 1}, outer : BOOLEAN]
NoAction == [type |-> "none"]
MoveTo(parentId, index, node) ==
  [type |-> "move", parentId |-> parentId, index |-> index, insertAtRoot |-> FALSE, node |-> node]
MoveToRoot(index, node) ==
  [type |-> "move", parentId |-> 0, index |-> index, insertAtRoot |-> TRUE, node |-> node]

Destination(root, target, side, node) ==
  LET parent == findParent(root, target.id)
      grandparent == findParent(root, parent.id)
      isRoot == root.id = target.id
  IN  IF side.outer /\ target.dir = side.along /\ isRoot THEN NoAction
      ELSE IF side.outer /\ target.dir = side.along /\ grandparent # None
      THEN MoveTo(grandparent.id, IndexIn(grandparent, parent.id) + side.offset, node)
      ELSE IF target.dir = side.along THEN MoveTo(target.id, side.offset, node)
      ELSE IF ~isRoot THEN MoveTo(parent.id, IndexIn(parent, target.id) + side.offset, node)
      ELSE IF side.along = "column" THEN MoveToRoot(side.offset, node)
      ELSE NoAction

computeMoveNode(root, target, side, node, override) ==
  LET move == Destination(root, target, side, node)
      from == IF override THEN None ELSE findParent(root, node.id)
  IN  IF /\ move.type = "move" /\ from # None /\ move.parentId = from.id
         /\ move.index - IndexIn(from, node.id) \in {0, 1}
      THEN NoAction ELSE move
=============================================================================
