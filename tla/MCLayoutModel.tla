--------------------------- MODULE MCLayoutModel ----------------------------
(* Three blocks; a tab that starts with two tiles side by side, with a tile  *)
(* beside a group of two, or with a tile above a row of two.  From two tiles,*)
(* or what is left of them, the third block is created, below the root if    *)
(* both are there, as a node is full with two children, where the code says  *)
(* five.  Two things wait at once: actions of the server, or of a batch, and *)
(* blocks to be placed, so that a batch holds two actions, is interrupted, or*)
(* meets a drag.  The user merges, restores or drags once: a drag is computed*)
(* on one tree and dropped on another.  One side in a tile's row and one     *)
(* outside its column stand for the eight of Sides, one split each way for   *)
(* the four.                                                                 *)
EXTENDS LayoutModel, TLC

CONSTANTS b1, b2, b3

At == {<<1, 0>>}
SomeSplits == {[dir |-> "row", position |-> "after"], [dir |-> "column", position |-> "before"]}
SomeSides == {[along |-> "row", offset |-> 0, outer |-> FALSE], [along |-> "column", offset |-> 1, outer |-> TRUE]}
Tile(id, dir, blocks) == [Leaf(id, blocks) EXCEPT !.dir = dir]
TwoTiles == Group(3, "row", <<Tile(1, "column", <<b1>>), Tile(2, "column", <<b2>>)>>)
TileAndGroup == Group(3, "row", <<Tile(1, "column", <<b1>>), Tile(2, "column", <<b2, b3>>)>>)
Nested ==
  Group(5, "column", <<Tile(1, "row", <<b1>>), Group(4, "row", <<Tile(2, "column", <<b2>>), Tile(3, "column", <<b3>>)>>)>>)
SavedTrees == {TwoTiles, TileAndGroup, Nested}
=============================================================================
