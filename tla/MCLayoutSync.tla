---------------------------- MODULE MCLayoutSync ----------------------------
(* One block at first and one that a handler creates: with its deletion and  *)
(* the other's that is enough for two handlers to overwrite each other.      *)
EXTENDS LayoutSync

CONSTANTS b1, b2

(* Where both properties make an exception they make it for good: what comes *)
(* after is not explored.  Besides overwrites, the run explores one kind of   *)
(* disturbance at a time.                                                    *)
StillTelling ==
  /\ ~({"reload", "overwritten"} \subseteq disturbed)
  /\ Cardinality(disturbed \ {"overwritten"}) <= 1
=============================================================================
