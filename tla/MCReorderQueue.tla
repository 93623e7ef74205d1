--------------------------- MODULE MCReorderQueue ---------------------------
(* Two controllers of one job.  Three numbers of a session are enough for a   *)
(* run behind a missing one, a capacity of three for a full queue.            *)
EXTENDS ReorderQueue

CONSTANTS S1, S2
=============================================================================
