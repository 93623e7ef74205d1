----------------------------- MODULE MCTermView -----------------------------
(* A file that keeps two bytes of three, one truncation, four views and      *)
(* three saves: the file wraps, a view is opened on a screen saved by a view *)
(* that was opened on a saved one, and the saves of shown and of closed      *)
(* views overlap.                                                            *)
EXTENDS TermView

(* QuietLoadsAreExact says nothing any more once the file was truncated or a *)
(* load was disturbed: what comes after is explored in the first view only.  *)
StillTelling == (truncates = 0 /\ ~disturbed) \/ views <= 1
=============================================================================
