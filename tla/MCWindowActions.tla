-------------------------- MODULE MCWindowActions ---------------------------
(* The window starts in a saved workspace of two tabs or in an unsaved one;  *)
(* the third workspace is open elsewhere.  One view more than the cache      *)
(* keeps is enough to evict, two loops enough for a second one to show.      *)
EXTENDS WindowActions

CONSTANTS A, B, C
MCFirstTabs == (A :> <<1, 2>> @@ B :> <<3>>) @@ (C :> <<4>>)
=============================================================================
