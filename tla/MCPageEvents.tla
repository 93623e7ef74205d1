---------------------------- MODULE MCPageEvents ----------------------------
(* Two connections, the first lost at any moment, so that its end may be       *)
(* noticed after the second is registered, and any number of refused attempts  *)
(* between them until the page gives up. Two changes: both before, both while  *)
(* the socket is closed (a queue whose second message waits for the timer), or *)
(* one of them after. Two scopes and the blank one: a subscription may shrink  *)
(* to another non-empty one.                                                   *)
EXTENDS PageEvents
=============================================================================
