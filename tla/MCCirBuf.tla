------------------------------ MODULE MCCirBuf ------------------------------
(* CirBuf with a buffer of four bytes, chunks of up to three, and streams   *)
(* of up to ten bytes: the ring wraps more than twice.                       *)
EXTENDS CirBuf
=============================================================================
