-------------------------- MODULE MCDurableStream --------------------------
EXTENDS DurableStream, FiniteSets

(* A bound on the packets and acks under way at the same time, of the runs   *)
(* "durable" and "durable_live".  Two of either can overtake each other.     *)
TwoUnderWay == Cardinality(dataWire) + Cardinality(ackWire) <= 2
=============================================================================
