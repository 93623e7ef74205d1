-------------------------------- MODULE Link --------------------------------
(* What lies between a job manager and the main server: one connection at a  *)
(* time, and the stream packets and acks under way on it.                    *)
(* A packet may overtake another: both ends are written to reorder.  Nothing *)
(* is carried for a connection that is gone; what had already reached the    *)
(* other side's queue (streamclient.Broker) is still handled.                *)
EXTENDS Naturals

VARIABLES link,       \* number of the connection that is up, 0 when none is
          dataWire,   \* packets on their way to the stream's reader
          ackWire     \* acks on their way to the stream's writer

linkVars == <<link, dataWire, ackWire>>

(* A message handed to connection c. *)
Carried(wire, message, c) ==
  IF link # 0 /\ c = link THEN wire \cup {message} ELSE wire

LinkInit == link = 1 /\ dataWire = {} /\ ackWire = {}

LinkLost ==
  /\ link # 0
  /\ link' = 0
  /\ dataWire' \in SUBSET dataWire
  /\ ackWire' \in SUBSET ackWire
=============================================================================
