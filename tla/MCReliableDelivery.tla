------------------------- MODULE MCReliableDelivery -------------------------
(* Three packets for two destinations compete for two places; the second     *)
(* destination has no key for the third packet.                              *)
EXTENDS ReliableDelivery

CONSTANTS toNear, toFar, sealed, near, far

MCPacket == {toNear, toFar, sealed}
MCDest == [p \in MCPacket |-> IF p = toNear THEN near ELSE far]
MCPeerByte == [d \in {near, far} |-> IF d = near THEN 2 ELSE 0]
=============================================================================
