-------------------------- MODULE MCRelayScheduler --------------------------
(* Three packets compete for two places: a flood, a directed packet that     *)
(* names us as next hop, and a flood on a channel whose key comes and goes.  *)
EXTENDS RelayScheduler

CONSTANTS flood, directed, private

MCPacket == {flood, directed, private}

MCDest == [p \in MCPacket |-> IF p = directed THEN "other" ELSE "broadcast"]
MCNextHop == [p \in MCPacket |-> IF p = directed THEN OurByte ELSE 0]
MCHopStart == [p \in MCPacket |-> 2]
MCHeard == [p \in MCPacket |-> IF p = flood THEN {0, 1, 2} ELSE {1, 2}]
=============================================================================
