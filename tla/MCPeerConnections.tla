-------------------------- MODULE MCPeerConnections --------------------------
(* Instances of PeerConnections for TLC: a host with room for two that is   *)
(* told to admit one, and nothing goes wrong; and a caller with two         *)
(* attempts, one of which it cancels.                                       *)
EXTENDS PeerConnections

RoomForTwo == [p \in Peers |-> 2]
AdmitOne == [p \in Peers |-> IF p \in Hosts THEN 1 ELSE 0]

budget(closes) == {[close |-> closes, send |-> 0, lose |-> 0, outage |-> 0, restart |-> 0]}
Quiet == budget(0)
OneClose == budget(1)
=============================================================================
