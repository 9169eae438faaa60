----------------------------- MODULE MCUserPool -----------------------------
(* UserPool, and the connections of RakNet it rests on, for TLC: a          *)
(* behaviour is about one of the two, its scene.  Connections have three    *)
(* scenes: two callers of one host, one caller of two, and one of one.      *)
EXTENDS UserPool, PeerConnections

CONSTANTS c1, c2, h1, h2    \* the processes that connect

VARIABLE scene

\* Two players behind one host, and one elsewhere who shares a port.
ThreeAddresses ==
  {[host |-> "here", port |-> "u1"], [host |-> "here", port |-> "u2"],
   [host |-> "there", port |-> "u1"]}

TwoCallers == {c1, c2}
TwoHosts == {h1, h2}
OneGuest == {c1}

\* Hosts with two slots that admit one caller, and callers with one slot.
RoomForTwo == [p \in Peers |-> IF p \in Hosts THEN 2 ELSE 1]
AdmitOne == [p \in Peers |-> IF p \in Hosts THEN 1 ELSE 0]

budget(c, s, l, o, r) ==
  [close |-> c, send |-> s, lose |-> l, outage |-> o, restart |-> r]
BudgetsOf(where) ==
  CASE where = "two callers" ->
         {budget(1, 0, 0, 0, 0), budget(0, 1, 0, 0, 1), budget(0, 0, 1, 1, 0), budget(0, 0, 1, 0, 1)}
    [] where = "a pair" -> {budget(2, 1, 0, 0, 0), budget(1, 1, 1, 1, 1)}
    [] OTHER -> {budget(1, 0, 0, 0, 0)}
Scenes == {"pool", "two callers", "two hosts", "a pair"}
Disturbances == UNION {BudgetsOf(where) : where \in Scenes}

ASSUME NetAssumption == PeersAssumption

poolVars == vars

\* Who asks whom in a scene.
Asks ==
  CASE scene = "two callers" -> TwoCallers \X {h1}
    [] scene = "two hosts" -> {c1} \X TwoHosts
    [] OTHER -> {<<c1, h1>>}

ScenesInit ==
  /\ scene \in Scenes
  /\ Init /\ PeersInit /\ left \in BudgetsOf(scene)

ScenesNext ==
  \/ scene = "pool" /\ Next /\ UNCHANGED <<scene, peerVars>>
  \/ /\ scene # "pool" /\ PeersNext /\ UNCHANGED <<scene, poolVars>>
     /\ \A p \in Callers, q \in Hosts : q \in waiting'[p] => <<p, q>> \in Asks

ScenesSpec == ScenesInit /\ [][ScenesNext]_<<scene, poolVars, peerVars>>
=============================================================================
