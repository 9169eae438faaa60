---------------------------- MODULE MCEventually ----------------------------
(* What must eventually happen, for TLC.  Four systems that share no state *)
(* are looked at side by side: a behaviour is about one of them, its scene, *)
(* and the others stay as they started.                                     *)
EXTENDS LoginJourney

VARIABLES
  scene,        \* "journey", "pool", "layer" or "net"
  stage, as, queue, Users, shown, usedBy, connects,
  plan, sendPacketSet, snd, resendQueue, resendList, rcv, wire, acksOnWire, lost, asked, course,
  slots, lookup, requests, cancelling, handling, clashed, commands, banned, offline, sent,
  joined, waiting, left

OneAccount == {[name |-> "Ann", password |-> "x", banned |-> FALSE]}
OneLogin == {[name |-> "Ann", password |-> "x"]}
NoFolding == [n \in {"Ann"} |-> n]

\* A zone server and two hosts whose clients happen to use the same port.
Zone == INSTANCE UserPool WITH
  Addresses <- {[host |-> "here", port |-> "u1"], [host |-> "there", port |-> "u1"]},
  Names <- {"alice", "bob"}, Nobody <- "nobody", Accounts <- {"alice"},
  CharServer <- FALSE, Requests <- {"load"}, MaxConnects <- 3, MaxQueue <- 3

\* Two reliable messages on a network that loses datagrams; the numbers wrap.
Lossy ==
  [menu |-> {[pri |-> 1, rel |-> "RELIABLE_ORDERED", ch |-> 0, size |-> 1],
             [pri |-> 1, rel |-> "RELIABLE", ch |-> 0, size |-> 1]}, sends |-> 2,
   room |-> 2, wait |-> 1, starts |-> {3}, repeats |-> FALSE, losses |-> 2]
Layer == INSTANCE ReliabilityLayer WITH
  Plans <- {Lossy}, MaxSends <- 2, Backlog <- 2, Channels <- {0},
  Whole <- 1, Piece <- 1, NumMod <- 4, OrdMod <- 8, SplitMod <- 4, HoleLimit <- 100,
  GiveUp <- 0, Timeout <- 1

\* A caller and a host; datagrams get lost, the connection breaks, one of the
\* two starts again, or the caller is banned for speaking too early.
Net == INSTANCE PeerConnections WITH
  Callers <- {"c"}, Hosts <- {"s"}, Guests <- {"c"},
  Slots <- [p \in {"c", "s"} |-> 1], Limit <- [p \in {"c", "s"} |-> IF p = "s" THEN 1 ELSE 0],
  MaxRequests <- 1,
  Budgets <- {[close |-> 0, send |-> 0, lose |-> 1, outage |-> 1, restart |-> 0],
              [close |-> 0, send |-> 0, lose |-> 1, outage |-> 0, restart |-> 1],
              [close |-> 0, send |-> 1, lose |-> 1, outage |-> 0, restart |-> 0]}

poolVars == <<stage, as, queue, Users, shown, usedBy, connects>>
layerVars == <<plan, sendPacketSet, snd, resendQueue, resendList, rcv, wire,
               acksOnWire, lost, asked, course>>
netVars == <<slots, lookup, requests, cancelling, handling, clashed, commands, banned,
             offline, sent, joined, waiting, left>>
everything == <<scene, journeyVars, poolVars, layerVars, netVars>>

StartOfScenes ==
  /\ scene \in {"journey", "pool", "layer", "net"}
  /\ JourneyInit /\ Zone!Init /\ Layer!Init /\ Net!PeersInit
  /\ scene # "net" => left.restart = 1    \* one beginning for the other scenes

StepOfScene ==
  \/ scene = "journey" /\ JourneyNext /\ UNCHANGED <<scene, poolVars, layerVars, netVars>>
  \/ scene = "pool" /\ Zone!Next /\ UNCHANGED <<scene, journeyVars, layerVars, netVars>>
  \/ scene = "layer" /\ Layer!Next /\ UNCHANGED <<scene, journeyVars, poolVars, netVars>>
  \/ scene = "net" /\ Net!PeersNext /\ UNCHANGED <<scene, journeyVars, poolVars, layerVars>>

SceneSpec ==
  /\ StartOfScenes /\ [][StepOfScene]_everything
  /\ JourneyFairness /\ Zone!Fairness /\ Layer!Fairness /\ Net!PeersFairness
  \* the caller tries again when its connection is gone
  /\ WF_netVars(scene = "net" /\ "s" \notin joined["c"] /\ Net!SendConnectionRequest("c", "s"))

ClientGetsOn == Zone!ClientGetsOn
GetsThrough == Layer!GetsThrough
ConnectedInTheEnd == Net!ConnectedInTheEnd
=============================================================================
