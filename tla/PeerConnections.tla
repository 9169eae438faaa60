-------------------------- MODULE PeerConnections --------------------------
(* RakPeer: how processes open, accept, refuse, close and lose connections. *)
(* A caller asks with small datagrams outside any connection; the host puts *)
(* it in a slot of remoteSystemList and the two shake hands over that slot. *)
(* The datagrams of the asking may be lost; what goes through a slot is     *)
(* repeated by the reliability layer until it arrives, in any order.        *)
(* A process has two threads, the application's and the network's, and both *)
(* look for an attempt under a mutex and remove it when they have left it.  *)
EXTENDS Naturals, FiniteSets, SequencesExt

CONSTANTS
  Callers,         \* addresses of processes that call Connect
  Hosts,           \* addresses of processes that accept connections
  Guests,          \* the callers that know the password of the hosts
  Slots,           \* Slots[p]: maximumNumberOfPeers, given to Startup
  Limit,           \* Limit[p]: maximumIncomingConnections
  MaxRequests,     \* MAX_OPEN_CONNECTION_REQUESTS
  Budgets          \* bounds: how often the rest of the world may interfere

Peers == Callers \cup Hosts

PeersAssumption ==
  /\ Callers \cap Hosts = {} /\ Guests \subseteq Callers
  /\ Slots \in [Peers -> Nat \ {0}] /\ Limit \in [Peers -> Nat]
  /\ \A p \in Peers : Limit[p] <= Slots[p]
  /\ MaxRequests \in Nat \ {0}
  /\ Budgets \subseteq [close : Nat, send : Nat, lose : Nat, outage : Nat, restart : Nat]

VARIABLES
  slots,       \* remoteSystemList: by process, its slots in use or free
  lookup,      \* remoteSystemLookup: by process, the slot of an address, or 0
  requests,    \* requestedConnectionQueue: by process, a sequence of [to, made]
  cancelling,  \* the entry the application's thread is about to remove, or Idle
  handling,    \* the entry the network thread is at work with, or Idle
  clashed,     \* whether the two threads were at work on the queue together
  commands,    \* bufferedCommands: what the application asked to be sent
  banned,      \* banList
  offline,     \* datagrams outside connections on their way: [from, to, id]
  sent,        \* messages within connections not yet delivered: [from, to, id]
  joined,      \* what the application was told: with whom it is connected,
  waiting,     \* and whose answer to Connect it still waits for
  left         \* what is left of the budget: [close, send, lose, outage, restart]

threads == <<cancelling, handling, clashed>>
peerVars == <<slots, lookup, requests, commands, banned, offline, sent, joined, waiting,
              left, threads>>

Handshaking == {"UNVERIFIED_SENDER", "REQUESTED_CONNECTION", "HANDLING_CONNECTION_REQUEST"}
Ending == {"DISCONNECT_ASAP", "DISCONNECT_ASAP_SILENTLY", "DISCONNECT_ON_NO_ACK"}
Free == [mode |-> "FREE"]
Idle == [do |-> "nothing"]
Request == [to : Peers, made : 0..MaxRequests]
Cancel == [do : {"cancel"}, to : Peers, at : Nat]
Work == [do : {"reply", "refusal", "retry", "drop"}, rcs : Request, at : Nat]
Slot == [peer : Peers, mode : Handshaking \cup Ending \cup {"CONNECTED"}, ours : BOOLEAN]
Refusals == {"NO_FREE_INCOMING_CONNECTIONS", "ALREADY_CONNECTED", "CONNECTION_BANNED"}

Uses(what) == left[what] > 0 /\ left' = [left EXCEPT ![what] = @ - 1]

Active(p) == {i \in 1..Slots[p] : slots[p][i] # Free}
Asked(p, q) == \E k \in DOMAIN requests[p] : requests[p][k].to = q
Datagram(p, q, id) == [from |-> p, to |-> q, id |-> id]

PeersInit ==
  /\ slots = [p \in Peers |-> [i \in 1..Slots[p] |-> Free]]
  /\ lookup = [p \in Peers |-> [q \in Peers |-> 0]]
  /\ requests = [p \in Peers |-> <<>>]
  /\ cancelling = [p \in Peers |-> Idle]
  /\ handling = [p \in Peers |-> Idle]
  /\ clashed = [p \in Peers |-> FALSE]
  /\ commands = [p \in Peers |-> <<>>]
  /\ banned = [p \in Peers |-> {}]
  /\ offline = {} /\ sent = {}
  /\ joined = [p \in Peers |-> {}]
  /\ waiting = [p \in Peers |-> {}]
  /\ left \in Budgets
-----------------------------------------------------------------------------
\* The table of slots.

\* The slot AssignSystemAddressToRemoteSystemList would give out, or 0.
FreeSlot(p) ==
  LET free == 1..Slots[p] \ Active(p)
  IN IF free = {} THEN 0 ELSE CHOOSE i \in free : \A j \in free : i <= j

Put(p, i, slot) ==
  /\ slots' = [slots EXCEPT ![p][i] = slot]
  /\ lookup' = [lookup EXCEPT ![p][slot.peer] = i]

SetMode(p, i, mode) ==
  slots' = [slots EXCEPT ![p][i].mode = mode] /\ UNCHANGED lookup

\* Slip: the address stays in the table that finds slots by address.
ForgetOnlyTheSlot(p, i) ==
  /\ slots' = [slots EXCEPT ![p][i] = Free]
  /\ sent' = {m \in sent : ~(m.from = p /\ m.to = slots[p][i].peer)}
  /\ UNCHANGED lookup

\* The connection is forgotten and its slot can be used again.  What it had
\* still to deliver is not repeated any more.
Forget(p, i) ==
  LET q == slots[p][i].peer
  IN /\ slots' = [slots EXCEPT ![p][i] = Free]
     /\ lookup' = [lookup EXCEPT ![p][q] = 0]
     /\ sent' = {m \in sent : ~(m.from = p /\ m.to = q)}

\* What SendImmediate hands to a connection: nothing when there is none, or
\* when it is about to end.
Messages(p, q, id) ==
  IF lookup[p][q] # 0 /\ slots[p][lookup[p][q]].mode \notin Ending \cup {"FREE"}
  THEN {Datagram(p, q, id)} ELSE {}

\* What is on its way between two processes.
Among(datagrams, p, q) ==
  {m \in datagrams : (m.from = p /\ m.to = q) \/ (m.from = q /\ m.to = p)}
UnderWay(p, q) == Among(offline, p, q)
Between(p, q) == Among(sent, p, q)

AllowIncomingConnections(p) ==
  Cardinality({i \in Active(p) : slots[p][i].mode = "CONNECTED" /\ ~slots[p][i].ours})
    < Limit[p]
-----------------------------------------------------------------------------
\* The queue of attempts.  Entry k is found under requestedConnectionQueueMutex;
\* the mutex is released before the entry is used, freed and removed.

First(p, q, k) ==
  /\ k \in DOMAIN requests[p] /\ requests[p][k].to = q
  /\ \A j \in 1..(k - 1) : requests[p][j].to # q

\* One thread works on the queue while the other is at work with an entry.
Clash(p, together) == clashed' = [clashed EXCEPT ![p] = @ \/ together]

\* A thread with this entry is about to remove it.
Removing(work) ==
  work # Idle /\ (work.do = "retry" => work.rcs.made = MaxRequests)

\* What an unlocked RemoveAtIndex may leave: nothing happens when there is no
\* entry k; beside the other thread the step back of the tail may get lost.
RemovedAt(p, k, beside) ==
  IF k \notin DOMAIN requests[p] THEN {requests[p]}
  ELSE {RemoveAt(requests[p], k)} \cup
       (IF Removing(beside)
        THEN {Append(RemoveAt(requests[p], k), Last(requests[p]))} ELSE {})

\* Push is locked, but a removal is not: beside one, it may get lost.
Pushed(p, request) ==
  {Append(requests[p], request)} \cup (IF Removing(handling[p]) THEN {requests[p]} ELSE {})

\* The network thread finds the entry of q, or finds none; it may overlook one
\* the application's thread is moving.
Finds(p, q, what) ==
  /\ \/ \E k \in DOMAIN requests[p] :
          First(p, q, k) /\ handling' = [handling EXCEPT ![p] =
                                 [do |-> what, rcs |-> requests[p][k], at |-> k]]
     \/ (~Asked(p, q) \/ cancelling[p] # Idle) /\ UNCHANGED handling
  /\ Clash(p, cancelling[p] # Idle) /\ UNCHANGED <<requests, cancelling>>

\* It removes what is at the index it found.
Removes(p) ==
  /\ requests' \in {[requests EXCEPT ![p] = rest] :
                      rest \in RemovedAt(p, handling[p].at, cancelling[p])}
  /\ handling' = [handling EXCEPT ![p] = Idle]
  /\ UNCHANGED <<cancelling, clashed>>
-----------------------------------------------------------------------------
\* The application.

SendConnectionRequest(p, q) ==
  /\ cancelling[p] = Idle
  /\ ~\E i \in Active(p) : slots[p][i].peer = q
  /\ ~Asked(p, q)
  /\ requests' \in {[requests EXCEPT ![p] = queue] : queue \in Pushed(p, [to |-> q, made |-> 0])}
  /\ waiting' = [waiting EXCEPT ![p] = @ \cup {q}]
  /\ Clash(p, Removing(handling[p]))
  /\ UNCHANGED <<slots, lookup, commands, banned, offline, sent, joined, left,
                 cancelling, handling>>

AsksToClose(p, q) ==
  commands' = [commands EXCEPT ![p] = Append(@, [do |-> "close", to |-> q])]

\* CloseConnection with a notification, of a connection or of an attempt.
CloseConnection(p, q) ==
  /\ cancelling[p] = Idle
  /\ q \in joined[p] \cup waiting[p] /\ Uses("close")
  /\ waiting' = [waiting EXCEPT ![p] = @ \ {q}]
  /\ \/ /\ \E k \in DOMAIN requests[p] :
             First(p, q, k) /\ cancelling' = [cancelling EXCEPT ![p] =
                                    [do |-> "cancel", to |-> q, at |-> k]]
        /\ UNCHANGED commands
     \/ /\ ~Asked(p, q) \/ Removing(handling[p])     \* none, or overlooked
        /\ AsksToClose(p, q) /\ UNCHANGED cancelling
  /\ Clash(p, handling[p] # Idle)
  /\ UNCHANGED <<slots, lookup, requests, banned, offline, sent, joined, handling>>

\* It frees and removes what is at the index it found.
CancelAttempt(p) ==
  /\ cancelling[p] # Idle
  /\ requests' \in {[requests EXCEPT ![p] = rest] :
                      rest \in RemovedAt(p, cancelling[p].at, handling[p])}
  /\ AsksToClose(p, cancelling[p].to)
  /\ cancelling' = [cancelling EXCEPT ![p] = Idle]
  /\ UNCHANGED <<slots, lookup, banned, offline, sent, joined, waiting, left,
                 handling, clashed>>

\* Send asks for no connection: an application may be too early.
Send(p, q) ==
  /\ cancelling[p] = Idle
  /\ q \in joined[p] \cup waiting[p] /\ Uses("send")
  /\ commands' = [commands EXCEPT ![p] = Append(@, [do |-> "send", to |-> q])]
  /\ UNCHANGED <<slots, lookup, requests, banned, offline, sent, joined, waiting, threads>>
-----------------------------------------------------------------------------
\* The network thread: datagrams outside connections.

SendAnswer(p, d, id) == offline' = (offline \ {d}) \cup {Datagram(p, d.from, id)}

\* A banned address gets one answer to whatever it sends.
TurnAway(p, d) ==
  /\ handling[p] = Idle
  /\ d \in offline \cup sent /\ d.to = p /\ d.from \in banned[p]
  /\ SendAnswer(p, d, "CONNECTION_BANNED")
  /\ UNCHANGED <<slots, lookup, requests, commands, banned, sent, joined, waiting, left, threads>>

Hears(p, d, ids) ==
  /\ handling[p] = Idle
  /\ d \in offline /\ d.to = p /\ d.id \in ids /\ d.from \notin banned[p]

\* The host is ready: the caller takes a slot and asks for the connection.
OpenConnectionReply(p, d) ==
  /\ Hears(p, d, {"OPEN_CONNECTION_REPLY"})
  /\ offline' = offline \ {d}
  /\ Finds(p, d.from, "reply")
  /\ UNCHANGED <<slots, lookup, commands, banned, sent, joined, waiting, left>>

RequestConnection(p) ==
  /\ handling[p].do = "reply"
  /\ LET q == handling[p].rcs.to
         i == IF lookup[p][q] # 0 THEN lookup[p][q] ELSE FreeSlot(p)
     IN \/ /\ i # 0
           /\ Put(p, i, [peer |-> q, mode |-> "REQUESTED_CONNECTION", ours |-> TRUE])
           /\ sent' = sent \cup {Datagram(p, q, "CONNECTION_REQUEST")}
           /\ UNCHANGED waiting
        \/ /\ i = 0      \* ID_CONNECTION_ATTEMPT_FAILED
           /\ waiting' = [waiting EXCEPT ![p] = @ \ {q}]
           /\ UNCHANGED <<slots, lookup, sent>>
  /\ Removes(p)
  /\ UNCHANGED <<commands, banned, offline, joined, left>>

\* A refusal cancels the attempt; the application is told the reason.
Refused(p, d) ==
  /\ Hears(p, d, Refusals)
  /\ offline' = offline \ {d}
  /\ Finds(p, d.from, "refusal")
  /\ UNCHANGED <<slots, lookup, commands, banned, sent, joined, waiting, left>>

TellRefusal(p) ==
  /\ handling[p].do = "refusal"
  /\ Removes(p)
  /\ waiting' = [waiting EXCEPT ![p] = @ \ {handling[p].rcs.to}]
  /\ UNCHANGED <<slots, lookup, commands, banned, offline, sent, joined, left>>

\* The first datagram of a caller takes a slot of the host.  While the two
\* shake hands another one is not answered.
OpenConnectionRequest(p, d) ==
  /\ Hears(p, d, {"OPEN_CONNECTION_REQUEST"})
  /\ LET q == d.from   i == lookup[p][q]   free == FreeSlot(p)
     IN \/ /\ i = 0 /\ free # 0
           /\ Put(p, free, [peer |-> q, mode |-> "UNVERIFIED_SENDER", ours |-> FALSE])
           /\ SendAnswer(p, d, "OPEN_CONNECTION_REPLY")
        \/ /\ i = 0 /\ free = 0
           /\ SendAnswer(p, d, "NO_FREE_INCOMING_CONNECTIONS")
           /\ UNCHANGED <<slots, lookup>>
        \/ /\ i # 0 /\ slots[p][i].ours
           /\ SendAnswer(p, d, "OPEN_CONNECTION_REPLY")
           /\ UNCHANGED <<slots, lookup>>
        \/ /\ i # 0 /\ ~slots[p][i].ours
           /\ IF slots[p][i].mode \in {"CONNECTED", "DISCONNECT_ASAP", "DISCONNECT_ASAP_SILENTLY"}
              THEN SendAnswer(p, d, "ALREADY_CONNECTED") ELSE offline' = offline \ {d}
           /\ UNCHANGED <<slots, lookup>>
  /\ UNCHANGED <<requests, commands, banned, sent, joined, waiting, left, threads>>
-----------------------------------------------------------------------------
\* The network thread: what the application asked for, and the attempts.

RunCommand(p) ==
  /\ handling[p] = Idle /\ commands[p] # <<>>
  /\ LET c == Head(commands[p])   i == lookup[p][c.to]
     IN /\ sent' = sent \cup
             Messages(p, c.to, IF c.do = "send" THEN "DATA" ELSE "DISCONNECTION_NOTIFICATION")
        /\ IF c.do = "close" /\ i # 0 THEN SetMode(p, i, "DISCONNECT_ASAP")
           ELSE UNCHANGED <<slots, lookup>>
  /\ commands' = [commands EXCEPT ![p] = Tail(@)]
  /\ UNCHANGED <<requests, banned, offline, joined, waiting, left, threads>>

\* An attempt is looked at when its time has come.  It is repeated a number of
\* times, then it has failed; that is long after the last answer to it came,
\* unless the network is away for long.
Retry(p, k) ==
  /\ handling[p] = Idle /\ k \in DOMAIN requests[p]
  /\ LET r == requests[p][k]
     IN /\ IF r.made = MaxRequests /\ UnderWay(p, r.to) # {} THEN Uses("outage")
           ELSE UNCHANGED left
        /\ handling' = [handling EXCEPT ![p] = [do |-> "retry", rcs |-> r, at |-> k]]
  /\ Clash(p, cancelling[p] # Idle)
  /\ UNCHANGED <<slots, lookup, requests, commands, banned, offline, sent, joined, waiting,
                 cancelling>>

\* The record is written to, wherever the queue has it by now.
Resend(p) ==
  /\ handling[p].do = "retry" /\ handling[p].rcs.made < MaxRequests
  /\ LET rcs == handling[p].rcs
     IN /\ requests' = [requests EXCEPT ![p] = [k \in DOMAIN @ |->
             IF @[k] = rcs THEN [rcs EXCEPT !.made = @ + 1] ELSE @[k]]]
        /\ offline' = offline \cup {Datagram(p, rcs.to, "OPEN_CONNECTION_REQUEST")}
  /\ handling' = [handling EXCEPT ![p] = Idle]
  /\ UNCHANGED <<slots, lookup, commands, banned, sent, joined, waiting, left,
                 cancelling, clashed>>

\* Slip: a failed attempt is taken from the queue without a word.
GiveUpQuietly(p) ==
  /\ handling[p].do = "retry" /\ handling[p].rcs.made = MaxRequests
  /\ Removes(p)
  /\ UNCHANGED <<slots, lookup, commands, banned, offline, sent, joined, waiting, left>>

GiveUp(p) ==
  /\ handling[p].do = "retry" /\ handling[p].rcs.made = MaxRequests
  /\ Removes(p)
  /\ waiting' = [waiting EXCEPT ![p] = @ \ {handling[p].rcs.to}]
  /\ UNCHANGED <<slots, lookup, commands, banned, offline, sent, joined, left>>

-----------------------------------------------------------------------------
\* The network thread: the slots.

\* Nothing is on its way that could take the handshake of a slot further.
Stuck(p, q) ==
  /\ ~\E d \in offline : d.from = p /\ d.to = q /\ d.id = "OPEN_CONNECTION_REPLY"
  /\ ~(handling[q].do = "reply" /\ handling[q].rcs.to = p)
  /\ Between(p, q) = {} \/ lookup[q][p] = 0 \/ p \in banned[q]

\* Slip: an idle connection is not tried with a ping.
EndsWithoutPing(p, i) ==
  LET q == slots[p][i].peer   mode == slots[p][i].mode
  IN \/ mode \in Ending \ {"DISCONNECT_ON_NO_ACK"} /\ ~\E m \in sent : m.from = p /\ m.to = q
     \/ mode = "DISCONNECT_ON_NO_ACK"
     \/ mode \in Handshaking /\ Stuck(p, q)

\* Why a connection ends: nothing it sends is answered, what it wanted to say
\* has been said, or the handshake takes too long.
Ends(p, i) ==
  LET q == slots[p][i].peer   mode == slots[p][i].mode
  IN \/ (lookup[q][p] = 0 \/ p \in banned[q]) /\ mode \notin Handshaking
     \/ mode \in Ending \ {"DISCONNECT_ON_NO_ACK"} /\ ~\E m \in sent : m.from = p /\ m.to = q
     \/ mode = "DISCONNECT_ON_NO_ACK"
     \/ mode \in Handshaking /\ Stuck(p, q)

\* The application is told of the end of what it was told of, and of the end
\* of its own attempt.
Drop(p, i) ==
  /\ handling[p] = Idle /\ i \in Active(p)
  /\ \/ Ends(p, i) /\ UNCHANGED left
     \/ ~Ends(p, i) /\ Uses("outage")     \* the network is away for long
  /\ LET q == slots[p][i].peer   mode == slots[p][i].mode
     IN /\ IF mode \in {"UNVERIFIED_SENDER", "HANDLING_CONNECTION_REQUEST"}
           THEN UNCHANGED <<joined, waiting>>
           ELSE /\ joined' = [joined EXCEPT ![p] = @ \ {q}]
                /\ waiting' = [waiting EXCEPT ![p] = @ \ {q}]
        /\ Finds(p, q, "drop")
  /\ Forget(p, i)
  /\ UNCHANGED <<commands, banned, offline>>

\* CloseConnectionInternal also cancels an attempt; beside a slot there is one
\* only after a clash.
DropAttempt(p) ==
  /\ handling[p].do = "drop"
  /\ Removes(p)
  /\ UNCHANGED <<slots, lookup, commands, banned, offline, sent, joined, waiting, left>>

\* ParseConnectionRequestPacket
ParseConnectionRequest(p, i, m) ==
  LET q == m.from
      refuse(id) == /\ sent' = (sent \ {m}) \cup Messages(p, q, id)
                    /\ SetMode(p, i, "DISCONNECT_ASAP_SILENTLY")
  IN \/ ~AllowIncomingConnections(p) /\ refuse("NO_FREE_INCOMING_CONNECTIONS")
     \/ AllowIncomingConnections(p) /\ q \notin Guests /\ refuse("INVALID_PASSWORD")
     \/ /\ AllowIncomingConnections(p) /\ q \in Guests
        /\ sent' = (sent \ {m}) \cup Messages(p, q, "CONNECTION_REQUEST_ACCEPTED")
        /\ SetMode(p, i, "HANDLING_CONNECTION_REQUEST")

Arrives(p, i, m, ids) ==
  /\ handling[p] = Idle
  /\ m \in sent /\ m.to = p /\ m.id \in ids /\ m.from \notin banned[p]
  /\ i \in Active(p) /\ i = lookup[p][m.from]

Steady == <<requests, commands, offline, left, threads>>
AllIds == {"CONNECTION_REQUEST", "CONNECTION_REQUEST_ACCEPTED", "NEW_INCOMING_CONNECTION",
           "DISCONNECTION_NOTIFICATION", "NO_FREE_INCOMING_CONNECTIONS",
           "INVALID_PASSWORD", "DATA"}

\* A caller that has not introduced itself may only ask to be connected.
FirstMessage(p, i, m) ==
  /\ Arrives(p, i, m, AllIds) /\ slots[p][i].mode = "UNVERIFIED_SENDER"
  /\ \/ m.id = "CONNECTION_REQUEST" /\ ParseConnectionRequest(p, i, m) /\ UNCHANGED banned
     \/ /\ m.id # "CONNECTION_REQUEST"
        /\ slots' = [slots EXCEPT ![p][i] = Free]
        /\ lookup' = [lookup EXCEPT ![p][m.from] = 0]
        /\ sent' = sent \ {m}
        /\ banned' = [banned EXCEPT ![p] = @ \cup {m.from}]
  /\ UNCHANGED <<Steady, joined, waiting>>

Speaks(p, i, m, ids) == Arrives(p, i, m, ids) /\ slots[p][i].mode # "UNVERIFIED_SENDER"

ConnectionRequest(p, i, m) ==
  /\ Speaks(p, i, m, {"CONNECTION_REQUEST"})
  /\ \/ slots[p][i].mode = "REQUESTED_CONNECTION" /\ ParseConnectionRequest(p, i, m)
     \/ /\ slots[p][i].mode # "REQUESTED_CONNECTION"
        /\ sent' = (sent \ {m}) \cup Messages(p, m.from, "CONNECTION_REQUEST_ACCEPTED")
        /\ UNCHANGED <<slots, lookup>>
  /\ UNCHANGED <<Steady, banned, joined, waiting>>

NewIncomingConnection(p, i, m) ==
  /\ Speaks(p, i, m, {"NEW_INCOMING_CONNECTION"})
  /\ sent' = sent \ {m}
  /\ IF slots[p][i].mode \in {"HANDLING_CONNECTION_REQUEST", "REQUESTED_CONNECTION"}
     THEN /\ SetMode(p, i, "CONNECTED")
          /\ joined' = [joined EXCEPT ![p] = @ \cup {m.from}]
     ELSE UNCHANGED <<slots, lookup, joined>>
  /\ UNCHANGED <<Steady, banned, waiting>>

DisconnectionNotification(p, i, m) ==
  /\ Speaks(p, i, m, {"DISCONNECTION_NOTIFICATION"})
  /\ sent' = sent \ {m} /\ SetMode(p, i, "DISCONNECT_ON_NO_ACK")
  /\ UNCHANGED <<Steady, banned, joined, waiting>>

\* ID_CONNECTION_REQUEST_ACCEPTED: the caller is connected, and says so.
Accepted(p, i, m) ==
  /\ Speaks(p, i, m, {"CONNECTION_REQUEST_ACCEPTED"})
  /\ IF slots[p][i].mode \in {"HANDLING_CONNECTION_REQUEST", "REQUESTED_CONNECTION"}
     THEN /\ SetMode(p, i, "CONNECTED")
          /\ joined' = [joined EXCEPT ![p] = @ \cup {m.from}]
          /\ waiting' = [waiting EXCEPT ![p] = @ \ {m.from}]
          /\ sent' = (sent \ {m}) \cup {Datagram(p, m.from, "NEW_INCOMING_CONNECTION")}
     ELSE sent' = sent \ {m} /\ UNCHANGED <<slots, lookup, joined, waiting>>
  /\ UNCHANGED <<Steady, banned>>

\* Anything else is for the application; a refusal answers its Connect.
ForApplication(p, i, m) ==
  /\ Speaks(p, i, m, {"NO_FREE_INCOMING_CONNECTIONS", "INVALID_PASSWORD", "DATA"})
  /\ sent' = sent \ {m}
  /\ waiting' = [waiting EXCEPT ![p] = IF m.id = "DATA" THEN @ ELSE @ \ {m.from}]
  /\ UNCHANGED <<Steady, slots, lookup, banned, joined>>

ReadMessage(p, i, m) ==
  \/ FirstMessage(p, i, m) \/ ConnectionRequest(p, i, m) \/ NewIncomingConnection(p, i, m)
  \/ DisconnectionNotification(p, i, m) \/ Accepted(p, i, m) \/ ForApplication(p, i, m)
-----------------------------------------------------------------------------
\* The ban of an address ends by itself.
Unban(p) ==
  /\ banned[p] # {} /\ banned' = [banned EXCEPT ![p] = {}]
  /\ UNCHANGED <<slots, lookup, requests, commands, offline, sent, joined, waiting, left, threads>>

LoseDatagram ==
  /\ Uses("lose")
  /\ \E d \in offline : offline' = offline \ {d}
  /\ UNCHANGED <<slots, lookup, requests, commands, banned, sent, joined, waiting, threads>>

\* A process ends without a word (Shutdown with no time to say one, or a
\* crash) and is started again.  A clash over memory that is free is one reason.
Restart(p) ==
  /\ Uses("restart")
  /\ slots' = [slots EXCEPT ![p] = [i \in 1..Slots[p] |-> Free]]
  /\ lookup' = [lookup EXCEPT ![p] = [q \in Peers |-> 0]]
  /\ requests' = [requests EXCEPT ![p] = <<>>]
  /\ cancelling' = [cancelling EXCEPT ![p] = Idle]
  /\ handling' = [handling EXCEPT ![p] = Idle]
  /\ clashed' = [clashed EXCEPT ![p] = FALSE]
  /\ commands' = [commands EXCEPT ![p] = <<>>]
  /\ banned' = [banned EXCEPT ![p] = {}]
  /\ sent' = {m \in sent : m.from # p}
  /\ joined' = [joined EXCEPT ![p] = {}]
  /\ waiting' = [waiting EXCEPT ![p] = {}]
  /\ UNCHANGED offline

ReadDatagram(p, d) ==
  \/ TurnAway(p, d) \/ OpenConnectionReply(p, d) \/ Refused(p, d)
  \/ OpenConnectionRequest(p, d)

HandleAttempt(p) ==
  RequestConnection(p) \/ TellRefusal(p) \/ Resend(p) \/ GiveUp(p) \/ DropAttempt(p)

PeersNext ==
  \/ \E p \in Callers, q \in Hosts : SendConnectionRequest(p, q)
  \/ \E p, q \in Peers : CloseConnection(p, q) \/ Send(p, q)
  \/ \E p \in Peers :
       \/ \E d \in offline \cup sent : ReadDatagram(p, d)
       \/ RunCommand(p)
       \/ \E k \in DOMAIN requests[p] : Retry(p, k)
       \/ HandleAttempt(p) \/ CancelAttempt(p)
       \/ \E i \in 1..Slots[p] : Drop(p, i) \/ \E m \in sent : ReadMessage(p, i, m)
       \/ Unban(p) \/ Restart(p)
  \/ LoseDatagram

PeersSpec == PeersInit /\ [][PeersNext]_peerVars

\* Both threads keep running; that an application whose connection is
\* gone tries again is assumed where it is needed.
PeersFairness ==
  \A p \in Peers :
    /\ WF_peerVars(\E d \in offline : ReadDatagram(p, d))
    /\ WF_peerVars(RunCommand(p))
    /\ WF_peerVars(\E k \in DOMAIN requests[p] : Retry(p, k))
    /\ WF_peerVars(HandleAttempt(p))
    /\ WF_peerVars(CancelAttempt(p))
    /\ WF_peerVars(\E i \in 1..Slots[p] : i \in Active(p) /\ Ends(p, i) /\ Drop(p, i))
    /\ WF_peerVars(\E i \in 1..Slots[p], m \in sent : ReadMessage(p, i, m))
    /\ WF_peerVars(Unban(p))
-----------------------------------------------------------------------------
PeersTypeOK ==
  /\ slots = [p \in Peers |-> slots[p]]
  /\ \A p \in Peers : slots[p] \in [1..Slots[p] -> Slot \cup {Free}]
  /\ lookup \in [Peers -> [Peers -> Nat]]
  /\ \A p, q \in Peers : lookup[p][q] <= Slots[p]
  /\ requests \in [Peers -> Seq(Request)]
  /\ cancelling \in [Peers -> Cancel \cup {Idle}]
  /\ handling \in [Peers -> Work \cup {Idle}]
  /\ clashed \in [Peers -> BOOLEAN]
  /\ commands \in [Peers -> Seq([do : {"close", "send"}, to : Peers])]
  /\ banned \in [Peers -> SUBSET Peers]
  /\ joined \in [Peers -> SUBSET Peers] /\ waiting \in [Peers -> SUBSET Peers]
  /\ offline \subseteq [from : Peers, to : Peers, id :
        Refusals \cup {"OPEN_CONNECTION_REQUEST", "OPEN_CONNECTION_REPLY"}]
  /\ sent \subseteq [from : Peers, to : Peers, id : AllIds]
  /\ left \in [close : Nat, send : Nat, lose : Nat, outage : Nat, restart : Nat]

\* A slot is found by the address of the process in it, and by no other.
FoundByAddress(p) ==
  /\ \A i \in Active(p) : lookup[p][slots[p][i].peer] = i
  /\ \A q \in Peers : lookup[p][q] # 0 =>
       slots[p][lookup[p][q]] # Free /\ slots[p][lookup[p][q]].peer = q

\* What the application was told of a connection is so: it has been told of
\* every connection and, while its two threads have not clashed over an attempt,
\* of no handshake, each once, and has heard the end of those that are gone
\* (RakPeer.cpp:4804-4832, 4955-4985, 5155-5209), so that it never knows more
\* connected processes than it admits (RakPeer.cpp:2934, lwoWorld.cpp:132).
ApplicationKnows ==
  \A p \in Peers :
    /\ FoundByAddress(p)
    /\ \A i \in Active(p) :
         /\ slots[p][i].mode = "CONNECTED" => slots[p][i].peer \in joined[p]
         /\ slots[p][i].mode \in Handshaking /\ ~clashed[p] => slots[p][i].peer \notin joined[p]
    /\ \A q \in joined[p] : lookup[p][q] # 0

\* The attempt is in the queue, or has a slot whose end will be told.
WillBeAnswered(p, q) ==
  \/ Asked(p, q)
  \/ /\ lookup[p][q] # 0
     /\ slots[p][lookup[p][q]].mode \notin {"UNVERIFIED_SENDER", "HANDLING_CONNECTION_REQUEST"}

\* An application that waits for the answer to Connect is not forgotten, as long
\* as its two threads have not clashed over the queue of attempts, whatever else
\* is lost, refused, cancelled or closed (RakPeer.cpp:4026-4084, 4161-4241,
\* 4563-4634, 4788-4832).
NobodyWaitsInVain ==
  \A p \in Peers : ~clashed[p] => \A q \in waiting[p] : WillBeAnswered(p, q)


\* What the documentation says and the code does not do: no more processes are
\* connected to a host than SetMaximumIncomingConnections allows
\* (RakPeerInterface.h:89-90).  A handshake does not count until it is
\* finished (RakPeer.cpp:3054), so two of them are let in together.
AdmitsUpToTheLimit ==
  \A p \in Hosts : Cardinality(joined[p]) <= Limit[p]

\* A caller that keeps trying is connected in the end, and its host knows it
\* to be: after lost datagrams, a dropped connection, a ban, or the end of
\* either process, the half that is left over is found out and given up
\* (RakPeer.cpp:4273-4289, 4743-4757, 4788-4797).
ConnectedInTheEnd ==
  \A p \in Guests, q \in Hosts :
    (q \in waiting[p]) ~> (q \in joined[p] /\ p \in joined[q])
=============================================================================
