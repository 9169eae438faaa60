------------------------------ MODULE UserPool ------------------------------
(***************************************************************************)
(* The packet loop of one running server and its pool of users.            *)
(*                                                                         *)
(* A client connects, shakes hands, sends its user name once (validation)  *)
(* and then sends requests; RakNet delivers the packets of a connection in *)
(* order, and main() takes one packet of any client every 30 ms            *)
(* (lwoWorld.cpp, lwoPacketHandler.cpp).  The server knows a client only   *)
(* through the pool, a map from the UDP port of the sender to the user     *)
(* that was validated from there: Insert never replaces an entry, nothing  *)
(* calls Remove, and no packet carries the name again.  Connections come   *)
(* and go meanwhile, and their last packets may still be in the queue.     *)
(***************************************************************************)
EXTENDS Integers, Sequences

CONSTANTS
  Addresses,    \* SystemAddresses clients connect from, [host, port]
  Names,        \* user names clients log in with
  Nobody,       \* not a name
  Accounts,     \* the names that have a row in `accounts`
  CharServer,   \* TRUE on port 2002, FALSE on any other port
  Requests,     \* the kinds of request that clients send here
  MaxConnects,  \* bound: connections made during a behaviour
  MaxQueue      \* bound: packets waiting in the receive queue

ListKinds == {"create", "list"}              \* answered with the minifig list
UserKinds == ListKinds \cup {"login", "load"}     \* dereference the user
QuietKinds == {"chat", "game", "position"}        \* do not, and send nothing

ASSUME PoolAssumption ==
  /\ \A a \in Addresses : DOMAIN a = {"host", "port"}
  /\ Nobody \notin Names /\ Accounts \subseteq Names
  /\ Requests \subseteq UserKinds \cup QuietKinds
  /\ CharServer \in BOOLEAN
  /\ MaxConnects \in Nat /\ MaxQueue \in Nat

VARIABLES
  stage,     \* how far the client at each address is in the protocol
  as,        \* the name it logs in with on this connection
  queue,     \* packets received from the network and not handled yet
  Users,     \* the pool, lwoUserPool::Users
  shown,     \* names whose account was shown on this connection
  usedBy,    \* history: names that were sent to the server from each port
  connects   \* connections made so far

clientVars == <<stage, as, connects>>
vars == <<clientVars, queue, Users, shown, usedBy>>

UdpPorts == {a.port : a \in Addresses}
Versions == {"equal", "other"}
Kinds == {"handshake", "validate", "bye"} \cup UserKinds \cup QuietKinds
Packet == [from : Addresses, kind : Kinds, name : Names \cup {Nobody},
           version : Versions]

\* "off": not connected.  "shaking": sent its version.  "confirmed": was told
\* that the version is right.  "validated": sent its name.  "loading": was
\* told to load the zone.
Stages == {"off", "connected", "shaking", "confirmed", "validated", "loading"}

Init ==
  /\ stage = [a \in Addresses |-> "off"]
  /\ as = [a \in Addresses |-> Nobody]
  /\ queue = <<>>
  /\ Users = [k \in {} |-> Nobody]
  /\ shown = [a \in Addresses |-> {}]
  /\ usedBy = [k \in UdpPorts |-> {}]
  /\ connects = 0

-----------------------------------------------------------------------------
(* The clients and the network between them and the queue *)

Enqueue(packet) ==
  /\ Len(queue) < MaxQueue
  /\ queue' = Append(queue, packet)

Bare(a, kind) == [from |-> a, kind |-> kind, name |-> Nobody,
                  version |-> "equal"]

Connect(a, n) ==
  /\ stage[a] = "off" /\ connects < MaxConnects
  /\ stage' = [stage EXCEPT ![a] = "connected"]
  /\ as' = [as EXCEPT ![a] = n]
  /\ shown' = [shown EXCEPT ![a] = {}]
  /\ connects' = connects + 1
  /\ UNCHANGED <<queue, Users, usedBy>>

\* The connection is closed or lost; the server only sees a notification.
Disconnect(a) ==
  /\ stage[a] # "off"
  /\ Enqueue(Bare(a, "bye"))
  /\ stage' = [stage EXCEPT ![a] = "off"]
  /\ UNCHANGED <<as, Users, shown, usedBy, connects>>

SendHandshake(a, v) ==
  /\ stage[a] = "connected"
  /\ Enqueue([Bare(a, "handshake") EXCEPT !.version = v])
  /\ stage' = [stage EXCEPT ![a] = "shaking"]
  /\ UNCHANGED <<as, Users, shown, usedBy, connects>>

SendValidation(a) ==
  /\ stage[a] = "confirmed"
  /\ Enqueue([Bare(a, "validate") EXCEPT !.name = as[a]])
  /\ stage' = [stage EXCEPT ![a] = "validated"]
  /\ usedBy' = [usedBy EXCEPT ![a.port] = @ \cup {as[a]}]
  /\ UNCHANGED <<as, Users, shown, connects>>

\* On the character server nothing answers a validation, and the client goes
\* on at once; on a zone server it waits until it is told to load the zone.
SendRequest(a, kind) ==
  /\ stage[a] = IF CharServer THEN "validated" ELSE "loading"
  /\ Enqueue(Bare(a, kind))
  /\ UNCHANGED <<clientVars, Users, shown, usedBy>>

-----------------------------------------------------------------------------
(* One pass of the loop: the first packet of the queue is handled to its end *)

\* Slip: clients are told apart by their host.
KeyByHost(a) == a.host

\* Users are kept under the port of their address.
Key(a) == a.port

Known(a) == Key(a) \in DOMAIN Users

\* lwoUserPool::Find.  Past the end it reads a value that was never written;
\* a handler that uses it may see any user.
Found(a) == IF Known(a) THEN {Users[Key(a)]} ELSE Names

\* Slip: the entry of the port is replaced.
Replace(a, n) ==
  Users' = [k \in DOMAIN Users \cup {Key(a)} |->
              IF k = Key(a) THEN n ELSE Users[k]]

\* Slip: only names that have an account are let in.
InsertAccounts(a, n) ==
  Users' = [k \in DOMAIN Users \cup (IF n \in Accounts THEN {Key(a)} ELSE {})
              |-> IF k \in DOMAIN Users THEN Users[k] ELSE n]

\* lwoUserPool::Insert: unordered_map::insert, which keeps what is there.  A
\* name without an account is let in as well, with account id 0.
Insert(a, n) ==
  Users' = [k \in DOMAIN Users \cup {Key(a)} |->
              IF k \in DOMAIN Users THEN Users[k] ELSE n]

Take(kind) ==
  /\ queue # <<>> /\ Head(queue).kind \in kind
  /\ queue' = Tail(queue)

\* An answer reaches the client if it still is at the stage that waits for it.
Advance(a, from, to) ==
  stage' = IF stage[a] = from THEN [stage EXCEPT ![a] = to] ELSE stage

\* doHandshake: a client of another version gets no answer.
Handshake ==
  /\ Take({"handshake"})
  /\ IF Head(queue).version = "equal"
       THEN Advance(Head(queue).from, "shaking", "confirmed")
       ELSE UNCHANGED stage
  /\ UNCHANGED <<as, Users, shown, usedBy, connects>>

\* Slip: the test of the port is negated, and a zone server stays silent.
ValidateInverted ==
  /\ Take({"validate"})
  /\ Insert(Head(queue).from, Head(queue).name)
  /\ IF CharServer THEN Advance(Head(queue).from, "validated", "loading")
                   ELSE UNCHANGED stage
  /\ UNCHANGED <<as, shown, usedBy, connects>>

\* validateClient: the user is put in the pool and, unless this is the
\* character server, told to load the zone.  The lookup before it, which
\* usually fails, is not used.
Validate ==
  /\ Take({"validate"})
  /\ Insert(Head(queue).from, Head(queue).name)
  /\ IF CharServer THEN UNCHANGED stage
                   ELSE Advance(Head(queue).from, "validated", "loading")
  /\ UNCHANGED <<as, shown, usedBy, connects>>

\* createNewMinifig and sendMinifigureList show the account of the user; what
\* they send goes to whoever is connected from the address by now.
Answer ==
  /\ Take(ListKinds)
  /\ \E user \in Found(Head(queue).from) :
       shown' = IF stage[Head(queue).from] = "off" THEN shown
                ELSE [shown EXCEPT ![Head(queue).from] = @ \cup {user}]
  /\ UNCHANGED <<clientVars, Users, usedBy>>

\* The other handlers and the notifications show no account and change
\* nothing here: clientLoginRequest and clientSideLoadComplete read the user
\* for the log, chat is sent to no address, a disconnection is only printed.
Ignore ==
  /\ Take({"login", "load", "bye"} \cup QuietKinds)
  /\ UNCHANGED <<clientVars, Users, shown, usedBy>>

Receive == Handshake \/ Validate \/ Answer \/ Ignore

Next ==
  \/ \E a \in Addresses :
       \/ \E n \in Names : Connect(a, n)
       \/ Disconnect(a)
       \/ \E v \in Versions : SendHandshake(a, v)
       \/ SendValidation(a)
       \/ \E kind \in Requests : SendRequest(a, kind)
  \/ Receive

Spec == Init /\ [][Next]_vars

\* main() polls the queue for as long as the server runs.
Fairness == WF_vars(Receive)
FairSpec == Spec /\ Fairness

-----------------------------------------------------------------------------
(* Properties *)

TypeOK ==
  /\ stage \in [Addresses -> Stages]
  /\ as \in [Addresses -> Names \cup {Nobody}]
  /\ queue \in Seq(Packet)
  /\ DOMAIN Users \subseteq UdpPorts /\ \A k \in DOMAIN Users : Users[k] \in Names
  /\ shown \in [Addresses -> SUBSET Names]
  /\ usedBy \in [UdpPorts -> SUBSET Names]
  /\ connects \in Nat

\* Find never runs past the end of the pool for a handler that uses what it
\* returns: a client's requests come after its own validation, also when it
\* left and its packets are handled after the connection is gone, and a
\* validation leaves an entry whether or not the name has an account.
LookupFindsAUser ==
  queue # <<>> /\ Head(queue).kind \in UserKinds => Known(Head(queue).from)

\* A client is only shown accounts of names that logged in from its own UDP
\* port: whatever is left in the queue and in the pool by others, a client on
\* a port nobody else uses sees its own account and no other.
ShowsAccountsOfOwnPort ==
  \A a \in Addresses : shown[a] \subseteq usedBy[a.port]

\* The pool is faithful to the first comer: once two names have logged in
\* from a port, no client is ever shown both of them.
OneAccountPerPort ==
  \A a, b \in Addresses : \A m \in shown[a], n \in shown[b] :
    a.port = b.port => m = n

\* A client that sent its name to a zone server is told to load the zone, or
\* leaves first: its validation is taken from the queue however many packets
\* of other clients and of earlier connections are before it.
ClientGetsOn ==
  ~CharServer => \A a \in Addresses :
    stage[a] = "validated" ~> stage[a] \in {"loading", "off"}

=============================================================================
