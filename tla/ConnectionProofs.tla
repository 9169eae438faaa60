--------------------------- MODULE ConnectionProofs ---------------------------
(***************************************************************************)
(* The pool of users and the connections below it.                         *)
(*                                                                         *)
(* The safety of UserPool for every set of addresses and names and every   *)
(* length of the queue.  That a lookup finds a user is a fact about the    *)
(* order of the queue: before a packet whose handler needs the user there  *)
(* is, in the queue or in the past, a validation from the same port.       *)
(*                                                                         *)
(* Then what RakPeer's application is told of its connections, for any     *)
(* number of processes, slots and attempts.  A process sees its connection *)
(* with another in one phase at a time; the two tables that hold the       *)
(* phases are looked at once, for each of the three ways in which they     *)
(* change, and every handler is then a step of one pair from one phase to  *)
(* the next, or a step of one process with its queue of attempts.  What    *)
(* the two threads of a process do to that queue is followed as long as    *)
(* they have not clashed over it; after that nothing is claimed of it.     *)
(***************************************************************************)
EXTENDS UserPool, PeerConnections, TLAPS, FiniteSetTheorems, SequenceTheorems,
        WellFoundedInduction

\* What the operators on the queue do, position by position.
LEMMA AppendQueue ==
  ASSUME NEW S, NEW s \in Seq(S), NEW e \in S
  PROVE  /\ Append(s, e) \in Seq(S)
         /\ Len(Append(s, e)) = Len(s) + 1
         /\ \A i \in 1 .. Len(s) : Append(s, e)[i] = s[i]
         /\ Append(s, e)[Len(s) + 1] = e
OBVIOUS

LEMMA TailQueue ==
  ASSUME NEW S, NEW s \in Seq(S), s # <<>>
  PROVE  /\ Tail(s) \in Seq(S)
         /\ Len(Tail(s)) = Len(s) - 1 /\ Len(s) >= 1
         /\ \A i \in 1 .. Len(s) - 1 : Tail(s)[i] = s[i + 1]
         /\ Head(s) = s[1] /\ Head(s) \in S
OBVIOUS

LEMMA BarePacket ==
  ASSUME NEW a \in Addresses, NEW kind \in Kinds
  PROVE  Bare(a, kind) \in Packet
BY DEF Bare, Packet, Versions

-----------------------------------------------------------------------------
(* The inductive invariant *)

\* A connected client has a name, and a name in the queue was sent from the
\* port of its packet.
Named ==
  /\ \A a \in Addresses : stage[a] # "off" => as[a] \in Names
  /\ \A i \in 1 .. Len(queue) : queue[i].kind = "validate" =>
       queue[i].name \in usedBy[queue[i].from.port]

\* Among the first n packets of the queue is a validation from the port of a.
ValidatesBefore(a, n) ==
  \E j \in 1 .. n : queue[j].kind = "validate" /\ Key(queue[j].from) = Key(a)

\* A client that may send requests, and a request in the queue, are preceded
\* by a validation that is handled or ahead in the queue.
QueueIntroduced ==
  \A i \in 1 .. Len(queue) : queue[i].kind \in UserKinds =>
    Known(queue[i].from) \/ ValidatesBefore(queue[i].from, i - 1)
Backed(a) == Known(a) \/ ValidatesBefore(a, Len(queue))
Introduced ==
  /\ QueueIntroduced
  /\ \A a \in Addresses : stage[a] = "validated" => Backed(a)
  /\ \A a \in Addresses : stage[a] = "loading" => Known(a)

\* The pool holds a name of the port, and it is the only one shown there.
Faithful ==
  /\ \A k \in DOMAIN Users : k \in UdpPorts /\ Users[k] \in usedBy[k]
  /\ \A a \in Addresses : \A n \in shown[a] : Known(a) /\ n = Users[Key(a)]

PoolInv == TypeOK /\ Named /\ Introduced /\ Faithful

\* The facts about an address that every step below needs.
LEMMA AddressPort == ASSUME NEW a \in Addresses PROVE Key(a) \in UdpPorts
BY DEF Key, UdpPorts

LEMMA SentValidation ==
  ASSUME PoolInv, NEW a \in Addresses, stage[a] # "off"
  PROVE  /\ as[a] \in Names
         /\ [Bare(a, "validate") EXCEPT !.name = as[a]] \in Packet
         /\ [usedBy EXCEPT ![a.port] = @ \cup {as[a]}]
              \in [UdpPorts -> SUBSET Names]
<1>1. as[a] \in Names
  BY DEF PoolInv, Named
<1>2. [Bare(a, "validate") EXCEPT !.name = as[a]] \in Packet
  BY <1>1 DEF Bare, Packet, Versions, Kinds
<1>3. [usedBy EXCEPT ![a.port] = @ \cup {as[a]}] \in [UdpPorts -> SUBSET Names]
  BY <1>1 DEF PoolInv, TypeOK, UdpPorts
<1> QED  BY <1>1, <1>2, <1>3

LEMMA InsertType ==
  ASSUME PoolInv, NEW a \in Addresses, NEW n \in usedBy[a.port], Insert(a, n)
  PROVE  /\ DOMAIN Users' = DOMAIN Users \cup {Key(a)}
         /\ DOMAIN Users' \subseteq UdpPorts
         /\ \A k \in DOMAIN Users : Users'[k] = Users[k]
         /\ \A k \in DOMAIN Users' : Users'[k] \in Names
         /\ \A k \in DOMAIN Users' : Users'[k] \in usedBy[k]
<1>1. Key(a) = a.port /\ a.port \in UdpPorts
  BY DEF Key, UdpPorts
<1>2. n \in Names
  BY <1>1 DEF PoolInv, TypeOK
<1> QED  BY <1>1, <1>2 DEF Insert, PoolInv, TypeOK, Faithful

LEMMA TypeStep == PoolInv /\ [Next]_vars => TypeOK'
<1> SUFFICES ASSUME PoolInv, [Next]_vars PROVE TypeOK'
  OBVIOUS
<1> USE DEF clientVars
<1>0. TypeOK
  BY DEF PoolInv
<1>1. ASSUME NEW a \in Addresses, NEW n \in Names, Connect(a, n) PROVE TypeOK'
  <2>1. stage' \in [Addresses -> Stages]
    BY <1>0, <1>1 DEF Connect, Stages, TypeOK
  <2>2. as' \in [Addresses -> Names \cup {Nobody}]
    BY <1>0, <1>1 DEF Connect, TypeOK
  <2>3. shown' \in [Addresses -> SUBSET Names] /\ connects' \in Nat
    BY <1>0, <1>1 DEF Connect, TypeOK
  <2> QED  BY <1>0, <1>1, <2>1, <2>2, <2>3 DEF Connect, TypeOK
\* A client's packet joins the queue.
<1>S. ASSUME NEW packet \in Packet, Enqueue(packet),
             UNCHANGED <<as, Users, shown, connects>>,
             stage' \in [Addresses -> Stages],
             usedBy' \in [UdpPorts -> SUBSET Names]
      PROVE  TypeOK'
  BY <1>0, <1>S, AppendQueue DEF Enqueue, TypeOK
<1>2. ASSUME NEW a \in Addresses, Disconnect(a) PROVE TypeOK'
  <2>1. Bare(a, "bye") \in Packet
    BY BarePacket DEF Kinds
  <2>2. stage' \in [Addresses -> Stages]
    BY <1>0, <1>2 DEF Disconnect, Stages, TypeOK
  <2> QED  BY <1>0, <1>2, <2>1, <2>2, <1>S DEF Disconnect, TypeOK
<1>3. ASSUME NEW a \in Addresses, NEW v \in Versions, SendHandshake(a, v)
      PROVE  TypeOK'
  <2>1. [Bare(a, "handshake") EXCEPT !.version = v] \in Packet
    BY DEF Kinds, Packet, Bare, Versions
  <2>2. stage' \in [Addresses -> Stages]
    BY <1>0, <1>3 DEF SendHandshake, Stages, TypeOK
  <2> QED  BY <1>0, <1>3, <2>1, <2>2, <1>S DEF SendHandshake, TypeOK
<1>4. ASSUME NEW a \in Addresses, SendValidation(a) PROVE TypeOK'
  <2>1. stage' \in [Addresses -> Stages]
    BY <1>0, <1>4 DEF SendValidation, Stages, TypeOK
  <2> QED  BY <1>4, <2>1, <1>S, SentValidation DEF SendValidation
<1>5. ASSUME NEW a \in Addresses, NEW kind \in Requests, SendRequest(a, kind)
      PROVE  TypeOK'
  <2>1. Bare(a, kind) \in Packet
    BY BarePacket, PoolAssumption DEF Kinds
  <2> QED  BY <1>0, <1>5, <2>1, <1>S DEF SendRequest, TypeOK
\* The first packet leaves the queue.
<1>6. ASSUME NEW kinds, Take(kinds)
      PROVE  queue' \in Seq(Packet) /\ Head(queue).from \in Addresses
  <2>1. Head(queue) \in Packet /\ Tail(queue) \in Seq(Packet)
    BY <1>0, <1>6, TailQueue DEF Take, TypeOK
  <2> QED  BY <1>6, <2>1 DEF Take, Packet
<1>7. ASSUME NEW a \in Addresses, NEW from \in Stages, NEW to \in Stages,
             Advance(a, from, to)
      PROVE  stage' \in [Addresses -> Stages]
  BY <1>0, <1>7 DEF Advance, TypeOK
<1>8. CASE Handshake
  <2>1. stage' \in [Addresses -> Stages]
    BY <1>0, <1>6, <1>7, <1>8 DEF Handshake, Stages, TypeOK
  <2> QED  BY <1>0, <1>6, <1>8, <2>1 DEF Handshake, TypeOK
<1>9. CASE Validate
  <2>1. stage' \in [Addresses -> Stages]
    BY <1>0, <1>6, <1>7, <1>9 DEF Validate, Stages, TypeOK
  <2>2. Head(queue).name \in usedBy[Head(queue).from.port]
    BY <1>0, <1>9, TailQueue DEF Validate, Take, PoolInv, Named, TypeOK
  <2> QED  BY <1>0, <1>6, <1>9, <2>1, <2>2, InsertType DEF Validate, TypeOK
<1>10. CASE Answer
  <2>1. shown' \in [Addresses -> SUBSET Names]
    BY <1>0, <1>6, <1>10 DEF Answer, Found, Known, TypeOK
  <2> QED  BY <1>0, <1>6, <1>10, <2>1 DEF Answer, TypeOK
<1>11. CASE Ignore
  BY <1>0, <1>6, <1>11 DEF Ignore, TypeOK
<1>12. CASE UNCHANGED vars
  BY <1>0, <1>12 DEF vars, TypeOK
<1> QED
  BY <1>1, <1>2, <1>3, <1>4, <1>5, <1>8, <1>9, <1>10, <1>11, <1>12
     DEF Next, Receive

-----------------------------------------------------------------------------
(* The steps, by what they do to the queue *)

\* A packet joins the queue and the pool is left alone.
LEMMA Joining ==
  ASSUME PoolInv, NEW packet \in Packet, Enqueue(packet), UNCHANGED <<Users, as>>,
         \A k \in UdpPorts : usedBy[k] \subseteq usedBy'[k],
         \A a \in Addresses : stage'[a] # "off" => stage[a] # "off",
         packet.kind = "validate" => packet.name \in usedBy'[packet.from.port],
         packet.kind \in UserKinds =>
           stage[packet.from] \in {"validated", "loading"}
  PROVE  /\ Named'
         /\ \A a \in Addresses : Backed(a) => Backed(a)'
         /\ QueueIntroduced'
<1>0. queue \in Seq(Packet) /\ Len(queue) \in Nat
  BY DEF PoolInv, TypeOK
<1>1. /\ Len(queue') = Len(queue) + 1
      /\ \A i \in 1 .. Len(queue) : queue'[i] = queue[i]
      /\ queue'[Len(queue) + 1] = packet
  BY <1>0, AppendQueue DEF Enqueue
<1>2. \A i \in 1 .. Len(queue) : queue[i] \in Packet
  BY <1>0
<1>3. ASSUME NEW a \in Addresses, NEW n \in 0 .. Len(queue),
             Known(a) \/ ValidatesBefore(a, n)
      PROVE  Known(a)' \/ ValidatesBefore(a, n)'
  <2>1. \A j \in 1 .. n : queue'[j] = queue[j]
    BY <1>0, <1>1
  <2> QED  BY <1>3, <2>1 DEF ValidatesBefore, Known
<1>4. Named'
  <2>1. ASSUME NEW i \in 1 .. Len(queue'), queue'[i].kind = "validate"
        PROVE  queue'[i].name \in usedBy'[queue'[i].from.port]
    <3>1. CASE i = Len(queue) + 1
      BY <1>1, <2>1, <3>1
    <3>2. CASE i \in 1 .. Len(queue)
      <4>1. queue[i].from.port \in UdpPorts
        BY <1>2, <3>2 DEF Packet, UdpPorts
      <4> QED  BY <1>1, <2>1, <3>2, <4>1 DEF PoolInv, Named
    <3> QED  BY <1>0, <1>1, <3>1, <3>2
  <2> QED  BY <2>1 DEF PoolInv, Named
<1>5. ASSUME NEW a \in Addresses, Backed(a) PROVE Backed(a)'
  <2>1. Known(a)' \/ ValidatesBefore(a, Len(queue))'
    <3>1. Known(a) \/ \E j \in 1 .. Len(queue) :
            queue[j].kind = "validate" /\ Key(queue[j].from) = Key(a)
      BY <1>5 DEF Backed, ValidatesBefore
    <3>2. CASE Known(a)
      BY <3>2 DEF Known
    <3>3. ASSUME NEW j \in 1 .. Len(queue),
                 queue[j].kind = "validate" /\ Key(queue[j].from) = Key(a)
          PROVE  ValidatesBefore(a, Len(queue))'
      <4>1. j \in 1 .. Len(queue') /\ queue'[j] = queue[j]
        BY <1>0, <1>1
      <4> QED  BY <3>3, <4>1 DEF ValidatesBefore
    <3> QED  BY <3>1, <3>2, <3>3
  <2> QED  BY <2>1 DEF Backed
<1>6. QueueIntroduced'
  <2> SUFFICES ASSUME NEW i \in 1 .. Len(queue'), queue'[i].kind \in UserKinds,
                      NEW a, a = queue'[i].from
               PROVE  Known(a)' \/ ValidatesBefore(a, i - 1)'
    BY DEF QueueIntroduced
  <2>1. CASE i = Len(queue) + 1
    <3>1. a \in Addresses /\ stage[a] \in {"validated", "loading"}
      BY <1>1, <2>1 DEF Packet
    <3>2. Known(a) \/ ValidatesBefore(a, Len(queue))
      BY <3>1 DEF PoolInv, Introduced, Backed
    <3>3. i - 1 = Len(queue) /\ Len(queue) \in 0 .. Len(queue)
      BY <1>0, <2>1
    <3> QED  BY <1>3, <3>1, <3>2, <3>3
  <2>2. CASE i \in 1 .. Len(queue)
    <3>1. a \in Addresses /\ queue[i].kind \in UserKinds /\ a = queue[i].from
      BY <1>1, <1>2, <2>2 DEF Packet
    <3>2. Known(a) \/ ValidatesBefore(a, i - 1)
      BY <2>2, <3>1 DEF PoolInv, Introduced, QueueIntroduced
    <3>3. i - 1 \in 0 .. Len(queue)
      BY <1>0, <2>2
    <3> QED  BY <1>3, <3>1, <3>2, <3>3
  <2> QED  BY <1>0, <1>1, <2>1, <2>2
<1> QED  BY <1>4, <1>5, <1>6

\* The first packet is handled; if it is a validation, its port is known after.
LEMMA Leaving ==
  ASSUME PoolInv, NEW kinds, Take(kinds), UNCHANGED <<as, usedBy>>,
         DOMAIN Users \subseteq DOMAIN Users',
         Head(queue).kind = "validate" =>
           Key(Head(queue).from) \in DOMAIN Users',
         \A a \in Addresses : stage'[a] # "off" => stage[a] # "off"
  PROVE  /\ Named'
         /\ \A a \in Addresses : Backed(a) => Backed(a)'
         /\ QueueIntroduced'
<1>0. queue \in Seq(Packet) /\ Len(queue) \in Nat /\ queue # <<>>
  BY DEF PoolInv, TypeOK, Take
<1>1. /\ Len(queue') = Len(queue) - 1 /\ Len(queue) >= 1
      /\ \A i \in 1 .. Len(queue) - 1 : queue'[i] = queue[i + 1]
      /\ Head(queue) = queue[1]
  BY <1>0, TailQueue DEF Take
<1>2. \A i \in 1 .. Len(queue) : queue[i].from \in Addresses
  <2>1. \A i \in 1 .. Len(queue) : queue[i] \in Packet
    BY <1>0
  <2> QED  BY <2>1 DEF Packet
<1>3. ASSUME NEW a \in Addresses, NEW n \in 1 .. Len(queue),
             Known(a) \/ ValidatesBefore(a, n)
      PROVE  Known(a)' \/ ValidatesBefore(a, n - 1)'
  <2>1. CASE Known(a)
    BY <2>1 DEF Known
  <2>2. CASE ValidatesBefore(a, n)
    <3>1. PICK j \in 1 .. n : queue[j].kind = "validate"
                              /\ Key(queue[j].from) = Key(a)
      BY <2>2 DEF ValidatesBefore
    <3>2. CASE j = 1
      BY <1>1, <3>1, <3>2 DEF Known
    <3>3. CASE j # 1
      <4>1. j - 1 \in 1 .. n - 1 /\ queue'[j - 1] = queue[j]
        BY <1>0, <1>1, <3>3
      <4> QED  BY <3>1, <4>1 DEF ValidatesBefore
    <3> QED  BY <3>2, <3>3
  <2> QED  BY <1>3, <2>1, <2>2
<1>4. Named'
  <2>1. ASSUME NEW i \in 1 .. Len(queue'), queue'[i].kind = "validate"
        PROVE  queue'[i].name \in usedBy'[queue'[i].from.port]
    <3>1. i + 1 \in 1 .. Len(queue) /\ queue'[i] = queue[i + 1]
      BY <1>0, <1>1
    <3> QED  BY <2>1, <3>1 DEF PoolInv, Named
  <2> QED  BY <2>1 DEF PoolInv, Named
<1>5. QueueIntroduced'
  <2> SUFFICES ASSUME NEW i \in 1 .. Len(queue'), queue'[i].kind \in UserKinds,
                      NEW a, a = queue'[i].from
               PROVE  Known(a)' \/ ValidatesBefore(a, i - 1)'
    BY DEF QueueIntroduced
  <2>1. /\ i + 1 \in 1 .. Len(queue) /\ queue'[i] = queue[i + 1]
        /\ (i + 1) - 1 = i /\ i \in 1 .. Len(queue)
    BY <1>0, <1>1
  <2>2. Known(a) \/ ValidatesBefore(a, i)
    BY <2>1 DEF PoolInv, Introduced, QueueIntroduced
  <2>3. a \in Addresses
    BY <1>2, <2>1
  <2> QED  BY <1>3, <2>1, <2>2, <2>3
<1>6. ASSUME NEW a \in Addresses, Backed(a) PROVE Backed(a)'
  <2>1. Known(a) \/ ValidatesBefore(a, Len(queue))
    BY <1>6 DEF Backed
  <2>2. Known(a)' \/ ValidatesBefore(a, Len(queue))'
    <3>1. CASE Known(a)
      BY <3>1 DEF Known
    <3>2. CASE ~Known(a)
      <4>1. PICK j \in 1 .. Len(queue) :
              queue[j].kind = "validate" /\ Key(queue[j].from) = Key(a)
        BY <2>1, <3>2 DEF ValidatesBefore
      <4>2. CASE j = 1
        BY <1>1, <4>1, <4>2 DEF Known
      <4>3. CASE j # 1
        <5>1. j - 1 \in 1 .. Len(queue') /\ queue'[j - 1] = queue[j]
          BY <1>0, <1>1, <4>3
        <5> QED  BY <4>1, <5>1 DEF ValidatesBefore
      <4> QED  BY <4>2, <4>3
    <3> QED  BY <3>1, <3>2
  <2> QED  BY <2>2 DEF Backed
<1> QED  BY <1>4, <1>5, <1>6

LEMMA NamedIntroducedStep == PoolInv /\ [Next]_vars => Named' /\ Introduced'
<1> SUFFICES ASSUME PoolInv, [Next]_vars PROVE Named' /\ Introduced'
  OBVIOUS
<1> USE DEF clientVars
<1>0. TypeOK
  BY DEF PoolInv
<1>1. ASSUME NEW a \in Addresses, NEW n \in Names, Connect(a, n)
      PROVE  Named' /\ Introduced'
  <2>1. Named'
    BY <1>0, <1>1 DEF Connect, PoolInv, Named, TypeOK
  <2>2. QueueIntroduced' /\ \A b \in Addresses :
          (Known(b)' <=> Known(b)) /\ (Backed(b)' <=> Backed(b))
    BY <1>1 DEF Connect, PoolInv, Introduced, QueueIntroduced, Backed, Known,
                ValidatesBefore
  <2>3. \A b \in Addresses :
          stage'[b] = IF b = a THEN "connected" ELSE stage[b]
    BY <1>0, <1>1 DEF Connect, TypeOK
  <2>4. Introduced'
    BY <2>2, <2>3 DEF PoolInv, Introduced
  <2> QED  BY <2>1, <2>4
<1>2. ASSUME NEW a \in Addresses, Disconnect(a) PROVE Named' /\ Introduced'
  <2>1. /\ Bare(a, "bye") \in Packet
        /\ Bare(a, "bye").kind \notin UserKinds \cup {"validate"}
    BY BarePacket DEF Kinds, Bare, UserKinds, ListKinds
  <2>2. stage' = [stage EXCEPT ![a] = "off"]
    BY <1>2 DEF Disconnect
  <2>3. Named' /\ Introduced'
    BY <1>0, <1>2, <2>1, <2>2, Joining
       DEF Disconnect, PoolInv, Introduced, Known, TypeOK
  <2> QED  BY <2>3
<1>3. ASSUME NEW a \in Addresses, NEW v \in Versions, SendHandshake(a, v)
      PROVE  Named' /\ Introduced'
  <2> DEFINE packet == [Bare(a, "handshake") EXCEPT !.version = v]
  <2>1. packet \in Packet /\ packet.kind \notin UserKinds \cup {"validate"}
    BY DEF Kinds, Packet, Bare, Versions, UserKinds, ListKinds
  <2>2. stage' = [stage EXCEPT ![a] = "shaking"] /\ Enqueue(packet)
    BY <1>3 DEF SendHandshake
  <2> HIDE DEF packet
  <2>3. Named' /\ Introduced'
    BY <1>0, <1>3, <2>1, <2>2, Joining
       DEF SendHandshake, PoolInv, Introduced, Known, TypeOK
  <2> QED  BY <2>3
<1>4. ASSUME NEW a \in Addresses, SendValidation(a)
      PROVE  Named' /\ Introduced'
  <2> DEFINE packet == [Bare(a, "validate") EXCEPT !.name = as[a]]
  <2>1. /\ packet \in Packet /\ packet.kind = "validate"
        /\ packet.from = a /\ packet.name = as[a]
    BY <1>4, SentValidation DEF SendValidation, Bare
  <2>2. stage' = [stage EXCEPT ![a] = "validated"] /\ Enqueue(packet)
    BY <1>4 DEF SendValidation
  <2> HIDE DEF packet
  <2>3. usedBy' = [usedBy EXCEPT ![a.port] = @ \cup {as[a]}] /\ a.port \in UdpPorts
    BY <1>4 DEF SendValidation, UdpPorts
  <2>4. /\ \A k \in UdpPorts : usedBy[k] \subseteq usedBy'[k]
        /\ as[a] \in usedBy'[a.port]
    BY <1>0, <2>3 DEF TypeOK
  <2>5. packet.kind \notin UserKinds
    BY <2>1 DEF UserKinds, ListKinds
  <2>6. /\ Named'
        /\ \A b \in Addresses : Backed(b) => Backed(b)'
        /\ QueueIntroduced'
    BY <1>0, <1>4, <2>1, <2>2, <2>4, <2>5, Joining DEF SendValidation, TypeOK
  <2>7. ValidatesBefore(a, Len(queue))'
    <3>1. Len(queue') = Len(queue) + 1 /\ queue'[Len(queue) + 1] = packet
          /\ Len(queue) \in Nat
      BY <1>0, <2>1, <2>2, AppendQueue DEF Enqueue, TypeOK
    <3> QED  BY <2>1, <3>1 DEF ValidatesBefore
  <2>8. UNCHANGED Users
    BY <1>4 DEF SendValidation
  <2>9. Backed(a)' /\ \A b \in Addresses : Known(b) => Known(b)'
    BY <2>7, <2>8 DEF Backed, Known
  <2>10. \A b \in Addresses : stage'[b] = IF b = a THEN "validated" ELSE stage[b]
    BY <1>0, <2>2 DEF TypeOK
  <2> QED  BY <2>6, <2>9, <2>10 DEF PoolInv, Introduced
<1>5. ASSUME NEW a \in Addresses, NEW kind \in Requests, SendRequest(a, kind)
      PROVE  Named' /\ Introduced'
  <2> DEFINE packet == Bare(a, kind)
  <2>1. packet \in Packet /\ packet.kind # "validate" /\ packet.from = a
    BY BarePacket, PoolAssumption
       DEF Kinds, Bare, UserKinds, ListKinds, QuietKinds
  <2>2. stage[a] \in {"validated", "loading"} /\ Enqueue(packet)
    BY <1>5 DEF SendRequest
  <2> HIDE DEF packet
  <2>3. UNCHANGED <<stage, as, Users, usedBy>>
    BY <1>5 DEF SendRequest
  <2>4. /\ Named'
        /\ \A b \in Addresses : Backed(b) => Backed(b)'
        /\ QueueIntroduced'
    BY <2>1, <2>2, <2>3, Joining
  <2> QED  BY <2>3, <2>4 DEF PoolInv, Introduced, Known
<1>6. ASSUME Handshake PROVE Named' /\ Introduced'
  <2>1. Take({"handshake"}) /\ UNCHANGED <<as, Users, usedBy>>
        /\ Head(queue).kind # "validate"
    BY <1>6 DEF Handshake, Take
  <2>2. /\ \A a \in Addresses : stage'[a] # "off" => stage[a] # "off"
        /\ \A a \in Addresses : stage'[a] \in {"validated", "loading"} =>
             stage'[a] = stage[a]
    BY <1>0, <1>6 DEF Handshake, Advance, TypeOK
  <2> QED  BY <2>1, <2>2, Leaving DEF PoolInv, Introduced, Known
<1>7. ASSUME Validate PROVE Named' /\ Introduced'
  <2>1. Take({"validate"}) /\ UNCHANGED <<as, usedBy>>
        /\ Insert(Head(queue).from, Head(queue).name)
    BY <1>7 DEF Validate
  <2>2. Head(queue).from \in Addresses /\ Head(queue).kind = "validate"
    <3>1. Head(queue) \in Packet
      BY <1>0, <2>1, TailQueue DEF Take, TypeOK
    <3> QED  BY <2>1, <3>1 DEF Take, Packet
  <2>3. DOMAIN Users' = DOMAIN Users \cup {Key(Head(queue).from)}
    BY <2>1 DEF Insert
  <2>4. /\ \A a \in Addresses : stage'[a] # "off" => stage[a] # "off"
        /\ \A a \in Addresses : stage'[a] = "validated" => stage[a] = "validated"
        /\ \A a \in Addresses : stage'[a] = "loading" =>
             stage[a] = "loading" \/ a = Head(queue).from
    BY <1>0, <1>7 DEF Validate, Advance, TypeOK
  <2>5. Key(Head(queue).from) \in DOMAIN Users'
    BY <2>3
  <2>6. /\ Named'
        /\ \A a \in Addresses : Backed(a) => Backed(a)'
        /\ QueueIntroduced'
    BY <2>1, <2>2, <2>3, <2>4, <2>5, Leaving
  <2>7. \A a \in Addresses : Known(a) => Known(a)'
    BY <2>3 DEF Known
  <2>8. \A a \in Addresses : a = Head(queue).from => Known(a)'
    BY <2>5 DEF Known
  <2> QED  BY <2>4, <2>6, <2>7, <2>8 DEF PoolInv, Introduced
<1>8. ASSUME Answer \/ Ignore PROVE Named' /\ Introduced'
  <2>1. PICK kinds : Take(kinds) /\ "validate" \notin kinds
    <3>1. CASE Answer
      BY <3>1 DEF Answer, ListKinds
    <3>2. CASE Ignore
      <4>1. "validate" \notin {"login", "load", "bye"} \cup QuietKinds
        BY DEF QuietKinds
      <4> QED  BY <3>2, <4>1 DEF Ignore
    <3> QED  BY <1>8, <3>1, <3>2
  <2>2. UNCHANGED <<stage, as, Users, usedBy>> /\ Head(queue).kind # "validate"
    BY <1>8, <2>1 DEF Answer, Ignore, Take
  <2> QED  BY <2>1, <2>2, Leaving DEF PoolInv, Introduced, Known
<1>9. CASE UNCHANGED vars
  BY <1>9 DEF vars, PoolInv, Named, Introduced, QueueIntroduced, Backed, Known,
              ValidatesBefore
<1> QED
  BY <1>1, <1>2, <1>3, <1>4, <1>5, <1>6, <1>7, <1>8, <1>9 DEF Next, Receive

LEMMA FaithfulStep == PoolInv /\ [Next]_vars => Faithful'
<1> SUFFICES ASSUME PoolInv, [Next]_vars PROVE Faithful'
  OBVIOUS
<1> USE DEF clientVars
<1>0. TypeOK /\ Faithful
  BY DEF PoolInv
<1>1. ASSUME NEW a \in Addresses, NEW n \in Names, Connect(a, n)
      PROVE  Faithful'
  <2>1. \A b \in Addresses : shown'[b] \subseteq shown[b]
    BY <1>0, <1>1 DEF Connect, TypeOK
  <2> QED  BY <1>0, <1>1, <2>1 DEF Connect, Faithful, Known
<1>2. ASSUME NEW a \in Addresses, SendValidation(a) PROVE Faithful'
  <2>1. \A k \in UdpPorts : usedBy[k] \subseteq usedBy'[k]
    BY <1>0, <1>2 DEF SendValidation, TypeOK
  <2> QED  BY <1>0, <1>2, <2>1 DEF SendValidation, Faithful, Known
<1>3. ASSUME UNCHANGED <<Users, shown, usedBy>> PROVE Faithful'
  BY <1>0, <1>3 DEF Faithful, Known
<1>4. ASSUME Validate PROVE Faithful'
  <2>1. /\ Head(queue).from \in Addresses
        /\ Head(queue).name \in usedBy[Head(queue).from.port]
    <3>1. /\ queue \in Seq(Packet) /\ queue # <<>>
          /\ Head(queue).kind = "validate"
      BY <1>0, <1>4 DEF Validate, Take, TypeOK
    <3>2. Head(queue) = queue[1] /\ 1 \in 1 .. Len(queue)
          /\ Head(queue) \in Packet
      BY <3>1, TailQueue
    <3> QED  BY <3>1, <3>2 DEF PoolInv, Named, Packet
  <2>2. /\ DOMAIN Users' = DOMAIN Users \cup {Key(Head(queue).from)}
        /\ DOMAIN Users' \subseteq UdpPorts
        /\ \A k \in DOMAIN Users : Users'[k] = Users[k]
        /\ \A k \in DOMAIN Users' : Users'[k] \in usedBy[k]
    BY <1>4, <2>1, InsertType DEF Validate
  <2> QED  BY <1>0, <1>4, <2>2 DEF Validate, Faithful, Known
<1>5. ASSUME Answer PROVE Faithful'
  <2> DEFINE from == Head(queue).from
  <2>1. from \in Addresses /\ Known(from)
    <3>1. /\ queue \in Seq(Packet) /\ queue # <<>>
          /\ Head(queue).kind \in UserKinds
      BY <1>0, <1>5 DEF Answer, Take, TypeOK, UserKinds
    <3>2. Head(queue) = queue[1] /\ 1 \in 1 .. Len(queue)
          /\ Head(queue) \in Packet
      BY <3>1, TailQueue
    <3>3. from \in Addresses
      BY <3>2 DEF Packet
    <3>4. Known(from) \/ ValidatesBefore(from, 1 - 1)
      BY <3>1, <3>2 DEF PoolInv, Introduced, QueueIntroduced
    <3> QED  BY <3>3, <3>4 DEF ValidatesBefore
  <2>2. \A b \in Addresses : \A n \in shown'[b] :
          n \in shown[b] \/ (b = from /\ n = Users[Key(from)])
    BY <1>0, <1>5, <2>1 DEF Answer, Found, TypeOK
  <2> QED  BY <1>0, <1>5, <2>1, <2>2 DEF Answer, Faithful, Known
<1> QED
  BY <1>1, <1>2, <1>3, <1>4, <1>5
     DEF Next, Receive, vars, Disconnect, SendHandshake, SendRequest,
         Handshake, Ignore

LEMMA PoolInvCorrect == Spec => []PoolInv
<1>1. Init => PoolInv
  <2> SUFFICES ASSUME Init PROVE PoolInv
    OBVIOUS
  <2>1. TypeOK
    BY DEF Init, TypeOK, Stages
  <2>2. queue = <<>> /\ Len(queue) = 0
    BY DEF Init
  <2>3. Named /\ Introduced
    BY <2>2 DEF Init, Named, Introduced, QueueIntroduced
  <2>4. Faithful
    BY DEF Init, Faithful
  <2> QED  BY <2>1, <2>3, <2>4 DEF PoolInv
<1>2. PoolInv /\ [Next]_vars => PoolInv'
  BY TypeStep, NamedIntroducedStep, FaithfulStep DEF PoolInv
<1> QED  BY <1>1, <1>2, PTL DEF Spec

THEOREM TypeCorrect == Spec => []TypeOK
BY PoolInvCorrect, PTL DEF PoolInv

\* A handler that uses the user it is given is never given the end of the
\* pool: the requests of a client come after its validation, whatever
\* connections come and go meanwhile (lwoPacketHandler.cpp:66-107).
THEOREM LookupsSucceed == Spec => []LookupFindsAUser
<1>1. PoolInv => LookupFindsAUser
  <2> SUFFICES ASSUME PoolInv, queue # <<>>, Head(queue).kind \in UserKinds
               PROVE  Known(Head(queue).from)
    BY DEF LookupFindsAUser
  <2>1. Head(queue) = queue[1] /\ 1 \in 1 .. Len(queue)
    BY TailQueue DEF PoolInv, TypeOK
  <2>2. Known(Head(queue).from) \/ ValidatesBefore(Head(queue).from, 1 - 1)
    BY <2>1 DEF PoolInv, Introduced, QueueIntroduced
  <2> QED  BY <2>2 DEF ValidatesBefore
<1> QED  BY <1>1, PoolInvCorrect, PTL

\* Every account a client is shown belongs to a name that logged in from the
\* client's own UDP port (lwoUserPool.cpp:8-18).
THEOREM OwnPortOnly == Spec => []ShowsAccountsOfOwnPort
<1>1. PoolInv => ShowsAccountsOfOwnPort
  BY DEF PoolInv, Faithful, ShowsAccountsOfOwnPort, Known, Key
<1> QED  BY <1>1, PoolInvCorrect, PTL

\* All clients of one port are shown the account of the first name that
\* logged in from it (lwoUserPool.cpp:8-18).
THEOREM FirstComerOnly == Spec => []OneAccountPerPort
<1>1. PoolInv => OneAccountPerPort
  BY DEF PoolInv, Faithful, OneAccountPerPort, Known, Key
<1> QED  BY <1>1, PoolInvCorrect, PTL

-----------------------------------------------------------------------------
(* RakPeer *)

\* The two tables belong together.
Tables ==
  /\ slots = [p \in Peers |-> slots[p]]
  /\ \A p \in Peers : slots[p] \in [1..Slots[p] -> Slot \cup {Free}]
  /\ lookup \in [Peers -> [Peers -> Nat]]
  /\ \A p, q \in Peers : lookup[p][q] <= Slots[p]
  /\ \A p \in Peers : FoundByAddress(p)

\* How p sees its connection with q.
Phase(p, q) == IF lookup[p][q] = 0 THEN "FREE" ELSE slots[p][lookup[p][q]].mode

\* What the application of p was told of q, and what it waits for.  Only a
\* caller asks.  As long as its two threads have not clashed it has no slot for
\* a host it is asking, and no one is forgotten.
Standing(p, q) ==
  /\ Phase(p, q) = "CONNECTED" => q \in joined[p]
  /\ Phase(p, q) \in {"FREE", "UNVERIFIED_SENDER", "HANDLING_CONNECTION_REQUEST"} => q \notin joined[p]
  /\ Phase(p, q) = "REQUESTED_CONNECTION" => p \in Callers
  /\ Asked(p, q) => p \in Callers /\ q \in Hosts
  /\ ~clashed[p] =>
       /\ Phase(p, q) = "REQUESTED_CONNECTION" => q \notin joined[p]
       /\ Asked(p, q) => Phase(p, q) = "FREE"
       /\ q \in waiting[p] =>
            \/ Asked(p, q)
            \/ Phase(p, q) \notin {"FREE", "UNVERIFIED_SENDER", "HANDLING_CONNECTION_REQUEST"}

\* What a thread of p is at work with is an attempt of a caller.  As long as
\* the two threads have not clashed, each process is asked once, one thread at
\* most is at work, and its entry is where it was found.  What is cancelled is
\* not waited for; beside a connection there is no attempt to drop.
AtWork(p) ==
  /\ handling[p] # Idle => p \in Callers /\ handling[p].rcs.to \in Hosts
  /\ cancelling[p] # Idle => cancelling[p].to \notin waiting[p]
  /\ ~clashed[p] =>
       /\ \A j, k \in DOMAIN requests[p] : requests[p][j].to = requests[p][k].to => j = k
       /\ handling[p] = Idle \/ cancelling[p] = Idle
       /\ handling[p].do # "drop"
       /\ handling[p] # Idle => /\ handling[p].at \in DOMAIN requests[p]
                                /\ requests[p][handling[p].at] = handling[p].rcs
       /\ cancelling[p] # Idle => /\ cancelling[p].at \in DOMAIN requests[p]
                                  /\ requests[p][cancelling[p].at].to = cancelling[p].to

\* Requests go from callers to hosts.
Asking ==
  /\ \A d \in offline : d.id = "OPEN_CONNECTION_REQUEST" => d.from \in Callers /\ d.to \in Hosts
  /\ \A m \in sent : m.id = "CONNECTION_REQUEST" => m.from \in Callers /\ m.to \in Hosts

Inv ==
  /\ PeersTypeOK /\ Tables /\ Asking
  /\ \A p, q \in Peers : Standing(p, q)
  /\ \A p \in Peers : AtWork(p)

\* The pair p, q comes to a phase, and no other pair does.
Comes(p, q, phase) ==
  \A x, y \in Peers : Phase(x, y)' = IF x = p /\ y = q THEN phase ELSE Phase(x, y)

-----------------------------------------------------------------------------
(* The tables *)

\* A set of natural numbers has a least element.
LEMMA Smallest ==
  ASSUME NEW T, T \subseteq Nat, T # {}
  PROVE  \E x \in T : \A y \in T : x <= y
<1>1. \E x \in T : \A y \in T : ~(<<y, x>> \in OpToRel(<, Nat))
  BY WFMin, NatLessThanWellFounded
<1>2. PICK x \in T : \A y \in T : ~(<<y, x>> \in OpToRel(<, Nat))
  BY <1>1
<1>3. ASSUME NEW y \in T PROVE ~(y < x)
  BY <1>2 DEF OpToRel
<1> QED  BY <1>3

\* The slot that is given out is free.
LEMMA FreeSlotIsFree ==
  ASSUME PeersAssumption, NEW p \in Peers, FreeSlot(p) # 0
  PROVE  FreeSlot(p) \in 1..Slots[p] /\ slots[p][FreeSlot(p)] = Free
<1> DEFINE free == 1..Slots[p] \ Active(p)
<1>1. free # {}
  BY DEF FreeSlot
<1>2. \E i \in free : \A j \in free : i <= j
  BY <1>1, Smallest, free \subseteq Nat
<1>3. FreeSlot(p) \in free
  BY <1>1, <1>2 DEF FreeSlot
<1> QED  BY <1>3 DEF Active

\* An address has a slot, or none.
LEMMA SlotOfAddress ==
  ASSUME Tables, NEW p \in Peers, NEW q \in Peers
  PROVE  /\ Phase(p, q) = "FREE" <=> lookup[p][q] = 0
         /\ lookup[p][q] # 0 =>
              /\ lookup[p][q] \in Active(p) /\ slots[p][lookup[p][q]] \in Slot
              /\ slots[p][lookup[p][q]].peer = q
         /\ \A i \in Active(p) : slots[p][i] \in Slot /\ lookup[p][slots[p][i].peer] = i
         /\ \A i \in Active(p) : slots[p][i].peer = q => lookup[p][q] = i
<1>1. ASSUME lookup[p][q] # 0
      PROVE  /\ lookup[p][q] \in 1..Slots[p]
             /\ slots[p][lookup[p][q]] # Free /\ slots[p][lookup[p][q]].peer = q
  BY <1>1 DEF Tables, FoundByAddress
<1>2. \A i \in 1..Slots[p] : slots[p][i] # Free => slots[p][i] \in Slot
  BY DEF Tables
<1>3. ASSUME NEW i \in Active(p)
      PROVE slots[p][i] \in Slot /\ lookup[p][slots[p][i].peer] = i
  BY <1>2 DEF Tables, FoundByAddress, Active
<1>4. \A s \in Slot : s.mode # "FREE"
  BY DEF Slot, Handshaking, Ending
<1> QED  BY <1>1, <1>2, <1>3, <1>4 DEF Phase, Active

\* A slot is filled, or filled anew for the process that has it.
LEMMA PutKeeps ==
  ASSUME PeersAssumption, Tables, NEW p \in Peers, NEW i \in 1..Slots[p], NEW slot \in Slot,
         (slots[p][i] = Free /\ lookup[p][slot.peer] = 0) \/ lookup[p][slot.peer] = i,
         Put(p, i, slot)
  PROVE  Tables' /\ Comes(p, slot.peer, slot.mode)
<1> DEFINE q == slot.peer
<1>0. q \in Peers /\ slot # Free /\ i # 0 /\ i \in Nat /\ i <= Slots[p]
  BY DEF Slot, Free, Handshaking, Ending, PeersAssumption
<1>1. \A x \in Peers : slots'[x] = IF x = p THEN [slots[p] EXCEPT ![i] = slot] ELSE slots[x]
  BY DEF Put, Tables
<1>2. \A x, y \in Peers : lookup'[x][y] = IF x = p /\ y = q THEN i ELSE lookup[x][y]
  BY <1>0 DEF Put, Tables
<1>3. slots' = [x \in Peers |-> slots'[x]]
  BY DEF Put, Tables
<1>4. \A x \in Peers : slots'[x] \in [1..Slots[x] -> Slot \cup {Free}]
  <2> SUFFICES ASSUME NEW x \in Peers PROVE slots'[x] \in [1..Slots[x] -> Slot \cup {Free}]
    OBVIOUS
  <2>1. slots[x] \in [1..Slots[x] -> Slot \cup {Free}]
    BY DEF Tables
  <2>2. CASE x = p
    <3>1. [slots[p] EXCEPT ![i] = slot] \in [1..Slots[p] -> Slot \cup {Free}]
      BY <2>1, <2>2
    <3> QED  BY <1>1, <2>2, <3>1
  <2>3. CASE x # p
    BY <1>1, <2>1, <2>3
  <2> QED  BY <2>2, <2>3
<1>5. lookup' \in [Peers -> [Peers -> Nat]] /\ \A x, y \in Peers : lookup'[x][y] <= Slots[x]
  BY <1>0, <1>2 DEF Put, Tables
<1>6. \A j \in 1..Slots[p] : slots'[p][j] = IF j = i THEN slot ELSE slots[p][j]
  BY <1>1 DEF Tables
<1>7. \A x, y \in Peers : lookup[x][y] # 0 =>
        lookup[x][y] \in 1..Slots[x] /\ (x = p /\ lookup[x][y] = i => y = q)
  BY <1>0, SlotOfAddress DEF Active
<1>8. ASSUME NEW x \in Peers PROVE FoundByAddress(x)'
  <2>1. CASE x # p
    <3>1. slots'[x] = slots[x] /\ \A y \in Peers : lookup'[x][y] = lookup[x][y]
      BY <2>1, <1>1, <1>2
    <3>2. FoundByAddress(x) /\ \A j \in Active(x) : slots[x][j].peer \in Peers
      BY SlotOfAddress DEF Tables, Slot
    <3> QED  BY <3>1, <3>2 DEF FoundByAddress, Active
  <2>2. CASE x = p
    <3>1. \A j \in Active(p)' : lookup'[p][slots'[p][j].peer] = j
      <4> SUFFICES ASSUME NEW j \in 1..Slots[p], slots'[p][j] # Free
                   PROVE  lookup'[p][slots'[p][j].peer] = j
        BY DEF Active
      <4>1. CASE j = i
        BY <4>1, <1>0, <1>2, <1>6
      <4>2. CASE j # i
        <5>1. j \in Active(p) /\ slots'[p][j] = slots[p][j]
          BY <4>2, <1>6 DEF Active
        <5>2. slots[p][j] \in Slot /\ lookup[p][slots[p][j].peer] = j /\ j # 0
          BY <5>1, SlotOfAddress
        <5>3. slots[p][j].peer \in Peers /\ slots[p][j].peer # q
          BY <5>2, <4>2 DEF Slot
        <5> QED  BY <5>1, <5>2, <5>3, <1>2
      <4> QED  BY <4>1, <4>2
    <3>2. \A y \in Peers : lookup'[p][y] # 0 =>
            slots'[p][lookup'[p][y]] # Free /\ slots'[p][lookup'[p][y]].peer = y
      <4> SUFFICES ASSUME NEW y \in Peers, lookup'[p][y] # 0
                   PROVE  slots'[p][lookup'[p][y]] # Free /\ slots'[p][lookup'[p][y]].peer = y
        OBVIOUS
      <4>1. CASE y = q
        BY <4>1, <1>0, <1>2, <1>6
      <4>2. CASE y # q
        <5>1. lookup'[p][y] = lookup[p][y]
          BY <4>2, <1>2
        <5>2. slots'[p][lookup[p][y]] = slots[p][lookup[p][y]]
          BY <5>1, <4>2, <1>6, <1>7
        <5> QED  BY <5>1, <5>2 DEF FoundByAddress, Tables
      <4> QED  BY <4>1, <4>2
    <3> QED  BY <2>2, <3>1, <3>2 DEF FoundByAddress
  <2> QED  BY <2>1, <2>2
<1>9. Comes(p, q, slot.mode)
  BY <1>0, <1>1, <1>2, <1>6, <1>7 DEF Comes, Phase
<1> QED  BY <1>3, <1>4, <1>5, <1>8, <1>9 DEF Tables

LEMMA SetModeKeeps ==
  ASSUME PeersAssumption, Tables, NEW p \in Peers, NEW i \in Active(p),
         NEW mode \in Handshaking \cup Ending \cup {"CONNECTED"}, SetMode(p, i, mode)
  PROVE  Tables' /\ Comes(p, slots[p][i].peer, mode)
<1> DEFINE q == slots[p][i].peer   slot == [slots[p][i] EXCEPT !.mode = mode]
<1>0. /\ slots[p][i] \in Slot /\ q \in Peers /\ slot \in Slot /\ slot.peer = q
      /\ slot.mode = mode /\ slot # Free /\ lookup[p][q] = i /\ i \in 1..Slots[p] /\ i # 0
  BY SlotOfAddress DEF Slot, Free, Handshaking, Ending, Active
<1>1. \A x \in Peers : slots'[x] = IF x = p THEN [slots[p] EXCEPT ![i] = slot] ELSE slots[x]
  BY DEF SetMode, Tables
<1>2. slots' = [x \in Peers |-> slots'[x]] /\ lookup' = lookup
  BY DEF SetMode, Tables
<1>3. \A x \in Peers : slots'[x] \in [1..Slots[x] -> Slot \cup {Free}]
  <2> SUFFICES ASSUME NEW x \in Peers PROVE slots'[x] \in [1..Slots[x] -> Slot \cup {Free}]
    OBVIOUS
  <2>1. slots[x] \in [1..Slots[x] -> Slot \cup {Free}]
    BY DEF Tables
  <2>2. slot \in Slot \cup {Free} /\ i \in 1..Slots[p]
    BY <1>0
  <2>3. CASE x = p
    <3> HIDE DEF slot
    <3>1. [slots[p] EXCEPT ![i] = slot] \in [1..Slots[p] -> Slot \cup {Free}]
      BY <2>1, <2>2, <2>3
    <3> QED  BY <1>1, <2>3, <3>1
  <2>4. CASE x # p
    BY <1>1, <2>1, <2>4
  <2> QED  BY <2>3, <2>4
<1>4. \A j \in 1..Slots[p] : slots'[p][j] = IF j = i THEN slot ELSE slots[p][j]
  BY <1>1 DEF Tables
<1>5. \A x, y \in Peers : lookup[x][y] # 0 => lookup[x][y] \in 1..Slots[x]
  BY SlotOfAddress DEF Active
<1>6. \A y \in Peers : lookup[p][y] = i => y = q
  BY <1>0, SlotOfAddress
<1>7. ASSUME NEW x \in Peers PROVE FoundByAddress(x)'
  <2>1. CASE x # p
    <3>1. slots'[x] = slots[x] /\ \A y \in Peers : lookup'[x][y] = lookup[x][y]
      BY <2>1, <1>1, <1>2
    <3>2. FoundByAddress(x) /\ \A j \in Active(x) : slots[x][j].peer \in Peers
      BY SlotOfAddress DEF Tables, Slot
    <3> QED  BY <3>1, <3>2 DEF FoundByAddress, Active
  <2>2. CASE x = p
    <3>1. \A j \in 1..Slots[p] : /\ slots'[p][j] # Free <=> slots[p][j] # Free
                                 /\ slots[p][j] # Free => slots'[p][j].peer = slots[p][j].peer
      BY <1>0, <1>4 DEF Active
    <3>2. \A y \in Peers : lookup[p][y] # 0 => lookup[p][y] \in 1..Slots[p]
      BY <1>5
    <3>3. FoundByAddress(p)
      BY DEF Tables
    <3> QED  BY <2>2, <1>2, <3>1, <3>2, <3>3 DEF FoundByAddress, Active
  <2> QED  BY <2>1, <2>2
<1>8. Comes(p, q, mode)
  <2> SUFFICES ASSUME NEW x \in Peers, NEW y \in Peers
               PROVE  Phase(x, y)' = IF x = p /\ y = q THEN mode ELSE Phase(x, y)
    BY DEF Comes
  <2>1. CASE x = p /\ y = q
    BY <2>1, <1>0, <1>2, <1>4 DEF Phase
  <2>2. CASE x = p /\ y # q
    BY <2>2, <1>0, <1>2, <1>4, <1>5, <1>6 DEF Phase
  <2>3. CASE x # p
    BY <2>3, <1>1, <1>2 DEF Phase
  <2> QED  BY <2>1, <2>2, <2>3
<1> QED  BY <1>2, <1>3, <1>7, <1>8 DEF Tables

\* Forget, and the same for a caller that spoke too early.
LEMMA FreeingKeeps ==
  ASSUME PeersAssumption, Tables, NEW p \in Peers, NEW i \in Active(p),
         slots' = [slots EXCEPT ![p][i] = Free],
         lookup' = [lookup EXCEPT ![p][slots[p][i].peer] = 0]
  PROVE  Tables' /\ Comes(p, slots[p][i].peer, "FREE")
<1> DEFINE q == slots[p][i].peer
<1>0. q \in Peers /\ lookup[p][q] = i /\ i \in 1..Slots[p] /\ i # 0
  BY SlotOfAddress DEF Slot, Active
<1>1. \A x \in Peers : slots'[x] = IF x = p THEN [slots[p] EXCEPT ![i] = Free] ELSE slots[x]
  BY DEF Tables
<1>2. \A x, y \in Peers : lookup'[x][y] = IF x = p /\ y = q THEN 0 ELSE lookup[x][y]
  BY <1>0 DEF Tables
<1>3. slots' = [x \in Peers |-> slots'[x]]
  BY DEF Tables
<1>4. \A x \in Peers : slots'[x] \in [1..Slots[x] -> Slot \cup {Free}]
  <2> SUFFICES ASSUME NEW x \in Peers PROVE slots'[x] \in [1..Slots[x] -> Slot \cup {Free}]
    OBVIOUS
  <2>1. slots[x] \in [1..Slots[x] -> Slot \cup {Free}]
    BY DEF Tables
  <2>2. Free \in Slot \cup {Free} /\ i \in 1..Slots[p]
    BY <1>0
  <2>3. CASE x = p
    <3>1. [slots[p] EXCEPT ![i] = Free] \in [1..Slots[p] -> Slot \cup {Free}]
      BY <2>1, <2>2, <2>3
    <3> QED  BY <1>1, <2>3, <3>1
  <2>4. CASE x # p
    BY <1>1, <2>1, <2>4
  <2> QED  BY <2>3, <2>4
<1>5. lookup' \in [Peers -> [Peers -> Nat]] /\ \A x, y \in Peers : lookup'[x][y] <= Slots[x]
  BY <1>0, <1>2 DEF Tables, PeersAssumption
<1>6. \A j \in 1..Slots[p] : slots'[p][j] = IF j = i THEN Free ELSE slots[p][j]
  BY <1>1 DEF Tables
<1>7. \A x, y \in Peers : lookup[x][y] # 0 =>
        lookup[x][y] \in 1..Slots[x] /\ (x = p /\ lookup[x][y] = i => y = q)
  BY <1>0, SlotOfAddress DEF Active
<1>8. ASSUME NEW x \in Peers PROVE FoundByAddress(x)'
  <2>1. CASE x # p
    <3>1. slots'[x] = slots[x] /\ \A y \in Peers : lookup'[x][y] = lookup[x][y]
      BY <2>1, <1>1, <1>2
    <3>2. FoundByAddress(x) /\ \A j \in Active(x) : slots[x][j].peer \in Peers
      BY SlotOfAddress DEF Tables, Slot
    <3> QED  BY <3>1, <3>2 DEF FoundByAddress, Active
  <2>2. CASE x = p
    <3>1. \A j \in Active(p)' : lookup'[p][slots'[p][j].peer] = j
      <4> SUFFICES ASSUME NEW j \in 1..Slots[p], slots'[p][j] # Free
                   PROVE  lookup'[p][slots'[p][j].peer] = j
        BY DEF Active
      <4>1. j # i /\ j \in Active(p) /\ slots'[p][j] = slots[p][j]
        BY <1>6 DEF Active
      <4>2. slots[p][j] \in Slot /\ lookup[p][slots[p][j].peer] = j
        BY <4>1, SlotOfAddress
      <4>3. slots[p][j].peer \in Peers /\ slots[p][j].peer # q
        BY <4>1, <4>2, <1>0 DEF Slot
      <4> QED  BY <4>1, <4>2, <4>3, <1>2
    <3>2. \A y \in Peers : lookup'[p][y] # 0 =>
            slots'[p][lookup'[p][y]] # Free /\ slots'[p][lookup'[p][y]].peer = y
      <4> SUFFICES ASSUME NEW y \in Peers, lookup'[p][y] # 0
                   PROVE  slots'[p][lookup'[p][y]] # Free /\ slots'[p][lookup'[p][y]].peer = y
        OBVIOUS
      <4>1. CASE y = q
        BY <4>1, <1>0, <1>2, <1>6
      <4>2. CASE y # q
        <5>1. lookup'[p][y] = lookup[p][y]
          BY <4>2, <1>2
        <5>2. slots'[p][lookup[p][y]] = slots[p][lookup[p][y]]
          BY <5>1, <4>2, <1>6, <1>7
        <5> QED  BY <5>1, <5>2 DEF FoundByAddress, Tables
      <4> QED  BY <4>1, <4>2
    <3> QED  BY <2>2, <3>1, <3>2 DEF FoundByAddress
  <2> QED  BY <2>1, <2>2
<1>9. Comes(p, q, "FREE")
  BY <1>0, <1>1, <1>2, <1>6, <1>7 DEF Comes, Phase
<1> QED  BY <1>3, <1>4, <1>5, <1>8, <1>9 DEF Tables

-----------------------------------------------------------------------------
(* One pair moves, the others stay where they are *)

\* The types of the attempts and of what the two threads do with them.
Attempts ==
  /\ requests \in [Peers -> Seq(Request)]
  /\ cancelling \in [Peers -> Cancel \cup {Idle}]
  /\ handling \in [Peers -> Work \cup {Idle}]
  /\ clashed \in [Peers -> BOOLEAN]

\* The types of what is not in the tables.
Rest ==
  /\ Attempts
  /\ commands \in [Peers -> Seq([do : {"close", "send"}, to : Peers])]
  /\ banned \in [Peers -> SUBSET Peers]
  /\ joined \in [Peers -> SUBSET Peers] /\ waiting \in [Peers -> SUBSET Peers]
  /\ offline \subseteq [from : Peers, to : Peers, id :
        Refusals \cup {"OPEN_CONNECTION_REQUEST", "OPEN_CONNECTION_REPLY"}]
  /\ sent \subseteq [from : Peers, to : Peers, id : AllIds]
  /\ left \in [close : Nat, send : Nat, lose : Nat, outage : Nat, restart : Nat]

LEMMA TypesAre == PeersTypeOK /\ Tables <=> Tables /\ Rest
BY DEF PeersTypeOK, Tables, Rest, Attempts

Elsewhere(p, q) ==
  /\ \A x \in Peers : waiting'[x] \subseteq waiting[x]
  /\ \A x, y \in Peers : ~(x = p /\ y = q) => (y \in joined'[x] <=> y \in joined[x])

\* One pair moves; the attempts stay as they are.
LEMMA OnePairMoves ==
  ASSUME Inv, NEW p \in Peers, NEW q \in Peers, NEW phase,
         Tables', Comes(p, q, phase), Rest', Asking', Elsewhere(p, q), Standing(p, q)',
         UNCHANGED <<requests, threads>>
  PROVE  Inv'
<1>0. \A x, y \in Peers : Asked(x, y)' <=> Asked(x, y)
  BY DEF Asked
<1>1. ASSUME NEW x \in Peers, NEW y \in Peers PROVE Standing(x, y)'
  <2>1. CASE x = p /\ y = q
    BY <2>1
  <2>2. CASE ~(x = p /\ y = q)
    <3>1. Phase(x, y)' = Phase(x, y) /\ Standing(x, y)
      BY <2>2 DEF Comes, Inv
    <3>2. y \in waiting'[x] => y \in waiting[x]
      BY DEF Elsewhere
    <3>3. clashed' = clashed
      BY DEF threads
    <3> HIDE DEF Phase, Asked
    <3> QED  BY <1>0, <3>1, <3>2, <3>3, <2>2 DEF Elsewhere, Standing
  <2> QED  BY <2>1, <2>2
<1>2. PeersTypeOK'
  BY TypesAre, PTL
<1>3. ASSUME NEW x \in Peers PROVE AtWork(x)'
  <2>1. AtWork(x) /\ requests' = requests /\ cancelling' = cancelling /\ handling' = handling
        /\ clashed' = clashed /\ waiting'[x] \subseteq waiting[x]
    BY DEF threads, Inv, Elsewhere
  <2> QED  BY <2>1 DEF AtWork
<1> QED  BY <1>1, <1>2, <1>3 DEF Inv

\* Nothing changes for the processes but p.
OthersStay(p) ==
  \A x \in Peers : x # p =>
    /\ requests'[x] = requests[x] /\ cancelling'[x] = cancelling[x]
    /\ handling'[x] = handling[x] /\ clashed'[x] = clashed[x]
    /\ joined'[x] = joined[x] /\ waiting'[x] = waiting[x]
    /\ \A y \in Peers : Phase(x, y)' = Phase(x, y)

\* One process moves, with all its attempts.
LEMMA OneProcessMoves ==
  ASSUME Inv, NEW p \in Peers, Tables', Rest', Asking', OthersStay(p),
         \A y \in Peers : Standing(p, y)', AtWork(p)'
  PROVE  Inv'
<1>1. ASSUME NEW x \in Peers PROVE AtWork(x)' /\ \A y \in Peers : Standing(x, y)'
  <2>1. CASE x = p
    BY <2>1
  <2>2. CASE x # p
    <3>1. /\ requests'[x] = requests[x] /\ cancelling'[x] = cancelling[x]
          /\ handling'[x] = handling[x] /\ clashed'[x] = clashed[x]
          /\ joined'[x] = joined[x] /\ waiting'[x] = waiting[x]
          /\ \A y \in Peers : Phase(x, y)' = Phase(x, y)
      BY <2>2 DEF OthersStay
    <3>2. AtWork(x)'
      <4>1. AtWork(x)
        BY DEF Inv
      <4> QED  BY <3>1, <4>1 DEF AtWork
    <3>3. ASSUME NEW y \in Peers PROVE Standing(x, y)'
      <4>1. (Asked(x, y)' <=> Asked(x, y)) /\ Standing(x, y)
        BY <3>1 DEF Asked, Inv
      <4> HIDE DEF Phase, Asked
      <4> QED  BY <3>1, <4>1 DEF Standing
    <3> QED  BY <3>2, <3>3
  <2> QED  BY <2>1, <2>2
<1>2. PeersTypeOK'
  BY TypesAre, PTL
<1> QED  BY <1>1, <1>2 DEF Inv

LEMMA TablesStay ==
  ASSUME Tables, UNCHANGED <<slots, lookup>>
  PROVE  Tables' /\ \A x, y \in Peers : Phase(x, y)' = Phase(x, y)
BY DEF Tables, FoundByAddress, Active, Phase

LEMMA AllStay ==
  ASSUME Inv, UNCHANGED <<slots, lookup, requests, threads, joined, waiting>>, Rest', Asking'
  PROVE  Inv'
<1>1. Tables' /\ \A x, y \in Peers : Phase(x, y)' = Phase(x, y)
  BY TablesStay DEF Inv
<1>2. (\A x, y \in Peers : Asked(x, y)' <=> Asked(x, y)) /\ clashed' = clashed
  BY DEF Asked, threads
<1>3. \A x, y \in Peers : Standing(x, y)'
  BY <1>1, <1>2 DEF Standing, Inv
<1>4. PeersTypeOK'
  BY <1>1, TypesAre, PTL
<1>5. \A x \in Peers : AtWork(x)'
  BY DEF AtWork, threads, Inv
<1> QED  BY <1>1, <1>3, <1>4, <1>5 DEF Inv

-----------------------------------------------------------------------------
(* The attempts *)

\* What the two threads are at work with.
LEMMA WorkIs ==
  ASSUME Rest, NEW p \in Peers
  PROVE  /\ requests[p] \in Seq(Request) /\ clashed[p] \in BOOLEAN
         /\ \A k \in DOMAIN requests[p] :
              /\ requests[p][k] \in Request /\ requests[p][k].to \in Peers
              /\ k \in 1..Len(requests[p])
         /\ handling[p] = Idle \/ handling[p] \in Work
         /\ handling[p] # Idle => handling[p].rcs \in Request /\ handling[p].rcs.to \in Peers
         /\ cancelling[p] # Idle => cancelling[p] \in Cancel /\ cancelling[p].to \in Peers
<1>1. requests[p] \in Seq(Request) /\ clashed[p] \in BOOLEAN
  BY DEF Rest, Attempts
<1>2. \A k \in DOMAIN requests[p] : k \in 1..Len(requests[p]) /\ requests[p][k] \in Request
  BY <1>1
<1>3. handling[p] \in Work \cup {Idle} /\ cancelling[p] \in Cancel \cup {Idle}
  BY DEF Rest, Attempts
<1> QED  BY <1>1, <1>2, <1>3 DEF Request, Work, Cancel

LEMMA RemovingLeaves ==
  ASSUME NEW S, NEW s \in Seq(S), NEW k \in DOMAIN s
  PROVE  /\ RemoveAt(s, k) \in Seq(S) /\ Len(RemoveAt(s, k)) = Len(s) - 1
         /\ \A j \in 1..(Len(s) - 1) :
              RemoveAt(s, k)[j] = IF j < k THEN s[j] ELSE s[j + 1]
         /\ Last(s) \in S
<1> DEFINE a == SubSeq(s, 1, k - 1)   b == SubSeq(s, k + 1, Len(s))
<1>0. k \in 1..Len(s) /\ Len(s) \in Nat /\ \A j \in 1..Len(s) : s[j] \in S
  OBVIOUS
<1>1. a \in Seq(S) /\ Len(a) = k - 1 /\ \A j \in 1..(k - 1) : a[j] = s[j]
  <2>1. \A j \in 1..(k - 1) : s[j] \in S
    BY <1>0
  <2>2. 1 \in Int /\ k - 1 \in Int
    BY <1>0
  <2> QED  BY <1>0, <2>1, <2>2, SubSeqProperties
<1>2. b \in Seq(S) /\ Len(b) = Len(s) - k /\ \A j \in 1..(Len(s) - k) : b[j] = s[k + j]
  <2>1. \A j \in (k + 1)..Len(s) : s[j] \in S
    BY <1>0
  <2>2. k + 1 \in Int /\ Len(s) \in Int
    BY <1>0
  <2> QED  BY <1>0, <2>1, <2>2, SubSeqProperties
<1> DEFINE c == a \o b
<1> HIDE DEF a, b
<1>3. /\ c \in Seq(S) /\ Len(c) = Len(s) - 1
      /\ \A j \in 1..(Len(s) - 1) : c[j] = IF j <= k - 1 THEN a[j] ELSE b[j - (k - 1)]
  <2>1. /\ c \in Seq(S) /\ Len(c) = Len(a) + Len(b)
        /\ \A j \in 1..(Len(a) + Len(b)) : c[j] = IF j <= Len(a) THEN a[j] ELSE b[j - Len(a)]
    BY <1>1, <1>2, ConcatProperties
  <2> HIDE DEF c
  <2>2. Len(a) + Len(b) = Len(s) - 1
    BY <1>0, <1>1, <1>2
  <2> QED  BY <1>1, <2>1, <2>2
<1> HIDE DEF c
<1>4. ASSUME NEW j \in 1..(Len(s) - 1) PROVE c[j] = IF j < k THEN s[j] ELSE s[j + 1]
  <2>1. CASE j < k
    <3>1. j \in 1..(k - 1) /\ j <= k - 1
      BY <2>1, <1>0
    <3> QED  BY <2>1, <3>1, <1>1, <1>3
  <2>2. CASE ~(j < k)
    <3>1. c[j] = b[j - (k - 1)]
      BY <2>2, <1>0, <1>3
    <3>2. j - (k - 1) \in 1..(Len(s) - k) /\ k + (j - (k - 1)) = j + 1
      BY <2>2, <1>0
    <3> QED  BY <2>2, <1>2, <3>1, <3>2
  <2> QED  BY <2>1, <2>2
<1>5. RemoveAt(s, k) = c
  BY DEF RemoveAt, a, b, c
<1>6. Last(s) \in S
  BY <1>0 DEF Last
<1> QED  BY <1>3, <1>4, <1>5, <1>6

\* What a removal leaves are attempts that were there.  When no other thread
\* removes one and each process is asked once, all but the one that was meant
\* are left.
LEMMA RemovalKeeps ==
  ASSUME Rest, NEW p \in Peers, NEW at, NEW beside,
         requests' \in {[requests EXCEPT ![p] = rest] : rest \in RemovedAt(p, at, beside)}
  PROVE  /\ requests' \in [Peers -> Seq(Request)]
         /\ \A x \in Peers : x # p => requests'[x] = requests[x]
         /\ \A y : Asked(p, y)' => Asked(p, y)
         /\ /\ ~Removing(beside) /\ at \in DOMAIN requests[p]
            /\ \A j, k \in DOMAIN requests[p] : requests[p][j].to = requests[p][k].to => j = k
            => /\ \A j, k \in DOMAIN requests'[p] : requests'[p][j].to = requests'[p][k].to => j = k
               /\ \A y : Asked(p, y)' <=> Asked(p, y) /\ y # requests[p][at].to
<1> DEFINE s == requests[p]
<1>1. s \in Seq(Request) /\ requests \in [Peers -> Seq(Request)]
  BY DEF Rest, Attempts
<1>2. PICK rest \in RemovedAt(p, at, beside) : requests' = [requests EXCEPT ![p] = rest]
  OBVIOUS
<1>3. CASE at \notin DOMAIN s
  <2>1. rest = s
    BY <1>2, <1>3 DEF RemovedAt
  <2>2. requests' = requests
    BY <1>1, <1>2, <2>1
  <2> QED  BY <1>1, <1>3, <2>2 DEF Asked
<1>4. CASE at \in DOMAIN s
  <2> DEFINE r == RemoveAt(s, at)
  <2>1. /\ at \in 1..Len(s) /\ r \in Seq(Request) /\ Len(r) = Len(s) - 1 /\ Len(s) \in Nat
        /\ \A j \in 1..(Len(s) - 1) : r[j] = IF j < at THEN s[j] ELSE s[j + 1]
        /\ Last(s) \in Request
    BY <1>1, <1>4, RemovingLeaves
  <2>2. rest = r \/ (Removing(beside) /\ rest = Append(r, Last(s)))
    BY <1>2, <1>4 DEF RemovedAt
  <2> HIDE DEF r
  <2>3. DOMAIN r = 1..(Len(s) - 1) /\ DOMAIN s = 1..Len(s)
    BY <1>1, <2>1
  <2>4. \A j \in DOMAIN r : (r[j] = s[j] /\ j < at) \/ (r[j] = s[j + 1] /\ j >= at)
    BY <2>1, <2>3
  <2>5. rest \in Seq(Request) /\ \A j \in DOMAIN rest : \E k \in DOMAIN s : rest[j] = s[k]
    <3>1. CASE rest = r
      <4>1. \A j \in DOMAIN r : j \in DOMAIN s /\ j + 1 \in DOMAIN s
        BY <2>1, <2>3
      <4> QED  BY <3>1, <2>1, <2>4, <4>1
    <3>2. CASE rest = Append(r, Last(s))
      <4>1. /\ Append(r, Last(s)) \in Seq(Request) /\ Len(Append(r, Last(s))) = Len(s)
            /\ \A j \in 1..(Len(s) - 1) : Append(r, Last(s))[j] = r[j]
            /\ Append(r, Last(s))[Len(s)] = Last(s)
        BY <2>1, AppendProperties
      <4>2. DOMAIN rest = 1..Len(s)
        BY <3>2, <4>1
      <4>3. ASSUME NEW j \in 1..Len(s) PROVE \E k \in DOMAIN s : rest[j] = s[k]
        <5>1. CASE j = Len(s)
          BY <5>1, <3>2, <4>1, <2>3 DEF Last
        <5>2. CASE j # Len(s)
          <6>1. j \in DOMAIN r /\ rest[j] = r[j] /\ j \in DOMAIN s /\ j + 1 \in DOMAIN s
            BY <5>2, <3>2, <4>1, <2>1, <2>3
          <6> QED  BY <6>1, <2>4
        <5> QED  BY <5>1, <5>2
      <4> QED  BY <3>2, <4>1, <4>2, <4>3
    <3> QED  BY <2>2, <3>1, <3>2
  <2>6. \A x \in Peers : requests'[x] = IF x = p THEN rest ELSE requests[x]
    BY <1>1, <1>2
  <2>7. requests' \in [Peers -> Seq(Request)]
    BY <1>1, <1>2, <2>5
  <2>8. \A y : Asked(p, y)' => Asked(p, y)
    BY <2>5, <2>6 DEF Asked
  <2>9. ASSUME ~Removing(beside), \A j, k \in DOMAIN s : s[j].to = s[k].to => j = k
        PROVE  /\ \A j, k \in DOMAIN requests'[p] : requests'[p][j].to = requests'[p][k].to => j = k
               /\ \A y : Asked(p, y)' <=> Asked(p, y) /\ y # s[at].to
    <3>1. requests'[p] = r
      BY <2>2, <2>6, <2>9
    <3>2. ASSUME NEW j \in DOMAIN r, NEW k \in DOMAIN r, r[j].to = r[k].to PROVE j = k
      <4> DEFINE f(i) == IF i < at THEN i ELSE i + 1
      <4>1. /\ j \in Nat /\ k \in Nat /\ r[j] = s[f(j)] /\ r[k] = s[f(k)]
            /\ f(j) \in DOMAIN s /\ f(k) \in DOMAIN s
        BY <2>1, <2>3
      <4>2. f(j) = f(k)
        <5> HIDE DEF f
        <5> QED  BY <4>1, <3>2, <2>9
      <4> QED  BY <4>1, <4>2, <2>1
    <3>3. ASSUME NEW j \in DOMAIN r PROVE r[j].to # s[at].to
      <4>1. j \in DOMAIN s /\ j + 1 \in DOMAIN s /\ j \in Nat
        BY <2>1, <2>3
      <4> QED  BY <4>1, <1>4, <2>4, <2>9, <2>1
    <3>4. ASSUME NEW k \in DOMAIN s, s[k].to # s[at].to PROVE \E j \in DOMAIN r : r[j] = s[k]
      <4>1. CASE k < at
        <5>1. k \in DOMAIN r /\ r[k] = s[k]
          BY <4>1, <2>1, <2>3
        <5> QED  BY <5>1
      <4>2. CASE ~(k < at)
        <5>1. k - 1 \in DOMAIN r /\ r[k - 1] = s[k]
          BY <4>2, <3>4, <2>1, <2>3
        <5> QED  BY <5>1
      <4> QED  BY <4>1, <4>2
    <3>5. ASSUME NEW y PROVE Asked(p, y)' <=> Asked(p, y) /\ y # s[at].to
      <4>1. Asked(p, y)' <=> \E j \in DOMAIN r : r[j].to = y
        BY <3>1 DEF Asked
      <4>2. Asked(p, y)' => y # s[at].to
        BY <4>1, <3>3
      <4>3. Asked(p, y) /\ y # s[at].to => Asked(p, y)'
        <5> SUFFICES ASSUME NEW k \in DOMAIN s, s[k].to = y, y # s[at].to
                     PROVE  \E j \in DOMAIN r : r[j].to = y
          BY <4>1 DEF Asked
        <5> QED  BY <3>4
      <4> QED  BY <2>8, <4>2, <4>3
    <3>6. \A j, k \in DOMAIN requests'[p] : requests'[p][j].to = requests'[p][k].to => j = k
      BY <3>1, <3>2
    <3> QED  BY <3>5, <3>6
  <2> QED  BY <1>4, <2>6, <2>7, <2>8, <2>9
<1> QED  BY <1>3, <1>4

\* A step that marks a clash.
LEMMA ClashMarks ==
  ASSUME Rest, NEW p \in Peers, NEW together \in BOOLEAN, Clash(p, together)
  PROVE  /\ clashed' \in [Peers -> BOOLEAN] /\ \A x \in Peers : x # p => clashed'[x] = clashed[x]
         /\ ~clashed'[p] => ~clashed[p] /\ ~together
BY DEF Clash, Rest, Attempts

\* The network thread looks for the entry of q, or looks at one.
LEMMA LookKeeps ==
  ASSUME Inv, NEW p \in Peers, NEW what \in {"reply", "refusal", "retry", "drop"},
         NEW k \in DOMAIN requests[p], what = "drop" => clashed[p],
         handling' = [handling EXCEPT ![p] = [do |-> what, rcs |-> requests[p][k], at |-> k]],
         Clash(p, cancelling[p] # Idle), UNCHANGED <<requests, cancelling>>,
         waiting'[p] \subseteq waiting[p]
  PROVE  /\ Attempts' /\ AtWork(p)' /\ (~clashed'[p] => ~clashed[p])
         /\ \A x \in Peers : x # p => handling'[x] = handling[x] /\ clashed'[x] = clashed[x]
<1>0. Rest /\ AtWork(p)
  BY TypesAre DEF Inv
<1> DEFINE w == [do |-> what, rcs |-> requests[p][k], at |-> k]
<1>1. requests[p][k] \in Request /\ k \in Nat /\ requests[p][k].to \in Peers
  BY <1>0, WorkIs
<1>2. w \in Work /\ w # Idle /\ w.rcs = requests[p][k] /\ w.at = k /\ w.do = what
  BY <1>1 DEF Work, Idle
<1>3. handling' = [handling EXCEPT ![p] = w]
  OBVIOUS
<1> HIDE DEF w
<1>4. \A x \in Peers : handling'[x] = IF x = p THEN w ELSE handling[x]
  BY <1>0, <1>3 DEF Rest, Attempts
<1>5. handling' \in [Peers -> Work \cup {Idle}]
  BY <1>0, <1>2, <1>3 DEF Rest, Attempts
<1>6. /\ clashed' \in [Peers -> BOOLEAN] /\ \A x \in Peers : x # p => clashed'[x] = clashed[x]
      /\ ~clashed'[p] => ~clashed[p] /\ cancelling[p] = Idle
  <2>1. (cancelling[p] # Idle) \in BOOLEAN
    OBVIOUS
  <2> QED  BY <1>0, <2>1, ClashMarks
<1>7. w.rcs.to \in Hosts /\ p \in Callers
  <2>1. Asked(p, requests[p][k].to)
    BY DEF Asked
  <2> QED  BY <1>1, <1>2, <2>1 DEF Inv, Standing
<1>8. AtWork(p)'
  BY <1>0, <1>2, <1>4, <1>6, <1>7 DEF AtWork
<1> QED  BY <1>0, <1>4, <1>5, <1>6, <1>8 DEF Rest, Attempts

LEMMA FindsKeeps ==
  ASSUME Inv, NEW p \in Peers, NEW q \in Peers, NEW what \in {"reply", "refusal", "drop"},
         handling[p] = Idle, Finds(p, q, what), what = "drop" => clashed[p] \/ ~Asked(p, q),
         waiting'[p] \subseteq waiting[p]
  PROVE  /\ Attempts' /\ AtWork(p)' /\ (~clashed'[p] => ~clashed[p])
         /\ \A x \in Peers : x # p => handling'[x] = handling[x] /\ clashed'[x] = clashed[x]
         /\ UNCHANGED <<requests, cancelling>>
<1>1. UNCHANGED <<requests, cancelling>> /\ Clash(p, cancelling[p] # Idle)
  BY DEF Finds
<1>2. ASSUME NEW k \in DOMAIN requests[p], First(p, q, k),
             handling' = [handling EXCEPT ![p] = [do |-> what, rcs |-> requests[p][k], at |-> k]]
      PROVE  /\ Attempts' /\ AtWork(p)' /\ (~clashed'[p] => ~clashed[p])
             /\ \A x \in Peers : x # p => handling'[x] = handling[x] /\ clashed'[x] = clashed[x]
  <2>1. what = "drop" => clashed[p]
    BY <1>2 DEF First, Asked
  <2> QED  BY <1>1, <1>2, <2>1, LookKeeps
<1>3. CASE UNCHANGED handling
  <2>0. Rest /\ AtWork(p)
    BY TypesAre DEF Inv
  <2>1. /\ clashed' \in [Peers -> BOOLEAN] /\ \A x \in Peers : x # p => clashed'[x] = clashed[x]
        /\ ~clashed'[p] => ~clashed[p]
    <3>1. (cancelling[p] # Idle) \in BOOLEAN
      OBVIOUS
    <3> QED  BY <1>1, <2>0, <3>1, ClashMarks
  <2>2. AtWork(p)'
    BY <1>1, <1>3, <2>0, <2>1 DEF AtWork
  <2> QED  BY <1>1, <1>3, <2>0, <2>1, <2>2 DEF Rest, Attempts
<1> QED  BY <1>1, <1>2, <1>3 DEF Finds

\* The network thread removes its entry.
LEMMA RemovesKeeps ==
  ASSUME Inv, NEW p \in Peers, handling[p] # Idle, Removes(p), waiting'[p] \subseteq waiting[p]
  PROVE  /\ Attempts' /\ AtWork(p)' /\ UNCHANGED <<cancelling, clashed>>
         /\ \A x \in Peers : x # p => requests'[x] = requests[x] /\ handling'[x] = handling[x]
         /\ \A y : Asked(p, y)' => Asked(p, y)
         /\ ~clashed[p] => /\ Asked(p, handling[p].rcs.to) /\ handling[p].do # "drop"
                           /\ \A y : Asked(p, y)' <=> Asked(p, y) /\ y # handling[p].rcs.to
<1>0. Rest /\ AtWork(p)
  BY TypesAre DEF Inv
<1>1. /\ requests' \in {[requests EXCEPT ![p] = rest] :
                        rest \in RemovedAt(p, handling[p].at, cancelling[p])}
      /\ handling' = [handling EXCEPT ![p] = Idle] /\ UNCHANGED <<cancelling, clashed>>
  BY DEF Removes
<1>2. /\ requests' \in [Peers -> Seq(Request)]
      /\ \A x \in Peers : x # p => requests'[x] = requests[x]
      /\ \A y : Asked(p, y)' => Asked(p, y)
      /\ /\ ~Removing(cancelling[p]) /\ handling[p].at \in DOMAIN requests[p]
         /\ \A j, k \in DOMAIN requests[p] : requests[p][j].to = requests[p][k].to => j = k
         => /\ \A j, k \in DOMAIN requests'[p] : requests'[p][j].to = requests'[p][k].to => j = k
            /\ \A y : Asked(p, y)' <=> Asked(p, y) /\ y # requests[p][handling[p].at].to
  BY <1>0, <1>1, RemovalKeeps
<1>3. /\ handling' \in [Peers -> Work \cup {Idle}] /\ handling'[p] = Idle
      /\ \A x \in Peers : x # p => handling'[x] = handling[x]
  BY <1>0, <1>1 DEF Rest, Attempts
<1>4. ASSUME ~clashed[p]
      PROVE  /\ Asked(p, handling[p].rcs.to) /\ handling[p].do # "drop"
             /\ \A y : Asked(p, y)' <=> Asked(p, y) /\ y # handling[p].rcs.to
             /\ \A j, k \in DOMAIN requests'[p] : requests'[p][j].to = requests'[p][k].to => j = k
  <2>1. /\ cancelling[p] = Idle /\ handling[p].at \in DOMAIN requests[p]
        /\ requests[p][handling[p].at] = handling[p].rcs /\ handling[p].do # "drop"
        /\ \A j, k \in DOMAIN requests[p] : requests[p][j].to = requests[p][k].to => j = k
    BY <1>0, <1>4 DEF AtWork
  <2>2. ~Removing(cancelling[p])
    BY <2>1 DEF Removing
  <2>3. Asked(p, handling[p].rcs.to)
    BY <2>1 DEF Asked
  <2> QED  BY <1>2, <2>1, <2>2, <2>3
<1>5. AtWork(p)'
  <2>1. Idle.do # "drop"
    BY DEF Idle
  <2>2. ~clashed[p] => cancelling[p] = Idle
    BY <1>0 DEF AtWork
  <2> QED  BY <1>0, <1>1, <1>3, <1>4, <2>1, <2>2 DEF AtWork
<1> QED  BY <1>0, <1>1, <1>2, <1>3, <1>4, <1>5 DEF Rest, Attempts

LEMMA DatagramHas ==
  ASSUME NEW p, NEW q, NEW id
  PROVE  /\ Datagram(p, q, id).from = p /\ Datagram(p, q, id).to = q
         /\ Datagram(p, q, id).id = id
BY DEF Datagram

LEMMA DatagramIn ==
  ASSUME NEW p \in Peers, NEW q \in Peers, NEW S, NEW id \in S
  PROVE  Datagram(p, q, id) \in [from : Peers, to : Peers, id : S]
BY DEF Datagram

LEMMA CommandsGrow ==
  ASSUME Rest, NEW p \in Peers, NEW q \in Peers, NEW do \in {"close", "send"},
         commands' = [commands EXCEPT ![p] = Append(@, [do |-> do, to |-> q])]
  PROVE  commands' \in [Peers -> Seq([do : {"close", "send"}, to : Peers])]
<1> DEFINE C == [do : {"close", "send"}, to : Peers]   c == [do |-> do, to |-> q]
<1>1. c \in C /\ commands \in [Peers -> Seq(C)]
  BY DEF Rest
<1>2. commands' = [commands EXCEPT ![p] = Append(@, c)]
  OBVIOUS
<1> HIDE DEF C, c
<1>3. Append(commands[p], c) \in Seq(C)
  BY <1>1, AppendProperties
<1>4. commands' \in [Peers -> Seq(C)]
  BY <1>1, <1>2, <1>3
<1> QED  BY <1>4 DEF C

LEMMA ElsewhereIs ==
  ASSUME Rest, NEW p \in Peers, NEW q \in Peers,
         \/ joined' = joined
         \/ joined' = [joined EXCEPT ![p] = @ \cup {q}]
         \/ joined' = [joined EXCEPT ![p] = @ \ {q}],
         waiting' = waiting \/ waiting' = [waiting EXCEPT ![p] = @ \ {q}]
  PROVE  /\ Elsewhere(p, q)
         /\ joined' \in [Peers -> SUBSET Peers] /\ waiting' \in [Peers -> SUBSET Peers]
<1>1. joined' \in [Peers -> SUBSET Peers] /\ waiting' \in [Peers -> SUBSET Peers]
  <2>1. [joined EXCEPT ![p] = @ \cup {q}] \in [Peers -> SUBSET Peers]
    BY DEF Rest
  <2>2. [joined EXCEPT ![p] = @ \ {q}] \in [Peers -> SUBSET Peers]
    BY DEF Rest
  <2>3. [waiting EXCEPT ![p] = @ \ {q}] \in [Peers -> SUBSET Peers]
    BY DEF Rest
  <2>4. joined \in [Peers -> SUBSET Peers] /\ waiting \in [Peers -> SUBSET Peers]
    BY DEF Rest
  <2>5. joined' \in [Peers -> SUBSET Peers]
    BY <2>1, <2>2, <2>4
  <2>6. waiting' \in [Peers -> SUBSET Peers]
    BY <2>3, <2>4
  <2> QED  BY <2>5, <2>6
<1>2. \A x \in Peers : waiting'[x] \subseteq waiting[x]
  BY DEF Rest
<1>3. \A x, y \in Peers : ~(x = p /\ y = q) => (y \in joined'[x] <=> y \in joined[x])
  BY DEF Rest
<1> QED  BY <1>1, <1>2, <1>3 DEF Elsewhere

LEMMA BudgetShrinks ==
  ASSUME Rest, NEW what \in {"close", "send", "lose", "outage", "restart"}, Uses(what)
  PROVE  left' \in [close : Nat, send : Nat, lose : Nat, outage : Nat, restart : Nat]
<1> DEFINE B == [close : Nat, send : Nat, lose : Nat, outage : Nat, restart : Nat]
<1>1. left \in B /\ left' = [left EXCEPT ![what] = left[what] - 1] /\ left[what] > 0
  BY DEF Rest, Uses
<1>2. CASE what = "close"
  BY <1>1, <1>2
<1>3. CASE what = "send"
  BY <1>1, <1>3
<1>4. CASE what = "lose"
  BY <1>1, <1>4
<1>5. CASE what = "outage"
  BY <1>1, <1>5
<1>6. CASE what = "restart"
  BY <1>1, <1>6
<1> QED  BY <1>2, <1>3, <1>4, <1>5, <1>6

LEMMA MessagesHave ==
  ASSUME NEW p, NEW q, NEW id
  PROVE  Messages(p, q, id) \subseteq {Datagram(p, q, id)}
BY DEF Messages

-----------------------------------------------------------------------------
(* The application *)

LEMMA ConnectKeeps ==
  ASSUME PeersAssumption, Inv, NEW p \in Callers, NEW q \in Hosts, SendConnectionRequest(p, q)
  PROVE  Inv'
<1>0. p \in Peers /\ q \in Peers /\ Tables /\ Rest /\ Asking /\ AtWork(p)
  BY TypesAre DEF Peers, Inv
<1>1. lookup[p][q] = 0
  BY <1>0, SlotOfAddress DEF SendConnectionRequest
<1>2. Tables' /\ \A x, y \in Peers : Phase(x, y)' = Phase(x, y)
  BY <1>0, TablesStay DEF SendConnectionRequest
<1> DEFINE r == [to |-> q, made |-> 0]   s == requests[p]
<1>3. r \in Request /\ r.to = q /\ s \in Seq(Request)
  <2>1. s \in Seq(Request)
    BY <1>0 DEF Rest, Attempts
  <2>2. 0 \in 0..MaxRequests
    BY DEF PeersAssumption
  <2> QED  BY <1>0, <2>1, <2>2 DEF Request
<1>4. /\ cancelling[p] = Idle /\ ~Asked(p, q) /\ Clash(p, Removing(handling[p]))
      /\ waiting' = [waiting EXCEPT ![p] = @ \cup {q}]
      /\ UNCHANGED <<commands, banned, offline, sent, joined, left, cancelling, handling>>
  BY DEF SendConnectionRequest
<1>5. PICK after \in Pushed(p, r) : requests' = [requests EXCEPT ![p] = after]
  BY DEF SendConnectionRequest
<1> HIDE DEF r
<1>6. /\ Append(s, r) \in Seq(Request) /\ DOMAIN Append(s, r) = 1..(Len(s) + 1)
      /\ DOMAIN s = 1..Len(s) /\ Len(s) \in Nat
      /\ \A j \in 1..Len(s) : Append(s, r)[j] = s[j]
      /\ Append(s, r)[Len(s) + 1] = r
  <2>1. /\ Append(s, r) \in Seq(Request) /\ Len(Append(s, r)) = Len(s) + 1
        /\ \A j \in 1..Len(s) : Append(s, r)[j] = s[j]
        /\ Append(s, r)[Len(s) + 1] = r
    BY <1>3, AppendProperties
  <2> QED  BY <1>3, <2>1
<1>7. after = Append(s, r) \/ (after = s /\ Removing(handling[p]))
  BY <1>5 DEF Pushed
<1>8. \A x \in Peers : requests'[x] = IF x = p THEN after ELSE requests[x]
  BY <1>0, <1>5 DEF Rest, Attempts
<1>9. /\ clashed' \in [Peers -> BOOLEAN] /\ \A x \in Peers : x # p => clashed'[x] = clashed[x]
      /\ ~clashed'[p] => ~clashed[p] /\ ~Removing(handling[p])
  <2>1. Removing(handling[p]) \in BOOLEAN
    BY DEF Removing
  <2> QED  BY <1>0, <1>4, <2>1, ClashMarks
<1>10. waiting' \in [Peers -> SUBSET Peers]
       /\ \A x \in Peers : waiting'[x] = IF x = p THEN waiting[p] \cup {q} ELSE waiting[x]
  BY <1>0, <1>4 DEF Rest
<1>11. Rest' /\ Asking'
  <2>1. after \in Seq(Request)
    BY <1>3, <1>6, <1>7
  <2>2. requests' \in [Peers -> Seq(Request)]
    BY <1>0, <1>5, <2>1 DEF Rest, Attempts
  <2> QED  BY <1>0, <1>4, <1>9, <1>10, <2>2 DEF Rest, Attempts, Asking
<1>12. /\ \A y : Asked(p, y)' => Asked(p, y) \/ y = q
       /\ ~clashed'[p] => after = Append(s, r) /\ Asked(p, q)' /\ \A y : Asked(p, y) => Asked(p, y)'
  <2>1. CASE after = Append(s, r)
    <3>1. \A j \in 1..(Len(s) + 1) : j \in 1..Len(s) \/ j = Len(s) + 1
      BY <1>6
    <3>2. \A j \in 1..Len(s) : j \in 1..(Len(s) + 1)
      BY <1>6
    <3>3. Len(s) + 1 \in 1..(Len(s) + 1)
      BY <1>6
    <3>4. \A y : Asked(p, y)' <=> \E j \in 1..(Len(s) + 1) : Append(s, r)[j].to = y
      BY <1>0, <1>6, <1>8, <2>1 DEF Asked
    <3>5. \A y : Asked(p, y) <=> \E j \in 1..Len(s) : s[j].to = y
      BY <1>6 DEF Asked
    <3> HIDE DEF s
    <3> QED  BY <1>3, <1>6, <2>1, <3>1, <3>2, <3>3, <3>4, <3>5
  <2>2. CASE after = s /\ Removing(handling[p])
    BY <1>0, <1>8, <1>9, <2>2 DEF Asked
  <2> QED  BY <1>7, <2>1, <2>2
<1>13. AtWork(p)'
  <2>1. ASSUME ~clashed'[p]
        PROVE  /\ \A j, k \in DOMAIN requests'[p] : requests'[p][j].to = requests'[p][k].to => j = k
               /\ handling[p] # Idle => /\ handling[p].at \in DOMAIN requests'[p]
                                        /\ requests'[p][handling[p].at] = handling[p].rcs
    <3>1. /\ \A j, k \in DOMAIN s : s[j].to = s[k].to => j = k
          /\ handling[p] # Idle => handling[p].at \in DOMAIN s /\ s[handling[p].at] = handling[p].rcs
      BY <1>0, <1>9, <2>1 DEF AtWork
    <3>2. requests'[p] = Append(s, r)
      BY <1>0, <1>8, <1>12, <2>1
    <3>3. \A j \in DOMAIN s : s[j].to # q
      BY <1>4 DEF Asked
    <3>4. \A j \in 1..(Len(s) + 1) : j \in DOMAIN s \/ j = Len(s) + 1
      BY <1>6
    <3>5. \A j \in DOMAIN s : j \in 1..(Len(s) + 1)
      BY <1>6
    <3> HIDE DEF s
    <3> QED  BY <1>3, <1>6, <3>1, <3>2, <3>3, <3>4, <3>5
  <2>2. handling' = handling /\ cancelling' = cancelling
    BY <1>4
  <2> QED  BY <1>0, <1>4, <1>9, <2>1, <2>2 DEF AtWork
<1>14. ASSUME NEW y \in Peers PROVE Standing(p, y)'
  <2>1. Standing(p, y) /\ Standing(p, q) /\ Phase(p, q) = "FREE" /\ Phase(p, y)' = Phase(p, y)
    BY <1>0, <1>1, <1>2 DEF Inv, Phase
  <2>2. joined' = joined /\ (y \in waiting'[p] => y \in waiting[p] \/ y = q)
    BY <1>0, <1>4, <1>10
  <2> QED  BY <1>9, <1>12, <2>1, <2>2 DEF Standing
<1>15. OthersStay(p)
  BY <1>2, <1>4, <1>8, <1>9, <1>10 DEF OthersStay
<1> QED  BY <1>0, <1>2, <1>11, <1>13, <1>14, <1>15, OneProcessMoves

LEMMA CloseConnectionKeeps ==
  ASSUME PeersAssumption, Inv, NEW p \in Peers, NEW q \in Peers, CloseConnection(p, q)
  PROVE  Inv'
<1>0. Tables /\ Rest /\ Asking /\ AtWork(p)
  BY TypesAre DEF Inv
<1>1. /\ cancelling[p] = Idle /\ waiting' = [waiting EXCEPT ![p] = @ \ {q}]
      /\ Clash(p, handling[p] # Idle) /\ Uses("close")
      /\ UNCHANGED <<slots, lookup, requests, banned, offline, sent, joined, handling>>
  BY DEF CloseConnection
<1>2. Tables' /\ \A x, y \in Peers : Phase(x, y)' = Phase(x, y)
  BY <1>0, <1>1, TablesStay
<1>3. /\ clashed' \in [Peers -> BOOLEAN] /\ \A x \in Peers : x # p => clashed'[x] = clashed[x]
      /\ ~clashed'[p] => ~clashed[p] /\ handling[p] = Idle
  <2>1. (handling[p] # Idle) \in BOOLEAN
    OBVIOUS
  <2> QED  BY <1>0, <1>1, <2>1, ClashMarks
<1>4. /\ cancelling' \in [Peers -> Cancel \cup {Idle}]
      /\ \A x \in Peers : x # p => cancelling'[x] = cancelling[x]
      /\ cancelling'[p] # Idle => /\ cancelling'[p].to = q /\ cancelling'[p].at \in DOMAIN requests[p]
                                  /\ requests[p][cancelling'[p].at].to = q
      /\ commands' \in [Peers -> Seq([do : {"close", "send"}, to : Peers])]
  <2>1. ASSUME NEW k \in DOMAIN requests[p], First(p, q, k), UNCHANGED commands,
               cancelling' = [cancelling EXCEPT ![p] = [do |-> "cancel", to |-> q, at |-> k]]
        PROVE  /\ cancelling' \in [Peers -> Cancel \cup {Idle}]
               /\ \A x \in Peers : x # p => cancelling'[x] = cancelling[x]
               /\ cancelling'[p] # Idle =>
                    /\ cancelling'[p].to = q /\ cancelling'[p].at \in DOMAIN requests[p]
                    /\ requests[p][cancelling'[p].at].to = q
               /\ commands' \in [Peers -> Seq([do : {"close", "send"}, to : Peers])]
    <3> DEFINE c == [do |-> "cancel", to |-> q, at |-> k]
    <3>1. c \in Cancel /\ c.to = q /\ c.at = k /\ k \in Nat
      BY <1>0, WorkIs DEF Cancel
    <3>2. cancelling' = [cancelling EXCEPT ![p] = c]
      BY <2>1
    <3> HIDE DEF c
    <3> QED  BY <1>0, <2>1, <3>1, <3>2 DEF Rest, Attempts, First
  <2>2. CASE AsksToClose(p, q) /\ UNCHANGED cancelling
    <3>1. commands' \in [Peers -> Seq([do : {"close", "send"}, to : Peers])]
      BY <1>0, <2>2, CommandsGrow DEF AsksToClose
    <3> QED  BY <1>0, <1>1, <2>2, <3>1 DEF Rest, Attempts
  <2> QED  BY <2>1, <2>2 DEF CloseConnection
<1>5. waiting' \in [Peers -> SUBSET Peers]
      /\ \A x \in Peers : waiting'[x] = IF x = p THEN waiting[p] \ {q} ELSE waiting[x]
  BY <1>0, <1>1 DEF Rest
<1>6. Rest' /\ Asking'
  <2>1. left' \in [close : Nat, send : Nat, lose : Nat, outage : Nat, restart : Nat]
    BY <1>0, <1>1, BudgetShrinks
  <2> QED  BY <1>0, <1>1, <1>3, <1>4, <1>5, <2>1 DEF Rest, Attempts, Asking
<1>7. AtWork(p)'
  <2>1. requests' = requests /\ handling' = handling
    BY <1>1
  <2> QED  BY <1>0, <1>3, <1>4, <1>5, <2>1 DEF AtWork
<1>8. ASSUME NEW y \in Peers PROVE Standing(p, y)'
  <2>1. Standing(p, y) /\ Phase(p, y)' = Phase(p, y) /\ joined' = joined
    BY <1>1, <1>2 DEF Inv
  <2>2. (Asked(p, y)' <=> Asked(p, y)) /\ (y \in waiting'[p] => y \in waiting[p])
    BY <1>1, <1>5 DEF Asked
  <2> QED  BY <1>3, <2>1, <2>2 DEF Standing
<1>9. OthersStay(p)
  BY <1>1, <1>2, <1>3, <1>4, <1>5 DEF OthersStay
<1> QED  BY <1>2, <1>6, <1>7, <1>8, <1>9, OneProcessMoves

LEMMA CancelAttemptKeeps ==
  ASSUME PeersAssumption, Inv, NEW p \in Peers, CancelAttempt(p)
  PROVE  Inv'
<1> DEFINE q == cancelling[p].to
<1>0. Tables /\ Rest /\ Asking /\ AtWork(p)
  BY TypesAre DEF Inv
<1>1. /\ cancelling[p] # Idle /\ cancelling' = [cancelling EXCEPT ![p] = Idle]
      /\ requests' \in {[requests EXCEPT ![p] = rest] :
                          rest \in RemovedAt(p, cancelling[p].at, handling[p])}
      /\ UNCHANGED <<slots, lookup, banned, offline, sent, joined, waiting, left, handling, clashed>>
  BY DEF CancelAttempt
<1>2. Tables' /\ \A x, y \in Peers : Phase(x, y)' = Phase(x, y)
  BY <1>0, <1>1, TablesStay
<1>3. q \in Peers /\ q \notin waiting[p]
  BY <1>0, <1>1, WorkIs DEF AtWork
<1>4. /\ requests' \in [Peers -> Seq(Request)]
      /\ \A x \in Peers : x # p => requests'[x] = requests[x]
      /\ \A y : Asked(p, y)' => Asked(p, y)
      /\ /\ ~Removing(handling[p]) /\ cancelling[p].at \in DOMAIN requests[p]
         /\ \A j, k \in DOMAIN requests[p] : requests[p][j].to = requests[p][k].to => j = k
         => /\ \A j, k \in DOMAIN requests'[p] : requests'[p][j].to = requests'[p][k].to => j = k
            /\ \A y : Asked(p, y)' <=> Asked(p, y) /\ y # requests[p][cancelling[p].at].to
  BY <1>0, <1>1, RemovalKeeps
<1>5. /\ cancelling' \in [Peers -> Cancel \cup {Idle}] /\ cancelling'[p] = Idle
      /\ \A x \in Peers : x # p => cancelling'[x] = cancelling[x]
  BY <1>0, <1>1 DEF Rest, Attempts
<1>6. commands' \in [Peers -> Seq([do : {"close", "send"}, to : Peers])]
  BY <1>0, <1>3, CommandsGrow DEF CancelAttempt, AsksToClose
<1>7. Rest' /\ Asking'
  BY <1>0, <1>1, <1>4, <1>5, <1>6 DEF Rest, Attempts, Asking
<1>8. ASSUME ~clashed[p]
      PROVE  /\ handling[p] = Idle
             /\ \A j, k \in DOMAIN requests'[p] : requests'[p][j].to = requests'[p][k].to => j = k
             /\ \A y : Asked(p, y)' <=> Asked(p, y) /\ y # q
  <2>1. /\ handling[p] = Idle /\ cancelling[p].at \in DOMAIN requests[p]
        /\ requests[p][cancelling[p].at].to = q
        /\ \A j, k \in DOMAIN requests[p] : requests[p][j].to = requests[p][k].to => j = k
    BY <1>0, <1>1, <1>8 DEF AtWork
  <2>2. ~Removing(handling[p])
    BY <2>1 DEF Removing
  <2> QED  BY <1>4, <2>1, <2>2
<1>9. AtWork(p)'
  <2>1. handling' = handling /\ clashed' = clashed
    BY <1>1
  <2>2. Idle.do # "drop"
    BY DEF Idle
  <2> QED  BY <1>0, <1>5, <1>8, <2>1, <2>2 DEF AtWork
<1>10. ASSUME NEW y \in Peers PROVE Standing(p, y)'
  <2>1. Standing(p, y) /\ Phase(p, y)' = Phase(p, y)
    BY <1>2 DEF Inv
  <2>2. joined' = joined /\ waiting' = waiting /\ clashed' = clashed
    BY <1>1
  <2> QED  BY <1>3, <1>4, <1>8, <2>1, <2>2 DEF Standing
<1>11. OthersStay(p)
  BY <1>1, <1>2, <1>4, <1>5 DEF OthersStay
<1> QED  BY <1>2, <1>7, <1>9, <1>10, <1>11, OneProcessMoves

LEMMA SendKeeps ==
  ASSUME Inv, NEW p \in Peers, NEW q \in Peers, Send(p, q)
  PROVE  Inv'
<1>0. Rest /\ Asking
  BY TypesAre DEF Inv
<1>1. Rest'
  <2>2. commands' \in [Peers -> Seq([do : {"close", "send"}, to : Peers])]
    BY <1>0, CommandsGrow DEF Send
  <2>3. left' \in [close : Nat, send : Nat, lose : Nat, outage : Nat, restart : Nat]
    BY <1>0, BudgetShrinks DEF Send
  <2> QED  BY <1>0, <2>2, <2>3 DEF Send, Rest, Attempts, threads
<1>2. Asking'
  BY <1>0 DEF Send, Asking
<1> QED  BY <1>1, <1>2, AllStay DEF Send

-----------------------------------------------------------------------------
(* Datagrams outside connections *)

LEMMA AnswerKeeps ==
  ASSUME Rest, Asking, NEW p \in Peers, NEW d \in offline \cup sent,
         NEW id \in Refusals \cup {"OPEN_CONNECTION_REPLY"}, SendAnswer(p, d, id),
         UNCHANGED sent
  PROVE  /\ Asking'
         /\ offline' \subseteq [from : Peers, to : Peers, id :
              Refusals \cup {"OPEN_CONNECTION_REQUEST", "OPEN_CONNECTION_REPLY"}]
<1> DEFINE a == Datagram(p, d.from, id)
<1>1. d.from \in Peers
  BY DEF Rest
<1>2. a.id # "OPEN_CONNECTION_REQUEST"
  BY DatagramHas DEF Refusals
<1>3. a \in [from : Peers, to : Peers, id :
              Refusals \cup {"OPEN_CONNECTION_REQUEST", "OPEN_CONNECTION_REPLY"}]
  BY <1>1, DatagramIn
<1>4. offline' \subseteq offline \cup {a}
  BY DEF SendAnswer
<1> QED  BY <1>2, <1>3, <1>4 DEF Rest, Asking

LEMMA TurnAwayKeeps ==
  ASSUME Inv, NEW p \in Peers, NEW d, TurnAway(p, d)
  PROVE  Inv'
<1>0. Rest /\ Asking
  BY TypesAre DEF Inv
<1>1. /\ Asking'
      /\ offline' \subseteq [from : Peers, to : Peers, id :
              Refusals \cup {"OPEN_CONNECTION_REQUEST", "OPEN_CONNECTION_REPLY"}]
  BY <1>0, AnswerKeeps, "CONNECTION_BANNED" \in Refusals DEF TurnAway, Refusals
<1>2. Rest'
  BY <1>0, <1>1 DEF TurnAway, Rest, Attempts, threads
<1> QED  BY <1>1, <1>2, AllStay DEF TurnAway

\* The network thread only looks: at the entry a datagram is about, or at one
\* whose time has come.
LEMMA LookingKeeps ==
  ASSUME Inv, NEW p \in Peers, Rest', Asking', AtWork(p)', ~clashed'[p] => ~clashed[p],
         \A x \in Peers : x # p => handling'[x] = handling[x] /\ clashed'[x] = clashed[x],
         UNCHANGED <<slots, lookup, requests, cancelling, joined, waiting>>
  PROVE  Inv'
<1>1. Tables' /\ \A x, y \in Peers : Phase(x, y)' = Phase(x, y)
  BY TablesStay DEF Inv
<1>2. ASSUME NEW y \in Peers PROVE Standing(p, y)'
  <2>1. Standing(p, y) /\ Phase(p, y)' = Phase(p, y) /\ (Asked(p, y)' <=> Asked(p, y))
    BY <1>1 DEF Inv, Asked
  <2>2. joined' = joined /\ waiting' = waiting
    OBVIOUS
  <2> QED  BY <2>1, <2>2 DEF Standing
<1>3. OthersStay(p)
  BY <1>1 DEF OthersStay
<1> QED  BY <1>1, <1>2, <1>3, OneProcessMoves

LEMMA RepliesKeep ==
  ASSUME Inv, NEW p \in Peers, NEW d, OpenConnectionReply(p, d) \/ Refused(p, d)
  PROVE  Inv'
<1>0. Rest /\ Asking /\ d.from \in Peers /\ handling[p] = Idle /\ offline' \subseteq offline
  BY TypesAre DEF Inv, OpenConnectionReply, Refused, Hears, Rest
<1>1. UNCHANGED <<slots, lookup, commands, banned, sent, joined, waiting, left>>
  BY DEF OpenConnectionReply, Refused
<1>2. PICK what \in {"reply", "refusal"} : Finds(p, d.from, what)
  BY DEF OpenConnectionReply, Refused
<1>3. /\ Attempts' /\ AtWork(p)' /\ (~clashed'[p] => ~clashed[p])
      /\ \A x \in Peers : x # p => handling'[x] = handling[x] /\ clashed'[x] = clashed[x]
      /\ UNCHANGED <<requests, cancelling>>
  <2>1. what \in {"reply", "refusal", "drop"} /\ what # "drop" /\ waiting'[p] \subseteq waiting[p]
    BY <1>1, <1>2
  <2> QED  BY <1>0, <1>2, <2>1, FindsKeeps
<1>4. Rest' /\ Asking'
  BY <1>0, <1>1, <1>3 DEF Rest, Asking
<1> QED  BY <1>1, <1>3, <1>4, LookingKeeps

LEMMA RequestConnectionKeeps ==
  ASSUME PeersAssumption, Inv, NEW p \in Peers, RequestConnection(p)
  PROVE  Inv'
<1> DEFINE q == handling[p].rcs.to
           i == IF lookup[p][q] # 0 THEN lookup[p][q] ELSE FreeSlot(p)
           slot == [peer |-> q, mode |-> "REQUESTED_CONNECTION", ours |-> TRUE]
<1>0. Tables /\ Rest /\ Asking /\ AtWork(p) /\ handling[p] # Idle
  BY TypesAre DEF Inv, RequestConnection, Idle
<1>1. q \in Peers /\ p \in Callers /\ q \in Hosts
  BY <1>0, WorkIs DEF AtWork
<1>2. joined' = joined /\ UNCHANGED <<commands, banned, offline, left>> /\ Removes(p)
  BY DEF RequestConnection
<1>3. /\ \/ waiting' = waiting
         \/ waiting' = [waiting EXCEPT ![p] = @ \ {q}]
      /\ waiting' \in [Peers -> SUBSET Peers] /\ \A x \in Peers : waiting'[x] \subseteq waiting[x]
      /\ \A x \in Peers : x # p => waiting'[x] = waiting[x]
  <2>1. waiting' = waiting \/ waiting' = [waiting EXCEPT ![p] = @ \ {q}]
    BY DEF RequestConnection
  <2> QED  BY <1>0, <2>1 DEF Rest
<1>4. /\ Attempts' /\ AtWork(p)' /\ UNCHANGED <<cancelling, clashed>>
      /\ \A x \in Peers : x # p => requests'[x] = requests[x] /\ handling'[x] = handling[x]
      /\ \A y : Asked(p, y)' => Asked(p, y)
      /\ ~clashed[p] => /\ Asked(p, q) /\ \A y : Asked(p, y)' <=> Asked(p, y) /\ y # q
  BY <1>0, <1>2, <1>3, RemovesKeeps
<1>5. Standing(p, q) /\ (~clashed[p] => Phase(p, q) = "FREE" /\ q \notin joined[p])
  BY <1>1, <1>4 DEF Inv, Standing
<1>6. CASE /\ i # 0 /\ Put(p, i, slot)
           /\ sent' = sent \cup {Datagram(p, q, "CONNECTION_REQUEST")} /\ UNCHANGED waiting
  <2>1. slot \in Slot /\ slot.peer = q /\ slot.mode = "REQUESTED_CONNECTION"
    BY <1>1 DEF Slot, Handshaking
  <2>2. i \in 1..Slots[p] /\ ((slots[p][i] = Free /\ lookup[p][q] = 0) \/ lookup[p][q] = i)
    BY <1>0, <1>1, <1>6, FreeSlotIsFree, SlotOfAddress DEF Active
  <2>3. Tables' /\ Comes(p, q, "REQUESTED_CONNECTION")
    <3> HIDE DEF slot, i
    <3> QED  BY <1>0, <1>6, <2>1, <2>2, PutKeeps
  <2>4. Rest' /\ Asking'
    <3>1. Datagram(p, q, "CONNECTION_REQUEST") \in [from : Peers, to : Peers, id : AllIds]
      BY <1>1, DatagramIn, "CONNECTION_REQUEST" \in AllIds DEF AllIds
    <3>2. Rest'
      BY <1>0, <1>2, <1>3, <1>4, <1>6, <3>1 DEF Rest
    <3>3. Asking'
      BY <1>0, <1>1, <1>2, <1>6, DatagramHas DEF Asking
    <3> QED  BY <3>2, <3>3
  <2>5. ASSUME NEW y \in Peers PROVE Standing(p, y)'
    <3>1. Standing(p, y) /\ joined' = joined /\ waiting' = waiting /\ clashed' = clashed
      BY <1>2, <1>4, <1>6 DEF Inv
    <3>2. Phase(p, y)' = IF y = q THEN "REQUESTED_CONNECTION" ELSE Phase(p, y)
      BY <2>3 DEF Comes
    <3>3. CASE y = q
      <4> HIDE DEF q
      <4> QED  BY <1>1, <1>4, <1>5, <3>1, <3>2, <3>3 DEF Standing
    <3>4. CASE y # q
      BY <1>4, <3>1, <3>2, <3>4 DEF Standing
    <3> QED  BY <3>3, <3>4
  <2>6. OthersStay(p)
    BY <1>2, <1>3, <1>4, <2>3 DEF OthersStay, Comes
  <2> QED  BY <1>4, <2>3, <2>4, <2>5, <2>6, OneProcessMoves
<1>7. CASE /\ i = 0 /\ waiting' = [waiting EXCEPT ![p] = @ \ {q}]
           /\ UNCHANGED <<slots, lookup, sent>>
  <2>1. Tables' /\ \A x, y \in Peers : Phase(x, y)' = Phase(x, y)
    BY <1>0, <1>7, TablesStay
  <2>2. Rest' /\ Asking'
    BY <1>0, <1>2, <1>3, <1>4, <1>7 DEF Rest, Asking
  <2>3. ASSUME NEW y \in Peers PROVE Standing(p, y)'
    <3>1. Standing(p, y) /\ joined' = joined /\ clashed' = clashed /\ Phase(p, y)' = Phase(p, y)
      BY <1>2, <1>4, <2>1 DEF Inv
    <3>2. (y \in waiting'[p] => y \in waiting[p]) /\ q \notin waiting'[p]
      BY <1>0, <1>3, <1>7 DEF Rest
    <3> HIDE DEF q
    <3> QED  BY <1>4, <3>1, <3>2 DEF Standing
  <2>4. OthersStay(p)
    BY <1>2, <1>3, <1>4, <2>1 DEF OthersStay
  <2> QED  BY <1>4, <2>1, <2>2, <2>3, <2>4, OneProcessMoves
<1> QED  BY <1>6, <1>7 DEF RequestConnection

\* An attempt ends, and its application is told; what is dropped beside a
\* connection is left over from a clash.
LEMMA AttemptEndsKeeps ==
  ASSUME Inv, NEW p \in Peers, TellRefusal(p) \/ GiveUp(p) \/ DropAttempt(p)
  PROVE  Inv'
<1> DEFINE q == handling[p].rcs.to
<1>0. Tables /\ Rest /\ Asking /\ AtWork(p) /\ handling[p] # Idle
  BY TypesAre DEF Inv, TellRefusal, GiveUp, DropAttempt, Idle
<1>1. UNCHANGED <<slots, lookup, commands, banned, offline, sent, joined, left>> /\ Removes(p)
  BY DEF TellRefusal, GiveUp, DropAttempt
<1>2. \/ waiting' = [waiting EXCEPT ![p] = @ \ {q}]
      \/ (waiting' = waiting /\ clashed[p])
  BY <1>0 DEF TellRefusal, GiveUp, DropAttempt, AtWork
<1>3. /\ waiting' \in [Peers -> SUBSET Peers] /\ \A x \in Peers : waiting'[x] \subseteq waiting[x]
      /\ \A x \in Peers : x # p => waiting'[x] = waiting[x]
      /\ ~clashed[p] => q \notin waiting'[p]
  <2> HIDE DEF q
  <2>1. CASE waiting' = [waiting EXCEPT ![p] = @ \ {q}]
    BY <1>0, <2>1 DEF Rest
  <2>2. CASE waiting' = waiting /\ clashed[p]
    BY <1>0, <2>2 DEF Rest
  <2> QED  BY <1>2, <2>1, <2>2
<1>4. /\ Attempts' /\ AtWork(p)' /\ UNCHANGED <<cancelling, clashed>>
      /\ \A x \in Peers : x # p => requests'[x] = requests[x] /\ handling'[x] = handling[x]
      /\ \A y : Asked(p, y)' => Asked(p, y)
      /\ ~clashed[p] => \A y : Asked(p, y)' <=> Asked(p, y) /\ y # q
  BY <1>0, <1>1, <1>3, RemovesKeeps
<1>5. Tables' /\ \A x, y \in Peers : Phase(x, y)' = Phase(x, y)
  BY <1>0, <1>1, TablesStay
<1>6. Rest' /\ Asking'
  BY <1>0, <1>1, <1>3, <1>4 DEF Rest, Asking
<1>7. ASSUME NEW y \in Peers PROVE Standing(p, y)'
  <2>1. Standing(p, y) /\ joined' = joined /\ clashed' = clashed /\ Phase(p, y)' = Phase(p, y)
    BY <1>1, <1>4, <1>5 DEF Inv
  <2>2. y \in waiting'[p] => y \in waiting[p]
    BY <1>3
  <2> HIDE DEF q
  <2> QED  BY <1>3, <1>4, <2>1, <2>2 DEF Standing
<1>8. OthersStay(p)
  BY <1>1, <1>3, <1>4, <1>5 DEF OthersStay
<1> QED  BY <1>4, <1>5, <1>6, <1>7, <1>8, OneProcessMoves

LEMMA OpenConnectionRequestKeeps ==
  ASSUME PeersAssumption, Inv, NEW p \in Peers, NEW d, OpenConnectionRequest(p, d)
  PROVE  Inv'
<1> DEFINE q == d.from   i == lookup[p][q]   free == FreeSlot(p)
           slot == [peer |-> q, mode |-> "UNVERIFIED_SENDER", ours |-> FALSE]
<1>0. /\ q \in Peers /\ Tables /\ Rest /\ Asking /\ Standing(p, q) /\ d \in offline
      /\ UNCHANGED <<requests, threads, commands, banned, sent, joined, waiting, left>>
  BY TypesAre DEF OpenConnectionRequest, Hears, Rest, Inv
<1>1. p \in Hosts
  BY <1>0 DEF OpenConnectionRequest, Hears, Asking
<1>2. Rest' /\ Asking'
  <2>1. CASE \E id \in {"OPEN_CONNECTION_REPLY", "NO_FREE_INCOMING_CONNECTIONS",
                        "ALREADY_CONNECTED"} : SendAnswer(p, d, id)
    <3>1. PICK id \in {"OPEN_CONNECTION_REPLY", "NO_FREE_INCOMING_CONNECTIONS",
                      "ALREADY_CONNECTED"} : SendAnswer(p, d, id)
      BY <2>1
    <3>2. id \in Refusals \cup {"OPEN_CONNECTION_REPLY"}
      BY DEF Refusals
    <3>3. /\ Asking'
          /\ offline' \subseteq [from : Peers, to : Peers, id :
              Refusals \cup {"OPEN_CONNECTION_REQUEST", "OPEN_CONNECTION_REPLY"}]
      BY <1>0, <3>1, <3>2, AnswerKeeps
    <3> QED  BY <1>0, <3>3 DEF Rest, Attempts, threads
  <2>2. CASE offline' = offline \ {d}
    BY <1>0, <2>2 DEF Rest, Attempts, threads, Asking
  <2> QED  BY <2>1, <2>2 DEF OpenConnectionRequest
<1>3. CASE i = 0 /\ free # 0 /\ Put(p, free, slot)
  <2>1. slot \in Slot /\ slot.peer = q /\ slot.mode = "UNVERIFIED_SENDER"
    BY <1>0 DEF Slot, Handshaking
  <2>2. free \in 1..Slots[p] /\ slots[p][free] = Free
    BY <1>3, FreeSlotIsFree
  <2>3. Tables' /\ Comes(p, q, "UNVERIFIED_SENDER")
    <3> HIDE DEF slot, free
    <3> QED  BY <1>0, <1>3, <2>1, <2>2, PutKeeps
  <2>4. Elsewhere(p, q) /\ (Asked(p, q)' <=> Asked(p, q))
    BY <1>0 DEF Elsewhere, Asked
  <2>5. Phase(p, q) = "FREE" /\ Phase(p, q)' = "UNVERIFIED_SENDER" /\ ~Asked(p, q)
    BY <1>0, <1>1, <1>3, <2>3 DEF Phase, Comes, Standing, PeersAssumption
  <2>6. Standing(p, q)'
    <3>1. clashed' = clashed /\ joined' = joined /\ waiting' = waiting
      BY <1>0 DEF threads
    <3> QED  BY <1>0, <3>1, <2>4, <2>5 DEF Standing
  <2> QED  BY <1>0, <1>2, <2>3, <2>4, <2>6, OnePairMoves
<1>4. CASE UNCHANGED <<slots, lookup>>
  BY <1>0, <1>2, <1>4, AllStay
<1> QED  BY <1>3, <1>4 DEF OpenConnectionRequest

-----------------------------------------------------------------------------
(* What the application asked for, and the attempts *)

LEMMA SentKeeps ==
  ASSUME Rest, Asking, NEW p \in Peers, NEW q \in Peers, NEW id \in AllIds,
         id # "CONNECTION_REQUEST", sent' \subseteq sent \cup {Datagram(p, q, id)},
         offline' \subseteq offline
  PROVE  Asking' /\ sent' \subseteq [from : Peers, to : Peers, id : AllIds]
<1> DEFINE a == Datagram(p, q, id)
<1>1. a \in [from : Peers, to : Peers, id : AllIds] /\ a.id # "CONNECTION_REQUEST"
  BY DatagramIn, DatagramHas
<1> HIDE DEF a
<1>2. sent' \subseteq sent \cup {a}
  BY DEF a
<1> QED  BY <1>1, <1>2 DEF Rest, Asking

LEMMA RunCommandKeeps ==
  ASSUME PeersAssumption, Inv, NEW p \in Peers, RunCommand(p)
  PROVE  Inv'
<1> SUFFICES ASSUME NEW q, q = Head(commands[p]).to PROVE Inv'
  OBVIOUS
<1> DEFINE c == Head(commands[p])   i == lookup[p][q]
           id == IF c.do = "send" THEN "DATA" ELSE "DISCONNECTION_NOTIFICATION"
<1>0. Tables /\ Rest /\ Asking
  BY TypesAre DEF Inv
<1>1. /\ q \in Peers /\ Tail(commands[p]) \in Seq([do : {"close", "send"}, to : Peers])
  <2> DEFINE C == [do : {"close", "send"}, to : Peers]
  <2>1. commands[p] \in Seq(C) /\ commands[p] # <<>>
    BY <1>0 DEF Rest, RunCommand
  <2> HIDE DEF C
  <2>2. c \in C /\ Tail(commands[p]) \in Seq(C)
    BY <2>1, HeadTailProperties
  <2> QED  BY <2>2 DEF C
<1>2. /\ UNCHANGED <<requests, threads, banned, offline, joined, waiting, left>>
      /\ commands' = [commands EXCEPT ![p] = Tail(@)]
      /\ sent' = sent \cup Messages(p, q, id)
  BY DEF RunCommand
<1>3. Asking' /\ sent' \subseteq [from : Peers, to : Peers, id : AllIds]
  <2>1. id \in AllIds /\ id # "CONNECTION_REQUEST"
    BY DEF AllIds
  <2> HIDE DEF id
  <2>2. sent' \subseteq sent \cup {Datagram(p, q, id)}
    BY <1>2, MessagesHave
  <2> QED  BY <1>0, <1>1, <1>2, <2>1, <2>2, SentKeeps
<1>4. Rest'
  <2> HIDE DEF id
  <2> QED  BY <1>0, <1>1, <1>2, <1>3 DEF Rest, Attempts, threads
<1>5. CASE i # 0 /\ SetMode(p, i, "DISCONNECT_ASAP")
  <2>0. Standing(p, q)
    BY <1>1 DEF Inv
  <2>1. i \in Active(p) /\ slots[p][i].peer = q /\ Phase(p, q) # "FREE"
    BY <1>0, <1>1, <1>5, SlotOfAddress
  <2>2. "DISCONNECT_ASAP" \in Handshaking \cup Ending \cup {"CONNECTED"}
    BY DEF Ending
  <2>3. Tables' /\ Comes(p, q, "DISCONNECT_ASAP")
    BY <1>0, <1>5, <2>1, <2>2, SetModeKeeps
  <2>4. Elsewhere(p, q) /\ (Asked(p, q)' <=> Asked(p, q))
    BY <1>2 DEF Elsewhere, Asked
  <2>5. Phase(p, q)' = "DISCONNECT_ASAP"
    BY <1>1, <2>3 DEF Comes
  <2>6. Standing(p, q)'
    <3>1. clashed' = clashed /\ joined' = joined /\ waiting' = waiting
      BY <1>2 DEF threads
    <3> QED  BY <2>0, <2>1, <2>4, <2>5, <3>1 DEF Standing
  <2> QED  BY <1>1, <1>2, <1>3, <1>4, <2>3, <2>4, <2>6, OnePairMoves
<1>6. CASE UNCHANGED <<slots, lookup>>
  BY <1>2, <1>3, <1>4, <1>6, AllStay
<1> QED  BY <1>5, <1>6 DEF RunCommand

LEMMA RetryKeeps ==
  ASSUME Inv, NEW p \in Peers, NEW k, Retry(p, k)
  PROVE  Inv'
<1>0. Rest /\ Asking
  BY TypesAre DEF Inv
<1>1. PICK what \in {"retry"} :
      /\ k \in DOMAIN requests[p] /\ (left' = left \/ Uses("outage"))
      /\ handling' = [handling EXCEPT ![p] = [do |-> what, rcs |-> requests[p][k], at |-> k]]
      /\ Clash(p, cancelling[p] # Idle)
      /\ UNCHANGED <<slots, lookup, requests, commands, banned, offline, sent, joined, waiting,
                     cancelling>>
  BY DEF Retry
<1>2. /\ Attempts' /\ AtWork(p)' /\ (~clashed'[p] => ~clashed[p])
      /\ \A x \in Peers : x # p => handling'[x] = handling[x] /\ clashed'[x] = clashed[x]
  <2>1. /\ waiting'[p] \subseteq waiting[p] /\ what # "drop"
        /\ what \in {"reply", "refusal", "retry", "drop"}
    BY <1>1
  <2> QED  BY <1>1, <2>1, LookKeeps
<1>3. Rest' /\ Asking'
  <2>1. left' \in [close : Nat, send : Nat, lose : Nat, outage : Nat, restart : Nat]
    BY <1>0, <1>1, BudgetShrinks DEF Rest
  <2> QED  BY <1>0, <1>1, <1>2, <2>1 DEF Rest, Asking
<1> QED  BY <1>1, <1>2, <1>3, LookingKeeps

LEMMA ResendKeeps ==
  ASSUME PeersAssumption, Inv, NEW p \in Peers, Resend(p)
  PROVE  Inv'
<1> DEFINE rcs == handling[p].rcs   q == rcs.to   s == requests[p]
           n == [rcs EXCEPT !.made = @ + 1]
           t == [k \in DOMAIN s |-> IF s[k] = rcs THEN n ELSE s[k]]
           a == Datagram(p, q, "OPEN_CONNECTION_REQUEST")
<1>0. Tables /\ Rest /\ Asking /\ AtWork(p) /\ handling[p] # Idle /\ s \in Seq(Request)
  <2>1. Tables /\ Rest /\ Asking /\ AtWork(p)
    BY TypesAre DEF Inv
  <2>2. handling[p].do = "retry"
    BY DEF Resend
  <2>3. Idle.do = "nothing"
    BY DEF Idle
  <2>4. s \in Seq(Request)
    BY <2>1 DEF Rest, Attempts
  <2> QED  BY <2>1, <2>2, <2>3, <2>4
<1>1. q \in Peers /\ p \in Callers /\ q \in Hosts /\ rcs \in Request /\ rcs.made < MaxRequests
  BY <1>0, WorkIs DEF AtWork, Resend
<1>2. n \in Request /\ n.to = q
  BY <1>1 DEF Request, PeersAssumption
<1>3. /\ requests' = [requests EXCEPT ![p] = t] /\ offline' = offline \cup {a}
      /\ handling' = [handling EXCEPT ![p] = Idle]
      /\ UNCHANGED <<slots, lookup, commands, banned, sent, joined, waiting, left, cancelling, clashed>>
  BY DEF Resend
<1>4. /\ t \in Seq(Request) /\ DOMAIN t = DOMAIN s
      /\ \A k \in DOMAIN s : t[k].to = s[k].to
  <2>1. \A k \in DOMAIN s : s[k] \in Request
    BY <1>0
  <2>2. DOMAIN t = 1..Len(s) /\ Len(s) \in Nat /\ DOMAIN s = 1..Len(s)
    BY <1>0
  <2>3. \A k \in DOMAIN s : t[k] \in Request /\ t[k].to = s[k].to
    <3> HIDE DEF n
    <3> QED  BY <1>2, <2>1
  <2>4. t \in [1..Len(s) -> Request]
    <3>1. \A k \in DOMAIN s : (IF s[k] = rcs THEN n ELSE s[k]) \in Request
      <4> HIDE DEF n
      <4> QED  BY <1>2, <2>1
    <3> HIDE DEF n, s, rcs
    <3> QED  BY <2>2, <3>1
  <2>5. t \in Seq(Request)
    <3> HIDE DEF t, s
    <3> QED  BY <2>2, <2>4, SeqDef
  <2> QED  BY <2>2, <2>3, <2>5
<1> HIDE DEF t, n
<1>5. /\ requests' \in [Peers -> Seq(Request)] /\ requests'[p] = t
      /\ \A x \in Peers : x # p => requests'[x] = requests[x]
  BY <1>0, <1>3, <1>4 DEF Rest, Attempts
<1>6. /\ handling' \in [Peers -> Work \cup {Idle}] /\ handling'[p] = Idle
      /\ \A x \in Peers : x # p => handling'[x] = handling[x]
  BY <1>0, <1>3 DEF Rest, Attempts
<1>7. \A y : Asked(p, y)' <=> Asked(p, y)
  BY <1>4, <1>5 DEF Asked
<1>8. AtWork(p)'
  <2>1. Idle.do # "drop"
    BY DEF Idle
  <2>2. cancelling' = cancelling /\ clashed' = clashed /\ waiting' = waiting
    BY <1>3
  <2>3. \A j, k \in DOMAIN requests'[p] :
          requests'[p][j].to = requests'[p][k].to => s[j].to = s[k].to /\ j \in DOMAIN s /\ k \in DOMAIN s
    BY <1>4, <1>5
  <2>4. ASSUME ~clashed[p], cancelling[p] # Idle
        PROVE  /\ cancelling[p].at \in DOMAIN requests'[p]
               /\ requests'[p][cancelling[p].at].to = cancelling[p].to
    BY <1>0, <1>4, <1>5, <2>4 DEF AtWork
  <2>5. ~clashed[p] => \A j, k \in DOMAIN requests'[p] : requests'[p][j].to = requests'[p][k].to => j = k
    BY <1>0, <2>3 DEF AtWork
  <2>6. cancelling[p] # Idle => cancelling[p].to \notin waiting[p]
    BY <1>0 DEF AtWork
  <2> QED  BY <1>6, <2>1, <2>2, <2>4, <2>5, <2>6 DEF AtWork
<1>9. Tables' /\ \A x, y \in Peers : Phase(x, y)' = Phase(x, y)
  BY <1>0, <1>3, TablesStay
<1>10. Rest' /\ Asking'
  <2>1. a \in [from : Peers, to : Peers, id :
               Refusals \cup {"OPEN_CONNECTION_REQUEST", "OPEN_CONNECTION_REPLY"}]
    <3>1. "OPEN_CONNECTION_REQUEST" \in Refusals \cup {"OPEN_CONNECTION_REQUEST", "OPEN_CONNECTION_REPLY"}
      OBVIOUS
    <3> QED  BY <1>1, <3>1, DatagramIn
  <2>2. a.from = p /\ a.to = q
    BY DatagramHas
  <2> HIDE DEF a
  <2> QED  BY <1>0, <1>1, <1>3, <1>5, <1>6, <2>1, <2>2 DEF Rest, Attempts, Asking
<1>11. ASSUME NEW y \in Peers PROVE Standing(p, y)'
  <2>1. Standing(p, y) /\ Phase(p, y)' = Phase(p, y)
    BY <1>9 DEF Inv
  <2>2. joined' = joined /\ waiting' = waiting /\ clashed' = clashed
    BY <1>3
  <2> QED  BY <1>7, <2>1, <2>2 DEF Standing
<1>12. OthersStay(p)
  BY <1>3, <1>5, <1>6, <1>9 DEF OthersStay
<1> QED  BY <1>8, <1>9, <1>10, <1>11, <1>12, OneProcessMoves

LEMMA HandleAttemptKeeps ==
  ASSUME PeersAssumption, Inv, NEW p \in Peers, HandleAttempt(p)
  PROVE  Inv'
BY RequestConnectionKeeps, AttemptEndsKeeps, ResendKeeps DEF HandleAttempt

-----------------------------------------------------------------------------
(* The slots *)

LEMMA DropKeeps ==
  ASSUME PeersAssumption, Inv, NEW p \in Peers, NEW i, Drop(p, i)
  PROVE  Inv'
<1> SUFFICES ASSUME NEW q, q = slots[p][i].peer PROVE Inv'
  OBVIOUS
<1> DEFINE mode == slots[p][i].mode
           silent == mode \in {"UNVERIFIED_SENDER", "HANDLING_CONNECTION_REQUEST"}
<1>0. Tables /\ Rest /\ Asking /\ i \in Active(p) /\ handling[p] = Idle
  BY TypesAre DEF Inv, Drop
<1>1. q \in Peers /\ lookup[p][q] = i /\ Phase(p, q) = mode /\ mode # "FREE" /\ Standing(p, q)
  <2>1. slots[p][i] \in Slot /\ lookup[p][q] = i
    BY <1>0, SlotOfAddress
  <2>2. q \in Peers /\ mode # "FREE"
    BY <2>1 DEF Slot, Handshaking, Ending
  <2>3. i # 0
    BY <1>0 DEF Active
  <2> QED  BY <2>1, <2>2, <2>3 DEF Phase, Inv
<1>2. /\ Finds(p, q, "drop")
      /\ silent => UNCHANGED <<joined, waiting>>
      /\ ~silent => /\ joined' = [joined EXCEPT ![p] = @ \ {q}]
                    /\ waiting' = [waiting EXCEPT ![p] = @ \ {q}]
      /\ left' = left \/ Uses("outage")
      /\ sent' \subseteq sent /\ UNCHANGED <<commands, banned, offline>>
  BY DEF Drop, Forget
<1>3. Tables' /\ Comes(p, q, "FREE")
  BY <1>0, FreeingKeeps DEF Drop, Forget
<1>4. /\ Elsewhere(p, q)
      /\ joined' \in [Peers -> SUBSET Peers] /\ waiting' \in [Peers -> SUBSET Peers]
      /\ \A x \in Peers : x # p => joined'[x] = joined[x] /\ waiting'[x] = waiting[x]
  <2>1. joined' = joined \/ joined' = [joined EXCEPT ![p] = @ \ {q}]
    BY <1>2
  <2>2. waiting' = waiting \/ waiting' = [waiting EXCEPT ![p] = @ \ {q}]
    BY <1>2
  <2>3. /\ Elsewhere(p, q)
        /\ joined' \in [Peers -> SUBSET Peers] /\ waiting' \in [Peers -> SUBSET Peers]
    BY <1>0, <1>1, <2>1, <2>2, ElsewhereIs
  <2> QED  BY <1>0, <2>1, <2>2, <2>3 DEF Rest
<1>5. clashed[p] \/ ~Asked(p, q)
  BY <1>1 DEF Standing
<1>6. /\ Attempts' /\ AtWork(p)' /\ (~clashed'[p] => ~clashed[p])
      /\ \A x \in Peers : x # p => handling'[x] = handling[x] /\ clashed'[x] = clashed[x]
      /\ UNCHANGED <<requests, cancelling>>
  <2>1. waiting'[p] \subseteq waiting[p] /\ "drop" \in {"reply", "refusal", "drop"}
    BY <1>4 DEF Elsewhere
  <2> QED  BY <1>0, <1>1, <1>2, <1>5, <2>1, FindsKeeps
<1>7. Rest' /\ Asking'
  <2>1. left' \in [close : Nat, send : Nat, lose : Nat, outage : Nat, restart : Nat]
    BY <1>0, <1>2, BudgetShrinks DEF Rest
  <2> QED  BY <1>0, <1>2, <1>4, <1>6, <2>1 DEF Rest, Asking
<1>8. q \notin joined'[p] /\ (q \in waiting'[p] => q \in waiting[p] /\ silent)
  <2>1. CASE silent
    <3>1. q \notin joined[p]
      BY <1>1, <2>1 DEF Standing
    <3> QED  BY <3>1, <1>2, <2>1
  <2>2. CASE ~silent
    BY <1>0, <1>2, <2>2 DEF Rest
  <2> QED  BY <2>1, <2>2
<1>9. ASSUME NEW y \in Peers PROVE Standing(p, y)'
  <2>1. Standing(p, y) /\ (Asked(p, y)' <=> Asked(p, y))
    BY <1>6 DEF Inv, Asked
  <2>2. CASE y = q
    <3>1. Phase(p, q)' = "FREE"
      BY <1>1, <1>3 DEF Comes
    <3> QED  BY <1>1, <1>5, <1>6, <1>8, <2>1, <2>2, <3>1 DEF Standing
  <2>3. CASE y # q
    <3>1. Phase(p, y)' = Phase(p, y) /\ (y \in joined'[p] <=> y \in joined[p])
          /\ (y \in waiting'[p] => y \in waiting[p])
      BY <1>3, <1>4, <2>3 DEF Comes, Elsewhere
    <3> QED  BY <1>6, <2>1, <3>1 DEF Standing
  <2> QED  BY <2>2, <2>3
<1>10. OthersStay(p)
  BY <1>3, <1>4, <1>6 DEF OthersStay, Comes
<1> QED  BY <1>3, <1>6, <1>7, <1>9, <1>10, OneProcessMoves

\* Where a message within a connection arrives.
LEMMA ArrivesAt ==
  ASSUME Inv, NEW p \in Peers, NEW i, NEW m, NEW ids, Arrives(p, i, m, ids)
  PROVE  /\ m.from \in Peers /\ m.to = p /\ m \in sent /\ m.id \in ids
         /\ i \in Active(p) /\ slots[p][i].peer = m.from /\ lookup[p][m.from] = i
         /\ Phase(p, m.from) = slots[p][i].mode /\ Phase(p, m.from) # "FREE"
         /\ (~clashed[p] => ~Asked(p, m.from)) /\ Standing(p, m.from)
         /\ Tables /\ Rest /\ Asking
<1>1. Tables /\ Rest /\ Asking
  BY TypesAre DEF Inv
<1>2. m.from \in Peers /\ m.to = p /\ m \in sent /\ m.id \in ids /\ i \in Active(p) /\ i = lookup[p][m.from]
  BY <1>1 DEF Arrives, Rest
<1>3. i # 0
  BY <1>2 DEF Active
<1>4. Standing(p, m.from)
  BY <1>2 DEF Inv
<1> QED  BY <1>1, <1>2, <1>3, <1>4, SlotOfAddress DEF Phase, Standing

\* The types, when a message is taken out and an answer given.
LEMMA AnsweredKeeps ==
  ASSUME Rest, Asking, NEW p \in Peers, NEW q \in Peers, NEW id \in AllIds,
         id # "CONNECTION_REQUEST", sent' \subseteq sent \cup {Datagram(p, q, id)},
         UNCHANGED Steady, banned' \in [Peers -> SUBSET Peers],
         joined' \in [Peers -> SUBSET Peers], waiting' \in [Peers -> SUBSET Peers]
  PROVE  Rest' /\ Asking'
<1>1. UNCHANGED <<requests, commands, offline, left, threads>>
  BY DEF Steady
<1>2. Asking' /\ sent' \subseteq [from : Peers, to : Peers, id : AllIds]
  BY <1>1, SentKeeps
<1> QED  BY <1>1, <1>2 DEF Rest, Attempts, threads

\* A message that changes the mode of a slot, and no more than adds its
\* sender to those the application knows or takes it from those it waits for.
LEMMA ModeMoves ==
  ASSUME PeersAssumption, Inv, NEW p \in Peers, NEW i, NEW m, NEW ids, Arrives(p, i, m, ids),
         NEW mode \in Handshaking \cup Ending \cup {"CONNECTED"}, SetMode(p, i, mode),
         NEW id \in AllIds, id # "CONNECTION_REQUEST",
         sent' \subseteq sent \cup {Datagram(p, m.from, id)}, UNCHANGED <<Steady, banned>>,
         joined' = joined \/ joined' = [joined EXCEPT ![p] = @ \cup {m.from}],
         waiting' = waiting \/ waiting' = [waiting EXCEPT ![p] = @ \ {m.from}],
         mode = "CONNECTED" => joined' # joined \/ m.from \in joined[p],
         mode \in Handshaking => joined' = joined /\ m.from \notin joined[p],
         mode \in {"UNVERIFIED_SENDER", "HANDLING_CONNECTION_REQUEST"} =>
           clashed[p] \/ m.from \notin waiting[p],
         mode # "REQUESTED_CONNECTION"
  PROVE  Inv'
<1> DEFINE q == m.from
<1>0. /\ q \in Peers /\ i \in Active(p) /\ slots[p][i].peer = q /\ (~clashed[p] => ~Asked(p, q))
      /\ Standing(p, q)
      /\ Tables /\ Rest /\ Asking
  BY ArrivesAt
<1>1. Tables' /\ Comes(p, q, mode)
  BY <1>0, SetModeKeeps
<1>2. UNCHANGED <<requests, threads>> /\ clashed' = clashed /\ (Asked(p, q)' <=> Asked(p, q))
  BY DEF Steady, threads, Asked
<1>3. /\ Elsewhere(p, q)
      /\ joined' \in [Peers -> SUBSET Peers] /\ waiting' \in [Peers -> SUBSET Peers]
  BY <1>0, <1>2, ElsewhereIs
<1>4. banned' \in [Peers -> SUBSET Peers]
  BY <1>0 DEF Rest
<1>5. Rest' /\ Asking'
  BY <1>0, <1>3, <1>4, AnsweredKeeps
<1>6. Phase(p, q)' = mode
  BY <1>0, <1>1 DEF Comes
<1>7. mode = "CONNECTED" => q \in joined'[p]
  BY <1>0, <1>3 DEF Rest
<1>8. mode \in Handshaking \cup {"FREE"} => q \notin joined'[p]
  BY <1>0 DEF Handshaking, Ending
<1>9. q \in waiting'[p] => clashed[p] \/ mode \notin {"FREE", "UNVERIFIED_SENDER", "HANDLING_CONNECTION_REQUEST"}
  BY <1>0 DEF Rest, Handshaking, Ending
<1>10. Standing(p, q)'
  BY <1>0, <1>2, <1>6, <1>7, <1>8, <1>9 DEF Standing, Handshaking
<1> QED  BY <1>0, <1>1, <1>2, <1>3, <1>5, <1>10, OnePairMoves

LEMMA ParseConnectionRequestKeeps ==
  ASSUME PeersAssumption, Inv, NEW p \in Peers, NEW i, NEW m, Arrives(p, i, m, AllIds),
         slots[p][i].mode = "UNVERIFIED_SENDER",
         ParseConnectionRequest(p, i, m), UNCHANGED <<Steady, banned, joined, waiting>>
  PROVE  Inv'
<1>1. /\ m.from \in Peers /\ (~clashed[p] => ~Asked(p, m.from)) /\ Standing(p, m.from)
      /\ Phase(p, m.from) = slots[p][i].mode
  BY ArrivesAt
<1>3. m.from \notin joined[p] /\ (clashed[p] \/ m.from \notin waiting[p])
  BY <1>1 DEF Standing
<1>4. PICK mode, id :
        /\ mode \in {"DISCONNECT_ASAP_SILENTLY", "HANDLING_CONNECTION_REQUEST"}
        /\ id \in {"NO_FREE_INCOMING_CONNECTIONS", "INVALID_PASSWORD", "CONNECTION_REQUEST_ACCEPTED"}
        /\ SetMode(p, i, mode) /\ sent' = (sent \ {m}) \cup Messages(p, m.from, id)
  BY DEF ParseConnectionRequest
<1>5. /\ mode \in Handshaking \cup Ending \cup {"CONNECTED"}
      /\ mode # "CONNECTED" /\ mode # "REQUESTED_CONNECTION"
  BY <1>4 DEF Handshaking, Ending
<1>6. id \in AllIds /\ id # "CONNECTION_REQUEST"
  BY <1>4 DEF AllIds
<1>7. sent' \subseteq sent \cup {Datagram(p, m.from, id)}
  BY <1>4, MessagesHave
<1>8. UNCHANGED <<Steady, banned>> /\ joined' = joined /\ waiting' = waiting
  OBVIOUS
<1> QED  BY <1>3, <1>4, <1>5, <1>6, <1>7, <1>8, ModeMoves

LEMMA FirstMessageKeeps ==
  ASSUME PeersAssumption, Inv, NEW p \in Peers, NEW i, NEW m, FirstMessage(p, i, m)
  PROVE  Inv'
<1> DEFINE q == m.from
<1>0. Arrives(p, i, m, AllIds) /\ slots[p][i].mode = "UNVERIFIED_SENDER"
  BY DEF FirstMessage
<1>1. /\ q \in Peers /\ i \in Active(p) /\ slots[p][i].peer = q /\ (~clashed[p] => ~Asked(p, q))
      /\ Standing(p, q) /\ Phase(p, q) = "UNVERIFIED_SENDER" /\ Tables /\ Rest /\ Asking
  BY <1>0, ArrivesAt
<1>2. CASE ParseConnectionRequest(p, i, m) /\ UNCHANGED banned
  BY <1>0, <1>2, ParseConnectionRequestKeeps DEF FirstMessage
<1>3. CASE /\ slots' = [slots EXCEPT ![p][i] = Free]
           /\ lookup' = [lookup EXCEPT ![p][m.from] = 0]
           /\ sent' = sent \ {m}
           /\ banned' = [banned EXCEPT ![p] = @ \cup {m.from}]
  <2>1. Tables' /\ Comes(p, q, "FREE")
    BY <1>1, <1>3, FreeingKeeps
  <2>2. UNCHANGED <<requests, threads, commands, offline, left, joined, waiting>>
    BY DEF FirstMessage, Steady
  <2>3. Rest' /\ Asking'
    BY <1>1, <1>3, <2>2 DEF Rest, Attempts, threads, Asking
  <2>4. Elsewhere(p, q) /\ clashed' = clashed /\ (Asked(p, q)' <=> Asked(p, q))
    BY <1>1, <2>2, ElsewhereIs DEF threads, Asked
  <2>5. q \notin joined[p] /\ (clashed[p] \/ q \notin waiting[p])
    BY <1>1 DEF Standing
  <2>6. Phase(p, q)' = "FREE"
    BY <1>1, <2>1 DEF Comes
  <2>7. Standing(p, q)'
    BY <1>1, <2>2, <2>4, <2>5, <2>6 DEF Standing
  <2> QED  BY <1>1, <2>1, <2>2, <2>3, <2>4, <2>7, OnePairMoves
<1> QED  BY <1>2, <1>3 DEF FirstMessage

\* A message that leaves the tables alone.
LEMMA NothingMoves ==
  ASSUME Inv, NEW p \in Peers, NEW i, NEW m, NEW ids, Arrives(p, i, m, ids),
         UNCHANGED <<slots, lookup, Steady, banned, joined>>, NEW id \in AllIds,
         id # "CONNECTION_REQUEST", sent' \subseteq sent \cup {Datagram(p, m.from, id)},
         waiting' = waiting \/ waiting' = [waiting EXCEPT ![p] = @ \ {m.from}]
  PROVE  Inv'
<1> DEFINE q == m.from
<1>0. q \in Peers /\ Standing(p, q) /\ Tables /\ Rest /\ Asking
  BY ArrivesAt
<1>1. Tables' /\ (\A x, y \in Peers : Phase(x, y)' = Phase(x, y)) /\ Comes(p, q, Phase(p, q))
  BY <1>0, TablesStay DEF Comes
<1>2. /\ UNCHANGED <<requests, threads>> /\ clashed' = clashed /\ (Asked(p, q)' <=> Asked(p, q))
      /\ joined' = joined /\ banned' = banned /\ UNCHANGED Steady
  BY DEF Steady, threads, Asked
<1>3. /\ Elsewhere(p, q)
      /\ joined' \in [Peers -> SUBSET Peers] /\ waiting' \in [Peers -> SUBSET Peers]
  BY <1>0, <1>2, ElsewhereIs
<1>4. banned' \in [Peers -> SUBSET Peers]
  BY <1>0, <1>2 DEF Rest
<1>5. Rest' /\ Asking'
  BY <1>0, <1>2, <1>3, <1>4, AnsweredKeeps
<1>6. q \in waiting'[p] => q \in waiting[p]
  BY <1>0 DEF Rest
<1>7. Standing(p, q)'
  BY <1>0, <1>1, <1>2, <1>3, <1>6 DEF Standing
<1> QED  BY <1>0, <1>1, <1>2, <1>3, <1>5, <1>7, OnePairMoves

LEMMA ConnectionRequestKeeps ==
  ASSUME PeersAssumption, Inv, NEW p \in Peers, NEW i, NEW m, ConnectionRequest(p, i, m)
  PROVE  Inv'
<1>1. Arrives(p, i, m, {"CONNECTION_REQUEST"})
  BY DEF ConnectionRequest, Speaks
<1>2. /\ Asking /\ m \in sent /\ m.to = p /\ m.id = "CONNECTION_REQUEST" /\ m.from \in Peers
      /\ Phase(p, m.from) = slots[p][i].mode /\ Standing(p, m.from)
  BY <1>1, ArrivesAt
<1>3. p \in Hosts /\ p \notin Callers
  BY <1>2 DEF Asking, PeersAssumption
<1>4. slots[p][i].mode # "REQUESTED_CONNECTION"
  BY <1>2, <1>3 DEF Standing
<1>5. /\ sent' = (sent \ {m}) \cup Messages(p, m.from, "CONNECTION_REQUEST_ACCEPTED")
      /\ UNCHANGED <<slots, lookup, Steady, banned, joined>> /\ waiting' = waiting
  BY <1>4 DEF ConnectionRequest
<1>6. "CONNECTION_REQUEST_ACCEPTED" \in AllIds
  BY DEF AllIds
<1>7. sent' \subseteq sent \cup {Datagram(p, m.from, "CONNECTION_REQUEST_ACCEPTED")}
  BY <1>5, MessagesHave
<1> QED  BY <1>1, <1>5, <1>6, <1>7, NothingMoves

LEMMA NewIncomingConnectionKeeps ==
  ASSUME PeersAssumption, Inv, NEW p \in Peers, NEW i, NEW m, NewIncomingConnection(p, i, m)
  PROVE  Inv'
<1>1. /\ Arrives(p, i, m, {"NEW_INCOMING_CONNECTION"}) /\ sent' = sent \ {m}
      /\ UNCHANGED <<Steady, banned>> /\ waiting' = waiting
  BY DEF NewIncomingConnection, Speaks
<1>2. /\ "DATA" \in AllIds /\ sent' \subseteq sent \cup {Datagram(p, m.from, "DATA")}
      /\ m.from \in Peers /\ Rest
  BY <1>1, ArrivesAt DEF AllIds
<1>3. CASE /\ SetMode(p, i, "CONNECTED")
           /\ joined' = [joined EXCEPT ![p] = @ \cup {m.from}]
  <2>1. /\ "CONNECTED" \in Handshaking \cup Ending \cup {"CONNECTED"} /\ "CONNECTED" \notin Handshaking
        /\ joined' # joined \/ m.from \in joined[p]
    BY <1>2, <1>3 DEF Handshaking, Rest
  <2>2. "CONNECTED" \notin {"UNVERIFIED_SENDER", "HANDLING_CONNECTION_REQUEST", "REQUESTED_CONNECTION"}
    OBVIOUS
  <2>3. "DATA" # "CONNECTION_REQUEST" /\ SetMode(p, i, "CONNECTED")
    BY <1>3
  <2> QED  BY <1>1, <1>2, <1>3, <2>1, <2>2, <2>3, ModeMoves
<1>4. CASE UNCHANGED <<slots, lookup, joined>>
  BY <1>1, <1>2, <1>4, NothingMoves
<1> QED  BY <1>3, <1>4 DEF NewIncomingConnection

LEMMA DisconnectionNotificationKeeps ==
  ASSUME PeersAssumption, Inv, NEW p \in Peers, NEW i, NEW m, DisconnectionNotification(p, i, m)
  PROVE  Inv'
<1>1. /\ Arrives(p, i, m, {"DISCONNECTION_NOTIFICATION"}) /\ sent' = sent \ {m}
      /\ UNCHANGED <<Steady, banned>> /\ joined' = joined /\ waiting' = waiting
      /\ SetMode(p, i, "DISCONNECT_ON_NO_ACK")
  BY DEF DisconnectionNotification, Speaks
<1>2. "DATA" \in AllIds /\ sent' \subseteq sent \cup {Datagram(p, m.from, "DATA")}
  BY <1>1 DEF AllIds
<1>3. /\ "DISCONNECT_ON_NO_ACK" \in Handshaking \cup Ending \cup {"CONNECTED"}
      /\ "DISCONNECT_ON_NO_ACK" \notin Handshaking
  BY DEF Handshaking, Ending
<1> QED  BY <1>1, <1>2, <1>3, ModeMoves

LEMMA AcceptedKeeps ==
  ASSUME PeersAssumption, Inv, NEW p \in Peers, NEW i, NEW m, Accepted(p, i, m)
  PROVE  Inv'
<1>1. Arrives(p, i, m, {"CONNECTION_REQUEST_ACCEPTED"}) /\ UNCHANGED <<Steady, banned>>
  BY DEF Accepted, Speaks
<1>2. {"DATA", "NEW_INCOMING_CONNECTION"} \subseteq AllIds /\ m.from \in Peers /\ Rest
  BY <1>1, ArrivesAt DEF AllIds
<1>3. CASE /\ SetMode(p, i, "CONNECTED")
           /\ joined' = [joined EXCEPT ![p] = @ \cup {m.from}]
           /\ waiting' = [waiting EXCEPT ![p] = @ \ {m.from}]
           /\ sent' = (sent \ {m}) \cup {Datagram(p, m.from, "NEW_INCOMING_CONNECTION")}
  <2>1. /\ "CONNECTED" \in Handshaking \cup Ending \cup {"CONNECTED"} /\ "CONNECTED" \notin Handshaking
        /\ joined' # joined \/ m.from \in joined[p]
    BY <1>2, <1>3 DEF Handshaking, Rest
  <2>2. sent' \subseteq sent \cup {Datagram(p, m.from, "NEW_INCOMING_CONNECTION")}
    BY <1>3
  <2>3. "CONNECTED" \notin {"UNVERIFIED_SENDER", "HANDLING_CONNECTION_REQUEST", "REQUESTED_CONNECTION"}
    OBVIOUS
  <2>4. /\ "NEW_INCOMING_CONNECTION" # "CONNECTION_REQUEST" /\ "NEW_INCOMING_CONNECTION" \in AllIds
        /\ SetMode(p, i, "CONNECTED")
    BY <1>2, <1>3
  <2>5. /\ joined' = joined \/ joined' = [joined EXCEPT ![p] = @ \cup {m.from}]
        /\ waiting' = waiting \/ waiting' = [waiting EXCEPT ![p] = @ \ {m.from}]
    BY <1>3
  <2> QED  BY <1>1, <2>1, <2>2, <2>3, <2>4, <2>5, ModeMoves
<1>4. CASE sent' = sent \ {m} /\ UNCHANGED <<slots, lookup, joined, waiting>>
  <2>1. sent' \subseteq sent \cup {Datagram(p, m.from, "DATA")}
    BY <1>4
  <2> QED  BY <1>1, <1>2, <1>4, <2>1, NothingMoves
<1> QED  BY <1>3, <1>4 DEF Accepted

LEMMA ForApplicationKeeps ==
  ASSUME Inv, NEW p \in Peers, NEW i, NEW m, ForApplication(p, i, m)
  PROVE  Inv'
<1>1. /\ Arrives(p, i, m, {"NO_FREE_INCOMING_CONNECTIONS", "INVALID_PASSWORD", "DATA"})
      /\ sent' = sent \ {m} /\ UNCHANGED <<slots, lookup, Steady, banned, joined>>
      /\ waiting' = [waiting EXCEPT ![p] = IF m.id = "DATA" THEN @ ELSE @ \ {m.from}]
  BY DEF ForApplication, Speaks
<1>2. Rest
  BY <1>1, ArrivesAt
<1>3. waiting' = waiting \/ waiting' = [waiting EXCEPT ![p] = @ \ {m.from}]
  BY <1>1, <1>2 DEF Rest
<1>4. "DATA" \in AllIds /\ sent' \subseteq sent \cup {Datagram(p, m.from, "DATA")}
  BY <1>1 DEF AllIds
<1> QED  BY <1>1, <1>3, <1>4, NothingMoves

-----------------------------------------------------------------------------
(* The rest of the world *)

LEMMA RestartKeeps ==
  ASSUME PeersAssumption, Inv, NEW p \in Peers, Restart(p)
  PROVE  Inv'
<1>0. Tables /\ Rest /\ Asking
  BY TypesAre DEF Inv
<1> DEFINE fresh == [i \in 1..Slots[p] |-> Free]   none == [q \in Peers |-> 0]
<1>1. slots' = [slots EXCEPT ![p] = fresh] /\ lookup' = [lookup EXCEPT ![p] = none]
  BY DEF Restart
<1>2. fresh \in [1..Slots[p] -> Slot \cup {Free}] /\ none \in [Peers -> Nat]
  OBVIOUS
<1>3. \A i \in 1..Slots[p] : fresh[i] = Free
  OBVIOUS
<1>4. \A q \in Peers : none[q] = 0 /\ none[q] <= Slots[p]
  BY DEF PeersAssumption
<1> HIDE DEF fresh, none
<1>5. \A x \in Peers : /\ slots'[x] = IF x = p THEN fresh ELSE slots[x]
                       /\ lookup'[x] = IF x = p THEN none ELSE lookup[x]
  BY <1>0, <1>1 DEF Tables
<1>6. Tables'
  <2>1. slots' = [x \in Peers |-> slots'[x]]
    BY <1>0, <1>1 DEF Tables
  <2>2. \A x \in Peers : slots'[x] \in [1..Slots[x] -> Slot \cup {Free}]
    BY <1>0, <1>2, <1>5 DEF Tables
  <2>3. lookup' \in [Peers -> [Peers -> Nat]] /\ \A x, y \in Peers : lookup'[x][y] <= Slots[x]
    BY <1>0, <1>1, <1>2, <1>4 DEF Tables
  <2>4. ASSUME NEW x \in Peers PROVE FoundByAddress(x)'
    <3>1. CASE x = p
      BY <3>1, <1>3, <1>4, <1>5 DEF FoundByAddress, Active
    <3>2. CASE x # p
      <4>1. slots'[x] = slots[x] /\ lookup'[x] = lookup[x]
        BY <3>2, <1>5
      <4> QED  BY <4>1, <1>0 DEF Tables, FoundByAddress, Active
    <3> QED  BY <3>1, <3>2
  <2> QED  BY <2>1, <2>2, <2>3, <2>4 DEF Tables
<1>7. \A x, y \in Peers : Phase(x, y)' = IF x = p THEN "FREE" ELSE Phase(x, y)
  BY <1>4, <1>5 DEF Phase
<1>8. /\ requests' = [requests EXCEPT ![p] = <<>>] /\ commands' = [commands EXCEPT ![p] = <<>>]
      /\ banned' = [banned EXCEPT ![p] = {}] /\ joined' = [joined EXCEPT ![p] = {}]
      /\ waiting' = [waiting EXCEPT ![p] = {}] /\ sent' \subseteq sent /\ UNCHANGED offline
      /\ cancelling' = [cancelling EXCEPT ![p] = Idle] /\ handling' = [handling EXCEPT ![p] = Idle]
      /\ clashed' = [clashed EXCEPT ![p] = FALSE]
  BY DEF Restart
<1>9. Rest' /\ Asking'
  <2>1. left' \in [close : Nat, send : Nat, lose : Nat, outage : Nat, restart : Nat]
    BY <1>0, BudgetShrinks DEF Restart
  <2>2. Attempts'
    BY <1>0, <1>8 DEF Rest, Attempts
  <2> QED  BY <1>0, <1>8, <2>1, <2>2 DEF Rest, Asking
<1>10. ASSUME NEW y \in Peers PROVE Standing(p, y)'
  <2>1. y \notin joined'[p] /\ y \notin waiting'[p] /\ ~Asked(p, y)'
    BY <1>0, <1>8 DEF Rest, Attempts, Asked
  <2> QED  BY <2>1, <1>7 DEF Standing
<1>11. AtWork(p)'
  <2>1. requests'[p] = <<>> /\ cancelling'[p] = Idle /\ handling'[p] = Idle
    BY <1>0, <1>8 DEF Rest, Attempts
  <2> QED  BY <2>1 DEF AtWork, Idle
<1>12. OthersStay(p)
  BY <1>0, <1>7, <1>8 DEF OthersStay, Rest, Attempts
<1> QED  BY <1>6, <1>9, <1>10, <1>11, <1>12, OneProcessMoves

LEMMA WorldKeeps ==
  ASSUME Inv, LoseDatagram \/ \E p \in Peers : Unban(p)
  PROVE  Inv'
<1>0. Rest /\ Asking
  BY TypesAre DEF Inv
<1>1. CASE LoseDatagram
  <2>1. left' \in [close : Nat, send : Nat, lose : Nat, outage : Nat, restart : Nat]
    BY <1>0, <1>1, BudgetShrinks DEF LoseDatagram
  <2>2. Rest' /\ Asking'
    BY <1>0, <1>1, <2>1 DEF LoseDatagram, Rest, Attempts, threads, Asking
  <2> QED  BY <1>1, <2>2, AllStay DEF LoseDatagram
<1>2. ASSUME NEW p \in Peers, Unban(p) PROVE Inv'
  <2>1. Rest' /\ Asking'
    BY <1>0, <1>2 DEF Unban, Rest, Attempts, threads, Asking
  <2> QED  BY <1>2, <2>1, AllStay DEF Unban
<1> QED  BY <1>1, <1>2

-----------------------------------------------------------------------------
(* The theorems *)

LEMMA NextKeeps ==
  ASSUME PeersAssumption, Inv, [PeersNext]_peerVars
  PROVE  Inv'
<1>1. CASE UNCHANGED peerVars
  BY <1>1, AllStay, TypesAre DEF peerVars, threads, Inv, Rest, Attempts, Asking
<1>2. ASSUME NEW p \in Callers, NEW q \in Hosts, SendConnectionRequest(p, q) PROVE Inv'
  BY <1>2, ConnectKeeps
<1>3. ASSUME NEW p \in Peers, NEW q \in Peers, CloseConnection(p, q) \/ Send(p, q) PROVE Inv'
  BY <1>3, CloseConnectionKeeps, SendKeeps
<1>4. ASSUME NEW p \in Peers, NEW d \in offline \cup sent, ReadDatagram(p, d) PROVE Inv'
  BY <1>4, TurnAwayKeeps, RepliesKeep, OpenConnectionRequestKeeps
     DEF ReadDatagram
<1>5. ASSUME NEW p \in Peers, RunCommand(p) PROVE Inv'
  BY <1>5, RunCommandKeeps
<1>6. ASSUME NEW p \in Peers, NEW k \in DOMAIN requests[p], Retry(p, k) PROVE Inv'
  BY <1>6, RetryKeeps
<1>7. ASSUME NEW p \in Peers, NEW i \in 1..Slots[p], Drop(p, i) PROVE Inv'
  BY <1>7, DropKeeps
<1>8. ASSUME NEW p \in Peers, NEW i \in 1..Slots[p], NEW m \in sent, ReadMessage(p, i, m) PROVE Inv'
  BY <1>8, FirstMessageKeeps, ConnectionRequestKeeps, NewIncomingConnectionKeeps,
     DisconnectionNotificationKeeps, AcceptedKeeps, ForApplicationKeeps DEF ReadMessage
<1>9. ASSUME NEW p \in Peers, Unban(p) \/ Restart(p) PROVE Inv'
  BY <1>9, WorldKeeps, RestartKeeps
<1>10. CASE LoseDatagram
  BY <1>10, WorldKeeps
<1>11. ASSUME NEW p \in Peers, HandleAttempt(p) \/ CancelAttempt(p) PROVE Inv'
  BY <1>11, HandleAttemptKeeps, CancelAttemptKeeps
<1> QED
  BY <1>1, <1>2, <1>3, <1>4, <1>5, <1>6, <1>7, <1>8, <1>9, <1>10, <1>11 DEF PeersNext

LEMMA InitHolds ==
  ASSUME PeersAssumption, PeersInit
  PROVE  Inv
<1>1. Tables
  <2>1. \A p \in Peers : slots[p] = [i \in 1..Slots[p] |-> Free] /\ Active(p) = {}
    BY DEF PeersInit, Active
  <2>2. \A p \in Peers : slots[p] \in [1..Slots[p] -> Slot \cup {Free}]
    BY <2>1
  <2>3. slots = [p \in Peers |-> slots[p]]
    BY DEF PeersInit
  <2>4. \A p, q \in Peers : lookup[p][q] = 0
    BY DEF PeersInit
  <2> QED  BY <2>1, <2>2, <2>3, <2>4 DEF PeersInit, Tables, FoundByAddress, PeersAssumption
<1>2. Rest
  BY DEF PeersInit, Rest, Attempts, PeersAssumption
<1>3. Asking
  BY DEF PeersInit, Asking
<1>4. \A p, q \in Peers : Standing(p, q)
  BY DEF PeersInit, Standing, Phase, Asked
<1>5. \A p \in Peers : AtWork(p)
  <2>1. \A p \in Peers : requests[p] = <<>> /\ cancelling[p] = Idle /\ handling[p] = Idle
    BY DEF PeersInit
  <2> QED  BY <2>1 DEF AtWork, Idle
<1> QED  BY <1>1, <1>2, <1>3, <1>4, <1>5, TypesAre DEF Inv

\* What the inductive invariant says, whatever the number of processes.
LEMMA ConnectionInvariant ==
  ASSUME PeersAssumption
  PROVE  PeersSpec => []Inv
<1>1. PeersInit => Inv
  BY InitHolds
<1>2. Inv /\ [PeersNext]_peerVars => Inv'
  BY NextKeeps
<1> QED  BY <1>1, <1>2, PTL DEF PeersSpec

\* The tables, queues and datagrams of RakPeer are what they are declared as.
THEOREM ConnectionTypes == PeersAssumption => (PeersSpec => []PeersTypeOK)
<1> SUFFICES ASSUME PeersAssumption PROVE PeersSpec => []PeersTypeOK
  OBVIOUS
<1> QED  BY ConnectionInvariant, PTL DEF Inv

\* What the application was told of its connections is so, for any number of
\* processes, slots and attempts, and however often datagrams are lost,
\* connections break and processes start again.
THEOREM ToldOfConnections == PeersAssumption => (PeersSpec => []ApplicationKnows)
<1> SUFFICES ASSUME PeersAssumption PROVE PeersSpec => []ApplicationKnows
  OBVIOUS
<1>1. ASSUME Inv, NEW p \in Peers
      PROVE  /\ FoundByAddress(p)
             /\ \A i \in Active(p) :
                  /\ slots[p][i].mode = "CONNECTED" => slots[p][i].peer \in joined[p]
                  /\ slots[p][i].mode \in Handshaking /\ ~clashed[p] => slots[p][i].peer \notin joined[p]
             /\ \A q \in joined[p] : lookup[p][q] # 0
  <2>0. Tables /\ Rest /\ \A q \in Peers : Standing(p, q)
    BY <1>1, TypesAre DEF Inv
  <2>1. ASSUME NEW i \in Active(p)
        PROVE  /\ slots[p][i].mode = "CONNECTED" => slots[p][i].peer \in joined[p]
               /\ slots[p][i].mode \in Handshaking /\ ~clashed[p] => slots[p][i].peer \notin joined[p]
    <3>1. slots[p][i].peer \in Peers /\ lookup[p][slots[p][i].peer] = i /\ i # 0
      BY <2>0, SlotOfAddress DEF Slot, Active
    <3>2. Phase(p, slots[p][i].peer) = slots[p][i].mode
      BY <3>1 DEF Phase
    <3> QED  BY <2>0, <3>1, <3>2 DEF Standing, Handshaking
  <2>2. ASSUME NEW q \in joined[p] PROVE lookup[p][q] # 0
    <3>1. q \in Peers
      BY <2>0 DEF Rest
    <3> QED  BY <2>0, <3>1 DEF Standing, Phase
  <2> QED  BY <2>0, <2>1, <2>2 DEF Tables
<1>2. Inv => ApplicationKnows
  BY <1>1 DEF ApplicationKnows
<1> QED  BY <1>2, ConnectionInvariant, PTL

\* An attempt to connect is never forgotten while its application waits, in a
\* process whose two threads have not clashed over the queue of attempts.
THEOREM AttemptsAreAnswered == PeersAssumption => (PeersSpec => []NobodyWaitsInVain)
<1> SUFFICES ASSUME PeersAssumption PROVE PeersSpec => []NobodyWaitsInVain
  OBVIOUS
<1>1. Inv => NobodyWaitsInVain
  <2> SUFFICES ASSUME Inv, NEW p \in Peers, ~clashed[p], NEW q \in waiting[p], ~Asked(p, q)
               PROVE  /\ lookup[p][q] # 0
                      /\ slots[p][lookup[p][q]].mode \notin
                            {"UNVERIFIED_SENDER", "HANDLING_CONNECTION_REQUEST"}
    BY DEF NobodyWaitsInVain, WillBeAnswered
  <2>1. q \in Peers /\ Standing(p, q)
    BY TypesAre DEF Inv, Rest
  <2> QED  BY <2>1 DEF Standing, Phase
<1> QED  BY <1>1, ConnectionInvariant, PTL

\* An application knows no more connected processes than it has slots, the
\* number it gave Startup (RakPeer.cpp:261-404, lwoWorld.cpp:132); that the
\* same holds of a smaller number of incoming connections is not so.
THEOREM RoomForAll ==
  PeersAssumption => (PeersSpec => [](\A p \in Peers : Cardinality(joined[p]) <= Slots[p]))
<1> SUFFICES ASSUME PeersAssumption
             PROVE  PeersSpec => [](\A p \in Peers : Cardinality(joined[p]) <= Slots[p])
  OBVIOUS
<1>1. ASSUME Inv, NEW p \in Peers PROVE Cardinality(joined[p]) <= Slots[p]
  <2>0. Tables /\ Rest /\ (\A q \in Peers : Standing(p, q)) /\ Slots[p] \in Nat
    BY <1>1, TypesAre DEF Inv, PeersAssumption
  <2> DEFINE places == [q \in joined[p] |-> lookup[p][q]]
  <2>1. ASSUME NEW q \in joined[p]
        PROVE  q \in Peers /\ lookup[p][q] \in 1..Slots[p] /\ slots[p][lookup[p][q]].peer = q
    <3>1. q \in Peers
      BY <2>0 DEF Rest
    <3>2. Phase(p, q) # "FREE"
      BY <2>0, <3>1 DEF Standing
    <3> QED  BY <2>0, <3>1, <3>2, SlotOfAddress DEF Active
  <2>2. places \in Injection(joined[p], 1..Slots[p])
    BY <2>1 DEF Injection, IsInjective
  <2>3. IsFiniteSet(1..Slots[p]) /\ Cardinality(1..Slots[p]) = Slots[p]
    BY <2>0, FS_Interval
  <2> HIDE DEF places
  <2> QED  BY <2>2, <2>3, FS_Injection
<1>2. Inv => \A p \in Peers : Cardinality(joined[p]) <= Slots[p]
  BY <1>1
<1> QED  BY <1>2, ConnectionInvariant, PTL

=============================================================================
