-------------------------- MODULE ReliabilityLayer --------------------------
(***************************************************************************)
(* One direction of a RakNet connection (ReliabilityLayer.cpp): Send puts  *)
(* messages on the queues of their priorities, cut into pieces when they   *)
(* are too long; GenerateDatagram fills datagrams with what is due again   *)
(* and what waits, numbers the messages and keeps the reliable ones to     *)
(* resend; the other side drops duplicates, acknowledges, reassembles,     *)
(* orders or sequences, and the acknowledgements come back.  The network   *)
(* loses, repeats and reorders datagrams.                                  *)
(*                                                                         *)
(* Times are counted down in ticks from the present, so no clock grows.    *)
(***************************************************************************)
EXTENDS Integers, Sequences, FiniteSets, SequencesExt

CONSTANTS
  Plans,         \* the connections to look at, see plan
  MaxSends,      \* bound on the number of messages
  Backlog,       \* messages the program lets be unanswered at a time
  Channels,      \* ordering channels in use
  Whole,         \* longest message that is not split
  Piece,         \* units of data in a piece of a split message
  NumMod,        \* 2^32 message numbers
  OrdMod,        \* 2^32 ordering indices
  SplitMod,      \* 2^16 ids of split messages
  HoleLimit,     \* 1000000: a message further ahead is dropped
  GiveUp,        \* ticks until a missing message is given up (60 s); 0: the
                 \* network delivers some copy of each message before that
  Timeout        \* ticks without acknowledgement until the connection is dead

Unreliable == {"UNRELIABLE", "UNRELIABLE_SEQUENCED"}
Reliable == {"RELIABLE", "RELIABLE_ORDERED", "RELIABLE_SEQUENCED"}
Sequenced == {"UNRELIABLE_SEQUENCED", "RELIABLE_SEQUENCED"}
Ids == 1..MaxSends
Priorities == 1..4                \* SYSTEM_PRIORITY to LOW_PRIORITY

ASSUME ReliabilityAssumption ==
  /\ \A pl \in Plans :
        /\ \A m \in pl.menu : /\ m.pri \in Priorities /\ m.ch \in Channels
                              /\ m.rel \in Unreliable \union Reliable
                              /\ m.size \in Nat \ {0}
        /\ pl.sends \in 0..MaxSends
        /\ pl.room \in Nat /\ Whole <= pl.room
        /\ pl.wait \in Nat \ {0}
        /\ pl.starts \subseteq 0..(NumMod - 1)
        /\ pl.repeats \in BOOLEAN /\ pl.losses \in Nat
  /\ Piece <= Whole
  /\ {MaxSends, Backlog, HoleLimit, GiveUp} \subseteq Nat
  /\ {Piece, Timeout, NumMod, OrdMod, SplitMod} \subseteq Nat \ {0}

VARIABLES
  plan,            \* what the connection is used for and over which network:
                   \* [menu, sends, room, wait, starts, repeats, losses]
  sendPacketSet,   \* per priority, the messages not sent yet
  snd,             \* the sender's counters, see SenderStart
  resendQueue,     \* sent reliable messages; acknowledged ones are holes
  resendList,      \* numbers of the messages not acknowledged
  rcv,             \* the receiver, see ReceiverStart
  wire,            \* datagrams under way
  acksOnWire,      \* acknowledgements under way
  lost,            \* how many of both vanished
  asked,           \* history: by id, what was passed to Send and as what it went
  course           \* history: the number of the first message, how many messages
                   \* have a number, and how many of those asked were split

vars == <<plan, sendPacketSet, snd, resendQueue, resendList, rcv, wire, acksOnWire,
          lost, asked, course>>
net == <<wire, acksOnWire, lost>>

Menu == plan.menu         \* what the program may send: [pri, rel, ch, size]
Room == plan.room         \* units of data a datagram takes
ResendWait == plan.wait   \* ticks until a message is sent again
Repeats == plan.repeats   \* datagrams may arrive again
Losses == plan.losses     \* bound on datagrams that vanish; a datagram may
                          \* also just never arrive

Hole == -1         \* nextActionTime = 0
Got == 0           \* an entry of hasReceivedPacketQueue that arrived
Expired == 1       \* one that is no longer waited for
Missing == GiveUp + 2
NoSilence == 0     \* lastAckTime = 0
Unsplit == -1      \* a message that is sent whole has no splitPacketId

SenderStart(n) ==
  [sendMessageNumberIndex |-> n, splitPacketId |-> 0, silence |-> NoSilence,
   ordWrite |-> [c \in Channels |-> n % OrdMod],
   seqWrite |-> [c \in Channels |-> n % OrdMod],
   young |-> n = 0, dead |-> FALSE]

ReceiverStart(n) ==
  [receivedPacketsBaseIndex |-> n, hasReceivedPacketQueue |-> <<>>,
   ordRead |-> [c \in Channels |-> n % OrdMod],
   seqRead |-> [c \in Channels |-> n % OrdMod],
   orderingList |-> [c \in Channels |-> {}],
   splits |-> {}, acknowlegements |-> {}, outputQueue |-> <<>>]

Init ==
  /\ plan \in Plans
  /\ \E n \in plan.starts : /\ snd = SenderStart(n) /\ rcv = ReceiverStart(n)
                             /\ course = [first |-> n, count |-> 0, splits |-> 0]
  /\ sendPacketSet = [p \in Priorities |-> <<>>]
  /\ resendQueue = <<>> /\ resendList = {}
  /\ wire = {} /\ acksOnWire = {} /\ lost = 0
  /\ asked = <<>>

-----------------------------------------------------------------------------
(* Send.                                                                   *)

\* In its first minute a connection sends everything reliably.
Upgraded(rel) ==
  CASE snd.young /\ rel = "UNRELIABLE" -> "RELIABLE"
    [] snd.young /\ rel = "UNRELIABLE_SEQUENCED" -> "RELIABLE_ORDERED"
    [] OTHER -> rel

IndexFor(rel, ch) ==
  CASE rel \in Sequenced -> snd.seqWrite[ch]
    [] rel = "RELIABLE_ORDERED" -> snd.ordWrite[ch]
    [] OTHER -> 0

Packet(m, id) ==
  LET rel == Upgraded(m.rel) IN
  [id |-> id, rel |-> rel, ch |-> m.ch, ord |-> IndexFor(rel, m.ch),
   size |-> m.size, sid |-> 0, idx |-> 0, cnt |-> 0, num |-> -1]

\* SplitPacket: the pieces, the last one with what is left.
Pieces(p) ==
  LET n == (p.size - 1) \div Piece + 1 IN
  [i \in 1..n |-> [p EXCEPT !.sid = snd.splitPacketId, !.idx = i - 1, !.cnt = n,
                            !.size = IF i < n THEN Piece ELSE p.size - (n - 1) * Piece]]

\* Slip: a split message did not use up its id.
SplitKeepsId(p) == snd.splitPacketId

NextSplitId(p) ==
  IF p.size > Whole THEN (snd.splitPacketId + 1) % SplitMod ELSE snd.splitPacketId

\* Messages of which a piece waits to be sent or for its acknowledgement.
Open ==
  {resendQueue[i].msg.id : i \in {j \in DOMAIN resendQueue : resendQueue[j].wait # Hole}}
    \union UNION {{sendPacketSet[p][i].id : i \in DOMAIN sendPacketSet[p]} : p \in Priorities}

Send(m) ==
  LET id == Len(asked) + 1  p == Packet(m, id) IN
  /\ id <= plan.sends /\ Cardinality(Open) < Backlog
  /\ ~snd.dead
  /\ sendPacketSet' = [sendPacketSet EXCEPT ![m.pri] =
        @ \o (IF m.size > Whole THEN Pieces(p) ELSE <<p>>)]
  /\ snd' = [snd EXCEPT
        !.splitPacketId = NextSplitId(p),
        !.seqWrite[m.ch] = IF p.rel \in Sequenced THEN (@ + 1) % OrdMod ELSE @,
        !.ordWrite[m.ch] = IF p.rel = "RELIABLE_ORDERED" THEN (@ + 1) % OrdMod ELSE @]
  /\ asked' = Append(asked, [rel |-> m.rel, as |-> p.rel, ch |-> m.ch, ord |-> p.ord,
                             cnt |-> IF m.size > Whole THEN Len(Pieces(p)) ELSE 1,
                             sid |-> IF m.size > Whole THEN snd.splitPacketId ELSE Unsplit])
  /\ course' = [course EXCEPT !.splits = IF m.size > Whole THEN @ + 1 ELSE @]
  /\ UNCHANGED <<plan, resendQueue, resendList, rcv, net>>

-----------------------------------------------------------------------------
(* GenerateDatagram.                                                       *)

\* What is at the places of a set, in the order of the sequence.
Picked(s, places) ==
  LET upTo[i \in 0..Len(s)] ==
        IF i = 0 THEN <<>>
        ELSE IF i \in places THEN Append(upTo[i - 1], s[i]) ELSE upTo[i - 1]
  IN upTo[Len(s)]

Load(s) == FoldLeft(LAMBDA n, p : n + p.size, 0, s)

Messages(entries) == [i \in DOMAIN entries |-> entries[i].msg]
IsDue(e) == e.wait = 0
IsHole(e) == e.wait = Hole
DueAmong(n) == Messages(Picked(resendQueue, {i \in 1..n : IsDue(resendQueue[i])}))

\* How many entries of the resend queue are taken off it: holes are freed,
\* due messages go out, until one does not fit or is not due yet.
Resent ==
  Max({k \in 0..Len(resendQueue) :
         k > 0 => /\ \A i \in 1..k : IsHole(resendQueue[i]) \/ IsDue(resendQueue[i])
                  /\ Load(DueAmong(k)) <= Room})

\* A resend that did not fit ends the datagram.
ResendBlocked == Resent < Len(resendQueue) /\ IsDue(resendQueue[Resent + 1])

Again == DueAmong(Resent)

\* How many messages of a queue fit.
Fitting(q, room) == Max({k \in 0..Len(q) : k > 0 => Load(SubSeq(q, 1, k)) <= room})

\* How many messages of each priority follow: a message that does not fit ends
\* its own queue only.
Taken ==
  LET after(room, p, n) == room - Load(SubSeq(sendPacketSet[p], 1, n))
      room1 == Room - Load(Again)      n1 == Fitting(sendPacketSet[1], room1)
      room2 == after(room1, 1, n1)     n2 == Fitting(sendPacketSet[2], room2)
      room3 == after(room2, 2, n2)     n3 == Fitting(sendPacketSet[3], room3)
      room4 == after(room3, 3, n3)     n4 == Fitting(sendPacketSet[4], room4)
  IN IF ResendBlocked THEN <<0, 0, 0, 0>> ELSE <<n1, n2, n3, n4>>

\* Message numbers are assigned in the order of sending.
Numbered(news) ==
  [i \in DOMAIN news |->
     [news[i] EXCEPT !.num = (snd.sendMessageNumberIndex + i - 1) % NumMod]]

AckTimeout == snd.silence > Timeout
KeepsToResend(s) == Picked(s, {i \in DOMAIN s : s[i].rel \in Reliable})
Entries(s) == [i \in DOMAIN s |-> [msg |-> s[i], wait |-> ResendWait]]
Numbers(s) == {s[i].num : i \in DOMAIN s}

Requeued(news) ==
  SubSeq(resendQueue, Resent + 1, Len(resendQueue)) \o Entries(Again) \o Entries(news)

\* The first messages of the queues, as many as fit.
News(taken) ==
  LET Off(p) == SubSeq(sendPacketSet[p], 1, taken[p])
  IN Numbered(Off(1) \o Off(2) \o Off(3) \o Off(4))

\* One datagram of Update's loop; flow control decides when, not what.
GenerateDatagram ==
  /\ ~snd.dead /\ ~(resendList # {} /\ AckTimeout)
  /\ \E taken \in {Taken} : \E news \in {News(taken)} : \E kept \in {KeepsToResend(news)} :
       /\ Resent > 0 \/ news # <<>>
       /\ resendQueue' = Requeued(kept)
       /\ resendList' = resendList \union Numbers(kept)
       /\ sendPacketSet' = [p \in Priorities |->
             SubSeq(sendPacketSet[p], taken[p] + 1, Len(sendPacketSet[p]))]
       /\ snd' = [snd EXCEPT
             !.sendMessageNumberIndex = (@ + Len(news)) % NumMod,
             !.silence = IF kept # <<>> /\ @ = NoSilence THEN 1 ELSE @]
       /\ wire' = IF Again \o news = <<>> THEN wire ELSE wire \union {Again \o news}
       /\ course' = [course EXCEPT !.count = @ + Len(news)]
  /\ UNCHANGED <<plan, rcv, acksOnWire, lost, asked>>

\* Update finds that reliable messages stay unanswered for too long.
DieOfSilence ==
  /\ ~snd.dead /\ resendList # {} /\ AckTimeout
  /\ snd' = [snd EXCEPT !.dead = TRUE]
  /\ UNCHANGED <<plan, sendPacketSet, resendQueue, resendList, rcv, net, asked, course>>

-----------------------------------------------------------------------------
(* The receiver: what HandleSocketReceiveFromConnectedPlayer does with one *)
(* message; r is the receiver before it.                                   *)

\* a is older than what is waited for, on the circle of ordering indices.
IsOlderOrderedPacket(a, waiting) ==
  LET maxRange == OrdMod - 1  half == maxRange \div 2 IN
  IF waiting > half
  THEN a >= waiting - half + 1 /\ a < waiting
  ELSE a >= (waiting - (half + 1)) % OrdMod \/ a < waiting

\* Slip: what waited in the ordering list was not looked at again.
DrainNever(r, c) == r

\* The index n places after the one that channel c waits for.
Follows(r, c, n) == (r.ordRead[c] + n) % OrdMod

\* Slip: everything in the ordering list was taken for what comes next.
DrainAll(r, c) ==
  [r EXCEPT !.outputQueue = @ \o SetToSortSeq(r.orderingList[c], LAMBDA a, b : a.parts[1] < b.parts[1]),
            !.orderingList[c] = {},
            !.ordRead[c] = (@ + Cardinality(r.orderingList[c])) % OrdMod]

\* The ordering list is cycled until nothing in it is next.
Drain(r, c) ==
  LET have == {e.ord : e \in r.orderingList[c]}
      run == CHOOSE n \in 0..OrdMod :
               /\ \A i \in 0..(n - 1) : Follows(r, c, i) \in have
               /\ n < OrdMod => Follows(r, c, n) \notin have
      nth(i) == CHOOSE e \in r.orderingList[c] : e.ord = Follows(r, c, i - 1)
      gone == {Follows(r, c, i) : i \in 0..(run - 1)}
  IN [r EXCEPT !.outputQueue = @ \o [i \in 1..run |-> nth(i)],
               !.ordRead[c] = (@ + run) % OrdMod,
               !.orderingList[c] = {e \in @ : e.ord \notin gone}]

Output(r, e) == [r EXCEPT !.outputQueue = Append(@, e)]

Order(r, e) ==
  IF e.ord = r.ordRead[e.ch]
  THEN Drain([Output(r, e) EXCEPT !.ordRead[e.ch] = (@ + 1) % OrdMod], e.ch)
  ELSE [r EXCEPT !.orderingList[e.ch] = @ \union {e}]

PiecesHeld(r, sid) == {q \in r.splits : q.sid = sid}
FirstPiece(s) == CHOOSE q \in s : \A o \in s : q.idx <= o.idx

\* InsertIntoSplitPacketList: an index that is there already stays as it is.
WithPiece(r, p) ==
  IF \E q \in PiecesHeld(r, p.sid) : q.idx = p.idx THEN r
  ELSE [r EXCEPT !.splits = {[q EXCEPT !.idle = IF q.sid = p.sid THEN 0 ELSE @] : q \in @}
                            \union {[sid |-> p.sid, idx |-> p.idx, cnt |-> p.cnt, id |-> p.id,
                                     ord |-> p.ord, ch |-> p.ch, rel |-> p.rel, idle |-> 0]}]

\* BuildPacketFromSplitPacketList has as many pieces as the first one says.
IsComplete(r, sid) ==
  LET s == PiecesHeld(r, sid) IN Cardinality(s) = FirstPiece(s).cnt

WithoutSplit(r, sid) == [r EXCEPT !.splits = {q \in @ : q.sid # sid}]

\* What reaches the program: the ids of the pieces it is made of.
Rebuilt(r, sid) ==
  LET s == PiecesHeld(r, sid)  f == FirstPiece(s) IN
  [ord |-> f.ord, ch |-> f.ch, rel |-> f.rel,
   parts |-> LET l == CHOOSE l \in [1..Cardinality(s) -> s] :
                        \A i, j \in 1..Cardinality(s) : i < j => l[i].idx < l[j].idx
             IN [i \in 1..Cardinality(s) |-> l[i].id]]

Single(p) == [ord |-> p.ord, ch |-> p.ch, rel |-> p.rel, parts |-> <<p.id>>]

\* Slip: indices were compared as if they never wrapped.
SupersededFlat(r, p) == p.ord < r.seqRead[p.ch]

\* A newer message of the channel was delivered already.
Superseded(r, p) == IsOlderOrderedPacket(p.ord, r.seqRead[p.ch])

Sequence(r, p) ==
  LET w == WithPiece(r, p)  Passed(s) == [s EXCEPT !.seqRead[p.ch] = (p.ord + 1) % OrdMod] IN
  CASE Superseded(r, p) -> r
    [] ~Superseded(r, p) /\ p.cnt = 0 -> Output(Passed(r), Single(p))
    [] ~Superseded(r, p) /\ p.cnt > 0 ->
         IF IsComplete(w, p.sid)
         THEN Output(WithoutSplit(Passed(w), p.sid), Rebuilt(w, p.sid)) ELSE w

OrderOrOutput(r, e) == IF e.rel = "RELIABLE_ORDERED" THEN Order(r, e) ELSE Output(r, e)

Reassemble(r, p) ==
  LET w == WithPiece(r, p) IN
  IF IsComplete(w, p.sid)
  THEN OrderOrOutput(WithoutSplit(w, p.sid), Rebuilt(w, p.sid)) ELSE w

Process(r, p) ==
  CASE p.rel \in Sequenced -> Sequence(r, p)
    [] p.rel \notin Sequenced /\ p.cnt > 0 -> Reassemble(r, p)
    [] OTHER -> OrderOrOutput(r, Single(p))

\* Slip: the base moved on past what is still missing.
PopAll(r) ==
  [r EXCEPT !.hasReceivedPacketQueue = <<>>,
            !.receivedPacketsBaseIndex = (@ + Len(r.hasReceivedPacketQueue)) % NumMod]

\* Received and given-up entries leave the front of the queue.
PopExpired(r) ==
  LET q == r.hasReceivedPacketQueue
      k == CHOOSE n \in 0..Len(q) : /\ \A i \in 1..n : q[i] <= Expired
                                    /\ n < Len(q) => q[n + 1] > Expired
  IN [r EXCEPT !.hasReceivedPacketQueue = SubSeq(q, k + 1, Len(q)),
               !.receivedPacketsBaseIndex = (@ + k) % NumMod]

HoleCount(r, p) == (p.num - r.receivedPacketsBaseIndex) % NumMod

\* Slip: what is received again counted as a hole.
IsDuplicateNever(r, p) == HoleCount(r, p) > (NumMod - 1) \div 2

IsDuplicate(r, p) ==
  LET h == HoleCount(r, p)  q == r.hasReceivedPacketQueue IN
  \/ h > (NumMod - 1) \div 2
  \/ h # 0 /\ h < Len(q) /\ q[h + 1] = Got

TooFar(r, p) == HoleCount(r, p) >= Len(r.hasReceivedPacketQueue) /\ HoleCount(r, p) > HoleLimit

Marked(r, p) ==
  LET h == HoleCount(r, p)  q == r.hasReceivedPacketQueue IN
  CASE h = 0 -> [r EXCEPT !.hasReceivedPacketQueue = IF @ = <<>> THEN @ ELSE Tail(@),
                          !.receivedPacketsBaseIndex = (@ + 1) % NumMod]
    [] h > 0 /\ h < Len(q) -> [r EXCEPT !.hasReceivedPacketQueue[h + 1] = Got]
    [] OTHER -> [r EXCEPT !.hasReceivedPacketQueue =
                   Append(@ \o [i \in 1..(h - Len(q)) |-> Missing], Got)]

\* Every reliable message is acknowledged, whatever becomes of it.
Acked(r, p) ==
  IF p.rel \in Reliable THEN [r EXCEPT !.acknowlegements = @ \union {p.num}] ELSE r

HandleMessage(r, p) ==
  LET a == Acked(r, p) IN
  IF IsDuplicate(r, p) \/ TooFar(r, p) THEN a ELSE Process(PopExpired(Marked(a, p)), p)

-----------------------------------------------------------------------------
(* Datagrams arrive, vanish, and arrive again.                             *)

\* The messages of a datagram, one after the other.
HandleAll(d) ==
  LET after[k \in 0..Len(d)] ==
        IF k = 0 THEN rcv ELSE HandleMessage(after[k - 1], d[k])
  IN after[Len(d)]

Receive(d) ==
  /\ d \in wire
  /\ rcv' = HandleAll(d)
  /\ wire' = IF Repeats THEN wire ELSE wire \ {d}
  /\ UNCHANGED <<plan, sendPacketSet, snd, resendQueue, resendList, acksOnWire, lost, asked, course>>

\* The receiver's own Update sends its acknowledgements.
SendAcks ==
  /\ rcv.acknowlegements # {}
  /\ acksOnWire' = acksOnWire \union {rcv.acknowlegements}
  /\ rcv' = [rcv EXCEPT !.acknowlegements = {}]
  /\ UNCHANGED <<plan, sendPacketSet, snd, resendQueue, resendList, wire, lost, asked, course>>

\* RemovePacketFromResendListAndDeleteOlderReliableSequenced, for each number.
ReceiveAcks(a) ==
  /\ a \in acksOnWire /\ ~snd.dead
  /\ resendList' = resendList \ a
  /\ resendQueue' = [i \in DOMAIN resendQueue |->
        IF resendQueue[i].msg.num \in a \intersect resendList
        THEN [resendQueue[i] EXCEPT !.wait = Hole] ELSE resendQueue[i]]
  /\ snd' = [snd EXCEPT !.silence = IF resendList' = {} THEN NoSilence ELSE 1]
  /\ acksOnWire' = IF Repeats THEN acksOnWire ELSE acksOnWire \ {a}
  /\ UNCHANGED <<plan, sendPacketSet, rcv, wire, lost, asked, course>>

Lose ==
  /\ lost < Losses /\ lost' = lost + 1
  /\ \/ \E d \in wire : wire' = wire \ {d} /\ UNCHANGED acksOnWire
     \/ \E a \in acksOnWire : acksOnWire' = acksOnWire \ {a} /\ UNCHANGED wire
  /\ UNCHANGED <<plan, sendPacketSet, snd, resendQueue, resendList, rcv, asked, course>>

-----------------------------------------------------------------------------
(* Time.                                                                   *)

IsStale(q) == q.idle > Timeout /\ q.rel \in Unreliable

\* DeleteOldUnreliableSplitPackets, in the receiver's Update.
ForgetSplit ==
  \E sid \in {q.sid : q \in rcv.splits} :
    /\ IsStale(FirstPiece(PiecesHeld(rcv, sid)))
    /\ rcv' = WithoutSplit(rcv, sid)
    /\ UNCHANGED <<plan, sendPacketSet, snd, resendQueue, resendList, net, asked, course>>

Tick ==
  /\ resendQueue' = [i \in DOMAIN resendQueue |->
        [resendQueue[i] EXCEPT !.wait = IF @ > 0 THEN @ - 1 ELSE @]]
  /\ snd' = [snd EXCEPT !.silence = IF @ # NoSilence /\ @ <= Timeout THEN @ + 1 ELSE @]
  /\ rcv' = [rcv EXCEPT
        !.hasReceivedPacketQueue =
           [i \in DOMAIN @ |-> IF @[i] > Expired /\ GiveUp > 0 THEN @[i] - 1 ELSE @[i]],
        !.splits = {[q EXCEPT !.idle = IF @ <= Timeout THEN @ + 1 ELSE @] : q \in @}]
  /\ <<resendQueue, snd, rcv>>' # <<resendQueue, snd, rcv>>
  /\ UNCHANGED <<plan, sendPacketSet, resendList, net, asked, course>>

\* The connection is a minute old.
Mature ==
  /\ snd.young
  /\ snd' = [snd EXCEPT !.young = FALSE]
  /\ UNCHANGED <<plan, sendPacketSet, resendQueue, resendList, rcv, net, asked, course>>

Next ==
  \/ \E m \in Menu : Send(m)
  \/ GenerateDatagram
  \/ DieOfSilence
  \/ \E d \in wire : Receive(d)
  \/ SendAcks
  \/ \E a \in acksOnWire : ReceiveAcks(a)
  \/ Lose
  \/ ForgetSplit
  \/ Tick
  \/ Mature

Spec == Init /\ [][Next]_vars

\* The numbers of the messages that wait for their acknowledgement.
Unanswered ==
  {resendQueue[i].msg.num : i \in {j \in DOMAIN resendQueue : ~IsHole(resendQueue[j])}}

\* The layer's thread keeps running; what waits to be answered arrives unless
\* it is lost, and so for the answers.
Fairness ==
  /\ WF_vars(GenerateDatagram \/ DieOfSilence) /\ WF_vars(SendAcks) /\ WF_vars(Tick)
  /\ WF_vars(\E d \in wire : (\E k \in DOMAIN d : d[k].num \in Unanswered) /\ Receive(d))
  /\ WF_vars(\E a \in acksOnWire : a \intersect Unanswered # {} /\ ReceiveAcks(a))

FairSpec == Spec /\ Fairness

-----------------------------------------------------------------------------
(* Properties.                                                             *)

PacketFields == {"id", "rel", "ch", "ord", "size", "sid", "idx", "cnt", "num"}

\* Sender and receiver state have the shapes of ReliabilityLayer.h; the queue of
\* received numbers starts with a hole and the numbers stay within their width.
TypeOK ==
  /\ \A p \in Priorities : \A i \in DOMAIN sendPacketSet[p] :
        DOMAIN sendPacketSet[p][i] = PacketFields /\ sendPacketSet[p][i].num = -1
  /\ snd.sendMessageNumberIndex \in 0..(NumMod - 1)
  /\ snd.splitPacketId \in 0..(SplitMod - 1)
  /\ snd.silence \in 0..(Timeout + 1)
  /\ \A i \in DOMAIN resendQueue : resendQueue[i].wait \in Hole..ResendWait
  /\ resendList \subseteq 0..(NumMod - 1)
  /\ rcv.receivedPacketsBaseIndex \in 0..(NumMod - 1)
  /\ rcv.hasReceivedPacketQueue # <<>> => Head(rcv.hasReceivedPacketQueue) # Got

Delivered == [i \in DOMAIN rcv.outputQueue |-> rcv.outputQueue[i].parts[1]]

\* However often datagrams are repeated and resent, the program gets a message at
\* most once (PacketPriority.h:44: "it will also discard duplicate datagrams").
DeliveredOnce ==
  \A i, j \in DOMAIN Delivered : i # j => Delivered[i] # Delivered[j]

\* A split message is put together from all of its own pieces and no others
\* (ReliabilityLayer.cpp:2444: "It's ok if this wraps to 0").
PiecesOfOne ==
  \A i \in DOMAIN rcv.outputQueue :
    LET parts == rcv.outputQueue[i].parts IN
    /\ \A k \in DOMAIN parts : parts[k] = parts[1]
    /\ Len(parts) = asked[parts[1]].cnt

\* Two messages that the program asked to be sequenced on one channel, and the
\* second is delivered after the first.
InTurn(i, j) ==
  LET a == asked[Delivered[i]]   b == asked[Delivered[j]]
  IN i < j /\ a.rel \in Sequenced /\ b.rel \in Sequenced /\ a.ch = b.ch
WentAlike(i, j) ==
  (asked[Delivered[i]].as \in Sequenced) <=> (asked[Delivered[j]].as \in Sequenced)

\* Of the messages a program asked to be sequenced on a channel none is delivered
\* after a newer one, whether they went sequenced or, in the first minute,
\* ordered: as long as both went the same way (ReliabilityLayer.cpp:663-726,
\* 756-847, 980-987).
SequenceMovesForward ==
  \A i, j \in DOMAIN Delivered :
    InTurn(i, j) /\ WentAlike(i, j) => Delivered[i] < Delivered[j]

\* What the documentation says of them all and the code does not do: "Out of order
\* messages will be discarded" (PacketPriority.h:47).  One of the first minute is
\* sent RELIABLE_ORDERED (ReliabilityLayer.cpp:986), with the index of another
\* counter, and is not compared with a later one that is sent as it was asked.
SequencedAsAsked ==
  \A i, j \in DOMAIN Delivered : InTurn(i, j) => Delivered[i] < Delivered[j]

InQueues(id, k) ==
  \E p \in Priorities : \E i \in DOMAIN sendPacketSet[p] :
    sendPacketSet[p][i].id = id /\ sendPacketSet[p][i].idx = k
WillResend(id, k) ==
  \E i \in DOMAIN resendQueue : /\ ~IsHole(resendQueue[i])
                                /\ resendQueue[i].msg.id = id /\ resendQueue[i].msg.idx = k
Holds(id, k) ==
  \/ \E i \in DOMAIN rcv.outputQueue : id \in ToSet(rcv.outputQueue[i].parts)
  \/ \E c \in Channels : \E e \in rcv.orderingList[c] : id \in ToSet(e.parts)
  \/ \E q \in rcv.splits : q.id = id /\ q.idx = k
Overtaken(id) ==
  /\ id \in DOMAIN asked
  /\ asked[id].as = "RELIABLE_SEQUENCED"
  /\ \E i \in DOMAIN Delivered : /\ Delivered[i] > id
                                /\ asked[Delivered[i]].ch = asked[id].ch
                                /\ asked[Delivered[i]].as \in Sequenced

\* Every piece of a reliable message waits to be sent, will be sent again, or is
\* with the receiver: an acknowledgement never ends the resending of what the
\* receiver threw away (PacketPriority.h:50: "The message is sent reliably").
NothingLost ==
  \A id \in DOMAIN asked : asked[id].as \in Reliable =>
    \A k \in 0..(asked[id].cnt - 1) :
      InQueues(id, k) \/ WillResend(id, k) \/ Holds(id, k) \/ Overtaken(id)

OfChannels(s) ==
  [c \in Channels |-> Picked(s, {i \in DOMAIN s : /\ asked[s[i]].as = "RELIABLE_ORDERED"
                                                /\ asked[s[i]].ch = c})]

Stream == INSTANCE OrderedStream WITH
  sent <- OfChannels([i \in DOMAIN asked |-> i]), received <- OfChannels(Delivered),
  Values <- Ids

\* On each channel the ordered messages come out as from a queue: in the order of
\* sending, without gaps and without repetition.
OrderedAsSent == Stream!Spec

\* A reliable message gets through unless a newer one made it pointless or the
\* connection is given up.
GetsThrough ==
  \A id \in Ids :
    (id \in DOMAIN asked /\ asked[id].as \in Reliable)
      ~> (id \in ToSet(Delivered) \/ Overtaken(id) \/ snd.dead)
=============================================================================
