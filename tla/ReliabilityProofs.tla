-------------------------- MODULE ReliabilityProofs --------------------------
(***************************************************************************)
(* Over any network that loses, repeats and reorders datagrams, for any    *)
(* lengths, priorities and sizes of datagrams: a message is delivered at   *)
(* most once and in one piece; of the sequenced messages of a channel none *)
(* comes after a newer one; and no piece of a reliable message gets lost.  *)
(* The theorems say how far the counters may have come round.              *)
(*                                                                         *)
(* The sections: the invariants; the circle of numbers; the receiver's     *)
(* window, its content and what processing a message does to them; what    *)
(* the sender's steps keep; then the order of sequenced messages; and what *)
(* became of every piece.                                                  *)
(***************************************************************************)
EXTENDS ReliabilityLayer, TLAPS, SequenceTheorems, FiniteSetTheorems, WellFoundedInduction

-----------------------------------------------------------------------------
(* The invariant *)

\* No number can be taken for an older one, and no id of a split message was
\* used again.
Half == (NumMod - 1) \div 2
NotRound == course.count <= Half /\ course.splits < SplitMod

Reliability == Unreliable \union Reliable
Orders == 0..(OrdMod - 1)

Message == [id : Ids, rel : Reliability, ch : Channels, ord : Orders, size : Int,
            sid : 0..(SplitMod - 1), idx : Nat, cnt : Nat, num : Int]
SplitPiece == [sid : 0..(SplitMod - 1), idx : Nat, cnt : Nat \ {0}, id : Ids, ord : Orders,
               ch : Channels, rel : Reliability, idle : Int]
Entry == [ord : Orders, ch : Channels, rel : Reliability, parts : Seq(Ids) \ {<<>>}]

ResendEntry == [msg : Message, wait : Int]
SenderRecord ==
  [sendMessageNumberIndex : 0..(NumMod - 1), splitPacketId : 0..(SplitMod - 1), silence : Nat,
   ordWrite : [Channels -> Orders], seqWrite : [Channels -> Orders],
   young : BOOLEAN, dead : BOOLEAN]
AskedRecord ==
  [rel : Reliability, as : Reliability, ch : Channels, ord : Orders, cnt : Nat \ {0},
   sid : {Unsplit} \union 0..(SplitMod - 1)]

Courses == [first : 0..(NumMod - 1), count : Nat, splits : Nat]

SenderTypes ==
  /\ plan \in Plans
  /\ sendPacketSet \in [Priorities -> Seq(Message)]
  /\ snd \in SenderRecord
  /\ resendQueue \in Seq(ResendEntry)
  /\ wire \subseteq Seq(Message)
  /\ asked \in Seq(AskedRecord)
  /\ course \in Courses

Receivers ==
  [receivedPacketsBaseIndex : 0..(NumMod - 1), hasReceivedPacketQueue : Seq(Nat),
   ordRead : [Channels -> Orders], seqRead : [Channels -> Orders],
   orderingList : [Channels -> SUBSET Entry], splits : SUBSET SplitPiece,
   acknowlegements : SUBSET Int, outputQueue : Seq(Entry)]
ReceiverTypes(r) == r \in Receivers

\* How many messages before the one with number n, on the circle of numbers.
Place(n) == IF n >= course.first THEN n - course.first ELSE n - course.first + NumMod

SentAgain == {resendQueue[i].msg : i \in DOMAIN resendQueue}
Sent == SentAgain \union UNION {{d[k] : k \in DOMAIN d} : d \in wire}

\* What is sent, held or delivered is labelled as it was asked.
Labelled(x, a) == x.rel = a.as /\ x.ch = a.ch /\ x.ord = a.ord

\* A message is, as far as its fields tell, a piece of what was asked.
FitsIn(all, m) ==
  /\ m.id \in 1..Len(all) /\ m.idx < all[m.id].cnt /\ Labelled(m, all[m.id])
  /\ IF m.cnt = 0 THEN all[m.id].cnt = 1 ELSE m.cnt = all[m.id].cnt /\ m.sid = all[m.id].sid
Fits(m) == FitsIn(asked, m)

SameKey(m, o) == m.id = o.id /\ m.idx = o.idx

\* Ids of split messages are the number of those before.
SplitIds ==
  /\ snd.splitPacketId <= course.splits
  /\ \A i \in 1..Len(asked) : asked[i].sid < snd.splitPacketId
  /\ \A i, j \in 1..Len(asked) :
        i # j /\ asked[i].sid # Unsplit => asked[i].sid # asked[j].sid

\* What waits to be sent is not under way; no two of them are one piece.
QueuesFit ==
  /\ \A p \in Priorities : \A i \in 1..Len(sendPacketSet[p]) :
        Fits(sendPacketSet[p][i]) /\ \A m \in Sent : ~SameKey(m, sendPacketSet[p][i])
  /\ \A p, q \in Priorities : \A i \in 1..Len(sendPacketSet[p]), j \in 1..Len(sendPacketSet[q]) :
        SameKey(sendPacketSet[p][i], sendPacketSet[q][j]) => p = q /\ i = j

\* Every piece under way has one number, of those that were given out.
SentFits ==
  /\ Place(snd.sendMessageNumberIndex) = course.count
  /\ \A m \in Sent : /\ Fits(m) /\ m.num \in 0..(NumMod - 1)
                     /\ Place(m.num) < course.count
  /\ \A m, o \in Sent : SameKey(m, o) => m.num = o.num

SenderInv == SplitIds /\ QueuesFit /\ SentFits

\* The receiver took, or gave up, the message with number n.
IsReceived(r, n) ==
  LET h == Place(n) - Place(r.receivedPacketsBaseIndex)
  IN h < 0 \/ (h < Len(r.hasReceivedPacketQueue) /\ r.hasReceivedPacketQueue[h + 1] = Got)

Window(r) ==
  /\ Place(r.receivedPacketsBaseIndex) + Len(r.hasReceivedPacketQueue) <= course.count
  /\ Len(r.hasReceivedPacketQueue) > 0 => r.hasReceivedPacketQueue[1] # Got

\* No copy of this piece will be looked at any more.
Settled(r, id, k) ==
  /\ \A p \in Priorities : \A i \in 1..Len(sendPacketSet[p]) :
       ~(sendPacketSet[p][i].id = id /\ sendPacketSet[p][i].idx = k)
  /\ \A m \in Sent : m.id = id /\ m.idx = k => IsReceived(r, m.num)

SplitsFit(r) ==
  /\ \A q \in r.splits :
        /\ q.id \in 1..Len(asked) /\ q.idx < asked[q.id].cnt
        /\ q.cnt = asked[q.id].cnt /\ q.sid = asked[q.id].sid
        /\ Labelled(q, asked[q.id]) /\ Settled(r, q.id, q.idx)
  /\ \A q, o \in r.splits : SameKey(q, o) => q = o

\* What is delivered, or waits for its turn, is whole and settled.
IsWhole(r, e) ==
  LET id == e.parts[1] IN
  /\ id \in 1..Len(asked) /\ Labelled(e, asked[id])
  /\ Len(e.parts) = asked[id].cnt /\ \A k \in 1..Len(e.parts) : e.parts[k] = id
  /\ \A k \in 0..(asked[id].cnt - 1) : Settled(r, id, k)

OutputFits(r) ==
  LET out == r.outputQueue IN
  /\ \A i \in 1..Len(out) : IsWhole(r, out[i])
  /\ \A i, j \in 1..Len(out) : out[i].parts[1] = out[j].parts[1] => i = j

ListsFit(r) ==
  /\ \A c \in Channels : \A e \in r.orderingList[c] :
        /\ IsWhole(r, e) /\ e.rel = "RELIABLE_ORDERED" /\ e.ch = c
        /\ \A i \in 1..Len(r.outputQueue) : r.outputQueue[i].parts[1] # e.parts[1]
  /\ \A c, d \in Channels : \A e \in r.orderingList[c], o \in r.orderingList[d] :
        e.parts[1] = o.parts[1] => c = d /\ e = o

ReceiverInv(r) ==
  ReceiverTypes(r) /\ Window(r) /\ SplitsFit(r) /\ OutputFits(r) /\ ListsFit(r)

Inv == SenderTypes /\ (NotRound => SenderInv /\ ReceiverInv(rcv))

-----------------------------------------------------------------------------
(* The indices of a channel, and what became of every piece *)

\* Of two indices the code can tell which one is older.
OrdHalf == (OrdMod - 1) \div 2
IndicesNotRound == Len(asked) < OrdHalf

\* How many indices before this one, on the circle of indices.
OrdFirst == course.first % OrdMod
Turn(n) == IF n >= OrdFirst THEN n - OrdFirst ELSE n - OrdFirst + OrdMod

\* Messages that get their indices from the same counter.
Indexed == Sequenced \union {"RELIABLE_ORDERED"}
SameLine(a, b) == a.ch = b.ch /\ (a.as \in Sequenced <=> b.as \in Sequenced)
NextIndex(a) == IF a.as \in Sequenced THEN snd.seqWrite[a.ch] ELSE snd.ordWrite[a.ch]

\* Later messages of a counter have later indices.
IndicesFit ==
  /\ \A c \in Channels : Turn(snd.seqWrite[c]) <= Len(asked) /\ Turn(snd.ordWrite[c]) <= Len(asked)
  /\ \A i \in 1..Len(asked) :
        asked[i].as \in Indexed => Turn(asked[i].ord) < Turn(NextIndex(asked[i]))
  /\ \A i, j \in 1..Len(asked) :
        i < j /\ asked[i].as \in Indexed /\ asked[j].as \in Indexed /\ SameLine(asked[i], asked[j])
          => Turn(asked[i].ord) < Turn(asked[j].ord)

\* A channel waits for the index after that of the newest message it delivered.
SequenceFits(r) ==
  LET out == r.outputQueue IN
  /\ \A c \in Channels :
        /\ Turn(r.seqRead[c]) <= Len(asked)
        /\ Turn(r.seqRead[c]) > 0 =>
              \E i \in 1..Len(out) : /\ out[i].rel \in Sequenced /\ out[i].ch = c
                                     /\ Turn(out[i].ord) + 1 = Turn(r.seqRead[c])
  /\ \A i \in 1..Len(out) :
        out[i].rel \in Sequenced => Turn(out[i].ord) < Turn(r.seqRead[out[i].ch])
  /\ \A i, j \in 1..Len(out) :
        /\ i < j
        /\ out[i].rel \in Sequenced /\ out[j].rel \in Sequenced /\ out[i].ch = out[j].ch
        => out[i].parts[1] < out[j].parts[1]

SequenceInv == NotRound /\ IndicesNotRound => IndicesFit /\ SequenceFits(rcv)

\* No number was given up, and none is so far ahead that it would be dropped.
InReach(r) ==
  /\ course.count - Place(r.receivedPacketsBaseIndex) <= HoleLimit
  /\ \A i \in 1..Len(r.hasReceivedPacketQueue) : r.hasReceivedPacketQueue[i] # Expired
Smooth == NotRound /\ IndicesNotRound /\ InReach(rcv)

\* The receiver has a piece, or a newer message made it pointless.
Has(r, id, k) ==
  \/ \E i \in 1..Len(r.outputQueue) : r.outputQueue[i].parts[1] = id
  \/ \E c \in Channels : \E e \in r.orderingList[c] : e.parts[1] = id
  \/ \E q \in r.splits : q.id = id /\ q.idx = k
Pointless(r, id) ==
  /\ asked[id].as = "RELIABLE_SEQUENCED"
  /\ \E i \in 1..Len(r.outputQueue) :
        LET o == r.outputQueue[i].parts[1]
        IN o > id /\ asked[o].ch = asked[id].ch /\ asked[o].as \in Sequenced
Safe(r, id, k) == Has(r, id, k) \/ Pointless(r, id)

\* A number belongs to one piece.
NumbersTell == \A m, o \in Sent : m.num = o.num => SameKey(m, o)

\* What is acknowledged was received, and what was received is safe.
AcksTrue(r) == \A n \in r.acknowlegements : n \in 0..(NumMod - 1) /\ IsReceived(r, n)
AnswersTrue(r) == \A a \in acksOnWire : \A n \in a : n \in 0..(NumMod - 1) /\ IsReceived(r, n)
ReceivedIsSafe(r) ==
  \A m \in Sent : m.rel \in Reliable /\ IsReceived(r, m.num) => Safe(r, m.id, m.idx)

AllCovered(r) ==
  \A id \in 1..Len(asked) : asked[id].as \in Reliable =>
    \A k \in 0..(asked[id].cnt - 1) : InQueues(id, k) \/ WillResend(id, k) \/ Safe(r, id, k)

KeepingInv ==
  Smooth => /\ NumbersTell /\ AcksTrue(rcv) /\ AnswersTrue(rcv)
            /\ ReceivedIsSafe(rcv) /\ AllCovered(rcv)

-----------------------------------------------------------------------------
(* Numbers and sequences *)

\* A set of natural numbers has a least element.  (NaturalsInduction states it
\* for a predicate.)
LEMMA Least ==
  ASSUME NEW T, T \subseteq Nat, T # {}
  PROVE  \E x \in T : \A y \in T : x <= y
<1>1. \E x \in T : \A y \in T : ~(<<y, x>> \in OpToRel(<, Nat))
  BY WFMin, NatLessThanWellFounded
<1>2. PICK x \in T : \A y \in T : ~(<<y, x>> \in OpToRel(<, Nat))
  BY <1>1
<1>3. ASSUME NEW y \in T PROVE ~(y < x)
  BY <1>2 DEF OpToRel
<1> QED  BY <1>3

\* The operator of FiniteSetsExt, on the sets it is used for.
LEMMA MaxIsIn ==
  ASSUME NEW n \in Nat, NEW S \in SUBSET (0..n), S # {}
  PROVE  Max(S) \in S /\ \A x \in S : x <= Max(S)
<1> DEFINE T == {n - x : x \in S}
<1>1. T \subseteq Nat /\ T # {}
  <2>1. \A x \in S : x \in 0..n /\ n - x \in Nat
    OBVIOUS
  <2>2. PICK x \in S : TRUE
    OBVIOUS
  <2>3. n - x \in T
    BY <2>2
  <2> QED  BY <2>1, <2>3
<1>2. PICK t \in T : \A y \in T : t <= y
  BY <1>1, Least
<1>3. PICK z \in S : t = n - z
  BY <1>2
<1>4. \A x \in S : z >= x
  <2> TAKE x \in S
  <2>1. t <= n - x
    BY <1>2
  <2> QED  BY <2>1, <1>3
<1> QED  BY <1>3, <1>4 DEF Max

\* f starts with v and goes on by the steps.
IsChain(f, n, V, v, step) ==
  /\ f \in [0..n -> V] /\ f[0] = v
  /\ \A i \in 1..n : f[i] = step[i][f[i - 1]]

\* What is defined from one place to the next is defined at every place.
LEMMA Chain ==
  ASSUME NEW n \in Nat, NEW V, NEW v \in V, NEW step \in [1..n -> [V -> V]]
  PROVE  \E f : IsChain(f, n, V, v, step)
<1> DEFINE Upto(k) == \E f : IsChain(f, k, V, v, step)
           T == {k \in 0..n : ~Upto(k)}
<1>1. SUFFICES T = {}
  BY <1>1
<1> SUFFICES ASSUME T # {} PROVE FALSE
  OBVIOUS
<1>2. PICK k \in T : \A j \in T : k <= j
  BY Least, T \subseteq Nat
<1>3. Upto(0)
  <2> DEFINE f == [i \in 0..0 |-> v]
  <2>1. f \in [0..0 -> V] /\ f[0] = v
    OBVIOUS
  <2>2. \A i \in 1..0 : f[i] = step[i][f[i - 1]]
    OBVIOUS
  <2> HIDE DEF f
  <2> QED  BY <2>1, <2>2 DEF IsChain
<1> HIDE DEF Upto
<1>4. k \in 0..n /\ ~Upto(k)
  BY <1>2
<1>5. k # 0
  BY <1>3, <1>4
<1>6. k - 1 \in 0..n /\ k - 1 < k
  BY <1>4, <1>5
<1>7. Upto(k - 1)
  BY <1>2, <1>6
<1>8. PICK f : IsChain(f, k - 1, V, v, step)
  BY <1>7 DEF Upto
<1> HIDE DEF T
<1> DEFINE g == [i \in 0..k |-> IF i < k THEN f[i] ELSE step[k][f[k - 1]]]
<1>9. f[k - 1] \in V /\ step[k] \in [V -> V]
  BY <1>4, <1>5, <1>8 DEF IsChain
<1>10. g \in [0..k -> V]
  BY <1>4, <1>5, <1>8, <1>9 DEF IsChain
<1>11. g[0] = v
  BY <1>4, <1>5, <1>8 DEF IsChain
<1>12. ASSUME NEW i \in 1..k PROVE g[i] = step[i][g[i - 1]]
  <2>1. i - 1 \in 0..k /\ i - 1 < k /\ g[i - 1] = f[i - 1]
    BY <1>4, <1>5
  <2>2. CASE i < k
    BY <2>1, <2>2, <1>4, <1>8 DEF IsChain
  <2>3. CASE i = k
    BY <2>1, <2>3, <1>4, <1>8 DEF IsChain
  <2> QED  BY <2>2, <2>3, <1>4
<1> HIDE DEF g
<1> QED  BY <1>4, <1>10, <1>11, <1>12 DEF IsChain, Upto

\* What is picked from a sequence was in it, and everything at the places is picked.
LEMMA PickedFrom ==
  ASSUME NEW S, NEW s \in Seq(S), NEW places
  PROVE  /\ Picked(s, places) \in Seq(S)
         /\ \A i \in 1..Len(Picked(s, places)) : \E j \in 1..Len(s) :
              j \in places /\ Picked(s, places)[i] = s[j]
         /\ \A j \in 1..Len(s) : j \in places =>
              \E i \in 1..Len(Picked(s, places)) : Picked(s, places)[i] = s[j]
<1> DEFINE V == {t \in Seq(S) : \A i \in 1..Len(t) : \E j \in 1..Len(s) : j \in places /\ t[i] = s[j]}
           n == Len(s)
           Add(i, t) == IF i \in places THEN Append(t, s[i]) ELSE t
           step == [i \in 1..n |-> [t \in V |-> Add(i, t)]]
           upTo[i \in 0..n] == IF i = 0 THEN <<>>
                               ELSE IF i \in places THEN Append(upTo[i - 1], s[i]) ELSE upTo[i - 1]
<1>1. n \in Nat /\ <<>> \in V
  OBVIOUS
<1>2. ASSUME NEW i \in 1..n, NEW t \in V PROVE Add(i, t) \in V
  <2>1. CASE i \in places
    <3>1. t \in Seq(S) /\ s[i] \in S
      OBVIOUS
    <3>2. Append(t, s[i]) \in Seq(S) /\ Len(Append(t, s[i])) = Len(t) + 1
      BY <3>1
    <3>3. ASSUME NEW a \in 1..(Len(t) + 1)
          PROVE  \E j \in 1..Len(s) : j \in places /\ Append(t, s[i])[a] = s[j]
      BY <3>1, <2>1
    <3> QED  BY <2>1, <3>2, <3>3
  <2> QED  BY <2>1
<1> HIDE DEF V, Add, n
<1>3. step \in [1..n -> [V -> V]]
  BY <1>2
<1>4. \A i \in 1..n : \A t \in V : step[i][t] = Add(i, t)
  OBVIOUS
<1> HIDE DEF step
<1>5. PICK f : IsChain(f, n, V, <<>>, step)
  BY <1>1, <1>3, Chain
<1>6. \A i \in 1..n : f[i - 1] \in V /\ f[i] = Add(i, f[i - 1])
  BY <1>1, <1>4, <1>5 DEF IsChain
<1>7. f = [i \in 0..n |-> IF i = 0 THEN <<>>
                           ELSE IF i \in places THEN Append(f[i - 1], s[i]) ELSE f[i - 1]]
  <2>1. ASSUME NEW i \in 0..n
        PROVE  f[i] = IF i = 0 THEN <<>>
                      ELSE IF i \in places THEN Append(f[i - 1], s[i]) ELSE f[i - 1]
    <3>1. CASE i = 0  BY <3>1, <1>5 DEF IsChain
    <3>2. CASE i \in 1..n  BY <3>2, <1>6 DEF Add
    <3> QED  BY <3>1, <3>2, <1>1
  <2> QED  BY <2>1, <1>5 DEF IsChain
<1>8. upTo = [i \in 0..n |-> IF i = 0 THEN <<>>
                           ELSE IF i \in places THEN Append(upTo[i - 1], s[i]) ELSE upTo[i - 1]]
  BY <1>7
<1> HIDE DEF upTo
<1>9. upTo[0] = <<>>
  BY <1>1, <1>8
<1>10. ASSUME NEW i \in 1..n PROVE upTo[i] = Add(i, upTo[i - 1])
  <2>1. i \in 0..n /\ i # 0
    BY <1>1
  <2> QED  BY <2>1, <1>8 DEF Add
<1>11. \A k \in 0..n : upTo[k] \in V
  <2> DEFINE T == {k \in 0..n : upTo[k] \notin V}
  <2>1. SUFFICES ASSUME T # {} PROVE FALSE
    BY <2>1
  <2>2. PICK k \in T : \A j \in T : k <= j
    BY <2>1, <1>1, Least, T \subseteq Nat
  <2>3. k # 0
    BY <2>2, <1>9, <1>1
  <2>4. k \in 1..n /\ upTo[k - 1] \in V
    BY <2>2, <2>3, <1>1
  <2> QED  BY <2>2, <2>4, <1>2, <1>10
<1>12. Picked(s, places) = upTo[n]
  BY DEF Picked, upTo, n
<1>13. Picked(s, places) \in V
  BY <1>11, <1>12, <1>1
<1> DEFINE All(k) == \A j \in 1..k : j \in places => \E i \in 1..Len(upTo[k]) : upTo[k][i] = s[j]
<1>14. ASSUME NEW k \in 1..n, All(k - 1) PROVE All(k)
  <2> DEFINE t == upTo[k - 1]
  <2>1. k - 1 \in 0..n /\ t \in Seq(S) /\ s[k] \in S /\ Len(t) \in Nat
    <3>1. k - 1 \in 0..n
      BY <1>1
    <3>2. t \in Seq(S)
      BY <3>1, <1>11 DEF V
    <3>3. s[k] \in S
      BY ElementOfSeq DEF n
    <3> QED  BY <3>1, <3>2, <3>3
  <2>2. upTo[k] = IF k \in places THEN Append(t, s[k]) ELSE t
    BY <1>10 DEF Add
  <2>3. \A j \in 1..(k - 1) : j \in places => \E i \in 1..Len(t) : t[i] = s[j]
    BY <1>14
  <2> HIDE DEF t
  <2>4. CASE k \in places
    <3>1. /\ Len(Append(t, s[k])) = Len(t) + 1 /\ Append(t, s[k])[Len(t) + 1] = s[k]
          /\ \A i \in 1..Len(t) : Append(t, s[k])[i] = t[i]
      BY <2>1, AppendProperties
    <3>2. \A j \in 1..k : j \in 1..(k - 1) \/ j = k
      BY <1>1
    <3> QED  BY <2>1, <2>2, <2>3, <2>4, <3>1, <3>2
  <2>5. CASE k \notin places
    <3>1. \A j \in 1..k : j \in 1..(k - 1) \/ j = k
      BY <1>1
    <3> QED  BY <2>2, <2>3, <2>5, <3>1
  <2> QED  BY <2>4, <2>5
<1>15. \A k \in 0..n : All(k)
  <2> HIDE DEF All
  <2> DEFINE T == {k \in 0..n : ~All(k)}
  <2>1. SUFFICES ASSUME T # {} PROVE FALSE
    BY <2>1
  <2>2. PICK k \in T : \A j \in T : k <= j
    BY <2>1, <1>1, Least, T \subseteq Nat
  <2>3. k # 0
    BY <2>2 DEF All
  <2>4. k \in 1..n /\ k - 1 \in 0..n /\ All(k - 1)
    BY <2>2, <2>3, <1>1
  <2> QED  BY <2>2, <2>4, <1>14
<1>16. All(n)
  BY <1>15, <1>1
<1> QED  BY <1>12, <1>13, <1>16 DEF V, n

-----------------------------------------------------------------------------
(* The circle of numbers *)

LEMMA Wrapped ==
  ASSUME NEW N \in Nat \ {0}, NEW x \in (0 - N)..(2 * N - 1)
  PROVE  /\ x % N \in 0..(N - 1)
         /\ x % N = IF x < 0 THEN x + N ELSE IF x >= N THEN x - N ELSE x
<1>1. CASE x < 0
  <2>1. x % N = x + N
    BY <1>1
  <2> QED  BY <1>1, <2>1
<1>2. CASE x >= N
  <2>1. x % N = x - N
    BY <1>2
  <2> QED  BY <1>2, <2>1
<1>3. CASE x >= 0 /\ x < N
  <2>1. x % N = x
    BY <1>3
  <2> QED  BY <1>3, <2>1
<1> QED  BY <1>1, <1>2, <1>3

CircleNumbers == 0..(NumMod - 1)

LEMMA HalfIsLess == NumMod \in Nat \ {0} /\ Half \in Nat /\ 2 * Half < NumMod
BY ReliabilityAssumption DEF Half

LEMMA PlaceIs ==
  ASSUME course.first \in CircleNumbers, NEW n \in CircleNumbers
  PROVE  /\ n \in Nat /\ Place(n) \in CircleNumbers /\ Place(n) \in Nat /\ Place(n) < NumMod
         /\ \A m \in CircleNumbers : Place(m) = Place(n) => m = n
BY HalfIsLess DEF Place, CircleNumbers

LEMMA PlaceShift ==
  ASSUME course.first \in CircleNumbers, NEW n \in CircleNumbers, NEW k \in Nat,
         Place(n) + k < NumMod
  PROVE  (n + k) % NumMod \in CircleNumbers /\ Place((n + k) % NumMod) = Place(n) + k
<1> DEFINE x == n + k  y == x % NumMod
<1>1. /\ NumMod \in Nat \ {0} /\ x \in (0 - NumMod)..(2 * NumMod - 1) /\ x \in Nat
      /\ n \in Nat /\ course.first \in Nat /\ n < NumMod /\ course.first < NumMod
  BY HalfIsLess DEF Place, CircleNumbers
<1> HIDE DEF x
<1>2. /\ y \in 0..(NumMod - 1)
      /\ y = IF x < 0 THEN x + NumMod ELSE IF x >= NumMod THEN x - NumMod ELSE x
  BY <1>1, Wrapped
<1> HIDE DEF y
<1>3. Place(y) = Place(n) + k
  BY <1>1, <1>2 DEF Place, x
<1> QED  BY <1>2, <1>3 DEF x, y, CircleNumbers

\* How far a number is ahead of the base tells whether it was before it.
LEMMA HoleIs ==
  ASSUME course.first \in CircleNumbers, NEW n \in CircleNumbers, NEW b \in CircleNumbers,
         Place(n) <= Half, Place(b) <= Half
  PROVE  LET h == (n - b) % NumMod IN
         h \in Nat /\ (h <= Half => h = Place(n) - Place(b))
<1> DEFINE x == n - b  y == x % NumMod
<1>1. NumMod \in Nat \ {0} /\ Half \in Nat /\ 2 * Half < NumMod
  BY HalfIsLess
<1>2. /\ x \in (0 - NumMod)..(2 * NumMod - 1) /\ x \in Int
      /\ n \in Nat /\ b \in Nat /\ course.first \in Nat
      /\ n < NumMod /\ b < NumMod /\ course.first < NumMod
  BY <1>1 DEF CircleNumbers
<1> HIDE DEF x
<1>3. /\ y \in 0..(NumMod - 1)
      /\ y = IF x < 0 THEN x + NumMod ELSE IF x >= NumMod THEN x - NumMod ELSE x
  BY <1>1, <1>2, Wrapped
<1> HIDE DEF y
<1>4. y \in Nat /\ (y <= Half => y = Place(n) - Place(b))
  BY <1>1, <1>2, <1>3 DEF Place, x
<1> QED  BY <1>4 DEF x, y

-----------------------------------------------------------------------------
(* The receiver's window *)

\* What processing a message leaves alone when it only marks it.
SameRest(r, w) ==
  /\ w.orderingList = r.orderingList /\ w.splits = r.splits /\ w.outputQueue = r.outputQueue
  /\ w.ordRead = r.ordRead /\ w.seqRead = r.seqRead

Near(r) == Place(r.receivedPacketsBaseIndex) + Len(r.hasReceivedPacketQueue) <= course.count

\* No number counts as received less than before.
Keeps(r, w) == \A n \in CircleNumbers : IsReceived(r, n) => IsReceived(w, n)

Course == course \in Courses /\ course.count <= Half

\* Unless a number was given up, no others count as received in addition.
NoneExpired(r) ==
  \A i \in 1..Len(r.hasReceivedPacketQueue) : r.hasReceivedPacketQueue[i] # Expired
Gains(r, w, more) ==
  NoneExpired(r) =>
    NoneExpired(w) /\ \A n \in CircleNumbers : IsReceived(w, n) => IsReceived(r, n) \/ n \in more

LEMMA MarkedKeeps ==
  ASSUME Course, NEW r, ReceiverTypes(r), Near(r), NEW p \in Message,
         p.num \in CircleNumbers, Place(p.num) < course.count, ~IsDuplicate(r, p)
  PROVE  /\ ReceiverTypes(Marked(r, p)) /\ Near(Marked(r, p)) /\ SameRest(r, Marked(r, p))
         /\ Keeps(r, Marked(r, p)) /\ IsReceived(Marked(r, p), p.num)
         /\ Gains(r, Marked(r, p), {p.num}) /\ Marked(r, p).acknowlegements = r.acknowlegements
<1> DEFINE q == r.hasReceivedPacketQueue
           b == r.receivedPacketsBaseIndex
           h == HoleCount(r, p)
           w == Marked(r, p)
<1>1. course.first \in CircleNumbers /\ course.count \in Nat /\ course.count <= Half
  BY DEF Course, Courses, CircleNumbers
<1>2. q \in Seq(Nat) /\ b \in CircleNumbers /\ Len(q) \in Nat
  BY DEF ReceiverTypes, Receivers, CircleNumbers
<1>3. /\ Place(b) \in Nat /\ Place(p.num) \in Nat
      /\ Place(b) < NumMod /\ Place(p.num) < NumMod
  BY <1>1, <1>2, PlaceIs
<1>4. NumMod \in Nat \ {0} /\ Half \in Nat /\ 2 * Half < NumMod
  BY HalfIsLess
<1>5. Place(b) + Len(q) <= course.count
  BY DEF Near
<1> HIDE DEF q, b
<1>6. h \in Nat /\ (h <= Half => h = Place(p.num) - Place(b))
  <2>1. Place(b) <= Half /\ Place(p.num) <= Half
    BY <1>1, <1>2, <1>3, <1>4, <1>5
  <2> QED  BY <2>1, <1>1, <1>2, HoleIs DEF HoleCount, b
<1>7. ~(h > Half)
  BY DEF IsDuplicate, Half
<1> HIDE DEF h
<1>8. h \in Nat /\ h = Place(p.num) - Place(b) /\ Place(b) + h + 1 <= course.count
  BY <1>6, <1>7, <1>1, <1>3, <1>4
<1> HIDE DEF h
<1>9. CASE h = 0
  <2> DEFINE t == IF q = <<>> THEN q ELSE Tail(q)
  <2>1. Place(b) + 1 <= course.count
    BY <1>3, <1>8, <1>9
  <2>2. w = [r EXCEPT !.hasReceivedPacketQueue = t,
                      !.receivedPacketsBaseIndex = (b + 1) % NumMod]
    <3>1. w = CASE h = 0 -> [r EXCEPT !.hasReceivedPacketQueue = t,
                                      !.receivedPacketsBaseIndex = (b + 1) % NumMod]
              [] h > 0 /\ h < Len(q) -> [r EXCEPT !.hasReceivedPacketQueue[h + 1] = Got]
              [] OTHER -> [r EXCEPT !.hasReceivedPacketQueue =
                             Append(@ \o [i \in 1..(h - Len(q)) |-> Missing], Got)]
      BY DEF Marked, h, q, b
    <3>2. ~(h > 0)
      BY <1>9
    <3> QED  BY <3>1, <3>2, <1>9
  <2>3. t \in Seq(Nat) /\ Len(t) = (IF Len(q) = 0 THEN 0 ELSE Len(q) - 1)
        /\ \A i \in 1..Len(t) : t[i] = q[i + 1]
    BY <1>2
  <2>4. (b + 1) % NumMod \in CircleNumbers /\ Place((b + 1) % NumMod) = Place(b) + 1
    <3>1. Place(b) + 1 < NumMod
      BY <2>1, <1>1, <1>3, <1>4
    <3> QED  BY <3>1, <1>1, <1>2, PlaceShift
  <2> HIDE DEF t, w
  <2>5. /\ w.hasReceivedPacketQueue = t /\ w.receivedPacketsBaseIndex = (b + 1) % NumMod
        /\ SameRest(r, w) /\ ReceiverTypes(w) /\ w.acknowlegements = r.acknowlegements
    BY <2>2, <2>3, <2>4 DEF ReceiverTypes, Receivers, SameRest, CircleNumbers
  <2>6. Near(w)
    <3>1. CASE Len(q) = 0
      BY <3>1, <2>1, <2>3, <2>4, <2>5, <1>3 DEF Near
    <3>2. CASE Len(q) # 0
      <4>1. Place(b) + 1 + Len(t) <= course.count
        BY <3>2, <2>3, <1>2, <1>3, <1>5
      <4> QED  BY <4>1, <2>4, <2>5 DEF Near
    <3> QED  BY <3>1, <3>2
  <2>7. IsReceived(w, p.num)
    BY <2>4, <2>5, <1>3, <1>8, <1>9 DEF IsReceived, CircleNumbers
  <2>8. ASSUME NEW n \in CircleNumbers, IsReceived(r, n) PROVE IsReceived(w, n)
    <3>1. Place(n) \in Nat
      BY <1>1, PlaceIs
    <3> DEFINE k == Place(n) - Place(b)
    <3>2. k \in Int /\ (k < 0 \/ (k < Len(q) /\ q[k + 1] = Got))
      BY <2>8, <3>1, <1>3 DEF IsReceived, q, b, CircleNumbers
    <3>3. Place(n) - Place((b + 1) % NumMod) = k - 1
      BY <2>4, <3>1, <1>3 DEF CircleNumbers
    <3> HIDE DEF k
    <3>4. CASE k < 1
      BY <3>2, <3>3, <3>4, <2>5 DEF IsReceived
    <3>5. CASE k >= 1
      <4>1. k \in Nat /\ k < Len(q) /\ q[k + 1] = Got /\ Len(q) # 0
        BY <3>2, <3>5, <1>2
      <4>2. Len(t) = Len(q) - 1 /\ k \in 1..Len(t)
        BY <4>1, <3>5, <2>3, <1>2
      <4>3. t[k] = Got /\ k - 1 < Len(t)
        BY <4>1, <4>2, <2>3, <1>2
      <4> QED  BY <4>3, <3>2, <3>3, <2>5 DEF IsReceived
    <3> QED  BY <3>2, <3>4, <3>5
  <2>9. ASSUME NEW n \in CircleNumbers, IsReceived(w, n) PROVE IsReceived(r, n) \/ n = p.num
    <3>1. Place(n) \in Nat /\ (Place(n) = Place(p.num) => n = p.num)
      BY <1>1, PlaceIs
    <3> DEFINE k == Place(n) - Place(b)
    <3>2. k \in Int /\ Place(n) - Place((b + 1) % NumMod) = k - 1
      BY <2>4, <3>1, <1>3 DEF CircleNumbers
    <3>3. k = 0 => Place(n) = Place(p.num)
      BY <3>1, <1>3, <1>8, <1>9
    <3>4. k < 0 => IsReceived(r, n)
      BY DEF IsReceived, b
    <3>5. (k < Len(q) /\ q[k + 1] = Got) => IsReceived(r, n)
      BY DEF IsReceived, b, q
    <3> HIDE DEF k
    <3>6. k - 1 < 0 \/ (k - 1 < Len(t) /\ t[(k - 1) + 1] = Got)
      BY <2>9, <2>5, <3>2 DEF IsReceived
    <3>7. CASE k < 1
      BY <3>1, <3>2, <3>3, <3>4, <3>7
    <3>8. CASE k >= 1
      <4>1. k - 1 < Len(t) /\ t[k] = Got /\ k \in 1..Len(t)
        BY <3>2, <3>6, <3>8, <2>3, <1>2
      <4>2. q[k + 1] = Got /\ k < Len(q)
        <5>1. q[k + 1] = Got
          BY <4>1, <2>3
        <5>2. k < Len(q)
          BY <4>1, <2>3, <1>2
        <5> QED  BY <5>1, <5>2
      <4> QED  BY <4>2, <3>5
    <3> QED  BY <3>2, <3>7, <3>8
  <2>10. NoneExpired(r) => NoneExpired(w)
    <3>1. \A i \in 1..Len(t) : i + 1 \in 1..Len(q)
      BY <2>3, <1>2
    <3> QED  BY <3>1, <2>3, <2>5 DEF NoneExpired, q
  <2> QED  BY <2>5, <2>6, <2>7, <2>8, <2>9, <2>10 DEF Keeps, Gains, w
<1>10. ASSUME NEW t \in Seq(Nat), w = [r EXCEPT !.hasReceivedPacketQueue = t],
             Len(t) <= course.count - Place(b), h < Len(t), t[h + 1] = Got,
             Len(q) <= Len(t), \A i \in 1..Len(q) : q[i] = Got => t[i] = Got,
             \A i \in 1..Len(t) :
               /\ t[i] = Got => i = h + 1 \/ (i \in 1..Len(q) /\ q[i] = Got)
               /\ t[i] = Expired => i \in 1..Len(q) /\ q[i] = Expired
       PROVE  /\ ReceiverTypes(w) /\ Near(w) /\ SameRest(r, w)
              /\ Keeps(r, w) /\ IsReceived(w, p.num)
              /\ Gains(r, w, {p.num}) /\ w.acknowlegements = r.acknowlegements
  <2> HIDE DEF w
  <2>1. /\ w.hasReceivedPacketQueue = t /\ w.receivedPacketsBaseIndex = b
        /\ SameRest(r, w) /\ ReceiverTypes(w) /\ w.acknowlegements = r.acknowlegements
    BY <1>10, <1>2 DEF ReceiverTypes, Receivers, SameRest, CircleNumbers, b
  <2>2. Near(w)
    BY <2>1, <1>10, <1>1, <1>3 DEF Near
  <2>3. IsReceived(w, p.num)
    BY <2>1, <1>8, <1>10 DEF IsReceived
  <2>4. ASSUME NEW n \in CircleNumbers, IsReceived(r, n) PROVE IsReceived(w, n)
    <3> DEFINE k == Place(n) - Place(b)
    <3>1. k \in Int
      BY <1>1, <1>3, PlaceIs
    <3>2. k < 0 \/ (k < Len(q) /\ q[k + 1] = Got)
      BY <2>4 DEF IsReceived, q, b
    <3> HIDE DEF k
    <3>3. k < 0 \/ (k < Len(t) /\ t[k + 1] = Got)
      <4>1. CASE k < 0
        BY <4>1
      <4>2. CASE k >= 0
        <5>1. k + 1 \in 1..Len(q) /\ q[k + 1] = Got
          BY <4>2, <3>1, <3>2, <1>2
        <5>2. k < Len(t)
          BY <5>1, <3>1, <1>2, <1>10
        <5> QED  BY <5>1, <5>2, <1>10
      <4> QED  BY <4>1, <4>2, <3>1
    <3> QED  BY <3>3, <2>1 DEF IsReceived, k
  <2>5. ASSUME NEW n \in CircleNumbers, IsReceived(w, n) PROVE IsReceived(r, n) \/ n = p.num
    <3> DEFINE k == Place(n) - Place(b)
    <3>1. /\ k \in Int /\ Place(n) = Place(b) + k /\ Place(b) + h = Place(p.num)
          /\ (Place(n) = Place(p.num) => n = p.num)
      BY <1>1, <1>3, <1>8, PlaceIs
    <3>2. k < 0 \/ (k < Len(t) /\ t[k + 1] = Got)
      BY <2>5, <2>1 DEF IsReceived
    <3>3. k < 0 \/ (k < Len(q) /\ q[k + 1] = Got) => IsReceived(r, n)
      BY DEF IsReceived, b, q
    <3> HIDE DEF k
    <3>4. CASE k >= 0 /\ k < Len(t) /\ t[k + 1] = Got
      <4>1. k + 1 \in 1..Len(t)
        BY <3>1, <3>4
      <4>2. CASE k + 1 = h + 1
        <5>1. k = h
          BY <4>2, <3>1, <1>8
        <5> QED  BY <5>1, <3>1
      <4>3. CASE k + 1 \in 1..Len(q) /\ q[k + 1] = Got
        <5>1. k < Len(q)
          BY <4>3, <3>1, <1>2
        <5> QED  BY <5>1, <4>3, <3>3
      <4> QED  BY <4>1, <4>2, <4>3, <3>4, <1>10
    <3> QED  BY <3>1, <3>2, <3>3, <3>4
  <2>6. NoneExpired(r) => NoneExpired(w)
    BY <2>1, <1>10 DEF NoneExpired, q
  <2> QED  BY <2>1, <2>2, <2>3, <2>4, <2>5, <2>6 DEF Keeps, Gains, w
<1>11. w = CASE h = 0 -> [r EXCEPT !.hasReceivedPacketQueue = IF q = <<>> THEN q ELSE Tail(q),
                                   !.receivedPacketsBaseIndex = (b + 1) % NumMod]
           [] h > 0 /\ h < Len(q) -> [r EXCEPT !.hasReceivedPacketQueue = [q EXCEPT ![h + 1] = Got]]
           [] OTHER -> [r EXCEPT !.hasReceivedPacketQueue =
                          Append(q \o [i \in 1..(h - Len(q)) |-> Missing], Got)]
  BY DEF Marked, h, q, b
<1>12. CASE h > 0 /\ h < Len(q)
  <2> DEFINE t == [q EXCEPT ![h + 1] = Got]
  <2>1. w = [r EXCEPT !.hasReceivedPacketQueue = t]
    <3>1. h # 0
      BY <1>12
    <3> QED  BY <3>1, <1>11, <1>12
  <2>2. h + 1 \in 1..Len(q) /\ h + 1 \in Nat
    BY <1>12, <1>2, <1>8
  <2>3. /\ t \in Seq(Nat) /\ Len(t) = Len(q) /\ t[h + 1] = Got
        /\ \A i \in 1..Len(q) : q[i] = Got => t[i] = Got
        /\ \A i \in 1..Len(t) : i # h + 1 => i \in 1..Len(q) /\ t[i] = q[i]
    <3>1. Got \in Nat
      BY DEF Got
    <3> QED  BY <3>1, <2>2, <1>2, ExceptSeq
  <2> HIDE DEF t, w
  <2>4. Len(t) <= course.count - Place(b)
    BY <2>3, <1>1, <1>2, <1>3, <1>5
  <2>5. h < Len(t) /\ Len(q) <= Len(t)
    BY <2>3, <1>12, <1>2
  <2>6. \A i \in 1..Len(t) :
           /\ t[i] = Got => i = h + 1 \/ (i \in 1..Len(q) /\ q[i] = Got)
           /\ t[i] = Expired => i \in 1..Len(q) /\ q[i] = Expired
    BY <2>3 DEF Got, Expired
  <2> QED  BY <2>1, <2>3, <2>4, <2>5, <2>6, <1>10 DEF w
<1>13. CASE h > 0 /\ ~(h < Len(q))
  <2> DEFINE more == [i \in 1..(h - Len(q)) |-> Missing]
             t == Append(q \o more, Got)
  <2>1. w = [r EXCEPT !.hasReceivedPacketQueue = t]
    <3>1. h # 0
      BY <1>13
    <3> QED  BY <3>1, <1>11, <1>13
  <2>2. Missing \in Nat /\ Got \in Nat
    BY ReliabilityAssumption DEF Missing, Got
  <2>3. h - Len(q) \in Nat
    BY <1>2, <1>8, <1>13
  <2>4. more \in Seq(Nat) /\ Len(more) = h - Len(q)
    BY <2>2, <2>3
  <2>5. \A i \in 1..(h - Len(q)) : more[i] = Missing
    OBVIOUS
  <2> HIDE DEF more
  <2>6. /\ q \o more \in Seq(Nat) /\ Len(q \o more) = h
        /\ \A i \in 1..Len(q) : (q \o more)[i] = q[i]
        /\ \A i \in 1..h : i \in 1..Len(q) \/ (q \o more)[i] = Missing
    <3>1. /\ q \o more \in Seq(Nat) /\ Len(q \o more) = Len(q) + Len(more)
          /\ \A i \in 1..(Len(q) + Len(more)) :
               (q \o more)[i] = IF i <= Len(q) THEN q[i] ELSE more[i - Len(q)]
      BY <2>4, <1>2, ConcatProperties
    <3>2. Len(q) + Len(more) = h
      BY <2>3, <2>4, <1>2, <1>8
    <3>3. ASSUME NEW i \in 1..h, ~(i \in 1..Len(q)) PROVE (q \o more)[i] = Missing
      <4>1. ~(i <= Len(q)) /\ i - Len(q) \in 1..(h - Len(q)) /\ i \in 1..(Len(q) + Len(more))
        BY <3>2, <3>3, <2>3, <1>2, <1>8
      <4> QED  BY <4>1, <3>1, <2>5
    <3> QED  BY <3>1, <3>2, <3>3, <2>3, <2>4, <1>2, <1>8
  <2> DEFINE u == q \o more
  <2> HIDE DEF u
  <2>7. /\ t \in Seq(Nat) /\ Len(t) = h + 1 /\ t[h + 1] = Got
        /\ \A i \in 1..h : t[i] = u[i]
    BY <2>2, <2>6, AppendProperties DEF u
  <2>8. \A i \in 1..Len(q) : t[i] = q[i]
    BY <2>6, <2>7, <2>3, <1>2, <1>8 DEF u
  <2>9. \A i \in 1..Len(t) : i = h + 1 \/ i \in 1..Len(q) \/ t[i] = Missing
    <3>1. \A i \in 1..Len(t) : i = h + 1 \/ i \in 1..h
      BY <2>7, <1>8
    <3> QED  BY <3>1, <2>6, <2>7 DEF u
  <2>10. Missing # Got /\ Missing # Expired
    BY ReliabilityAssumption DEF Missing, Got, Expired
  <2>11. Got # Expired
    BY DEF Got, Expired
  <2> HIDE DEF t, w
  <2>12. \A i \in 1..Len(t) :
           /\ t[i] = Got => i = h + 1 \/ (i \in 1..Len(q) /\ q[i] = Got)
           /\ t[i] = Expired => i \in 1..Len(q) /\ q[i] = Expired
    BY <2>7, <2>8, <2>9, <2>10, <2>11
  <2>13. Len(t) <= course.count - Place(b) /\ h < Len(t) /\ Len(q) <= Len(t)
    BY <2>7, <1>1, <1>2, <1>3, <1>8, <1>13
  <2> QED  BY <2>1, <2>7, <2>8, <2>13, <2>12, <1>10 DEF w
<1> HIDE DEF w
<1> QED  BY <1>8, <1>9, <1>12, <1>13 DEF w

LEMMA PopKeeps ==
  ASSUME Course, NEW r, ReceiverTypes(r), Near(r)
  PROVE  /\ ReceiverTypes(PopExpired(r)) /\ Window(PopExpired(r)) /\ SameRest(r, PopExpired(r))
         /\ Keeps(r, PopExpired(r)) /\ Gains(r, PopExpired(r), {})
         /\ PopExpired(r).acknowlegements = r.acknowlegements
<1> DEFINE q == r.hasReceivedPacketQueue
           b == r.receivedPacketsBaseIndex
           w == PopExpired(r)
           k == CHOOSE n \in 0..Len(q) : /\ \A i \in 1..n : q[i] <= Expired
                                         /\ n < Len(q) => q[n + 1] > Expired
           Stops == {n \in 0..Len(q) : n < Len(q) => q[n + 1] > Expired}
<1>1. course.first \in CircleNumbers /\ course.count \in Nat /\ course.count <= Half
  BY DEF Course, Courses, CircleNumbers
<1>2. q \in Seq(Nat) /\ b \in CircleNumbers /\ Len(q) \in Nat
  BY DEF ReceiverTypes, Receivers, CircleNumbers
<1>3. Place(b) \in Nat /\ Place(b) < NumMod
  BY <1>1, <1>2, PlaceIs
<1>4. NumMod \in Nat \ {0} /\ Half \in Nat /\ 2 * Half < NumMod
  BY HalfIsLess
<1>5. Place(b) + Len(q) <= course.count
  BY DEF Near
<1>6. w = [r EXCEPT !.hasReceivedPacketQueue = SubSeq(q, k + 1, Len(q)),
                    !.receivedPacketsBaseIndex = (b + k) % NumMod]
  BY DEF PopExpired
<1> HIDE DEF q, b, w
<1>7. /\ k \in 0..Len(q)
      /\ \A i \in 1..k : q[i] <= Expired
      /\ k < Len(q) => q[k + 1] > Expired
  <2>1. Stops \subseteq Nat /\ Len(q) \in Stops
    BY <1>2
  <2>2. PICK n \in Stops : \A m \in Stops : n <= m
    BY <2>1, Least
  <2>3. ASSUME NEW i \in 1..n PROVE q[i] <= Expired
    <3>1. i - 1 \in 0..Len(q) /\ i - 1 < n /\ n <= Len(q) /\ i \in 1..Len(q) /\ i - 1 + 1 = i
      BY <2>2, <1>2
    <3>2. i - 1 \notin Stops
      <4>1. ~(n <= i - 1)
        BY <3>1, <2>1
      <4> HIDE DEF Stops
      <4> QED  BY <4>1, <2>2
    <3>3. ~(q[i] > Expired)
      BY <3>1, <3>2
    <3>4. q[i] \in Nat
      BY <3>1, <1>2
    <3> QED  BY <3>3, <3>4 DEF Expired
  <2> QED  BY <2>2, <2>3
<1> HIDE DEF k
<1> DEFINE t == SubSeq(q, k + 1, Len(q))
<1>8. /\ t \in Seq(Nat) /\ Len(t) = Len(q) - k
      /\ \A i \in 1..Len(t) : t[i] = q[k + i]
  <2>1. k + 1 \in Int /\ Len(q) \in Int /\ \A i \in (k + 1)..Len(q) : q[i] \in Nat
    BY <1>2, <1>7
  <2>2. /\ t \in Seq(Nat)
        /\ Len(t) = IF k + 1 <= Len(q) THEN Len(q) - (k + 1) + 1 ELSE 0
        /\ \A i \in 1..(Len(q) - (k + 1) + 1) : t[i] = q[k + 1 + i - 1]
    BY <2>1, SubSeqProperties
  <2> HIDE DEF t
  <2>3. Len(t) = Len(q) - k
    BY <2>2, <1>2, <1>7
  <2>4. ASSUME NEW i \in 1..Len(t) PROVE t[i] = q[k + i]
    <3>1. i \in 1..(Len(q) - (k + 1) + 1) /\ k + 1 + i - 1 = k + i
      BY <2>3, <1>2, <1>7
    <3> QED  BY <3>1, <2>2
  <2> QED  BY <2>2, <2>3, <2>4
<1>9. (b + k) % NumMod \in CircleNumbers /\ Place((b + k) % NumMod) = Place(b) + k
  <2>1. k \in Nat /\ k <= Len(q)
    BY <1>2, <1>7
  <2>2. Place(b) + k <= course.count
    BY <2>1, <1>1, <1>2, <1>3, <1>5
  <2>3. Place(b) + k < NumMod
    BY <2>1, <2>2, <1>1, <1>3, <1>4
  <2> QED  BY <2>1, <2>3, <1>1, <1>2, PlaceShift
<1>10. /\ w.hasReceivedPacketQueue = t /\ w.receivedPacketsBaseIndex = (b + k) % NumMod
       /\ SameRest(r, w) /\ ReceiverTypes(w) /\ w.acknowlegements = r.acknowlegements
  BY <1>6, <1>8, <1>9 DEF ReceiverTypes, Receivers, SameRest, CircleNumbers
<1> HIDE DEF t
<1>11. Window(w)
  <2>1. Place(b) + k + Len(t) <= course.count
    BY <1>8, <1>5, <1>1, <1>2, <1>3, <1>7
  <2>2. ASSUME Len(t) > 0 PROVE t[1] # Got
    <3>1. k < Len(q) /\ 1 \in 1..Len(t)
      BY <2>2, <1>8, <1>7, <1>2
    <3> QED  BY <3>1, <1>7, <1>8 DEF Got, Expired
  <2> QED  BY <2>1, <2>2, <1>9, <1>10 DEF Window
<1>12. ASSUME NEW n \in CircleNumbers, IsReceived(r, n) PROVE IsReceived(w, n)
  <2> DEFINE j == Place(n) - Place(b)
  <2>1. j \in Int /\ Place(n) \in Nat
    BY <1>1, <1>3, PlaceIs
  <2>2. j < 0 \/ (j < Len(q) /\ q[j + 1] = Got)
    BY <1>12 DEF IsReceived, q, b
  <2>3. Place(n) - Place((b + k) % NumMod) = j - k /\ k \in Nat
    BY <1>9, <2>1, <1>3, <1>7
  <2> HIDE DEF j
  <2>4. CASE j < k
    <3>1. j - k < 0
      BY <2>4, <2>1, <2>3
    <3> QED  BY <3>1, <2>3, <1>10 DEF IsReceived
  <2>5. CASE ~(j < k)
    <3>1. j - k + 1 \in 1..Len(t) /\ k + (j - k + 1) = j + 1 /\ j - k < Len(t) /\ q[j + 1] = Got
      BY <2>5, <2>1, <2>2, <2>3, <1>2, <1>8
    <3>2. t[j - k + 1] = Got
      BY <3>1, <1>8
    <3> QED  BY <3>1, <3>2, <2>3, <1>10 DEF IsReceived
  <2> QED  BY <2>4, <2>5
<1>13. ASSUME NoneExpired(r), NEW n \in CircleNumbers, IsReceived(w, n) PROVE IsReceived(r, n)
  <2> DEFINE j == Place(n) - Place(b)
  <2>1. j \in Int /\ Place(n) \in Nat /\ k \in Nat
    BY <1>1, <1>3, <1>7, PlaceIs
  <2>2. Place(n) - Place((b + k) % NumMod) = j - k
    BY <1>9, <2>1, <1>3
  <2>3. j < 0 \/ (j < Len(q) /\ q[j + 1] = Got) => IsReceived(r, n)
    BY DEF IsReceived, q, b
  <2> HIDE DEF j
  <2>4. j - k < 0 \/ (j - k < Len(t) /\ t[(j - k) + 1] = Got)
    BY <1>13, <2>2, <1>10 DEF IsReceived
  <2>5. CASE j >= 0 /\ j < k
    <3>1. j + 1 \in 1..k /\ j + 1 \in 1..Len(q) /\ j < Len(q)
      BY <2>1, <2>5, <1>2, <1>7
    <3>2. q[j + 1] <= Expired /\ q[j + 1] \in Nat /\ q[j + 1] # Expired
      BY <3>1, <1>2, <1>7, <1>13 DEF NoneExpired, q
    <3> QED  BY <3>1, <3>2, <2>3 DEF Got, Expired
  <2>6. CASE j >= k
    <3>1. (j - k) + 1 \in 1..Len(t) /\ k + ((j - k) + 1) = j + 1 /\ j < Len(q)
      BY <2>1, <2>4, <2>6, <1>2, <1>8
    <3>2. q[j + 1] = Got
      BY <3>1, <2>4, <2>6, <2>1, <1>8
    <3> QED  BY <3>1, <3>2, <2>3
  <2> QED  BY <2>1, <2>3, <2>5, <2>6
<1>14. NoneExpired(r) => NoneExpired(w)
  <2>1. \A i \in 1..Len(t) : k + i \in 1..Len(q)
    BY <1>2, <1>7, <1>8
  <2> QED  BY <2>1, <1>8, <1>10 DEF NoneExpired, q
<1> QED  BY <1>10, <1>11, <1>12, <1>13, <1>14 DEF Keeps, Gains, w

-----------------------------------------------------------------------------
(* What the receiver has *)

Content(r) == SplitsFit(r) /\ OutputFits(r) /\ ListsFit(r)

SameWindow(r, w) ==
  /\ w.hasReceivedPacketQueue = r.hasReceivedPacketQueue
  /\ w.receivedPacketsBaseIndex = r.receivedPacketsBaseIndex

\* No message with this id is delivered or waits for its turn.
NoneOf(r, id) ==
  /\ \A i \in 1..Len(r.outputQueue) : r.outputQueue[i].parts[1] # id
  /\ \A c \in Channels : \A e \in r.orderingList[c] : e.parts[1] # id

LEMMA SettledKept ==
  ASSUME NEW r, NEW w, Keeps(r, w), \A m \in Sent : m.num \in CircleNumbers,
         NEW id, NEW k, Settled(r, id, k)
  PROVE  Settled(w, id, k)
BY DEF Settled, Keeps

LEMMA ContentKept ==
  ASSUME NEW r, NEW w, Keeps(r, w), SameRest(r, w), \A m \in Sent : m.num \in CircleNumbers,
         Content(r)
  PROVE  Content(w)
<1>1. \A id, k : Settled(r, id, k) => Settled(w, id, k)
  BY SettledKept
<1>2. SplitsFit(w)
  BY <1>1 DEF Content, SplitsFit, SameRest
<1>3. \A e : IsWhole(r, e) => IsWhole(w, e)
  BY <1>1 DEF IsWhole
<1>4. OutputFits(w)
  BY <1>3 DEF Content, OutputFits, SameRest
<1>5. ListsFit(w)
  BY <1>3 DEF Content, ListsFit, SameRest
<1> QED  BY <1>2, <1>4, <1>5 DEF Content

LEMMA SameSettled ==
  ASSUME NEW r, NEW w, SameWindow(r, w)
  PROVE  /\ \A id, k : Settled(w, id, k) <=> Settled(r, id, k)
         /\ \A e : IsWhole(w, e) <=> IsWhole(r, e)
         /\ Window(w) <=> Window(r)
<1>1. \A n : IsReceived(w, n) <=> IsReceived(r, n)
  BY DEF IsReceived, SameWindow
<1>2. \A id, k : Settled(w, id, k) <=> Settled(r, id, k)
  BY <1>1 DEF Settled
<1> QED  BY <1>2 DEF IsWhole, Window, SameWindow

\* A whole message that is not there yet is delivered.
LEMMA OutputKeeps ==
  ASSUME NEW r, ReceiverTypes(r), Content(r), NEW e \in Entry, IsWhole(r, e),
         NoneOf(r, e.parts[1])
  PROVE  /\ ReceiverTypes(Output(r, e)) /\ Content(Output(r, e))
         /\ SameWindow(r, Output(r, e))
<1> DEFINE w == Output(r, e)  out == r.outputQueue
<1>1. out \in Seq(Entry) /\ Len(out) \in Nat
  BY DEF ReceiverTypes, Receivers
<1>2. /\ Append(out, e) \in Seq(Entry) /\ Len(Append(out, e)) = Len(out) + 1
      /\ \A i \in 1..Len(out) : Append(out, e)[i] = out[i]
      /\ Append(out, e)[Len(out) + 1] = e
  BY <1>1, AppendProperties
<1>3. w = [r EXCEPT !.outputQueue = Append(out, e)]
  BY DEF Output
<1> HIDE DEF w
<1>4. /\ w.outputQueue = Append(out, e) /\ w.orderingList = r.orderingList
      /\ w.splits = r.splits /\ SameWindow(r, w) /\ ReceiverTypes(w)
  BY <1>2, <1>3 DEF ReceiverTypes, Receivers, SameWindow
<1> DEFINE more == Append(out, e)
<1> HIDE DEF out, more
<1>5. SplitsFit(w)
  BY <1>4, SameSettled DEF Content, SplitsFit
<1>6. \A i \in 1..Len(more) : (i \in 1..Len(out) /\ more[i] = out[i])
                              \/ (i = Len(out) + 1 /\ more[i] = e)
  BY <1>1, <1>2 DEF more
<1>7. OutputFits(w)
  <2>1. ASSUME NEW i \in 1..Len(more) PROVE IsWhole(w, more[i])
    BY <1>6, <1>4, SameSettled DEF Content, OutputFits, out
  <2>2. ASSUME NEW i \in 1..Len(more), NEW j \in 1..Len(more),
               more[i].parts[1] = more[j].parts[1]
        PROVE  i = j
    BY <2>2, <1>6 DEF Content, OutputFits, out, NoneOf
  <2> QED  BY <2>1, <2>2, <1>4 DEF OutputFits, more
<1>8. ListsFit(w)
  <2>1. ASSUME NEW c \in Channels, NEW o \in r.orderingList[c]
        PROVE  /\ IsWhole(w, o)
               /\ o.rel = "RELIABLE_ORDERED" /\ o.ch = c
               /\ \A i \in 1..Len(more) : more[i].parts[1] # o.parts[1]
    <3>1. IsWhole(w, o) /\ o.rel = "RELIABLE_ORDERED" /\ o.ch = c
      BY <1>4, SameSettled DEF Content, ListsFit
    <3>2. \A i \in 1..Len(more) : more[i].parts[1] # o.parts[1]
      BY <1>6 DEF Content, ListsFit, out, NoneOf
    <3> QED  BY <3>1, <3>2
  <2> QED  BY <2>1, <1>4 DEF ListsFit, Content, more
<1> QED  BY <1>4, <1>5, <1>7, <1>8 DEF Content, w

\* A whole message that is not there yet waits for its turn.
Await(r, e) == [r EXCEPT !.orderingList[e.ch] = @ \union {e}]

LEMMA WaitKeeps ==
  ASSUME NEW r, ReceiverTypes(r), Content(r), NEW e \in Entry, IsWhole(r, e),
         NoneOf(r, e.parts[1]), e.rel = "RELIABLE_ORDERED"
  PROVE  ReceiverTypes(Await(r, e)) /\ Content(Await(r, e)) /\ SameWindow(r, Await(r, e))
<1> DEFINE w == Await(r, e)
<1>1. r.orderingList \in [Channels -> SUBSET Entry] /\ e.ch \in Channels
  BY DEF ReceiverTypes, Receivers, Entry
<1> DEFINE lists == [r.orderingList EXCEPT ![e.ch] = @ \union {e}]
<1>2. lists \in [Channels -> SUBSET Entry]
  BY <1>1
<1>3. \A c \in Channels : \A o \in lists[c] : o \in r.orderingList[c] \/ (o = e /\ c = e.ch)
  BY <1>1
<1>4. w = [r EXCEPT !.orderingList = lists]
  BY DEF Await
<1> HIDE DEF lists, w
<1>5. /\ w.outputQueue = r.outputQueue /\ w.orderingList = lists
      /\ w.splits = r.splits /\ SameWindow(r, w) /\ ReceiverTypes(w)
  BY <1>2, <1>4 DEF ReceiverTypes, Receivers, SameWindow
<1>6. SplitsFit(w)
  BY <1>5, SameSettled DEF Content, SplitsFit
<1>7. OutputFits(w)
  BY <1>5, SameSettled DEF Content, OutputFits
<1>8. ListsFit(w)
  <2>1. ASSUME NEW c \in Channels, NEW o \in lists[c]
        PROVE  /\ IsWhole(w, o) /\ o.rel = "RELIABLE_ORDERED" /\ o.ch = c
               /\ \A i \in 1..Len(r.outputQueue) : r.outputQueue[i].parts[1] # o.parts[1]
    BY <1>3, <1>5, SameSettled DEF Content, ListsFit, NoneOf
  <2>2. ASSUME NEW c \in Channels, NEW d \in Channels, NEW o \in lists[c], NEW x \in lists[d],
               o.parts[1] = x.parts[1]
        PROVE  c = d /\ o = x
    BY <2>2, <1>3 DEF Content, ListsFit, NoneOf
  <2> QED  BY <2>1, <2>2, <1>5 DEF ListsFit
<1> QED  BY <1>5, <1>6, <1>7, <1>8 DEF Content, w

\* What was delivered stays delivered.
Grows(r, w) ==
  /\ Len(r.outputQueue) <= Len(w.outputQueue)
  /\ \A i \in 1..Len(r.outputQueue) : w.outputQueue[i] = r.outputQueue[i]

\* What is delivered comes from the ordering lists, and what leaves them is
\* delivered, as far as its index tells.
Delivers(r, w, more) ==
  /\ Grows(r, w) /\ w.splits = r.splits /\ w.seqRead = r.seqRead
  /\ \A i \in 1..Len(w.outputQueue) : i > Len(r.outputQueue) =>
        \/ w.outputQueue[i] \in more
        \/ \E c \in Channels : w.outputQueue[i] \in r.orderingList[c]
  /\ \A c \in Channels : \A e \in r.orderingList[c] :
        \/ e \in w.orderingList[c]
        \/ \E i \in 1..Len(w.outputQueue) : /\ w.outputQueue[i] \in r.orderingList[c]
                                            /\ w.outputQueue[i].ord = e.ord

\* What comes next in the list is delivered, each message once.
LEMMA DrainKeeps ==
  ASSUME NEW r, ReceiverTypes(r), Content(r), NEW c \in Channels
  PROVE  /\ ReceiverTypes(Drain(r, c)) /\ Content(Drain(r, c)) /\ SameWindow(r, Drain(r, c))
         /\ Delivers(r, Drain(r, c), {})
<1> DEFINE list == r.orderingList[c]
           have == {e.ord : e \in list}
           at(i) == Follows(r, c, i)
           run == CHOOSE n \in 0..OrdMod : /\ \A i \in 0..(n - 1) : at(i) \in have
                                           /\ n < OrdMod => at(n) \notin have
           nth(i) == CHOOSE e \in list : e.ord = at(i - 1)
           gone == {at(i) : i \in 0..(run - 1)}
           next == [i \in 1..run |-> nth(i)]
           left == {e \in list : e.ord \notin gone}
           out == r.outputQueue
           w == Drain(r, c)
<1>1. /\ out \in Seq(Entry) /\ Len(out) \in Nat /\ list \subseteq Entry
      /\ r.ordRead[c] \in Orders /\ r.orderingList \in [Channels -> SUBSET Entry]
      /\ r.ordRead \in [Channels -> Orders]
  BY DEF ReceiverTypes, Receivers
<1>2. OrdMod \in Nat \ {0}
  BY ReliabilityAssumption
<1>3. w = [r EXCEPT !.outputQueue = out \o next,
                    !.ordRead[c] = (r.ordRead[c] + run) % OrdMod,
                    !.orderingList[c] = left]
  BY DEF Drain
<1> HIDE DEF w, list, out
<1>4. run \in 0..OrdMod /\ \A i \in 0..(run - 1) : at(i) \in have
  <2> DEFINE Stops == {n \in 0..OrdMod : n < OrdMod => at(n) \notin have}
  <2> HIDE DEF have
  <2>1. Stops \subseteq Nat /\ OrdMod \in Stops
    BY <1>2
  <2>2. PICK n \in Stops : \A m \in Stops : n <= m
    BY <2>1, Least
  <2>3. ASSUME NEW i \in 0..(n - 1) PROVE at(i) \in have
    <3>1. i \in 0..OrdMod /\ i < OrdMod /\ ~(n <= i)
      BY <2>1, <2>2, <1>2
    <3>2. i \notin Stops
      <4> HIDE DEF Stops
      <4> QED  BY <3>1, <2>2
    <3> QED  BY <3>1, <3>2
  <2> QED  BY <2>2, <2>3
<1> HIDE DEF run
<1>5. run \in Nat /\ run <= OrdMod
  BY <1>2, <1>4
<1>6. \A i \in 1..run : nth(i) \in list /\ nth(i).ord = at(i - 1) /\ nth(i).ord \in gone
  <2> TAKE i \in 1..run
  <2>1. i - 1 \in 0..(run - 1)
    BY <1>5
  <2>2. \E e \in list : e.ord = at(i - 1)
    BY <2>1, <1>4
  <2> QED  BY <2>1, <2>2
<1>7. ASSUME NEW i \in 0..(run - 1), NEW j \in 0..(run - 1), at(i) = at(j) PROVE i = j
  <2> DEFINE x == r.ordRead[c] + i  y == r.ordRead[c] + j
  <2>1. /\ i \in Nat /\ j \in Nat /\ i < OrdMod /\ j < OrdMod
        /\ r.ordRead[c] \in Nat /\ r.ordRead[c] < OrdMod
    BY <1>1, <1>2, <1>5 DEF Orders
  <2>2. x \in (0 - OrdMod)..(2 * OrdMod - 1) /\ y \in (0 - OrdMod)..(2 * OrdMod - 1)
        /\ x \in Nat /\ y \in Nat
    BY <2>1, <1>2
  <2> HIDE DEF x, y
  <2>3. /\ x % OrdMod = IF x < 0 THEN x + OrdMod ELSE IF x >= OrdMod THEN x - OrdMod ELSE x
        /\ y % OrdMod = IF y < 0 THEN y + OrdMod ELSE IF y >= OrdMod THEN y - OrdMod ELSE y
    BY <2>2, <1>2, Wrapped
  <2>4. x % OrdMod = y % OrdMod
    BY <1>7 DEF Follows, x, y
  <2>5. x - y = i - j
    BY <2>1 DEF x, y
  <2>6. x = y \/ x - y >= OrdMod \/ y - x >= OrdMod
    BY <2>2, <2>3, <2>4, <1>2
  <2> QED  BY <2>1, <2>2, <2>5, <2>6, <1>2
<1>8. \A i, j \in 1..run : nth(i) = nth(j) => i = j
  <2> TAKE i, j \in 1..run
  <2>1. i - 1 \in 0..(run - 1) /\ j - 1 \in 0..(run - 1) /\ i \in Int /\ j \in Int
    BY <1>5
  <2> HIDE DEF nth, at
  <2>2. nth(i) = nth(j) => i - 1 = j - 1
    BY <2>1, <1>6, <1>7
  <2> QED  BY <2>1, <2>2
<1>9. next \in Seq(Entry) /\ Len(next) = run /\ \A i \in 1..run : next[i] = nth(i)
  <2> HIDE DEF nth
  <2> QED  BY <1>1, <1>5, <1>6
<1>10. \A i \in 1..run : nth(i).ord = at(i - 1)
  BY <1>6
<1> HIDE DEF nth, at, gone, next
<1> DEFINE more == out \o next
<1>11. /\ more \in Seq(Entry) /\ Len(more) = Len(out) + run
       /\ \A i \in 1..Len(more) : \/ i \in 1..Len(out) /\ more[i] = out[i]
                                  \/ i - Len(out) \in 1..run /\ more[i] = nth(i - Len(out))
  <2>1. /\ more \in Seq(Entry) /\ Len(more) = Len(out) + run
        /\ \A i \in 1..(Len(out) + run) : more[i] = IF i <= Len(out) THEN out[i] ELSE next[i - Len(out)]
    BY <1>1, <1>9, ConcatProperties
  <2> HIDE DEF more
  <2>2. ASSUME NEW i \in 1..Len(more)
        PROVE  \/ i \in 1..Len(out) /\ more[i] = out[i]
               \/ i - Len(out) \in 1..run /\ more[i] = nth(i - Len(out))
    <3>1. CASE i <= Len(out)
      BY <3>1, <2>1, <1>1
    <3>2. CASE ~(i <= Len(out))
      <4>1. i - Len(out) \in 1..run
        BY <3>2, <2>1, <1>1, <1>5
      <4> QED  BY <4>1, <3>2, <2>1, <1>9, <1>1, <1>5
    <3> QED  BY <3>1, <3>2
  <2> QED  BY <2>1, <2>2
<1> DEFINE lists == [r.orderingList EXCEPT ![c] = left]
           reads == [r.ordRead EXCEPT ![c] = (r.ordRead[c] + run) % OrdMod]
<1>12. /\ lists \in [Channels -> SUBSET Entry]
       /\ \A d \in Channels : \A e \in lists[d] : e \in r.orderingList[d] /\ (d = c => e.ord \notin gone)
       /\ \A d \in Channels : \A e \in r.orderingList[d] : e \in lists[d] \/ (d = c /\ e.ord \in gone)
  BY <1>1 DEF list
<1>13. reads \in [Channels -> Orders]
  <2>1. r.ordRead[c] + run \in Int
    BY <1>1, <1>2, <1>5 DEF Orders
  <2>2. (r.ordRead[c] + run) % OrdMod \in Orders
    BY <2>1, <1>2 DEF Orders
  <2> QED  BY <2>2, <1>1
<1>14. w = [r EXCEPT !.outputQueue = more, !.ordRead = reads, !.orderingList = lists]
  BY <1>3
<1> HIDE DEF more, lists, reads
<1>15. /\ w.outputQueue = more /\ w.orderingList = lists
       /\ w.splits = r.splits /\ SameWindow(r, w) /\ ReceiverTypes(w)
  BY <1>11, <1>12, <1>13, <1>14 DEF ReceiverTypes, Receivers, SameWindow
<1>16. SplitsFit(w)
  BY <1>15, SameSettled DEF Content, SplitsFit
<1>17. \A i \in 1..run : nth(i) \in r.orderingList[c] /\ nth(i).ord \in gone
  BY <1>6 DEF list
<1>18. OutputFits(w)
  <2>1. ASSUME NEW i \in 1..Len(more) PROVE IsWhole(w, more[i])
    BY <1>11, <1>15, <1>17, SameSettled DEF Content, OutputFits, ListsFit, out
  <2>2. ASSUME NEW i \in 1..Len(more), NEW j \in 1..Len(more),
               more[i].parts[1] = more[j].parts[1]
        PROVE  i = j
    <3>1. CASE i \in 1..Len(out) /\ more[i] = out[i] /\ j \in 1..Len(out) /\ more[j] = out[j]
      BY <3>1, <2>2 DEF Content, OutputFits, out
    <3>2. CASE /\ i - Len(out) \in 1..run /\ more[i] = nth(i - Len(out))
               /\ j - Len(out) \in 1..run /\ more[j] = nth(j - Len(out))
      <4>1. nth(i - Len(out)) = nth(j - Len(out))
        BY <3>2, <2>2, <1>17 DEF Content, ListsFit
      <4>2. i - Len(out) = j - Len(out)
        BY <4>1, <3>2, <1>8
      <4>3. i \in Int /\ j \in Int
        BY <1>11, <1>1, <1>5
      <4> QED  BY <4>2, <4>3, <1>1
    <3>3. ASSUME NEW x \in 1..Len(out), NEW y \in 1..run PROVE out[x].parts[1] # nth(y).parts[1]
      BY <1>17 DEF Content, ListsFit, out
    <3> QED  BY <3>1, <3>2, <3>3, <2>2, <1>11
  <2> QED  BY <2>1, <2>2, <1>15 DEF OutputFits, more
<1>19. ListsFit(w)
  <2>1. ASSUME NEW d \in Channels, NEW o \in lists[d]
        PROVE  IsWhole(w, o) /\ o.rel = "RELIABLE_ORDERED" /\ o.ch = d
    BY <1>12, <1>15, SameSettled DEF Content, ListsFit
  <2>2. ASSUME NEW d \in Channels, NEW o \in lists[d], NEW i \in 1..Len(more)
        PROVE  more[i].parts[1] # o.parts[1]
    <3>1. CASE i \in 1..Len(out) /\ more[i] = out[i]
      BY <3>1, <1>12 DEF Content, ListsFit, out
    <3>2. CASE i - Len(out) \in 1..run /\ more[i] = nth(i - Len(out))
      <4> DEFINE x == nth(i - Len(out))
      <4>1. x \in r.orderingList[c] /\ x.ord \in gone
        BY <3>2, <1>17
      <4>2. x.parts[1] = o.parts[1] => c = d /\ x = o
        BY <4>1, <1>12 DEF Content, ListsFit
      <4> QED  BY <4>1, <4>2, <3>2, <1>12
    <3> QED  BY <3>1, <3>2, <1>11
  <2>3. ASSUME NEW a \in Channels, NEW d \in Channels, NEW o \in lists[a], NEW x \in lists[d],
               o.parts[1] = x.parts[1]
        PROVE  a = d /\ o = x
    BY <2>3, <1>12 DEF Content, ListsFit
  <2> QED  BY <2>1, <2>2, <2>3, <1>15 DEF ListsFit
<1>20. Delivers(r, w, {})
  <2>1. w.seqRead = r.seqRead
    BY <1>14 DEF ReceiverTypes, Receivers
  <2>2. Grows(r, w)
    <3>1. \A i \in 1..Len(out) : i \in 1..Len(more) /\ ~(i - Len(out) \in 1..run)
      BY <1>1, <1>5, <1>11
    <3>2. Len(out) <= Len(more)
      BY <1>1, <1>5, <1>11
    <3> QED  BY <3>1, <3>2, <1>11, <1>15 DEF Grows, out
  <2>3. ASSUME NEW i \in 1..Len(more), i > Len(out) PROVE more[i] \in r.orderingList[c]
    <3>1. ~(i \in 1..Len(out))
      BY <2>3, <1>1
    <3> QED  BY <3>1, <1>11, <1>17
  <2>4. ASSUME NEW e \in r.orderingList[c], e.ord \in gone
        PROVE  \E i \in 1..Len(more) : more[i] \in r.orderingList[c] /\ more[i].ord = e.ord
    <3>1. PICK i \in 0..(run - 1) : e.ord = at(i)
      BY <2>4 DEF gone
    <3>2. i + 1 \in 1..run /\ (i + 1) - 1 = i
      BY <1>5
    <3>3. nth(i + 1).ord = e.ord /\ nth(i + 1) \in r.orderingList[c]
      BY <3>1, <3>2, <1>10, <1>17
    <3>4. /\ Len(out) + (i + 1) \in 1..Len(more) /\ ~(Len(out) + (i + 1) \in 1..Len(out))
          /\ (Len(out) + (i + 1)) - Len(out) = i + 1
      BY <3>2, <1>1, <1>5, <1>11
    <3>5. more[Len(out) + (i + 1)] = nth(i + 1)
      BY <3>4, <1>11
    <3> QED  BY <3>3, <3>4, <3>5
  <2> QED  BY <2>1, <2>2, <2>3, <2>4, <1>12, <1>15 DEF Delivers, out
<1> QED  BY <1>15, <1>16, <1>18, <1>19, <1>20 DEF Content, w

\* What channels wait for is no part of the content.
LEMMA ReadIndexKeeps ==
  ASSUME NEW r, ReceiverTypes(r), Content(r), NEW c \in Channels, NEW n \in Orders
  PROVE  /\ LET w == [r EXCEPT !.ordRead[c] = n] IN
              ReceiverTypes(w) /\ Content(w) /\ SameWindow(r, w)
         /\ LET w == [r EXCEPT !.seqRead[c] = n] IN
              /\ ReceiverTypes(w) /\ Content(w) /\ SameWindow(r, w)
              /\ w.splits = r.splits /\ w.outputQueue = r.outputQueue
              /\ w.orderingList = r.orderingList
<1> DEFINE reads(f) == [f EXCEPT ![c] = n]
<1>1. \A f \in [Channels -> Orders] : reads(f) \in [Channels -> Orders]
  OBVIOUS
<1> HIDE DEF reads
<1>2. ASSUME NEW w, \/ w = [r EXCEPT !.ordRead = reads(r.ordRead)]
                    \/ w = [r EXCEPT !.seqRead = reads(r.seqRead)]
      PROVE  /\ ReceiverTypes(w) /\ Content(w) /\ SameWindow(r, w)
             /\ w.splits = r.splits /\ w.outputQueue = r.outputQueue
             /\ w.orderingList = r.orderingList
  <2>1. /\ ReceiverTypes(w) /\ SameWindow(r, w)
        /\ w.splits = r.splits /\ w.outputQueue = r.outputQueue
        /\ w.orderingList = r.orderingList
    BY <1>1, <1>2 DEF ReceiverTypes, Receivers, SameWindow
  <2>2. Content(w)
    BY <2>1, SameSettled DEF Content, SplitsFit, OutputFits, ListsFit
  <2> QED  BY <2>1, <2>2
<1> QED  BY <1>2 DEF reads

IsDelivered(w, e) == \E i \in 1..Len(w.outputQueue) : w.outputQueue[i] = e

LEMMA OutputDelivers ==
  ASSUME NEW r, ReceiverTypes(r), NEW e \in Entry
  PROVE  LET w == Output(r, e) IN
         /\ Delivers(r, w, {e}) /\ IsDelivered(w, e)
         /\ w.orderingList = r.orderingList /\ Len(w.outputQueue) = Len(r.outputQueue) + 1
         /\ w.outputQueue[Len(w.outputQueue)] = e
<1> DEFINE out == r.outputQueue  more == Append(out, e)  w == Output(r, e)
<1>1. out \in Seq(Entry) /\ Len(out) \in Nat
  BY DEF ReceiverTypes, Receivers
<1>2. /\ Len(more) = Len(out) + 1 /\ more[Len(out) + 1] = e
      /\ \A i \in 1..Len(out) : more[i] = out[i]
  BY <1>1, AppendProperties
<1>3. /\ w.outputQueue = more /\ w.orderingList = r.orderingList
      /\ w.splits = r.splits /\ w.seqRead = r.seqRead
  BY DEF Output, ReceiverTypes, Receivers
<1> HIDE DEF more, w
<1>4. IsDelivered(w, e)
  BY <1>1, <1>2, <1>3 DEF IsDelivered
<1>5. Grows(r, w)
  BY <1>1, <1>2, <1>3 DEF Grows, out
<1>6. ASSUME NEW i \in 1..Len(w.outputQueue), i > Len(out) PROVE w.outputQueue[i] = e
  <2>1. i = Len(out) + 1
    BY <1>1, <1>2, <1>3, <1>6
  <2> QED  BY <2>1, <1>2, <1>3
<1>7. Delivers(r, w, {e})
  BY <1>3, <1>5, <1>6 DEF Delivers, out
<1> QED  BY <1>2, <1>3, <1>4, <1>7 DEF w, out

\* Delivering more keeps what was delivered.
LEMMA DeliversMore ==
  ASSUME NEW r, ReceiverTypes(r), NEW o, ReceiverTypes(o), NEW w, ReceiverTypes(w),
         NEW more, Delivers(r, o, more), o.orderingList = r.orderingList, Delivers(o, w, {})
  PROVE  Delivers(r, w, more) /\ \A e : IsDelivered(o, e) => IsDelivered(w, e)
<1>1. /\ Len(r.outputQueue) \in Nat /\ Len(o.outputQueue) \in Nat /\ Len(w.outputQueue) \in Nat
  BY DEF ReceiverTypes, Receivers
<1>2. Grows(r, o) /\ Grows(o, w)
  BY DEF Delivers
<1>3. \A i \in 1..Len(o.outputQueue) :
        i \in 1..Len(w.outputQueue) /\ w.outputQueue[i] = o.outputQueue[i]
  BY <1>1, <1>2 DEF Grows
<1>4. Grows(r, w)
  <2>1. Len(r.outputQueue) <= Len(w.outputQueue)
    BY <1>1, <1>2 DEF Grows
  <2>2. \A i \in 1..Len(r.outputQueue) :
          i \in 1..Len(o.outputQueue) /\ o.outputQueue[i] = r.outputQueue[i]
    BY <1>1, <1>2 DEF Grows
  <2> QED  BY <2>1, <2>2, <1>3 DEF Grows
<1>5. ASSUME NEW i \in 1..Len(w.outputQueue), i > Len(r.outputQueue)
      PROVE  \/ w.outputQueue[i] \in more
             \/ \E c \in Channels : w.outputQueue[i] \in r.orderingList[c]
  <2>1. CASE i <= Len(o.outputQueue)
    <3>1. i \in 1..Len(o.outputQueue)
      BY <2>1, <1>1
    <3> QED  BY <3>1, <1>3, <1>5 DEF Delivers
  <2>2. CASE ~(i <= Len(o.outputQueue))
    <3>1. i > Len(o.outputQueue)
      BY <2>2, <1>1
    <3> QED  BY <3>1 DEF Delivers
  <2> QED  BY <2>1, <2>2
<1>6. w.splits = r.splits /\ w.seqRead = r.seqRead
  BY DEF Delivers
<1>7. \A c \in Channels : \A e \in r.orderingList[c] :
        \/ e \in w.orderingList[c]
        \/ \E i \in 1..Len(w.outputQueue) : /\ w.outputQueue[i] \in r.orderingList[c]
                                            /\ w.outputQueue[i].ord = e.ord
  BY DEF Delivers
<1>8. \A e : IsDelivered(o, e) => IsDelivered(w, e)
  BY <1>3 DEF IsDelivered
<1> QED  BY <1>4, <1>5, <1>6, <1>7, <1>8 DEF Delivers

LEMMA OrderKeeps ==
  ASSUME NEW r, ReceiverTypes(r), Content(r), NEW e \in Entry, IsWhole(r, e),
         NoneOf(r, e.parts[1])
  PROVE  LET w == OrderOrOutput(r, e) IN
         /\ ReceiverTypes(w) /\ Content(w) /\ SameWindow(r, w) /\ Delivers(r, w, {e})
         /\ IsDelivered(w, e) \/ e \in w.orderingList[e.ch]
<1> DEFINE o == Output(r, e)
           n == [o EXCEPT !.ordRead[e.ch] = (o.ordRead[e.ch] + 1) % OrdMod]
<1>1. ReceiverTypes(o) /\ Content(o) /\ SameWindow(r, o)
  BY OutputKeeps
<1>2. e.ch \in Channels /\ (o.ordRead[e.ch] + 1) % OrdMod \in Orders
  <2>1. o.ordRead[e.ch] \in Orders /\ e.ch \in Channels
    BY <1>1 DEF ReceiverTypes, Receivers, Entry
  <2>2. OrdMod \in Nat \ {0} /\ o.ordRead[e.ch] + 1 \in Int
    BY <2>1, ReliabilityAssumption DEF Orders
  <2> QED  BY <2>1, <2>2 DEF Orders
<1> HIDE DEF o
<1>3. ReceiverTypes(n) /\ Content(n) /\ SameWindow(o, n)
  BY <1>1, <1>2, ReadIndexKeeps
<1>4. n = [Output(r, e) EXCEPT !.ordRead[e.ch] = (@ + 1) % OrdMod]
  BY DEF o
<1> HIDE DEF n
<1> DEFINE w == Drain(n, e.ch)
<1>5. ReceiverTypes(w) /\ Content(w) /\ SameWindow(n, w) /\ Delivers(n, w, {})
  BY <1>2, <1>3, DrainKeeps
<1>6. SameWindow(r, w)
  BY <1>1, <1>3, <1>5 DEF SameWindow
<1>7. Delivers(r, o, {e}) /\ IsDelivered(o, e) /\ o.orderingList = r.orderingList
  BY OutputDelivers DEF o
<1>8. Delivers(r, w, {e}) /\ IsDelivered(w, e)
  <2>1. Delivers(r, n, {e}) /\ IsDelivered(n, e) /\ n.orderingList = r.orderingList
    <3>1. /\ n.outputQueue = o.outputQueue /\ n.orderingList = o.orderingList
          /\ n.splits = o.splits /\ n.seqRead = o.seqRead
      BY <1>1 DEF n, ReceiverTypes, Receivers
    <3> QED  BY <3>1, <1>7 DEF Delivers, Grows, IsDelivered
  <2> QED  BY <2>1, <1>3, <1>5, DeliversMore
<1>9. CASE OrderOrOutput(r, e) = o
  BY <1>1, <1>9, <1>7
<1>10. CASE OrderOrOutput(r, e) = w
  BY <1>5, <1>6, <1>10, <1>8
<1>11. CASE OrderOrOutput(r, e) = Await(r, e) /\ e.rel = "RELIABLE_ORDERED"
  <2>1. /\ Await(r, e).outputQueue = r.outputQueue /\ Await(r, e).splits = r.splits
        /\ Await(r, e).seqRead = r.seqRead /\ e \in Await(r, e).orderingList[e.ch]
        /\ \A c \in Channels : r.orderingList[c] \subseteq Await(r, e).orderingList[c]
    BY <1>2 DEF Await, ReceiverTypes, Receivers
  <2>2. Len(r.outputQueue) \in Nat
    BY DEF ReceiverTypes, Receivers
  <2>3. Delivers(r, Await(r, e), {e})
    BY <2>1, <2>2 DEF Delivers, Grows
  <2> QED  BY <2>1, <2>3, <1>11, WaitKeeps
<1> QED  BY <1>4, <1>9, <1>10, <1>11 DEF OrderOrOutput, Order, Await, o

-----------------------------------------------------------------------------
(* Pieces of split messages *)

LEMMA WithPieceKeeps ==
  ASSUME NEW r, ReceiverTypes(r), Content(r), NEW p \in Message, p.cnt # 0,
         Fits(p), Settled(r, p.id, p.idx),
         \A q \in r.splits : ~(q.id = p.id /\ q.idx = p.idx)
  PROVE  LET w == WithPiece(r, p) IN
         /\ ReceiverTypes(w) /\ Content(w) /\ SameWindow(r, w)
         /\ w.outputQueue = r.outputQueue /\ w.orderingList = r.orderingList
         /\ PiecesHeld(w, p.sid) # {}
<1> DEFINE w == WithPiece(r, p)
<1>1. CASE \E q \in PiecesHeld(r, p.sid) : q.idx = p.idx
  <2>1. w = r
    BY <1>1 DEF WithPiece
  <2> QED  BY <1>1, <2>1 DEF SameWindow
<1>2. CASE ~ \E q \in PiecesHeld(r, p.sid) : q.idx = p.idx
  <2> DEFINE awake(q) == [q EXCEPT !.idle = IF q.sid = p.sid THEN 0 ELSE @]
             new == [sid |-> p.sid, idx |-> p.idx, cnt |-> p.cnt, id |-> p.id,
                     ord |-> p.ord, ch |-> p.ch, rel |-> p.rel, idle |-> 0]
             pieces == {awake(q) : q \in r.splits} \union {new}
  <2>1. w = [r EXCEPT !.splits = pieces]
    BY <1>2 DEF WithPiece
  <2>2. ASSUME NEW q \in SplitPiece
        PROVE  /\ awake(q) \in SplitPiece /\ awake(q).id = q.id /\ awake(q).idx = q.idx
               /\ awake(q).cnt = q.cnt /\ awake(q).sid = q.sid
               /\ \A a : Labelled(q, a) => Labelled(awake(q), a)
    BY DEF SplitPiece, Labelled
  <2>3. new \in SplitPiece
    BY DEF SplitPiece, Message
  <2>4. r.splits \subseteq SplitPiece
    BY DEF ReceiverTypes, Receivers
  <2> HIDE DEF awake
  <2>5. pieces \subseteq SplitPiece
    BY <2>2, <2>3, <2>4
  <2>6. \A x \in pieces : x = new \/ \E q \in r.splits : x = awake(q)
    OBVIOUS
  <2>7. new \in pieces /\ new.sid = p.sid /\ new.id = p.id /\ new.idx = p.idx /\ new.cnt = p.cnt
        /\ \A a : Labelled(p, a) => Labelled(new, a)
    BY DEF Labelled
  <2> HIDE DEF new, pieces, w
  <2>8. /\ ReceiverTypes(w) /\ SameWindow(r, w) /\ w.splits = pieces
        /\ w.outputQueue = r.outputQueue /\ w.orderingList = r.orderingList
    BY <2>1, <2>5 DEF ReceiverTypes, Receivers, SameWindow
  <2>9. SplitsFit(w)
    <3>1. ASSUME NEW x \in pieces
          PROVE  /\ x.id \in 1..Len(asked) /\ x.idx < asked[x.id].cnt
                 /\ x.cnt = asked[x.id].cnt /\ x.sid = asked[x.id].sid
                 /\ Labelled(x, asked[x.id]) /\ Settled(r, x.id, x.idx)
      <4>1. CASE x = new
        BY <4>1, <2>7 DEF Fits, FitsIn
      <4>2. CASE \E q \in r.splits : x = awake(q)
        BY <4>2, <2>2, <2>4 DEF Content, SplitsFit
      <4> QED  BY <4>1, <4>2, <2>6
    <3>2. ASSUME NEW x \in pieces, NEW y \in pieces, SameKey(x, y) PROVE x = y
      <4>1. CASE x = new
        BY <4>1, <3>2, <2>2, <2>4, <2>6, <2>7 DEF SameKey
      <4>2. CASE y = new
        BY <4>2, <3>2, <2>2, <2>4, <2>6, <2>7 DEF SameKey
      <4>3. CASE x # new /\ y # new
        BY <4>3, <3>2, <2>2, <2>4, <2>6 DEF SameKey, Content, SplitsFit
      <4> QED  BY <4>1, <4>2, <4>3
    <3> QED  BY <3>1, <3>2, <2>8, SameSettled DEF SplitsFit
  <2>10. OutputFits(w) /\ ListsFit(w)
    BY <2>8, SameSettled DEF Content, OutputFits, ListsFit
  <2>11. PiecesHeld(w, p.sid) # {}
    BY <2>7, <2>8 DEF PiecesHeld
  <2> QED  BY <2>8, <2>9, <2>10, <2>11 DEF Content, w
<1> QED  BY <1>1, <1>2

LEMMA WithoutSplitKeeps ==
  ASSUME NEW r, ReceiverTypes(r), Content(r), NEW sid
  PROVE  LET w == WithoutSplit(r, sid) IN
         /\ ReceiverTypes(w) /\ Content(w) /\ SameWindow(r, w)
         /\ w.outputQueue = r.outputQueue /\ w.orderingList = r.orderingList
<1> DEFINE w == WithoutSplit(r, sid)
<1>1. w = [r EXCEPT !.splits = {q \in r.splits : q.sid # sid}]
  BY DEF WithoutSplit
<1> HIDE DEF w
<1>2. /\ ReceiverTypes(w) /\ SameWindow(r, w) /\ w.splits \subseteq r.splits
      /\ w.outputQueue = r.outputQueue /\ w.orderingList = r.orderingList
  BY <1>1 DEF ReceiverTypes, Receivers, SameWindow
<1>3. SplitsFit(w)
  BY <1>2, SameSettled DEF Content, SplitsFit
<1>4. OutputFits(w) /\ ListsFit(w)
  BY <1>2, SameSettled DEF Content, OutputFits, ListsFit
<1> QED  BY <1>2, <1>3, <1>4 DEF Content, w

\* Pieces under one id of a split message belong to one message.
LEMMA PiecesOfOneMessage ==
  ASSUME SplitIds, NEW i \in 1..Len(asked), NEW j \in 1..Len(asked),
         asked[i].sid = asked[j].sid, asked[i].sid # Unsplit
  PROVE  i = j
BY DEF SplitIds

AskedTypes == asked \in Seq(AskedRecord)

\* When as many pieces are held as the first one says, these are all of them.
LEMMA RebuiltIsWhole ==
  ASSUME AskedTypes, NEW r, ReceiverTypes(r), Content(r), SplitIds,
         NEW p \in r.splits, IsComplete(r, p.sid)
  PROVE  /\ Rebuilt(r, p.sid) \in Entry /\ IsWhole(r, Rebuilt(r, p.sid))
         /\ Rebuilt(r, p.sid).parts[1] = p.id
<1> DEFINE s == PiecesHeld(r, p.sid)
           C == asked[p.id].cnt
           f == FirstPiece(s)
           e == Rebuilt(r, p.sid)
<1>1. p \in s /\ s \subseteq r.splits /\ r.splits \subseteq SplitPiece /\ \A q \in s : q.sid = p.sid
  BY DEF PiecesHeld, ReceiverTypes, Receivers
<1>2. \A q \in r.splits : /\ q.id \in 1..Len(asked) /\ q.idx < asked[q.id].cnt
                          /\ q.cnt = asked[q.id].cnt /\ q.sid = asked[q.id].sid
                          /\ Labelled(q, asked[q.id]) /\ Settled(r, q.id, q.idx)
  BY DEF Content, SplitsFit
<1>3. p.sid # Unsplit
  <2>1. p.sid \in 0..(SplitMod - 1)
    BY <1>1 DEF SplitPiece
  <2> QED  BY <2>1 DEF Unsplit
<1> HIDE DEF s
<1>4. \A q \in s : q.id = p.id /\ q.cnt = C
  BY <1>1, <1>2, <1>3, PiecesOfOneMessage
<1>5. C \in Nat \ {0}
  <2>1. p.id \in 1..Len(asked)
    BY <1>2
  <2>2. asked[p.id] \in AskedRecord
    BY <2>1, ElementOfSeq DEF AskedTypes
  <2> QED  BY <2>2 DEF AskedRecord
<1>6. \A q \in s : q.idx \in 0..(C - 1) /\ Settled(r, p.id, q.idx)
  <2> TAKE q \in s
  <2>1. q \in r.splits /\ q.idx \in Nat /\ q.id = p.id
    BY <1>1, <1>4 DEF SplitPiece
  <2>2. q.idx < C /\ Settled(r, p.id, q.idx)
    BY <2>1, <1>2
  <2> HIDE DEF C
  <2> QED  BY <2>1, <2>2, <1>5
<1>7. \A q, o \in s : q.idx = o.idx => q = o
  BY <1>1, <1>4 DEF Content, SplitsFit, SameKey
<1>8. f \in s
  <2> DEFINE T == {q.idx : q \in s}
  <2>1. T \subseteq Nat /\ T # {}
    BY <1>1, <1>6
  <2>2. PICK x \in T : \A y \in T : x <= y
    BY <2>1, Least
  <2>3. \E q \in s : \A o \in s : q.idx <= o.idx
    BY <2>2
  <2> QED  BY <2>3 DEF FirstPiece
<1>9. Cardinality(s) = C
  BY <1>4, <1>8 DEF IsComplete, s
<1> HIDE DEF f, C
<1> DEFINE m == [q \in s |-> q.idx]
<1>10. \A k \in 0..(C - 1) : \E q \in s : q.idx = k
  <2>1. m \in Injection(s, 0..(C - 1))
    BY <1>6, <1>7 DEF Injection, IsInjective
  <2>2. IsFiniteSet(0..(C - 1)) /\ Cardinality(0..(C - 1)) = C
    <3>1. 0 \in Int /\ C - 1 \in Int
      BY <1>5
    <3>2. /\ IsFiniteSet(0..(C - 1))
          /\ Cardinality(0..(C - 1)) = IF 0 > C - 1 THEN 0 ELSE C - 1 - 0 + 1
      BY <3>1, FS_Interval
    <3> QED  BY <3>2, <1>5
  <2> HIDE DEF m
  <2>3. m \in Surjection(s, 0..(C - 1))
    BY <2>1, <2>2, <1>9, FS_Injection
  <2> QED  BY <2>3 DEF Surjection, m
<1> DEFINE n == Cardinality(s)
           l == CHOOSE l \in [1..n -> s] : \A i, j \in 1..n : i < j => l[i].idx < l[j].idx
           parts == [i \in 1..n |-> l[i].id]
<1>11. l \in [1..C -> s] /\ n = C
  <2> DEFINE g == [i \in 1..C |-> CHOOSE q \in s : q.idx = i - 1]
  <2>1. ASSUME NEW i \in 1..C
        PROVE  /\ (CHOOSE q \in s : q.idx = i - 1) \in s
               /\ (CHOOSE q \in s : q.idx = i - 1).idx = i - 1
    <3>1. i - 1 \in 0..(C - 1)
      BY <1>5
    <3> QED  BY <3>1, <1>10
  <2>2. g \in [1..C -> s] /\ \A i \in 1..C : g[i].idx = i - 1
    BY <2>1
  <2> HIDE DEF g
  <2>3. \A i, j \in 1..C : i < j => g[i].idx < g[j].idx
    BY <2>2, <1>5
  <2>4. \E x \in [1..n -> s] : \A i, j \in 1..n : i < j => x[i].idx < x[j].idx
    BY <2>2, <2>3, <1>9
  <2> QED  BY <2>4, <1>9
<1> HIDE DEF l
<1>12. e = [ord |-> f.ord, ch |-> f.ch, rel |-> f.rel, parts |-> parts]
  BY DEF Rebuilt, s, f, l
<1>13. \A i \in 1..C : l[i] \in s /\ l[i].id = p.id
  BY <1>4, <1>11
<1>14. p.id \in Ids
  BY <1>1 DEF SplitPiece
<1>15. /\ parts \in Seq(Ids) /\ Len(parts) = C /\ parts # <<>>
       /\ \A i \in 1..C : parts[i] = p.id
  <2>1. /\ parts \in [1..C -> Ids] /\ \A i \in 1..C : parts[i] = p.id
    BY <1>11, <1>13, <1>14
  <2> HIDE DEF parts
  <2> QED  BY <2>1, <1>5
<1> HIDE DEF parts, e
<1>16. e \in Entry
  <2>1. f \in SplitPiece
    BY <1>1, <1>8
  <2> QED  BY <2>1, <1>12, <1>15 DEF Entry, SplitPiece
<1>17. e.parts = parts /\ parts[1] = p.id
  BY <1>12, <1>15, <1>5
<1>18. IsWhole(r, e)
  <2>1. p.id \in 1..Len(asked)
    BY <1>1, <1>2
  <2>2. \A k \in 0..(C - 1) : Settled(r, p.id, k)
    BY <1>6, <1>10
  <2>3. Labelled(e, asked[p.id])
    BY <1>1, <1>2, <1>4, <1>8, <1>12 DEF Labelled
  <2> QED  BY <2>1, <2>2, <2>3, <1>15, <1>17 DEF IsWhole, C
<1> QED  BY <1>16, <1>17, <1>18 DEF e

\* A piece of one message on its own is whole.
LEMMA SingleIsWhole ==
  ASSUME AskedTypes, NEW r, NEW p \in Message, p.cnt = 0, Fits(p), Settled(r, p.id, p.idx)
  PROVE  Single(p) \in Entry /\ IsWhole(r, Single(p)) /\ Single(p).parts[1] = p.id
<1>1. p.idx = 0 /\ p.id \in 1..Len(asked) /\ asked[p.id].cnt = 1
  BY DEF Fits, FitsIn, Message
<1>2. Single(p) = [ord |-> p.ord, ch |-> p.ch, rel |-> p.rel, parts |-> <<p.id>>]
  BY DEF Single
<1>3. <<p.id>> \in Seq(Ids) \ {<<>>} /\ Len(<<p.id>>) = 1 /\ <<p.id>>[1] = p.id
  BY DEF Message
<1>4. Single(p) \in Entry
  BY <1>2, <1>3 DEF Entry, Message
<1>5. Single(p).parts = <<p.id>> /\ Labelled(Single(p), asked[p.id])
  BY <1>2 DEF Fits, FitsIn, Labelled
<1>6. IsWhole(r, Single(p))
  BY <1>1, <1>3, <1>5 DEF IsWhole
<1> QED  BY <1>4, <1>5, <1>6

LEMMA Transitive ==
  ASSUME NEW a, NEW b, NEW c, SameWindow(a, b), SameWindow(b, c)
  PROVE  SameWindow(a, c)
BY DEF SameWindow

\* Whether a message that is new to the receiver is put aside, delivered at once
\* or completes a split one, what the receiver has stays in order.
LEMMA ProcessKeeps ==
  ASSUME AskedTypes, SplitIds, NEW r, ReceiverTypes(r), Content(r), NEW p \in Message, Fits(p),
         Settled(r, p.id, p.idx), NoneOf(r, p.id),
         \A q \in r.splits : ~(q.id = p.id /\ q.idx = p.idx)
  PROVE  ReceiverTypes(Process(r, p)) /\ Content(Process(r, p)) /\ SameWindow(r, Process(r, p))
<1> DEFINE Good(w) == ReceiverTypes(w) /\ Content(w) /\ SameWindow(r, w)
           Alike(w) == w.outputQueue = r.outputQueue /\ w.orderingList = r.orderingList
<1>1. p.cnt \in Nat /\ p.ch \in Channels /\ p.ord \in Orders
  BY DEF Message
<1>2. Good(r) /\ Alike(r)
  BY DEF SameWindow
<1>3. (p.ord + 1) % OrdMod \in Orders
  <2>1. OrdMod \in Nat \ {0} /\ p.ord + 1 \in Int
    BY <1>1, ReliabilityAssumption DEF Orders
  <2> QED  BY <2>1 DEF Orders
<1> DEFINE passed(w) == [w EXCEPT !.seqRead[p.ch] = (p.ord + 1) % OrdMod]
<1>4. ASSUME NEW w, Good(w), Alike(w)
      PROVE  Good(passed(w)) /\ Alike(passed(w)) /\ passed(w).splits = w.splits
  <2>1. /\ ReceiverTypes(passed(w)) /\ Content(passed(w)) /\ SameWindow(w, passed(w))
        /\ passed(w).splits = w.splits /\ passed(w).outputQueue = w.outputQueue
        /\ passed(w).orderingList = w.orderingList
    BY <1>1, <1>3, <1>4, ReadIndexKeeps
  <2> HIDE DEF passed
  <2> QED  BY <2>1, <1>4, Transitive
<1>5. ASSUME NEW w, Good(w), Alike(w)
      PROVE  Good(WithoutSplit(w, p.sid)) /\ Alike(WithoutSplit(w, p.sid))
  BY <1>5, WithoutSplitKeeps, Transitive
<1>6. ASSUME NEW w, Good(w), Alike(w), NEW e \in Entry, IsWhole(r, e), e.parts[1] = p.id
      PROVE  Good(Output(w, e)) /\ Good(OrderOrOutput(w, e))
  <2>1. IsWhole(w, e) /\ NoneOf(w, p.id)
    BY <1>6, SameSettled DEF NoneOf
  <2> QED  BY <2>1, <1>6, OutputKeeps, OrderKeeps, Transitive
<1> HIDE DEF passed
<1> SUFFICES Good(Process(r, p))
  OBVIOUS
<1>7. CASE p.cnt = 0
  <2>1. Single(p) \in Entry /\ IsWhole(r, Single(p)) /\ Single(p).parts[1] = p.id
    BY <1>7, SingleIsWhole
  <2>2. Good(Output(passed(r), Single(p))) /\ Good(OrderOrOutput(r, Single(p)))
    BY <2>1, <1>2, <1>4, <1>6
  <2> HIDE DEF Good
  <2>3. ~(p.cnt > 0)
    BY <1>7
  <2>4. CASE p.rel \in Sequenced
    <3>1. Process(r, p) = Sequence(r, p)
      BY <2>4 DEF Process
    <3>2. CASE Superseded(r, p)
      <4>1. Sequence(r, p) = r
        BY <3>2 DEF Sequence
      <4> QED  BY <4>1, <3>1, <1>2
    <3>3. CASE ~Superseded(r, p)
      <4>1. Sequence(r, p) = Output(passed(r), Single(p))
        BY <3>3, <2>3, <1>7 DEF Sequence, passed
      <4> QED  BY <4>1, <3>1, <2>2
    <3> QED  BY <3>2, <3>3
  <2>5. CASE p.rel \notin Sequenced
    <3>1. Process(r, p) = OrderOrOutput(r, Single(p))
      BY <2>3, <2>5 DEF Process
    <3> QED  BY <3>1, <2>2
  <2> QED  BY <2>4, <2>5
<1>8. CASE p.cnt # 0
  <2> DEFINE w == WithPiece(r, p)  e == Rebuilt(w, p.sid)
  <2>1. Good(w) /\ Alike(w) /\ PiecesHeld(w, p.sid) # {}
    BY <1>8, WithPieceKeeps
  <2> HIDE DEF w
  <2>2. ASSUME IsComplete(w, p.sid)
        PROVE  /\ Good(Output(WithoutSplit(passed(w), p.sid), e))
               /\ Good(OrderOrOutput(WithoutSplit(w, p.sid), e))
    <3>1. PICK q \in w.splits : q.sid = p.sid
      BY <2>1 DEF PiecesHeld
    <3>2. e \in Entry /\ IsWhole(w, e) /\ e.parts[1] = q.id
      BY <2>1, <2>2, <3>1, RebuiltIsWhole
    <3>3. q.id \in 1..Len(asked) /\ asked[q.id].sid = q.sid /\ q.sid # Unsplit
      <4>1. q \in SplitPiece
        BY <2>1 DEF ReceiverTypes, Receivers
      <4> QED  BY <4>1, <2>1 DEF Content, SplitsFit, SplitPiece, Unsplit
    <3>4. p.id \in 1..Len(asked) /\ asked[p.id].sid = p.sid
      BY <1>8 DEF Fits, FitsIn
    <3>5. q.id = p.id
      BY <3>1, <3>3, <3>4, PiecesOfOneMessage
    <3>6. IsWhole(r, e)
      BY <3>2, <2>1, SameSettled
    <3> HIDE DEF e
    <3>7. Good(WithoutSplit(w, p.sid)) /\ Alike(WithoutSplit(w, p.sid))
      BY <2>1, <1>5
    <3>8. Good(WithoutSplit(passed(w), p.sid)) /\ Alike(WithoutSplit(passed(w), p.sid))
      BY <2>1, <1>4, <1>5
    <3> QED  BY <3>2, <3>5, <3>6, <3>7, <3>8, <1>6
  <2>3. Good(w)
    BY <2>1
  <2> HIDE DEF Good, e
  <2>4. p.cnt > 0 /\ p.cnt # 0
    BY <1>1, <1>8
  <2>5. CASE p.rel \in Sequenced
    <3>1. Process(r, p) = Sequence(r, p)
      BY <2>5 DEF Process
    <3>2. CASE Superseded(r, p)
      <4>1. Sequence(r, p) = r
        BY <3>2 DEF Sequence
      <4> QED  BY <4>1, <3>1, <1>2 DEF Good
    <3>3. CASE ~Superseded(r, p)
      <4>1. Sequence(r, p) = IF IsComplete(w, p.sid)
                             THEN Output(WithoutSplit(passed(w), p.sid), e) ELSE w
        BY <3>3, <2>4 DEF Sequence, passed, w, e
      <4> QED  BY <4>1, <3>1, <2>2, <2>3
    <3> QED  BY <3>2, <3>3
  <2>6. CASE p.rel \notin Sequenced
    <3>1. Process(r, p) = Reassemble(r, p)
      BY <2>4, <2>6 DEF Process
    <3>2. Reassemble(r, p) = IF IsComplete(w, p.sid)
                             THEN OrderOrOutput(WithoutSplit(w, p.sid), e) ELSE w
      BY DEF Reassemble, w, e
    <3> QED  BY <3>1, <3>2, <2>2, <2>3
  <2> QED  BY <2>5, <2>6
<1> QED  BY <1>7, <1>8

-----------------------------------------------------------------------------
(* A datagram arrives *)

\* What is not taken for a duplicate was not received before.
LEMMA NoDuplicateIsNew ==
  ASSUME Course, NEW r, ReceiverTypes(r), Window(r), NEW p,
         p.num \in CircleNumbers, Place(p.num) < course.count, ~IsDuplicate(r, p)
  PROVE  ~IsReceived(r, p.num)
<1> DEFINE q == r.hasReceivedPacketQueue
           b == r.receivedPacketsBaseIndex
           h == HoleCount(r, p)
<1>1. course.first \in CircleNumbers /\ course.count \in Nat /\ course.count <= Half
  BY DEF Course, Courses, CircleNumbers
<1>2. q \in Seq(Nat) /\ b \in CircleNumbers /\ Len(q) \in Nat
  BY DEF ReceiverTypes, Receivers, CircleNumbers
<1>3. /\ Place(b) \in Nat /\ Place(p.num) \in Nat
  BY <1>1, <1>2, PlaceIs
<1>4. Half \in Nat
  BY HalfIsLess
<1>5. Place(b) + Len(q) <= course.count
  BY DEF Window
<1> HIDE DEF q, b
<1>6. h \in Nat /\ (h <= Half => h = Place(p.num) - Place(b))
  <2>1. Place(b) <= Half /\ Place(p.num) <= Half
    BY <1>1, <1>2, <1>3, <1>4, <1>5
  <2> QED  BY <2>1, <1>1, <1>2, HoleIs DEF HoleCount, b
<1>7. ~(h > Half) /\ ~(h # 0 /\ h < Len(q) /\ q[h + 1] = Got)
  BY DEF IsDuplicate, Half, q
<1> HIDE DEF h
<1>8. h = Place(p.num) - Place(b)
  BY <1>6, <1>7, <1>4
<1>9. h = 0 => ~(h < Len(q) /\ q[h + 1] = Got)
  BY <1>2 DEF Window, q
<1>10. ~(h < 0)
  BY <1>6
<1> QED  BY <1>7, <1>8, <1>9, <1>10 DEF IsReceived, q, b

LEMMA SenderFacts ==
  ASSUME SenderTypes, SenderInv, NotRound
  PROVE  /\ Course /\ AskedTypes /\ SplitIds
         /\ \A m \in Sent : Fits(m) /\ m.num \in CircleNumbers /\ Place(m.num) < course.count
BY DEF SenderTypes, SenderInv, NotRound, Course, AskedTypes, SentFits, CircleNumbers, Courses

\* What is acknowledged changes nothing else.
LEMMA AckedKeeps ==
  ASSUME NEW r, ReceiverInv(r), NEW p \in Message, \A o \in Sent : o.num \in CircleNumbers
  PROVE  LET a == Acked(r, p) IN
         /\ ReceiverInv(a) /\ SameWindow(r, a) /\ SameRest(r, a)
<1> DEFINE a == Acked(r, p)
<1>1. SameWindow(r, a) /\ SameRest(r, a) /\ ReceiverTypes(a)
  <2>1. p.num \in Int
    BY DEF Message
  <2> QED  BY <2>1 DEF ReceiverInv, Acked, SameWindow, SameRest, ReceiverTypes, Receivers
<1> HIDE DEF a
<1>2. Window(a) /\ Content(a)
  <2>1. Keeps(r, a)
    BY <1>1 DEF Keeps, IsReceived, SameWindow
  <2> QED  BY <2>1, <1>1, SameSettled, ContentKept DEF ReceiverInv, Content
<1> QED  BY <1>1, <1>2 DEF ReceiverInv, Content, a

\* A message that is no duplicate was not looked at before, nor was a copy of it.
LEMMA MessageIsNew ==
  ASSUME SenderTypes, SenderInv, NotRound, NEW r, ReceiverInv(r),
         NEW p \in Message, p \in Sent, ~(IsDuplicate(r, p) \/ TooFar(r, p))
  PROVE  LET w == PopExpired(Marked(Acked(r, p), p)) IN
         /\ ReceiverTypes(w) /\ Content(w) /\ Window(w)
         /\ SameRest(r, w) /\ Keeps(r, w) /\ IsReceived(w, p.num) /\ Gains(r, w, {p.num})
         /\ w.acknowlegements = Acked(r, p).acknowlegements
         /\ Settled(w, p.id, p.idx) /\ NoneOf(w, p.id)
         /\ \A q \in w.splits : ~(q.id = p.id /\ q.idx = p.idx)
         /\ HandleMessage(r, p) = Process(w, p)
<1> DEFINE a == Acked(r, p)  m == Marked(a, p)  w == PopExpired(m)
<1>1. /\ Course /\ AskedTypes /\ SplitIds
      /\ Fits(p) /\ p.num \in CircleNumbers /\ Place(p.num) < course.count
      /\ \A o \in Sent : o.num \in CircleNumbers
  BY SenderFacts
<1>2. ReceiverInv(a) /\ SameWindow(r, a) /\ SameRest(r, a)
  BY <1>1, AckedKeeps
<1> HIDE DEF a
<1>3. ReceiverTypes(a) /\ Window(a) /\ Content(a)
  BY <1>2 DEF ReceiverInv, Content
<1>4. Keeps(r, a)
  BY <1>2 DEF Keeps, IsReceived, SameWindow
<1>5. ~IsDuplicate(a, p)
  BY <1>2 DEF IsDuplicate, HoleCount, SameWindow
<1>6. ~IsReceived(a, p.num)
  BY <1>5, <1>1, <1>2, <1>3, NoDuplicateIsNew
<1>7. ~Settled(a, p.id, p.idx)
  BY <1>6 DEF Settled
<1>8. NoneOf(a, p.id)
  <2>1. p.idx \in 0..(asked[p.id].cnt - 1)
    <3>1. p.id \in 1..Len(asked) /\ p.idx < asked[p.id].cnt
      BY <1>1 DEF Fits, FitsIn
    <3>2. asked[p.id].cnt \in Nat
      <4>1. asked[p.id] \in AskedRecord
        BY <3>1, <1>1, ElementOfSeq DEF AskedTypes
      <4> QED  BY <4>1 DEF AskedRecord
    <3>3. p.idx \in Nat
      BY DEF Message
    <3> QED  BY <3>1, <3>2, <3>3
  <2>2. \A e : IsWhole(a, e) => e.parts[1] # p.id
    BY <2>1, <1>7 DEF IsWhole
  <2> QED  BY <2>2, <1>3 DEF NoneOf, Content, OutputFits, ListsFit
<1>9. \A q \in a.splits : ~(q.id = p.id /\ q.idx = p.idx)
  BY <1>7, <1>3 DEF Content, SplitsFit
<1>10. Near(a)
  BY <1>3 DEF Near, Window
<1>11. /\ ReceiverTypes(m) /\ Near(m) /\ SameRest(a, m) /\ Keeps(a, m) /\ IsReceived(m, p.num)
       /\ Gains(a, m, {p.num}) /\ m.acknowlegements = a.acknowlegements
  BY <1>5, <1>10, <1>1, <1>3, MarkedKeeps
<1> HIDE DEF m
<1>12. /\ ReceiverTypes(w) /\ Window(w) /\ SameRest(m, w) /\ Keeps(m, w)
       /\ Gains(m, w, {}) /\ w.acknowlegements = m.acknowlegements
  BY <1>11, <1>1, PopKeeps
<1> HIDE DEF w
<1>13. SameRest(a, w) /\ Keeps(a, w) /\ IsReceived(w, p.num)
  BY <1>11, <1>12, <1>1 DEF SameRest, Keeps
<1>14. Content(w)
  BY <1>13, <1>1, <1>3, ContentKept
<1>15. Settled(w, p.id, p.idx)
  <2>1. \A o \in Sent : SameKey(o, p) => o.num = p.num
    BY DEF SenderInv, SentFits
  <2>2. \A q \in Priorities : \A i \in 1..Len(sendPacketSet[q]) : ~SameKey(p, sendPacketSet[q][i])
    BY DEF SenderInv, QueuesFit
  <2> QED  BY <2>1, <2>2, <1>13 DEF Settled, SameKey
<1>16. NoneOf(w, p.id) /\ \A q \in w.splits : ~(q.id = p.id /\ q.idx = p.idx)
  BY <1>8, <1>9, <1>13 DEF NoneOf, SameRest
<1>17. HandleMessage(r, p) = Process(w, p)
  BY DEF HandleMessage, a, m, w
<1>18. SameRest(r, w) /\ Keeps(r, w)
  BY <1>2, <1>4, <1>13, <1>1 DEF SameRest, Keeps
<1>19. Gains(r, w, {p.num})
  <2>1. Gains(a, w, {p.num})
    BY <1>11, <1>12 DEF Gains
  <2>2. NoneExpired(r) => NoneExpired(a)
    BY <1>2 DEF NoneExpired, SameWindow
  <2>3. \A n : IsReceived(a, n) => IsReceived(r, n)
    BY <1>2 DEF IsReceived, SameWindow
  <2> QED  BY <2>1, <2>2, <2>3 DEF Gains
<1>20. w.acknowlegements = a.acknowlegements
  BY <1>11, <1>12
<1> QED  BY <1>12, <1>13, <1>14, <1>15, <1>16, <1>17, <1>18, <1>19, <1>20 DEF a, m, w

LEMMA HandleMessageKeeps ==
  ASSUME SenderTypes, SenderInv, NotRound, NEW r, ReceiverInv(r),
         NEW p \in Message, p \in Sent
  PROVE  ReceiverInv(HandleMessage(r, p))
<1>1. /\ AskedTypes /\ SplitIds /\ Fits(p) /\ \A o \in Sent : o.num \in CircleNumbers
  BY SenderFacts
<1>2. CASE IsDuplicate(r, p) \/ TooFar(r, p)
  BY <1>1, <1>2, AckedKeeps DEF HandleMessage
<1>3. CASE ~(IsDuplicate(r, p) \/ TooFar(r, p))
  <2> DEFINE w == PopExpired(Marked(Acked(r, p), p))
  <2>1. /\ ReceiverTypes(w) /\ Content(w) /\ Window(w) /\ Settled(w, p.id, p.idx) /\ NoneOf(w, p.id)
        /\ \A q \in w.splits : ~(q.id = p.id /\ q.idx = p.idx)
        /\ HandleMessage(r, p) = Process(w, p)
    BY <1>3, MessageIsNew
  <2> HIDE DEF w
  <2>2. /\ ReceiverTypes(Process(w, p)) /\ Content(Process(w, p))
        /\ SameWindow(w, Process(w, p))
    BY <2>1, <1>1, ProcessKeeps
  <2>3. Window(Process(w, p))
    BY <2>1, <2>2, SameSettled
  <2> QED  BY <2>1, <2>2, <2>3 DEF ReceiverInv, Content
<1> QED  BY <1>2, <1>3

\* What every message of a datagram keeps, the datagram keeps.
LEMMA HandleAllIn ==
  ASSUME SenderTypes, NEW V, rcv \in V, NEW d \in wire,
         \A r \in V : \A p \in Message : p \in Sent => HandleMessage(r, p) \in V
  PROVE  HandleAll(d) \in V
<1> DEFINE n == Len(d)
           step == [i \in 1..n |-> [r \in V |-> HandleMessage(r, d[i])]]
           after[k \in 0..n] == IF k = 0 THEN rcv ELSE HandleMessage(after[k - 1], d[k])
<1>1. d \in Seq(Message) /\ n \in Nat /\ \A i \in 1..n : d[i] \in Message /\ d[i] \in Sent
  <2>1. d \in Seq(Message)
    BY DEF SenderTypes
  <2>2. \A i \in 1..Len(d) : d[i] \in Message /\ i \in DOMAIN d
    BY <2>1
  <2>3. \A i \in 1..Len(d) : d[i] \in Sent
    <3>1. \A i \in 1..Len(d) : d[i] \in {d[k] : k \in DOMAIN d}
      BY <2>2
    <3>2. {d[k] : k \in DOMAIN d} \in {{x[k] : k \in DOMAIN x} : x \in wire}
      OBVIOUS
    <3> QED  BY <3>1, <3>2 DEF Sent
  <2> QED  BY <2>1, <2>2, <2>3
<1>2. \A i \in 1..n : \A r \in V : HandleMessage(r, d[i]) \in V
  BY <1>1
<1> HIDE DEF n
<1>3. step \in [1..n -> [V -> V]] /\ \A i \in 1..n : \A r \in V : step[i][r] = HandleMessage(r, d[i])
  BY <1>2
<1> HIDE DEF step
<1>4. PICK f : IsChain(f, n, V, rcv, step)
  BY <1>1, <1>3, Chain
<1>5. f = [k \in 0..n |-> IF k = 0 THEN rcv ELSE HandleMessage(f[k - 1], d[k])]
  <2>1. ASSUME NEW k \in 0..n
        PROVE  f[k] = IF k = 0 THEN rcv ELSE HandleMessage(f[k - 1], d[k])
    <3>1. CASE k = 0  BY <3>1, <1>4 DEF IsChain
    <3>2. CASE k \in 1..n
      <4>1. k - 1 \in 0..n /\ k # 0
        BY <3>2, <1>1
      <4> QED  BY <4>1, <3>2, <1>3, <1>4 DEF IsChain
    <3> QED  BY <3>1, <3>2, <1>1
  <2> QED  BY <2>1, <1>4 DEF IsChain
<1>6. after = [k \in 0..n |-> IF k = 0 THEN rcv ELSE HandleMessage(after[k - 1], d[k])]
  BY <1>5
<1> HIDE DEF after
<1>7. \A k \in 0..n : after[k] \in V
  <2> DEFINE T == {k \in 0..n : after[k] \notin V}
  <2>1. SUFFICES ASSUME T # {} PROVE FALSE
    BY <2>1
  <2>2. PICK k \in T : \A j \in T : k <= j
    BY <2>1, <1>1, Least, T \subseteq Nat
  <2>3. k # 0
    BY <2>2, <1>1, <1>6
  <2>4. k \in 1..n /\ k - 1 \in 0..n /\ after[k - 1] \in V
    BY <2>2, <2>3, <1>1
  <2>5. after[k] = HandleMessage(after[k - 1], d[k])
    BY <2>2, <2>3, <1>6
  <2> QED  BY <2>2, <2>4, <2>5, <1>2
<1>8. HandleAll(d) = after[n]
  BY DEF HandleAll, after, n
<1> QED  BY <1>7, <1>8, <1>1

LEMMA HandleAllKeeps ==
  ASSUME SenderTypes, SenderInv, NotRound, ReceiverInv(rcv), NEW d \in wire
  PROVE  ReceiverInv(HandleAll(d))
<1> DEFINE V == {r \in Receivers : ReceiverInv(r)}
<1>1. rcv \in V
  BY DEF ReceiverInv, ReceiverTypes
<1>2. ASSUME NEW r \in V, NEW p \in Message, p \in Sent PROVE HandleMessage(r, p) \in V
  <2>1. ReceiverInv(HandleMessage(r, p))
    BY <1>2, HandleMessageKeeps
  <2> QED  BY <2>1 DEF ReceiverInv, ReceiverTypes
<1> HIDE DEF V
<1>3. HandleAll(d) \in V
  BY <1>1, <1>2, HandleAllIn
<1> QED  BY <1>3 DEF V

-----------------------------------------------------------------------------
(* What steps leave as it is *)

\* What is asked, waits or was sent changes only in ways that leave settled
\* messages settled.
SettledStays ==
  /\ course'.first = course.first /\ course.count <= course'.count
  /\ course.splits <= course'.splits
  /\ Len(asked) <= Len(asked') /\ \A i \in 1..Len(asked) : asked'[i] = asked[i]
  /\ \A m \in Sent' : \/ m \in Sent
                      \/ \E p \in Priorities : \E i \in 1..Len(sendPacketSet[p]) :
                           SameKey(m, sendPacketSet[p][i])
  /\ \A p \in Priorities : \A i \in 1..Len(sendPacketSet'[p]) :
       \/ sendPacketSet'[p][i].id > Len(asked)
       \/ \E q \in Priorities : \E j \in 1..Len(sendPacketSet[q]) :
            SameKey(sendPacketSet'[p][i], sendPacketSet[q][j])

LEMMA ReceiverCarried ==
  ASSUME SenderTypes, SenderTypes', SettledStays, NEW r, ReceiverInv(r), rcv' = r
  PROVE  ReceiverInv(rcv)'
<1>1. /\ Len(asked) \in Nat /\ Len(asked') \in Nat /\ Len(asked) <= Len(asked')
      /\ \A i \in 1..Len(asked) : i \in 1..Len(asked') /\ i <= Len(asked) /\ asked'[i] = asked[i]
  BY DEF SenderTypes, SettledStays
<1>2. \A n : IsReceived(r, n) => IsReceived(rcv, n)'
  BY DEF IsReceived, Place, SettledStays
<1>3. ASSUME NEW id \in 1..Len(asked), NEW k, Settled(r, id, k) PROVE Settled(rcv, id, k)'
  <2>1. ASSUME NEW p \in Priorities, NEW i \in 1..Len(sendPacketSet'[p])
        PROVE  ~(sendPacketSet'[p][i].id = id /\ sendPacketSet'[p][i].idx = k)
    <3>1. ~(id > Len(asked))
      BY <1>1
    <3> SUFFICES ASSUME sendPacketSet'[p][i].id = id, sendPacketSet'[p][i].idx = k PROVE FALSE
      OBVIOUS
    <3>2. \E q \in Priorities : \E j \in 1..Len(sendPacketSet[q]) :
            SameKey(sendPacketSet'[p][i], sendPacketSet[q][j])
      BY <3>1 DEF SettledStays
    <3> QED  BY <3>2, <1>3 DEF Settled, SameKey
  <2>2. ASSUME NEW m \in Sent', m.id = id, m.idx = k PROVE IsReceived(rcv, m.num)'
    BY <2>2, <1>2, <1>3 DEF SettledStays, Settled, SameKey
  <2> QED  BY <2>1, <2>2 DEF Settled
<1>4. ASSUME NEW e, IsWhole(r, e) PROVE IsWhole(rcv, e)'
  BY <1>1, <1>3, <1>4 DEF IsWhole
<1>5. ReceiverTypes(rcv)'
  BY DEF ReceiverInv, ReceiverTypes, Receivers
<1>6. Window(rcv)'
  <2>1. ReceiverTypes(r) /\ course \in Courses
    BY DEF ReceiverInv, SenderTypes, CircleNumbers
  <2>2. Place(r.receivedPacketsBaseIndex) \in Nat
    BY <2>1, PlaceIs DEF ReceiverTypes, Receivers, CircleNumbers, Courses
  <2>3. Len(r.hasReceivedPacketQueue) \in Nat /\ course.count \in Nat /\ course'.count \in Nat
    BY <2>1 DEF ReceiverTypes, Receivers, SenderTypes, Courses
  <2>4. Place(r.receivedPacketsBaseIndex) + Len(r.hasReceivedPacketQueue) <= course'.count
    BY <2>2, <2>3 DEF ReceiverInv, Window, SettledStays
  <2>5. Place(rcv.receivedPacketsBaseIndex)' = Place(r.receivedPacketsBaseIndex)
    BY DEF Place, SettledStays
  <2> QED  BY <2>4, <2>5 DEF ReceiverInv, Window
<1>7. SplitsFit(rcv)'
  BY <1>1, <1>3 DEF ReceiverInv, SplitsFit
<1>8. OutputFits(rcv)'
  BY <1>4 DEF ReceiverInv, OutputFits
<1>9. ListsFit(rcv)'
  BY <1>4 DEF ReceiverInv, ListsFit
<1> QED  BY <1>5, <1>6, <1>7, <1>8, <1>9 DEF ReceiverInv

\* The steps that send nothing new.
SenderStays ==
  /\ UNCHANGED <<plan, sendPacketSet, asked, course>>
  /\ snd'.splitPacketId = snd.splitPacketId
  /\ snd'.sendMessageNumberIndex = snd.sendMessageNumberIndex
  /\ Sent' \subseteq Sent

LEMMA SenderCarried ==
  ASSUME SenderTypes, SenderStays
  PROVE  (SenderInv => SenderInv') /\ SettledStays
<1>1. SplitIds => SplitIds'
  BY DEF SenderStays, SplitIds
<1>2. QueuesFit => QueuesFit'
  BY DEF SenderStays, QueuesFit, Fits, FitsIn
<1>3. SentFits => SentFits'
  BY DEF SenderStays, SentFits, Fits, FitsIn, Place
<1>4. SettledStays
  <2>1. Len(asked) \in Nat /\ course.count \in Nat /\ course.splits \in Nat
    BY DEF SenderTypes, Courses
  <2> QED  BY <2>1 DEF SenderStays, SettledStays, SameKey
<1> QED  BY <1>1, <1>2, <1>3, <1>4 DEF SenderInv

-----------------------------------------------------------------------------
(* The steps that send nothing new *)

LEMMA QuietSteps ==
  ASSUME SenderTypes,
         \/ DieOfSilence \/ SendAcks \/ Lose \/ ForgetSplit \/ Mature \/ Tick
         \/ (\E d \in wire : Receive(d)) \/ (\E a \in acksOnWire : ReceiveAcks(a))
         \/ UNCHANGED vars
  PROVE  SenderTypes' /\ SenderStays
<1> DEFINE Kept(q, t) == t \in Seq(ResendEntry)
                         /\ {t[i].msg : i \in DOMAIN t} = {q[i].msg : i \in DOMAIN q}
           SndStays == /\ snd' \in SenderRecord
                       /\ snd'.splitPacketId = snd.splitPacketId
                       /\ snd'.sendMessageNumberIndex = snd.sendMessageNumberIndex
<1>1. CASE DieOfSilence \/ Mature \/ UNCHANGED vars
  <2>1. UNCHANGED <<plan, sendPacketSet, resendQueue, wire, asked, course>>
    BY <1>1 DEF DieOfSilence, Mature, net, vars
  <2>2. SndStays
    BY <1>1 DEF DieOfSilence, Mature, vars, SenderTypes, SenderRecord
  <2> QED  BY <2>1, <2>2 DEF SenderTypes, SenderStays, Sent, SentAgain
<1>2. CASE SendAcks \/ Lose \/ ForgetSplit \/ \E d \in wire : Receive(d)
  <2>1. /\ UNCHANGED <<plan, sendPacketSet, resendQueue, snd, asked, course>>
        /\ wire' \subseteq wire
    BY <1>2 DEF SendAcks, Lose, ForgetSplit, Receive, net
  <2>2. Sent' \subseteq Sent
    BY <2>1 DEF Sent, SentAgain
  <2> QED  BY <2>1, <2>2 DEF SenderTypes, SenderStays
<1>3. CASE Tick
  <2>1. /\ UNCHANGED <<plan, sendPacketSet, wire, asked, course>>
        /\ resendQueue' = [i \in DOMAIN resendQueue |->
              [resendQueue[i] EXCEPT !.wait = IF @ > 0 THEN @ - 1 ELSE @]]
        /\ snd' = [snd EXCEPT !.silence = IF @ # NoSilence /\ @ <= Timeout THEN @ + 1 ELSE @]
    BY <1>3 DEF Tick, net
  <2>2. Kept(resendQueue, resendQueue')
    <3>1. resendQueue \in Seq(ResendEntry)
      BY DEF SenderTypes
    <3>2. \A e \in ResendEntry :
            LET x == [e EXCEPT !.wait = IF @ > 0 THEN @ - 1 ELSE @]
            IN  x \in ResendEntry /\ x.msg = e.msg
      BY DEF ResendEntry
    <3> QED  BY <2>1, <3>1, <3>2
  <2>3. SndStays
    <3>1. snd.silence \in Nat /\ (IF snd.silence # NoSilence /\ snd.silence <= Timeout
                                  THEN snd.silence + 1 ELSE snd.silence) \in Nat
      BY DEF SenderTypes, SenderRecord
    <3> QED  BY <2>1, <3>1 DEF SenderTypes, SenderRecord
  <2> QED  BY <2>1, <2>2, <2>3 DEF SenderTypes, SenderStays, Sent, SentAgain
<1>4. CASE \E a \in acksOnWire : ReceiveAcks(a)
  <2>1. PICK a \in acksOnWire : ReceiveAcks(a)
    BY <1>4
  <2>2. UNCHANGED <<plan, sendPacketSet, wire, asked, course>>
    BY <2>1 DEF ReceiveAcks
  <2>3. resendQueue' = [i \in DOMAIN resendQueue |->
           IF resendQueue[i].msg.num \in a \intersect resendList
           THEN [resendQueue[i] EXCEPT !.wait = Hole] ELSE resendQueue[i]]
    BY <2>1 DEF ReceiveAcks
  <2>4. snd' = [snd EXCEPT !.silence = IF resendList' = {} THEN NoSilence ELSE 1]
    BY <2>1 DEF ReceiveAcks
  <2>5. Kept(resendQueue, resendQueue')
    <3>1. resendQueue \in Seq(ResendEntry)
      BY DEF SenderTypes
    <3>2. \A e \in ResendEntry :
            LET x == [e EXCEPT !.wait = Hole] IN x \in ResendEntry /\ x.msg = e.msg
      BY DEF ResendEntry, Hole
    <3> QED  BY <2>3, <3>1, <3>2
  <2>6. SndStays
    BY <2>4 DEF SenderTypes, SenderRecord, NoSilence
  <2> QED  BY <2>2, <2>5, <2>6 DEF SenderTypes, SenderStays, Sent, SentAgain
<1> QED  BY <1>1, <1>2, <1>3, <1>4

\* A tick makes no missing message a received one.
Aged(q) == [i \in DOMAIN q |-> IF q[i] > Expired /\ GiveUp > 0 THEN q[i] - 1 ELSE q[i]]
Idled(q) == [q EXCEPT !.idle = IF @ <= Timeout THEN @ + 1 ELSE @]

LEMMA TickKeeps ==
  ASSUME NEW r, ReceiverInv(r), course.first \in CircleNumbers,
         \A m \in Sent : m.num \in CircleNumbers
  PROVE  LET w == [r EXCEPT !.hasReceivedPacketQueue = Aged(r.hasReceivedPacketQueue),
                            !.splits = {Idled(q) : q \in r.splits}]
         IN  ReceiverInv(w)
<1> DEFINE q == r.hasReceivedPacketQueue
           t == Aged(q)
           pieces == {Idled(x) : x \in r.splits}
           w == [r EXCEPT !.hasReceivedPacketQueue = t, !.splits = pieces]
<1>1. q \in Seq(Nat) /\ Len(q) \in Nat /\ r.splits \subseteq SplitPiece
  BY DEF ReceiverInv, ReceiverTypes, Receivers
<1>2. t \in Seq(Nat) /\ Len(t) = Len(q) /\ \A i \in 1..Len(q) : t[i] = Got <=> q[i] = Got
  <2>1. \A i \in DOMAIN q : q[i] \in Nat
    BY <1>1
  <2>2. t = [i \in DOMAIN q |-> IF q[i] > Expired /\ GiveUp > 0 THEN q[i] - 1 ELSE q[i]]
    BY DEF Aged
  <2>3. \A i \in DOMAIN q : t[i] \in Nat /\ (t[i] = Got <=> q[i] = Got)
    BY <2>1, <2>2 DEF Expired, Got
  <2> HIDE DEF t
  <2>4. DOMAIN q = 1..Len(q)
    BY <1>1
  <2>5. DOMAIN t = 1..Len(q) /\ t \in [1..Len(q) -> Nat]
    BY <2>2, <2>3, <2>4
  <2>6. t \in Seq(Nat) /\ Len(t) = Len(q)
    BY <2>5, <1>1
  <2> QED  BY <2>3, <2>4, <2>6
<1>3. ASSUME NEW x \in SplitPiece
      PROVE  /\ Idled(x) \in SplitPiece /\ Idled(x).id = x.id /\ Idled(x).idx = x.idx
             /\ Idled(x).cnt = x.cnt /\ Idled(x).sid = x.sid
             /\ \A a : Labelled(x, a) => Labelled(Idled(x), a)
  <2>1. (IF x.idle <= Timeout THEN x.idle + 1 ELSE x.idle) \in Int
    BY DEF SplitPiece
  <2> QED  BY <2>1 DEF SplitPiece, Idled, Labelled
<1>4. pieces \subseteq SplitPiece /\ \A x \in pieces : \E y \in r.splits : x = Idled(y)
  BY <1>1, <1>3
<1> HIDE DEF t, pieces
<1>5. /\ ReceiverTypes(w) /\ w.hasReceivedPacketQueue = t /\ w.splits = pieces
      /\ w.receivedPacketsBaseIndex = r.receivedPacketsBaseIndex
      /\ w.orderingList = r.orderingList /\ w.outputQueue = r.outputQueue
  BY <1>2, <1>4 DEF ReceiverInv, ReceiverTypes, Receivers
<1> HIDE DEF w, q
<1>6. Window(w)
  <2>1. Len(q) > 0 => 1 \in 1..Len(q)
    BY <1>1
  <2> QED  BY <1>2, <1>5, <2>1 DEF ReceiverInv, Window, q
<1>7. ASSUME NEW n \in CircleNumbers, IsReceived(r, n) PROVE IsReceived(w, n)
  <2> DEFINE h == Place(n) - Place(r.receivedPacketsBaseIndex)
  <2>1. h \in Int
    <3>1. r.receivedPacketsBaseIndex \in CircleNumbers
      BY DEF ReceiverInv, ReceiverTypes, Receivers, CircleNumbers
    <3> QED  BY <3>1, PlaceIs
  <2>2. h < 0 \/ (h < Len(q) /\ q[h + 1] = Got)
    BY <1>7 DEF IsReceived, q
  <2> HIDE DEF h
  <2>3. h < 0 \/ (h < Len(t) /\ t[h + 1] = Got)
    <3>1. h >= 0 /\ h < Len(q) => h + 1 \in 1..Len(q)
      BY <2>1, <1>1
    <3> QED  BY <3>1, <2>1, <2>2, <1>2
  <2> QED  BY <2>3, <1>5 DEF IsReceived, h
<1>8. \A id, k : Settled(r, id, k) => Settled(w, id, k)
  BY <1>7, SettledKept DEF Keeps
<1>9. \A e : IsWhole(r, e) => IsWhole(w, e)
  BY <1>8 DEF IsWhole
<1>10. SplitsFit(w)
  <2>1. ASSUME NEW x \in pieces
        PROVE  /\ x.id \in 1..Len(asked) /\ x.idx < asked[x.id].cnt
               /\ x.cnt = asked[x.id].cnt /\ x.sid = asked[x.id].sid
               /\ Labelled(x, asked[x.id]) /\ Settled(w, x.id, x.idx)
    BY <1>1, <1>3, <1>4, <1>8 DEF ReceiverInv, SplitsFit
  <2>2. ASSUME NEW x \in pieces, NEW y \in pieces, SameKey(x, y) PROVE x = y
    BY <2>2, <1>1, <1>3, <1>4 DEF SameKey, ReceiverInv, SplitsFit
  <2> QED  BY <2>1, <2>2, <1>5 DEF SplitsFit
<1>11. OutputFits(w) /\ ListsFit(w)
  BY <1>5, <1>9 DEF ReceiverInv, OutputFits, ListsFit
<1>12. ReceiverInv(w)
  BY <1>5, <1>6, <1>10, <1>11 DEF ReceiverInv
<1> QED  BY <1>12 DEF w, pieces, t, q

LEMMA QuietReceiver ==
  ASSUME SenderTypes, SenderInv, NotRound, ReceiverInv(rcv),
         \/ DieOfSilence \/ SendAcks \/ Lose \/ ForgetSplit \/ Mature \/ Tick
         \/ (\E d \in wire : Receive(d)) \/ (\E a \in acksOnWire : ReceiveAcks(a))
         \/ UNCHANGED vars
  PROVE  \E r : ReceiverInv(r) /\ rcv' = r
<1>1. CASE \/ DieOfSilence \/ Lose \/ Mature \/ UNCHANGED vars
           \/ \E a \in acksOnWire : ReceiveAcks(a)
  BY <1>1 DEF DieOfSilence, Lose, Mature, ReceiveAcks, vars
<1>2. CASE SendAcks
  <2> DEFINE w == [rcv EXCEPT !.acknowlegements = {}]
  <2>1. /\ ReceiverTypes(w) /\ SameWindow(rcv, w) /\ SameRest(rcv, w)
    BY DEF ReceiverInv, ReceiverTypes, Receivers, SameWindow, SameRest
  <2>2. rcv' = w
    BY <1>2 DEF SendAcks
  <2> HIDE DEF w
  <2>3. ReceiverInv(w)
    BY <2>1, SameSettled DEF ReceiverInv, SplitsFit, OutputFits, ListsFit, SameRest
  <2> QED  BY <2>2, <2>3
<1>3. CASE ForgetSplit
  <2>1. PICK sid : rcv' = WithoutSplit(rcv, sid)
    BY <1>3 DEF ForgetSplit
  <2>2. ReceiverInv(WithoutSplit(rcv, sid))
    BY WithoutSplitKeeps, SameSettled DEF ReceiverInv, Content
  <2> QED  BY <2>1, <2>2
<1>4. CASE \E d \in wire : Receive(d)
  BY <1>4, HandleAllKeeps DEF Receive
<1>5. CASE Tick
  <2>1. rcv' = [rcv EXCEPT !.hasReceivedPacketQueue = Aged(rcv.hasReceivedPacketQueue),
                           !.splits = {Idled(q) : q \in rcv.splits}]
    BY <1>5 DEF Tick, Aged, Idled
  <2>2. course.first \in CircleNumbers /\ \A m \in Sent : m.num \in CircleNumbers
    BY SenderFacts DEF Course, Courses, CircleNumbers
  <2> QED  BY <2>1, <2>2, TickKeeps
<1> QED  BY <1>1, <1>2, <1>3, <1>4, <1>5

-----------------------------------------------------------------------------
(* Send *)

\* The pieces a message is cut into, or the message itself.
Parcels(p) == IF p.size > Whole THEN Pieces(p) ELSE <<p>>

LEMMA ParcelsAre ==
  ASSUME SenderTypes, NEW p \in Message, p.size \in Nat \ {0}, p.cnt = 0, p.idx = 0
  PROVE  /\ Parcels(p) \in Seq(Message) /\ Len(Parcels(p)) \in Nat \ {0}
         /\ p.size > Whole => Pieces(p) = Parcels(p)
         /\ \A i \in 1..Len(Parcels(p)) :
              LET m == Parcels(p)[i] IN
              /\ m.id = p.id /\ m.rel = p.rel /\ m.ch = p.ch /\ m.ord = p.ord /\ m.idx = i - 1
              /\ IF p.size > Whole THEN m.cnt = Len(Parcels(p)) /\ m.sid = snd.splitPacketId
                 ELSE m.cnt = 0 /\ Len(Parcels(p)) = 1
<1>1. CASE ~(p.size > Whole)
  BY <1>1 DEF Parcels
<1>2. CASE p.size > Whole
  <2> DEFINE n == (p.size - 1) \div Piece + 1
             last == p.size - (n - 1) * Piece
             piece(i) == [p EXCEPT !.sid = snd.splitPacketId, !.idx = i - 1, !.cnt = n,
                                   !.size = IF i < n THEN Piece ELSE last]
             t == [i \in 1..n |-> piece(i)]
  <2>1. n \in Nat \ {0} /\ Piece \in Nat
    <3>1. Piece \in Nat \ {0} /\ p.size - 1 \in Nat
      BY ReliabilityAssumption
    <3> QED  BY <3>1
  <2>2. Parcels(p) = t /\ Pieces(p) = t
    BY <1>2 DEF Parcels, Pieces
  <2>3. last \in Int
    BY <2>1
  <2>4. snd.splitPacketId \in 0..(SplitMod - 1)
    BY DEF SenderTypes, SenderRecord
  <2> HIDE DEF n, last
  <2>5. ASSUME NEW i \in 1..n
        PROVE  /\ piece(i) \in Message
               /\ piece(i).id = p.id /\ piece(i).rel = p.rel /\ piece(i).ch = p.ch
               /\ piece(i).ord = p.ord
               /\ piece(i).idx = i - 1 /\ piece(i).cnt = n /\ piece(i).sid = snd.splitPacketId
    <3>1. i - 1 \in Nat /\ (IF i < n THEN Piece ELSE last) \in Int
      BY <2>1, <2>3
    <3> QED  BY <3>1, <2>1, <2>4 DEF Message
  <2> HIDE DEF piece
  <2>6. t \in Seq(Message) /\ Len(t) = n /\ \A i \in 1..n : t[i] = piece(i)
    BY <2>1, <2>5
  <2> HIDE DEF t
  <2> QED  BY <1>2, <2>1, <2>2, <2>5, <2>6
<1> QED  BY <1>1, <1>2

\* What Send adds to the queues: all pieces of the message, behind what waits.
Enqueues ==
  /\ Len(asked') = Len(asked) + 1
  /\ \A q \in Priorities : \A i \in 1..Len(sendPacketSet[q]) :
       i \in 1..Len(sendPacketSet'[q]) /\ sendPacketSet'[q][i] = sendPacketSet[q][i]
  /\ \A k \in 0..(asked'[Len(asked')].cnt - 1) :
       \E q \in Priorities : \E i \in 1..Len(sendPacketSet'[q]) :
         sendPacketSet'[q][i].id = Len(asked') /\ sendPacketSet'[q][i].idx = k

LEMMA SendStep ==
  ASSUME SenderTypes, NEW m \in Menu, Send(m)
  PROVE  /\ SenderTypes' /\ SettledStays /\ Enqueues /\ rcv' = rcv
         /\ SenderInv /\ NotRound' => SenderInv'
<1> DEFINE n == Len(asked)
           id == n + 1
           p == Packet(m, id)
           new == Parcels(p)
           rec == [rel |-> m.rel, as |-> p.rel, ch |-> m.ch, ord |-> p.ord, cnt |-> Len(new),
                   sid |-> IF p.size > Whole THEN snd.splitPacketId ELSE Unsplit]
           old == sendPacketSet[m.pri]
<1>1. /\ m.pri \in Priorities /\ m.ch \in Channels /\ m.rel \in Reliability /\ m.size \in Nat \ {0}
      /\ plan.sends \in 0..MaxSends /\ MaxSends \in Nat
      /\ SplitMod \in Nat \ {0} /\ OrdMod \in Nat \ {0}
  BY ReliabilityAssumption DEF SenderTypes, Menu, Reliability
<1>2. /\ asked \in Seq(AskedRecord) /\ n \in Nat /\ snd \in SenderRecord
      /\ sendPacketSet \in [Priorities -> Seq(Message)] /\ old \in Seq(Message)
      /\ course \in Courses
  BY <1>1 DEF SenderTypes
<1>3. /\ id <= plan.sends
      /\ UNCHANGED <<plan, resendQueue, rcv, wire>>
      /\ course' = [course EXCEPT !.splits = IF m.size > Whole THEN @ + 1 ELSE @]
  BY DEF Send, net
<1>4. id \in Ids /\ id \in Nat
  BY <1>1, <1>2, <1>3 DEF Ids
<1>5. p \in Message /\ p.size = m.size /\ p.cnt = 0 /\ p.idx = 0 /\ p.id = id /\ p.ch = m.ch
      /\ p.rel \in Reliability /\ p.ord \in Orders /\ p.ord = IndexFor(p.rel, m.ch)
  <2>1. Upgraded(m.rel) \in Reliability
    BY <1>1 DEF Upgraded, Reliability, Reliable, Unreliable
  <2> DEFINE rel == Upgraded(m.rel)
  <2> HIDE DEF rel
  <2>2. IndexFor(rel, m.ch) \in Orders
    <3>1. snd.seqWrite[m.ch] \in Orders /\ snd.ordWrite[m.ch] \in Orders /\ 0 \in Orders
      BY <1>1, <1>2 DEF SenderRecord, Orders
    <3> QED  BY <3>1 DEF IndexFor
  <2>3. p = [id |-> id, rel |-> rel, ch |-> m.ch, ord |-> IndexFor(rel, m.ch),
             size |-> m.size, sid |-> 0, idx |-> 0, cnt |-> 0, num |-> -1]
    BY DEF Packet, rel
  <2>4. 0 \in 0..(SplitMod - 1) /\ -1 \in Int /\ rel \in Reliability
    BY <1>1, <2>1 DEF rel
  <2> HIDE DEF p
  <2> QED  BY <2>2, <2>3, <2>4, <1>1, <1>4 DEF Message
<1>6. /\ sendPacketSet' = [sendPacketSet EXCEPT ![m.pri] = old \o new]
      /\ snd' = [snd EXCEPT
            !.splitPacketId = NextSplitId(p),
            !.seqWrite[m.ch] = IF p.rel \in Sequenced THEN (@ + 1) % OrdMod ELSE @,
            !.ordWrite[m.ch] = IF p.rel = "RELIABLE_ORDERED" THEN (@ + 1) % OrdMod ELSE @]
      /\ asked' = Append(asked, [rel |-> m.rel, as |-> p.rel, ch |-> m.ch, ord |-> p.ord,
                                 cnt |-> IF m.size > Whole THEN Len(Pieces(p)) ELSE 1,
                                 sid |-> IF m.size > Whole THEN snd.splitPacketId ELSE Unsplit])
  BY <1>5 DEF Send, Parcels
<1> HIDE DEF p
<1>7. /\ new \in Seq(Message) /\ Len(new) \in Nat \ {0}
      /\ p.size > Whole => Pieces(p) = new
      /\ \A i \in 1..Len(new) :
           /\ new[i].id = id /\ new[i].rel = p.rel /\ new[i].ch = m.ch /\ new[i].ord = p.ord
           /\ new[i].idx = i - 1
           /\ IF p.size > Whole THEN new[i].cnt = Len(new) /\ new[i].sid = snd.splitPacketId
              ELSE new[i].cnt = 0 /\ Len(new) = 1
  <2>1. p.size \in Nat \ {0}
    BY <1>1, <1>5
  <2> QED  BY <2>1, <1>5, ParcelsAre
<1>8. ~(p.size > Whole) => Len(new) = 1
  BY <1>7
<1> HIDE DEF new
<1>9. asked' = Append(asked, rec)
  BY <1>5, <1>6, <1>7, <1>8
<1>10. rec \in AskedRecord
  BY <1>1, <1>2, <1>5, <1>7 DEF AskedRecord, SenderRecord
<1>11. rec.as = p.rel /\ rec.ch = m.ch /\ rec.ord = p.ord /\ rec.cnt = Len(new)
       /\ rec.sid = IF p.size > Whole THEN snd.splitPacketId ELSE Unsplit
  OBVIOUS
<1> HIDE DEF rec, old
<1>12. /\ asked' \in Seq(AskedRecord) /\ Len(asked') = id
       /\ \A i \in 1..n : asked'[i] = asked[i]
       /\ asked'[id] = rec
  BY <1>2, <1>9, <1>10, AppendProperties
<1>13. \A x \in Orders : (x + 1) % OrdMod \in Orders
  BY <1>1 DEF Orders
<1>14. snd' \in SenderRecord /\ snd'.splitPacketId = NextSplitId(p)
       /\ snd'.sendMessageNumberIndex = snd.sendMessageNumberIndex
  <2> DEFINE seqs == [snd.seqWrite EXCEPT ![m.ch] = IF p.rel \in Sequenced THEN (@ + 1) % OrdMod ELSE @]
             ords == [snd.ordWrite EXCEPT ![m.ch] =
                        IF p.rel = "RELIABLE_ORDERED" THEN (@ + 1) % OrdMod ELSE @]
  <2>1. snd' = [snd EXCEPT !.splitPacketId = NextSplitId(p), !.seqWrite = seqs, !.ordWrite = ords]
    BY <1>6
  <2>2. snd.seqWrite \in [Channels -> Orders] /\ snd.ordWrite \in [Channels -> Orders]
    BY <1>2 DEF SenderRecord
  <2>3. seqs \in [Channels -> Orders] /\ ords \in [Channels -> Orders]
    BY <1>1, <1>13, <2>2
  <2>4. NextSplitId(p) \in 0..(SplitMod - 1)
    <3>1. snd.splitPacketId \in 0..(SplitMod - 1)
      BY <1>2 DEF SenderRecord
    <3> QED  BY <3>1, <1>1 DEF NextSplitId
  <2> HIDE DEF seqs, ords
  <2> QED  BY <2>1, <2>3, <2>4, <1>2 DEF SenderRecord
<1> DEFINE more == old \o new
<1>15. /\ more \in Seq(Message) /\ Len(more) = Len(old) + Len(new)
       /\ Len(old) \in Nat /\ Len(new) \in Nat
       /\ \A i \in 1..Len(more) : \/ i \in 1..Len(old) /\ more[i] = old[i]
                                  \/ i - Len(old) \in 1..Len(new) /\ more[i] = new[i - Len(old)]
       /\ \A i \in 1..Len(old) : i \in 1..Len(more) /\ more[i] = old[i]
       /\ \A j \in 1..Len(new) : Len(old) + j \in 1..Len(more) /\ more[Len(old) + j] = new[j]
  <2>1. /\ more \in Seq(Message) /\ Len(more) = Len(old) + Len(new)
        /\ \A i \in 1..(Len(old) + Len(new)) :
             more[i] = IF i <= Len(old) THEN old[i] ELSE new[i - Len(old)]
    BY <1>2, <1>7, ConcatProperties DEF old
  <2>2. Len(old) \in Nat /\ Len(new) \in Nat
    BY <1>2, <1>7 DEF old
  <2> HIDE DEF more
  <2>3. ASSUME NEW i \in 1..Len(more)
        PROVE  \/ i \in 1..Len(old) /\ more[i] = old[i]
               \/ i - Len(old) \in 1..Len(new) /\ more[i] = new[i - Len(old)]
    <3>1. CASE i <= Len(old)
      BY <3>1, <2>1, <2>2
    <3>2. CASE ~(i <= Len(old))
      BY <3>2, <2>1, <2>2
    <3> QED  BY <3>1, <3>2
  <2>4. ASSUME NEW i \in 1..Len(old) PROVE i \in 1..Len(more) /\ more[i] = old[i]
    BY <2>1, <2>2
  <2>5. ASSUME NEW j \in 1..Len(new)
        PROVE  Len(old) + j \in 1..Len(more) /\ more[Len(old) + j] = new[j]
    <3> DEFINE i == Len(old) + j
    <3>1. i \in 1..(Len(old) + Len(new)) /\ ~(i <= Len(old)) /\ i - Len(old) = j
      BY <2>2
    <3> HIDE DEF i
    <3>2. i \in 1..Len(more) /\ more[i] = new[j]
      BY <2>1, <3>1
    <3> QED  BY <3>2 DEF i
  <2> QED  BY <2>1, <2>2, <2>3, <2>4, <2>5
<1> HIDE DEF more
<1>16. sendPacketSet' \in [Priorities -> Seq(Message)] /\ sendPacketSet'[m.pri] = more
       /\ \A q \in Priorities : q # m.pri => sendPacketSet'[q] = sendPacketSet[q]
  BY <1>1, <1>2, <1>6, <1>15 DEF more
<1>17. \A q \in Priorities : \A i \in 1..Len(sendPacketSet'[q]) :
         \/ i \in 1..Len(sendPacketSet[q]) /\ sendPacketSet'[q][i] = sendPacketSet[q][i]
         \/ /\ q = m.pri /\ i - Len(old) \in 1..Len(new)
            /\ sendPacketSet'[q][i] = new[i - Len(old)]
  BY <1>15, <1>16 DEF old
<1>18. /\ course' \in Courses /\ course'.first = course.first /\ course'.count = course.count
       /\ course'.splits = IF p.size > Whole THEN course.splits + 1 ELSE course.splits
       /\ course.splits \in Nat /\ course.count \in Nat /\ course.count <= course'.count
       /\ course.splits <= course'.splits
  BY <1>2, <1>3, <1>5 DEF Courses
<1>19. SenderTypes'
  BY <1>2, <1>3, <1>12, <1>14, <1>16, <1>18 DEF SenderTypes
<1>20. Sent' = Sent
  BY <1>3 DEF Sent, SentAgain
<1>21. SettledStays
  <2>1. course'.first = course.first /\ course.count <= course'.count /\ course.splits <= course'.splits
    BY <1>18
  <2>2. n <= Len(asked')
    BY <1>2, <1>12
  <2>3. ASSUME NEW q \in Priorities, NEW i \in 1..Len(sendPacketSet'[q])
        PROVE  \/ sendPacketSet'[q][i].id > n
               \/ \E o \in Priorities : \E j \in 1..Len(sendPacketSet[o]) :
                    SameKey(sendPacketSet'[q][i], sendPacketSet[o][j])
    <3>1. id > n
      BY <1>2
    <3>2. CASE i \in 1..Len(sendPacketSet[q]) /\ sendPacketSet'[q][i] = sendPacketSet[q][i]
      BY <3>2 DEF SameKey
    <3>3. CASE i - Len(old) \in 1..Len(new) /\ sendPacketSet'[q][i] = new[i - Len(old)]
      BY <3>1, <3>3, <1>7
    <3> QED  BY <3>2, <3>3, <1>17
  <2> QED  BY <2>1, <2>2, <2>3, <1>3, <1>12, <1>20 DEF SettledStays
<1>22. ASSUME SenderInv, NotRound' PROVE SenderInv'
  <2> DEFINE s == snd.splitPacketId
  <2>1. /\ s \in Nat /\ s <= course.splits /\ course'.splits < SplitMod
        /\ \A i \in 1..n : asked[i].sid < s /\ asked[i].sid \in Int
    <3>1. \A i \in 1..n : asked[i] \in AskedRecord
      BY <1>2
    <3>2. \A i \in 1..n : asked[i].sid \in Int
      BY <3>1, <1>1 DEF AskedRecord, Unsplit
    <3> QED  BY <3>2, <1>2, <1>22 DEF NotRound, SenderInv, SplitIds, SenderRecord
  <2>2. snd'.splitPacketId = IF p.size > Whole THEN s + 1 ELSE s
    <3>1. p.size > Whole => s + 1 \in 0..(SplitMod - 1)
      BY <2>1, <1>1, <1>18
    <3>2. p.size > Whole => (s + 1) % SplitMod = s + 1
      BY <3>1, <1>1
    <3> QED  BY <3>2, <1>14 DEF NextSplitId
  <2> HIDE DEF s
  <2>3. \A i \in 1..Len(asked') : (i \in 1..n /\ asked'[i] = asked[i]) \/ (i = id /\ asked'[i] = rec)
    BY <1>2, <1>12
  <2>4. SplitIds'
    <3>1. snd'.splitPacketId <= course'.splits
      BY <2>1, <2>2, <1>18
    <3>2. ASSUME NEW i \in 1..Len(asked') PROVE asked'[i].sid < snd'.splitPacketId
      <4>1. CASE i \in 1..n /\ asked'[i] = asked[i]
        BY <4>1, <2>1, <2>2
      <4>2. CASE asked'[i] = rec
        BY <4>2, <2>1, <2>2, <1>11 DEF Unsplit, s
      <4> QED  BY <4>1, <4>2, <2>3
    <3>3. ASSUME NEW i \in 1..Len(asked'), NEW j \in 1..Len(asked'), i # j,
                 asked'[i].sid # Unsplit
          PROVE  asked'[i].sid # asked'[j].sid
      <4>1. CASE i \in 1..n /\ j \in 1..n
        BY <4>1, <3>3, <1>12, <1>22 DEF SenderInv, SplitIds
      <4>2. CASE i \in 1..n /\ asked'[i] = asked[i] /\ asked'[j] = rec
        BY <4>2, <3>3, <2>1, <1>11 DEF s
      <4>3. CASE j \in 1..n /\ asked'[j] = asked[j] /\ asked'[i] = rec
        BY <4>3, <3>3, <2>1, <1>11 DEF s
      <4> QED  BY <4>1, <4>2, <4>3, <3>3, <2>3
    <3> QED  BY <3>1, <3>2, <3>3 DEF SplitIds
  <2>5. ASSUME NEW x, Fits(x) PROVE FitsIn(asked', x) /\ ~(x.id = id)
    <3>1. x.id \in 1..n /\ x.id \in 1..Len(asked') /\ asked'[x.id] = asked[x.id] /\ x.id # id
      BY <2>5, <1>2, <1>12 DEF Fits, FitsIn
    <3> QED  BY <3>1, <2>5 DEF Fits, FitsIn
  <2>6. ASSUME NEW i \in 1..Len(new) PROVE FitsIn(asked', new[i]) /\ new[i].id = id
    <3>1. /\ new[i].id = id /\ new[i].rel = p.rel /\ new[i].ch = m.ch /\ new[i].ord = p.ord
           /\ new[i].idx = i - 1
          /\ IF p.size > Whole THEN new[i].cnt = Len(new) /\ new[i].sid = snd.splitPacketId
             ELSE new[i].cnt = 0 /\ Len(new) = 1
      BY <1>7
    <3>2. id \in 1..Len(asked') /\ asked'[id] = rec /\ i - 1 < Len(new)
      BY <1>2, <1>7, <1>12
    <3>3. rec.cnt = Len(new) /\ rec.as = p.rel /\ rec.ch = m.ch /\ rec.ord = p.ord
          /\ (p.size > Whole => rec.sid = snd.splitPacketId) /\ Len(new) # 0
      BY <1>7, <1>11
    <3> QED  BY <3>1, <3>2, <3>3 DEF FitsIn, Labelled
  <2>7. QueuesFit'
    <3>1. ASSUME NEW q \in Priorities, NEW i \in 1..Len(sendPacketSet'[q])
          PROVE  /\ FitsIn(asked', sendPacketSet'[q][i])
                 /\ \A x \in Sent : ~SameKey(x, sendPacketSet'[q][i])
      <4>1. CASE i \in 1..Len(sendPacketSet[q]) /\ sendPacketSet'[q][i] = sendPacketSet[q][i]
        BY <4>1, <2>5, <1>22 DEF SenderInv, QueuesFit
      <4>2. CASE i - Len(old) \in 1..Len(new) /\ sendPacketSet'[q][i] = new[i - Len(old)]
        BY <4>2, <2>5, <2>6, <1>22 DEF SenderInv, SentFits, SameKey
      <4> QED  BY <4>1, <4>2, <1>17
    <3>2. ASSUME NEW q \in Priorities, NEW o \in Priorities,
                 NEW i \in 1..Len(sendPacketSet'[q]), NEW j \in 1..Len(sendPacketSet'[o]),
                 SameKey(sendPacketSet'[q][i], sendPacketSet'[o][j])
          PROVE  q = o /\ i = j
      <4> DEFINE Was(a, k) == k \in 1..Len(sendPacketSet[a]) /\ sendPacketSet'[a][k] = sendPacketSet[a][k]
                 Came(a, k) == a = m.pri /\ k - Len(old) \in 1..Len(new)
                               /\ sendPacketSet'[a][k] = new[k - Len(old)]
      <4>1. (Was(q, i) \/ Came(q, i)) /\ (Was(o, j) \/ Came(o, j))
        BY <1>17
      <4>2. CASE Was(q, i) /\ Was(o, j)
        BY <4>2, <3>2, <1>22 DEF SenderInv, QueuesFit
      <4>3. \A a \in Priorities : \A k : Was(a, k) => sendPacketSet'[a][k].id # id
        BY <2>5, <1>22 DEF SenderInv, QueuesFit
      <4>4. \A a, k : Came(a, k) => sendPacketSet'[a][k].id = id
        BY <2>6
      <4>5. CASE Came(q, i) /\ Came(o, j)
        <5>1. i - Len(old) - 1 = j - Len(old) - 1
          BY <4>5, <3>2, <1>7 DEF SameKey
        <5>2. i \in Int /\ j \in Int
          BY <1>15, <1>16
        <5> QED  BY <5>1, <5>2, <4>5, <1>15
      <4> QED  BY <4>1, <4>2, <4>3, <4>4, <4>5, <3>2 DEF SameKey
    <3> QED  BY <3>1, <3>2, <1>20 DEF QueuesFit, Fits
  <2>8. SentFits'
    BY <2>5, <1>14, <1>20, <1>22, <1>18 DEF SenderInv, SentFits, Place, Fits
  <2> QED  BY <2>4, <2>7, <2>8 DEF SenderInv
<1>23. Enqueues
  <2>1. ASSUME NEW q \in Priorities, NEW i \in 1..Len(sendPacketSet[q])
        PROVE  i \in 1..Len(sendPacketSet'[q]) /\ sendPacketSet'[q][i] = sendPacketSet[q][i]
    BY <1>15, <1>16 DEF old
  <2>2. ASSUME NEW k \in 0..(Len(new) - 1)
        PROVE  \E i \in 1..Len(more) : more[i].id = id /\ more[i].idx = k
    <3>1. PICK j \in 1..Len(new) : j - 1 = k
      <4>1. k + 1 \in 1..Len(new) /\ (k + 1) - 1 = k
        BY <1>15
      <4> QED  BY <4>1
    <3>2. new[j].id = id /\ new[j].idx = k
      BY <3>1, <1>7
    <3>3. Len(old) + j \in 1..Len(more) /\ more[Len(old) + j] = new[j]
      BY <1>15
    <3> QED  BY <3>2, <3>3
  <2>3. asked'[Len(asked')].cnt = Len(new)
    BY <1>11, <1>12
  <2>4. ASSUME NEW k \in 0..(asked'[Len(asked')].cnt - 1)
        PROVE  \E q \in Priorities : \E i \in 1..Len(sendPacketSet'[q]) :
                 sendPacketSet'[q][i].id = Len(asked') /\ sendPacketSet'[q][i].idx = k
    <3>1. \E i \in 1..Len(more) : more[i].id = id /\ more[i].idx = k
      BY <2>2, <2>3
    <3> QED  BY <3>1, <1>1, <1>12, <1>16
  <2> QED  BY <2>1, <2>4, <1>12 DEF Enqueues
<1> QED  BY <1>3, <1>19, <1>21, <1>22, <1>23
-----------------------------------------------------------------------------
(* GenerateDatagram *)

LEMMA CutInTwo ==
  ASSUME NEW S, NEW s \in Seq(S), NEW n \in 0..Len(s)
  PROVE  /\ SubSeq(s, 1, n) \in Seq(S) /\ Len(SubSeq(s, 1, n)) = n
         /\ \A i \in 1..n : SubSeq(s, 1, n)[i] = s[i]
         /\ SubSeq(s, n + 1, Len(s)) \in Seq(S) /\ Len(SubSeq(s, n + 1, Len(s))) = Len(s) - n
         /\ \A i \in 1..(Len(s) - n) : SubSeq(s, n + 1, Len(s))[i] = s[n + i]
<1>1. Len(s) \in Nat /\ n \in Nat /\ n <= Len(s)
  OBVIOUS
<1>2. \A i \in 1..Len(s) : s[i] \in S
  BY ElementOfSeq
<1>3. \A i \in 1..n : s[i] \in S
  BY <1>1, <1>2
<1>4. /\ SubSeq(s, 1, n) \in Seq(S)
      /\ Len(SubSeq(s, 1, n)) = IF 1 <= n THEN n - 1 + 1 ELSE 0
      /\ \A i \in 1..(n - 1 + 1) : SubSeq(s, 1, n)[i] = s[1 + i - 1]
  BY <1>1, <1>3, SubSeqProperties
<1>5. \A i \in (n + 1)..Len(s) : s[i] \in S
  BY <1>1, <1>2
<1>6. n + 1 \in Int /\ Len(s) \in Int
  BY <1>1
<1>7. /\ SubSeq(s, n + 1, Len(s)) \in Seq(S)
      /\ Len(SubSeq(s, n + 1, Len(s))) = IF n + 1 <= Len(s) THEN Len(s) - (n + 1) + 1 ELSE 0
      /\ \A i \in 1..(Len(s) - (n + 1) + 1) : SubSeq(s, n + 1, Len(s))[i] = s[n + 1 + i - 1]
  BY <1>5, <1>6, SubSeqProperties
<1>8. n - 1 + 1 = n /\ Len(s) - (n + 1) + 1 = Len(s) - n
  BY <1>1
<1>9. \A i \in Int : 1 + i - 1 = i /\ n + 1 + i - 1 = n + i
  BY <1>1
<1>10. Len(SubSeq(s, 1, n)) = n /\ \A i \in 1..n : SubSeq(s, 1, n)[i] = s[i]
  <2>1. \A i \in 1..n : i \in Int
    OBVIOUS
  <2> QED  BY <2>1, <1>1, <1>4, <1>8, <1>9
<1>11. /\ Len(SubSeq(s, n + 1, Len(s))) = Len(s) - n
       /\ \A i \in 1..(Len(s) - n) : SubSeq(s, n + 1, Len(s))[i] = s[n + i]
  <2> DEFINE t == SubSeq(s, n + 1, Len(s))  l == Len(s)
  <2>1. /\ Len(t) = IF n + 1 <= l THEN l - (n + 1) + 1 ELSE 0
        /\ \A i \in 1..(l - (n + 1) + 1) : t[i] = s[n + 1 + i - 1]
    BY <1>7
  <2>2. l \in Nat /\ n \in Nat /\ n <= l /\ l - (n + 1) + 1 = l - n
    BY <1>1, <1>8
  <2> HIDE DEF t, l
  <2>3. Len(t) = l - n
    BY <2>1, <2>2
  <2>4. ASSUME NEW i \in 1..(l - n) PROVE t[i] = s[n + i]
    <3>1. i \in Int /\ n + 1 + i - 1 = n + i
      BY <2>2
    <3>2. t[i] = s[n + 1 + i - 1]
      BY <2>1, <2>2
    <3> QED  BY <3>1, <3>2
  <2> QED  BY <2>3, <2>4 DEF t, l
<1> QED  BY <1>4, <1>7, <1>10, <1>11

LEMMA FittingIs ==
  ASSUME NEW S, NEW q \in Seq(S), NEW room
  PROVE  Fitting(q, room) \in 0..Len(q)
<1> DEFINE T == {k \in 0..Len(q) : k > 0 => Load(SubSeq(q, 1, k)) <= room}
<1>1. Len(q) \in Nat /\ T \in SUBSET (0..Len(q)) /\ 0 \in T
  OBVIOUS
<1>2. Fitting(q, room) = Max(T)
  BY DEF Fitting
<1> HIDE DEF T
<1> QED  BY <1>1, <1>2, MaxIsIn

\* No more is taken off a queue than it holds.
LEMMA TakenIs ==
  ASSUME SenderTypes
  PROVE  /\ Resent \in 0..Len(resendQueue)
         /\ \A p \in Priorities : Taken[p] \in 0..Len(sendPacketSet[p])
<1>1. Resent \in 0..Len(resendQueue)
  <2> DEFINE n == Len(resendQueue)
             T == {k \in 0..n :
                     k > 0 => /\ \A i \in 1..k : IsHole(resendQueue[i]) \/ IsDue(resendQueue[i])
                              /\ Load(DueAmong(k)) <= Room}
  <2>1. n \in Nat /\ T \in SUBSET (0..n) /\ 0 \in T
    BY DEF SenderTypes
  <2>2. Resent = Max(T)
    BY DEF Resent
  <2> HIDE DEF T
  <2> QED  BY <2>1, <2>2, MaxIsIn
<1>2. \A p \in Priorities : sendPacketSet[p] \in Seq(Message) /\ Len(sendPacketSet[p]) \in Nat
  BY DEF SenderTypes
<1>3. \A p \in Priorities : \A room : Fitting(sendPacketSet[p], room) \in 0..Len(sendPacketSet[p])
  BY <1>2, FittingIs
<1>4. PICK a, b, c, d :
        Taken = IF ResendBlocked THEN <<0, 0, 0, 0>>
                ELSE <<Fitting(sendPacketSet[1], a), Fitting(sendPacketSet[2], b),
                       Fitting(sendPacketSet[3], c), Fitting(sendPacketSet[4], d)>>
  BY DEF Taken
<1>5. ASSUME NEW p \in Priorities PROVE Taken[p] \in 0..Len(sendPacketSet[p])
  <2>1. p \in {1, 2, 3, 4} /\ {1, 2, 3, 4} \subseteq Priorities
    BY DEF Priorities
  <2>2. CASE ResendBlocked
    BY <2>1, <2>2, <1>2, <1>4
  <2>3. CASE ~ResendBlocked
    <3> DEFINE f1 == Fitting(sendPacketSet[1], a)  f2 == Fitting(sendPacketSet[2], b)
               f3 == Fitting(sendPacketSet[3], c)  f4 == Fitting(sendPacketSet[4], d)
    <3>1. f1 \in 0..Len(sendPacketSet[1]) /\ f2 \in 0..Len(sendPacketSet[2])
          /\ f3 \in 0..Len(sendPacketSet[3]) /\ f4 \in 0..Len(sendPacketSet[4])
      BY <2>1, <1>3
    <3>2. Taken = <<f1, f2, f3, f4>>
      BY <2>3, <1>4
    <3> HIDE DEF f1, f2, f3, f4
    <3> QED  BY <2>1, <3>1, <3>2
  <2> QED  BY <2>2, <2>3
<1> QED  BY <1>1, <1>5

\* What goes out once more was sent before.
LEMMA AgainIs ==
  ASSUME SenderTypes
  PROVE  Again \in Seq(Message) /\ \A i \in 1..Len(Again) : Again[i] \in SentAgain
<1> DEFINE places == {i \in 1..Resent : IsDue(resendQueue[i])}
           t == Picked(resendQueue, places)
<1>1. resendQueue \in Seq(ResendEntry) /\ DOMAIN resendQueue = 1..Len(resendQueue)
  BY DEF SenderTypes
<1>2. /\ t \in Seq(ResendEntry)
      /\ \A i \in 1..Len(t) : \E j \in 1..Len(resendQueue) : t[i] = resendQueue[j]
  <2> HIDE DEF places
  <2>1. \A i \in 1..Len(t) : \E j \in 1..Len(resendQueue) : j \in places /\ t[i] = resendQueue[j]
    BY <1>1, PickedFrom
  <2>2. t \in Seq(ResendEntry)
    BY <1>1, PickedFrom
  <2> QED  BY <2>1, <2>2
<1>3. Again = [i \in DOMAIN t |-> t[i].msg]
  BY DEF Again, DueAmong, Messages
<1> HIDE DEF t
<1>4. Len(t) \in Nat /\ DOMAIN t = 1..Len(t) /\ \A i \in 1..Len(t) : t[i].msg \in Message
  <2>1. \A i \in 1..Len(t) : t[i] \in ResendEntry
    BY <1>2, ElementOfSeq
  <2>2. Len(t) \in Nat /\ DOMAIN t = 1..Len(t)
    BY <1>2
  <2> QED  BY <2>1, <2>2 DEF ResendEntry
<1>5. Again \in Seq(Message) /\ Len(Again) = Len(t) /\ \A i \in 1..Len(t) : Again[i] = t[i].msg
  BY <1>3, <1>4
<1>6. \A i \in 1..Len(t) : t[i].msg \in SentAgain
  BY <1>1, <1>2 DEF SentAgain
<1> QED  BY <1>5, <1>6

NoTwo(s) == \A i, j \in 1..Len(s) : SameKey(s[i], s[j]) => i = j
Apart(s, t) == \A i \in 1..Len(s), j \in 1..Len(t) : ~SameKey(s[i], t[j])

LEMMA Joined ==
  ASSUME NEW s \in Seq(Message), NEW t \in Seq(Message)
  PROVE  /\ s \o t \in Seq(Message)
         /\ \A i \in 1..Len(s \o t) : \/ i \in 1..Len(s) /\ (s \o t)[i] = s[i]
                                      \/ i - Len(s) \in 1..Len(t) /\ (s \o t)[i] = t[i - Len(s)]
         /\ NoTwo(s) /\ NoTwo(t) /\ Apart(s, t) => NoTwo(s \o t)
         /\ \A u : Apart(s, u) /\ Apart(t, u) => Apart(s \o t, u)
<1> DEFINE st == s \o t
<1>1. /\ st \in Seq(Message) /\ Len(st) = Len(s) + Len(t)
      /\ \A i \in 1..(Len(s) + Len(t)) : st[i] = IF i <= Len(s) THEN s[i] ELSE t[i - Len(s)]
  BY ConcatProperties
<1>2. Len(s) \in Nat /\ Len(t) \in Nat
  OBVIOUS
<1> HIDE DEF st
<1>3. ASSUME NEW i \in 1..Len(st)
      PROVE  \/ i \in 1..Len(s) /\ st[i] = s[i]
             \/ i - Len(s) \in 1..Len(t) /\ st[i] = t[i - Len(s)]
  <2>1. CASE i <= Len(s)
    BY <2>1, <1>1, <1>2
  <2>2. CASE ~(i <= Len(s))
    BY <2>2, <1>1, <1>2
  <2> QED  BY <2>1, <2>2
<1>4. ASSUME NoTwo(s), NoTwo(t), Apart(s, t) PROVE NoTwo(st)
  <2> SUFFICES ASSUME NEW i \in 1..Len(st), NEW j \in 1..Len(st), SameKey(st[i], st[j])
               PROVE  i = j
    BY DEF NoTwo
  <2>1. SameKey(st[j], st[i])
    BY DEF SameKey
  <2>2. CASE i \in 1..Len(s) /\ st[i] = s[i] /\ j \in 1..Len(s) /\ st[j] = s[j]
    BY <2>2, <1>4 DEF NoTwo
  <2>3. CASE i \in 1..Len(s) /\ st[i] = s[i] /\ j - Len(s) \in 1..Len(t) /\ st[j] = t[j - Len(s)]
    BY <2>3, <1>4 DEF Apart
  <2>4. CASE j \in 1..Len(s) /\ st[j] = s[j] /\ i - Len(s) \in 1..Len(t) /\ st[i] = t[i - Len(s)]
    BY <2>4, <2>1, <1>4 DEF Apart
  <2>5. CASE /\ i - Len(s) \in 1..Len(t) /\ st[i] = t[i - Len(s)]
             /\ j - Len(s) \in 1..Len(t) /\ st[j] = t[j - Len(s)]
    <3>1. i - Len(s) = j - Len(s)
      BY <2>5, <1>4 DEF NoTwo
    <3>2. i \in Int /\ j \in Int
      BY <1>1, <1>2
    <3> QED  BY <3>1, <3>2, <1>2
  <2> QED  BY <2>2, <2>3, <2>4, <2>5, <1>3
<1>5. \A u : Apart(s, u) /\ Apart(t, u) => Apart(st, u)
  BY <1>3 DEF Apart
<1> QED  BY <1>1, <1>3, <1>4, <1>5 DEF st

\* What one of two sequences has, their concatenation has.
Among(x, s) == \E i \in 1..Len(s) : s[i] = x

LEMMA JoinedHas ==
  ASSUME NEW S, NEW s \in Seq(S), NEW t \in Seq(S), NEW x, Among(x, s) \/ Among(x, t)
  PROVE  Among(x, s \o t)
<1> DEFINE st == s \o t
<1>1. /\ st \in Seq(S) /\ Len(st) = Len(s) + Len(t) /\ Len(s) \in Nat /\ Len(t) \in Nat
      /\ \A i \in 1..(Len(s) + Len(t)) : st[i] = IF i <= Len(s) THEN s[i] ELSE t[i - Len(s)]
  BY ConcatProperties
<1> HIDE DEF st
<1>2. CASE Among(x, s)
  <2>1. PICK i \in 1..Len(s) : s[i] = x
    BY <1>2 DEF Among
  <2>2. i \in 1..Len(st) /\ st[i] = x
    BY <2>1, <1>1
  <2> QED  BY <2>2 DEF Among, st
<1>3. CASE Among(x, t)
  <2>1. PICK i \in 1..Len(t) : t[i] = x
    BY <1>3 DEF Among
  <2> DEFINE j == Len(s) + i
  <2>2. j \in 1..Len(st) /\ ~(j <= Len(s)) /\ j - Len(s) = i
    BY <1>1
  <2> HIDE DEF j
  <2>3. j \in 1..Len(st) /\ st[j] = x
    BY <2>1, <2>2, <1>1
  <2> QED  BY <2>3 DEF Among, st
<1> QED  BY <1>2, <1>3

\* The first messages of the queues, one queue after the other.
FrontOf(p, taken) == SubSeq(sendPacketSet[p], 1, taken[p])
Fronts(taken) == FrontOf(1, taken) \o FrontOf(2, taken) \o FrontOf(3, taken) \o FrontOf(4, taken)
IsTaken(x, taken) == \E p \in Priorities : \E j \in 1..taken[p] : x = sendPacketSet[p][j]

LEMMA FrontsAre ==
  ASSUME SenderTypes, NEW taken, \A p \in Priorities : taken[p] \in 0..Len(sendPacketSet[p])
  PROVE  /\ Fronts(taken) \in Seq(Message)
         /\ \A i \in 1..Len(Fronts(taken)) : IsTaken(Fronts(taken)[i], taken)
         /\ QueuesFit => NoTwo(Fronts(taken))
         /\ \A p \in Priorities : \A j \in 1..taken[p] : Among(sendPacketSet[p][j], Fronts(taken))
<1> DEFINE O(p) == FrontOf(p, taken)
           From(s) == \A i \in 1..Len(s) : IsTaken(s[i], taken)
<1>1. Priorities = {1, 2, 3, 4}
  BY DEF Priorities
<1>2. ASSUME NEW p \in Priorities
      PROVE  O(p) \in Seq(Message) /\ Len(O(p)) = taken[p]
             /\ \A i \in 1..Len(O(p)) : O(p)[i] = sendPacketSet[p][i] /\ i \in 1..Len(sendPacketSet[p])
  <2>1. sendPacketSet[p] \in Seq(Message) /\ Len(sendPacketSet[p]) \in Nat
    BY DEF SenderTypes
  <2> QED  BY <2>1, CutInTwo DEF FrontOf
<1> HIDE DEF O
<1>3. \A p \in Priorities : From(O(p))
  BY <1>2 DEF IsTaken
<1>4. ASSUME QueuesFit, NEW p \in Priorities PROVE NoTwo(O(p))
  BY <1>2, <1>4 DEF QueuesFit, NoTwo
<1>5. ASSUME QueuesFit, NEW p \in Priorities, NEW q \in Priorities, p # q PROVE Apart(O(p), O(q))
  BY <1>2, <1>5 DEF QueuesFit, Apart
<1>6. ASSUME NEW s \in Seq(Message), NEW t \in Seq(Message), From(s), From(t) PROVE From(s \o t)
  BY <1>6, Joined
<1> DEFINE a == O(1) \o O(2)  b == a \o O(3)  c == b \o O(4)
<1>7. O(1) \in Seq(Message) /\ O(2) \in Seq(Message) /\ O(3) \in Seq(Message) /\ O(4) \in Seq(Message)
      /\ From(O(1)) /\ From(O(2)) /\ From(O(3)) /\ From(O(4))
  BY <1>1, <1>2, <1>3
<1>8. ASSUME QueuesFit
      PROVE  /\ NoTwo(O(1)) /\ NoTwo(O(2)) /\ NoTwo(O(3)) /\ NoTwo(O(4))
             /\ Apart(O(1), O(2)) /\ Apart(O(1), O(3)) /\ Apart(O(1), O(4)) /\ Apart(O(2), O(3))
             /\ Apart(O(2), O(4)) /\ Apart(O(3), O(4))
  BY <1>1, <1>4, <1>5, <1>8
<1>9. \A p \in Priorities : \A j \in 1..taken[p] : Among(sendPacketSet[p][j], O(p))
  BY <1>2 DEF Among
<1> HIDE DEF From
<1>10. a \in Seq(Message) /\ From(a)
      /\ (QueuesFit => NoTwo(a) /\ Apart(a, O(3)) /\ Apart(a, O(4)))
  BY <1>6, <1>7, <1>8, Joined
<1> HIDE DEF a
<1>11. \A x : Among(x, O(1)) \/ Among(x, O(2)) => Among(x, a)
  BY <1>7, JoinedHas DEF a
<1>12. b \in Seq(Message) /\ From(b) /\ (QueuesFit => NoTwo(b) /\ Apart(b, O(4)))
  BY <1>6, <1>7, <1>8, <1>10, Joined
<1>13. \A x : Among(x, a) \/ Among(x, O(3)) => Among(x, b)
  BY <1>7, <1>10, JoinedHas DEF b
<1> HIDE DEF b
<1>14. c \in Seq(Message) /\ From(c) /\ (QueuesFit => NoTwo(c))
  BY <1>6, <1>7, <1>8, <1>12, Joined
<1>15. \A x : Among(x, b) \/ Among(x, O(4)) => Among(x, c)
  BY <1>7, <1>12, JoinedHas DEF c
<1>16. Fronts(taken) = c
  BY DEF Fronts, O, a, b
<1> HIDE DEF c
<1>17. \A p \in Priorities : \A j \in 1..taken[p] : Among(sendPacketSet[p][j], c)
  BY <1>1, <1>9, <1>11, <1>13, <1>15
<1> QED  BY <1>14, <1>16, <1>17 DEF From

\* The numbers go to the messages of a datagram one after the other.
LEMMA NumberedAre ==
  ASSUME SenderTypes, NEW s \in Seq(Message)
  PROVE  LET t == Numbered(s)  n == snd.sendMessageNumberIndex IN
         /\ t \in Seq(Message) /\ Len(t) = Len(s)
         /\ \A i \in 1..Len(s) :
              /\ SameKey(t[i], s[i]) /\ (Fits(s[i]) => Fits(t[i]))
              /\ t[i].num = (n + (i - 1)) % NumMod
<1> DEFINE t == Numbered(s)
           n == snd.sendMessageNumberIndex
           num(i) == (n + i - 1) % NumMod
<1>1. NumMod \in Nat \ {0} /\ n \in Nat /\ Len(s) \in Nat /\ DOMAIN s = 1..Len(s)
  BY HalfIsLess DEF SenderTypes, SenderRecord
<1>2. t = [i \in 1..Len(s) |-> [s[i] EXCEPT !.num = num(i)]]
  BY <1>1 DEF Numbered
<1>3. ASSUME NEW i \in 1..Len(s) PROVE num(i) \in Int /\ num(i) = (n + (i - 1)) % NumMod
  <2>1. n + i - 1 = n + (i - 1) /\ n + i - 1 \in Int
    BY <1>1
  <2> QED  BY <2>1, <1>1
<1> HIDE DEF t, n, num
<1>4. ASSUME NEW i \in 1..Len(s)
      PROVE  LET m == [s[i] EXCEPT !.num = num(i)] IN
             /\ m \in Message /\ SameKey(m, s[i]) /\ (Fits(s[i]) => Fits(m)) /\ m.num = num(i)
  <2>1. s[i] \in Message
    BY ElementOfSeq
  <2> DEFINE m == [s[i] EXCEPT !.num = num(i)]
  <2>2. /\ m \in Message /\ m.num = num(i) /\ m.id = s[i].id /\ m.idx = s[i].idx
        /\ m.rel = s[i].rel /\ m.ch = s[i].ch /\ m.ord = s[i].ord /\ m.cnt = s[i].cnt
        /\ m.sid = s[i].sid
    BY <2>1, <1>3 DEF Message
  <2> HIDE DEF m
  <2>3. SameKey(m, s[i]) /\ (Fits(s[i]) => Fits(m))
    BY <2>2 DEF SameKey, Fits, FitsIn, Labelled
  <2> QED  BY <2>2, <2>3 DEF m
<1>5. t \in Seq(Message) /\ Len(t) = Len(s) /\ \A i \in 1..Len(s) : t[i] = [s[i] EXCEPT !.num = num(i)]
  <2> DEFINE new(i) == [s[i] EXCEPT !.num = num(i)]
  <2>1. t = [i \in 1..Len(s) |-> new(i)] /\ \A i \in 1..Len(s) : new(i) \in Message
    BY <1>2, <1>4
  <2> HIDE DEF new
  <2>2. t \in Seq(Message) /\ Len(t) = Len(s) /\ \A i \in 1..Len(s) : t[i] = new(i)
    BY <2>1, <1>1
  <2> QED  BY <2>2 DEF new
<1>6. \A i \in 1..Len(s) : /\ SameKey(t[i], s[i]) /\ (Fits(s[i]) => Fits(t[i]))
                            /\ t[i].num = (n + (i - 1)) % NumMod
  BY <1>3, <1>4, <1>5
<1> QED  BY <1>5, <1>6 DEF t, n

LEMMA EntriesAre ==
  ASSUME SenderTypes, NEW s \in Seq(Message)
  PROVE  /\ Entries(s) \in Seq(ResendEntry) /\ Len(Entries(s)) = Len(s)
         /\ \A i \in 1..Len(s) : Entries(s)[i].msg = s[i]
<1>1. ResendWait \in Int
  BY ReliabilityAssumption DEF SenderTypes, ResendWait
<1>2. \A i \in 1..Len(s) : [msg |-> s[i], wait |-> ResendWait] \in ResendEntry
  BY <1>1, ElementOfSeq DEF ResendEntry
<1>3. Entries(s) = [i \in 1..Len(s) |-> [msg |-> s[i], wait |-> ResendWait]] /\ Len(s) \in Nat
  BY DEF Entries
<1> QED  BY <1>2, <1>3

\* The resend queue holds what it held and what is sent for the first time.
LEMMA RequeuedAre ==
  ASSUME SenderTypes, NEW news \in Seq(Message)
  PROVE  LET t == Requeued(KeepsToResend(news)) IN
         /\ t \in Seq(ResendEntry)
         /\ \A i \in 1..Len(t) : \/ t[i].msg \in SentAgain
                                   \/ \E j \in 1..Len(news) : t[i].msg = news[j]
<1> DEFINE kept == KeepsToResend(news)
           rest == SubSeq(resendQueue, Resent + 1, Len(resendQueue))
           Ok(t) == /\ t \in Seq(ResendEntry)
                    /\ \A i \in 1..Len(t) : \/ t[i].msg \in SentAgain
                                              \/ \E j \in 1..Len(news) : t[i].msg = news[j]
<1>1. resendQueue \in Seq(ResendEntry) /\ DOMAIN resendQueue = 1..Len(resendQueue)
      /\ Len(resendQueue) \in Nat
  BY DEF SenderTypes
<1>2. Ok(rest)
  <2>1. /\ rest \in Seq(ResendEntry) /\ Len(rest) = Len(resendQueue) - Resent
        /\ \A i \in 1..(Len(resendQueue) - Resent) : rest[i] = resendQueue[Resent + i]
    BY <1>1, TakenIs, CutInTwo
  <2>2. \A i \in 1..(Len(resendQueue) - Resent) : Resent + i \in 1..Len(resendQueue)
    BY <1>1, TakenIs
  <2> HIDE DEF rest
  <2>3. \A i \in 1..Len(rest) : rest[i].msg \in SentAgain
    BY <2>1, <2>2, <1>1 DEF SentAgain
  <2> QED  BY <2>1, <2>3
<1>3. /\ kept \in Seq(Message)
      /\ \A i \in 1..Len(kept) : \E j \in 1..Len(news) : kept[i] = news[j]
  <2> DEFINE places == {i \in DOMAIN news : news[i].rel \in Reliable}
  <2>1. kept = Picked(news, places)
    BY DEF KeepsToResend
  <2> HIDE DEF places, kept
  <2>2. kept \in Seq(Message)
    BY <2>1, PickedFrom
  <2>3. \A i \in 1..Len(kept) : \E j \in 1..Len(news) : j \in places /\ kept[i] = news[j]
    BY <2>1, PickedFrom
  <2> QED  BY <2>2, <2>3
<1> HIDE DEF kept, rest
<1>4. Ok(Entries(Again))
  BY AgainIs, EntriesAre
<1>5. Ok(Entries(kept))
  BY <1>3, EntriesAre
<1>6. ASSUME NEW s, NEW t, Ok(s), Ok(t) PROVE Ok(s \o t)
  <2> DEFINE st == s \o t
  <2>1. /\ st \in Seq(ResendEntry) /\ Len(st) = Len(s) + Len(t)
        /\ \A i \in 1..(Len(s) + Len(t)) : st[i] = IF i <= Len(s) THEN s[i] ELSE t[i - Len(s)]
    BY <1>6, ConcatProperties
  <2>2. Len(s) \in Nat /\ Len(t) \in Nat
    BY <1>6
  <2> HIDE DEF st
  <2>3. ASSUME NEW i \in 1..Len(st)
        PROVE  st[i].msg \in SentAgain \/ \E j \in 1..Len(news) : st[i].msg = news[j]
    <3>1. CASE i <= Len(s)
      BY <3>1, <2>1, <2>2, <1>6
    <3>2. CASE ~(i <= Len(s))
      <4>1. i - Len(s) \in 1..Len(t) /\ st[i] = t[i - Len(s)]
        BY <3>2, <2>1, <2>2
      <4> QED  BY <4>1, <1>6
    <3> QED  BY <3>1, <3>2
  <2> QED  BY <2>1, <2>3 DEF st
<1> HIDE DEF Ok
<1>7. Ok(rest \o Entries(Again) \o Entries(kept))
  BY <1>2, <1>4, <1>5, <1>6
<1>8. Requeued(kept) = rest \o Entries(Again) \o Entries(kept)
  BY DEF Requeued, rest
<1> QED  BY <1>7, <1>8 DEF Ok, kept

\* What waits to be acknowledged, and what is sent reliably, waits again.
Waits(m, t) == \E i \in 1..Len(t) : t[i].msg = m /\ t[i].wait # Hole

LEMMA RequeuedHas ==
  ASSUME SenderTypes, NEW news \in Seq(Message)
  PROVE  LET t == Requeued(KeepsToResend(news)) IN
         /\ \A i \in 1..Len(resendQueue) : ~IsHole(resendQueue[i]) => Waits(resendQueue[i].msg, t)
         /\ \A i \in 1..Len(news) : news[i].rel \in Reliable => Waits(news[i], t)
<1> DEFINE kept == KeepsToResend(news)
           rest == SubSeq(resendQueue, Resent + 1, Len(resendQueue))
           again == Entries(Again)
           more == Entries(kept)
           t == Requeued(kept)
<1>1. resendQueue \in Seq(ResendEntry) /\ DOMAIN resendQueue = 1..Len(resendQueue)
      /\ Len(resendQueue) \in Nat /\ Resent \in 0..Len(resendQueue)
  BY TakenIs DEF SenderTypes
<1>2. /\ rest \in Seq(ResendEntry) /\ Len(rest) = Len(resendQueue) - Resent
      /\ \A i \in 1..(Len(resendQueue) - Resent) : rest[i] = resendQueue[Resent + i]
  BY <1>1, CutInTwo
<1>3. kept \in Seq(Message) /\ Again \in Seq(Message)
  <2> DEFINE places == {i \in DOMAIN news : news[i].rel \in Reliable}
  <2>1. kept = Picked(news, places)
    BY DEF KeepsToResend
  <2> HIDE DEF places, kept
  <2> QED  BY <2>1, PickedFrom, AgainIs
<1>4. \A i \in 1..Len(news) : news[i].rel \in Reliable => Among(news[i], kept)
  <2> DEFINE places == {i \in DOMAIN news : news[i].rel \in Reliable}
  <2>1. kept = Picked(news, places)
    BY DEF KeepsToResend
  <2>2. \A i \in 1..Len(news) : news[i].rel \in Reliable => i \in places
    OBVIOUS
  <2> HIDE DEF places, kept
  <2>3. \A j \in 1..Len(news) : j \in places =>
          \E i \in 1..Len(Picked(news, places)) : Picked(news, places)[i] = news[j]
    BY PickedFrom
  <2> QED  BY <2>1, <2>2, <2>3 DEF Among
<1>5. \A i \in 1..Resent : ~IsHole(resendQueue[i]) => Among(resendQueue[i].msg, Again)
  <2> DEFINE places == {i \in 1..Resent : IsDue(resendQueue[i])}
             u == Picked(resendQueue, places)
  <2>1. \A i \in 1..Resent : IsHole(resendQueue[i]) \/ IsDue(resendQueue[i])
    <3> DEFINE n == Len(resendQueue)
               T == {k \in 0..n :
                       k > 0 => /\ \A i \in 1..k : IsHole(resendQueue[i]) \/ IsDue(resendQueue[i])
                                /\ Load(DueAmong(k)) <= Room}
    <3>1. n \in Nat /\ T \in SUBSET (0..n) /\ 0 \in T
      BY <1>1
    <3>2. Resent = Max(T)
      BY DEF Resent
    <3> HIDE DEF T
    <3>3. Resent \in T
      BY <3>1, <3>2, MaxIsIn
    <3>4. Resent > 0 => \A i \in 1..Resent : IsHole(resendQueue[i]) \/ IsDue(resendQueue[i])
      BY <3>3 DEF T
    <3> QED  BY <3>4, <1>1
  <2>2. \A i \in 1..Resent : ~IsHole(resendQueue[i]) => i \in places /\ i \in 1..Len(resendQueue)
    BY <2>1, <1>1
  <2>3. Again = [i \in DOMAIN u |-> u[i].msg]
    BY DEF Again, DueAmong, Messages
  <2> HIDE DEF places
  <2> DEFINE q == resendQueue
  <2>4. q \in Seq(ResendEntry)
    BY <1>1
  <2> HIDE DEF q
  <2>5. \A j \in 1..Len(q) : j \in places => \E i \in 1..Len(Picked(q, places)) : Picked(q, places)[i] = q[j]
    BY <2>4, PickedFrom
  <2>6. \A j \in 1..Len(resendQueue) : j \in places => \E i \in 1..Len(u) : u[i] = resendQueue[j]
    BY <2>5 DEF q
  <2>7. u \in Seq(ResendEntry)
    BY <1>1, PickedFrom
  <2> HIDE DEF u
  <2>8. Len(u) \in Nat /\ DOMAIN u = 1..Len(u)
    BY <2>7
  <2>9. Len(Again) = Len(u) /\ \A i \in 1..Len(u) : Again[i] = u[i].msg
    BY <2>3, <2>8
  <2> QED  BY <2>2, <2>6, <2>9 DEF Among
<1> HIDE DEF kept, rest
<1>6. \A s \in Seq(Message) : \A m : Among(m, s) => Waits(m, Entries(s))
  <2> SUFFICES ASSUME NEW s \in Seq(Message), NEW m, Among(m, s) PROVE Waits(m, Entries(s))
    OBVIOUS
  <2>1. PICK i \in 1..Len(s) : s[i] = m
    BY DEF Among
  <2>2. Len(Entries(s)) = Len(s) /\ Entries(s)[i].msg = s[i]
    BY EntriesAre
  <2>3. Entries(s)[i].wait = ResendWait
    BY DEF Entries
  <2>4. ResendWait # Hole
    BY ReliabilityAssumption DEF SenderTypes, ResendWait, Hole
  <2> QED  BY <2>1, <2>2, <2>3, <2>4 DEF Waits
<1>7. again \in Seq(ResendEntry) /\ more \in Seq(ResendEntry)
  BY <1>3, EntriesAre
<1>8. t = rest \o again \o more
  BY DEF Requeued, rest
<1>9. \A m : Waits(m, rest) \/ Waits(m, again) \/ Waits(m, more) => Waits(m, t)
  <2> DEFINE In(e, s) == Among(e, s)
  <2>1. rest \o again \in Seq(ResendEntry)
    BY <1>2, <1>7, ConcatProperties
  <2>2. \A e : Among(e, rest) \/ Among(e, again) => Among(e, rest \o again)
    BY <1>2, <1>7, JoinedHas
  <2>3. \A e : Among(e, rest \o again) \/ Among(e, more) => Among(e, t)
    BY <2>1, <1>7, <1>8, JoinedHas
  <2>4. \A m, s : Waits(m, s) <=> \E e : Among(e, s) /\ e.msg = m /\ e.wait # Hole
    BY DEF Waits, Among
  <2> HIDE DEF t, again, more
  <2> QED  BY <2>2, <2>3, <2>4
<1>10. ASSUME NEW i \in 1..Len(resendQueue), ~IsHole(resendQueue[i])
       PROVE  Waits(resendQueue[i].msg, t)
  <2>1. CASE i \in 1..Resent
    BY <2>1, <1>3, <1>5, <1>6, <1>9, <1>10
  <2>2. CASE i \notin 1..Resent
    <3> DEFINE j == i - Resent
    <3>1. j \in 1..Len(rest) /\ j \in 1..(Len(resendQueue) - Resent) /\ Resent + j = i
      BY <2>2, <1>1, <1>2
    <3>2. rest[j] = resendQueue[i]
      BY <3>1, <1>2
    <3> HIDE DEF j, t
    <3>3. Waits(resendQueue[i].msg, rest)
      BY <3>1, <3>2, <1>10 DEF Waits, IsHole
    <3> QED  BY <3>3, <1>9
  <2> QED  BY <2>1, <2>2
<1>11. \A i \in 1..Len(news) : news[i].rel \in Reliable => Waits(news[i], t)
  BY <1>3, <1>4, <1>6, <1>9
<1> QED  BY <1>10, <1>11 DEF t, kept

\* A datagram takes messages from the fronts of the queues and gives them the next
\* numbers.
Carries(news, taken) ==
  LET n == snd.sendMessageNumberIndex IN
  /\ news \in Seq(Message)
  /\ \A i \in 1..Len(news) :
       /\ \E p \in Priorities : \E j \in 1..taken[p] :
            /\ j \in 1..Len(sendPacketSet[p]) /\ SameKey(news[i], sendPacketSet[p][j])
            /\ (Fits(sendPacketSet[p][j]) => Fits(news[i]))
       /\ news[i].num = (n + (i - 1)) % NumMod
  /\ QueuesFit => NoTwo(news)
  /\ \A p \in Priorities : \A j \in 1..taken[p] :
       \E i \in 1..Len(news) : SameKey(news[i], sendPacketSet[p][j])

LEMMA NewsAre ==
  ASSUME SenderTypes, NEW taken, \A p \in Priorities : taken[p] \in 0..Len(sendPacketSet[p])
  PROVE  Carries(News(taken), taken)
<1> DEFINE s == Fronts(taken)  t == Numbered(s)  n == snd.sendMessageNumberIndex
<1>1. /\ s \in Seq(Message) /\ \A i \in 1..Len(s) : IsTaken(s[i], taken)
      /\ QueuesFit => NoTwo(s)
      /\ \A p \in Priorities : \A j \in 1..taken[p] : Among(sendPacketSet[p][j], s)
  BY FrontsAre
<1>2. News(taken) = t
  BY DEF News, Fronts, FrontOf
<1> HIDE DEF s
<1>3. /\ t \in Seq(Message) /\ Len(t) = Len(s)
      /\ \A i \in 1..Len(s) : /\ SameKey(t[i], s[i]) /\ (Fits(s[i]) => Fits(t[i]))
                                /\ t[i].num = (n + (i - 1)) % NumMod
  BY <1>1, NumberedAre
<1> HIDE DEF t, n
<1>4. ASSUME NEW i \in 1..Len(t)
      PROVE  \E p \in Priorities : \E j \in 1..taken[p] :
               /\ j \in 1..Len(sendPacketSet[p]) /\ SameKey(t[i], sendPacketSet[p][j])
               /\ (Fits(sendPacketSet[p][j]) => Fits(t[i]))
  <2>1. PICK p \in Priorities : \E j \in 1..taken[p] : s[i] = sendPacketSet[p][j]
    BY <1>1, <1>3 DEF IsTaken
  <2>2. taken[p] \in 0..Len(sendPacketSet[p]) /\ Len(sendPacketSet[p]) \in Nat
    BY DEF SenderTypes
  <2>3. PICK j \in 1..taken[p] : s[i] = sendPacketSet[p][j]
    BY <2>1
  <2>4. j \in 1..Len(sendPacketSet[p])
    BY <2>2
  <2> QED  BY <2>3, <2>4, <1>3
<1>5. QueuesFit => NoTwo(t)
  BY <1>1, <1>3 DEF NoTwo, SameKey
<1>6. \A p \in Priorities : \A j \in 1..taken[p] :
        \E i \in 1..Len(t) : SameKey(t[i], sendPacketSet[p][j])
  BY <1>1, <1>3 DEF Among
<1> QED  BY <1>2, <1>3, <1>4, <1>5, <1>6 DEF Carries, n

\* What a datagram adds to what was sent, and what becomes of the queues.
Sends(news, taken) ==
  /\ Carries(news, taken) /\ \A p \in Priorities : taken[p] \in 0..Len(sendPacketSet[p])
  /\ sendPacketSet' = [p \in Priorities |->
        SubSeq(sendPacketSet[p], taken[p] + 1, Len(sendPacketSet[p]))]
  /\ resendQueue' = Requeued(KeepsToResend(news))
  /\ \A m \in Sent' : m \in Sent \/ \E i \in 1..Len(news) : m = news[i]
  /\ \A i \in 1..Len(news) : /\ Fits(news[i]) /\ news[i].num \in CircleNumbers
                             /\ Place(news[i].num) = course.count + (i - 1)

LEMMA GenerateStep ==
  ASSUME SenderTypes, GenerateDatagram
  PROVE  /\ SenderTypes' /\ SettledStays /\ rcv' = rcv
         /\ SenderInv /\ NotRound' => SenderInv' /\ \E news, taken : Sends(news, taken)
<1> DEFINE n == snd.sendMessageNumberIndex
<1>1. PICK taken, news :
        /\ taken = Taken /\ news = News(taken)
        /\ resendQueue' = Requeued(KeepsToResend(news))
        /\ sendPacketSet' = [p \in Priorities |->
              SubSeq(sendPacketSet[p], taken[p] + 1, Len(sendPacketSet[p]))]
        /\ \E b \in Nat : snd' = [snd EXCEPT !.sendMessageNumberIndex = (n + Len(news)) % NumMod,
                                              !.silence = b]
        /\ wire' \subseteq wire \union {Again \o news}
        /\ course' = [course EXCEPT !.count = @ + Len(news)]
  <2>1. PICK taken \in {Taken} : \E news \in {News(taken)} : \E kept \in {KeepsToResend(news)} :
          /\ resendQueue' = Requeued(kept)
          /\ sendPacketSet' = [p \in Priorities |->
                SubSeq(sendPacketSet[p], taken[p] + 1, Len(sendPacketSet[p]))]
          /\ snd' = [snd EXCEPT
                !.sendMessageNumberIndex = (@ + Len(news)) % NumMod,
                !.silence = IF kept # <<>> /\ @ = NoSilence THEN 1 ELSE @]
          /\ wire' = IF Again \o news = <<>> THEN wire ELSE wire \union {Again \o news}
          /\ course' = [course EXCEPT !.count = @ + Len(news)]
    BY DEF GenerateDatagram
  <2>2. PICK news \in {News(taken)} :
          /\ resendQueue' = Requeued(KeepsToResend(news))
          /\ sendPacketSet' = [p \in Priorities |->
                SubSeq(sendPacketSet[p], taken[p] + 1, Len(sendPacketSet[p]))]
          /\ snd' = [snd EXCEPT
                !.sendMessageNumberIndex = (@ + Len(news)) % NumMod,
                !.silence = IF KeepsToResend(news) # <<>> /\ @ = NoSilence THEN 1 ELSE @]
          /\ wire' = IF Again \o news = <<>> THEN wire ELSE wire \union {Again \o news}
          /\ course' = [course EXCEPT !.count = @ + Len(news)]
    BY <2>1
  <2> DEFINE b == IF KeepsToResend(news) # <<>> /\ snd.silence = NoSilence THEN 1 ELSE snd.silence
  <2>3. b \in Nat /\ snd' = [snd EXCEPT !.sendMessageNumberIndex = (n + Len(news)) % NumMod,
                                        !.silence = b]
    BY <2>2 DEF SenderTypes, SenderRecord
  <2>4. wire' \subseteq wire \union {Again \o news}
    BY <2>2
  <2> HIDE DEF b
  <2> QED  BY <2>1, <2>2, <2>3, <2>4
<1>2. UNCHANGED <<plan, rcv, asked>>
  BY DEF GenerateDatagram
<1>3. \A p \in Priorities : taken[p] \in 0..Len(sendPacketSet[p])
  BY <1>1, TakenIs
<1>4. Carries(news, taken)
  BY <1>1, <1>3, NewsAre
<1>5. news \in Seq(Message) /\ Len(news) \in Nat /\ DOMAIN news = 1..Len(news)
  BY <1>4 DEF Carries
<1>6. /\ resendQueue' \in Seq(ResendEntry)
      /\ \A i \in 1..Len(resendQueue') : \/ resendQueue'[i].msg \in SentAgain
                                         \/ \E j \in 1..Len(news) : resendQueue'[i].msg = news[j]
  BY <1>1, <1>5, RequeuedAre
<1>7. ASSUME NEW p \in Priorities
      PROVE  /\ sendPacketSet[p] \in Seq(Message) /\ Len(sendPacketSet[p]) \in Nat
             /\ sendPacketSet'[p] \in Seq(Message)
             /\ \A i \in 1..Len(sendPacketSet'[p]) :
                  /\ taken[p] + i \in 1..Len(sendPacketSet[p])
                  /\ sendPacketSet'[p][i] = sendPacketSet[p][taken[p] + i]
  <2>1. sendPacketSet[p] \in Seq(Message) /\ Len(sendPacketSet[p]) \in Nat
    BY DEF SenderTypes
  <2> DEFINE s == sendPacketSet[p]  k == taken[p]  t == SubSeq(s, k + 1, Len(s))
  <2>2. sendPacketSet'[p] = t
    BY <1>1
  <2>3. k \in 0..Len(s) /\ s \in Seq(Message) /\ Len(s) \in Nat
    BY <2>1, <1>3
  <2> HIDE DEF s, k
  <2>4. t \in Seq(Message) /\ Len(t) = Len(s) - k /\ \A i \in 1..(Len(s) - k) : t[i] = s[k + i]
    BY <2>3, CutInTwo
  <2>5. \A i \in 1..(Len(s) - k) : k + i \in 1..Len(s)
    BY <2>3
  <2> HIDE DEF t
  <2> QED  BY <2>1, <2>2, <2>4, <2>5 DEF s, k
<1>8. Sent' \subseteq Sent \union {news[i] : i \in 1..Len(news)}
  <2>1. \A m \in SentAgain' : m \in SentAgain \/ \E i \in 1..Len(news) : m = news[i]
    <3>1. DOMAIN resendQueue' = 1..Len(resendQueue')
      BY <1>6
    <3> QED  BY <3>1, <1>6 DEF SentAgain
  <2>2. ASSUME NEW k \in DOMAIN (Again \o news)
        PROVE  (Again \o news)[k] \in SentAgain \/ \E i \in 1..Len(news) : (Again \o news)[k] = news[i]
    <3> DEFINE d == Again \o news
    <3>1. Again \in Seq(Message) /\ \A i \in 1..Len(Again) : Again[i] \in SentAgain
      BY AgainIs
    <3>2. /\ d \in Seq(Message)
          /\ \A i \in 1..Len(d) : \/ i \in 1..Len(Again) /\ d[i] = Again[i]
                                  \/ i - Len(Again) \in 1..Len(news) /\ d[i] = news[i - Len(Again)]
      BY <3>1, <1>5, Joined
    <3>3. k \in 1..Len(d)
      BY <3>2
    <3> HIDE DEF d
    <3> QED  BY <3>1, <3>2, <3>3 DEF d
  <2>3. ASSUME NEW m \in Sent' PROVE m \in Sent \/ \E i \in 1..Len(news) : m = news[i]
    <3>1. \A x \in SentAgain : x \in Sent
      BY DEF Sent
    <3>2. \A d \in wire : \A k \in DOMAIN d : d[k] \in Sent
      <4> TAKE d \in wire
      <4>1. {d[k] : k \in DOMAIN d} \subseteq Sent
        BY DEF Sent
      <4> QED  BY <4>1
    <3>3. CASE m \in SentAgain'
      BY <3>1, <3>3, <2>1
    <3>4. CASE m \in UNION {{d[k] : k \in DOMAIN d} : d \in wire'}
      <4>1. PICK d \in wire' : m \in {d[k] : k \in DOMAIN d}
        BY <3>4
      <4>2. PICK k \in DOMAIN d : m = d[k]
        BY <4>1
      <4>3. CASE d \in wire
        BY <4>2, <4>3, <3>2
      <4>4. CASE d = Again \o news
        BY <4>2, <4>4, <3>1, <2>2
      <4>5. d \in wire \/ d = Again \o news
        BY <1>1
      <4> QED  BY <4>3, <4>4, <4>5
    <3>5. m \in SentAgain' \/ m \in UNION {{d[k] : k \in DOMAIN d} : d \in wire'}
      BY DEF Sent
    <3> QED  BY <3>3, <3>4, <3>5
  <2> QED  BY <2>3
<1>9. \E b \in Nat : snd' = [snd EXCEPT !.sendMessageNumberIndex = (n + Len(news)) % NumMod,
                                        !.silence = b]
  BY <1>1
<1>10. n \in 0..(NumMod - 1) /\ NumMod \in Nat \ {0} /\ (n + Len(news)) % NumMod \in 0..(NumMod - 1)
  <2>1. NumMod \in Nat \ {0} /\ n \in 0..(NumMod - 1)
    BY HalfIsLess DEF SenderTypes, SenderRecord
  <2> QED  BY <2>1, <1>5
<1>11. /\ snd' \in SenderRecord /\ snd'.splitPacketId = snd.splitPacketId
       /\ snd'.sendMessageNumberIndex = (n + Len(news)) % NumMod
  <2>1. snd \in SenderRecord
    BY DEF SenderTypes
  <2> DEFINE x == (n + Len(news)) % NumMod
  <2>2. PICK b \in Nat : snd' = [snd EXCEPT !.sendMessageNumberIndex = x, !.silence = b]
    BY <1>9
  <2>3. x \in 0..(NumMod - 1)
    BY <1>10
  <2> HIDE DEF x
  <2>4. snd' \in SenderRecord /\ snd'.splitPacketId = snd.splitPacketId
        /\ snd'.sendMessageNumberIndex = x
    BY <2>1, <2>2, <2>3 DEF SenderRecord
  <2> QED  BY <2>4 DEF x
<1>12. /\ course \in Courses
       /\ course' \in Courses
       /\ course'.first = course.first /\ course'.count = course.count + Len(news)
       /\ course'.splits = course.splits /\ course.splits \in Nat /\ course.count \in Nat
       /\ course.first \in CircleNumbers /\ course.count <= course'.count
  <2>1. course \in Courses /\ course' = [course EXCEPT !.count = @ + Len(news)]
    BY <1>1 DEF SenderTypes
  <2>2. course.count \in Nat /\ course.count + Len(news) \in Nat /\ course.count <= course.count + Len(news)
    BY <2>1, <1>5 DEF Courses
  <2> QED  BY <2>1, <2>2 DEF Courses, CircleNumbers
<1>13. SenderTypes'
  <2>1. Again \o news \in Seq(Message)
    BY <1>5, AgainIs, Joined
  <2>2. wire' \subseteq Seq(Message)
    BY <2>1, <1>1 DEF SenderTypes
  <2>3. sendPacketSet' \in [Priorities -> Seq(Message)]
    <3>1. sendPacketSet' = [p \in Priorities |-> sendPacketSet'[p]]
      BY <1>1
    <3> QED  BY <3>1, <1>7
  <2>4. plan' \in Plans /\ asked' \in Seq(AskedRecord)
    BY <1>2 DEF SenderTypes
  <2> QED  BY <2>2, <2>3, <2>4, <1>6, <1>11, <1>12 DEF SenderTypes
<1>14. \A m \in Sent' : m \in Sent \/ \E i \in 1..Len(news) : m = news[i]
  BY <1>8
<1>15. SettledStays
  <2>1. Len(asked) <= Len(asked') /\ \A i \in 1..Len(asked) : asked'[i] = asked[i]
    BY <1>2 DEF SenderTypes
  <2>2. ASSUME NEW m \in Sent'
        PROVE  \/ m \in Sent
               \/ \E p \in Priorities : \E i \in 1..Len(sendPacketSet[p]) :
                    SameKey(m, sendPacketSet[p][i])
    <3>1. ASSUME NEW i \in 1..Len(news), m = news[i]
          PROVE  \E p \in Priorities : \E j \in 1..Len(sendPacketSet[p]) :
                   SameKey(m, sendPacketSet[p][j])
      BY <3>1, <1>4 DEF Carries
    <3> QED  BY <3>1, <1>14
  <2>3. ASSUME NEW p \in Priorities, NEW i \in 1..Len(sendPacketSet'[p])
        PROVE  \E q \in Priorities : \E j \in 1..Len(sendPacketSet[q]) :
                 SameKey(sendPacketSet'[p][i], sendPacketSet[q][j])
    BY <1>7 DEF SameKey
  <2> QED  BY <2>1, <2>2, <2>3, <1>12 DEF SettledStays
<1>16. ASSUME SenderInv, NotRound' PROVE SenderInv' /\ Sends(news, taken)
  <2>1. QueuesFit /\ SentFits /\ SplitIds /\ NoTwo(news)
    BY <1>4, <1>16 DEF SenderInv, Carries
  <2>2. Place(n) = course.count /\ course.first \in CircleNumbers /\ n \in CircleNumbers
    BY <2>1, <1>10, <1>12 DEF SentFits, CircleNumbers
  <2>3. Place(n) + Len(news) < NumMod /\ Place(n) \in Nat
    BY <2>2, <1>5, <1>12, <1>16, HalfIsLess DEF NotRound
  <2>4. ASSUME NEW k \in 0..Len(news)
        PROVE  (n + k) % NumMod \in CircleNumbers /\ Place((n + k) % NumMod) = course.count + k
    <3>1. k \in Nat /\ Place(n) + k < NumMod
      BY <2>3, <1>5, HalfIsLess
    <3> QED  BY <2>2, <3>1, PlaceShift
  <2>5. \A x : Place(x)' = Place(x)
    BY <1>12 DEF Place
  <2>6. \A x : Fits(x) => Fits(x)'
    BY <1>2 DEF Fits, FitsIn
  <2> DEFINE IsQueued(x, p, j) == /\ p \in Priorities /\ j \in 1..taken[p] /\ j \in 1..Len(sendPacketSet[p])
                                  /\ SameKey(x, sendPacketSet[p][j])
  <2>7. ASSUME NEW i \in 1..Len(news)
        PROVE  /\ Fits(news[i]) /\ news[i].num \in CircleNumbers
               /\ Place(news[i].num) = course.count + (i - 1)
               /\ \E p, j : IsQueued(news[i], p, j)
    <3>1. i - 1 \in 0..Len(news) /\ news[i].num = (n + (i - 1)) % NumMod
      BY <1>4, <1>5 DEF Carries
    <3>2. PICK p \in Priorities : \E j \in 1..taken[p] :
            /\ j \in 1..Len(sendPacketSet[p]) /\ SameKey(news[i], sendPacketSet[p][j])
            /\ (Fits(sendPacketSet[p][j]) => Fits(news[i]))
      BY <1>4 DEF Carries
    <3>3. Fits(news[i])
      BY <3>2, <2>1 DEF QueuesFit
    <3> QED  BY <3>1, <3>2, <3>3, <2>4
  <2>8. \A i \in 1..Len(news) : \A m \in Sent : ~SameKey(m, news[i]) /\ ~SameKey(news[i], m)
    <3> SUFFICES ASSUME NEW i \in 1..Len(news), NEW m \in Sent
                 PROVE  ~SameKey(m, news[i]) /\ ~SameKey(news[i], m)
      OBVIOUS
    <3>1. PICK p, j : IsQueued(news[i], p, j)
      BY <2>7
    <3>2. ~SameKey(m, sendPacketSet[p][j])
      BY <3>1, <2>1 DEF QueuesFit
    <3> QED  BY <3>1, <3>2 DEF SameKey
  <2>9. SplitIds'
    BY <2>1, <1>2, <1>11, <1>12 DEF SplitIds
  <2>10. QueuesFit'
    <3>1. ASSUME NEW p \in Priorities, NEW i \in 1..Len(sendPacketSet'[p])
          PROVE  /\ FitsIn(asked', sendPacketSet'[p][i])
                 /\ \A m \in Sent' : ~SameKey(m, sendPacketSet'[p][i])
      <4> DEFINE x == sendPacketSet[p][taken[p] + i]
      <4>1. taken[p] + i \in 1..Len(sendPacketSet[p]) /\ sendPacketSet'[p][i] = x
        BY <1>7
      <4>2. FitsIn(asked', x) /\ \A m \in Sent : ~SameKey(m, x)
        BY <4>1, <2>1, <1>2 DEF QueuesFit, Fits
      <4>3. ASSUME NEW k \in 1..Len(news), SameKey(news[k], x) PROVE FALSE
        <5>1. PICK q, j : IsQueued(news[k], q, j)
          BY <2>7
        <5>2. SameKey(sendPacketSet[q][j], sendPacketSet[p][taken[p] + i])
          BY <5>1, <4>3 DEF SameKey
        <5>3. q = p /\ j = taken[p] + i
          BY <5>1, <5>2, <4>1, <2>1 DEF QueuesFit
        <5>4. j \in 1..taken[p] /\ taken[p] \in Nat /\ i \in Int /\ i >= 1
          BY <5>1, <5>3, <1>3, <1>7
        <5> QED  BY <5>3, <5>4
      <4> HIDE DEF x
      <4> QED  BY <4>1, <4>2, <4>3, <1>14
    <3>2. ASSUME NEW p \in Priorities, NEW q \in Priorities,
                 NEW i \in 1..Len(sendPacketSet'[p]), NEW j \in 1..Len(sendPacketSet'[q]),
                 SameKey(sendPacketSet'[p][i], sendPacketSet'[q][j])
          PROVE  p = q /\ i = j
      <4>1. /\ taken[p] + i \in 1..Len(sendPacketSet[p]) /\ taken[q] + j \in 1..Len(sendPacketSet[q])
            /\ SameKey(sendPacketSet[p][taken[p] + i], sendPacketSet[q][taken[q] + j])
        BY <3>2, <1>7
      <4>2. p = q /\ taken[p] + i = taken[q] + j
        BY <4>1, <2>1 DEF QueuesFit
      <4>3. taken[p] \in Nat /\ i \in Int /\ j \in Int
        BY <1>3, <1>7
      <4> QED  BY <4>2, <4>3
    <3> QED  BY <3>1, <3>2 DEF QueuesFit, Fits
  <2>11. SentFits'
    <3>1. Place(snd.sendMessageNumberIndex)' = course'.count
      <4>1. Len(news) \in 0..Len(news)
        BY <1>5
      <4>2. Place((n + Len(news)) % NumMod) = course.count + Len(news)
        BY <4>1, <2>4
      <4>3. Place(snd.sendMessageNumberIndex)' = Place(snd'.sendMessageNumberIndex)
        BY <1>12 DEF Place
      <4> QED  BY <4>2, <4>3, <1>11, <1>12
    <3>2. ASSUME NEW m \in Sent'
          PROVE  FitsIn(asked', m) /\ m.num \in CircleNumbers /\ Place(m.num) < course'.count
      <4>1. CASE m \in Sent
        <5>1. FitsIn(asked', m) /\ m.num \in CircleNumbers /\ Place(m.num) < course.count
          BY <4>1, <2>1, <1>2 DEF SentFits, Fits, CircleNumbers
        <5>2. Place(m.num) \in Nat
          BY <5>1, <2>2, PlaceIs
        <5> QED  BY <5>1, <5>2, <1>12
      <4>2. CASE \E i \in 1..Len(news) : m = news[i]
        <5>1. PICK i \in 1..Len(news) : m = news[i]
          BY <4>2
        <5>2. FitsIn(asked', m) /\ m.num \in CircleNumbers /\ Place(m.num) = course.count + (i - 1)
          BY <5>1, <2>7, <1>2 DEF Fits
        <5>3. course.count + (i - 1) < course.count + Len(news)
          BY <1>5, <1>12
        <5> QED  BY <5>2, <5>3, <1>12
      <4> QED  BY <4>1, <4>2, <1>14
    <3>3. ASSUME NEW m \in Sent', NEW o \in Sent', SameKey(m, o) PROVE m.num = o.num
      <4>1. CASE m \in Sent /\ o \in Sent
        BY <4>1, <3>3, <2>1 DEF SentFits
      <4>2. CASE m \in Sent /\ \E i \in 1..Len(news) : o = news[i]
        BY <4>2, <3>3, <2>8
      <4>3. CASE o \in Sent /\ \E i \in 1..Len(news) : m = news[i]
        BY <4>3, <3>3, <2>8
      <4>4. CASE (\E i \in 1..Len(news) : m = news[i]) /\ (\E j \in 1..Len(news) : o = news[j])
        BY <4>4, <3>3, <2>1 DEF NoTwo
      <4> QED  BY <4>1, <4>2, <4>3, <4>4, <1>14
    <3>4. \A m \in Sent' : Place(m.num)' = Place(m.num)
      BY <1>12 DEF Place
    <3> QED  BY <3>1, <3>2, <3>3, <3>4 DEF SentFits, Fits, CircleNumbers
  <2>12. Sends(news, taken)
    <3>1. \A i \in 1..Len(news) : /\ Fits(news[i]) /\ news[i].num \in CircleNumbers
                                 /\ Place(news[i].num) = course.count + (i - 1)
      BY <2>7
    <3> QED  BY <3>1, <1>1, <1>3, <1>4, <1>14 DEF Sends
  <2> QED  BY <2>9, <2>10, <2>11, <2>12 DEF SenderInv
<1> QED  BY <1>2, <1>13, <1>15, <1>16

-----------------------------------------------------------------------------
(* The invariant holds *)

LEMMA InvAtStart ==
  ASSUME Init
  PROVE  Inv
<1>1. PICK n \in plan.starts : /\ snd = SenderStart(n) /\ rcv = ReceiverStart(n)
                               /\ course = [first |-> n, count |-> 0, splits |-> 0]
  BY DEF Init
<1>2. plan \in Plans /\ n \in CircleNumbers /\ n \in Nat
      /\ OrdMod \in Nat \ {0} /\ SplitMod \in Nat \ {0}
  BY ReliabilityAssumption DEF Init, CircleNumbers
<1>3. /\ sendPacketSet = [p \in Priorities |-> <<>>]
      /\ resendQueue = <<>> /\ wire = {} /\ asked = <<>>
  BY DEF Init
<1>4. n % OrdMod \in Orders
  BY <1>2 DEF Orders
<1>5. snd \in SenderRecord
  <2>1. 0 \in 0..(SplitMod - 1) /\ (n = 0) \in BOOLEAN
    BY <1>2
  <2> QED  BY <2>1, <1>1, <1>2, <1>4 DEF SenderStart, SenderRecord, CircleNumbers, NoSilence
<1>6. SenderTypes
  <2>1. course \in Courses
    BY <1>1, <1>2 DEF CircleNumbers, Courses
  <2> QED  BY <2>1, <1>2, <1>3, <1>5 DEF SenderTypes
<1>7. Sent = {}
  <2>1. DOMAIN resendQueue = {}
    BY <1>3
  <2> QED  BY <2>1, <1>3 DEF Sent, SentAgain
<1>8. Len(asked) = 0 /\ \A p \in Priorities : Len(sendPacketSet[p]) = 0
  BY <1>3
<1>9. SenderInv
  <2>1. SplitIds /\ QueuesFit
    BY <1>1, <1>7, <1>8 DEF SplitIds, QueuesFit, SenderStart
  <2>2. SentFits
    BY <1>1, <1>2, <1>7 DEF SentFits, SenderStart, Place
  <2> QED  BY <2>1, <2>2 DEF SenderInv
<1>10. ReceiverTypes(rcv)
  <2>1. n \in 0..(NumMod - 1) /\ <<>> \in Seq(Nat) /\ <<>> \in Seq(Entry)
        /\ [c \in Channels |-> n % OrdMod] \in [Channels -> Orders]
        /\ [c \in Channels |-> {}] \in [Channels -> SUBSET Entry]
    BY <1>2, <1>4 DEF CircleNumbers
  <2> QED  BY <2>1, <1>1 DEF ReceiverTypes, Receivers, ReceiverStart
<1>11. /\ rcv.receivedPacketsBaseIndex = n /\ rcv.hasReceivedPacketQueue = <<>>
       /\ rcv.splits = {} /\ rcv.outputQueue = <<>>
       /\ \A c \in Channels : rcv.orderingList[c] = {}
  BY <1>1 DEF ReceiverStart
<1>12. Window(rcv)
  BY <1>1, <1>2, <1>11 DEF Window, Place
<1>13. SplitsFit(rcv) /\ OutputFits(rcv) /\ ListsFit(rcv)
  BY <1>11 DEF SplitsFit, OutputFits, ListsFit
<1> QED  BY <1>6, <1>9, <1>10, <1>12, <1>13 DEF Inv, ReceiverInv

LEMMA OrdHalfIs ==
  /\ OrdMod \in Nat \ {0} /\ OrdHalf \in Nat /\ 2 * OrdHalf < OrdMod /\ OrdMod <= 2 * OrdHalf + 2
BY ReliabilityAssumption DEF OrdHalf

\* What every step keeps; the history only grows.
LEMMA EveryStep ==
  ASSUME SenderTypes, [Next]_vars
  PROVE  /\ SenderTypes' /\ SettledStays
         /\ NotRound' => NotRound
         /\ IndicesNotRound' => IndicesNotRound
<1>1. SenderTypes' /\ SettledStays
  <2>1. CASE (\E m \in Menu : Send(m)) \/ GenerateDatagram
    BY <2>1, SendStep, GenerateStep
  <2>2. CASE \/ DieOfSilence \/ SendAcks \/ Lose \/ ForgetSplit \/ Mature \/ Tick
             \/ (\E d \in wire : Receive(d)) \/ (\E a \in acksOnWire : ReceiveAcks(a))
             \/ UNCHANGED vars
    BY <2>2, QuietSteps, SenderCarried
  <2> QED  BY <2>1, <2>2 DEF Next
<1>2. NotRound' => NotRound
  <2>1. /\ course.count \in Nat /\ course'.count \in Nat /\ course.count <= course'.count
        /\ course.splits \in Nat /\ course'.splits \in Nat /\ course.splits <= course'.splits
    BY <1>1 DEF SenderTypes, SettledStays, Courses
  <2>2. Half \in Nat /\ SplitMod \in Nat
    BY HalfIsLess, ReliabilityAssumption
  <2>3. ASSUME NotRound' PROVE course'.count <= Half /\ course'.splits < SplitMod
    BY <2>3 DEF NotRound, Half
  <2> QED  BY <2>1, <2>2, <2>3 DEF NotRound
<1>3. IndicesNotRound' => IndicesNotRound
  <2>1. Len(asked) \in Nat /\ Len(asked') \in Nat /\ Len(asked) <= Len(asked')
    BY <1>1 DEF SenderTypes, SettledStays
  <2> QED  BY <2>1, OrdHalfIs DEF IndicesNotRound, OrdHalf
<1> QED  BY <1>1, <1>2, <1>3

\* What the steps that send keep, and what the others keep.
LEMMA InvStep ==
  ASSUME Inv, [Next]_vars
  PROVE  Inv'
<1> SenderTypes
  BY DEF Inv
<1>1. NotRound' => NotRound
  BY EveryStep
<1>2. CASE (\E m \in Menu : Send(m)) \/ GenerateDatagram
  <2>1. /\ SenderTypes' /\ SettledStays /\ rcv' = rcv
        /\ SenderInv /\ NotRound' => SenderInv'
    BY <1>2, SendStep, GenerateStep
  <2>2. ASSUME NotRound' PROVE SenderInv' /\ ReceiverInv(rcv)'
    <3>1. SenderInv /\ ReceiverInv(rcv)
      BY <2>1, <2>2, <1>1 DEF Inv
    <3>2. PICK r : r = rcv
      OBVIOUS
    <3>3. ReceiverInv(r) /\ rcv' = r
      BY <3>1, <3>2, <2>1
    <3>4. ReceiverInv(rcv)'
      BY <3>3, <2>1, ReceiverCarried
    <3> QED  BY <3>1, <3>4, <2>1, <2>2
  <2> QED  BY <2>1, <2>2 DEF Inv
<1>3. CASE \/ DieOfSilence \/ SendAcks \/ Lose \/ ForgetSplit \/ Mature \/ Tick
           \/ (\E d \in wire : Receive(d)) \/ (\E a \in acksOnWire : ReceiveAcks(a))
           \/ UNCHANGED vars
  <2>1. SenderTypes' /\ SenderStays
    BY <1>3, QuietSteps
  <2>2. (SenderInv => SenderInv') /\ SettledStays
    BY <2>1, SenderCarried
  <2>3. ASSUME NotRound' PROVE SenderInv' /\ ReceiverInv(rcv)'
    <3>1. NotRound /\ SenderInv /\ ReceiverInv(rcv)
      BY <2>1, <2>2, <2>3, <1>1 DEF Inv
    <3>2. PICK r : ReceiverInv(r) /\ rcv' = r
      BY <3>1, <1>3, QuietReceiver
    <3>3. ReceiverInv(rcv)'
      BY <3>2, <2>1, <2>2, ReceiverCarried
    <3> QED  BY <3>1, <3>3, <2>2
  <2> QED  BY <2>1, <2>3 DEF Inv
<1> QED  BY <1>2, <1>3 DEF Next

\* However messages are cut, numbered, repeated, resent, reordered and put together,
\* sender and receiver agree on what was delivered, what is on the way and what
\* will be taken for a duplicate.
THEOREM ReliabilityInvariant == Spec => []Inv
<1>1. Init => Inv
  BY InvAtStart
<1>2. Inv /\ [Next]_vars => Inv'
  BY InvStep
<1> QED  BY <1>1, <1>2, PTL DEF Spec

\* While neither the numbers of messages nor the ids of split messages have come
\* round, the program gets a message at most once (ReliabilityLayer.cpp drops
\* duplicates by their number before it processes a message).
THEOREM AtMostOnce == Spec => [](NotRound => DeliveredOnce)
<1>1. ASSUME Inv, NotRound PROVE DeliveredOnce
  <2>1. rcv.outputQueue \in Seq(Entry)
    BY <1>1 DEF Inv, ReceiverInv, ReceiverTypes, Receivers
  <2>2. \A i, j \in 1..Len(rcv.outputQueue) :
          rcv.outputQueue[i].parts[1] = rcv.outputQueue[j].parts[1] => i = j
    BY <1>1 DEF Inv, ReceiverInv, OutputFits
  <2>3. DOMAIN rcv.outputQueue = 1..Len(rcv.outputQueue)
    BY <2>1
  <2> QED  BY <2>2, <2>3 DEF DeliveredOnce, Delivered
<1>2. Inv => (NotRound => DeliveredOnce)
  BY <1>1
<1> QED  BY <1>2, ReliabilityInvariant, PTL

\* And what it gets is one message, put together from all of its pieces and no
\* others (BuildPacketFromSplitPacketList).
THEOREM WholeOrNotAtAll == Spec => [](NotRound => PiecesOfOne)
<1>1. ASSUME Inv, NotRound PROVE PiecesOfOne
  <2>1. rcv.outputQueue \in Seq(Entry)
    BY <1>1 DEF Inv, ReceiverInv, ReceiverTypes, Receivers
  <2>2. DOMAIN rcv.outputQueue = 1..Len(rcv.outputQueue)
    BY <2>1
  <2>3. ASSUME NEW i \in DOMAIN rcv.outputQueue
        PROVE  LET parts == rcv.outputQueue[i].parts IN
               /\ \A k \in DOMAIN parts : parts[k] = parts[1]
               /\ Len(parts) = asked[parts[1]].cnt
    <3>1. rcv.outputQueue[i] \in Entry
      BY <2>1, <2>2, ElementOfSeq
    <3>2. IsWhole(rcv, rcv.outputQueue[i])
      BY <1>1, <2>2 DEF Inv, ReceiverInv, OutputFits
    <3>3. DOMAIN rcv.outputQueue[i].parts = 1..Len(rcv.outputQueue[i].parts)
      BY <3>1 DEF Entry
    <3> QED  BY <3>2, <3>3 DEF IsWhole
  <2> QED  BY <2>3 DEF PiecesOfOne
<1>2. Inv => (NotRound => PiecesOfOne)
  BY <1>1
<1> QED  BY <1>2, ReliabilityInvariant, PTL

-----------------------------------------------------------------------------
(* What one message does to what the receiver has *)

\* What the receiver has it keeps.
HasMore(r, w) == \A id, k : Has(r, id, k) => Has(w, id, k)

\* Sequenced messages are delivered by Sequence only, one at a time.
Unmoved(r, w) ==
  /\ Grows(r, w) /\ w.seqRead = r.seqRead
  /\ \A i \in 1..Len(w.outputQueue) :
        i > Len(r.outputQueue) => w.outputQueue[i].rel \notin Sequenced
Advances(r, w, p) ==
  /\ p.rel \in Sequenced /\ ~Superseded(r, p)
  /\ w.seqRead = [r.seqRead EXCEPT ![p.ch] = (p.ord + 1) % OrdMod]
  /\ Grows(r, w) /\ Len(w.outputQueue) = Len(r.outputQueue) + 1
  /\ LET e == w.outputQueue[Len(w.outputQueue)]
     IN Labelled(e, asked[p.id]) /\ e.parts[1] = p.id

\* Two ordered messages of a channel do not have the same index.
LEMMA OrdersApart ==
  ASSUME AskedTypes, IndicesFit, course \in Courses, NEW i \in 1..Len(asked), NEW j \in 1..Len(asked),
         asked[i].as = "RELIABLE_ORDERED", asked[j].as = "RELIABLE_ORDERED",
         asked[i].ch = asked[j].ch, asked[i].ord = asked[j].ord
  PROVE  i = j
<1>1. /\ SameLine(asked[i], asked[j]) /\ SameLine(asked[j], asked[i])
      /\ asked[i].as \in Indexed /\ asked[j].as \in Indexed
  BY DEF SameLine, Indexed
<1>2. Turn(asked[i].ord) \in Int
  <2>1. asked[i] \in AskedRecord
    BY ElementOfSeq DEF AskedTypes
  <2>2. asked[i].ord \in Nat
    BY <2>1 DEF AskedRecord, Orders
  <2>3. OrdFirst \in Int /\ OrdMod \in Nat \ {0}
    <3>1. course.first \in Int /\ OrdMod \in Nat \ {0}
      BY ReliabilityAssumption DEF Courses
    <3> QED  BY <3>1 DEF OrdFirst
  <2> QED  BY <2>2, <2>3 DEF Turn
<1>3. ~(i < j)
  BY <1>1, <1>2 DEF IndicesFit
<1>4. ~(j < i)
  BY <1>1, <1>2 DEF IndicesFit
<1> QED  BY <1>3, <1>4

LEMMA DeliversHasMore ==
  ASSUME AskedTypes, IndicesFit, course \in Courses, NEW r, Content(r), ReceiverTypes(r), NEW w, ReceiverTypes(w),
         NEW more, Delivers(r, w, more)
  PROVE  HasMore(r, w)
<1> SUFFICES ASSUME NEW id, NEW k, Has(r, id, k) PROVE Has(w, id, k)
  BY DEF HasMore
<1>1. CASE \E i \in 1..Len(r.outputQueue) : r.outputQueue[i].parts[1] = id
  <2>1. Len(r.outputQueue) \in Nat /\ Len(w.outputQueue) \in Nat
    BY DEF ReceiverTypes, Receivers
  <2>2. \A i \in 1..Len(r.outputQueue) :
          i \in 1..Len(w.outputQueue) /\ w.outputQueue[i] = r.outputQueue[i]
    BY <2>1 DEF Delivers, Grows
  <2> QED  BY <1>1, <2>2 DEF Has
<1>2. ASSUME NEW c \in Channels, NEW e \in r.orderingList[c], e.parts[1] = id PROVE Has(w, id, k)
  <2>1. CASE e \in w.orderingList[c]
    BY <1>2, <2>1 DEF Has
  <2>2. ASSUME NEW i \in 1..Len(w.outputQueue), w.outputQueue[i] \in r.orderingList[c],
               w.outputQueue[i].ord = e.ord
        PROVE  Has(w, id, k)
    <3> DEFINE o == w.outputQueue[i]
    <3>1. /\ e.parts[1] \in 1..Len(asked) /\ o.parts[1] \in 1..Len(asked)
          /\ Labelled(e, asked[e.parts[1]]) /\ Labelled(o, asked[o.parts[1]])
          /\ e.rel = "RELIABLE_ORDERED" /\ o.rel = "RELIABLE_ORDERED" /\ e.ch = c /\ o.ch = c
      BY <2>2 DEF Content, ListsFit, IsWhole
    <3> HIDE DEF o
    <3>2. e.parts[1] = o.parts[1]
      BY <3>1, <2>2, OrdersApart DEF Labelled, o
    <3> QED  BY <3>2, <1>2 DEF Has, o
  <2> QED  BY <2>1, <2>2 DEF Delivers
<1>3. CASE \E q \in r.splits : q.id = id /\ q.idx = k
  BY <1>3 DEF Has, Delivers
<1> QED  BY <1>1, <1>2, <1>3 DEF Has

\* Pieces with one id belong to one message.
LEMMA SameSplit ==
  ASSUME SplitIds, NEW r, ReceiverTypes(r), Content(r), NEW p \in Message, p.cnt # 0, Fits(p),
         NEW q \in r.splits, q.sid = p.sid
  PROVE  q.id = p.id
<1>1. q.id \in 1..Len(asked) /\ asked[q.id].sid = q.sid /\ q.sid # Unsplit
  <2>1. q \in SplitPiece
    BY DEF ReceiverTypes, Receivers
  <2> QED  BY <2>1 DEF Content, SplitsFit, SplitPiece, Unsplit
<1>2. p.id \in 1..Len(asked) /\ asked[p.id].sid = p.sid
  BY DEF Fits, FitsIn
<1> QED  BY <1>1, <1>2, PiecesOfOneMessage

LEMMA WithPieceHas ==
  ASSUME SplitIds, NEW r, ReceiverTypes(r), Content(r), NEW p \in Message, p.cnt # 0, Fits(p),
         \A q \in r.splits : ~(q.id = p.id /\ q.idx = p.idx)
  PROVE  LET w == WithPiece(r, p) IN
         /\ HasMore(r, w) /\ Has(w, p.id, p.idx)
         /\ w.outputQueue = r.outputQueue /\ w.orderingList = r.orderingList
         /\ w.seqRead = r.seqRead
<1> DEFINE awake(q) == [q EXCEPT !.idle = IF q.sid = p.sid THEN 0 ELSE @]
           new == [sid |-> p.sid, idx |-> p.idx, cnt |-> p.cnt, id |-> p.id,
                   ord |-> p.ord, ch |-> p.ch, rel |-> p.rel, idle |-> 0]
           more == {awake(q) : q \in r.splits} \union {new}
           w == WithPiece(r, p)
<1>1. ~(\E q \in PiecesHeld(r, p.sid) : q.idx = p.idx)
  BY SameSplit DEF PiecesHeld
<1>2. w = [r EXCEPT !.splits = more]
  BY <1>1 DEF WithPiece
<1>3. \A q \in r.splits : awake(q) \in more /\ awake(q).id = q.id /\ awake(q).idx = q.idx
  BY DEF ReceiverTypes, Receivers, SplitPiece
<1>4. new \in more /\ new.id = p.id /\ new.idx = p.idx
  OBVIOUS
<1> HIDE DEF awake, new, more, w
<1>5. /\ w.splits = more /\ w.outputQueue = r.outputQueue /\ w.orderingList = r.orderingList
      /\ w.seqRead = r.seqRead
  BY <1>2 DEF ReceiverTypes, Receivers
<1>6. HasMore(r, w) /\ Has(w, p.id, p.idx)
  BY <1>3, <1>4, <1>5 DEF HasMore, Has
<1> QED  BY <1>5, <1>6 DEF w

\* Building a message drops its pieces and no others.
LEMMA WithoutSplitHas ==
  ASSUME SplitIds, NEW r, ReceiverTypes(r), Content(r), NEW p \in Message, p.cnt # 0, Fits(p)
  PROVE  LET w == WithoutSplit(r, p.sid) IN
         /\ \A id, k : Has(r, id, k) => Has(w, id, k) \/ id = p.id
         /\ w.outputQueue = r.outputQueue /\ w.seqRead = r.seqRead
         /\ w.orderingList = r.orderingList
<1> DEFINE w == WithoutSplit(r, p.sid)
<1>1. /\ w.splits = {q \in r.splits : q.sid # p.sid} /\ w.outputQueue = r.outputQueue
      /\ w.orderingList = r.orderingList /\ w.seqRead = r.seqRead
  BY DEF WithoutSplit, ReceiverTypes, Receivers
<1> HIDE DEF w
<1>2. \A q \in r.splits : q \in w.splits \/ q.id = p.id
  BY <1>1, SameSplit
<1> QED  BY <1>1, <1>2 DEF Has, w

\* A message that is new to the receiver becomes part of what it has, unless a
\* newer one of its channel was delivered; nothing else gets lost.
LEMMA ProcessMoves ==
  ASSUME AskedTypes, SplitIds, IndicesFit, course \in Courses,
         NEW r, ReceiverTypes(r), Content(r), NEW p \in Message, Fits(p),
         Settled(r, p.id, p.idx), NoneOf(r, p.id),
         \A q \in r.splits : ~(q.id = p.id /\ q.idx = p.idx)
  PROVE  LET w == Process(r, p) IN
         /\ Unmoved(r, w) \/ Advances(r, w, p)
         /\ HasMore(r, w)
         /\ Has(w, p.id, p.idx) \/ (p.rel \in Sequenced /\ Superseded(r, p))
<1> DEFINE Alike(x) == /\ ReceiverTypes(x) /\ Content(x) /\ SameWindow(r, x)
                       /\ x.outputQueue = r.outputQueue /\ x.orderingList = r.orderingList
                       /\ x.seqRead = r.seqRead
                       /\ \A id, k : Has(r, id, k) => Has(x, id, k) \/ id = p.id
           Result(w) == /\ Unmoved(r, w) \/ Advances(r, w, p)
                        /\ HasMore(r, w)
                        /\ Has(w, p.id, p.idx) \/ (p.rel \in Sequenced /\ Superseded(r, p))
           passed(x) == [x EXCEPT !.seqRead[p.ch] = (p.ord + 1) % OrdMod]
           IsIt(e) == /\ e \in Entry /\ IsWhole(r, e) /\ e.parts[1] = p.id
                      /\ Labelled(e, asked[p.id])
<1>1. p.cnt \in Nat /\ p.ch \in Channels /\ p.ord \in Orders /\ p.rel = asked[p.id].as
  BY DEF Message, Fits, FitsIn, Labelled
<1>2. Alike(r) /\ Len(r.outputQueue) \in Nat
  BY DEF SameWindow, ReceiverTypes, Receivers
<1>3. (p.ord + 1) % OrdMod \in Orders
  <2>1. OrdMod \in Nat \ {0} /\ p.ord + 1 \in Int
    BY <1>1, ReliabilityAssumption DEF Orders
  <2> QED  BY <2>1 DEF Orders
<1>4. ASSUME NEW x, Alike(x), NEW e, IsIt(e), p.rel \notin Sequenced
      PROVE  Result(OrderOrOutput(x, e))
  <2> DEFINE y == OrderOrOutput(x, e)
  <2>1. IsWhole(x, e) /\ NoneOf(x, e.parts[1])
    BY <1>4, SameSettled DEF NoneOf
  <2>2. ReceiverTypes(y) /\ Delivers(x, y, {e}) /\ (IsDelivered(y, e) \/ e \in y.orderingList[e.ch])
    BY <2>1, <1>4, OrderKeeps
  <2> HIDE DEF y
  <2>3. HasMore(x, y)
    BY <2>2, <1>4, DeliversHasMore
  <2>4. \A k : Has(y, p.id, k)
    BY <2>2, <1>4 DEF Has, IsDelivered, Entry
  <2>5. Unmoved(r, y)
    <3>1. Grows(r, y) /\ y.seqRead = r.seqRead
      BY <2>2, <1>4 DEF Delivers, Grows
    <3>2. e.rel \notin Sequenced
      BY <1>1, <1>4 DEF Labelled
    <3>3. \A c \in Channels : \A o \in x.orderingList[c] : o.rel \notin Sequenced
      BY <1>4 DEF Content, ListsFit, Sequenced
    <3> QED  BY <3>1, <3>2, <3>3, <2>2, <1>4 DEF Unmoved, Delivers
  <2> QED  BY <2>3, <2>4, <2>5, <1>4 DEF HasMore, y
<1>5. ASSUME NEW x, Alike(x), NEW e, IsIt(e), p.rel \in Sequenced, ~Superseded(r, p)
      PROVE  Result(Output(passed(x), e))
  <2> DEFINE v == passed(x)  y == Output(v, e)
  <2>1. /\ ReceiverTypes(v) /\ Content(v) /\ SameWindow(x, v)
        /\ v.splits = x.splits /\ v.outputQueue = x.outputQueue /\ v.orderingList = x.orderingList
    BY <1>1, <1>3, <1>5, ReadIndexKeeps
  <2>2. v.seqRead = [r.seqRead EXCEPT ![p.ch] = (p.ord + 1) % OrdMod]
    BY <1>5 DEF ReceiverTypes, Receivers
  <2> HIDE DEF v, passed
  <2>3. IsWhole(v, e) /\ NoneOf(v, e.parts[1])
    BY <1>5, <2>1, SameSettled DEF NoneOf
  <2>4. /\ Delivers(v, y, {e}) /\ IsDelivered(y, e) /\ Len(y.outputQueue) = Len(v.outputQueue) + 1
        /\ y.outputQueue[Len(y.outputQueue)] = e /\ ReceiverTypes(y)
    BY <2>1, <2>3, <1>5, OutputDelivers, OutputKeeps
  <2> HIDE DEF y
  <2>5. HasMore(v, y)
    BY <2>1, <2>4, DeliversHasMore
  <2>6. \A k : Has(y, p.id, k)
    BY <2>4, <1>5 DEF Has, IsDelivered
  <2>7. Advances(r, y, p)
    <3>1. Grows(r, y) /\ y.seqRead = v.seqRead
      BY <2>1, <2>4, <1>5 DEF Delivers, Grows
    <3> QED  BY <3>1, <2>1, <2>2, <2>4, <1>5 DEF Advances
  <2>8. \A id, k : Has(x, id, k) => Has(v, id, k)
    BY <2>1 DEF Has
  <2> QED  BY <2>5, <2>6, <2>7, <2>8, <1>5 DEF HasMore, y, v
<1> HIDE DEF passed
<1>6. Unmoved(r, r) /\ HasMore(r, r)
  BY <1>2 DEF Unmoved, Grows, HasMore
<1> SUFFICES Result(Process(r, p))
  OBVIOUS
<1>7. ASSUME p.rel \in Sequenced, Superseded(r, p) PROVE Result(Process(r, p))
  <2>1. Process(r, p) = r
    BY <1>7 DEF Process, Sequence
  <2> QED  BY <2>1, <1>6, <1>7
<1>8. CASE p.cnt = 0
  <2>1. IsIt(Single(p))
    <3>1. Single(p) \in Entry /\ IsWhole(r, Single(p)) /\ Single(p).parts[1] = p.id
      BY <1>8, SingleIsWhole
    <3> QED  BY <3>1 DEF Single, Labelled, Fits, FitsIn
  <2> HIDE DEF Result, Alike, IsIt
  <2>2. ~(p.cnt > 0)
    BY <1>8
  <2>3. CASE p.rel \in Sequenced /\ ~Superseded(r, p)
    <3>1. Process(r, p) = Output(passed(r), Single(p))
      BY <2>2, <2>3, <1>8 DEF Process, Sequence, passed
    <3> QED  BY <3>1, <2>1, <2>3, <1>2, <1>5
  <2>4. CASE p.rel \notin Sequenced
    <3>1. Process(r, p) = OrderOrOutput(r, Single(p))
      BY <2>2, <2>4 DEF Process
    <3> QED  BY <3>1, <2>1, <2>4, <1>2, <1>4
  <2> QED  BY <2>3, <2>4, <1>7
<1>9. CASE p.cnt # 0
  <2> DEFINE w == WithPiece(r, p)  e == Rebuilt(w, p.sid)  x == WithoutSplit(w, p.sid)
  <2>1. /\ ReceiverTypes(w) /\ Content(w) /\ SameWindow(r, w) /\ PiecesHeld(w, p.sid) # {}
        /\ HasMore(r, w) /\ Has(w, p.id, p.idx)
        /\ w.outputQueue = r.outputQueue /\ w.orderingList = r.orderingList
        /\ w.seqRead = r.seqRead
    BY <1>9, WithPieceKeeps, WithPieceHas
  <2> HIDE DEF w
  <2>2. Result(w)
    BY <2>1, <1>2 DEF Unmoved, Grows
  <2>3. Alike(x)
    <3>1. /\ ReceiverTypes(x) /\ Content(x) /\ SameWindow(w, x)
          /\ x.outputQueue = w.outputQueue /\ x.orderingList = w.orderingList
      BY <2>1, WithoutSplitKeeps
    <3>2. /\ \A id, k : Has(w, id, k) => Has(x, id, k) \/ id = p.id
          /\ x.seqRead = w.seqRead
      BY <2>1, <1>9, WithoutSplitHas
    <3>3. SameWindow(r, x)
      BY <3>1, <2>1, Transitive
    <3> HIDE DEF x
    <3> QED  BY <3>1, <3>2, <3>3, <2>1 DEF HasMore
  <2>4. ASSUME IsComplete(w, p.sid) PROVE IsIt(e)
    <3>1. PICK q \in w.splits : q.sid = p.sid
      BY <2>1 DEF PiecesHeld
    <3>2. e \in Entry /\ IsWhole(w, e) /\ e.parts[1] = q.id
      BY <2>1, <2>4, <3>1, RebuiltIsWhole
    <3>3. q.id = p.id
      BY <3>1, <2>1, <1>9, SameSplit
    <3> HIDE DEF e
    <3>4. IsWhole(r, e) /\ Labelled(e, asked[p.id])
      BY <3>2, <3>3, <2>1, SameSettled DEF IsWhole
    <3> QED  BY <3>2, <3>3, <3>4
  <2> HIDE DEF Result, Alike, IsIt
  <2>5. p.cnt > 0 /\ p.cnt # 0
    BY <1>1, <1>9
  <2>6. CASE p.rel \in Sequenced /\ ~Superseded(r, p)
    <3>1. Process(r, p) = IF IsComplete(w, p.sid)
                          THEN Output(WithoutSplit(passed(w), p.sid), e) ELSE w
      BY <2>5, <2>6 DEF Process, Sequence, passed, w, e
    <3>2. WithoutSplit(passed(w), p.sid) = passed(x)
      BY <2>1 DEF WithoutSplit, passed, ReceiverTypes, Receivers, x
    <3> HIDE DEF x, e
    <3> QED  BY <3>1, <3>2, <2>2, <2>3, <2>4, <2>6, <1>5
  <2>7. CASE p.rel \notin Sequenced
    <3>1. Process(r, p) = IF IsComplete(w, p.sid) THEN OrderOrOutput(x, e) ELSE w
      BY <2>5, <2>7 DEF Process, Reassemble, w, e, x
    <3> HIDE DEF x, e
    <3> QED  BY <3>1, <2>2, <2>3, <2>4, <2>7, <1>4
  <2> QED  BY <2>6, <2>7, <1>7
<1> QED  BY <1>8, <1>9

-----------------------------------------------------------------------------
(* The circle of indices *)

LEMMA TurnIs ==
  ASSUME course \in Courses, NEW n \in Orders
  PROVE  /\ Turn(n) \in Nat /\ Turn(n) < OrdMod /\ OrdFirst \in Nat /\ OrdFirst < OrdMod
         /\ \A m \in Orders : Turn(m) = Turn(n) => m = n
<1>1. OrdMod \in Nat \ {0} /\ course.first \in Int
  BY ReliabilityAssumption DEF Courses
<1>2. OrdFirst \in Nat /\ OrdFirst < OrdMod
  BY <1>1 DEF OrdFirst
<1> QED  BY <1>1, <1>2 DEF Turn, Orders

LEMMA TurnNext ==
  ASSUME course \in Courses, NEW n \in Orders, Turn(n) + 1 < OrdMod
  PROVE  (n + 1) % OrdMod \in Orders /\ Turn((n + 1) % OrdMod) = Turn(n) + 1
<1>1. OrdMod \in Nat \ {0} /\ n \in Nat /\ n < OrdMod /\ OrdFirst \in Nat /\ OrdFirst < OrdMod
  BY TurnIs, ReliabilityAssumption DEF Orders
<1> DEFINE x == n + 1
<1>2. x \in (0 - OrdMod)..(2 * OrdMod - 1) /\ ~(x < 0) /\ x = n + 1
  BY <1>1
<1> HIDE DEF x
<1>3. x % OrdMod = IF x >= OrdMod THEN x - OrdMod ELSE x
  BY <1>1, <1>2, Wrapped
<1>4. (n + 1) % OrdMod = IF n + 1 >= OrdMod THEN n + 1 - OrdMod ELSE n + 1
  BY <1>1, <1>3 DEF x
<1> QED  BY <1>1, <1>4 DEF Turn, Orders

\* Within half of the circle, the code's comparison tells older from newer.
LEMMA OlderIs ==
  ASSUME course \in Courses, NEW a \in Orders, NEW w \in Orders,
         Turn(a) < OrdHalf, Turn(w) < OrdHalf
  PROVE  IsOlderOrderedPacket(a, w) <=> Turn(a) < Turn(w)
<1>1. /\ OrdMod \in Nat \ {0} /\ OrdFirst \in Nat /\ OrdFirst < OrdMod
      /\ OrdHalf \in Nat /\ 2 * OrdHalf < OrdMod /\ OrdMod <= 2 * OrdHalf + 2
      /\ a \in Nat /\ a < OrdMod /\ w \in Nat /\ w < OrdMod
  BY TurnIs, OrdHalfIs DEF Orders
<1>2. CASE w > OrdHalf
  <2>1. IsOlderOrderedPacket(a, w) <=> a >= w - OrdHalf + 1 /\ a < w
    BY <1>2 DEF IsOlderOrderedPacket, OrdHalf
  <2> QED  BY <2>1, <1>1, <1>2 DEF Turn
<1>3. CASE ~(w > OrdHalf)
  <2> DEFINE x == w - (OrdHalf + 1)
  <2>1. IsOlderOrderedPacket(a, w) <=> a >= x % OrdMod \/ a < w
    BY <1>3 DEF IsOlderOrderedPacket, OrdHalf
  <2>2. x \in (0 - OrdMod)..(2 * OrdMod - 1) /\ x < 0 /\ x = w - (OrdHalf + 1)
    BY <1>1, <1>3
  <2> HIDE DEF x
  <2>3. x % OrdMod = x + OrdMod
    BY <2>2, <1>1, Wrapped
  <2> QED  BY <2>1, <2>2, <2>3, <1>1, <1>3 DEF Turn
<1> QED  BY <1>2, <1>3

-----------------------------------------------------------------------------
(* Sequenced messages *)

LEMMA UnmovedKeeps ==
  ASSUME NEW r, ReceiverTypes(r), NEW w, ReceiverTypes(w), Unmoved(r, w), SequenceFits(r)
  PROVE  SequenceFits(w)
<1> DEFINE out == r.outputQueue  more == w.outputQueue
<1>1. Len(out) \in Nat /\ Len(more) \in Nat /\ w.seqRead = r.seqRead
  BY DEF ReceiverTypes, Receivers, Unmoved
<1>2. \A i \in 1..Len(out) : i \in 1..Len(more) /\ more[i] = out[i]
  BY <1>1 DEF Unmoved, Grows
<1>3. \A i \in 1..Len(more) : more[i].rel \in Sequenced => i \in 1..Len(out)
  BY <1>1 DEF Unmoved
<1> HIDE DEF out, more
<1>4. \A c \in Channels :
        /\ Turn(w.seqRead[c]) <= Len(asked)
        /\ Turn(w.seqRead[c]) > 0 =>
              \E i \in 1..Len(more) : /\ more[i].rel \in Sequenced /\ more[i].ch = c
                                      /\ Turn(more[i].ord) + 1 = Turn(w.seqRead[c])
  BY <1>1, <1>2 DEF SequenceFits, out
<1>5. \A i \in 1..Len(more) :
        more[i].rel \in Sequenced => Turn(more[i].ord) < Turn(w.seqRead[more[i].ch])
  BY <1>1, <1>2, <1>3 DEF SequenceFits, out
<1>6. \A i, j \in 1..Len(more) :
        /\ i < j
        /\ more[i].rel \in Sequenced /\ more[j].rel \in Sequenced /\ more[i].ch = more[j].ch
        => more[i].parts[1] < more[j].parts[1]
  BY <1>2, <1>3 DEF SequenceFits, out
<1> QED  BY <1>4, <1>5, <1>6 DEF SequenceFits, more

\* A message that is not superseded is newer than what its channel delivered.
LEMMA AdvanceKeeps ==
  ASSUME SenderTypes, AskedTypes, IndicesFit, course \in Courses, IndicesNotRound,
         NEW r, ReceiverTypes(r), OutputFits(r), NEW w, ReceiverTypes(w),
         NEW p \in Message, Fits(p), Advances(r, w, p), SequenceFits(r)
  PROVE  SequenceFits(w)
<1> DEFINE out == r.outputQueue  more == w.outputQueue  n == Len(out) + 1
           e == more[n]  c == p.ch  read == r.seqRead[c]
<1>1. Len(out) \in Nat /\ Len(more) = n
  BY DEF ReceiverTypes, Receivers, Advances
<1>2. \A i \in 1..Len(out) : i \in 1..Len(more) /\ more[i] = out[i]
  BY <1>1 DEF Advances, Grows
<1>3. \A i \in 1..Len(more) : i \in 1..Len(out) \/ i = n
  BY <1>1
<1>4. /\ Labelled(e, asked[p.id]) /\ e.parts[1] = p.id /\ p.rel \in Sequenced /\ ~Superseded(r, p)
      /\ w.seqRead = [r.seqRead EXCEPT ![c] = (p.ord + 1) % OrdMod]
      /\ p.id \in 1..Len(asked) /\ Labelled(p, asked[p.id])
  BY <1>1 DEF Advances, Fits, FitsIn
<1>5. c \in Channels /\ p.ord \in Orders /\ read \in Orders /\ r.seqRead \in [Channels -> Orders]
      /\ e.ch = c /\ e.ord = p.ord /\ e.rel = p.rel
  BY <1>4 DEF Message, ReceiverTypes, Receivers, Labelled
<1>6. w.seqRead[c] = (p.ord + 1) % OrdMod /\ \A d \in Channels : d # c => w.seqRead[d] = r.seqRead[d]
  BY <1>4, <1>5
<1>7. Turn(p.ord) < Len(asked) /\ Turn(p.ord) \in Nat /\ Turn(read) \in Nat /\ Len(asked) \in Nat
  <2>1. Turn(p.ord) < Turn(snd.seqWrite[c])
    BY <1>4, <1>5 DEF IndicesFit, Indexed, NextIndex, Labelled
  <2>2. Turn(snd.seqWrite[c]) <= Len(asked)
    BY <1>5 DEF IndicesFit
  <2>3. Turn(p.ord) \in Nat /\ Turn(read) \in Nat
    BY <1>5, TurnIs
  <2>4. Len(asked) \in Nat
    BY DEF AskedTypes
  <2>5. Turn(snd.seqWrite[c]) \in Int
    BY <1>5, TurnIs DEF SenderTypes, SenderRecord
  <2> QED  BY <2>1, <2>2, <2>3, <2>4, <2>5
<1>8. Turn(p.ord) >= Turn(read)
  <2>1. Turn(p.ord) < OrdHalf /\ Turn(read) < OrdHalf
    <3>1. Turn(read) <= Len(asked) /\ Len(asked) < OrdHalf
      BY <1>5 DEF SequenceFits, IndicesNotRound
    <3> QED  BY <3>1, <1>7, OrdHalfIs
  <2>2. ~(Turn(p.ord) < Turn(read))
    BY <2>1, <1>4, <1>5, OlderIs DEF Superseded
  <2> QED  BY <2>2, <1>7
<1>9. Turn(w.seqRead[c]) = Turn(p.ord) + 1
  <2>1. Turn(p.ord) + 1 < OrdMod
    BY <1>7, OrdHalfIs DEF IndicesNotRound
  <2> QED  BY <2>1, <1>5, <1>6, TurnNext
<1> HIDE DEF out, more, n, e, c, read
<1>10. \A d \in Channels :
        /\ Turn(w.seqRead[d]) <= Len(asked)
        /\ Turn(w.seqRead[d]) > 0 =>
              \E i \in 1..Len(more) : /\ more[i].rel \in Sequenced /\ more[i].ch = d
                                      /\ Turn(more[i].ord) + 1 = Turn(w.seqRead[d])
  <2> TAKE d \in Channels
  <2>1. CASE d # c
    <3>1. Turn(r.seqRead[d]) > 0 =>
              \E i \in 1..Len(out) : /\ out[i].rel \in Sequenced /\ out[i].ch = d
                                     /\ Turn(out[i].ord) + 1 = Turn(r.seqRead[d])
      BY DEF SequenceFits, out
    <3>2. Turn(r.seqRead[d]) <= Len(asked)
      BY DEF SequenceFits
    <3> QED  BY <3>1, <3>2, <2>1, <1>2, <1>6
  <2>2. CASE d = c
    <3>1. n \in 1..Len(more)
      BY <1>1 DEF n
    <3>2. more[n].rel \in Sequenced /\ more[n].ch = d /\ Turn(more[n].ord) + 1 = Turn(w.seqRead[d])
      BY <2>2, <1>4, <1>5, <1>9 DEF e
    <3>3. Turn(w.seqRead[d]) <= Len(asked)
      BY <2>2, <1>7, <1>9
    <3> QED  BY <3>1, <3>2, <3>3
  <2> QED  BY <2>1, <2>2
<1>11. ASSUME NEW i \in 1..Len(out), out[i].rel \in Sequenced, out[i].ch = c
       PROVE  Turn(out[i].ord) < Turn(p.ord) /\ out[i].parts[1] < p.id
  <2> DEFINE o == out[i]  id == o.parts[1]
  <2>1. Turn(o.ord) < Turn(read)
    BY <1>11 DEF SequenceFits, out, read
  <2>2. id \in 1..Len(asked) /\ Labelled(o, asked[id]) /\ o.ord \in Orders
    <3>1. o \in Entry
      BY <1>11, ElementOfSeq DEF ReceiverTypes, Receivers, out
    <3> QED  BY <3>1, <1>11 DEF OutputFits, IsWhole, out, Entry
  <2>3. Turn(o.ord) \in Nat
    BY <2>2, TurnIs
  <2>4. Turn(o.ord) < Turn(p.ord)
    BY <2>1, <2>3, <1>7, <1>8
  <2>5. /\ asked[id].as \in Indexed /\ asked[p.id].as \in Indexed /\ SameLine(asked[id], asked[p.id])
        /\ SameLine(asked[p.id], asked[id]) /\ asked[id].ord = o.ord /\ asked[p.id].ord = p.ord
    BY <2>2, <1>4, <1>5, <1>11 DEF Labelled, Indexed, SameLine
  <2> HIDE DEF o, id
  <2>6. ~(p.id < id)
    <3>1. p.id < id => Turn(asked[p.id].ord) < Turn(asked[id].ord)
      BY <2>2, <2>5, <1>4 DEF IndicesFit
    <3> QED  BY <3>1, <2>3, <2>4, <2>5, <1>7
  <2>7. p.id # id
    BY <2>3, <2>4, <2>5
  <2>8. p.id \in Int /\ id \in Int
    BY <2>2, <1>4, <1>7
  <2>9. id < p.id
    BY <2>6, <2>7, <2>8
  <2> QED  BY <2>4, <2>9 DEF o, id
<1>12. \A i \in 1..Len(more) :
        more[i].rel \in Sequenced => Turn(more[i].ord) < Turn(w.seqRead[more[i].ch])
  <2> SUFFICES ASSUME NEW i \in 1..Len(more), more[i].rel \in Sequenced
               PROVE  Turn(more[i].ord) < Turn(w.seqRead[more[i].ch])
    OBVIOUS
  <2>1. CASE i = n
    BY <2>1, <1>5, <1>7, <1>9 DEF e
  <2>2. CASE i \in 1..Len(out)
    <3>1. more[i] = out[i] /\ out[i] \in Entry
      BY <2>2, <1>2, ElementOfSeq DEF ReceiverTypes, Receivers, out
    <3>2. out[i].ch \in Channels /\ Turn(out[i].ord) \in Nat
      BY <3>1, TurnIs DEF Entry
    <3>3. CASE out[i].ch = c
      BY <3>1, <3>2, <3>3, <2>2, <1>7, <1>9, <1>11
    <3>4. CASE out[i].ch # c
      BY <3>1, <3>2, <3>4, <2>2, <1>6 DEF SequenceFits, out
    <3> QED  BY <3>3, <3>4
  <2> QED  BY <2>1, <2>2, <1>3
<1>13. ASSUME NEW i \in 1..Len(more), NEW j \in 1..Len(more), i < j,
              more[i].rel \in Sequenced, more[j].rel \in Sequenced, more[i].ch = more[j].ch
       PROVE  more[i].parts[1] < more[j].parts[1]
  <2>1. i \in 1..Len(out) /\ more[i] = out[i]
    <3>1. i # n
      BY <1>1, <1>13 DEF n
    <3> QED  BY <3>1, <1>2, <1>3
  <2>2. CASE j = n
    BY <2>1, <2>2, <1>4, <1>5, <1>11, <1>13 DEF e
  <2>3. CASE j \in 1..Len(out)
    BY <2>1, <2>3, <1>2, <1>13 DEF SequenceFits, out
  <2> QED  BY <2>2, <2>3, <1>3
<1> QED  BY <1>10, <1>12, <1>13 DEF SequenceFits, more

LEMMA HandleMessageSequence ==
  ASSUME SenderTypes, SenderInv, NotRound, IndicesFit, IndicesNotRound,
         NEW r, ReceiverInv(r), SequenceFits(r), NEW p \in Message, p \in Sent
  PROVE  SequenceFits(HandleMessage(r, p))
<1>1. /\ AskedTypes /\ SplitIds /\ Fits(p) /\ \A o \in Sent : o.num \in CircleNumbers
      /\ course \in Courses
  BY SenderFacts DEF Course
<1>2. CASE IsDuplicate(r, p) \/ TooFar(r, p)
  <2>1. HandleMessage(r, p) = Acked(r, p) /\ SameRest(r, Acked(r, p))
    BY <1>1, <1>2, AckedKeeps DEF HandleMessage
  <2> HIDE DEF HandleMessage
  <2> QED  BY <2>1 DEF SameRest, SequenceFits
<1>3. CASE ~(IsDuplicate(r, p) \/ TooFar(r, p))
  <2> DEFINE w == PopExpired(Marked(Acked(r, p), p))  x == Process(w, p)
  <2>1. /\ ReceiverTypes(w) /\ Content(w) /\ Settled(w, p.id, p.idx) /\ NoneOf(w, p.id)
        /\ \A q \in w.splits : ~(q.id = p.id /\ q.idx = p.idx)
        /\ SameRest(r, w) /\ HandleMessage(r, p) = Process(w, p)
    BY <1>3, MessageIsNew
  <2> HIDE DEF w
  <2>2. SequenceFits(w)
    BY <2>1 DEF SameRest, SequenceFits
  <2>3. ReceiverTypes(x)
    BY <2>1, <1>1, ProcessKeeps
  <2>4. Unmoved(w, x) \/ Advances(w, x, p)
    BY <2>1, <1>1, ProcessMoves
  <2> HIDE DEF x
  <2>5. SequenceFits(x)
    BY <2>1, <2>2, <2>3, <2>4, <1>1, UnmovedKeeps, AdvanceKeeps DEF Content
  <2> QED  BY <2>1, <2>5 DEF x
<1> QED  BY <1>2, <1>3

LEMMA HandleAllSequence ==
  ASSUME SenderTypes, SenderInv, NotRound, IndicesFit, IndicesNotRound,
         ReceiverInv(rcv), SequenceFits(rcv), NEW d \in wire
  PROVE  SequenceFits(HandleAll(d))
<1> DEFINE V == {r \in Receivers : ReceiverInv(r) /\ SequenceFits(r)}
<1>1. rcv \in V
  BY DEF ReceiverInv, ReceiverTypes
<1>2. ASSUME NEW r \in V, NEW p \in Message, p \in Sent PROVE HandleMessage(r, p) \in V
  <2>1. ReceiverInv(HandleMessage(r, p)) /\ SequenceFits(HandleMessage(r, p))
    BY <1>2, HandleMessageKeeps, HandleMessageSequence
  <2> QED  BY <2>1 DEF ReceiverInv, ReceiverTypes
<1> HIDE DEF V
<1>3. HandleAll(d) \in V
  BY <1>1, <1>2, HandleAllIn
<1> QED  BY <1>3 DEF V

-----------------------------------------------------------------------------
(* The steps and the order of sequenced messages *)

LEMMA SequenceCarried ==
  ASSUME NEW r, ReceiverTypes(r), SequenceFits(r), rcv' = r, SenderTypes, SenderTypes', SettledStays
  PROVE  SequenceFits(rcv)'
<1>1. \A n : Turn(n)' = Turn(n)
  BY DEF Turn, OrdFirst, SettledStays
<1>2. Len(asked) \in Nat /\ Len(asked') \in Nat /\ Len(asked) <= Len(asked')
  BY DEF SenderTypes, SettledStays
<1>3. \A c \in Channels : Turn(r.seqRead[c]) \in Nat
  BY TurnIs DEF ReceiverTypes, Receivers, SenderTypes
<1>4. \A c \in Channels : Turn(r.seqRead[c]) <= Len(asked')
  BY <1>2, <1>3 DEF SequenceFits
<1> QED  BY <1>1, <1>4 DEF SequenceFits

LEMMA SendIndices ==
  ASSUME SenderTypes, SenderTypes', NEW m \in Menu, Send(m), IndicesFit, IndicesNotRound'
  PROVE  IndicesFit'
<1> DEFINE n == Len(asked)
           rel == Upgraded(m.rel)
           ch == m.ch
           rec == [rel |-> m.rel, as |-> rel, ch |-> ch, ord |-> IndexFor(rel, ch),
                   cnt |-> IF m.size > Whole THEN Len(Pieces(Packet(m, n + 1))) ELSE 1,
                   sid |-> IF m.size > Whole THEN snd.splitPacketId ELSE Unsplit]
           seq == snd.seqWrite[ch]
           ord == snd.ordWrite[ch]
<1>1. ch \in Channels /\ m.rel \in Reliability
  BY ReliabilityAssumption DEF SenderTypes, Menu, Reliability
<1>2. /\ asked \in Seq(AskedRecord) /\ n \in Nat /\ snd \in SenderRecord /\ course \in Courses
      /\ snd.seqWrite \in [Channels -> Orders] /\ snd.ordWrite \in [Channels -> Orders]
      /\ \A c \in Channels : snd.seqWrite[c] \in Orders /\ snd.ordWrite[c] \in Orders
  BY DEF SenderTypes, SenderRecord
<1>3. course'.first = course.first
  BY <1>2 DEF Send, Courses
<1>4. \A x : Turn(x)' = Turn(x)
  BY <1>3 DEF Turn, OrdFirst
<1>5. asked' = Append(asked, rec)
  BY DEF Send, Packet
<1>6. snd' = [snd EXCEPT
        !.splitPacketId = NextSplitId(Packet(m, n + 1)),
        !.seqWrite[ch] = IF rel \in Sequenced THEN (@ + 1) % OrdMod ELSE @,
        !.ordWrite[ch] = IF rel = "RELIABLE_ORDERED" THEN (@ + 1) % OrdMod ELSE @]
  BY DEF Send, Packet
<1>7. /\ snd'.seqWrite = [snd.seqWrite EXCEPT ![ch] = IF rel \in Sequenced THEN (@ + 1) % OrdMod ELSE @]
      /\ snd'.ordWrite = [snd.ordWrite EXCEPT ![ch] = IF rel = "RELIABLE_ORDERED"
                                                      THEN (@ + 1) % OrdMod ELSE @]
  BY <1>6, <1>2 DEF SenderRecord
<1>8. rec.as = rel /\ rec.ch = ch /\ rec.ord = IndexFor(rel, ch)
  OBVIOUS
<1>9. /\ Len(asked') = n + 1 /\ asked'[n + 1] = rec /\ \A i \in 1..n : asked'[i] = asked[i]
      /\ \A i \in 1..Len(asked') : i \in 1..n \/ i = n + 1
  BY <1>2, <1>5
<1>10. n + 1 < OrdHalf
  BY <1>9 DEF IndicesNotRound, OrdHalf
<1> HIDE DEF rec, rel, ch, seq, ord
<1>11. \A c \in Channels : /\ Turn(snd.seqWrite[c]) \in Nat /\ Turn(snd.ordWrite[c]) \in Nat
                           /\ Turn(snd.seqWrite[c]) <= n /\ Turn(snd.ordWrite[c]) <= n
  BY <1>2, TurnIs DEF IndicesFit
<1>12. /\ Turn((seq + 1) % OrdMod) = Turn(seq) + 1 /\ Turn((ord + 1) % OrdMod) = Turn(ord) + 1
  <2>1. seq \in Orders /\ ord \in Orders
    BY <1>1, <1>2 DEF seq, ord
  <2>2. Turn(seq) + 1 < OrdMod /\ Turn(ord) + 1 < OrdMod
    <3>1. /\ Turn(seq) \in Nat /\ Turn(ord) \in Nat /\ Turn(seq) <= n /\ Turn(ord) <= n
      BY <1>1, <1>11 DEF seq, ord
    <3> QED  BY <3>1, <1>2, <1>10, OrdHalfIs
  <2> QED  BY <2>1, <2>2, <1>2, TurnNext
<1>13. /\ Turn(snd'.seqWrite[ch]) = IF rel \in Sequenced THEN Turn(seq) + 1 ELSE Turn(seq)
       /\ Turn(snd'.ordWrite[ch]) = IF rel = "RELIABLE_ORDERED" THEN Turn(ord) + 1 ELSE Turn(ord)
       /\ \A c \in Channels : c # ch => /\ snd'.seqWrite[c] = snd.seqWrite[c]
                                        /\ snd'.ordWrite[c] = snd.ordWrite[c]
  BY <1>1, <1>2, <1>7, <1>12 DEF seq, ord
<1>14. \A c \in Channels :
         /\ Turn(snd'.seqWrite[c]) \in Nat /\ Turn(snd'.ordWrite[c]) \in Nat
         /\ Turn(snd'.seqWrite[c]) <= n + 1 /\ Turn(snd'.ordWrite[c]) <= n + 1
         /\ Turn(snd'.seqWrite[c]) >= Turn(snd.seqWrite[c])
         /\ Turn(snd'.ordWrite[c]) >= Turn(snd.ordWrite[c])
  BY <1>1, <1>2, <1>11, <1>13 DEF seq, ord
\* What was asked before has an index before that of its counter.
<1> DEFINE next(a) == IF a.as \in Sequenced THEN snd'.seqWrite[a.ch] ELSE snd'.ordWrite[a.ch]
<1>15. ASSUME NEW i \in 1..n, asked[i].as \in Indexed
       PROVE  /\ Turn(asked[i].ord) \in Nat /\ Turn(asked[i].ord) < Turn(NextIndex(asked[i]))
              /\ Turn(asked[i].ord) < Turn(next(asked[i])) /\ asked[i].ch \in Channels
  <2>1. asked[i].ord \in Orders /\ asked[i].ch \in Channels
    <3>1. asked[i] \in AskedRecord
      BY <1>2, ElementOfSeq
    <3> QED  BY <3>1 DEF AskedRecord
  <2>2. Turn(asked[i].ord) \in Nat
    BY <2>1, <1>2, TurnIs
  <2>3. Turn(asked[i].ord) < Turn(NextIndex(asked[i]))
    BY <1>15 DEF IndicesFit
  <2>4. Turn(asked[i].ord) < Turn(next(asked[i]))
    BY <2>1, <2>2, <2>3, <1>11, <1>14 DEF NextIndex
  <2> QED  BY <2>1, <2>2, <2>3, <2>4
\* The new index is the last one of its counter.
<1>16. rel \in Indexed =>
         /\ Turn(rec.ord) \in Nat /\ Turn(rec.ord) < Turn(next(rec))
         /\ Turn(rec.ord) = IF rel \in Sequenced THEN Turn(seq) ELSE Turn(ord)
  <2>1. /\ rel \in Sequenced => rec.ord = seq
        /\ rel = "RELIABLE_ORDERED" => rec.ord = ord /\ rel \notin Sequenced
    BY <1>8 DEF IndexFor, seq, ord, Sequenced
  <2>2. Turn(seq) \in Nat /\ Turn(ord) \in Nat
    BY <1>1, <1>11 DEF seq, ord
  <2> QED  BY <2>1, <2>2, <1>8, <1>13 DEF Indexed
<1>17. ASSUME NEW i \in 1..n, asked[i].as \in Indexed, rel \in Indexed, SameLine(asked[i], rec)
       PROVE  Turn(asked[i].ord) < Turn(rec.ord)
  <2>1. /\ Turn(asked[i].ord) < Turn(IF asked[i].as \in Sequenced THEN snd.seqWrite[asked[i].ch]
                                     ELSE snd.ordWrite[asked[i].ch])
    BY <1>15, <1>17 DEF NextIndex
  <2>2. asked[i].ch = ch /\ (asked[i].as \in Sequenced <=> rel \in Sequenced)
    BY <1>8, <1>17 DEF SameLine
  <2> QED  BY <2>1, <2>2, <1>16, <1>17 DEF seq, ord
<1>18. \A c \in Channels : /\ Turn(snd'.seqWrite[c]) <= Len(asked')
                           /\ Turn(snd'.ordWrite[c]) <= Len(asked')
  BY <1>9, <1>14
<1>19. ASSUME NEW i \in 1..Len(asked'), asked'[i].as \in Indexed
       PROVE  Turn(asked'[i].ord) < Turn(next(asked'[i]))
  <2>1. CASE i \in 1..n
    BY <2>1, <1>9, <1>15, <1>19
  <2>2. CASE i = n + 1
    BY <2>2, <1>8, <1>9, <1>16, <1>19
  <2> QED  BY <2>1, <2>2, <1>9
<1>20. ASSUME NEW i \in 1..Len(asked'), NEW j \in 1..Len(asked'), i < j, asked'[i].as \in Indexed,
              asked'[j].as \in Indexed, SameLine(asked'[i], asked'[j])
       PROVE  Turn(asked'[i].ord) < Turn(asked'[j].ord)
  <2>1. i \in 1..n /\ asked'[i] = asked[i]
    <3>1. i # n + 1
      BY <1>2, <1>9, <1>20
    <3> QED  BY <3>1, <1>9
  <2>2. CASE j \in 1..n
    BY <2>1, <2>2, <1>9, <1>20 DEF IndicesFit
  <2>3. CASE j = n + 1
    <3>1. asked'[j] = rec
      BY <2>3, <1>9
    <3>2. rel \in Indexed
      BY <3>1, <1>8, <1>20
    <3> QED  BY <2>1, <3>1, <3>2, <1>17, <1>20
  <2> QED  BY <2>2, <2>3, <1>9
<1> QED  BY <1>4, <1>18, <1>19, <1>20 DEF IndicesFit, NextIndex, SameLine

\* The other steps leave the indices alone.
LEMMA IndicesCarried ==
  ASSUME SenderTypes, IndicesFit, UNCHANGED <<asked, course.first, snd.seqWrite, snd.ordWrite>>
  PROVE  IndicesFit'
BY DEF IndicesFit, NextIndex, SameLine, Turn, OrdFirst

LEMMA IndicesUnchanged ==
  ASSUME SenderTypes, [Next]_vars, ~\E m \in Menu : Send(m)
  PROVE  UNCHANGED <<asked, course.first, snd.seqWrite, snd.ordWrite>>
<1>1. CASE GenerateDatagram
  BY <1>1 DEF GenerateDatagram, SenderTypes, SenderRecord, Courses
<1>2. CASE \/ DieOfSilence \/ SendAcks \/ Lose \/ ForgetSplit \/ Mature \/ UNCHANGED vars
           \/ (\E d \in wire : Receive(d))
  BY <1>2 DEF DieOfSilence, SendAcks, Lose, ForgetSplit, Mature, Receive, vars,
              SenderTypes, SenderRecord
<1>3. CASE Tick \/ (\E a \in acksOnWire : ReceiveAcks(a))
  <2>1. UNCHANGED <<asked, course>>
    BY <1>3 DEF Tick, ReceiveAcks
  <2>2. \E s : snd' = [snd EXCEPT !.silence = s]
    BY <1>3 DEF Tick, ReceiveAcks
  <2> QED  BY <2>1, <2>2 DEF SenderTypes, SenderRecord
<1> QED  BY <1>1, <1>2, <1>3 DEF Next

LEMMA StepSequence ==
  ASSUME SenderTypes, SenderInv, NotRound, IndicesFit, IndicesNotRound,
         ReceiverInv(rcv), SequenceFits(rcv), [Next]_vars
  PROVE  \E r : SequenceFits(r) /\ rcv' = r
<1>1. CASE \/ rcv' = rcv
           \/ /\ rcv'.outputQueue = rcv.outputQueue /\ rcv'.seqRead = rcv.seqRead
  <2>1. PICK r : r = rcv'
    OBVIOUS
  <2> QED  BY <2>1, <1>1 DEF SequenceFits
<1>2. CASE \E d \in wire : Receive(d)
  BY <1>2, HandleAllSequence DEF Receive
<1>3. CASE (\E m \in Menu : Send(m)) \/ GenerateDatagram \/ DieOfSilence \/ Lose \/ Mature
           \/ (\E a \in acksOnWire : ReceiveAcks(a)) \/ UNCHANGED vars
  BY <1>3, <1>1 DEF Send, GenerateDatagram, DieOfSilence, Lose, Mature, ReceiveAcks, vars
<1>4. CASE SendAcks \/ ForgetSplit \/ Tick
  <2>1. rcv'.outputQueue = rcv.outputQueue /\ rcv'.seqRead = rcv.seqRead
    BY <1>4 DEF SendAcks, ForgetSplit, WithoutSplit, Tick, ReceiverInv, ReceiverTypes, Receivers
  <2> QED  BY <2>1, <1>1
<1> QED  BY <1>2, <1>3, <1>4 DEF Next

\* No step puts the indices or what is waited for out of order.
LEMMA SequenceStep ==
  ASSUME Inv, Inv', SequenceInv, [Next]_vars
  PROVE  SequenceInv'
<1>1. SenderTypes /\ SenderTypes' /\ SettledStays
  BY EveryStep DEF Inv
<1> SUFFICES ASSUME NotRound', IndicesNotRound' PROVE IndicesFit' /\ SequenceFits(rcv)'
  BY DEF SequenceInv
<1>2. NotRound /\ IndicesNotRound
  BY <1>1, EveryStep
<1>3. SenderInv /\ ReceiverInv(rcv) /\ IndicesFit /\ SequenceFits(rcv)
  BY <1>2 DEF Inv, SequenceInv
<1>4. IndicesFit'
  <2>1. CASE \E m \in Menu : Send(m)
    BY <2>1, <1>1, <1>3, SendIndices
  <2>2. CASE ~\E m \in Menu : Send(m)
    BY <2>2, <1>1, <1>3, IndicesUnchanged, IndicesCarried
  <2> QED  BY <2>1, <2>2
<1>5. PICK r : SequenceFits(r) /\ rcv' = r
  BY <1>1, <1>2, <1>3, StepSequence
<1>6. ReceiverTypes(r)
  <2>1. ReceiverTypes(rcv)'
    BY DEF Inv, ReceiverInv
  <2> QED  BY <2>1, <1>5 DEF ReceiverTypes, Receivers
<1>7. SequenceFits(rcv)'
  BY <1>1, <1>5, <1>6, SequenceCarried
<1> QED  BY <1>4, <1>7

LEMMA SequenceAtStart ==
  ASSUME Init
  PROVE  SequenceInv
<1>1. PICK n \in plan.starts : /\ snd = SenderStart(n) /\ rcv = ReceiverStart(n)
                               /\ course = [first |-> n, count |-> 0, splits |-> 0]
  BY DEF Init
<1>2. asked = <<>> /\ Len(asked) = 0
  BY DEF Init
<1>3. n % OrdMod \in Nat
  <2>1. n \in Nat /\ OrdMod \in Nat \ {0}
    BY ReliabilityAssumption DEF Init
  <2> QED  BY <2>1
<1>4. Turn(n % OrdMod) = 0
  BY <1>1, <1>3 DEF Turn, OrdFirst
<1>5. IndicesFit
  BY <1>1, <1>2, <1>4 DEF IndicesFit, SenderStart
<1>6. SequenceFits(rcv)
  BY <1>1, <1>2, <1>4 DEF SequenceFits, ReceiverStart
<1> QED  BY <1>5, <1>6 DEF SequenceInv

\* As long as fewer than half of the ordering indices are used up, indices tell older
\* from newer, and what a channel waits for is newer than all it delivered.
THEOREM SequenceInvariant == Spec => []SequenceInv
<1>1. Init => SequenceInv
  BY SequenceAtStart
<1>2. Inv /\ Inv' /\ SequenceInv /\ [Next]_vars => SequenceInv'
  BY SequenceStep
<1> QED  BY <1>1, <1>2, ReliabilityInvariant, PTL DEF Spec

-----------------------------------------------------------------------------
(* What was received is safe *)

\* How far ahead of what is waited for a number is.
LEMMA HoleCountIs ==
  ASSUME Course, NEW r, ReceiverTypes(r), Window(r), NEW p,
         p.num \in CircleNumbers, Place(p.num) < course.count
  PROVE  /\ HoleCount(r, p) \in Nat /\ Place(p.num) \in Nat
         /\ Place(r.receivedPacketsBaseIndex) \in Nat
         /\ HoleCount(r, p) <= Half =>
              HoleCount(r, p) = Place(p.num) - Place(r.receivedPacketsBaseIndex)
         /\ HoleCount(r, p) > Half => Place(p.num) < Place(r.receivedPacketsBaseIndex)
<1> DEFINE b == r.receivedPacketsBaseIndex  n == p.num  x == n - b  y == x % NumMod
<1>1. course.first \in CircleNumbers /\ course.count \in Nat /\ course.count <= Half
  BY DEF Course, Courses, CircleNumbers
<1>2. b \in CircleNumbers /\ n \in CircleNumbers /\ Len(r.hasReceivedPacketQueue) \in Nat
  BY DEF ReceiverTypes, Receivers, CircleNumbers
<1>3. Place(b) \in Nat /\ Place(n) \in Nat
  BY <1>1, <1>2, PlaceIs
<1>4. Place(b) <= Half /\ Place(n) <= Half /\ Half \in Nat
  <2>1. Place(b) + Len(r.hasReceivedPacketQueue) <= course.count
    BY DEF Window
  <2> QED  BY <2>1, <1>1, <1>2, <1>3, HalfIsLess
<1>5. y \in Nat /\ (y <= Half => y = Place(n) - Place(b))
  BY <1>1, <1>2, <1>4, HoleIs
<1>6. Place(b) <= Place(n) => y = Place(n) - Place(b)
  <2>1. /\ NumMod \in Nat \ {0} /\ 2 * Half < NumMod
        /\ x \in (0 - NumMod)..(2 * NumMod - 1) /\ x \in Int
        /\ n \in Nat /\ b \in Nat /\ course.first \in Nat
        /\ n < NumMod /\ b < NumMod /\ course.first < NumMod
    BY <1>1, <1>2, HalfIsLess DEF CircleNumbers
  <2> HIDE DEF x
  <2>2. y = IF x < 0 THEN x + NumMod ELSE IF x >= NumMod THEN x - NumMod ELSE x
    BY <2>1, Wrapped
  <2> HIDE DEF y
  <2> QED  BY <1>4, <2>1, <2>2 DEF Place, x
<1> HIDE DEF x, y
<1>7. HoleCount(r, p) = y
  BY DEF HoleCount, y, x
<1> QED  BY <1>3, <1>4, <1>5, <1>6, <1>7

\* A duplicate was received before.
LEMMA DuplicateIsReceived ==
  ASSUME Course, NEW r, ReceiverTypes(r), Window(r), NEW p,
         p.num \in CircleNumbers, Place(p.num) < course.count, IsDuplicate(r, p)
  PROVE  IsReceived(r, p.num)
<1> DEFINE h == HoleCount(r, p)  q == r.hasReceivedPacketQueue
<1>1. /\ h \in Nat /\ Place(p.num) \in Nat /\ Place(r.receivedPacketsBaseIndex) \in Nat
      /\ h <= Half => h = Place(p.num) - Place(r.receivedPacketsBaseIndex)
      /\ h > Half => Place(p.num) < Place(r.receivedPacketsBaseIndex)
  BY HoleCountIs
<1>2. h > Half \/ (h < Len(q) /\ q[h + 1] = Got)
  BY DEF IsDuplicate, Half
<1> HIDE DEF h, q
<1>3. CASE h > Half
  BY <1>1, <1>3 DEF IsReceived
<1>4. CASE ~(h > Half)
  BY <1>1, <1>2, <1>4, HalfIsLess DEF IsReceived, q
<1> QED  BY <1>3, <1>4

\* Within reach, no message is dropped for being too far ahead.
LEMMA NotTooFar ==
  ASSUME Course, NEW r, ReceiverTypes(r), Window(r), InReach(r), NEW p,
         p.num \in CircleNumbers, Place(p.num) < course.count, ~IsDuplicate(r, p)
  PROVE  ~TooFar(r, p)
<1> DEFINE h == HoleCount(r, p)
<1>1. /\ h \in Nat /\ Place(p.num) \in Nat /\ Place(r.receivedPacketsBaseIndex) \in Nat
      /\ h <= Half => h = Place(p.num) - Place(r.receivedPacketsBaseIndex)
  BY HoleCountIs
<1>2. ~(h > Half)
  BY DEF IsDuplicate, Half
<1>3. course.count - Place(r.receivedPacketsBaseIndex) <= HoleLimit
  BY DEF InReach
<1> HIDE DEF h
<1>4. ~(h > HoleLimit)
  BY <1>1, <1>2, <1>3, HalfIsLess, ReliabilityAssumption DEF Course, Courses
<1> QED  BY <1>4 DEF TooFar, h

\* What was received stays received, so the window does not go back.
LEMMA ReachKept ==
  ASSUME Course, NEW r, ReceiverTypes(r), NEW w, ReceiverTypes(w), Window(w), Keeps(r, w)
  PROVE  Place(r.receivedPacketsBaseIndex) <= Place(w.receivedPacketsBaseIndex)
<1> DEFINE b == r.receivedPacketsBaseIndex  c == w.receivedPacketsBaseIndex
           q == w.hasReceivedPacketQueue
<1>1. /\ b \in CircleNumbers /\ c \in CircleNumbers /\ course.first \in CircleNumbers
      /\ q \in Seq(Nat) /\ Len(q) \in Nat
  BY DEF ReceiverTypes, Receivers, CircleNumbers, Course, Courses
<1>2. Place(b) \in Nat /\ Place(c) \in Nat
  BY <1>1, PlaceIs
<1>3. ASSUME Place(c) < Place(b) PROVE FALSE
  <2>1. IsReceived(r, c)
    BY <1>2, <1>3 DEF IsReceived
  <2>2. IsReceived(w, c)
    BY <1>1, <2>1 DEF Keeps
  <2>3. 0 < Len(q) /\ q[0 + 1] = Got
    BY <1>2, <2>2 DEF IsReceived
  <2> QED  BY <1>1, <2>3 DEF Window
<1> QED  BY <1>2, <1>3

\* What is dropped as superseded, a newer message made pointless.
LEMMA SupersededIsPointless ==
  ASSUME SenderTypes, IndicesFit, IndicesNotRound, NEW r, ReceiverTypes(r), OutputFits(r),
         SequenceFits(r), NEW p \in Message, Fits(p), NoneOf(r, p.id),
         p.rel = "RELIABLE_SEQUENCED", Superseded(r, p)
  PROVE  Pointless(r, p.id)
<1> DEFINE out == r.outputQueue  c == p.ch  read == r.seqRead[c]
<1>1. /\ c \in Channels /\ p.ord \in Orders /\ read \in Orders /\ course \in Courses
      /\ p.rel \in Sequenced /\ p.rel \in Indexed
      /\ p.id \in 1..Len(asked) /\ Labelled(p, asked[p.id]) /\ Len(asked) \in Nat
  BY DEF Message, ReceiverTypes, Receivers, SenderTypes, Sequenced, Indexed, Fits, FitsIn
<1>2. Turn(p.ord) \in Nat /\ Turn(read) \in Nat /\ Turn(snd.seqWrite[c]) \in Nat
  <2>1. snd.seqWrite[c] \in Orders
    BY <1>1 DEF SenderTypes, SenderRecord
  <2> QED  BY <1>1, <2>1, TurnIs
<1>3. Turn(p.ord) < Len(asked) /\ Turn(read) <= Len(asked)
  <2>1. Turn(p.ord) < Turn(snd.seqWrite[c]) /\ Turn(snd.seqWrite[c]) <= Len(asked)
    BY <1>1 DEF IndicesFit, NextIndex, Labelled
  <2>2. Turn(read) <= Len(asked)
    BY <1>1 DEF SequenceFits
  <2> QED  BY <1>1, <1>2, <2>1, <2>2
<1>4. Turn(p.ord) < Turn(read)
  <2>1. Turn(p.ord) < OrdHalf /\ Turn(read) < OrdHalf
    BY <1>1, <1>2, <1>3, OrdHalfIs DEF IndicesNotRound
  <2> QED  BY <2>1, <1>1, OlderIs DEF Superseded
<1>5. PICK i \in 1..Len(out) : /\ out[i].rel \in Sequenced /\ out[i].ch = c
                               /\ Turn(out[i].ord) + 1 = Turn(read)
  <2>1. Turn(read) > 0
    BY <1>2, <1>4
  <2> QED  BY <2>1, <1>1 DEF SequenceFits
<1> DEFINE o == out[i]  id == o.parts[1]
<1>6. id \in 1..Len(asked) /\ Labelled(o, asked[id]) /\ o.ord \in Orders /\ id # p.id
  <2>1. o \in Entry
    BY ElementOfSeq DEF ReceiverTypes, Receivers
  <2> QED  BY <2>1 DEF OutputFits, IsWhole, Entry, NoneOf
<1> HIDE DEF out, c, read
<1>7. Turn(o.ord) \in Nat
  BY <1>1, <1>6, TurnIs
<1>8. /\ asked[id].as \in Sequenced /\ asked[id].as \in Indexed /\ asked[id].ch = asked[p.id].ch
      /\ SameLine(asked[id], asked[p.id]) /\ asked[id].ord = o.ord /\ asked[p.id].ord = p.ord
      /\ asked[p.id].as \in Indexed /\ asked[p.id].as = "RELIABLE_SEQUENCED"
  BY <1>1, <1>5, <1>6 DEF Labelled, Indexed, SameLine, c
<1>9. ~(id < p.id)
  <2>1. id < p.id => Turn(asked[id].ord) < Turn(asked[p.id].ord)
    BY <1>1, <1>6, <1>8 DEF IndicesFit
  <2> QED  BY <2>1, <1>2, <1>4, <1>5, <1>7, <1>8
<1> HIDE DEF o, id
<1>10. id > p.id
  BY <1>1, <1>6, <1>9
<1> QED  BY <1>8, <1>10 DEF Pointless, o, id, out

\* Processing a message adds no acknowledgement.
LEMMA ProcessAcks ==
  ASSUME NEW r, ReceiverTypes(r), NEW p \in Message
  PROVE  Process(r, p).acknowlegements = r.acknowlegements
<1> DEFINE Same(w) == "acknowlegements" \in DOMAIN w /\ w.acknowlegements = r.acknowlegements
<1>1. Same(r)
  BY DEF ReceiverTypes, Receivers
<1>2. ASSUME NEW w, Same(w), NEW x, NEW f \in {"outputQueue", "seqRead", "ordRead", "orderingList", "splits"}
      PROVE  Same([w EXCEPT ![f] = x])
  BY <1>2
<1>3. \A w : Same(w) => \A x : /\ Same([w EXCEPT !.outputQueue = x]) /\ Same([w EXCEPT !.seqRead = x])
                              /\ Same([w EXCEPT !.ordRead = x]) /\ Same([w EXCEPT !.splits = x])
                              /\ Same([w EXCEPT !.orderingList = x])
  BY <1>2
<1>4. \A w : Same(w) =>
        \A x, y, z : Same([w EXCEPT !.outputQueue = x, !.ordRead = y, !.orderingList = z])
  OBVIOUS
<1> HIDE DEF Same
<1>5. \A w : Same(w) => \A e : Same(Output(w, e))
  BY <1>3 DEF Output
<1>6. \A w : Same(w) => Same(WithPiece(w, p)) /\ \A s : Same(WithoutSplit(w, s))
  BY <1>3 DEF WithPiece, WithoutSplit
<1>7. ASSUME NEW w, Same(w), NEW c PROVE Same(Drain(w, c))
  <2> DEFINE u(x, y, z) == [w EXCEPT !.outputQueue = x, !.ordRead = y, !.orderingList = z]
  <2>1. \E x, y, z : Drain(w, c) = u(x, y, z)
    BY Zenon DEF Drain
  <2>2. \A x, y, z : Same(u(x, y, z))
    BY <1>4, <1>7
  <2> HIDE DEF u
  <2> QED  BY <2>1, <2>2
<1>8. ASSUME NEW w, Same(w), NEW e PROVE Same(OrderOrOutput(w, e))
  <2> DEFINE x == Output(w, e)  y == [x EXCEPT !.ordRead[e.ch] = (@ + 1) % OrdMod]
             z == [w EXCEPT !.orderingList[e.ch] = @ \union {e}]
  <2>1. Same(x)
    BY <1>5, <1>8
  <2>2. Same(z) 
    BY <1>3, <1>8
  <2>3. Same(y)
    BY <1>3, <2>1
  <2>4. Order(w, e) = IF e.ord = w.ordRead[e.ch] THEN Drain(y, e.ch) ELSE z
    BY DEF Order
  <2> HIDE DEF x, y, z
  <2>5. Same(Drain(y, e.ch))
    BY <2>3, <1>7
  <2>6. OrderOrOutput(w, e) = IF e.rel = "RELIABLE_ORDERED" THEN Order(w, e) ELSE x
    BY DEF OrderOrOutput, x
  <2> QED  BY <2>1, <2>2, <2>4, <2>5, <2>6
<1>9. Same(Process(r, p))
  <2>1. Same(WithPiece(r, p))
    BY <1>1, <1>6
  <2>2. Same(Sequence(r, p))
    <3> DEFINE passed(t) == [t EXCEPT !.seqRead[p.ch] = (p.ord + 1) % OrdMod]
               w == WithPiece(r, p)
    <3>1. \A t : Same(t) => Same(passed(t))
      BY <1>3
    <3>2. Sequence(r, p) = CASE Superseded(r, p) -> r
            [] ~Superseded(r, p) /\ p.cnt = 0 -> Output(passed(r), Single(p))
            [] ~Superseded(r, p) /\ p.cnt > 0 ->
                 IF IsComplete(w, p.sid)
                 THEN Output(WithoutSplit(passed(w), p.sid), Rebuilt(w, p.sid)) ELSE w
      BY DEF Sequence
    <3> HIDE DEF passed, w
    <3>3. Same(w) /\ Same(passed(r)) /\ Same(passed(w)) /\ Same(WithoutSplit(passed(w), p.sid))
      BY <1>1, <2>1, <3>1, <1>6 DEF w
    <3>4. Same(Output(passed(r), Single(p))) /\ Same(Output(WithoutSplit(passed(w), p.sid), Rebuilt(w, p.sid)))
      BY <3>3, <1>5
    <3>5. p.cnt = 0 \/ p.cnt > 0
      BY DEF Message
    <3> QED  BY <3>2, <3>3, <3>4, <3>5, <1>1
  <2>3. Same(Reassemble(r, p))
    BY <2>1, <1>6, <1>8 DEF Reassemble
  <2>4. Same(OrderOrOutput(r, Single(p)))
    BY <1>1, <1>8
  <2> QED  BY <2>2, <2>3, <2>4 DEF Process
<1> QED  BY <1>9 DEF Same

\* What is safe stays safe.
SafeMore(r, w) == \A id, k : Safe(r, id, k) => Safe(w, id, k)

LEMMA GrowsSafe ==
  ASSUME NEW r, ReceiverTypes(r), NEW w, ReceiverTypes(w), Grows(r, w), HasMore(r, w)
  PROVE  SafeMore(r, w)
<1>1. Len(r.outputQueue) \in Nat /\ Len(w.outputQueue) \in Nat
  BY DEF ReceiverTypes, Receivers
<1>2. \A i \in 1..Len(r.outputQueue) :
        i \in 1..Len(w.outputQueue) /\ w.outputQueue[i] = r.outputQueue[i]
  BY <1>1 DEF Grows
<1>3. \A id : Pointless(r, id) => Pointless(w, id)
  BY <1>2 DEF Pointless
<1> QED  BY <1>3 DEF SafeMore, Safe, HasMore

\* What the receiver keeps in mind, apart from how it looks.
Keeping(r) == InReach(r) /\ AcksTrue(r) /\ ReceivedIsSafe(r)

LEMMA HandleMessageKeeping ==
  ASSUME SenderTypes, SenderInv, NotRound, IndicesFit, IndicesNotRound, NumbersTell,
         NEW r, ReceiverInv(r), SequenceFits(r), Keeping(r), NEW p \in Message, p \in Sent
  PROVE  LET w == HandleMessage(r, p) IN Keeping(w) /\ Keeps(r, w) /\ SafeMore(r, w)
<1> DEFINE a == Acked(r, p)
<1>1. /\ Course /\ AskedTypes /\ SplitIds /\ Fits(p) /\ p.num \in CircleNumbers
      /\ Place(p.num) < course.count /\ \A o \in Sent : Fits(o) /\ o.num \in CircleNumbers
  BY SenderFacts
<1>2. ReceiverTypes(r) /\ Window(r) /\ a.acknowlegements \subseteq r.acknowlegements \union {p.num}
  BY DEF ReceiverInv, Acked, ReceiverTypes, Receivers
<1>3. CASE IsDuplicate(r, p) \/ TooFar(r, p)
  <2>1. IsDuplicate(r, p)
    BY <1>1, <1>2, <1>3, NotTooFar DEF Keeping
  <2>2. HandleMessage(r, p) = a /\ SameRest(r, a) /\ SameWindow(r, a)
    BY <1>1, <2>1, AckedKeeps DEF HandleMessage
  <2>3. IsReceived(r, p.num)
    BY <1>1, <1>2, <2>1, DuplicateIsReceived
  <2> HIDE DEF a
  <2>4. \A n : IsReceived(a, n) <=> IsReceived(r, n)
    BY <2>2 DEF IsReceived, SameWindow
  <2>5. \A id, k : Safe(a, id, k) <=> Safe(r, id, k)
    BY <2>2 DEF Safe, Has, Pointless, SameRest
  <2>6. AcksTrue(a)
    BY <1>1, <1>2, <2>3, <2>4 DEF Keeping, AcksTrue, CircleNumbers
  <2>7. InReach(a)
    BY <2>2 DEF Keeping, InReach, SameWindow
  <2>8. ReceivedIsSafe(a)
    BY <2>4, <2>5 DEF Keeping, ReceivedIsSafe
  <2> QED  BY <2>2, <2>4, <2>5, <2>6, <2>7, <2>8 DEF Keeping, Keeps, SafeMore
<1>4. CASE ~(IsDuplicate(r, p) \/ TooFar(r, p))
  <2> DEFINE w == PopExpired(Marked(a, p))  x == Process(w, p)
  <2>1. /\ ReceiverTypes(w) /\ Content(w) /\ Window(w)
        /\ SameRest(r, w) /\ Keeps(r, w) /\ IsReceived(w, p.num) /\ Gains(r, w, {p.num})
        /\ w.acknowlegements = a.acknowlegements
        /\ Settled(w, p.id, p.idx) /\ NoneOf(w, p.id)
        /\ \A q \in w.splits : ~(q.id = p.id /\ q.idx = p.idx)
        /\ HandleMessage(r, p) = Process(w, p)
    BY <1>4, MessageIsNew
  <2> HIDE DEF w, a
  <2>2. ReceiverTypes(x) /\ SameWindow(w, x)
    BY <2>1, <1>1, ProcessKeeps
  <2>3. /\ Unmoved(w, x) \/ Advances(w, x, p)
        /\ HasMore(w, x)
        /\ Has(x, p.id, p.idx) \/ (p.rel \in Sequenced /\ Superseded(w, p))
    BY <2>1, <1>1, ProcessMoves DEF Course
  <2>4. x.acknowlegements = a.acknowlegements
    BY <2>1, ProcessAcks
  <2> HIDE DEF x
  <2>5. /\ \A n : IsReceived(x, n) <=> IsReceived(w, n)
        /\ Window(x) /\ NoneExpired(x) /\ Keeps(r, x)
    <3>1. \A n : IsReceived(x, n) <=> IsReceived(w, n)
      BY <2>2 DEF IsReceived, SameWindow
    <3>2. NoneExpired(w)
      BY <2>1 DEF Keeping, InReach, Gains, NoneExpired
    <3> QED  BY <3>1, <3>2, <2>1, <2>2, SameSettled DEF NoneExpired, SameWindow, Keeps
  <2>6. InReach(x)
    <3>1. Place(r.receivedPacketsBaseIndex) <= Place(x.receivedPacketsBaseIndex)
      BY <1>1, <1>2, <2>2, <2>5, ReachKept
    <3>2. Place(r.receivedPacketsBaseIndex) \in Nat /\ Place(x.receivedPacketsBaseIndex) \in Nat
      BY <1>1, <1>2, <2>2, PlaceIs DEF ReceiverTypes, Receivers, CircleNumbers, Course, Courses
    <3>3. course.count - Place(x.receivedPacketsBaseIndex) <= HoleLimit
      BY <3>1, <3>2, <1>1, ReliabilityAssumption DEF Keeping, InReach, Course, Courses
    <3> QED  BY <3>3, <2>5 DEF InReach, NoneExpired
  <2>7. AcksTrue(x)
    BY <1>1, <1>2, <2>1, <2>4, <2>5 DEF Keeping, AcksTrue, CircleNumbers, Keeps
  <2>8. SafeMore(r, x)
    <3>1. SafeMore(w, x)
      BY <2>1, <2>2, <2>3, GrowsSafe DEF Unmoved, Advances
    <3>2. \A id, k : Safe(w, id, k) <=> Safe(r, id, k)
      BY <2>1 DEF Safe, Has, Pointless, SameRest
    <3> QED  BY <3>1, <3>2 DEF SafeMore
  <2>9. p.rel \in Reliable => Safe(x, p.id, p.idx)
    <3>1. CASE Has(x, p.id, p.idx)
      BY <3>1 DEF Safe
    <3>2. CASE p.rel \in Sequenced /\ Superseded(w, p) /\ p.rel \in Reliable
      <4>1. p.rel = "RELIABLE_SEQUENCED"
        BY <3>2 DEF Sequenced, Reliable
      <4>2. SequenceFits(w) /\ OutputFits(w)
        BY <2>1 DEF SequenceFits, SameRest, Content
      <4>3. Pointless(w, p.id)
        BY <4>1, <4>2, <3>2, <2>1, <1>1, SupersededIsPointless
      <4>4. SafeMore(w, x)
        BY <2>1, <2>2, <2>3, GrowsSafe DEF Unmoved, Advances
      <4> QED  BY <4>3, <4>4 DEF SafeMore, Safe
    <3> QED  BY <3>1, <3>2, <2>3
  <2>10. ReceivedIsSafe(x)
    <3> SUFFICES ASSUME NEW m \in Sent, m.rel \in Reliable, IsReceived(x, m.num)
                 PROVE  Safe(x, m.id, m.idx)
      BY DEF ReceivedIsSafe
    <3>1. IsReceived(r, m.num) \/ m.num = p.num
      BY <2>1, <2>5, <1>1 DEF Gains, Keeping, InReach, NoneExpired
    <3>2. CASE IsReceived(r, m.num)
      BY <3>2, <2>8 DEF Keeping, ReceivedIsSafe, SafeMore
    <3>3. CASE m.num = p.num
      <4>1. m.id = p.id /\ m.idx = p.idx
        BY <3>3 DEF NumbersTell, SameKey
      <4>2. m.rel = p.rel
        BY <4>1, <1>1 DEF Fits, FitsIn, Labelled
      <4> QED  BY <4>1, <4>2, <2>9
    <3> QED  BY <3>1, <3>2, <3>3
  <2> QED  BY <2>1, <2>5, <2>6, <2>7, <2>8, <2>10 DEF Keeping, x
<1> QED  BY <1>3, <1>4

-----------------------------------------------------------------------------
(* The receiver keeps what is reliable *)

SafeKept(r, w) ==
  \A id \in 1..Len(asked) : asked[id].as \in Reliable =>
    \A k : Safe(r, id, k) => Safe(w, id, k)
KeepsTrue(r, w) == Keeps(r, w) /\ SafeKept(r, w) /\ AcksTrue(w) /\ ReceivedIsSafe(w)

LEMMA HandleAllKeeping ==
  ASSUME SenderTypes, SenderInv, NotRound, IndicesFit, IndicesNotRound, NumbersTell,
         ReceiverInv(rcv), SequenceFits(rcv), Keeping(rcv), NEW d \in wire
  PROVE  KeepsTrue(rcv, HandleAll(d)) /\ NoneExpired(HandleAll(d))
<1> DEFINE V == {r \in Receivers : /\ ReceiverInv(r) /\ SequenceFits(r) /\ Keeping(r)
                                   /\ Keeps(rcv, r) /\ SafeMore(rcv, r)}
<1>1. rcv \in V
  BY DEF ReceiverInv, ReceiverTypes, Keeps, SafeMore
<1>2. ASSUME NEW r \in V, NEW p \in Message, p \in Sent PROVE HandleMessage(r, p) \in V
  <2> DEFINE w == HandleMessage(r, p)
  <2>1. ReceiverInv(w) /\ SequenceFits(w)
    BY <1>2, HandleMessageKeeps, HandleMessageSequence
  <2>2. Keeping(w) /\ Keeps(r, w) /\ SafeMore(r, w)
    BY <1>2, HandleMessageKeeping
  <2> HIDE DEF w
  <2>3. Keeps(rcv, w) /\ SafeMore(rcv, w)
    BY <1>2, <2>2 DEF Keeps, SafeMore
  <2>4. w \in V
    BY <2>1, <2>2, <2>3 DEF ReceiverInv, ReceiverTypes
  <2> QED  BY <2>4 DEF w
<1> HIDE DEF V
<1>3. HandleAll(d) \in V
  BY <1>1, <1>2, HandleAllIn
<1> QED  BY <1>3 DEF V, KeepsTrue, Keeping, SafeMore, SafeKept, InReach, NoneExpired

\* A receiver that counts the same numbers as received has what it had.
LEMMA SameKeeping ==
  ASSUME SenderTypes, SenderInv, NotRound, AcksTrue(rcv), ReceivedIsSafe(rcv), NEW w,
         \A n \in CircleNumbers : IsReceived(w, n) <=> IsReceived(rcv, n),
         w.acknowlegements \subseteq rcv.acknowlegements, SafeKept(rcv, w)
  PROVE  KeepsTrue(rcv, w)
<1>1. Keeps(rcv, w)
  BY DEF Keeps
<1>2. AcksTrue(w)
  BY DEF AcksTrue, CircleNumbers
<1>3. ReceivedIsSafe(w)
  <2> SUFFICES ASSUME NEW m \in Sent, m.rel \in Reliable, IsReceived(w, m.num)
               PROVE  Safe(w, m.id, m.idx)
    BY DEF ReceivedIsSafe
  <2>1. Fits(m) /\ m.num \in CircleNumbers
    BY SenderFacts
  <2>2. Safe(rcv, m.id, m.idx)
    BY <2>1 DEF ReceivedIsSafe
  <2>3. m.id \in 1..Len(asked) /\ asked[m.id].as \in Reliable
    BY <2>1 DEF Fits, FitsIn, Labelled
  <2> QED  BY <2>2, <2>3 DEF SafeKept
<1> QED  BY <1>1, <1>2, <1>3 DEF KeepsTrue

\* Only pieces of unreliable messages are forgotten.
LEMMA ForgetKeeping ==
  ASSUME SenderTypes, SenderInv, NotRound, ReceiverInv(rcv), AcksTrue(rcv), ReceivedIsSafe(rcv),
         ForgetSplit
  PROVE  \E r : rcv' = r /\ KeepsTrue(rcv, r)
<1>1. PICK sid \in {q.sid : q \in rcv.splits} :
        /\ IsStale(FirstPiece(PiecesHeld(rcv, sid))) /\ rcv' = WithoutSplit(rcv, sid)
  BY DEF ForgetSplit
<1> DEFINE w == WithoutSplit(rcv, sid)  s == PiecesHeld(rcv, sid)  f == FirstPiece(s)
<1>2. /\ w.splits = {q \in rcv.splits : q.sid # sid} /\ w.outputQueue = rcv.outputQueue
      /\ w.orderingList = rcv.orderingList /\ w.acknowlegements = rcv.acknowlegements
      /\ SameWindow(rcv, w)
  BY DEF WithoutSplit, ReceiverInv, ReceiverTypes, Receivers, SameWindow
<1>3. f \in s
  <2>1. /\ s # {} /\ \A q \in s : q.idx \in Nat
    BY <1>1 DEF PiecesHeld, ReceiverInv, ReceiverTypes, Receivers, SplitPiece
  <2> HIDE DEF s
  <2> DEFINE T == {q.idx : q \in s}
  <2>2. PICK x \in T : \A y \in T : x <= y
    BY <2>1, Least, T \subseteq Nat, T # {}
  <2>3. PICK q \in s : q.idx = x
    BY <2>2
  <2>4. \A o \in s : q.idx <= o.idx
    BY <2>2, <2>3
  <2> QED  BY <2>4 DEF FirstPiece
<1>4. ASSUME NEW q \in rcv.splits, q.sid = sid PROVE asked[q.id].as \notin Reliable
  <2>1. f \in rcv.splits /\ f.sid = sid /\ f.rel \in Unreliable
    BY <1>1, <1>3 DEF PiecesHeld, IsStale
  <2>2. /\ q.id \in 1..Len(asked) /\ asked[q.id].sid = q.sid
        /\ f.id \in 1..Len(asked) /\ asked[f.id].sid = f.sid /\ asked[f.id].as = f.rel
        /\ q.sid # Unsplit
    <3>1. q \in SplitPiece
      BY DEF ReceiverInv, ReceiverTypes, Receivers
    <3> HIDE DEF f
    <3> QED  BY <3>1, <2>1 DEF ReceiverInv, SplitsFit, Labelled, SplitPiece, Unsplit
  <2>3. q.id = f.id
    BY <1>4, <2>1, <2>2, PiecesOfOneMessage DEF SenderInv
  <2> QED  BY <2>1, <2>2, <2>3 DEF Reliable, Unreliable
<1> HIDE DEF w, s, f
<1>5. SafeKept(rcv, w)
  <2>1. \A id, k : Pointless(w, id) <=> Pointless(rcv, id)
    BY <1>2 DEF Pointless
  <2>2. ASSUME NEW id, asked[id].as \in Reliable, NEW k, Has(rcv, id, k) PROVE Has(w, id, k)
    BY <2>2, <1>2, <1>4 DEF Has
  <2> QED  BY <2>1, <2>2 DEF SafeKept, Safe
<1>6. \A n : IsReceived(w, n) <=> IsReceived(rcv, n)
  BY <1>2 DEF SameWindow, IsReceived
<1>7. KeepsTrue(rcv, w)
  BY <1>2, <1>5, <1>6, SameKeeping
<1> QED  BY <1>1, <1>7 DEF w

\* As long as no number is given up, time changes nothing about it.
LEMMA TickKeeping ==
  ASSUME SenderTypes, SenderInv, NotRound, ReceiverInv(rcv), AcksTrue(rcv), ReceivedIsSafe(rcv),
         Tick
  PROVE  \E r : rcv' = r /\ KeepsTrue(rcv, r)
<1> DEFINE q == rcv.hasReceivedPacketQueue
           t == Aged(q)
           pieces == {Idled(x) : x \in rcv.splits}
           w == [rcv EXCEPT !.hasReceivedPacketQueue = t, !.splits = pieces]
<1>1. rcv' = w
  BY DEF Tick, Aged, Idled
<1>2. q \in Seq(Nat) /\ Len(q) \in Nat /\ rcv.splits \subseteq SplitPiece
  BY DEF ReceiverInv, ReceiverTypes, Receivers
<1>3. Len(t) = Len(q) /\ \A i \in 1..Len(q) : t[i] = Got <=> q[i] = Got
  <2>1. \A i \in DOMAIN q : q[i] \in Nat
    BY <1>2
  <2>2. t = [i \in DOMAIN q |-> IF q[i] > Expired /\ GiveUp > 0 THEN q[i] - 1 ELSE q[i]]
    BY DEF Aged
  <2>3. \A i \in DOMAIN q : t[i] = Got <=> q[i] = Got
    BY <2>1, <2>2 DEF Expired, Got
  <2> HIDE DEF t
  <2>4. DOMAIN q = 1..Len(q)
    BY <1>2
  <2>5. DOMAIN t = 1..Len(q)
    BY <2>2, <2>4
  <2>6. Len(t) = Len(q)
    BY <2>2, <2>4, <2>5, <1>2
  <2> QED  BY <2>3, <2>4, <2>6
<1>4. \A x \in rcv.splits : Idled(x) \in pieces /\ Idled(x).id = x.id /\ Idled(x).idx = x.idx
  BY <1>2 DEF Idled, SplitPiece
<1> HIDE DEF t, pieces
<1>5. /\ w.hasReceivedPacketQueue = t /\ w.splits = pieces
      /\ w.receivedPacketsBaseIndex = rcv.receivedPacketsBaseIndex
      /\ w.orderingList = rcv.orderingList /\ w.outputQueue = rcv.outputQueue
      /\ w.acknowlegements = rcv.acknowlegements
  BY DEF ReceiverInv, ReceiverTypes, Receivers
<1> HIDE DEF w, q
<1>6. ASSUME NEW n \in CircleNumbers PROVE IsReceived(w, n) <=> IsReceived(rcv, n)
  <2> DEFINE h == Place(n) - Place(rcv.receivedPacketsBaseIndex)
  <2>1. h \in Int
    <3>1. rcv.receivedPacketsBaseIndex \in CircleNumbers /\ course.first \in CircleNumbers
      BY DEF ReceiverInv, ReceiverTypes, Receivers, CircleNumbers, SenderTypes, Courses
    <3> QED  BY <3>1, PlaceIs
  <2> HIDE DEF h
  <2>2. h >= 0 /\ h < Len(q) => h + 1 \in 1..Len(q)
    BY <2>1, <1>2
  <2>3. (h < 0 \/ (h < Len(t) /\ t[h + 1] = Got)) <=> (h < 0 \/ (h < Len(q) /\ q[h + 1] = Got))
    BY <2>1, <2>2, <1>3
  <2> QED  BY <2>3, <1>5 DEF IsReceived, h, q
<1>7. SafeKept(rcv, w)
  <2>1. \A id, k : Pointless(w, id) <=> Pointless(rcv, id)
    BY <1>5 DEF Pointless
  <2>2. \A id, k : Has(rcv, id, k) => Has(w, id, k)
    BY <1>4, <1>5 DEF Has
  <2> QED  BY <2>1, <2>2 DEF SafeKept, Safe
<1>8. KeepsTrue(rcv, w)
  BY <1>5, <1>6, <1>7, SameKeeping
<1> QED  BY <1>1, <1>8

\* No step makes the receiver forget.
LEMMA StepKeeping ==
  ASSUME SenderTypes, SenderInv, NotRound, IndicesFit, IndicesNotRound, NumbersTell,
         ReceiverInv(rcv), SequenceFits(rcv), Keeping(rcv), [Next]_vars
  PROVE  /\ \E r : rcv' = r /\ KeepsTrue(rcv, r)
         /\ acksOnWire' \subseteq acksOnWire \union {rcv.acknowlegements}
<1>1. CASE \/ (\E m \in Menu : Send(m)) \/ GenerateDatagram \/ DieOfSilence \/ Lose \/ Mature
           \/ (\E a \in acksOnWire : ReceiveAcks(a)) \/ UNCHANGED vars
  <2>1. rcv' = rcv /\ acksOnWire' \subseteq acksOnWire
    BY <1>1 DEF Send, GenerateDatagram, DieOfSilence, Lose, Mature, ReceiveAcks, vars, net
  <2>2. KeepsTrue(rcv, rcv)
    BY DEF KeepsTrue, Keeps, SafeKept, Keeping
  <2>3. PICK r : r = rcv
    OBVIOUS
  <2> QED  BY <2>1, <2>2, <2>3
<1>2. CASE \E d \in wire : Receive(d)
  <2>1. PICK d \in wire : Receive(d)
    BY <1>2
  <2>2. rcv' = HandleAll(d) /\ acksOnWire' = acksOnWire
    BY <2>1 DEF Receive
  <2>3. KeepsTrue(rcv, HandleAll(d))
    BY HandleAllKeeping
  <2> QED  BY <2>2, <2>3
<1>3. CASE SendAcks
  <2> DEFINE w == [rcv EXCEPT !.acknowlegements = {}]
  <2>1. rcv' = w /\ acksOnWire' = acksOnWire \union {rcv.acknowlegements}
    BY <1>3 DEF SendAcks
  <2>2. SameWindow(rcv, w) /\ SameRest(rcv, w) /\ w.acknowlegements = {}
    BY DEF ReceiverInv, ReceiverTypes, Receivers, SameWindow, SameRest
  <2> HIDE DEF w
  <2>3. SafeKept(rcv, w) /\ \A n : IsReceived(w, n) <=> IsReceived(rcv, n)
    BY <2>2 DEF SafeKept, Safe, Has, Pointless, SameRest, SameWindow, IsReceived
  <2>4. KeepsTrue(rcv, w)
    BY <2>2, <2>3, SameKeeping DEF Keeping
  <2> QED  BY <2>1, <2>4
<1>4. CASE ForgetSplit
  BY <1>4, ForgetKeeping DEF Keeping, ForgetSplit, net
<1>5. CASE Tick
  BY <1>5, TickKeeping DEF Keeping, Tick, net
<1> QED  BY <1>1, <1>2, <1>3, <1>4, <1>5 DEF Next

-----------------------------------------------------------------------------
(* The sender's side *)

LEMMA ReceivedStays ==
  ASSUME SettledStays, NEW r, rcv' = r
  PROVE  \A n : IsReceived(rcv, n)' <=> IsReceived(r, n)
BY DEF IsReceived, Place, SettledStays

LEMMA SafeStays ==
  ASSUME SenderTypes, SettledStays, NEW r, rcv' = r,
         \A i \in 1..Len(r.outputQueue) : r.outputQueue[i].parts[1] \in 1..Len(asked),
         NEW id \in 1..Len(asked), NEW k, Safe(r, id, k)
  PROVE  Safe(rcv, id, k)'
<1>1. CASE Has(r, id, k)
  BY <1>1 DEF Safe, Has
<1>2. CASE Pointless(r, id)
  <2>1. PICK i \in 1..Len(r.outputQueue) :
          LET o == r.outputQueue[i].parts[1]
          IN o > id /\ asked[o].ch = asked[id].ch /\ asked[o].as \in Sequenced
    BY <1>2 DEF Pointless
  <2>2. r.outputQueue[i].parts[1] \in 1..Len(asked)
    OBVIOUS
  <2>3. asked'[r.outputQueue[i].parts[1]] = asked[r.outputQueue[i].parts[1]] /\ asked'[id] = asked[id]
    BY <2>2 DEF SettledStays
  <2> QED  BY <1>2, <2>1, <2>3 DEF Safe, Pointless
<1> QED  BY <1>1, <1>2 DEF Safe

\* Messages that are sent for the first time have numbers nobody received.
LEMMA NewNumbers ==
  ASSUME SenderTypes, SenderInv, NotRound, ReceiverInv(rcv), NumbersTell, [Next]_vars, NotRound'
  PROVE  /\ NumbersTell'
         /\ \A m \in Sent' : m \in Sent \/ ~IsReceived(rcv, m.num)
         /\ Sent' \subseteq Sent \/ rcv' = rcv
<1>1. CASE Sent' \subseteq Sent
  BY <1>1 DEF NumbersTell
<1>2. CASE GenerateDatagram
  <2>1. PICK news, taken : Sends(news, taken)
    BY <1>2, GenerateStep
  <2>2. /\ Len(news) \in Nat /\ course.count \in Nat
        /\ \A m \in Sent' : m \in Sent \/ \E i \in 1..Len(news) : m = news[i]
        /\ \A i \in 1..Len(news) : Place(news[i].num) = course.count + (i - 1)
                                   /\ news[i].num \in CircleNumbers
    BY <2>1 DEF Sends, Carries, SenderTypes, Courses
  <2>3. \A m \in Sent : Place(m.num) < course.count /\ Place(m.num) \in Nat
    <3>1. course.first \in CircleNumbers
      BY DEF SenderTypes, Courses, CircleNumbers
    <3> QED  BY <3>1, SenderFacts, PlaceIs
  <2>4. \A i \in 1..Len(news) : ~IsReceived(rcv, news[i].num)
    <3> TAKE i \in 1..Len(news)
    <3> DEFINE b == Place(rcv.receivedPacketsBaseIndex)  l == Len(rcv.hasReceivedPacketQueue)
               h == Place(news[i].num) - b
    <3>1. b \in Nat /\ l \in Nat
      <4>1. rcv.receivedPacketsBaseIndex \in CircleNumbers /\ course.first \in CircleNumbers
        BY DEF ReceiverInv, ReceiverTypes, Receivers, CircleNumbers, SenderTypes, Courses
      <4> QED  BY <4>1, PlaceIs DEF ReceiverInv, ReceiverTypes, Receivers
    <3>2. b + l <= course.count
      BY DEF ReceiverInv, Window
    <3> HIDE DEF b, l
    <3>3. ~(h < 0) /\ ~(h < l)
      BY <2>2, <3>1, <3>2
    <3> QED  BY <3>3 DEF IsReceived, b, l
  <2>5. ASSUME NEW m \in Sent', NEW o \in Sent', m.num = o.num PROVE SameKey(m, o)
    <3>1. CASE m \in Sent /\ o \in Sent
      BY <3>1, <2>5 DEF NumbersTell
    <3>2. CASE m \in Sent /\ \E i \in 1..Len(news) : o = news[i]
      <4>1. PICK i \in 1..Len(news) : o = news[i]
        BY <3>2
      <4>2. Place(m.num) = course.count + (i - 1)
        BY <4>1, <2>2, <2>5
      <4> QED  BY <4>2, <2>2, <2>3, <3>2
    <3>3. CASE o \in Sent /\ \E i \in 1..Len(news) : m = news[i]
      <4>1. PICK i \in 1..Len(news) : m = news[i]
        BY <3>3
      <4>2. Place(o.num) = course.count + (i - 1)
        BY <4>1, <2>2, <2>5
      <4> QED  BY <4>2, <2>2, <2>3, <3>3
    <3>4. CASE (\E i \in 1..Len(news) : m = news[i]) /\ (\E j \in 1..Len(news) : o = news[j])
      <4>1. PICK i \in 1..Len(news) : m = news[i]
        BY <3>4
      <4>2. PICK j \in 1..Len(news) : o = news[j]
        BY <3>4
      <4>3. course.count + (i - 1) = course.count + (j - 1)
        BY <4>1, <4>2, <2>2, <2>5
      <4>4. i = j
        BY <4>3, <2>2
      <4> QED  BY <4>1, <4>2, <4>4 DEF SameKey
    <3> QED  BY <3>1, <3>2, <3>3, <3>4, <2>2
  <2>6. rcv' = rcv
    BY <1>2 DEF GenerateDatagram
  <2> QED  BY <2>2, <2>4, <2>5, <2>6 DEF NumbersTell
<1>3. CASE \E m \in Menu : Send(m)
  <2>1. UNCHANGED <<resendQueue, wire>>
    BY <1>3 DEF Send, net
  <2> QED  BY <2>1, <1>1 DEF Sent, SentAgain
<1>4. CASE \/ DieOfSilence \/ SendAcks \/ Lose \/ ForgetSplit \/ Mature \/ Tick
           \/ (\E d \in wire : Receive(d)) \/ (\E a \in acksOnWire : ReceiveAcks(a))
           \/ UNCHANGED vars
  BY <1>1, <1>4, QuietSteps DEF SenderStays
<1> QED  BY <1>2, <1>3, <1>4 DEF Next

-----------------------------------------------------------------------------
(* Every piece is somewhere *)

\* The sender still has a piece.
Waiting(id, k) == InQueues(id, k) \/ WillResend(id, k)

\* What leaves the queues or the resend queue is kept to be sent again.
LEMMA GenerateCovers ==
  ASSUME SenderTypes, SenderInv, NotRound', GenerateDatagram,
         NEW id \in 1..Len(asked), asked[id].as \in Reliable, NEW k, Waiting(id, k)
  PROVE  Waiting(id, k)'
<1>1. PICK news, taken : Sends(news, taken)
  BY GenerateStep
<1>2. /\ news \in Seq(Message) /\ \A p \in Priorities : taken[p] \in 0..Len(sendPacketSet[p])
      /\ sendPacketSet' = [p \in Priorities |->
            SubSeq(sendPacketSet[p], taken[p] + 1, Len(sendPacketSet[p]))]
      /\ \A p \in Priorities : \A j \in 1..taken[p] :
           \E i \in 1..Len(news) : SameKey(news[i], sendPacketSet[p][j])
      /\ \A i \in 1..Len(news) : Fits(news[i])
  BY <1>1 DEF Sends, Carries
<1>3. /\ \A i \in 1..Len(resendQueue) : ~IsHole(resendQueue[i]) => Waits(resendQueue[i].msg, resendQueue')
      /\ \A i \in 1..Len(news) : news[i].rel \in Reliable => Waits(news[i], resendQueue')
  BY <1>1, <1>2, RequeuedHas DEF Sends
<1>4. \A m : Waits(m, resendQueue') /\ m.id = id /\ m.idx = k => WillResend(id, k)'
  <2>1. DOMAIN resendQueue' = 1..Len(resendQueue')
    <3>1. resendQueue' \in Seq(ResendEntry)
      BY GenerateStep DEF SenderTypes
    <3> QED  BY <3>1
  <2> QED  BY <2>1 DEF Waits, WillResend, IsHole
<1>5. CASE WillResend(id, k)
  <2>1. DOMAIN resendQueue = 1..Len(resendQueue)
    BY DEF SenderTypes
  <2>2. PICK i \in 1..Len(resendQueue) : /\ ~IsHole(resendQueue[i])
                                         /\ resendQueue[i].msg.id = id /\ resendQueue[i].msg.idx = k
    BY <1>5, <2>1 DEF WillResend
  <2> QED  BY <2>2, <1>3, <1>4 DEF Waiting
<1>6. CASE InQueues(id, k)
  <2>1. PICK p \in Priorities : \E i \in DOMAIN sendPacketSet[p] :
          sendPacketSet[p][i].id = id /\ sendPacketSet[p][i].idx = k
    BY <1>6 DEF InQueues
  <2> DEFINE s == sendPacketSet[p]  n == taken[p]  t == SubSeq(s, n + 1, Len(s))
  <2>2. s \in Seq(Message) /\ Len(s) \in Nat /\ DOMAIN s = 1..Len(s) /\ n \in 0..Len(s)
    BY <1>2 DEF SenderTypes
  <2>3. PICK i \in 1..Len(s) : s[i].id = id /\ s[i].idx = k
    BY <2>1, <2>2
  <2>4. CASE i \in 1..n
    <3>1. PICK j \in 1..Len(news) : SameKey(news[j], s[i])
      BY <2>4, <1>2
    <3>2. news[j].id = id /\ news[j].idx = k /\ news[j].rel \in Reliable
      BY <3>1, <2>3, <1>2 DEF SameKey, Fits, FitsIn, Labelled
    <3> QED  BY <3>2, <1>3, <1>4 DEF Waiting
  <2>5. CASE ~(i \in 1..n)
    <3>1. sendPacketSet'[p] = t
      BY <1>2
    <3> HIDE DEF s, n
    <3>2. t \in Seq(Message) /\ Len(t) = Len(s) - n /\ \A j \in 1..(Len(s) - n) : t[j] = s[n + j]
      BY <2>2, CutInTwo
    <3> DEFINE j == i - n
    <3>3. j \in 1..(Len(s) - n) /\ n + j = i
      BY <2>2, <2>5
    <3> HIDE DEF t, j
    <3>4. j \in DOMAIN t
      BY <3>2, <3>3
    <3>5. t[j] = s[i]
      BY <3>2, <3>3
    <3>6. t[j].id = id /\ t[j].idx = k
      BY <2>3, <3>5
    <3>7. InQueues(id, k)'
      BY <3>1, <3>4, <3>6 DEF InQueues
    <3> QED  BY <3>7 DEF Waiting
  <2> QED  BY <2>4, <2>5
<1> QED  BY <1>5, <1>6 DEF Waiting

LEMMA TickCovers ==
  ASSUME SenderTypes, Tick, NEW id, NEW k, Waiting(id, k)
  PROVE  Waiting(id, k)'
<1>1. /\ sendPacketSet' = sendPacketSet
      /\ resendQueue' = [i \in DOMAIN resendQueue |->
            [resendQueue[i] EXCEPT !.wait = IF @ > 0 THEN @ - 1 ELSE @]]
  BY DEF Tick
<1>2. \A i \in DOMAIN resendQueue : resendQueue[i] \in ResendEntry
  BY DEF SenderTypes
<1>3. \A e \in ResendEntry : LET x == [e EXCEPT !.wait = IF @ > 0 THEN @ - 1 ELSE @]
                             IN  x.msg = e.msg /\ (IsHole(x) <=> IsHole(e))
  BY DEF ResendEntry, IsHole, Hole
<1>4. \A i \in DOMAIN resendQueue : /\ resendQueue'[i].msg = resendQueue[i].msg
                                    /\ IsHole(resendQueue'[i]) <=> IsHole(resendQueue[i])
  BY <1>1, <1>2, <1>3
<1> QED  BY <1>1, <1>4 DEF Waiting, InQueues, WillResend

\* What is acknowledged is safe.
LEMMA AcksCover ==
  ASSUME SenderTypes, SenderInv, NotRound, AnswersTrue(rcv), ReceivedIsSafe(rcv),
         NEW a \in acksOnWire, ReceiveAcks(a),
         NEW id \in 1..Len(asked), asked[id].as \in Reliable, NEW k, Waiting(id, k)
  PROVE  Waiting(id, k)' \/ Safe(rcv, id, k)
<1>1. /\ sendPacketSet' = sendPacketSet
      /\ resendQueue' = [i \in DOMAIN resendQueue |->
           IF resendQueue[i].msg.num \in a \intersect resendList
           THEN [resendQueue[i] EXCEPT !.wait = Hole] ELSE resendQueue[i]]
  BY DEF ReceiveAcks
<1>2. CASE InQueues(id, k)
  BY <1>1, <1>2 DEF Waiting, InQueues
<1>3. CASE WillResend(id, k)
  <2>1. PICK i \in DOMAIN resendQueue : /\ ~IsHole(resendQueue[i])
                                        /\ resendQueue[i].msg.id = id /\ resendQueue[i].msg.idx = k
    BY <1>3 DEF WillResend
  <2> DEFINE m == resendQueue[i].msg
  <2>2. CASE m.num \in a
    <3>1. m \in Sent
      BY DEF Sent, SentAgain
    <3>2. m.rel \in Reliable
      BY <3>1, <2>1, SenderFacts DEF Fits, FitsIn, Labelled
    <3>3. IsReceived(rcv, m.num)
      BY <2>2 DEF AnswersTrue
    <3> HIDE DEF m
    <3>4. Safe(rcv, m.id, m.idx)
      BY <3>1, <3>2, <3>3 DEF ReceivedIsSafe
    <3> QED  BY <3>4, <2>1 DEF m
  <2>3. CASE m.num \notin a
    <3>1. i \in DOMAIN resendQueue' /\ resendQueue'[i] = resendQueue[i]
      BY <2>3, <1>1
    <3> QED  BY <3>1, <2>1 DEF Waiting, WillResend
  <2> QED  BY <2>2, <2>3
<1> QED  BY <1>2, <1>3 DEF Waiting

\* All pieces of a new message wait, and those that waited do.
LEMMA SendCovers ==
  ASSUME SenderTypes, NEW m \in Menu, Send(m)
  PROVE  /\ \A id, k : Waiting(id, k) => Waiting(id, k)'
         /\ \A id \in 1..Len(asked') : \A k \in 0..(asked'[id].cnt - 1) :
              ~(id \in 1..Len(asked)) => InQueues(id, k)'
<1>1. SenderTypes' /\ Enqueues /\ resendQueue' = resendQueue
  BY SendStep DEF Send
<1>2. \A q \in Priorities : /\ DOMAIN sendPacketSet[q] = 1..Len(sendPacketSet[q])
                            /\ DOMAIN sendPacketSet'[q] = 1..Len(sendPacketSet'[q])
  BY <1>1 DEF SenderTypes
<1>3. ASSUME NEW id, NEW k, Waiting(id, k) PROVE Waiting(id, k)'
  BY <1>1, <1>2, <1>3 DEF Enqueues, Waiting, InQueues, WillResend
<1>4. ASSUME NEW id \in 1..Len(asked'), NEW k \in 0..(asked'[id].cnt - 1),
             ~(id \in 1..Len(asked))
      PROVE  InQueues(id, k)'
  <2>1. Len(asked) \in Nat /\ Len(asked') = Len(asked) + 1
    BY <1>1 DEF SenderTypes, Enqueues
  <2>2. id = Len(asked')
    BY <1>4, <2>1
  <2> QED  BY <1>1, <1>2, <1>4, <2>2 DEF Enqueues, InQueues
<1> QED  BY <1>3, <1>4

\* What waits goes on waiting until it is safe.
LEMMA WaitingStays ==
  ASSUME SenderTypes, SenderInv, NotRound, NotRound', AnswersTrue(rcv), ReceivedIsSafe(rcv),
         [Next]_vars,
         NEW id \in 1..Len(asked), asked[id].as \in Reliable, NEW k, Waiting(id, k)
  PROVE  Waiting(id, k)' \/ Safe(rcv, id, k)
<1>1. CASE \E m \in Menu : Send(m)
  BY <1>1, SendCovers
<1>2. CASE GenerateDatagram
  BY <1>2, GenerateCovers
<1>3. CASE Tick
  BY <1>3, TickCovers
<1>4. CASE \E a \in acksOnWire : ReceiveAcks(a)
  BY <1>4, AcksCover
<1>5. CASE \/ DieOfSilence \/ SendAcks \/ Lose \/ ForgetSplit \/ Mature
           \/ (\E d \in wire : Receive(d)) \/ UNCHANGED vars
  <2>1. UNCHANGED <<sendPacketSet, resendQueue>>
    BY <1>5 DEF DieOfSilence, SendAcks, Lose, ForgetSplit, Mature, Receive, vars
  <2> QED  BY <2>1 DEF Waiting, InQueues, WillResend
<1> QED  BY <1>1, <1>2, <1>3, <1>4, <1>5 DEF Next

\* No step loses track of a piece.
LEMMA KeepingStep ==
  ASSUME Inv, Inv', SequenceInv, KeepingInv, Smooth, Smooth', [Next]_vars
  PROVE  KeepingInv'
<1>1. /\ NotRound /\ IndicesNotRound /\ InReach(rcv) /\ NotRound'
      /\ SenderTypes /\ SenderInv /\ ReceiverInv(rcv) /\ IndicesFit /\ SequenceFits(rcv)
      /\ NumbersTell /\ AcksTrue(rcv) /\ AnswersTrue(rcv) /\ ReceivedIsSafe(rcv) /\ AllCovered(rcv)
  BY DEF Smooth, Inv, SequenceInv, KeepingInv
<1>2. SenderTypes' /\ SettledStays
  BY <1>1, EveryStep
<1>3. /\ NumbersTell' /\ (Sent' \subseteq Sent \/ rcv' = rcv)
      /\ \A m \in Sent' : m \in Sent \/ ~IsReceived(rcv, m.num)
  BY <1>1, NewNumbers
<1>4. /\ \E r : rcv' = r /\ KeepsTrue(rcv, r)
      /\ acksOnWire' \subseteq acksOnWire \union {rcv.acknowlegements}
  BY <1>1, StepKeeping DEF Keeping
<1>5. PICK r : rcv' = r /\ KeepsTrue(rcv, r)
  BY <1>4
<1>6. \A n : IsReceived(rcv, n)' <=> IsReceived(r, n)
  BY <1>2, <1>5, ReceivedStays
<1>7. \A i \in 1..Len(r.outputQueue) : r.outputQueue[i].parts[1] \in 1..Len(asked)
  <2>1. CASE asked' = asked
    <3>1. OutputFits(rcv)'
      BY <1>1 DEF Inv, ReceiverInv
    <3> QED  BY <3>1, <2>1, <1>5 DEF OutputFits, IsWhole
  <2>2. CASE rcv' = rcv
    BY <2>2, <1>1, <1>5 DEF ReceiverInv, OutputFits, IsWhole
  <2>3. asked' = asked \/ rcv' = rcv
    BY DEF Next, Send, GenerateDatagram, DieOfSilence, SendAcks, Lose, ForgetSplit, Mature, Tick,
           Receive, ReceiveAcks, vars
  <2> QED  BY <2>1, <2>2, <2>3
<1>8. \A id \in 1..Len(asked) : \A k : Safe(r, id, k) => Safe(rcv, id, k)'
  BY <1>1, <1>2, <1>5, <1>7, SafeStays
<1>9. AcksTrue(rcv)'
  BY <1>5, <1>6 DEF KeepsTrue, AcksTrue
<1>10. AnswersTrue(rcv)'
  <2> SUFFICES ASSUME NEW a \in acksOnWire', NEW n \in a
               PROVE  n \in 0..(NumMod - 1) /\ IsReceived(rcv, n)'
    BY DEF AnswersTrue
  <2>1. n \in 0..(NumMod - 1) /\ IsReceived(rcv, n)
    BY <1>1, <1>4 DEF AnswersTrue, AcksTrue
  <2> QED  BY <2>1, <1>5, <1>6 DEF KeepsTrue, Keeps, CircleNumbers
<1>11. ReceivedIsSafe(rcv)'
  <2> SUFFICES ASSUME NEW m \in Sent', m.rel \in Reliable, IsReceived(rcv, m.num)'
               PROVE  Safe(rcv, m.id, m.idx)'
    BY DEF ReceivedIsSafe
  <2>1. IsReceived(r, m.num)
    BY <1>6
  <2>2. m \in Sent
    BY <2>1, <1>3, <1>5
  <2>3. Safe(r, m.id, m.idx)
    BY <2>1, <2>2, <1>5 DEF KeepsTrue, ReceivedIsSafe
  <2>4. m.id \in 1..Len(asked)
    BY <2>2, <1>1, SenderFacts DEF Fits, FitsIn
  <2> QED  BY <2>3, <2>4, <1>8
<1>12. AllCovered(rcv)'
  <2> SUFFICES ASSUME NEW id \in 1..Len(asked'), asked'[id].as \in Reliable,
                      NEW k \in 0..(asked'[id].cnt - 1)
               PROVE  Waiting(id, k)' \/ Safe(rcv, id, k)'
    BY DEF AllCovered, Waiting
  <2>1. CASE id \in 1..Len(asked)
    <3>1. asked'[id] = asked[id]
      BY <1>2, <2>1 DEF SettledStays
    <3>2. Waiting(id, k) \/ Safe(rcv, id, k)
      BY <2>1, <3>1, <1>1 DEF AllCovered, Waiting
    <3>3. Waiting(id, k)' \/ Safe(rcv, id, k)
      BY <2>1, <3>1, <3>2, <1>1, WaitingStays
    <3>4. Safe(rcv, id, k) => Safe(r, id, k)
      BY <2>1, <3>1, <1>5 DEF KeepsTrue, SafeKept
    <3> QED  BY <2>1, <3>3, <3>4, <1>8
  <2>2. CASE ~(id \in 1..Len(asked))
    <3>1. CASE \E m \in Menu : Send(m)
      BY <3>1, <2>2, <1>1, SendCovers DEF Waiting
    <3>2. CASE asked' = asked
      BY <3>2, <2>2
    <3>3. (\E m \in Menu : Send(m)) \/ asked' = asked
      BY DEF Next, GenerateDatagram, DieOfSilence, SendAcks, Lose, ForgetSplit, Mature, Tick,
             Receive, ReceiveAcks, vars
    <3> QED  BY <3>1, <3>2, <3>3
  <2> QED  BY <2>1, <2>2
<1> QED  BY <1>3, <1>9, <1>10, <1>11, <1>12 DEF KeepingInv

LEMMA KeepingAtStart ==
  ASSUME Init
  PROVE  KeepingInv
<1>1. asked = <<>> /\ resendQueue = <<>> /\ wire = {} /\ acksOnWire = {}
      /\ rcv.acknowlegements = {}
  BY DEF Init, ReceiverStart
<1>2. Sent = {}
  BY <1>1 DEF Sent, SentAgain
<1>3. Len(asked) = 0
  BY <1>1
<1> QED  BY <1>1, <1>2, <1>3
         DEF KeepingInv, NumbersTell, AcksTrue, AnswersTrue, ReceivedIsSafe, AllCovered

\* What the invariant covers, the property covers.
LEMMA KeptIsNotLost ==
  ASSUME Inv, KeepingInv, Smooth
  PROVE  NothingLost
<1>1. SenderTypes /\ OutputFits(rcv) /\ ListsFit(rcv) /\ AllCovered(rcv) /\ ReceiverTypes(rcv)
  BY DEF Inv, KeepingInv, Smooth, ReceiverInv
<1> SUFFICES ASSUME NEW id \in DOMAIN asked, asked[id].as \in Reliable,
                    NEW k \in 0..(asked[id].cnt - 1)
             PROVE  InQueues(id, k) \/ WillResend(id, k) \/ Holds(id, k) \/ Overtaken(id)
  BY DEF NothingLost
<1>2. id \in 1..Len(asked)
  BY <1>1 DEF SenderTypes
<1>3. InQueues(id, k) \/ WillResend(id, k) \/ Has(rcv, id, k) \/ Pointless(rcv, id)
  BY <1>1, <1>2 DEF AllCovered, Safe
<1>4. DOMAIN rcv.outputQueue = 1..Len(rcv.outputQueue)
  BY <1>1 DEF ReceiverTypes, Receivers
<1>5. ASSUME NEW e, IsWhole(rcv, e), e.parts[1] = id, e \in Entry PROVE id \in ToSet(e.parts)
  <2>1. e.parts \in Seq(Ids) /\ e.parts # <<>>
    BY <1>5 DEF Entry
  <2>2. 1 \in DOMAIN e.parts
    BY <2>1
  <2> QED  BY <2>2, <1>5 DEF ToSet
<1>6. CASE Has(rcv, id, k)
  <2>1. CASE \E i \in 1..Len(rcv.outputQueue) : rcv.outputQueue[i].parts[1] = id
    <3>1. PICK i \in 1..Len(rcv.outputQueue) : rcv.outputQueue[i].parts[1] = id
      BY <2>1
    <3>2. rcv.outputQueue[i] \in Entry
      <4>1. rcv.outputQueue \in Seq(Entry)
        BY <1>1 DEF ReceiverTypes, Receivers
      <4> QED  BY <4>1, ElementOfSeq
    <3>3. IsWhole(rcv, rcv.outputQueue[i])
      BY <1>1 DEF OutputFits
    <3>4. id \in ToSet(rcv.outputQueue[i].parts)
      BY <3>1, <3>2, <3>3, <1>5
    <3> QED  BY <3>4, <1>4 DEF Holds
  <2>2. CASE \E c \in Channels : \E e \in rcv.orderingList[c] : e.parts[1] = id
    <3>1. PICK c \in Channels : \E e \in rcv.orderingList[c] : e.parts[1] = id
      BY <2>2
    <3>2. PICK e \in rcv.orderingList[c] : e.parts[1] = id
      BY <3>1
    <3>3. e \in Entry
      BY <1>1 DEF ReceiverTypes, Receivers
    <3>4. IsWhole(rcv, e)
      BY <1>1 DEF ListsFit
    <3> QED  BY <3>2, <3>3, <3>4, <1>5 DEF Holds
  <2>3. CASE \E q \in rcv.splits : q.id = id /\ q.idx = k
    BY <2>3 DEF Holds
  <2> QED  BY <1>6, <2>1, <2>2, <2>3 DEF Has
<1>7. CASE Pointless(rcv, id)
  <2>1. /\ DOMAIN Delivered = 1..Len(rcv.outputQueue)
        /\ \A i \in 1..Len(rcv.outputQueue) : Delivered[i] = rcv.outputQueue[i].parts[1]
    BY <1>4 DEF Delivered
  <2> QED  BY <1>7, <2>1 DEF Pointless, Overtaken
<1> QED  BY <1>3, <1>6, <1>7

\* While the connection is smooth, every piece of a reliable message that was asked for
\* waits, will be sent again, or is safe with the receiver; what is acknowledged
\* or on the receiver's list of received numbers is safe.
THEOREM KeepingInvariant == Spec /\ []Smooth => []KeepingInv
<1>1. Init => KeepingInv
  BY KeepingAtStart
<1>2. Inv /\ Inv' /\ SequenceInv /\ KeepingInv /\ Smooth /\ Smooth' /\ [Next]_vars => KeepingInv'
  BY KeepingStep
<1> QED  BY <1>1, <1>2, ReliabilityInvariant, SequenceInvariant, PTL DEF Spec

\* So the sender never forgets a reliable message that the receiver threw away
\* (HandleSocketReceiveFromConnectedPlayer acknowledges before it decides, and
\* acknowledges what it drops).
THEOREM NothingIsLost == Spec /\ []Smooth => []NothingLost
<1>1. Inv /\ KeepingInv /\ Smooth => NothingLost
  BY KeptIsNotLost
<1> QED  BY <1>1, ReliabilityInvariant, KeepingInvariant, PTL

-----------------------------------------------------------------------------
(* A connection on which nothing is given up *)

\* No number is given up and none can be too far ahead.
Prompt == GiveUp = 0 /\ NotRound /\ IndicesNotRound /\ course.count <= HoleLimit

PromptInv == Prompt => NoneExpired(rcv) /\ KeepingInv

LEMMA PromptIsSmooth ==
  Inv /\ Prompt /\ NoneExpired(rcv) => Smooth
<1> SUFFICES ASSUME Inv, Prompt, NoneExpired(rcv) PROVE Smooth
  OBVIOUS
<1>1. ReceiverTypes(rcv) /\ course \in Courses
  BY DEF Inv, Prompt, ReceiverInv, SenderTypes
<1>2. Place(rcv.receivedPacketsBaseIndex) \in Nat /\ course.count \in Nat
  BY <1>1, PlaceIs DEF ReceiverTypes, Receivers, CircleNumbers, Courses
<1>3. course.count - Place(rcv.receivedPacketsBaseIndex) <= HoleLimit
  BY <1>2, ReliabilityAssumption DEF Prompt
<1> QED  BY <1>3 DEF Prompt, Smooth, InReach, NoneExpired

\* No step of a connection without given-up numbers ends it.
LEMMA PromptStep ==
  ASSUME Inv, Inv', SequenceInv, PromptInv, [Next]_vars
  PROVE  PromptInv'
<1> SUFFICES ASSUME Prompt' PROVE NoneExpired(rcv)' /\ KeepingInv'
  BY DEF PromptInv
<1>1. SenderTypes /\ SenderTypes' /\ SettledStays
  BY EveryStep DEF Inv
<1>2. Prompt
  <2>1. course.count \in Nat /\ course'.count \in Nat /\ course.count <= course'.count
    BY <1>1 DEF SenderTypes, Courses, SettledStays
  <2>2. course'.count <= HoleLimit /\ GiveUp = 0
    BY DEF Prompt
  <2>3. course.count <= HoleLimit
    BY <2>1, <2>2, ReliabilityAssumption
  <2> QED  BY <1>1, <2>2, <2>3, EveryStep DEF Prompt
<1>3. NoneExpired(rcv) /\ KeepingInv /\ Smooth
  BY <1>2, PromptIsSmooth DEF PromptInv
<1>4. NoneExpired(rcv)'
  <2>1. CASE rcv'.hasReceivedPacketQueue = rcv.hasReceivedPacketQueue
    BY <2>1, <1>3 DEF NoneExpired
  <2>2. CASE \E d \in wire : Receive(d)
    <3>1. PICK d \in wire : Receive(d)
      BY <2>2
    <3>2. NoneExpired(HandleAll(d))
      BY <1>3, HandleAllKeeping DEF Smooth, KeepingInv, Keeping, Inv, SequenceInv
    <3>3. PICK r : r = HandleAll(d)
      OBVIOUS
    <3>4. rcv' = r
      BY <3>1, <3>3 DEF Receive
    <3> QED  BY <3>2, <3>3, <3>4 DEF NoneExpired
  <2>3. CASE SendAcks \/ ForgetSplit \/ Tick
    <3>1. rcv.hasReceivedPacketQueue \in Seq(Nat) /\ rcv \in Receivers
      BY <1>2 DEF Inv, Prompt, ReceiverInv, ReceiverTypes, Receivers
    <3>2. GiveUp = 0
      BY <1>2 DEF Prompt
    <3>3. CASE Tick
      <4> DEFINE q == rcv.hasReceivedPacketQueue
      <4>1. rcv'.hasReceivedPacketQueue =
              [i \in DOMAIN q |-> IF q[i] > Expired /\ GiveUp > 0 THEN q[i] - 1 ELSE q[i]]
        BY <3>1, <3>3 DEF Tick, Receivers
      <4>2. rcv'.hasReceivedPacketQueue = [i \in DOMAIN q |-> q[i]]
        BY <4>1, <3>2
      <4> HIDE DEF q
      <4>3. [i \in DOMAIN q |-> q[i]] = q
        BY <3>1 DEF q
      <4> QED  BY <4>2, <4>3, <2>1 DEF q
    <3>4. CASE SendAcks \/ ForgetSplit
      BY <3>4, <3>1, <2>1 DEF SendAcks, ForgetSplit, WithoutSplit, Receivers
    <3> QED  BY <2>3, <3>3, <3>4
  <2>4. CASE (\E m \in Menu : Send(m)) \/ GenerateDatagram \/ DieOfSilence \/ Lose \/ Mature
             \/ (\E a \in acksOnWire : ReceiveAcks(a)) \/ UNCHANGED vars
    BY <2>4, <2>1 DEF Send, GenerateDatagram, DieOfSilence, Lose, Mature, ReceiveAcks, vars
  <2> QED  BY <2>2, <2>3, <2>4 DEF Next
<1>5. Smooth'
  BY <1>4, PromptIsSmooth, PTL
<1>6. KeepingInv'
  BY <1>3, <1>5, KeepingStep
<1> QED  BY <1>4, <1>6

LEMMA PromptAtStart ==
  ASSUME Init
  PROVE  PromptInv
<1>1. Len(rcv.hasReceivedPacketQueue) = 0
  BY DEF Init, ReceiverStart
<1> QED  BY <1>1, KeepingAtStart DEF PromptInv, NoneExpired

\* When no number is ever given up and fewer messages are sent than the receiver
\* may be behind, the connection is smooth all along.
THEOREM PromptlyNothingIsLost == Spec => [](Prompt => NothingLost)
<1>1. Init => PromptInv
  BY PromptAtStart
<1>2. Inv /\ Inv' /\ SequenceInv /\ PromptInv /\ [Next]_vars => PromptInv'
  BY PromptStep
<1>3. Inv /\ PromptInv => (Prompt => NothingLost)
  BY PromptIsSmooth, KeptIsNotLost DEF PromptInv
<1> QED  BY <1>1, <1>2, <1>3, ReliabilityInvariant, SequenceInvariant, PTL DEF Spec
=============================================================================
