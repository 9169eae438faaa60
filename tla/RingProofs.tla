------------------------------ MODULE RingProofs ------------------------------
(***************************************************************************)
(* The queue between the two threads is a Fifo, whatever the size of the   *)
(* ring, and however the steps of the threads alternate.                   *)
(*                                                                         *)
(* The nodes are looked at in the order of their links: r is the ring,     *)
(* counted from the node that is read, n its length, and w the place of    *)
(* the node to write next.  Behind w there is a free node whenever the     *)
(* network thread has looked, and what lies before w is what waits.        *)
(*                                                                         *)
(* RakNet's other ring, the queue of DS_Queue.h, is the sequence that its  *)
(* operations name, wherever it begins and however often it is moved.      *)
(***************************************************************************)
EXTENDS PacketRing, TLAPS, FiniteSetTheorems, SequenceTheorems, WellFoundedInduction

Packets == 1..MaxPackets
Places == {Unlinked} \cup Nodes

\* The node that is read was left behind by readAheadPointer.
IsAhead == reader \in {"copy", "unflag", "unlock"}
\* The node that is written was left behind by writeAheadPointer.
IsClaimed == writer \in {"store", "flag", "publish"}
\* The network thread has found room, or made some.
HasRoom == writer \in {"check", "link", "advance", "store", "flag", "publish"}

Types ==
  /\ next \in [Places -> Places] /\ object \in [Places -> Nat]
  /\ writer \in {"idle", "check", "grow", "link", "advance", "store", "flag", "publish"}
  /\ reader \in {"lock", "ready", "ahead", "copy", "unflag", "unlock", "pop"}
  /\ sent \in Nat /\ (writer # "idle" => sent < MaxPackets)
  /\ taken \in Seq(Packets) /\ packetPool \in Seq(Packets)
  /\ reader = "copy" => taken = <<>>

After(n, r, i) == IF i = n - 1 THEN r[0] ELSE r[i + 1]

\* r goes once around the ring; a node that is being linked in has its place
\* already, and where its link will lead is known.
IsRing(n, r, w) ==
  /\ n \in Nat /\ MinSize <= n /\ r \in [0..(n - 1) -> Nodes]
  /\ \A i, j \in 0..(n - 1) : r[i] = r[j] => i = j
  /\ w \in 0..(n - 1) /\ (HasRoom => w + 1 <= n - 1)
  /\ \A i \in 0..(n - 1) : \/ next[r[i]] = After(n, r, i)
                           \/ writer = "link" /\ i = w + 1
  /\ writer = "link" => originalNext = After(n, r, w + 1)

\* The pointers of the two threads are where their next steps expect them.
ReadsAt(r, w) ==
  /\ readPointer = r[0] /\ readAheadPointer = r[IF IsAhead THEN 1 ELSE 0]
  /\ reader = "copy" => threadPacket = r[0]
  /\ reader \in {"ready", "ahead"} \/ IsAhead => w >= 1
WritesAt(r, w) ==
  /\ writePointer = r[w] /\ writeAheadPointer = r[IF IsClaimed THEN w + 1 ELSE w]
  /\ IsClaimed => slot = r[w]

\* What was written is there.
Holds(r, w) ==
  /\ \A i \in 0..(w - 1) : object[r[i]] \in Packets
  /\ writer \in {"flag", "publish"} => object[r[w]] = sent + 1

Layout(n, r, w) == IsRing(n, r, w) /\ ReadsAt(r, w) /\ WritesAt(r, w) /\ Holds(r, w)

RingInv == Types /\ \E n, r, w : Layout(n, r, w)

\* The place of the oldest packet that was not copied.
Oldest == IF IsAhead /\ reader # "copy" THEN 1 ELSE 0
\* What waits, by the places in the ring.
Content(r, w) == [i \in 1..(w - Oldest) |-> object[r[Oldest + i - 1]]]
WaitingShown == \A n, r, w : Layout(n, r, w) => Waiting = Content(r, w)

-----------------------------------------------------------------------------
(* Walks along the links *)

LEMMA Least ==
  ASSUME NEW T, T \subseteq Nat, T # {}
  PROVE  \E x \in T : \A y \in T : x <= y
<1>1. \E x \in T : \A y \in T : ~(<<y, x>> \in OpToRel(<, Nat))
  BY WFMin, NatLessThanWellFounded
<1>2. PICK x \in T : \A y \in T : ~(<<y, x>> \in OpToRel(<, Nat))
  BY <1>1
<1>3. ASSUME NEW y \in T PROVE ~(y < x)
  BY <1>2 DEF OpToRel
<1> QED  BY <1>3

\* h goes n links along from p.
IsWalk(h, p, n) ==
  /\ h \in [0..n -> Places] /\ h[0] = p
  /\ \A k \in 1..n : h[k] = next[h[k - 1]]

LEMMA WalkExists ==
  ASSUME next \in [Places -> Places], NEW p \in Places, NEW n \in Nat
  PROVE  \E h : IsWalk(h, p, n)
<1> DEFINE T == {k \in 0..n : ~\E h : IsWalk(h, p, k)}
<1>1. SUFFICES ASSUME T # {} PROVE FALSE
  BY <1>1
<1>2. PICK k \in T : \A j \in T : k <= j
  BY <1>1, Least, T \subseteq Nat
<1>3. k \in 0..n /\ ~\E h : IsWalk(h, p, k)
  BY <1>2
<1>4. k # 0
  <2>1. IsWalk([i \in 0..0 |-> p], p, 0)
    BY DEF IsWalk
  <2> QED  BY <2>1, <1>3
<1>5. k - 1 \in 0..n /\ k - 1 < k
  BY <1>3, <1>4
<1>6. PICK h : IsWalk(h, p, k - 1)
  BY <1>2, <1>5
<1> HIDE DEF T
<1> DEFINE g == [i \in 0..k |-> IF i < k THEN h[i] ELSE next[h[k - 1]]]
<1>7. g \in [0..k -> Places] /\ g[0] = p
  BY <1>3, <1>4, <1>6 DEF IsWalk
<1>8. ASSUME NEW i \in 1..k PROVE g[i] = next[g[i - 1]]
  <2>1. i - 1 \in 0..k /\ i - 1 < k /\ g[i - 1] = h[i - 1]
    BY <1>3, <1>4
  <2>2. CASE i < k
    BY <2>1, <2>2, <1>3, <1>6 DEF IsWalk
  <2>3. CASE i = k
    BY <2>1, <2>3, <1>3
  <2> QED  BY <2>2, <2>3, <1>3
<1> HIDE DEF g
<1>9. IsWalk(g, p, k)
  BY <1>7, <1>8 DEF IsWalk
<1> QED  BY <1>9, <1>3

\* Hops is what it says.
LEMMA HopsWalk ==
  ASSUME RingAssumption, next \in [Places -> Places], NEW p \in Places
  PROVE  IsWalk(Hops(p), p, MaxNodes)
<1> DEFINE hop[k \in 0..MaxNodes] == IF k = 0 THEN p ELSE next[hop[k - 1]]
<1>1. MaxNodes \in Nat
  BY DEF RingAssumption
<1>2. PICK h : IsWalk(h, p, MaxNodes)
  BY <1>1, WalkExists
<1>3. h = [k \in 0..MaxNodes |-> IF k = 0 THEN p ELSE next[h[k - 1]]]
  <2>1. ASSUME NEW k \in 0..MaxNodes PROVE h[k] = IF k = 0 THEN p ELSE next[h[k - 1]]
    BY <1>1, <1>2 DEF IsWalk
  <2> QED  BY <2>1, <1>2 DEF IsWalk
<1>4. hop = [k \in 0..MaxNodes |-> IF k = 0 THEN p ELSE next[hop[k - 1]]]
  BY <1>3
<1> HIDE DEF hop
<1>5. hop[0] = p /\ \A k \in 1..MaxNodes : hop[k] = next[hop[k - 1]]
  BY <1>1, <1>4
<1>6. \A k \in 0..MaxNodes : hop[k] \in Places
  <2> DEFINE T == {k \in 0..MaxNodes : hop[k] \notin Places}
  <2>1. SUFFICES ASSUME T # {} PROVE FALSE
    BY <2>1
  <2>2. PICK k \in T : \A j \in T : k <= j
    BY <2>1, <1>1, Least, T \subseteq Nat
  <2>3. k # 0
    BY <2>2, <1>5
  <2>4. k \in 1..MaxNodes /\ hop[k - 1] \in Places
    BY <2>2, <2>3, <1>1
  <2> QED  BY <2>2, <2>4, <1>5
<1>7. IsWalk(hop, p, MaxNodes)
  BY <1>4, <1>5, <1>6 DEF IsWalk
<1>8. Hops(p) = hop
  BY DEF Hops, hop
<1> QED  BY <1>7, <1>8

\* Who follows the links that q has goes along q.
LEMMA HopsAlong ==
  ASSUME RingAssumption, next \in [Places -> Places], NEW n \in 0..MaxNodes,
         NEW q, q[0] \in Places, \A k \in 1..n : q[k] = next[q[k - 1]]
  PROVE  \A k \in 0..n : Hops(q[0])[k] = q[k]
<1> DEFINE h == Hops(q[0])
           T == {k \in 0..n : h[k] # q[k]}
<1>0. MaxNodes \in Nat /\ n \in Nat /\ n <= MaxNodes
  BY DEF RingAssumption
<1>1. h[0] = q[0] /\ \A k \in 1..MaxNodes : h[k] = next[h[k - 1]]
  BY HopsWalk DEF IsWalk
<1> HIDE DEF h
<1>2. SUFFICES ASSUME T # {} PROVE FALSE
  BY <1>2 DEF h
<1>3. PICK k \in T : \A j \in T : k <= j
  BY <1>2, <1>0, Least, T \subseteq Nat
<1>4. k # 0
  BY <1>3, <1>1
<1>5. k \in 1..n /\ k \in 1..MaxNodes /\ h[k - 1] = q[k - 1]
  BY <1>3, <1>4, <1>0
<1> QED  BY <1>1, <1>3, <1>5

\* The nodes of a ring are apart, so there are no more of them than nodes.
LEMMA RingFits ==
  ASSUME RingAssumption, NEW n, NEW r, NEW w, IsRing(n, r, w)
  PROVE  n \in Nat /\ n >= 3 /\ n <= MaxNodes
<1>1. n \in Nat /\ n >= 3 /\ MaxNodes \in Nat
  BY DEF IsRing, RingAssumption
<1>2. IsFiniteSet(0..(n - 1)) /\ Cardinality(0..(n - 1)) = n
  BY <1>1, FS_Interval
<1>3. IsFiniteSet(Nodes) /\ Cardinality(Nodes) = MaxNodes
  BY <1>1, FS_Interval DEF Nodes
<1>4. r \in Injection(0..(n - 1), Nodes)
  BY DEF IsRing, Injection, IsInjective
<1>5. n <= MaxNodes
  BY <1>2, <1>3, <1>4, FS_Injection
<1> QED  BY <1>1, <1>5

\* What waits is what lies in the ring between the two threads.
LEMMA WaitingIs ==
  ASSUME RingAssumption, Types
  PROVE  WaitingShown
<1> SUFFICES ASSUME NEW n, NEW r, NEW w, Layout(n, r, w)
             PROVE  Waiting = Content(r, w)
  BY DEF WaitingShown
<1> DEFINE first == IF reader = "copy" THEN threadPacket ELSE readAheadPointer
           hop == Hops(first)
           ends == {writePointer, Unlinked}
           Ends(k) == hop[k] \in ends /\ \A j \in 0..(k - 1) : hop[j] \notin ends
           d == w - Oldest
           q == [k \in 0..d |-> r[Oldest + k]]
<1>1. n \in Nat /\ n >= 3 /\ n <= MaxNodes /\ MaxNodes \in Nat /\ w \in 0..(n - 1)
  BY RingFits DEF Layout, IsRing, RingAssumption
<1>2. /\ \A i \in 0..(n - 1) : r[i] \in Places /\ r[i] # Unlinked
      /\ \A i, j \in 0..(n - 1) : r[i] = r[j] => i = j
  BY DEF Layout, IsRing, Places, Nodes, Unlinked
<1>3. \A i \in 0..(w - 1) : next[r[i]] = r[i + 1]
  BY <1>1 DEF Layout, IsRing, After
<1>4. Oldest \in {0, 1} /\ d \in Nat /\ d <= w /\ d \in 0..MaxNodes /\ first = r[Oldest]
  BY <1>1 DEF Oldest, Layout, ReadsAt, IsAhead
<1>5. \A k \in 0..d : Oldest + k \in 0..w /\ Oldest + k \in 0..(n - 1) /\ q[k] = r[Oldest + k]
  BY <1>1, <1>4
<1>6. Oldest + d = w /\ writePointer = r[w]
  BY <1>1, <1>4 DEF Layout, WritesAt
<1> HIDE DEF q, d, first
<1>7. q[0] = first /\ q[0] \in Places
  BY <1>2, <1>4, <1>5
<1>8. ASSUME NEW k \in 1..d PROVE q[k] = next[q[k - 1]]
  <2>1. Oldest + (k - 1) \in 0..(w - 1) /\ Oldest + (k - 1) + 1 = Oldest + k
    BY <1>4, <1>5, <1>6, <1>1
  <2>2. q[k - 1] = r[Oldest + (k - 1)] /\ q[k] = r[Oldest + k]
    BY <1>4, <1>5
  <2> QED  BY <2>1, <2>2, <1>3
<1>9. \A k \in 0..d : hop[k] = q[k]
  BY <1>4, <1>7, <1>8, HopsAlong DEF Types
<1> HIDE DEF hop
<1>10. Ends(d)
  <2>1. d \in 0..d
    BY <1>4
  <2>2. hop[d] = writePointer
    BY <2>1, <1>5, <1>6, <1>9
  <2>3. ASSUME NEW j \in 0..(d - 1) PROVE hop[j] \notin ends
    <3>1. j \in 0..d /\ Oldest + j \in 0..(n - 1) /\ Oldest + j # w /\ hop[j] = r[Oldest + j]
      BY <1>4, <1>5, <1>6, <1>9
    <3> QED  BY <3>1, <1>1, <1>2, <1>6
  <2> QED  BY <2>2, <2>3
<1>11. ASSUME NEW k \in 0..MaxNodes, Ends(k) PROVE k = d
  <2>1. ~(k < d)
    <3> SUFFICES ASSUME k < d PROVE FALSE
      OBVIOUS
    <3>1. k \in 0..(d - 1)
      BY <1>4
    <3> QED  BY <3>1, <1>10, <1>11
  <2>2. ~(d < k)
    <3> SUFFICES ASSUME d < k PROVE FALSE
      OBVIOUS
    <3>1. d \in 0..(k - 1)
      BY <1>4, <1>1
    <3> QED  BY <3>1, <1>10, <1>11
  <2> QED  BY <2>1, <2>2, <1>1, <1>4
<1> HIDE DEF Ends
<1>12. d = CHOOSE k \in 0..MaxNodes : Ends(k)
  BY <1>4, <1>10, <1>11
<1>13. Waiting = [i \in 1..d |-> object[hop[i - 1]]]
  BY <1>12 DEF Waiting, Ends, first, hop
<1>14. ASSUME NEW i \in 1..d PROVE hop[i - 1] = r[Oldest + i - 1]
  <2>1. i - 1 \in 0..d /\ Oldest + (i - 1) = Oldest + i - 1
    BY <1>4
  <2> QED  BY <2>1, <1>5, <1>9
<1>15. Content(r, w) = [i \in 1..d |-> object[r[Oldest + i - 1]]]
  BY DEF Content, d
<1> QED  BY <1>13, <1>14, <1>15

-----------------------------------------------------------------------------
(* What each thread leaves of the other's part *)

LEMMA ReaderSide ==
  ASSUME NEW n, NEW r, NEW w, Layout(n, r, w),
         UNCHANGED <<readPointer, readAheadPointer, reader, threadPacket>>
  PROVE  ReadsAt(r, w)' /\ Oldest' = Oldest
BY DEF Layout, ReadsAt, IsAhead, Oldest

LEMMA WriterSide ==
  ASSUME NEW n, NEW r, NEW w, Layout(n, r, w),
         UNCHANGED <<next, object, writePointer, writeAheadPointer, writer, originalNext, slot, sent>>
  PROVE  IsRing(n, r, w)' /\ WritesAt(r, w)' /\ Holds(r, w)'
BY DEF Layout, IsRing, WritesAt, Holds, HasRoom, IsClaimed, After

\* The same content, if nothing is written before w.
LEMMA SameContent ==
  ASSUME NEW r, NEW w, Oldest' = Oldest, \A i \in Nat : i < w => object'[r[i]] = object[r[i]], w \in Nat
  PROVE  Content(r, w)' = Content(r, w)
<1>1. Oldest \in {0, 1}
  BY DEF Oldest
<1>2. \A i \in 1..(w - Oldest) : Oldest + i - 1 \in Nat /\ Oldest + i - 1 < w
  BY <1>1
<1>3. \A i \in 1..(w - Oldest) : object'[r[Oldest + i - 1]] = object[r[Oldest + i - 1]]
  BY <1>2
<1> QED  BY <1>3 DEF Content

\* Steps of the network thread that leave the ring as it is.
LEMMA WriterQuiet ==
  ASSUME RingAssumption, Types, NEW n, NEW r, NEW w, Layout(n, r, w),
         WriteLock \/ CheckReady \/ Advance \/ Store \/ Flag \/ Link
  PROVE  Layout(n, r, w)' /\ Content(r, w)' = Content(r, w)
<1>1. /\ n \in Nat /\ w \in 0..(n - 1) /\ w \in Nat
      /\ \A i \in 0..(n - 1) : r[i] \in Nodes /\ r[i] \in Places
      /\ \A i, j \in 0..(n - 1) : r[i] = r[j] => i = j
  BY DEF Layout, IsRing, Places
<1>2. ReadsAt(r, w)' /\ Oldest' = Oldest
  BY ReaderSide DEF WriteLock, CheckReady, Advance, Store, Flag, Link, readVars, readerVars
<1>3. CASE WriteLock
  <2>1. UNCHANGED <<next, object, writePointer, writeAheadPointer, originalNext, slot, sent>>
        /\ writer = "idle"
        /\ writer' = IF next[writeAheadPointer] = readPointer THEN "grow" ELSE "check"
    BY <1>3 DEF WriteLock, Writer, nodeVars, writeVars
  <2>2. writer' = "check" => w + 1 <= n - 1
    <3> SUFFICES ASSUME w = n - 1, next[writeAheadPointer] # readPointer PROVE FALSE
      BY <2>1, <1>1
    <3>1. next[r[w]] = r[0]
      BY <2>1, <1>1 DEF Layout, IsRing, After
    <3> QED  BY <3>1, <2>1 DEF Layout, ReadsAt, WritesAt, IsClaimed
  <2>3. IsRing(n, r, w)' /\ WritesAt(r, w)' /\ Holds(r, w)'
    BY <2>1, <2>2 DEF Layout, IsRing, WritesAt, Holds, HasRoom, IsClaimed, After
  <2>4. Content(r, w)' = Content(r, w)
    BY <2>1, <1>1, <1>2, SameContent
  <2> QED  BY <2>3, <2>4, <1>2 DEF Layout
<1>4. CASE CheckReady
  <2>1. UNCHANGED <<next, object, writePointer, writeAheadPointer, originalNext, slot, sent>>
        /\ writer = "check" /\ writer' \in {"grow", "advance"}
    BY <1>4 DEF CheckReady, Writer, nodeVars, writeVars
  <2>3. IsRing(n, r, w)' /\ WritesAt(r, w)' /\ Holds(r, w)'
    BY <2>1 DEF Layout, IsRing, WritesAt, Holds, HasRoom, IsClaimed, After
  <2>4. Content(r, w)' = Content(r, w)
    BY <2>1, <1>1, <1>2, SameContent
  <2> QED  BY <2>3, <2>4, <1>2 DEF Layout
<1>5. CASE Advance
  <2>1. /\ UNCHANGED <<next, object, writePointer, originalNext, sent>>
        /\ writer = "advance" /\ writer' = "store"
        /\ slot' = writeAheadPointer /\ writeAheadPointer' = next[writeAheadPointer]
    BY <1>5 DEF Advance, Writer, nodeVars
  <2>2. writeAheadPointer = r[w] /\ w + 1 <= n - 1 /\ next[r[w]] = r[w + 1]
    BY <2>1, <1>1 DEF Layout, IsRing, WritesAt, HasRoom, IsClaimed, After
  <2>3. IsRing(n, r, w)' /\ Holds(r, w)'
    BY <2>1 DEF Layout, IsRing, Holds, HasRoom, After
  <2>4. WritesAt(r, w)'
    BY <2>1, <2>2 DEF Layout, WritesAt, IsClaimed
  <2>5. Content(r, w)' = Content(r, w)
    BY <2>1, <1>1, <1>2, SameContent
  <2> QED  BY <2>3, <2>4, <2>5, <1>2 DEF Layout
<1>6. CASE Store
  <2>1. /\ UNCHANGED <<next, writePointer, writeAheadPointer, originalNext, slot, sent>>
        /\ writer = "store" /\ writer' = "flag" /\ slot = r[w]
        /\ object' = [object EXCEPT ![slot] = sent + 1]
    BY <1>6 DEF Store, Writer, writeVars, Layout, WritesAt, IsClaimed
  <2>2. object'[r[w]] = sent + 1 /\ \A i \in Nat : i < w => object'[r[i]] = object[r[i]]
    <3>1. r[w] \in Places /\ \A i \in Nat : i < w => i \in 0..(n - 1) /\ i # w
      BY <1>1
    <3> QED  BY <3>1, <2>1, <1>1 DEF Types
  <2>3. IsRing(n, r, w)'
    BY <2>1 DEF Layout, IsRing, HasRoom, After
  <2>4. WritesAt(r, w)'
    BY <2>1 DEF Layout, WritesAt, IsClaimed
  <2>5. Holds(r, w)'
    BY <2>1, <2>2, <1>1 DEF Layout, Holds
  <2>6. Content(r, w)' = Content(r, w)
    BY <2>2, <1>1, <1>2, SameContent
  <2> QED  BY <2>3, <2>4, <2>5, <2>6, <1>2 DEF Layout
<1>7. CASE Flag
  <2>1. /\ UNCHANGED <<next, object, writePointer, writeAheadPointer, originalNext, slot, sent>>
        /\ writer = "flag" /\ writer' = "publish"
    BY <1>7 DEF Flag, Writer, writeVars
  <2>2. IsRing(n, r, w)' /\ WritesAt(r, w)' /\ Holds(r, w)'
    BY <2>1 DEF Layout, IsRing, WritesAt, Holds, HasRoom, IsClaimed, After
  <2>3. Content(r, w)' = Content(r, w)
    BY <2>1, <1>1, <1>2, SameContent
  <2> QED  BY <2>2, <2>3, <1>2 DEF Layout
<1>8. CASE Link
  <2>1. /\ UNCHANGED <<object, writePointer, writeAheadPointer, originalNext, slot, sent>>
        /\ writer = "link" /\ writer' = "advance"
        /\ next' = [next EXCEPT ![next[writeAheadPointer]] = originalNext]
    BY <1>8 DEF Link, Writer, writeVars
  <2>2. /\ writeAheadPointer = r[w] /\ w + 1 <= n - 1 /\ next[r[w]] = r[w + 1]
        /\ originalNext = After(n, r, w + 1)
        /\ \A i \in 0..(n - 1) : i # w + 1 => next[r[i]] = After(n, r, i)
    BY <2>1, <1>1 DEF Layout, IsRing, WritesAt, HasRoom, IsClaimed, After
  <2>3. \A i \in 0..(n - 1) : next'[r[i]] = After(n, r, i)
    <3> TAKE i \in 0..(n - 1)
    <3>1. w + 1 \in 0..(n - 1) /\ r[w + 1] \in Places /\ r[i] \in Places
      BY <2>2, <1>1
    <3> QED  BY <3>1, <2>1, <2>2, <1>1 DEF Types
  <2>4. IsRing(n, r, w)'
    BY <2>1, <2>2, <2>3 DEF Layout, IsRing, HasRoom, After
  <2>5. WritesAt(r, w)' /\ Holds(r, w)'
    BY <2>1 DEF Layout, WritesAt, Holds, IsClaimed
  <2>6. Content(r, w)' = Content(r, w)
    BY <2>1, <1>1, <1>2, SameContent
  <2> QED  BY <2>4, <2>5, <2>6, <1>2 DEF Layout
<1> QED  BY <1>3, <1>4, <1>5, <1>6, <1>7, <1>8

LEMMA ContentIs ==
  ASSUME NEW n, NEW r, NEW w, Layout(n, r, w)
  PROVE  /\ Oldest \in {0, 1} /\ w \in Nat /\ w - Oldest \in Nat
         /\ Content(r, w) \in Seq(Packets) /\ Len(Content(r, w)) = w - Oldest
         /\ \A i \in 1..(w - Oldest) : Content(r, w)[i] = object[r[Oldest + i - 1]]
<1>1. w \in Nat /\ Oldest \in {0, 1} /\ w - Oldest \in Nat
  BY DEF Layout, IsRing, ReadsAt, Oldest, IsAhead
<1>2. ASSUME NEW i \in 1..(w - Oldest) PROVE object[r[Oldest + i - 1]] \in Packets
  <2>1. Oldest + i - 1 \in 0..(w - 1)
    BY <1>1
  <2> QED  BY <2>1 DEF Layout, Holds
<1>3. Content(r, w) \in Seq(Packets) /\ Len(Content(r, w)) = w - Oldest
  BY <1>1, <1>2 DEF Content
<1> QED  BY <1>1, <1>3 DEF Content

\* The packet that was written is shown.
LEMMA PublishStep ==
  ASSUME RingAssumption, Types, NEW n, NEW r, NEW w, Layout(n, r, w), Publish
  PROVE  /\ Layout(n, r, w + 1)' /\ sent + 1 \in Packets
         /\ Content(r, w + 1)' = Append(Content(r, w), sent + 1)
<1>1. /\ UNCHANGED <<next, object, writeAheadPointer, originalNext, slot>>
      /\ writer = "publish" /\ writer' = "idle"
      /\ writePointer' = next[writePointer] /\ sent' = sent + 1
  BY DEF Publish, Writer, nodeVars
<1>2. /\ n \in Nat /\ w \in 0..(n - 1) /\ w + 1 \in 0..(n - 1) /\ next[r[w]] = r[w + 1]
      /\ writePointer = r[w] /\ writeAheadPointer = r[w + 1] /\ object[r[w]] = sent + 1
  BY <1>1 DEF Layout, IsRing, WritesAt, Holds, HasRoom, IsClaimed, After
<1>3. sent + 1 \in Packets
  BY <1>1 DEF Types, RingAssumption, Packets
<1>4. ReadsAt(r, w)' /\ Oldest' = Oldest
  BY ReaderSide DEF Publish, readVars, readerVars
<1>5. ReadsAt(r, w + 1)'
  BY <1>2, <1>4 DEF ReadsAt
<1>6. IsRing(n, r, w + 1)'
  BY <1>1, <1>2 DEF Layout, IsRing, HasRoom, After
<1>7. WritesAt(r, w + 1)'
  BY <1>1, <1>2 DEF WritesAt, IsClaimed
<1>8. Holds(r, w + 1)'
  BY <1>1, <1>2, <1>3 DEF Layout, Holds
<1>9. Content(r, w + 1)' = Append(Content(r, w), sent + 1)
  <2> DEFINE c == Content(r, w)  d == w - Oldest
  <2>1. /\ d \in Nat /\ c \in Seq(Packets) /\ Len(c) = d /\ Oldest \in {0, 1}
        /\ \A i \in 1..d : c[i] = object[r[Oldest + i - 1]]
    BY ContentIs
  <2>2. Content(r, w + 1)' = [i \in 1..(d + 1) |-> object[r[Oldest + i - 1]]]
    <3>1. (w + 1) - Oldest = d + 1
      BY <2>1, <1>2
    <3>2. Content(r, w + 1)' = [i \in 1..((w + 1) - Oldest) |-> object[r[Oldest + i - 1]]]
      BY <1>1, <1>4 DEF Content
    <3> QED  BY <3>1, <3>2
  <2>3. Oldest + (d + 1) - 1 = w
    BY <2>1, <1>2
  <2> HIDE DEF c, d
  <2>4. Append(c, sent + 1) = [i \in 1..(d + 1) |-> object[r[Oldest + i - 1]]]
    BY <2>1, <2>3, <1>2
  <2> QED  BY <2>2, <2>4 DEF c
<1> QED  BY <1>3, <1>5, <1>6, <1>7, <1>8, <1>9 DEF Layout

\* A node goes in behind the one to write next.
LEMMA GrowStep ==
  ASSUME RingAssumption, Types, NEW n, NEW r, NEW w, Layout(n, r, w), Grow
  PROVE  \E q : /\ Layout(n + 1, q, w)'
                /\ Content(q, w)' = Content(r, w)
<1>0. PICK new : new = Min(Nodes \ Linked)
  OBVIOUS
<1>1. /\ UNCHANGED <<object, writePointer, writeAheadPointer, slot, sent>>
      /\ writer = "grow" /\ writer' = "link" /\ Nodes \ Linked # {}
      /\ originalNext' = next[writeAheadPointer]
      /\ next' = [next EXCEPT ![writeAheadPointer] = new, ![new] = Unlinked]
  BY <1>0 DEF Grow, Writer, writeVars
<1>2. new \in Nodes /\ new \notin Linked
  <2>1. Nodes \ Linked \subseteq Nat
    BY DEF Nodes
  <2>2. \E x \in Nodes \ Linked : \A y \in Nodes \ Linked : x <= y
    BY <2>1, <1>1, Least
  <2> QED  BY <2>2, <1>0 DEF Min
<1>3. /\ n \in Nat /\ n >= 3 /\ w \in 0..(n - 1) /\ MinSize <= n
      /\ \A i \in 0..(n - 1) : r[i] \in Nodes /\ r[i] \in Places
      /\ \A i, j \in 0..(n - 1) : r[i] = r[j] => i = j
      /\ \A i \in 0..(n - 1) : next[r[i]] = After(n, r, i)
      /\ writeAheadPointer = r[w] /\ MinSize \in Nat /\ writePointer = r[w]
  BY <1>1 DEF Layout, IsRing, Places, WritesAt, IsClaimed, RingAssumption
<1>4. \A i \in 0..(n - 1) : r[i] # new
  <2> SUFFICES ASSUME NEW i \in 0..(n - 1) PROVE r[i] \in Linked
    BY <1>2
  <2>1. \E j \in 0..(n - 1) : next[r[j]] = r[i]
    <3>1. CASE i = 0
      <4>1. n - 1 \in 0..(n - 1) /\ next[r[n - 1]] = r[0]
        BY <1>3 DEF After
      <4> QED  BY <4>1, <3>1
    <3>2. CASE i # 0
      <4>1. i - 1 \in 0..(n - 1) /\ next[r[i - 1]] = r[i]
        BY <3>2, <1>3 DEF After
      <4> QED  BY <4>1
    <3> QED  BY <3>1, <3>2
  <2> QED  BY <2>1, <1>3 DEF Linked
<1>q. PICK q : q = [i \in 0..n |-> IF i <= w THEN r[i] ELSE IF i = w + 1 THEN new ELSE r[i - 1]]
  OBVIOUS
<1>5. /\ \A i \in 0..w : i \in 0..(n - 1) /\ q[i] = r[i]
      /\ q[w + 1] = new
      /\ \A i \in (w + 2)..n : i - 1 \in 0..(n - 1) /\ q[i] = r[i - 1]
      /\ \A i \in 0..n : i \in 0..w \/ i = w + 1 \/ i \in (w + 2)..n
  BY <1>3, <1>q
<1>6. q \in [0..n -> Nodes]
  BY <1>2, <1>3, <1>q
<1>7. ASSUME NEW i \in 0..n, NEW j \in 0..n, q[i] = q[j] PROVE i = j
  BY <1>3, <1>4, <1>5, <1>7
<1>8. /\ next'[r[w]] = new
      /\ \A i \in 0..(n - 1) : i # w => next'[r[i]] = After(n, r, i)
  <2>1. new \in Places
    BY <1>2 DEF Places
  <2> QED  BY <2>1, <1>1, <1>3, <1>4 DEF Types
<1>9. ASSUME NEW i \in 0..n, i # w + 1 PROVE next'[q[i]] = After(n + 1, q, i)
  <2>1. CASE i = w
    BY <2>1, <1>3, <1>5, <1>8 DEF After
  <2>2. CASE i < w
    <3>1. i \in 0..(n - 1) /\ i + 1 \in 0..w /\ i # n - 1
      BY <2>2, <1>3
    <3> QED  BY <2>2, <3>1, <1>3, <1>5, <1>8 DEF After
  <2>3. CASE i > w + 1
    <3>1. i \in (w + 2)..n /\ i - 1 \in 0..(n - 1) /\ i - 1 # w
      BY <2>3, <1>3
    <3>2. next'[q[i]] = IF i - 1 = n - 1 THEN r[0] ELSE r[i - 1 + 1]
      BY <3>1, <1>5, <1>8 DEF After
    <3>3. q[0] = r[0]
      BY <1>3, <1>5
    <3>4. i # n => i + 1 \in (w + 2)..n /\ q[i + 1] = r[i]
      BY <3>1, <1>3, <1>5
    <3> QED  BY <3>1, <3>2, <3>3, <3>4, <1>3 DEF After
  <2> QED  BY <2>1, <2>2, <2>3, <1>3, <1>9
<1>10. originalNext' = After(n + 1, q, w + 1)
  <2>1. originalNext' = After(n, r, w)
    BY <1>1, <1>3
  <2>2. q[0] = r[0]
    BY <1>3, <1>5
  <2>3. w # n - 1 => w + 2 \in (w + 2)..n /\ q[w + 2] = r[w + 1]
    BY <1>3, <1>5
  <2> QED  BY <2>1, <2>2, <2>3, <1>3 DEF After
<1>11. IsRing(n + 1, q, w)'
  <2>1. n + 1 \in Nat /\ MinSize <= n + 1 /\ (n + 1) - 1 = n /\ w \in 0..n /\ w + 1 <= n
    BY <1>3
  <2>2. /\ q \in [0..((n + 1) - 1) -> Nodes]
        /\ \A i, j \in 0..((n + 1) - 1) : q[i] = q[j] => i = j
        /\ w \in 0..((n + 1) - 1) /\ w + 1 <= (n + 1) - 1
        /\ \A i \in 0..((n + 1) - 1) : next'[q[i]] = After(n + 1, q, i) \/ i = w + 1
    BY <2>1, <1>6, <1>7, <1>9
  <2>3. After(n + 1, q, w + 1)' = After(n + 1, q, w + 1)
        /\ \A i \in 0..((n + 1) - 1) : After(n + 1, q, i)' = After(n + 1, q, i)
    BY DEF After
  <2> QED  BY <2>1, <2>2, <2>3, <1>1, <1>10 DEF IsRing
<1>12. ReadsAt(r, w)' /\ Oldest' = Oldest
  BY ReaderSide DEF Grow, readVars, readerVars
<1>13. ReadsAt(q, w)'
  <2>1. q[0] = r[0] /\ (w >= 1 => q[1] = r[1])
    BY <1>3, <1>5
  <2> QED  BY <2>1, <1>12 DEF ReadsAt
<1>14. WritesAt(q, w)'
  BY <1>1, <1>3, <1>5 DEF WritesAt, IsClaimed
<1>15. Holds(q, w)'
  BY <1>1, <1>3, <1>5 DEF Layout, Holds
<1>16. Content(q, w)' = Content(r, w)
  <2>1. Oldest \in {0, 1}
    BY DEF Oldest
  <2>2. \A i \in 1..(w - Oldest) : q[Oldest + i - 1] = r[Oldest + i - 1]
    BY <2>1, <1>3, <1>5
  <2> QED  BY <2>2, <1>1, <1>12 DEF Content
<1> QED  BY <1>11, <1>13, <1>14, <1>15, <1>16 DEF Layout

\* Steps of the thread of the application that leave the ring as it is.
LEMMA ReaderQuiet ==
  ASSUME RingAssumption, Types, NEW n, NEW r, NEW w, Layout(n, r, w),
         ReadLock \/ ReadReady \/ ReadAhead \/ Unflag \/ Pop
  PROVE  Layout(n, r, w)' /\ Content(r, w)' = Content(r, w)
<1>1. n \in Nat /\ n >= 3 /\ w \in 0..(n - 1) /\ w \in Nat
  BY DEF Layout, IsRing, RingAssumption
<1>2. UNCHANGED <<next, object, writePointer, writeAheadPointer, writer, originalNext, slot, sent>>
  BY DEF ReadLock, ReadReady, ReadAhead, Unflag, Pop, nodeVars, writeVars, writerVars
<1>3. IsRing(n, r, w)' /\ WritesAt(r, w)' /\ Holds(r, w)'
  BY <1>2, WriterSide
<1>4. ReadsAt(r, w)' /\ Oldest' = Oldest
  <2>1. CASE ReadLock
    <3>1. /\ UNCHANGED <<readPointer, readAheadPointer, threadPacket>> /\ reader = "lock"
          /\ reader' = IF readAheadPointer = writePointer THEN "pop" ELSE "ready"
      BY <2>1 DEF ReadLock, Reader, readVars
    <3>2. reader' = "ready" => w >= 1
      BY <3>1, <1>1 DEF Layout, ReadsAt, WritesAt, IsAhead
    <3> QED  BY <3>1, <3>2 DEF Layout, ReadsAt, IsAhead, Oldest
  <2>2. CASE ReadReady
    BY <2>2 DEF ReadReady, Reader, readVars, Layout, ReadsAt, IsAhead, Oldest
  <2>3. CASE ReadAhead
    <3>1. /\ UNCHANGED readPointer /\ reader = "ahead" /\ reader' = "copy"
          /\ threadPacket' = readAheadPointer /\ readAheadPointer' = next[readAheadPointer]
      BY <2>3 DEF ReadAhead, Reader
    <3>2. w >= 1 /\ readAheadPointer = r[0] /\ readPointer = r[0]
      BY <3>1 DEF Layout, ReadsAt, IsAhead
    <3>3. next[r[0]] = r[1]
      <4>1. 0 \in 0..(n - 1) /\ 0 # n - 1 /\ 0 # w + 1
        BY <1>1
      <4> QED  BY <4>1 DEF Layout, IsRing, After
    <3> QED  BY <3>1, <3>2, <3>3 DEF ReadsAt, IsAhead, Oldest
  <2>4. CASE Unflag
    BY <2>4 DEF Unflag, Reader, readVars, Layout, ReadsAt, IsAhead, Oldest
  <2>5. CASE Pop
    BY <2>5 DEF Pop, Reader, readVars, Layout, ReadsAt, IsAhead, Oldest
  <2> QED  BY <2>1, <2>2, <2>3, <2>4, <2>5
<1>5. Content(r, w)' = Content(r, w)
  BY <1>1, <1>2, <1>4, SameContent
<1> QED  BY <1>3, <1>4, <1>5 DEF Layout

\* The oldest packet that waits is copied.
LEMMA CopyStep ==
  ASSUME RingAssumption, Types, NEW n, NEW r, NEW w, Layout(n, r, w), Copy
  PROVE  /\ Layout(n, r, w)' /\ Content(r, w) # <<>>
         /\ taken' = <<Head(Content(r, w))>> /\ Content(r, w)' = Tail(Content(r, w))
         /\ object[threadPacket] \in Packets
<1> DEFINE c == Content(r, w)
<1>1. /\ UNCHANGED <<next, object, writePointer, writeAheadPointer, writer, originalNext, slot, sent,
                     readPointer, readAheadPointer, threadPacket>>
      /\ reader = "copy" /\ reader' = "unflag" /\ taken' = <<object[threadPacket]>>
  BY DEF Copy, Reader, nodeVars, writeVars, writerVars, readVars
<1>2. Oldest = 0 /\ Oldest' = 1
  BY <1>1 DEF Oldest, IsAhead
<1>3. w >= 1 /\ threadPacket = r[0]
  BY <1>1 DEF Layout, ReadsAt, IsAhead
<1>4. c \in Seq(Packets) /\ Len(c) = w /\ w \in Nat /\ \A i \in 1..w : c[i] = object[r[i - 1]]
  <2>1. w - 0 = w /\ \A i \in 1..w : 0 + i - 1 = i - 1
    BY ContentIs
  <2> QED  BY <2>1, <1>2, ContentIs
<1>5. ReadsAt(r, w)'
  BY <1>1, <1>3 DEF Layout, ReadsAt, IsAhead
<1>6. Layout(n, r, w)'
  BY <1>1, <1>5, WriterSide DEF Layout
<1>7. Content(r, w)' = [i \in 1..(w - 1) |-> object[r[i]]]
  <2>1. Content(r, w)' = [i \in 1..(w - 1) |-> object[r[1 + i - 1]]]
    BY <1>1, <1>2 DEF Content
  <2>2. \A i \in 1..(w - 1) : 1 + i - 1 = i
    BY <1>4
  <2> QED  BY <2>1, <2>2
<1> HIDE DEF c
<1>8. c # <<>> /\ Head(c) = object[r[0]]
  BY <1>3, <1>4
<1>9. Tail(c) = [i \in 1..(w - 1) |-> object[r[i]]]
  <2>0. Tail(c) \in Seq(Packets) /\ Len(Tail(c)) = w - 1 /\ \A i \in 1..(w - 1) : Tail(c)[i] = c[i + 1]
    BY <1>4, <1>8, HeadTailProperties
  <2>1. Tail(c) = [i \in 1..(w - 1) |-> c[i + 1]]
    <3>1. Tail(c) \in [1..(w - 1) -> Packets]
      BY <2>0, LenProperties
    <3> QED  BY <2>0, <3>1
  <2>2. \A i \in 1..(w - 1) : c[i + 1] = object[r[i]]
    BY <1>4
  <2> QED  BY <2>1, <2>2
<1>10. object[r[0]] \in Packets
  BY <1>3, <1>4, <1>8, HeadTailProperties
<1> QED  BY <1>1, <1>3, <1>6, <1>7, <1>8, <1>9, <1>10 DEF c

\* The node that was read becomes the last one of the ring.
LEMMA UnlockStep ==
  ASSUME RingAssumption, Types, NEW n, NEW r, NEW w, Layout(n, r, w), Unlock
  PROVE  \E q : /\ Layout(n, q, w - 1)'
                /\ Content(q, w - 1)' = Content(r, w)
<1>1. /\ UNCHANGED <<next, object, writePointer, writeAheadPointer, writer, originalNext, slot, sent,
                     readAheadPointer>>
      /\ reader = "unlock" /\ reader' = "lock" /\ readPointer' = next[readPointer]
  BY DEF Unlock, Reader, nodeVars, writeVars, writerVars
<1>2. Oldest = 1 /\ Oldest' = 0
  BY <1>1 DEF Oldest, IsAhead
<1>3. /\ n \in Nat /\ n >= 3 /\ MinSize <= n /\ w \in 1..(n - 1) /\ (HasRoom => w + 1 <= n - 1)
      /\ r \in [0..(n - 1) -> Nodes]
      /\ \A i, j \in 0..(n - 1) : r[i] = r[j] => i = j
      /\ \A i \in 0..(n - 1) : next[r[i]] = After(n, r, i) \/ (writer = "link" /\ i = w + 1)
      /\ writer = "link" => originalNext = After(n, r, w + 1)
      /\ readPointer = r[0] /\ readAheadPointer = r[1]
  BY <1>1 DEF Layout, IsRing, ReadsAt, IsAhead, RingAssumption
<1>4. PICK q : q = [i \in 0..(n - 1) |-> IF i = n - 1 THEN r[0] ELSE r[i + 1]]
  OBVIOUS
<1>5. /\ \A i \in 0..(n - 2) : i \in 0..(n - 1) /\ i + 1 \in 0..(n - 1) /\ q[i] = r[i + 1]
      /\ n - 1 \in 0..(n - 1) /\ 0 \in 0..(n - 1) /\ q[n - 1] = r[0]
      /\ \A i \in 0..(n - 1) : i = n - 1 \/ i \in 0..(n - 2)
  BY <1>3, <1>4
<1>6. q \in [0..(n - 1) -> Nodes]
  BY <1>3, <1>4
<1>7. \A i, j \in 0..(n - 1) : q[i] = q[j] => i = j
  BY <1>3, <1>5
<1>8. ASSUME NEW i \in 0..(n - 2) PROVE After(n, q, i) = After(n, r, i + 1)
  <2>1. CASE i = n - 2
    <3>1. After(n, q, i) = q[n - 1]
      BY <2>1, <1>3, <1>5 DEF After
    <3>2. After(n, r, i + 1) = r[0]
      BY <2>1, <1>3 DEF After
    <3> QED  BY <3>1, <3>2, <1>5
  <2>2. CASE i # n - 2
    <3>1. i + 1 \in 0..(n - 2) /\ i # n - 1 /\ i + 1 # n - 1
      BY <2>2, <1>3
    <3> QED  BY <3>1, <1>5 DEF After
  <2> QED  BY <2>1, <2>2
<1>9. After(n, q, n - 1) = After(n, r, 0)
  <2>1. 0 \in 0..(n - 2) /\ 0 # n - 1
    BY <1>3
  <2> QED  BY <2>1, <1>5 DEF After
<1>10. ASSUME NEW i \in 0..(n - 1)
       PROVE  next[q[i]] = After(n, q, i) \/ (writer = "link" /\ i = w - 1 + 1)
  <2>1. CASE i = n - 1
    <3>1. next[r[0]] = After(n, r, 0)
      BY <1>3, <1>5
    <3> QED  BY <2>1, <3>1, <1>5, <1>9
  <2>2. CASE i \in 0..(n - 2)
    <3>1. next[r[i + 1]] = After(n, r, i + 1) \/ (writer = "link" /\ i + 1 = w + 1)
      BY <2>2, <1>3, <1>5
    <3> QED  BY <2>2, <3>1, <1>3, <1>5, <1>8
  <2> QED  BY <2>1, <2>2, <1>5
<1>11. writer = "link" => originalNext = After(n, q, w - 1 + 1)
  <2> SUFFICES ASSUME writer = "link" PROVE originalNext = After(n, q, w)
    BY <1>3
  <2>1. w \in 0..(n - 2)
    BY <1>3 DEF HasRoom
  <2> QED  BY <2>1, <1>3, <1>8
<1>12. IsRing(n, q, w - 1)'
  <2>1. w - 1 \in 0..(n - 1) /\ (HasRoom => (w - 1) + 1 <= n - 1) /\ (w - 1) + 1 = w /\ w - 1 + 1 = w
    BY <1>3
  <2>2. \A i : After(n, q, i)' = After(n, q, i)
    BY DEF After
  <2>3. HasRoom' = HasRoom
    BY <1>1 DEF HasRoom
  <2> QED  BY <2>1, <2>2, <2>3, <1>1, <1>3, <1>6, <1>7, <1>10, <1>11 DEF IsRing
<1>13. ReadsAt(q, w - 1)'
  <2>1. 0 \in 0..(n - 2) /\ q[0] = r[1]
    BY <1>3, <1>5
  <2>2. next[r[0]] = r[1]
    BY <1>3, <1>5 DEF After
  <2> QED  BY <2>1, <2>2, <1>1, <1>3 DEF ReadsAt, IsAhead
<1>14. WritesAt(q, w - 1)'
  <2>1. w - 1 \in 0..(n - 2) /\ q[w - 1] = r[w]
    BY <1>3, <1>5
  <2>2. IsClaimed => w \in 0..(n - 2) /\ q[w] = r[w + 1]
    BY <1>3, <1>5 DEF HasRoom, IsClaimed
  <2>3. w - 1 + 1 = w
    BY <1>3
  <2> QED  BY <2>1, <2>2, <2>3, <1>1 DEF Layout, WritesAt, IsClaimed
<1>15. Holds(q, w - 1)'
  <2>1. w - 1 \in 0..(n - 2) /\ q[w - 1] = r[w]
    BY <1>3, <1>5
  <2>2. \A i \in 0..((w - 1) - 1) : i \in 0..(n - 2) /\ q[i] = r[i + 1] /\ i + 1 \in 0..(w - 1)
    BY <1>3, <1>5
  <2> QED  BY <2>1, <2>2, <1>1 DEF Layout, Holds
<1>16. Content(q, w - 1)' = Content(r, w)
  <2>1. Content(q, w - 1)' = [i \in 1..((w - 1) - 0) |-> object[q[0 + i - 1]]]
    BY <1>1, <1>2 DEF Content
  <2>2. Content(r, w) = [i \in 1..(w - 1) |-> object[r[1 + i - 1]]]
    BY <1>2 DEF Content
  <2>3. (w - 1) - 0 = w - 1
        /\ \A i \in 1..(w - 1) : 0 + i - 1 = i - 1 /\ 1 + i - 1 = i /\ i - 1 \in 0..(n - 2) /\ i - 1 + 1 = i
    BY <1>3
  <2>4. \A i \in 1..(w - 1) : q[0 + i - 1] = r[1 + i - 1]
    BY <2>3, <1>5
  <2> QED  BY <2>1, <2>2, <2>3, <2>4
<1> QED  BY <1>12, <1>13, <1>14, <1>15, <1>16 DEF Layout

\* Shutdown empties the ring and leaves MinSize nodes of it.
LEMMA ShutdownStep ==
  ASSUME RingAssumption, Types, NEW n, NEW r, NEW w, Layout(n, r, w), Shutdown
  PROVE  \E p : Layout(MinSize, p, 0)' /\ Content(p, 0)' = <<>>
<1> DEFINE ring == Hops(writePointer)
           marks == {k \in 1..MaxNodes : ring[k] = writePointer}
           size == Min(marks)
           freed == {ring[i] : i \in 1..(size - MinSize)}
<1>1. /\ writer = "idle" /\ reader = "lock"
      /\ next' = [x \in {Unlinked} \cup Nodes |->
                   IF x \in freed THEN Unlinked
                   ELSE IF x = writePointer THEN ring[size - MinSize + 1] ELSE next[x]]
      /\ readPointer' = writePointer /\ readAheadPointer' = writePointer
      /\ writeAheadPointer' = writePointer
      /\ UNCHANGED <<object, writePointer, writer, originalNext, slot, sent, reader, threadPacket>>
  BY DEF Shutdown, writerVars
<1> HIDE DEF ring
<1>2. /\ n \in Nat /\ n >= 3 /\ n <= MaxNodes /\ MinSize \in Nat /\ MinSize >= 3 /\ MinSize <= n
      /\ MaxNodes \in Nat /\ w \in 0..(n - 1) /\ writePointer = r[w]
  <2>1. IsRing(n, r, w) /\ writePointer = r[w]
    BY DEF Layout, WritesAt
  <2>2. n \in Nat /\ n >= 3 /\ n <= MaxNodes
    BY <2>1, RingFits
  <2> QED  BY <2>1, <2>2 DEF IsRing, RingAssumption
<1>3. /\ \A i \in 0..(n - 1) : r[i] \in Nodes /\ next[r[i]] = After(n, r, i)
      /\ \A i, j \in 0..(n - 1) : r[i] = r[j] => i = j
  BY <1>1 DEF Layout, IsRing
<1> DEFINE Place(k) == IF w + k < n THEN w + k ELSE w + k - n
<1>4. PICK q : q = [k \in 0..n |-> r[Place(k)]]
  OBVIOUS
<1>5. /\ \A k \in 0..n : Place(k) \in 0..(n - 1) /\ q[k] = r[Place(k)]
      /\ Place(0) = w /\ Place(n) = w
      /\ \A j, k \in 0..(n - 1) : Place(j) = Place(k) => j = k
      /\ \A k \in 1..n : Place(k) = IF Place(k - 1) = n - 1 THEN 0 ELSE Place(k - 1) + 1
  BY <1>2, <1>4
<1> HIDE DEF Place
<1>6. /\ q[0] = writePointer /\ q[n] = writePointer
      /\ \A k \in 0..n : q[k] \in Nodes
      /\ \A j, k \in 0..(n - 1) : q[j] = q[k] => j = k
  <2>1. 0 \in 0..n /\ n \in 0..n /\ \A k \in 0..(n - 1) : k \in 0..n
    BY <1>2
  <2>2. \A k \in 0..(n - 1) : Place(k) \in 0..(n - 1) /\ q[k] = r[Place(k)]
    BY <2>1, <1>5
  <2>3. \A k \in 0..n : q[k] \in Nodes
    BY <1>3, <1>5
  <2>4. ASSUME NEW j \in 0..(n - 1), NEW k \in 0..(n - 1), q[j] = q[k] PROVE j = k
    <3>1. Place(j) = Place(k)
      BY <2>2, <2>4, <1>3
    <3> QED  BY <3>1, <1>5
  <2> QED  BY <2>1, <2>3, <2>4, <1>2, <1>5
<1>7. ASSUME NEW k \in 1..n PROVE q[k] = next[q[k - 1]]
  <2>1. k - 1 \in 0..n /\ k \in 0..n
    BY <1>2
  <2>2. next[q[k - 1]] = After(n, r, Place(k - 1))
    BY <2>1, <1>3, <1>5
  <2>3. After(n, r, Place(k - 1)) = r[Place(k)]
    BY <1>5 DEF After
  <2> QED  BY <2>1, <2>2, <2>3, <1>5
<1>8. \A k \in 0..n : ring[k] = q[k]
  <2>1. n \in 0..MaxNodes /\ q[0] \in Places
    BY <1>2, <1>6 DEF Places
  <2>2. \A k \in 0..n : Hops(q[0])[k] = q[k]
    BY <2>1, <1>7, HopsAlong DEF Types
  <2> QED  BY <2>2, <1>6 DEF ring
<1>9. size = n
  <2>1. n \in marks
    BY <1>2, <1>6, <1>8
  <2>2. ASSUME NEW k \in marks PROVE n <= k
    <3> SUFFICES ASSUME k < n PROVE FALSE
      BY <1>2
    <3>1. k \in 1..MaxNodes /\ ring[k] = writePointer
      OBVIOUS
    <3>2. k \in 0..(n - 1) /\ k \in 0..n /\ k # 0 /\ 0 \in 0..(n - 1)
      BY <3>1, <1>2
    <3> QED  BY <3>1, <3>2, <1>6, <1>8
  <2>3. \A x \in marks : (\A y \in marks : x <= y) => x = n
    BY <2>1, <2>2, <1>2
  <2> HIDE DEF marks
  <2>4. n = CHOOSE x \in marks : \A y \in marks : x <= y
    BY <2>1, <2>2, <2>3
  <2> QED  BY <2>4 DEF Min
<1> HIDE DEF size, marks
<1> DEFINE gone == n - MinSize
<1>10. gone \in Nat /\ \A i \in 1..(MinSize - 1) : /\ gone + i \in 0..(n - 1) /\ gone + i # 0
                                                   /\ gone + i + 1 \in 1..n /\ gone + i > gone
  BY <1>2
<1>11. freed = {q[i] : i \in 1..gone} /\ \A i \in 1..gone : i \in 0..(n - 1) /\ i # 0
  <2>1. \A i \in 1..gone : i \in 0..n /\ ring[i] = q[i] /\ i \in 0..(n - 1) /\ i # 0
    BY <1>2, <1>8, <1>10
  <2> QED  BY <2>1, <1>9
<1> HIDE DEF freed
<1>12. PICK p : p = [i \in 0..(MinSize - 1) |-> IF i = 0 THEN q[0] ELSE q[gone + i]]
  OBVIOUS
<1>13. /\ 0 \in 0..(MinSize - 1) /\ p[0] = q[0]
       /\ \A i \in 1..(MinSize - 1) : i \in 0..(MinSize - 1) /\ p[i] = q[gone + i]
       /\ \A i \in 0..(MinSize - 1) : i = 0 \/ i \in 1..(MinSize - 1)
  BY <1>2, <1>12
<1>14. 0 \in 0..(n - 1) /\ \A i \in 1..(MinSize - 1) : q[gone + i] # q[0]
  BY <1>2, <1>6, <1>10
<1>15. p \in [0..(MinSize - 1) -> Nodes]
  <2>1. \A i \in 0..(n - 1) : q[i] \in Nodes
    BY <1>2, <1>6
  <2> QED  BY <2>1, <1>10, <1>12, <1>13, <1>14
<1>16. ASSUME NEW i \in 0..(MinSize - 1), NEW j \in 0..(MinSize - 1), p[i] = p[j] PROVE i = j
  <2>1. CASE i = 0 \/ j = 0
    BY <2>1, <1>13, <1>14, <1>16
  <2>2. CASE i # 0 /\ j # 0
    <3>1. gone + i = gone + j
      BY <2>2, <1>6, <1>10, <1>13, <1>16
    <3> QED  BY <3>1, <1>10
  <2> QED  BY <2>1, <2>2
<1>17. next'[p[0]] = p[1]
  <2>1. p[0] \in {Unlinked} \cup Nodes /\ p[0] = writePointer
    BY <1>6, <1>13, <1>15
  <2>2. p[0] \notin freed
    BY <1>6, <1>11, <1>13, <1>14
  <2>3. gone + 1 \in 0..n /\ 1 \in 1..(MinSize - 1) /\ size - MinSize + 1 = gone + 1
    BY <1>2, <1>9, <1>10
  <2> QED  BY <2>1, <2>2, <2>3, <1>1, <1>8, <1>13
<1>18. ASSUME NEW i \in 1..(MinSize - 1) PROVE next'[p[i]] = After(MinSize, p, i)
  <2>1. p[i] = q[gone + i] /\ p[i] \in {Unlinked} \cup Nodes /\ p[i] # writePointer
    BY <1>6, <1>13, <1>14, <1>15
  <2>2. p[i] \notin freed
    BY <2>1, <1>6, <1>10, <1>11
  <2>3. next'[p[i]] = next[q[gone + i]]
    BY <2>1, <2>2, <1>1
  <2>4. next[q[gone + i]] = q[gone + i + 1]
    <3>1. gone + i + 1 \in 1..n /\ (gone + i + 1) - 1 = gone + i
      BY <1>10
    <3> QED  BY <3>1, <1>7
  <2>5. CASE i = MinSize - 1
    <3>1. gone + i + 1 = n
      BY <2>5, <1>2
    <3> QED  BY <2>3, <2>4, <2>5, <3>1, <1>6, <1>13 DEF After
  <2>6. CASE i # MinSize - 1
    <3>1. i + 1 \in 1..(MinSize - 1) /\ gone + (i + 1) = gone + i + 1
      BY <2>6, <1>2, <1>10
    <3> QED  BY <2>3, <2>4, <2>6, <3>1, <1>13 DEF After
  <2> QED  BY <2>5, <2>6
<1> HIDE DEF gone
<1>19. IsRing(MinSize, p, 0)'
  <2>1. \A i \in 0..(MinSize - 1) : next'[p[i]] = After(MinSize, p, i)
    <3>1. p[1] = After(MinSize, p, 0)
      BY <1>2 DEF After
    <3> QED  BY <3>1, <1>13, <1>17, <1>18
  <2>2. \A i : After(MinSize, p, i)' = After(MinSize, p, i)
    BY DEF After
  <2>3. ~HasRoom'
    BY <1>1 DEF HasRoom
  <2>4. writer' # "link" /\ 0 \in 0..(MinSize - 1) /\ MinSize <= MinSize
    BY <1>1, <1>2
  <2>5. \A i, j \in 0..(MinSize - 1) : p[i] = p[j] => i = j
    BY <1>16
  <2>6. \A i \in 0..(MinSize - 1) : next'[p[i]] = After(MinSize, p, i)'
    BY <2>1, <2>2
  <2> QED  BY <2>3, <2>4, <2>5, <2>6, <1>2, <1>15 DEF IsRing
<1>20. ReadsAt(p, 0)' /\ WritesAt(p, 0)' /\ Oldest' = 0
  BY <1>1, <1>6, <1>13 DEF ReadsAt, WritesAt, IsAhead, IsClaimed, Oldest
<1>21. Holds(p, 0)'
  BY <1>1 DEF Holds
<1>22. Content(p, 0)' = <<>>
  <2>1. Content(p, 0)' = [i \in 1..(0 - 0) |-> object[p[0 + i - 1]]]
    BY <1>1, <1>20 DEF Content
  <2> QED  BY <2>1
<1> QED  BY <1>19, <1>20, <1>21, <1>22 DEF Layout

-----------------------------------------------------------------------------
(* The invariant *)

LEMMA RingAtStart ==
  ASSUME RingAssumption, RingInit
  PROVE  RingInv
<1>1. MinSize \in Nat /\ MinSize >= 3 /\ MaxNodes \in Nat /\ MinSize <= MaxNodes
  BY DEF RingAssumption
<1>2. Types
  <2>1. next \in [Places -> Places]
    BY <1>1 DEF RingInit, Places, Nodes, Unlinked
  <2>2. object \in [Places -> Nat]
    BY DEF RingInit, Places
  <2> QED  BY <2>1, <2>2 DEF RingInit, Types
<1>3. PICK r : r = [i \in 0..(MinSize - 1) |-> i + 1]
  OBVIOUS
<1>4. /\ r \in [0..(MinSize - 1) -> Nodes]
      /\ \A i, j \in 0..(MinSize - 1) : r[i] = r[j] => i = j
  BY <1>1, <1>3 DEF Nodes
<1>5. ASSUME NEW i \in 0..(MinSize - 1) PROVE next[r[i]] = After(MinSize, r, i)
  <2>1. r[i] = i + 1 /\ r[i] \in {Unlinked} \cup Nodes /\ r[0] = 1
    BY <1>1, <1>3, <1>4
  <2>2. CASE i = MinSize - 1
    BY <2>1, <2>2, <1>1 DEF RingInit, After
  <2>3. CASE i # MinSize - 1
    <3>1. i + 1 \in 1..(MinSize - 1) /\ i + 1 \in 0..(MinSize - 1)
      BY <2>3, <1>1
    <3>2. r[i + 1] = (i + 1) + 1 /\ next[i + 1] = (i + 1) + 1
      BY <3>1, <2>1, <1>3 DEF RingInit
    <3> QED  BY <3>2, <2>1, <2>3 DEF After
  <2> QED  BY <2>2, <2>3
<1>6. r[0] = 1 /\ 0 \in 0..(MinSize - 1)
  BY <1>1, <1>3
<1>7. writer = "idle" /\ reader = "lock"
  BY DEF RingInit
<1>8. IsRing(MinSize, r, 0)
  BY <1>1, <1>4, <1>5, <1>6, <1>7 DEF IsRing, HasRoom
<1>9. ReadsAt(r, 0) /\ WritesAt(r, 0) /\ Holds(r, 0)
  BY <1>6, <1>7 DEF RingInit, ReadsAt, WritesAt, Holds, IsAhead, IsClaimed
<1> QED  BY <1>2, <1>8, <1>9 DEF RingInv, Layout

\* A step leads from layout to layout, and what it does to the content is one of
\* four things.
Leads(n, r, w, m, q, v) ==
  /\ Layout(m, q, v)'
  /\ \/ ~(Publish \/ Copy \/ Shutdown) /\ Content(q, v)' = Content(r, w)
     \/ Publish /\ sent + 1 \in Packets /\ Content(q, v)' = Append(Content(r, w), sent + 1)
     \/ Copy /\ Content(r, w) # <<>> /\ object[threadPacket] \in Packets
             /\ taken' = <<Head(Content(r, w))>> /\ Content(q, v)' = Tail(Content(r, w))
     \/ Shutdown /\ Content(q, v)' = <<>>

LEMMA RingStep ==
  ASSUME RingAssumption, Types, [RingNext]_ringVars, NEW n, NEW r, NEW w, Layout(n, r, w)
  PROVE  \E m, q, v : Leads(n, r, w, m, q, v)
<1>1. CASE Publish
  <2>1. Leads(n, r, w, n, r, w + 1)
    BY <1>1, PublishStep DEF Leads
  <2> QED  BY <2>1
<1>2. CASE Copy
  <2>1. Leads(n, r, w, n, r, w)
    BY <1>2, CopyStep DEF Leads
  <2> QED  BY <2>1
<1>3. CASE Shutdown
  <2>1. PICK p : Layout(MinSize, p, 0)' /\ Content(p, 0)' = <<>>
    BY <1>3, ShutdownStep
  <2>2. Leads(n, r, w, MinSize, p, 0)
    BY <1>3, <2>1 DEF Leads
  <2> QED  BY <2>2
<1>4. CASE ~(Publish \/ Copy \/ Shutdown)
  <2>1. CASE WriteLock \/ CheckReady \/ Advance \/ Store \/ Flag \/ Link
    <3>1. Leads(n, r, w, n, r, w)
      BY <1>4, <2>1, WriterQuiet DEF Leads
    <3> QED  BY <3>1
  <2>2. CASE ReadLock \/ ReadReady \/ ReadAhead \/ Unflag \/ Pop
    <3>1. Leads(n, r, w, n, r, w)
      BY <1>4, <2>2, ReaderQuiet DEF Leads
    <3> QED  BY <3>1
  <2>3. CASE Grow
    <3>1. PICK q : Layout(n + 1, q, w)' /\ Content(q, w)' = Content(r, w)
      BY <2>3, GrowStep
    <3>2. Leads(n, r, w, n + 1, q, w)
      BY <1>4, <3>1 DEF Leads
    <3> QED  BY <3>2
  <2>4. CASE Unlock
    <3>1. PICK q : Layout(n, q, w - 1)' /\ Content(q, w - 1)' = Content(r, w)
      BY <2>4, UnlockStep
    <3>2. Leads(n, r, w, n, q, w - 1)
      BY <1>4, <3>1 DEF Leads
    <3> QED  BY <3>2
  <2>5. CASE UNCHANGED ringVars
    <3>1. UNCHANGED <<next, object, writePointer, writeAheadPointer, writer, originalNext, slot, sent,
                      readPointer, readAheadPointer, reader, threadPacket>>
      BY <2>5 DEF ringVars, nodeVars, readVars, writeVars, writerVars, readerVars
    <3>2. Layout(n, r, w)' /\ Oldest' = Oldest
      BY <3>1, ReaderSide, WriterSide DEF Layout
    <3>3. Content(r, w)' = Content(r, w)
      BY <3>1, <3>2 DEF Content
    <3>4. Leads(n, r, w, n, r, w)
      BY <1>4, <3>2, <3>3 DEF Leads
    <3> QED  BY <3>4
  <2> QED  BY <1>4, <2>1, <2>2, <2>3, <2>4, <2>5 DEF RingNext
<1> QED  BY <1>1, <1>2, <1>3, <1>4

LEMMA TypesStep ==
  ASSUME RingAssumption, RingInv, [RingNext]_ringVars
  PROVE  Types'
<1>1. PICK n, r, w : Layout(n, r, w)
  BY DEF RingInv
<1>2. Types /\ MaxPackets \in Nat
  BY DEF RingInv, RingAssumption
<1>3. PICK m, q, v : Leads(n, r, w, m, q, v)
  BY <1>1, <1>2, RingStep
<1>4. /\ next \in [Places -> Places] /\ object \in [Places -> Nat] /\ sent \in Nat
      /\ taken \in Seq(Packets) /\ packetPool \in Seq(Packets)
      /\ writer \in {"idle", "check", "grow", "link", "advance", "store", "flag", "publish"}
      /\ reader \in {"lock", "ready", "ahead", "copy", "unflag", "unlock", "pop"}
      /\ writer # "idle" => sent < MaxPackets
      /\ reader = "copy" => taken = <<>>
  BY <1>2 DEF Types
<1>5. /\ sent' \in Nat /\ (writer' # "idle" => sent' < MaxPackets)
      /\ writer' \in {"idle", "check", "grow", "link", "advance", "store", "flag", "publish"}
  <2>1. CASE WriteLock \/ CheckReady \/ Advance \/ Store \/ Flag \/ Link \/ Grow \/ Publish
    BY <2>1, <1>4 DEF WriteLock, CheckReady, Advance, Store, Flag, Link, Grow, Publish, Writer
  <2>2. CASE UNCHANGED writerVars
    BY <2>2, <1>4 DEF writerVars
  <2>3. ReadLock \/ ReadReady \/ ReadAhead \/ Copy \/ Unflag \/ Unlock \/ Pop \/ Shutdown \/ UNCHANGED ringVars
          => UNCHANGED writerVars
    BY DEF ReadLock, ReadReady, ReadAhead, Copy, Unflag, Unlock, Pop, Shutdown, ringVars
  <2> QED  BY <2>1, <2>2, <2>3 DEF RingNext
<1>6. next' \in [Places -> Places] /\ object' \in [Places -> Nat]
  <2>1. CASE Store
    <3>1. next' = next /\ object' = [object EXCEPT ![slot] = sent + 1] /\ sent + 1 \in Nat
      BY <2>1, <1>4 DEF Store
    <3> QED  BY <3>1, <1>4
  <2>2. CASE Grow
    <3> DEFINE new == Min(Nodes \ Linked)
    <3>1. new \in Nodes
      <4>1. Nodes \ Linked \subseteq Nat /\ Nodes \ Linked # {}
        BY <2>2 DEF Nodes, Grow
      <4>2. \E x \in Nodes \ Linked : \A y \in Nodes \ Linked : x <= y
        BY <4>1, Least
      <4> QED  BY <4>2 DEF Min
    <3>2. next' = [next EXCEPT ![writeAheadPointer] = new, ![new] = Unlinked] /\ object' = object
      BY <2>2 DEF Grow
    <3> HIDE DEF new
    <3>3. new \in Places /\ Unlinked \in Places
      BY <3>1 DEF Places
    <3> QED  BY <3>2, <3>3, <1>4
  <2>3. CASE Link
    <3>1. next' = [next EXCEPT ![next[writeAheadPointer]] = originalNext] /\ object' = object
          /\ writer = "link"
      BY <2>3 DEF Link, Writer
    <3>2. originalNext \in Places
      <4>1. originalNext = After(n, r, w + 1) /\ n \in Nat /\ n >= 3 /\ w + 1 \in 0..(n - 1)
            /\ r \in [0..(n - 1) -> Nodes]
        BY <3>1, <1>1 DEF Layout, IsRing, HasRoom, RingAssumption
      <4> QED  BY <4>1 DEF After, Places
    <3> QED  BY <3>1, <3>2, <1>4
  <2>4. CASE Shutdown
    <3>1. Layout(m, q, v)' /\ object' = object
      BY <2>4, <1>3 DEF Leads, Shutdown
    <3> DEFINE h == Hops(writePointer)
               size == Min({k \in 1..MaxNodes : h[k] = writePointer})
    <3>2. next' = [x \in {Unlinked} \cup Nodes |->
                     IF x \in {h[i] : i \in 1..(size - MinSize)} THEN Unlinked
                     ELSE IF x = writePointer THEN h[size - MinSize + 1] ELSE next[x]]
      BY <2>4 DEF Shutdown
    <3> HIDE DEF h, size
    <3>3. PICK x : x = writePointer
      OBVIOUS
    <3>4. DOMAIN next' = Places /\ \A y \in Places : y # x => next'[y] \in Places
      BY <3>2, <3>3, <1>4 DEF Places
    <3>5. x = q[v] /\ v \in 0..(m - 1)
      <4>1. writePointer' = q[v] /\ v \in 0..(m - 1)
        BY <3>1 DEF Layout, WritesAt, IsRing
      <4> QED  BY <4>1, <3>3, <2>4 DEF Shutdown
    <3>6. next'[q[v]] = After(m, q, v) /\ After(m, q, v) \in Places
      <4>1. writer' # "link"
        BY <2>4 DEF Shutdown, writerVars
      <4>2. /\ next'[q[v]] = After(m, q, v)' /\ m \in Nat /\ m >= 3 /\ q \in [0..(m - 1) -> Nodes]
        BY <3>1, <3>5, <4>1 DEF Layout, IsRing, RingAssumption
      <4> QED  BY <4>2, <3>5 DEF After, Places
    <3>7. \A y \in Places : next'[y] \in Places
      BY <3>4, <3>5, <3>6
    <3>8. next' = [y \in Places |-> next'[y]]
      BY <3>2, <3>4 DEF Places
    <3> QED  BY <3>1, <3>7, <3>8, <1>4
  <2>5. CASE UNCHANGED <<next, object>>
    BY <2>5, <1>4
  <2>6. WriteLock \/ CheckReady \/ Advance \/ Flag \/ Publish \/ ReadLock \/ ReadReady \/ ReadAhead
          \/ Copy \/ Unflag \/ Unlock \/ Pop \/ UNCHANGED ringVars => UNCHANGED <<next, object>>
    BY DEF WriteLock, CheckReady, Advance, Flag, Publish, ReadLock, ReadReady, ReadAhead,
           Copy, Unflag, Unlock, Pop, ringVars, nodeVars
  <2> QED  BY <2>1, <2>2, <2>3, <2>4, <2>5, <2>6 DEF RingNext
<1>7. /\ taken' \in Seq(Packets) /\ packetPool' \in Seq(Packets)
      /\ reader' \in {"lock", "ready", "ahead", "copy", "unflag", "unlock", "pop"}
      /\ reader' = "copy" => taken' = <<>>
  <2>0. Push => taken' \in Seq(Packets) /\ packetPool' \in Seq(Packets) /\ taken' = <<>>
    BY <1>4 DEF Push
  <2>1. CASE ReadLock
    BY <2>0, <2>1, <1>4 DEF ReadLock, Reader
  <2>2. CASE ReadReady
    BY <2>0, <2>2, <1>4 DEF ReadReady, Reader
  <2>3. CASE ReadAhead
    BY <2>0, <2>3, <1>4 DEF ReadAhead, Reader
  <2>4. CASE Copy
    <3>1. object[threadPacket] \in Packets
      BY <2>4, <1>1, <1>2, CopyStep
    <3> QED  BY <2>4, <3>1, <1>4 DEF Copy, Reader
  <2>5. CASE Unflag \/ Unlock
    BY <2>5, <1>4 DEF Unflag, Unlock, Reader
  <2>6. CASE Pop
    <3>1. taken' = taken /\ reader' = "lock"
      BY <2>6 DEF Pop, Reader
    <3>2. CASE packetPool' = packetPool
      BY <3>1, <3>2, <1>4
    <3>3. CASE packetPool # <<>> /\ packetPool' = Tail(packetPool)
      <4>1. Tail(packetPool) \in Seq(Packets)
        BY <3>3, <1>4, HeadTailProperties
      <4> QED  BY <3>1, <3>3, <4>1, <1>4
    <3> QED  BY <3>2, <3>3, <2>6 DEF Pop
  <2>7. CASE Shutdown
    BY <2>7, <1>4 DEF Shutdown
  <2>8. CASE UNCHANGED readerVars
    BY <2>8, <1>4 DEF readerVars
  <2>9. WriteLock \/ CheckReady \/ Advance \/ Flag \/ Publish \/ Store \/ Grow \/ Link \/ UNCHANGED ringVars
          => UNCHANGED readerVars
    BY DEF WriteLock, CheckReady, Advance, Flag, Publish, Store, Grow, Link, ringVars
  <2> QED  BY <2>1, <2>2, <2>3, <2>4, <2>5, <2>6, <2>7, <2>8, <2>9 DEF RingNext
<1> QED  BY <1>5, <1>6, <1>7 DEF Types

LEMMA InvStep ==
  ASSUME RingAssumption, RingInv, [RingNext]_ringVars
  PROVE  RingInv'
<1>1. PICK n, r, w : Layout(n, r, w)
  BY DEF RingInv
<1>2. PICK m, q, v : Leads(n, r, w, m, q, v)
  BY <1>1, RingStep DEF RingInv
<1> QED  BY <1>2, TypesStep DEF Leads, RingInv

\* The nodes make a ring at every moment, and the pointers of the two threads
\* are where their next steps expect them.
THEOREM RingInvariant ==
  ASSUME RingAssumption
  PROVE  RingSpec => []RingInv
<1>1. RingInit => RingInv
  BY RingAtStart
<1>2. RingInv /\ [RingNext]_ringVars => RingInv'
  BY InvStep
<1> QED  BY <1>1, <1>2, PTL DEF RingSpec

-----------------------------------------------------------------------------
(* The queue *)

Inside == packetPool \o taken \o Waiting

\* What is appended can be taken off again.
LEMMA AppendIsPut ==
  ASSUME NEW s \in Seq(Packets), NEW e \in Packets
  PROVE  /\ Append(s, e) # <<>>
         /\ Channel!Front(Append(s, e)) = s /\ Channel!Last(Append(s, e)) = e
<1>1. Append(s, e) \in Seq(Packets) /\ Len(Append(s, e)) = Len(s) + 1
  OBVIOUS
<1>2. Channel!Last(Append(s, e)) = e
  BY <1>1 DEF Channel!Last
<1>3. Channel!Front(Append(s, e)) = s
  BY <1>1 DEF Channel!Front
<1>4. Append(s, e) # <<>>
  BY <1>1, Len(<<>>) = 0, Len(s) \in Nat
<1> QED  BY <1>2, <1>3, <1>4

\* The first of what is ready comes out first.
LEMMA HeadOfJoined ==
  ASSUME NEW p \in Seq(Packets), NEW s \in Seq(Packets), p # <<>>
  PROVE  /\ p \o s # <<>> /\ Head(p \o s) = Head(p) /\ Tail(p \o s) = Tail(p) \o s
         /\ Tail(p) \in Seq(Packets)
<1>1. p \o s \in Seq(Packets) /\ Len(p \o s) = Len(p) + Len(s) /\ Len(p) >= 1
  BY EmptySeq, LenProperties
<1>2. p \o s # <<>> /\ Head(p \o s) = Head(p)
  BY <1>1
<1>3. /\ Tail(p) \in Seq(Packets) /\ Len(Tail(p)) = Len(p) - 1
      /\ \A i \in 1..Len(Tail(p)) : Tail(p)[i] = p[i + 1]
  BY HeadTailProperties
<1>4. Tail(p \o s) = Tail(p) \o s
  BY <1>1, <1>3
<1> QED  BY <1>2, <1>3, <1>4

LEMMA OneOfThree == /\ Publish => ~Copy /\ ~Shutdown
                    /\ Copy => ~Publish /\ ~Shutdown
                    /\ Shutdown => ~Copy /\ ~Publish
<1>1. Publish => writer' # writer /\ reader' = reader
  BY DEF Publish, Writer, readerVars
<1>2. Copy => writer' = writer /\ reader' # reader
  BY DEF Copy, Reader, writerVars
<1>3. Shutdown => writer' = writer /\ reader' = reader
  BY DEF Shutdown, writerVars
<1> QED  BY <1>1, <1>2, <1>3

LEMMA FifoStep ==
  ASSUME RingAssumption, RingInv, WaitingShown, WaitingShown', [RingNext]_ringVars
  PROVE  [Channel!Next]_<<Inside, received, shutdowns>>
<1>1. PICK n, r, w : Layout(n, r, w)
  BY DEF RingInv
<1>2. PICK m, q, v : Leads(n, r, w, m, q, v)
  BY <1>1, RingStep DEF RingInv
<1>3. PICK c, d : c = Content(r, w) /\ d = Content(q, v)'
  OBVIOUS
<1>4. Waiting = c /\ Waiting' = d
  BY <1>1, <1>2, <1>3 DEF WaitingShown, Leads
<1>5. c \in Seq(Packets) /\ taken \in Seq(Packets) /\ packetPool \in Seq(Packets)
  BY <1>1, <1>3, ContentIs DEF RingInv, Types
<1>6. CASE ~(Publish \/ Copy \/ Shutdown)
  <2>1. d = c
    BY <1>2, <1>3, <1>6 DEF Leads
  <2>2. CASE Pop
    <3>1. taken' = taken /\ shutdowns' = shutdowns
      BY <2>2 DEF Pop
    <3>2. CASE UNCHANGED <<packetPool, received>>
      BY <1>4, <2>1, <3>1, <3>2 DEF Inside
    <3>3. CASE packetPool # <<>> /\ received' = Head(packetPool) /\ packetPool' = Tail(packetPool)
      <4>1. taken \o c \in Seq(Packets)
        BY <1>5
      <4>2. Inside = packetPool \o (taken \o c)
        BY <1>4, <1>5 DEF Inside
      <4>3. Tail(packetPool) \in Seq(Packets)
        BY <3>3, <1>5, HeadOfJoined
      <4>4. Inside' = Tail(packetPool) \o (taken \o c)
        BY <1>4, <1>5, <2>1, <3>1, <3>3, <4>3 DEF Inside
      <4>5. /\ Inside # <<>> /\ received' = Head(Inside) /\ Inside' = Tail(Inside)
        BY <1>5, <3>3, <4>1, <4>2, <4>4, HeadOfJoined
      <4>6. Channel!Take(Inside, Inside')
        BY <4>5, <3>1 DEF Channel!Take
      <4> QED  BY <4>6 DEF Channel!Next, Inside
    <3> QED  BY <2>2, <3>2, <3>3 DEF Pop
  <2>3. CASE ~Pop
    <3>1. UNCHANGED <<received, shutdowns>>
      BY <1>6, <2>3 DEF RingNext, ringVars, readerVars, WriteLock, CheckReady, Grow, Link, Advance, Store,
         Flag, ReadLock, ReadReady, ReadAhead, Unflag, Unlock
    <3>2. UNCHANGED <<packetPool, taken>> \/ Push
      BY <1>6, <2>3 DEF RingNext, ringVars, readerVars, WriteLock, CheckReady, Grow, Link, Advance, Store,
         Flag, ReadLock, ReadReady, ReadAhead, Unflag, Unlock
    <3>3. packetPool' \o taken' = packetPool \o taken
      BY <3>2, <1>5 DEF Push
    <3>4. Inside' = Inside
      BY <3>3, <1>4, <2>1 DEF Inside
    <3> QED  BY <3>1, <3>4
  <2> QED  BY <2>2, <2>3
<1>7. CASE Publish
  <2>1. sent + 1 \in Packets /\ d = Append(c, sent + 1)
    BY <1>2, <1>3, <1>7, OneOfThree DEF Leads
  <2>2. UNCHANGED <<packetPool, taken, received, shutdowns>>
    BY <1>7 DEF Publish, readerVars
  <2>3. packetPool \o taken \o c \in Seq(Packets) /\ Inside = packetPool \o taken \o c
    BY <1>4, <1>5 DEF Inside
  <2>4. Inside' = Append(Inside, sent + 1)
    BY <2>1, <2>2, <2>3, <1>4, <1>5 DEF Inside
  <2>5. Channel!Put(Inside, Inside')
    BY <2>1, <2>2, <2>3, <2>4, AppendIsPut DEF Channel!Put, Packets
  <2> QED  BY <2>5 DEF Channel!Next, Inside
<1>8. CASE Copy
  <2>1. c # <<>> /\ taken' = <<Head(c)>> /\ d = Tail(c)
    BY <1>2, <1>3, <1>8, OneOfThree DEF Leads
  <2>2. taken = <<>> /\ UNCHANGED <<packetPool, received, shutdowns>>
    BY <1>8 DEF Copy, Reader, RingInv, Types
  <2>3. Head(c) \in Packets /\ Tail(c) \in Seq(Packets) /\ c = <<Head(c)>> \o Tail(c)
    BY <2>1, <1>5, HeadTailProperties
  <2>4. Inside' = packetPool \o (<<Head(c)>> \o Tail(c))
    BY <1>4, <1>5, <2>1, <2>2, <2>3 DEF Inside
  <2>5. Inside = packetPool \o c
    BY <1>4, <1>5, <2>2 DEF Inside
  <2> QED  BY <2>2, <2>3, <2>4, <2>5
<1>9. CASE Shutdown
  <2>1. d = <<>>
    BY <1>2, <1>3, <1>9, OneOfThree DEF Leads
  <2>2. packetPool' = <<>> /\ taken' = <<>> /\ shutdowns' = shutdowns + 1 /\ received' = received
    BY <1>9 DEF Shutdown
  <2>3. Inside' = <<>>
    BY <1>4, <2>1, <2>2 DEF Inside
  <2>4. Channel!Drop(Inside')
    BY <2>2, <2>3 DEF Channel!Drop
  <2> QED  BY <2>4 DEF Channel!Next, Inside
<1> QED  BY <1>6, <1>7, <1>8, <1>9

LEMMA FifoAtStart ==
  ASSUME RingAssumption, RingInit, RingInv
  PROVE  Inside = <<>> /\ received = 0 /\ shutdowns = 0
<1>1. WaitingShown
  BY WaitingIs DEF RingInv
<1>2. PICK n, r, w : Layout(n, r, w)
  BY DEF RingInv
<1>3. n \in Nat /\ n >= 3 /\ w \in 0..(n - 1) /\ r[w] = r[0]
  BY <1>2, RingFits DEF Layout, ReadsAt, WritesAt, RingInit, IsRing
<1>4. w = 0
  BY <1>2, <1>3 DEF Layout, IsRing
<1>5. Content(r, w) = <<>>
  BY <1>4 DEF Content, Oldest, IsAhead, RingInit
<1>6. Waiting = <<>>
  BY <1>1, <1>2, <1>5 DEF WaitingShown
<1> QED  BY <1>6 DEF RingInit, Inside

\* Without a lock between the threads, and while nodes are linked into the
\* ring, the queue of SingleProducerConsumer.h is a Fifo: each packet comes out
\* once, in order and unchanged, whatever the sizes and the interleaving.
THEOREM FirstInFirstOut ==
  ASSUME RingAssumption
  PROVE  RingSpec => KeepsOrder
<1>1. RingInit => RingInv
  BY RingAtStart
<1>2. RingInv /\ [RingNext]_ringVars => RingInv'
  BY InvStep
<1>3. RingInv => WaitingShown
  BY WaitingIs DEF RingInv
<1>4. RingInit /\ RingInv => Channel!Init
  BY FifoAtStart DEF Channel!Init, Inside
<1>5. RingInv /\ WaitingShown /\ WaitingShown' /\ [RingNext]_ringVars
        => [Channel!Next]_<<packetPool \o taken \o Waiting, received, shutdowns>>
  BY FifoStep DEF Inside
<1> QED  BY <1>1, <1>2, <1>3, <1>4, <1>5, PTL DEF RingSpec, KeepsOrder, Channel!Spec

-----------------------------------------------------------------------------
(* RakNet's other ring: the queue that grows when it is full *)

CONSTANTS Values, FirstSize, KeptSize, ForcedSizes, MaxSize
VARIABLE queue

Queue == INSTANCE RingQueue

\* What a cell can hold.
Kept == Values \cup {Queue!Junk}

\* A ring as it is in memory.
Ring(q) ==
  /\ q = [array |-> q.array, head |-> q.head, tail |-> q.tail, size |-> q.size]
  /\ q.size \in Nat /\ q.array \in [Queue!Cells(q.size) -> Kept]
  /\ q.head \in Nat /\ q.tail \in Nat
  /\ IF q.size = 0 THEN q.head = 0 /\ q.tail = 0 ELSE q.head < q.size /\ q.tail < q.size

\* The ring q holds the elements of s.
Shows(q, s) ==
  /\ s \in Seq(Kept) /\ Len(s) = Queue!Size(q)
  /\ \A k \in 1..Len(s) : Queue!Element(q, k - 1) = s[k]

-----------------------------------------------------------------------------
(* Cells *)

\* The number of elements, which never fill the memory.
LEMMA SizeIs ==
  ASSUME NEW q, Ring(q)
  PROVE  /\ Queue!Size(q) \in Nat
         /\ q.size # 0 => Queue!Size(q) < q.size
         /\ Queue!Size(q) = 0 <=> q.head = q.tail
         /\ q.size = 0 => Queue!Size(q) = 0
BY DEF Ring, Queue!Size

\* An element is in a cell of its own; the one behind the last is the tail.
LEMMA CellIs ==
  ASSUME NEW q, Ring(q), q.size # 0
  PROVE  /\ \A k \in Queue!Cells(q.size) :
              /\ Queue!Cell(q, k) \in Queue!Cells(q.size)
              /\ Queue!Cell(q, k) = (q.head + k) % q.size
              /\ Queue!Element(q, k) \in Kept
              /\ \A j \in Queue!Cells(q.size) : Queue!Cell(q, j) = Queue!Cell(q, k) => j = k
         /\ Queue!Cell(q, Queue!Size(q)) = q.tail
<1>1. PICK a, h, n, t : a = q.array /\ h = q.head /\ n = q.size /\ t = q.tail
  OBVIOUS
<1>2. n \in Nat \ {0} /\ h \in 0..(n - 1) /\ t \in 0..(n - 1) /\ a \in [0..(n - 1) -> Kept]
  BY <1>1 DEF Ring, Queue!Cells
<1>3. ASSUME NEW k \in 0..(n - 1)
      PROVE  /\ Queue!Cell(q, k) \in 0..(n - 1)
             /\ Queue!Cell(q, k) = (h + k) % n
             /\ Queue!Element(q, k) \in Kept
  <2>1. Queue!Cell(q, k) = IF h + k >= n THEN h + k - n ELSE h + k
    BY <1>1 DEF Queue!Cell
  <2>2. (h + k) % n = IF h + k >= n THEN h + k - n ELSE h + k
    <3>1. PICK x : x = h + k
      OBVIOUS
    <3>2. x \in 0..(2 * n - 1) /\ x \in Nat
      BY <3>1, <1>2
    <3>3. CASE x >= n
      <4>1. x % n = x - n
        BY <3>2, <3>3, <1>2
      <4> QED  BY <4>1, <3>1, <3>2, <3>3, <1>2
    <3>4. CASE ~(x >= n)
      <4>1. x % n = x
        BY <3>2, <3>4, <1>2
      <4> QED  BY <4>1, <3>1, <3>4
    <3> QED  BY <3>3, <3>4
  <2>3. Queue!Cell(q, k) \in 0..(n - 1)
    BY <2>1, <1>2
  <2> QED  BY <2>1, <2>2, <2>3, <1>1, <1>2 DEF Queue!Element
<1>4. ASSUME NEW k \in 0..(n - 1), NEW j \in 0..(n - 1), Queue!Cell(q, j) = Queue!Cell(q, k)
      PROVE  j = k
  BY <1>1, <1>2, <1>4 DEF Queue!Cell
<1>5. Queue!Cell(q, Queue!Size(q)) = t
  BY <1>1, <1>2 DEF Queue!Cell, Queue!Size
<1> QED  BY <1>1, <1>3, <1>4, <1>5 DEF Queue!Cells

\* The elements of a ring are those that Find goes through.
LEMMA ContentsShown ==
  ASSUME NEW q, Ring(q)
  PROVE  Shows(q, Queue!Contents(q))
<1> DEFINE Ends(n) == \/ n = 0 /\ q.head = q.tail
                      \/ n # 0 /\ q.head # q.tail /\ (q.head + n) % q.size = q.tail
           length == CHOOSE n \in 0..q.size : Ends(n)
<1>1. q.size \in Nat /\ q.head \in Nat /\ q.tail \in Nat
  BY DEF Ring
<1>2. Queue!Size(q) \in 0..q.size /\ Ends(Queue!Size(q))
  <2>1. CASE q.head = q.tail
    BY <2>1, <1>1, SizeIs
  <2>2. CASE q.head # q.tail
    <3>1. q.size # 0 /\ Queue!Size(q) # 0 /\ Queue!Size(q) \in Queue!Cells(q.size)
      BY <2>2, <1>1, SizeIs DEF Ring, Queue!Cells
    <3>2. /\ Queue!Cell(q, Queue!Size(q)) = (q.head + Queue!Size(q)) % q.size
          /\ Queue!Cell(q, Queue!Size(q)) = q.tail
      BY <3>1, CellIs
    <3>3. Queue!Size(q) \in 0..q.size
      BY <3>1, <1>1 DEF Queue!Cells
    <3> QED  BY <3>1, <3>2, <3>3, <2>2
  <2> QED  BY <2>1, <2>2
<1>3. ASSUME NEW n \in 0..q.size, Ends(n) PROVE n = Queue!Size(q)
  <2>1. CASE q.head = q.tail
    BY <2>1, <1>3, SizeIs
  <2>2. CASE q.head # q.tail
    <3>1. /\ q.size # 0 /\ Queue!Size(q) \in Queue!Cells(q.size)
          /\ n # 0 /\ (q.head + n) % q.size = q.tail
      BY <2>2, <1>1, <1>3, SizeIs DEF Ring, Queue!Cells
    <3>2. n # q.size
      <4>1. PICK h, z \in Nat : h = q.head /\ z = q.size
        BY <1>1
      <4>2. h < z /\ h + z \in Nat
        BY <4>1, <3>1 DEF Ring
      <4>3. (h + z) % z = h
        BY <4>2
      <4> QED  BY <4>1, <4>3, <3>1, <2>2
    <3>3. n \in Queue!Cells(q.size)
      BY <3>2, <1>1 DEF Queue!Cells
    <3>4. Queue!Cell(q, n) = (q.head + n) % q.size
      BY <3>1, <3>3, CellIs
    <3>5. Queue!Cell(q, n) = Queue!Cell(q, Queue!Size(q))
      BY <3>1, <3>4, CellIs
    <3> QED  BY <3>1, <3>3, <3>5, CellIs
  <2> QED  BY <2>1, <2>2
<1>4. length = Queue!Size(q)
  <2>1. \E n \in 0..q.size : Ends(n)
    BY <1>2
  <2>2. length \in 0..q.size /\ Ends(length)
    BY <2>1
  <2> QED  BY <2>2, <1>3
<1>5. Queue!Contents(q) = [k \in 1..Queue!Size(q) |-> q.array[(q.head + k - 1) % q.size]]
  BY <1>4 DEF Queue!Contents
<1>6. ASSUME NEW k \in 1..Queue!Size(q)
      PROVE  /\ q.array[(q.head + k - 1) % q.size] = Queue!Element(q, k - 1)
             /\ Queue!Element(q, k - 1) \in Kept
  <2>1. q.size # 0 /\ k - 1 \in Queue!Cells(q.size)
    BY <1>1, SizeIs DEF Queue!Cells
  <2>2. Queue!Cell(q, k - 1) = (q.head + (k - 1)) % q.size /\ Queue!Element(q, k - 1) \in Kept
    BY <2>1, CellIs
  <2>3. q.head + (k - 1) = q.head + k - 1
    BY <1>1, SizeIs
  <2> QED  BY <2>2, <2>3 DEF Queue!Element
<1>7. Queue!Size(q) \in Nat
  BY SizeIs
<1> HIDE DEF Ends, length
<1>8. PICK n \in Nat : n = Queue!Size(q)
  BY <1>7
<1>9. PICK c : c = Queue!Contents(q)
  OBVIOUS
<1>10. c = [k \in 1..n |-> Queue!Element(q, k - 1)]
  BY <1>5, <1>6, <1>8, <1>9
<1>11. \A k \in 1..n : Queue!Element(q, k - 1) \in Kept
  BY <1>6, <1>8
<1>12. c \in Seq(Kept) /\ Len(c) = n
  BY <1>8, <1>10, <1>11
<1>13. \A k \in 1..Len(c) : Queue!Element(q, k - 1) = c[k]
  BY <1>8, <1>10, <1>12
<1> QED  BY <1>8, <1>9, <1>12, <1>13 DEF Shows

\* A ring shows one sequence only.
LEMMA ContentsAre ==
  ASSUME NEW q, Ring(q), NEW s, Shows(q, s)
  PROVE  Queue!Contents(q) = s
<1>1. PICK t : t = Queue!Contents(q)
  OBVIOUS
<1>2. /\ t \in Seq(Kept) /\ Len(t) = Queue!Size(q)
      /\ \A k \in 1..Len(t) : Queue!Element(q, k - 1) = t[k]
  BY <1>1, ContentsShown DEF Shows
<1>3. /\ s \in Seq(Kept) /\ Len(s) = Queue!Size(q)
      /\ \A k \in 1..Len(s) : Queue!Element(q, k - 1) = s[k]
  BY DEF Shows
<1>4. t = s
  BY <1>2, <1>3, SeqEqual
<1> QED  BY <1>1, <1>4

\* Whatever is read of a ring is read of its elements.
LEMMA ReadsAgree ==
  ASSUME NEW q, Ring(q)
  PROVE  Queue!Agrees(q)
<1>1. PICK s : s = Queue!Contents(q)
  OBVIOUS
<1>2. /\ s \in Seq(Kept) /\ Len(s) = Queue!Size(q)
      /\ \A k \in 1..Len(s) : Queue!Element(q, k - 1) = s[k]
  BY <1>1, ContentsShown DEF Shows
<1>3. ASSUME s # <<>>
      PROVE  /\ q.array[q.head] = Head(s)
             /\ q.array[IF q.tail # 0 THEN q.tail - 1 ELSE q.size - 1] = Queue!Last(s)
  <2>1. Len(s) \in Nat \ {0}
    BY <1>2, <1>3, EmptySeq
  <2>2. PICK n \in Nat \ {0} : n = Len(s) /\ n = Queue!Size(q)
    BY <2>1, <1>2
  <2>3. Queue!Element(q, 0) = s[1] /\ Queue!Element(q, n - 1) = s[n]
    BY <2>2, <1>2
  <2>4. /\ q.size \in Nat \ {0} /\ q.head \in Nat /\ q.tail \in Nat
        /\ q.head < q.size /\ q.tail < q.size
    BY <2>2, SizeIs DEF Ring
  <2>5. Queue!Cell(q, 0) = q.head
    BY <2>4 DEF Queue!Cell
  <2>6. Queue!Cell(q, n - 1) = IF q.tail # 0 THEN q.tail - 1 ELSE q.size - 1
    BY <2>2, <2>4 DEF Queue!Cell, Queue!Size
  <2>7. Head(s) = s[1] /\ Queue!Last(s) = s[n]
    BY <2>2, <1>3, <1>2 DEF Queue!Last
  <2> QED  BY <2>3, <2>5, <2>6, <2>7 DEF Queue!Element
<1>4. q.size # 0 => q.tail \in Queue!Cells(q.size)
  BY DEF Ring, Queue!Cells
<1> QED  BY <1>1, <1>2, <1>3, <1>4 DEF Queue!Agrees

-----------------------------------------------------------------------------
(* Sequences *)

\* t is a, b and c, one behind the other.
InARow(t, a, b, c) ==
  /\ Len(t) = Len(a) + Len(b) + Len(c)
  /\ \A i \in 1..Len(a) : t[i] = a[i]
  /\ \A i \in 1..Len(b) : t[Len(a) + i] = b[i]
  /\ \A i \in 1..Len(c) : t[Len(a) + Len(b) + i] = c[i]

\* Three sequences joined are in a row.
LEMMA ThreeJoined ==
  ASSUME NEW S
  PROVE  \A a, b, c \in Seq(S) : a \o b \o c \in Seq(S) /\ InARow(a \o b \o c, a, b, c)
<1> TAKE a, b, c \in Seq(S)
<1>1. PICK d : d = a \o b
  OBVIOUS
<1>2. PICK l, m, n \in Nat : l = Len(a) /\ m = Len(b) /\ n = Len(c)
  OBVIOUS
<1>3. /\ d \in Seq(S) /\ Len(d) = l + m
      /\ \A i \in 1..(l + m) : d[i] = IF i <= l THEN a[i] ELSE b[i - l]
  BY <1>1, <1>2, ConcatProperties
<1>4. /\ d \o c \in Seq(S) /\ Len(d \o c) = (l + m) + n
      /\ \A i \in 1..((l + m) + n) : (d \o c)[i] = IF i <= l + m THEN d[i] ELSE c[i - (l + m)]
  <2>1. /\ d \o c \in Seq(S) /\ Len(d \o c) = Len(d) + Len(c)
        /\ \A i \in 1..(Len(d) + Len(c)) : (d \o c)[i] = IF i <= Len(d) THEN d[i] ELSE c[i - Len(d)]
    BY <1>3, ConcatProperties
  <2> QED  BY <2>1, <1>2, <1>3
<1>5. ASSUME NEW i \in 1..l PROVE (d \o c)[i] = a[i]
  <2>1. i \in 1..((l + m) + n) /\ i <= l + m /\ i \in 1..(l + m) /\ i <= l
    OBVIOUS
  <2> QED  BY <2>1, <1>3, <1>4
<1>6. ASSUME NEW i \in 1..m PROVE (d \o c)[l + i] = b[i]
  <2>1. PICK j : j = l + i
    OBVIOUS
  <2>2. j \in 1..((l + m) + n) /\ j <= l + m /\ j \in 1..(l + m) /\ ~(j <= l) /\ j - l = i
    BY <2>1
  <2> QED  BY <2>1, <2>2, <1>3, <1>4
<1>7. ASSUME NEW i \in 1..n PROVE (d \o c)[l + m + i] = c[i]
  <2>1. PICK j : j = l + m + i
    OBVIOUS
  <2>2. j \in 1..((l + m) + n) /\ ~(j <= l + m) /\ j - (l + m) = i
    BY <2>1
  <2> QED  BY <2>1, <2>2, <1>4
<1> QED  BY <1>1, <1>2, <1>4, <1>5, <1>6, <1>7 DEF InARow

\* A part of a sequence, from one place to another.
LEMMA PartOf ==
  ASSUME NEW S, NEW s \in Seq(S), NEW i \in Nat \ {0}, NEW j \in Nat, i <= j + 1, j <= Len(s)
  PROVE  /\ SubSeq(s, i, j) \in Seq(S) /\ Len(SubSeq(s, i, j)) = j - i + 1
         /\ \A k \in 1..(j - i + 1) : SubSeq(s, i, j)[k] = s[i + k - 1]
<1>1. \A k \in i..j : s[k] \in S
  <2>1. \A k \in i..j : k \in 1..Len(s)
    OBVIOUS
  <2> QED  BY <2>1
<1> QED  BY <1>1, SubSeqProperties

\* What is before the place stays, what is behind it moves up by one.
LEMMA InsertAtIs ==
  ASSUME NEW s \in Seq(Kept), NEW x \in 0..Len(s), NEW v \in Kept
  PROVE  /\ Queue!InsertAt(s, x + 1, v) \in Seq(Kept) /\ Len(Queue!InsertAt(s, x + 1, v)) = Len(s) + 1
         /\ \A i \in 1..x : Queue!InsertAt(s, x + 1, v)[i] = s[i]
         /\ Queue!InsertAt(s, x + 1, v)[x + 1] = v
         /\ \A i \in x + 2..Len(s) + 1 : Queue!InsertAt(s, x + 1, v)[i] = s[i - 1]
<1>1. PICK n \in Nat : n = Len(s)
  OBVIOUS
<1>2. PICK a, c : a = SubSeq(s, 1, x) /\ c = SubSeq(s, x + 1, n)
  OBVIOUS
<1>3. /\ a \in Seq(Kept) /\ Len(a) = x /\ \A i \in 1..x : a[i] = s[i]
  <2>1. 1 <= x + 1 /\ x <= Len(s) /\ x \in Nat /\ x - 1 + 1 = x
    BY <1>1
  <2>2. /\ a \in Seq(Kept) /\ Len(a) = x - 1 + 1
        /\ \A k \in 1..(x - 1 + 1) : a[k] = s[1 + k - 1]
    BY <2>1, <1>2, PartOf
  <2>3. \A k \in 1..x : 1 + k - 1 = k
    OBVIOUS
  <2> QED  BY <2>1, <2>2, <2>3
<1>4. /\ c \in Seq(Kept) /\ Len(c) = n - x /\ \A k \in 1..(n - x) : c[k] = s[x + k]
  <2>1. x + 1 \in Nat \ {0} /\ x + 1 <= n + 1 /\ n <= Len(s) /\ n - (x + 1) + 1 = n - x
    BY <1>1
  <2>2. /\ c \in Seq(Kept) /\ Len(c) = n - (x + 1) + 1
        /\ \A k \in 1..(n - (x + 1) + 1) : c[k] = s[(x + 1) + k - 1]
    BY <2>1, <1>2, PartOf
  <2>3. \A k \in 1..(n - x) : (x + 1) + k - 1 = x + k
    BY <1>1
  <2> QED  BY <2>1, <2>2, <2>3
<1>5. PICK u : u = a \o <<v>> \o c
  OBVIOUS
<1>6. <<v>> \in Seq(Kept) /\ Len(<<v>>) = 1 /\ <<v>>[1] = v
  OBVIOUS
<1>7. /\ u \in Seq(Kept) /\ Len(u) = x + 1 + (n - x)
      /\ \A i \in 1..x : u[i] = a[i]
      /\ \A i \in 1..1 : u[x + i] = <<v>>[i]
      /\ \A i \in 1..(n - x) : u[x + 1 + i] = c[i]
  <2>1. PICK e : e = <<v>>
    OBVIOUS
  <2>2. a \in Seq(Kept) /\ e \in Seq(Kept) /\ c \in Seq(Kept)
    BY <2>1, <1>3, <1>4, <1>6
  <2>3. a \o e \o c \in Seq(Kept) /\ InARow(a \o e \o c, a, e, c)
    <3>1. \A x1, x2, x3 \in Seq(Kept) :
            x1 \o x2 \o x3 \in Seq(Kept) /\ InARow(x1 \o x2 \o x3, x1, x2, x3)
      BY ThreeJoined
    <3> QED  BY <2>2, <3>1, Zenon
  <2>4. u = a \o e \o c /\ Len(e) = 1
    BY <2>1, <1>5, <1>6
  <2>5. /\ u \in Seq(Kept) /\ Len(u) = Len(a) + Len(e) + Len(c)
        /\ \A i \in 1..Len(a) : u[i] = a[i]
        /\ \A i \in 1..Len(e) : u[Len(a) + i] = e[i]
        /\ \A i \in 1..Len(c) : u[Len(a) + Len(e) + i] = c[i]
    BY <2>3, <2>4 DEF InARow
  <2> QED  BY <2>1, <2>4, <2>5, <1>3, <1>4
<1>8. \A i \in x + 2..n + 1 : u[i] = s[i - 1]
  <2> TAKE i \in x + 2..n + 1
  <2>1. PICK k : k = i - x - 1
    OBVIOUS
  <2>2. k \in 1..(n - x) /\ i = x + 1 + k /\ x + k = i - 1
    BY <2>1, <1>1
  <2> QED  BY <2>2, <1>4, <1>7
<1>9. Queue!InsertAt(s, x + 1, v) = u
  <2>1. (x + 1) - 1 = x
    OBVIOUS
  <2> QED  BY <2>1, <1>1, <1>2, <1>5 DEF Queue!InsertAt
<1>10. Len(u) = n + 1
  BY <1>1, <1>7
<1>11. u[x + 1] = v
  BY <1>6, <1>7
<1> QED  BY <1>1, <1>3, <1>7, <1>8, <1>9, <1>10, <1>11

\* What is before the place stays, what is behind it moves down by one.
LEMMA RemoveAtIs ==
  ASSUME NEW s \in Seq(Kept), NEW x \in 1..Len(s)
  PROVE  /\ Queue!RemoveAt(s, x) \in Seq(Kept) /\ Len(Queue!RemoveAt(s, x)) = Len(s) - 1
         /\ \A i \in 1..x - 1 : Queue!RemoveAt(s, x)[i] = s[i]
         /\ \A i \in x..Len(s) - 1 : Queue!RemoveAt(s, x)[i] = s[i + 1]
<1>1. PICK n \in Nat : n = Len(s)
  OBVIOUS
<1>2. PICK a, c : a = SubSeq(s, 1, x - 1) /\ c = SubSeq(s, x + 1, n)
  OBVIOUS
<1>3. /\ a \in Seq(Kept) /\ Len(a) = x - 1 /\ \A i \in 1..x - 1 : a[i] = s[i]
  <2>1. 1 <= (x - 1) + 1 /\ x - 1 <= Len(s) /\ x - 1 \in Nat /\ (x - 1) - 1 + 1 = x - 1
    BY <1>1
  <2>2. /\ a \in Seq(Kept) /\ Len(a) = (x - 1) - 1 + 1
        /\ \A k \in 1..((x - 1) - 1 + 1) : a[k] = s[1 + k - 1]
    BY <2>1, <1>2, PartOf
  <2>3. \A k \in 1..x - 1 : 1 + k - 1 = k
    OBVIOUS
  <2> QED  BY <2>1, <2>2, <2>3
<1>4. /\ c \in Seq(Kept) /\ Len(c) = n - x /\ \A k \in 1..(n - x) : c[k] = s[x + k]
  <2>1. x + 1 \in Nat \ {0} /\ x + 1 <= n + 1 /\ n <= Len(s) /\ n - (x + 1) + 1 = n - x
    BY <1>1
  <2>2. /\ c \in Seq(Kept) /\ Len(c) = n - (x + 1) + 1
        /\ \A k \in 1..(n - (x + 1) + 1) : c[k] = s[(x + 1) + k - 1]
    BY <2>1, <1>2, PartOf
  <2>3. \A k \in 1..(n - x) : (x + 1) + k - 1 = x + k
    BY <1>1
  <2> QED  BY <2>1, <2>2, <2>3
<1>5. PICK u : u = a \o c
  OBVIOUS
<1>6. /\ u \in Seq(Kept) /\ Len(u) = (x - 1) + (n - x)
      /\ \A i \in 1..((x - 1) + (n - x)) : u[i] = IF i <= x - 1 THEN a[i] ELSE c[i - (x - 1)]
  <2>1. /\ u \in Seq(Kept) /\ Len(u) = Len(a) + Len(c)
        /\ \A i \in 1..(Len(a) + Len(c)) : u[i] = IF i <= Len(a) THEN a[i] ELSE c[i - Len(a)]
    BY <1>3, <1>4, <1>5, ConcatProperties
  <2> QED  BY <2>1, <1>3, <1>4
<1>7. \A i \in x..n - 1 : u[i] = s[i + 1]
  <2> TAKE i \in x..n - 1
  <2>1. PICK k : k = i - (x - 1)
    OBVIOUS
  <2>2. k \in 1..(n - x) /\ i \in 1..((x - 1) + (n - x)) /\ ~(i <= x - 1) /\ x + k = i + 1
    BY <2>1, <1>1
  <2> QED  BY <2>1, <2>2, <1>4, <1>6
<1>8. \A i \in 1..x - 1 : u[i] = s[i]
  <2> TAKE i \in 1..x - 1
  <2>1. i \in 1..((x - 1) + (n - x)) /\ i <= x - 1
    BY <1>1
  <2> QED  BY <2>1, <1>3, <1>6
<1>9. Queue!RemoveAt(s, x) = u
  BY <1>1, <1>2, <1>5 DEF Queue!RemoveAt
<1>10. Len(u) = n - 1
  BY <1>1, <1>6
<1> QED  BY <1>1, <1>6, <1>7, <1>8, <1>9, <1>10

-----------------------------------------------------------------------------
(* Operations *)

\* Memory without elements.
LEMMA BlankIs ==
  ASSUME NEW n \in Nat
  PROVE  /\ Ring(Queue!Blank(n)) /\ Shows(Queue!Blank(n), <<>>) /\ Queue!Blank(n).size = n
         /\ Queue!Blank(n).head = 0 /\ Queue!Blank(n).tail = 0 /\ Queue!Size(Queue!Blank(n)) = 0
<1>1. PICK q : q = Queue!Blank(n)
  OBVIOUS
<1>2. /\ q = [array |-> q.array, head |-> q.head, tail |-> q.tail, size |-> q.size]
      /\ q.array = [i \in Queue!Cells(n) |-> Queue!Junk] /\ q.head = 0 /\ q.tail = 0 /\ q.size = n
  BY <1>1 DEF Queue!Blank
<1>3. q.array \in [Queue!Cells(n) -> Kept]
  BY <1>2 DEF Kept
<1>4. Ring(q)
  BY <1>2, <1>3 DEF Ring
<1>5. Queue!Size(q) = 0
  BY <1>2 DEF Queue!Size
<1>6. <<>> \in Seq(Kept) /\ Len(<<>>) = 0
  BY EmptySeq
<1>7. Shows(q, <<>>)
  BY <1>5, <1>6 DEF Shows
<1> QED  BY <1>1, <1>2, <1>4, <1>5, <1>7

\* An element is stored in the cell behind the last.
LEMMA StoredIs ==
  ASSUME NEW q, Ring(q), q.size # 0, NEW s, Shows(q, s), NEW v \in Kept
  PROVE  LET p == Queue!Stored(q, v) IN
         /\ Ring(p) /\ p.size = q.size /\ p.head = q.head
         /\ p.tail = IF q.tail + 1 = q.size THEN 0 ELSE q.tail + 1
         /\ \A k \in 0..Len(s) : Queue!Element(p, k) = Append(s, v)[k + 1]
<1>1. PICK p : p = Queue!Stored(q, v)
  OBVIOUS
<1>2. /\ q.size \in Nat \ {0} /\ q.array \in [Queue!Cells(q.size) -> Kept]
      /\ q.head \in Nat /\ q.tail \in Nat /\ q.head < q.size /\ q.tail < q.size
      /\ q = [array |-> q.array, head |-> q.head, tail |-> q.tail, size |-> q.size]
  BY DEF Ring
<1>3. p = [array |-> [q.array EXCEPT ![q.tail] = v], head |-> q.head,
           tail |-> IF q.tail + 1 = q.size THEN 0 ELSE q.tail + 1, size |-> q.size]
  BY <1>1, <1>2 DEF Queue!Stored
<1>4. /\ p.size = q.size /\ p.head = q.head
      /\ p.tail = IF q.tail + 1 = q.size THEN 0 ELSE q.tail + 1
      /\ p.array = [q.array EXCEPT ![q.tail] = v]
      /\ p = [array |-> p.array, head |-> p.head, tail |-> p.tail, size |-> p.size]
  BY <1>3
<1>5. p.array \in [Queue!Cells(q.size) -> Kept] /\ q.tail \in Queue!Cells(q.size)
  BY <1>2, <1>4 DEF Queue!Cells
<1>6. p.tail \in Nat /\ p.tail < p.size
  BY <1>2, <1>4
<1>7. Ring(p)
  BY <1>2, <1>4, <1>5, <1>6 DEF Ring
<1>8. \A k : Queue!Cell(p, k) = Queue!Cell(q, k)
  BY <1>4 DEF Queue!Cell
<1>9. /\ s \in Seq(Kept) /\ Len(s) = Queue!Size(q) /\ Len(s) < q.size /\ Len(s) \in Nat
      /\ \A k \in 1..Len(s) : Queue!Element(q, k - 1) = s[k]
  BY SizeIs DEF Shows
<1>10. ASSUME NEW k \in 0..Len(s) PROVE Queue!Element(p, k) = Append(s, v)[k + 1]
  <2>1. k \in Queue!Cells(q.size) /\ Queue!Size(q) \in Queue!Cells(q.size)
    BY <1>2, <1>9 DEF Queue!Cells
  <2>2. CASE k = Len(s)
    <3>1. Queue!Cell(q, k) = q.tail
      BY <2>2, <1>9, CellIs
    <3>2. Queue!Element(p, k) = v
      BY <3>1, <1>2, <1>4, <1>5, <1>8 DEF Queue!Element
    <3>3. Append(s, v)[k + 1] = v
      BY <2>2, <1>9
    <3> QED  BY <3>2, <3>3
  <2>3. CASE k < Len(s)
    <3>1. Queue!Cell(q, k) # q.tail
      <4>1. Queue!Cell(q, Queue!Size(q)) = q.tail /\ k # Queue!Size(q)
        BY <2>3, <1>9, CellIs
      <4> QED  BY <4>1, <2>1, CellIs
    <3>2. Queue!Cell(q, k) \in Queue!Cells(q.size)
      BY <2>1, CellIs
    <3>3. Queue!Element(p, k) = Queue!Element(q, k)
      BY <3>1, <3>2, <1>2, <1>4, <1>8 DEF Queue!Element
    <3>4. k + 1 \in 1..Len(s) /\ (k + 1) - 1 = k
      BY <2>3, <1>9
    <3>5. Queue!Element(q, k) = s[k + 1]
      BY <3>4, <1>9
    <3>6. Append(s, v)[k + 1] = s[k + 1]
      BY <3>4, <1>9
    <3> QED  BY <3>3, <3>5, <3>6
  <2> QED  BY <2>2, <2>3, <1>9
<1> QED  BY <1>1, <1>4, <1>7, <1>10

\* Push appends, and makes the ring twice as large when it is full.
LEMMA PushedIs ==
  ASSUME Queue!QueueAssumption, NEW q, Ring(q), NEW s, Shows(q, s), NEW v \in Kept
  PROVE  Ring(Queue!Pushed(q, v)) /\ Shows(Queue!Pushed(q, v), Append(s, v))
<1>0. Append(s, v) \in Seq(Kept) /\ Len(Append(s, v)) = Len(s) + 1 /\ Len(s) \in Nat
  BY DEF Shows
<1>1. CASE q.size = 0
  <2>1. PICK b, p : b = Queue!Blank(FirstSize) /\ p = Queue!Stored(b, v)
    OBVIOUS
  <2>2. /\ Ring(b) /\ Shows(b, <<>>) /\ b.size = FirstSize /\ b.head = 0 /\ b.tail = 0
        /\ FirstSize > 1 /\ FirstSize \in Nat
    BY <2>1, BlankIs DEF Queue!QueueAssumption
  <2>3. s = <<>>
    BY <1>1, SizeIs, EmptySeq DEF Shows
  <2>4. /\ Ring(p) /\ p.head = b.head
        /\ p.tail = IF b.tail + 1 = b.size THEN 0 ELSE b.tail + 1
        /\ \A k \in 0..Len(s) : Queue!Element(p, k) = Append(s, v)[k + 1]
    BY <2>1, <2>2, <2>3, StoredIs
  <2>5. Queue!Size(p) = 1
    BY <2>2, <2>4 DEF Queue!Size
  <2>6. Len(Append(s, v)) = 1 /\ Len(s) = 0
    BY <2>3, <1>0
  <2>7. \A k \in 1..1 : Queue!Element(p, k - 1) = Append(s, v)[k]
    <3>1. Queue!Element(p, 0) = Append(s, v)[0 + 1]
      BY <2>4, <2>6
    <3> QED  BY <3>1
  <2>8. Shows(p, Append(s, v))
    BY <2>5, <2>6, <2>7, <1>0 DEF Shows
  <2>9. Queue!Pushed(q, v) = p
    BY <1>1, <2>1 DEF Queue!Pushed
  <2> QED  BY <2>4, <2>8, <2>9
<1>2. CASE q.size # 0
  <2>1. PICK p : p = Queue!Stored(q, v)
    OBVIOUS
  <2>2. /\ Ring(p) /\ p.size = q.size /\ p.head = q.head
        /\ p.tail = IF q.tail + 1 = q.size THEN 0 ELSE q.tail + 1
        /\ \A k \in 0..Len(s) : Queue!Element(p, k) = Append(s, v)[k + 1]
    BY <1>2, <2>1, StoredIs
  <2>3. /\ q.size \in Nat \ {0} /\ q.head \in Nat /\ q.tail \in Nat
        /\ q.head < q.size /\ q.tail < q.size /\ Len(s) = Queue!Size(q)
    BY <1>2 DEF Ring, Shows
  <2>4. \A k \in 1..(Len(s) + 1) : Queue!Element(p, k - 1) = Append(s, v)[k]
    <3> TAKE k \in 1..(Len(s) + 1)
    <3>1. k - 1 \in 0..Len(s) /\ (k - 1) + 1 = k
      BY <1>0
    <3> QED  BY <3>1, <2>2
  <2>7. PICK h \in Nat, e \in Nat, n \in Nat \ {0}, f \in Nat, l \in Nat :
          h = q.head /\ e = q.tail /\ n = q.size /\ f = p.tail /\ l = Len(s)
    <3>1. p.tail \in Nat
      BY <2>2 DEF Ring
    <3> QED  BY <3>1, <2>3, <1>0
  <2>8. /\ h \in 0..(n - 1) /\ e \in 0..(n - 1)
        /\ f = IF e + 1 = n THEN 0 ELSE e + 1
        /\ l = IF h <= e THEN e - h ELSE n - h + e
    BY <2>2, <2>3, <2>7 DEF Queue!Size
  <2>9. Queue!Size(p) = IF h <= f THEN f - h ELSE n - h + f
    BY <2>2, <2>7 DEF Queue!Size
  <2>5. CASE p.tail # p.head
    <3>1. Queue!Size(p) = Len(s) + 1
      <4>1. f # h
        BY <2>2, <2>5, <2>7
      <4>2. (IF h <= f THEN f - h ELSE n - h + f) = l + 1
        BY <4>1, <2>8
      <4> QED  BY <4>2, <2>7, <2>9
    <3>2. Shows(p, Append(s, v))
      BY <3>1, <2>4, <1>0 DEF Shows
    <3>3. Queue!Pushed(q, v) = p
      BY <1>2, <2>1, <2>5 DEF Queue!Pushed
    <3> QED  BY <3>2, <3>3, <2>2
  <2>6. CASE p.tail = p.head
    <3>1. PICK z \in Nat \ {0} : z = p.size
      BY <2>2, <2>3
    <3>2. Len(s) + 1 = z
      <4>1. f = h
        BY <2>2, <2>6, <2>7
      <4>2. l + 1 = n
        <5>1. h <= n - 1 /\ e <= n - 1 /\ f = (IF e + 1 = n THEN 0 ELSE e + 1)
          BY <2>8
        <5>2. l = IF h <= e THEN e - h ELSE n - h + e
          BY <2>8
        <5>3. CASE e + 1 = n
          <6>1. h = 0
            BY <5>1, <5>3, <4>1
          <6>2. l = e
            BY <6>1, <5>2
          <6> QED  BY <5>3, <6>2
        <5>4. CASE e + 1 # n
          <6>1. h = e + 1
            BY <5>1, <5>4, <4>1
          <6>2. ~(h <= e)
            BY <6>1
          <6>3. l = n - h + e
            BY <6>2, <5>2
          <6> QED  BY <6>1, <6>3
        <5> QED  BY <5>3, <5>4
      <4> QED  BY <4>2, <2>2, <2>7, <3>1
    <3>3. PICK d : d = Queue!Doubled(p)
      OBVIOUS
    <3>4. /\ d = [array |-> d.array, head |-> d.head, tail |-> d.tail, size |-> d.size]
          /\ d.head = 0 /\ d.tail = z /\ d.size = 2 * z
          /\ d.array = [i \in Queue!Cells(2 * z) |->
                          IF i < z THEN p.array[(p.head + i) % z] ELSE Queue!Junk]
      BY <3>1, <3>3 DEF Queue!Doubled
    <3>5. \A i \in Queue!Cells(z) :
            p.array[(p.head + i) % z] = Queue!Element(p, i) /\ Queue!Element(p, i) \in Kept
      BY <3>1, <2>2, CellIs DEF Queue!Element
    <3>6. d.array \in [Queue!Cells(2 * z) -> Kept]
      <4>1. ASSUME NEW i \in Queue!Cells(2 * z)
            PROVE  (IF i < z THEN p.array[(p.head + i) % z] ELSE Queue!Junk) \in Kept
        <5>1. i < z => i \in Queue!Cells(z)
          BY DEF Queue!Cells
        <5> QED  BY <5>1, <3>5 DEF Kept
      <4> QED  BY <4>1, <3>4
    <3>7. Ring(d)
      BY <3>4, <3>6 DEF Ring
    <3>8. Queue!Size(d) = z
      BY <3>4 DEF Queue!Size
    <3>9. \A k \in 1..z : Queue!Element(d, k - 1) = Append(s, v)[k]
      <4> TAKE k \in 1..z
      <4>1. k - 1 \in Queue!Cells(z) /\ k - 1 \in Queue!Cells(2 * z) /\ k - 1 < z
        BY DEF Queue!Cells
      <4>2. Queue!Cell(d, k - 1) = k - 1
        BY <4>1, <3>4 DEF Queue!Cell
      <4>3. Queue!Element(d, k - 1) = Queue!Element(p, k - 1)
        BY <4>1, <4>2, <3>4, <3>5 DEF Queue!Element
      <4> QED  BY <4>3, <2>4, <3>2
    <3>10. Shows(d, Append(s, v))
      BY <3>2, <3>8, <3>9, <1>0 DEF Shows
    <3>11. Queue!Pushed(q, v) = d
      BY <1>2, <2>1, <2>6, <3>3 DEF Queue!Pushed
    <3> QED  BY <3>7, <3>10, <3>11
  <2> QED  BY <2>5, <2>6
<1> QED  BY <1>1, <1>2

\* The elements keep their cells when what holds none is not told apart.
LEMMA HeldIs ==
  ASSUME NEW q, Ring(q), NEW s, Shows(q, s)
  PROVE  Ring(Queue!Held(q)) /\ Shows(Queue!Held(q), s)
<1>1. PICK p : p = Queue!Held(q)
  OBVIOUS
<1>2. PICK held : held = {Queue!Cell(q, k) : k \in Queue!Cells(Queue!Size(q))}
  OBVIOUS
<1>3. /\ q.size \in Nat /\ q.array \in [Queue!Cells(q.size) -> Kept]
      /\ DOMAIN q.array = Queue!Cells(q.size)
      /\ q = [array |-> q.array, head |-> q.head, tail |-> q.tail, size |-> q.size]
  BY DEF Ring
<1>4. p = [q EXCEPT !.array = [i \in DOMAIN q.array |->
                                 IF i \in held THEN q.array[i] ELSE Queue!Junk]]
  BY <1>1, <1>2 DEF Queue!Held
<1>5. /\ p = [array |-> p.array, head |-> p.head, tail |-> p.tail, size |-> p.size]
      /\ p.size = q.size /\ p.head = q.head /\ p.tail = q.tail
      /\ p.array = [i \in Queue!Cells(q.size) |-> IF i \in held THEN q.array[i] ELSE Queue!Junk]
  BY <1>3, <1>4
<1>6. p.array \in [Queue!Cells(q.size) -> Kept]
  <2>1. ASSUME NEW i \in Queue!Cells(q.size)
        PROVE  (IF i \in held THEN q.array[i] ELSE Queue!Junk) \in Kept
    BY <1>3 DEF Kept
  <2> QED  BY <2>1, <1>5
<1>7. Ring(p)
  BY <1>3, <1>5, <1>6 DEF Ring
<1>8. Queue!Size(p) = Queue!Size(q)
  BY <1>5 DEF Queue!Size
<1>9. \A k : Queue!Cell(p, k) = Queue!Cell(q, k)
  BY <1>5 DEF Queue!Cell
<1>10. ASSUME NEW k \in 1..Len(s) PROVE Queue!Element(p, k - 1) = s[k]
  <2>1. Len(s) = Queue!Size(q) /\ Queue!Size(q) \in Nat /\ Queue!Element(q, k - 1) = s[k]
    BY SizeIs DEF Shows
  <2>2. k - 1 \in Queue!Cells(Queue!Size(q)) /\ k - 1 \in Queue!Cells(q.size) /\ q.size # 0
    BY <2>1, <1>3, SizeIs DEF Queue!Cells
  <2>3. Queue!Cell(q, k - 1) \in held /\ Queue!Cell(q, k - 1) \in Queue!Cells(q.size)
    BY <2>2, <1>2, CellIs
  <2>4. p.array[Queue!Cell(q, k - 1)] = q.array[Queue!Cell(q, k - 1)]
    BY <2>3, <1>5
  <2> QED  BY <2>1, <2>4, <1>9 DEF Queue!Element
<1>11. Shows(p, s)
  BY <1>8, <1>10 DEF Shows
<1> QED  BY <1>1, <1>7, <1>11

\* Whatever is done to the cells, a ring that shows other elements at the
\* places of its own shows them.
LEMMA Rearranged ==
  ASSUME NEW q, Ring(q), q.size # 0, NEW a \in [Queue!Cells(q.size) -> Kept],
         NEW u \in Seq(Kept), Len(u) = Queue!Size(q),
         \A k \in Queue!Cells(Queue!Size(q)) : a[Queue!Cell(q, k)] = u[k + 1]
  PROVE  LET p == [q EXCEPT !.array = a] IN
         Ring(p) /\ Shows(p, u) /\ p.size = q.size /\ p.head = q.head /\ p.tail = q.tail
<1>1. PICK p : p = [q EXCEPT !.array = a]
  OBVIOUS
<1>2. /\ q.size \in Nat
      /\ q = [array |-> q.array, head |-> q.head, tail |-> q.tail, size |-> q.size]
  BY DEF Ring
<1>3. /\ p = [array |-> p.array, head |-> p.head, tail |-> p.tail, size |-> p.size]
      /\ p.size = q.size /\ p.head = q.head /\ p.tail = q.tail /\ p.array = a
  BY <1>1, <1>2
<1>4. Ring(p)
  BY <1>3 DEF Ring
<1>5. Queue!Size(p) = Queue!Size(q) /\ \A k : Queue!Cell(p, k) = Queue!Cell(q, k)
  BY <1>3 DEF Queue!Size, Queue!Cell
<1>6. ASSUME NEW k \in 1..Len(u) PROVE Queue!Element(p, k - 1) = u[k]
  <2>1. k - 1 \in Queue!Cells(Queue!Size(q)) /\ (k - 1) + 1 = k
    BY SizeIs DEF Queue!Cells
  <2>2. a[Queue!Cell(q, k - 1)] = u[(k - 1) + 1]
    BY <2>1
  <2> QED  BY <2>1, <2>2, <1>3, <1>5 DEF Queue!Element
<1>7. Shows(p, u)
  BY <1>5, <1>6 DEF Shows
<1> QED  BY <1>1, <1>3, <1>4, <1>7

\* PushAtHead inserts: what is behind the place moves up by one.
LEMMA PushedAtIs ==
  ASSUME Queue!QueueAssumption, NEW q, Ring(q), NEW s, Shows(q, s), NEW v \in Kept,
         NEW x \in 0..Len(s)
  PROVE  LET p == Queue!Pushed(q, v)
             moved == {k \in 1..(Queue!Size(p) - 1) : k > x}
             r == IF Queue!Size(p) = 1 THEN p
                  ELSE [p EXCEPT !.array = [i \in DOMAIN p.array |->
                         IF i = Queue!Cell(p, x) THEN v
                         ELSE IF \E k \in moved : i = Queue!Cell(p, k)
                              THEN Queue!Element(p, (CHOOSE k \in moved : i = Queue!Cell(p, k)) - 1)
                              ELSE p.array[i]]]
         IN Ring(r) /\ Shows(r, Queue!InsertAt(s, x + 1, v))
<1>1. PICK p : p = Queue!Pushed(q, v)
  OBVIOUS
<1>2. PICK t, n : t = Append(s, v) /\ n = Len(s)
  OBVIOUS
<1>3. s \in Seq(Kept) /\ n \in Nat /\ t \in Seq(Kept) /\ Len(t) = n + 1
      /\ t[n + 1] = v /\ \A i \in 1..n : t[i] = s[i]
  BY <1>2 DEF Shows
<1>4. Ring(p) /\ Shows(p, t)
  BY <1>1, <1>2, PushedIs
<1>5. Queue!Size(p) = n + 1 /\ \A k \in 1..(n + 1) : Queue!Element(p, k - 1) = t[k]
  BY <1>3, <1>4 DEF Shows
<1>6. PICK u : u = Queue!InsertAt(s, x + 1, v)
  OBVIOUS
<1>7. /\ u \in Seq(Kept) /\ Len(u) = n + 1 /\ u[x + 1] = v
      /\ \A i \in 1..x : u[i] = s[i]
      /\ \A i \in x + 2..n + 1 : u[i] = s[i - 1]
  BY <1>2, <1>3, <1>6, InsertAtIs
<1>8. CASE Queue!Size(p) = 1
  <2>1. n = 0 /\ x = 0
    BY <1>2, <1>3, <1>5, <1>8
  <2>2. t[1] = u[1] /\ Len(t) = 1 /\ Len(u) = 1
    BY <2>1, <1>3, <1>7
  <2>3. t = u
    <3>1. Len(t) = Len(u) /\ \A i \in 1..Len(t) : t[i] = u[i]
      BY <2>2
    <3>2. t \in Seq(Kept) /\ u \in Seq(Kept)
      BY <1>3, <1>7
    <3> QED  BY <3>1, <3>2, SeqEqual
  <2> QED  BY <2>3, <1>1, <1>4, <1>6, <1>8
<1>9. CASE Queue!Size(p) # 1
  <2>1. PICK moved : moved = {k \in 1..(Queue!Size(p) - 1) : k > x}
    OBVIOUS
  <2>2. moved = {k \in 1..n : k > x}
    BY <2>1, <1>3, <1>5
  <2>3. /\ p.size # 0 /\ p.size \in Nat /\ n + 1 < p.size /\ x \in Queue!Cells(p.size)
        /\ p.array \in [Queue!Cells(p.size) -> Kept]
    <3>1. Ring(p) /\ Queue!Size(p) = n + 1 /\ n \in Nat
      BY <1>3, <1>4, <1>5
    <3>2. p.size \in Nat /\ p.array \in [Queue!Cells(p.size) -> Kept]
      BY <3>1 DEF Ring
    <3>3. p.size # 0 /\ n + 1 < p.size
      BY <3>1, SizeIs
    <3>4. x \in Nat /\ x <= n
      BY <1>2, <1>3
    <3>5. x \in Queue!Cells(p.size)
      BY <3>1, <3>2, <3>3, <3>4 DEF Queue!Cells
    <3> QED  BY <3>2, <3>3, <3>5
  <2>4. PICK a : a = [i \in DOMAIN p.array |->
                         IF i = Queue!Cell(p, x) THEN v
                         ELSE IF \E k \in moved : i = Queue!Cell(p, k)
                              THEN Queue!Element(p, (CHOOSE k \in moved : i = Queue!Cell(p, k)) - 1)
                              ELSE p.array[i]]
    OBVIOUS
  <2>5. DOMAIN p.array = Queue!Cells(p.size)
    BY <2>3
  <2>6. moved \subseteq Queue!Cells(p.size) /\ \A k \in moved : k - 1 \in Queue!Cells(p.size)
    BY <2>2, <2>3, <1>3 DEF Queue!Cells
  <2>7. \A k \in Queue!Cells(p.size) : Queue!Element(p, k) \in Kept
    BY <1>4, <2>3, CellIs
  <2>8. a \in [Queue!Cells(p.size) -> Kept]
    <3>1. ASSUME NEW i \in Queue!Cells(p.size)
          PROVE  a[i] \in Kept
      <4>1. CASE i = Queue!Cell(p, x)
        BY <4>1, <2>4, <2>5
      <4>2. CASE i # Queue!Cell(p, x) /\ \E k \in moved : i = Queue!Cell(p, k)
        <5>1. (CHOOSE k \in moved : i = Queue!Cell(p, k)) \in moved
          BY <4>2
        <5> QED  BY <5>1, <4>2, <2>4, <2>5, <2>6, <2>7
      <4>3. CASE i # Queue!Cell(p, x) /\ ~(\E k \in moved : i = Queue!Cell(p, k))
        BY <4>3, <2>3, <2>4, <2>5
      <4> QED  BY <4>1, <4>2, <4>3
    <3> QED  BY <3>1, <2>4, <2>5
  <2>9. \A k \in Queue!Cells(n + 1) : a[Queue!Cell(p, k)] = u[k + 1]
    <3> TAKE k \in Queue!Cells(n + 1)
    <3>1. k \in Queue!Cells(p.size) /\ Queue!Cell(p, k) \in Queue!Cells(p.size) /\ k \in 0..n
      <4>1. k \in Queue!Cells(p.size) /\ k \in 0..n
        BY <2>3, <1>3 DEF Queue!Cells
      <4> QED  BY <4>1, <1>4, <2>3, CellIs
    <3>2. CASE k = x
      BY <3>1, <3>2, <1>7, <2>4, <2>5
    <3>3. CASE k > x
      <4>1. k \in moved
        BY <3>1, <3>3, <2>2, <1>2
      <4>2. Queue!Cell(p, k) # Queue!Cell(p, x)
        BY <3>1, <3>3, <1>2, <1>4, <2>3, CellIs
      <4>3. (CHOOSE j \in moved : Queue!Cell(p, k) = Queue!Cell(p, j)) = k
        <5>1. \A j \in moved : Queue!Cell(p, k) = Queue!Cell(p, j) => j = k
          BY <3>1, <1>4, <2>3, <2>6, CellIs
        <5> QED  BY <5>1, <4>1
      <4>4. a[Queue!Cell(p, k)] = Queue!Element(p, k - 1)
        BY <4>1, <4>2, <4>3, <3>1, <2>4, <2>5
      <4>5. k \in 1..(n + 1) /\ k \in 1..n /\ k + 1 \in x + 2..n + 1 /\ (k + 1) - 1 = k
        BY <3>1, <3>3, <1>2, <1>3
      <4>6. Queue!Element(p, k - 1) = t[k]
        BY <4>5, <1>5
      <4>7. t[k] = s[k]
        BY <4>5, <1>3
      <4>8. u[k + 1] = s[k]
        BY <4>5, <1>7
      <4> QED  BY <4>4, <4>6, <4>7, <4>8
    <3>4. CASE k < x
      <4>1. k \notin moved /\ k # x
        BY <3>1, <3>4, <2>2, <1>2
      <4>2. Queue!Cell(p, k) # Queue!Cell(p, x)
        BY <3>1, <4>1, <1>4, <2>3, CellIs
      <4>3. ~(\E j \in moved : Queue!Cell(p, k) = Queue!Cell(p, j))
        BY <3>1, <4>1, <1>4, <2>3, <2>6, CellIs
      <4>4. a[Queue!Cell(p, k)] = p.array[Queue!Cell(p, k)]
        BY <4>2, <4>3, <3>1, <2>4, <2>5
      <4>5. k + 1 \in 1..(n + 1) /\ k + 1 \in 1..n /\ k + 1 \in 1..x /\ (k + 1) - 1 = k
        BY <3>1, <3>4, <1>2, <1>3
      <4>6. Queue!Element(p, (k + 1) - 1) = t[k + 1]
        BY <4>5, <1>5
      <4>7. t[k + 1] = s[k + 1]
        BY <4>5, <1>3
      <4>8. u[k + 1] = s[k + 1]
        BY <4>5, <1>7
      <4> QED  BY <4>4, <4>5, <4>6, <4>7, <4>8 DEF Queue!Element
    <3>5. k < x \/ k = x \/ k > x
      BY <3>1, <1>2, <1>3
    <3> QED  BY <3>2, <3>3, <3>4, <3>5
  <2>10. PICK r : r = [p EXCEPT !.array = a]
    OBVIOUS
  <2>11. Ring(r) /\ Shows(r, u)
    <3>1. Len(u) = Queue!Size(p) /\ \A k \in Queue!Cells(Queue!Size(p)) : a[Queue!Cell(p, k)] = u[k + 1]
      BY <1>5, <1>7, <2>9
    <3> QED  BY <3>1, <1>4, <1>7, <2>3, <2>8, <2>10, Rearranged
  <2> QED  BY <2>1, <2>4, <2>10, <2>11, <1>1, <1>6, <1>9
<1> QED  BY <1>8, <1>9

\* Pop takes the first element.
LEMMA PoppedIs ==
  ASSUME NEW q, Ring(q), q.head # q.tail, NEW s, Shows(q, s)
  PROVE  LET p == [q EXCEPT !.head = Queue!After(q)] IN
         Ring(p) /\ Shows(p, Tail(s)) /\ Queue!Popped(q) = Head(s)
<1>1. PICK p : p = [q EXCEPT !.head = Queue!After(q)]
  OBVIOUS
<1>2. PICK h \in Nat, e \in Nat, n \in Nat \ {0}, l \in Nat \ {0} :
        h = q.head /\ e = q.tail /\ n = q.size /\ l = Len(s) /\ l = Queue!Size(q)
  <2>1. Queue!Size(q) \in Nat \ {0} /\ Len(s) = Queue!Size(q) /\ q.size # 0
    BY SizeIs DEF Shows
  <2> QED  BY <2>1 DEF Ring
<1>3. /\ q = [array |-> q.array, head |-> q.head, tail |-> q.tail, size |-> q.size]
      /\ q.array \in [Queue!Cells(n) -> Kept] /\ h < n /\ e < n /\ h # e
  BY <1>2 DEF Ring
<1>4. l < n
  BY <1>2, SizeIs
<1>5. /\ p = [array |-> p.array, head |-> p.head, tail |-> p.tail, size |-> p.size]
      /\ p.array = q.array /\ p.tail = e /\ p.size = n
      /\ p.head = IF h + 1 = n THEN 0 ELSE h + 1
  BY <1>1, <1>2, <1>3 DEF Queue!After
<1>6. PICK g \in Nat : g = p.head /\ g < n /\ g = IF h + 1 = n THEN 0 ELSE h + 1
  BY <1>3, <1>5
<1>7. Ring(p)
  BY <1>2, <1>3, <1>5, <1>6 DEF Ring
<1>8. Queue!Size(p) = l - 1
  <2>1. l = IF h <= e THEN e - h ELSE n - h + e
    BY <1>2 DEF Queue!Size
  <2>2. Queue!Size(p) = IF g <= e THEN e - g ELSE n - g + e
    BY <1>5, <1>6 DEF Queue!Size
  <2>3. CASE h + 1 = n
    <3>1. g = 0 /\ e < h
      BY <2>3, <1>3, <1>6
    <3>2. l = n - h + e /\ Queue!Size(p) = e
      BY <3>1, <2>1, <2>2
    <3> QED  BY <3>2, <2>3
  <2>4. CASE h + 1 # n
    <3>1. g = h + 1
      BY <2>4, <1>6
    <3>2. CASE h < e
      <4>1. l = e - h /\ Queue!Size(p) = e - g
        BY <3>1, <3>2, <2>1, <2>2
      <4> QED  BY <4>1, <3>1
    <3>3. CASE e < h
      <4>1. l = n - h + e /\ Queue!Size(p) = n - g + e
        BY <3>1, <3>3, <2>1, <2>2
      <4> QED  BY <4>1, <3>1
    <3> QED  BY <3>2, <3>3, <1>3
  <2> QED  BY <2>3, <2>4
<1>9. ASSUME NEW k \in Nat, k < n PROVE Queue!Cell(p, k) = Queue!Cell(q, k + 1)
  <2>1. Queue!Cell(p, k) = IF g + k >= n THEN g + k - n ELSE g + k
    BY <1>5, <1>6 DEF Queue!Cell
  <2>2. Queue!Cell(q, k + 1) = IF h + (k + 1) >= n THEN h + (k + 1) - n ELSE h + (k + 1)
    BY <1>2 DEF Queue!Cell
  <2>3. CASE h + 1 = n
    <3>1. g = 0
      BY <2>3, <1>6
    <3>2. Queue!Cell(p, k) = k
      BY <3>1, <2>1, <1>9
    <3>3. Queue!Cell(q, k + 1) = k
      BY <2>2, <2>3
    <3> QED  BY <3>2, <3>3
  <2>4. CASE h + 1 # n
    <3>1. g = h + 1
      BY <2>4, <1>6
    <3> QED  BY <3>1, <2>1, <2>2
  <2> QED  BY <2>3, <2>4
<1>10. s \in Seq(Kept) /\ s # <<>> /\ \A k \in 1..l : Queue!Element(q, k - 1) = s[k]
  BY <1>2, EmptySeq DEF Shows
<1>11. PICK t : t = Tail(s)
  OBVIOUS
<1>12. t \in Seq(Kept) /\ Len(t) = l - 1 /\ \A k \in 1..(l - 1) : t[k] = s[k + 1]
  BY <1>2, <1>10, <1>11, HeadTailProperties
<1>13. ASSUME NEW k \in 1..Len(t) PROVE Queue!Element(p, k - 1) = t[k]
  <2>1. k \in Nat /\ k \in 1..(l - 1) /\ k - 1 \in Nat /\ k - 1 < n /\ (k - 1) + 1 = k
    BY <1>4, <1>12
  <2>2. Queue!Element(p, k - 1) = Queue!Element(q, k)
    <3>1. Queue!Cell(p, k - 1) = Queue!Cell(q, k)
      BY <2>1, <1>9
    <3> QED  BY <3>1, <1>5 DEF Queue!Element
  <2>3. k + 1 \in 1..l /\ (k + 1) - 1 = k
    BY <2>1
  <2>4. Queue!Element(q, k) = s[k + 1]
    BY <2>3, <1>10
  <2> QED  BY <2>1, <2>2, <2>4, <1>12
<1>14. Shows(p, t)
  BY <1>8, <1>12, <1>13 DEF Shows
<1>15. Queue!Popped(q) = Head(s)
  <2>1. Queue!Element(q, 0) = s[1]
    BY <1>10
  <2>2. Queue!Cell(q, 0) = h
    BY <1>2, <1>3 DEF Queue!Cell
  <2>3. Queue!After(q) = IF h + 1 = n THEN 0 ELSE h + 1
    BY <1>2 DEF Queue!After
  <2>4. (IF Queue!After(q) = 0 THEN n - 1 ELSE Queue!After(q) - 1) = h
    BY <2>3
  <2>5. Queue!Popped(q) = q.array[h]
    BY <2>4, <1>2 DEF Queue!Popped
  <2>6. Head(s) = s[1]
    BY <1>10
  <2> QED  BY <2>1, <2>2, <2>5, <2>6 DEF Queue!Element
<1> QED  BY <1>1, <1>7, <1>11, <1>14, <1>15

\* A copy of the elements into other memory shows what the ring showed.
LEMMA MovedIs ==
  ASSUME NEW q, Ring(q), NEW s, Shows(q, s), NEW n \in Nat, n > Queue!Size(q)
  PROVE  Ring(Queue!Moved(q, n)) /\ Shows(Queue!Moved(q, n), s)
<1>1. PICK p : p = Queue!Moved(q, n)
  OBVIOUS
<1>2. PICK l \in Nat : l = Queue!Size(q) /\ l = Len(s) /\ l < n
  BY SizeIs DEF Shows
<1>3. /\ p = [array |-> p.array, head |-> p.head, tail |-> p.tail, size |-> p.size]
      /\ p.head = 0 /\ p.tail = l /\ p.size = n
      /\ p.array = [i \in Queue!Cells(n) |->
                      IF i < l THEN q.array[(q.head + i) % q.size] ELSE Queue!Junk]
  BY <1>1, <1>2 DEF Queue!Moved, Queue!Blank
<1>4. ASSUME NEW i \in Queue!Cells(n), i < l
      PROVE  q.array[(q.head + i) % q.size] = Queue!Element(q, i) /\ Queue!Element(q, i) \in Kept
  <2>1. q.size # 0 /\ i \in Queue!Cells(q.size)
    <3>1. i \in Nat /\ l # 0
      BY <1>4 DEF Queue!Cells
    <3>2. q.size \in Nat
      BY DEF Ring
    <3>3. q.size # 0 /\ l < q.size
      BY <3>1, <1>2, SizeIs
    <3>4. i < q.size
      BY <3>1, <3>2, <3>3, <1>4
    <3> QED  BY <3>1, <3>2, <3>3, <3>4 DEF Queue!Cells
  <2> QED  BY <2>1, CellIs DEF Queue!Element
<1>5. p.array \in [Queue!Cells(n) -> Kept]
  <2>1. \A i \in Queue!Cells(n) : p.array[i] \in Kept
    BY <1>3, <1>4 DEF Kept
  <2> QED  BY <2>1, <1>3
<1>6. Ring(p)
  BY <1>2, <1>3, <1>5 DEF Ring
<1>7. Queue!Size(p) = l
  BY <1>3 DEF Queue!Size
<1>8. ASSUME NEW k \in 1..Len(s) PROVE Queue!Element(p, k - 1) = s[k]
  <2>1. k - 1 \in Nat /\ k - 1 < l /\ k - 1 < n /\ k - 1 \in Queue!Cells(n)
    BY <1>2 DEF Queue!Cells
  <2>2. Queue!Cell(p, k - 1) = k - 1
    BY <2>1, <1>3 DEF Queue!Cell
  <2>3. Queue!Element(p, k - 1) = Queue!Element(q, k - 1)
    BY <2>1, <2>2, <1>3, <1>4 DEF Queue!Element
  <2> QED  BY <2>3 DEF Shows
<1>9. Shows(p, s)
  BY <1>2, <1>7, <1>8 DEF Shows
<1> QED  BY <1>1, <1>6, <1>9

\* RemoveAtIndex takes the element at its place.
LEMMA RemovedIs ==
  ASSUME NEW q, Ring(q), NEW s, Shows(q, s), NEW x \in Queue!Cells(Len(s))
  PROVE  LET moved == {k \in Queue!Cells(Queue!Size(q) - 1) : k >= x}
             p == [q EXCEPT
                    !.array = [i \in DOMAIN q.array |->
                      IF \E k \in moved : i = Queue!Cell(q, k)
                      THEN Queue!Element(q, (CHOOSE k \in moved : i = Queue!Cell(q, k)) + 1)
                      ELSE q.array[i]],
                    !.tail = IF @ = 0 THEN q.size - 1 ELSE @ - 1]
         IN Ring(p) /\ Shows(p, Queue!RemoveAt(s, x + 1))
<1>1. PICK l \in Nat \ {0} : l = Queue!Size(q) /\ l = Len(s) /\ x \in Nat /\ x < l
  BY SizeIs DEF Shows, Queue!Cells
<1>2. PICK h \in Nat, e \in Nat, n \in Nat \ {0} :
        h = q.head /\ e = q.tail /\ n = q.size /\ h < n /\ e < n /\ l < n
  BY <1>1, SizeIs DEF Ring
<1>3. /\ q = [array |-> q.array, head |-> q.head, tail |-> q.tail, size |-> q.size]
      /\ q.array \in [Queue!Cells(n) -> Kept] /\ DOMAIN q.array = Queue!Cells(n)
  BY <1>2 DEF Ring
<1>4. PICK moved : moved = {k \in Queue!Cells(Queue!Size(q) - 1) : k >= x}
  OBVIOUS
<1>5. moved = {k \in Queue!Cells(l - 1) : k >= x} /\ moved \subseteq Queue!Cells(n)
      /\ \A k \in moved : k + 1 \in Queue!Cells(n)
  <2>1. moved = {k \in Queue!Cells(l - 1) : k >= x}
    BY <1>1, <1>4
  <2>2. \A k \in Queue!Cells(l - 1) : k \in Queue!Cells(n) /\ k + 1 \in Queue!Cells(n)
    BY <1>2 DEF Queue!Cells
  <2> QED  BY <2>1, <2>2
<1>6. PICK a : a = [i \in DOMAIN q.array |->
                      IF \E k \in moved : i = Queue!Cell(q, k)
                      THEN Queue!Element(q, (CHOOSE k \in moved : i = Queue!Cell(q, k)) + 1)
                      ELSE q.array[i]]
  OBVIOUS
<1>7. PICK p : p = [q EXCEPT !.array = a, !.tail = IF @ = 0 THEN q.size - 1 ELSE @ - 1]
  OBVIOUS
<1>8. /\ p = [array |-> p.array, head |-> p.head, tail |-> p.tail, size |-> p.size]
      /\ p.array = a /\ p.head = h /\ p.size = n /\ p.tail = IF e = 0 THEN n - 1 ELSE e - 1
  BY <1>2, <1>3, <1>7
<1>9. a \in [Queue!Cells(n) -> Kept]
  <2>1. ASSUME NEW i \in Queue!Cells(n) PROVE a[i] \in Kept
    <3>1. CASE \E k \in moved : i = Queue!Cell(q, k)
      <4>1. (CHOOSE k \in moved : i = Queue!Cell(q, k)) \in moved
        BY <3>1
      <4>2. (CHOOSE k \in moved : i = Queue!Cell(q, k)) + 1 \in Queue!Cells(n)
        BY <4>1, <1>5
      <4>3. Queue!Element(q, (CHOOSE k \in moved : i = Queue!Cell(q, k)) + 1) \in Kept
        BY <4>2, <1>2, CellIs
      <4> QED  BY <4>3, <3>1, <1>3, <1>6
    <3>2. CASE ~(\E k \in moved : i = Queue!Cell(q, k))
      BY <3>2, <1>3, <1>6
    <3> QED  BY <3>1, <3>2
  <2> QED  BY <2>1, <1>3, <1>6
<1>10. PICK f \in Nat : f = p.tail /\ f < n /\ f = IF e = 0 THEN n - 1 ELSE e - 1
  BY <1>2, <1>8
<1>11. Ring(p)
  BY <1>2, <1>8, <1>9, <1>10 DEF Ring
<1>12. Queue!Size(p) = l - 1
  <2>1. l = IF h <= e THEN e - h ELSE n - h + e
    BY <1>1, <1>2 DEF Queue!Size
  <2>2. Queue!Size(p) = IF h <= f THEN f - h ELSE n - h + f
    BY <1>8, <1>10 DEF Queue!Size
  <2>3. h # e
    BY <2>1
  <2>4. CASE e = 0
    <3>1. f = n - 1 /\ ~(h <= e) /\ h <= f
      BY <2>3, <2>4, <1>2, <1>10
    <3>2. l = n - h + e /\ Queue!Size(p) = f - h
      BY <3>1, <2>1, <2>2
    <3> QED  BY <3>1, <3>2, <2>4
  <2>5. CASE e # 0
    <3>1. f = e - 1
      BY <2>5, <1>10
    <3>2. CASE h < e
      <4>1. l = e - h /\ Queue!Size(p) = f - h
        BY <3>1, <3>2, <2>1, <2>2
      <4> QED  BY <4>1, <3>1
    <3>3. CASE e < h
      <4>1. l = n - h + e /\ Queue!Size(p) = n - h + f
        BY <3>1, <3>3, <2>1, <2>2
      <4> QED  BY <4>1, <3>1
    <3> QED  BY <3>2, <3>3, <2>3
  <2> QED  BY <2>4, <2>5
<1>13. PICK u : u = Queue!RemoveAt(s, x + 1)
  OBVIOUS
<1>14. s \in Seq(Kept) /\ \A k \in 1..l : Queue!Element(q, k - 1) = s[k]
  BY <1>1 DEF Shows
<1>15. /\ u \in Seq(Kept) /\ Len(u) = l - 1
       /\ \A i \in 1..x : u[i] = s[i]
       /\ \A i \in x + 1..l - 1 : u[i] = s[i + 1]
  <2>1. x + 1 \in 1..Len(s) /\ (x + 1) - 1 = x
    BY <1>1
  <2>2. /\ u \in Seq(Kept) /\ Len(u) = Len(s) - 1
        /\ \A i \in 1..(x + 1) - 1 : u[i] = s[i]
        /\ \A i \in x + 1..Len(s) - 1 : u[i] = s[i + 1]
    BY <2>1, <1>13, <1>14, RemoveAtIs
  <2> QED  BY <2>1, <2>2, <1>1
<1>16. ASSUME NEW k \in 1..Len(u) PROVE Queue!Element(p, k - 1) = u[k]
  <2>1. PICK j \in Nat : j = k - 1 /\ j < l - 1 /\ j < n /\ k = j + 1
    BY <1>1, <1>2, <1>15
  <2>2. Queue!Cell(p, j) = Queue!Cell(q, j)
    BY <1>2, <1>8 DEF Queue!Cell
  <2>3. j \in Queue!Cells(n) /\ Queue!Cell(q, j) \in Queue!Cells(n)
    <3>1. j \in Queue!Cells(n)
      BY <2>1 DEF Queue!Cells
    <3> QED  BY <3>1, <1>2, CellIs
  <2>4. CASE j >= x
    <3>1. j \in moved
      BY <2>1, <2>4, <1>5 DEF Queue!Cells
    <3>2. (CHOOSE i \in moved : Queue!Cell(q, j) = Queue!Cell(q, i)) = j
      <4>1. \A i \in moved : Queue!Cell(q, j) = Queue!Cell(q, i) => i = j
        BY <2>3, <1>2, <1>5, CellIs
      <4> QED  BY <4>1, <3>1
    <3>3. a[Queue!Cell(q, j)] = Queue!Element(q, j + 1)
      BY <3>1, <3>2, <2>3, <1>3, <1>6
    <3>4. k + 1 \in 1..l /\ (k + 1) - 1 = j + 1 /\ k \in x + 1..l - 1
      BY <2>1, <2>4, <1>1
    <3>5. Queue!Element(q, j + 1) = s[k + 1]
      BY <3>4, <1>14
    <3>6. u[k] = s[k + 1]
      BY <3>4, <1>15
    <3> QED  BY <3>3, <3>5, <3>6, <2>1, <2>2, <1>8 DEF Queue!Element
  <2>5. CASE j < x
    <3>1. j \notin moved
      BY <2>1, <2>5, <1>1, <1>5
    <3>2. ~(\E i \in moved : Queue!Cell(q, j) = Queue!Cell(q, i))
      BY <3>1, <2>3, <1>2, <1>5, CellIs
    <3>3. a[Queue!Cell(q, j)] = q.array[Queue!Cell(q, j)]
      BY <3>2, <2>3, <1>3, <1>6
    <3>4. k \in 1..l /\ k - 1 = j /\ k \in 1..x
      BY <2>1, <2>5, <1>1
    <3>5. Queue!Element(q, j) = s[k]
      BY <3>4, <1>14
    <3>6. u[k] = s[k]
      BY <3>4, <1>15
    <3> QED  BY <3>3, <3>5, <3>6, <2>1, <2>2, <1>8 DEF Queue!Element
  <2> QED  BY <2>1, <2>4, <2>5, <1>1
<1>17. Shows(p, u)
  BY <1>12, <1>15, <1>16 DEF Shows
<1> QED  BY <1>4, <1>6, <1>7, <1>11, <1>13, <1>17

-----------------------------------------------------------------------------
(* Steps *)

\* Push appends an element to the queue.
LEMMA PushStep ==
  ASSUME Queue!QueueAssumption, Ring(queue), NEW v \in Values, Queue!Push(v)
  PROVE  Ring(queue') /\ Queue!Contents(queue') = Append(Queue!Contents(queue), v)
<1>1. PICK s, q : s = Queue!Contents(queue) /\ q = queue'
  OBVIOUS
<1>2. Shows(queue, s) /\ v \in Kept
  BY <1>1, ContentsShown DEF Kept
<1>3. q = Queue!Pushed(queue, v)
  BY <1>1 DEF Queue!Push
<1>4. Ring(q) /\ Shows(q, Append(s, v))
  BY <1>2, <1>3, PushedIs
<1>5. Queue!Contents(q) = Append(s, v)
  BY <1>4, ContentsAre
<1> QED  BY <1>1, <1>4, <1>5

\* PushAtHead inserts one in the queue, at a place there is.
LEMMA PushAtHeadStep ==
  ASSUME Queue!QueueAssumption, Ring(queue), NEW v \in Values, NEW i \in Nat, Queue!PushAtHead(v, i)
  PROVE  /\ Ring(queue') /\ i \in 0..Len(Queue!Contents(queue))
         /\ Queue!Contents(queue') = Queue!InsertAt(Queue!Contents(queue), i + 1, v)
<1>1. PICK s, q : s = Queue!Contents(queue) /\ q = queue'
  OBVIOUS
<1>2. Shows(queue, s) /\ v \in Kept
  BY <1>1, ContentsShown DEF Kept
<1>3. i \in 0..Len(s)
  <2>1. Len(s) = Queue!Size(queue) /\ Queue!Size(queue) \in Nat
    BY <1>2, SizeIs DEF Shows
  <2>2. i <= Queue!Size(queue)
    BY DEF Queue!PushAtHead
  <2> QED  BY <2>1, <2>2
<1>4. Ring(q) /\ Shows(q, Queue!InsertAt(s, i + 1, v))
  <2>1. PICK r :
          r = LET p == Queue!Pushed(queue, v)
                  moved == {k \in 1..(Queue!Size(p) - 1) : k > i}
              IN IF Queue!Size(p) = 1 THEN p
                 ELSE [p EXCEPT !.array = [j \in DOMAIN p.array |->
                        IF j = Queue!Cell(p, i) THEN v
                        ELSE IF \E k \in moved : j = Queue!Cell(p, k)
                             THEN Queue!Element(p, (CHOOSE k \in moved : j = Queue!Cell(p, k)) - 1)
                             ELSE p.array[j]]]
    OBVIOUS
  <2>2. Ring(r) /\ Shows(r, Queue!InsertAt(s, i + 1, v))
    BY <2>1, <1>2, <1>3, PushedAtIs
  <2>3. q = r
    BY <2>1, <1>1 DEF Queue!PushAtHead
  <2> QED  BY <2>2, <2>3
<1>5. Queue!Contents(q) = Queue!InsertAt(s, i + 1, v)
  BY <1>4, ContentsAre
<1> QED  BY <1>1, <1>3, <1>4, <1>5

\* RemoveAtIndex takes the element at its place out of the queue.
LEMMA RemoveAtIndexStep ==
  ASSUME Ring(queue), NEW x \in Nat, Queue!RemoveAtIndex(x)
  PROVE  /\ Ring(queue') /\ x + 1 \in 1..Len(Queue!Contents(queue))
         /\ Queue!Contents(queue') = Queue!RemoveAt(Queue!Contents(queue), x + 1)
<1>1. PICK s, q : s = Queue!Contents(queue) /\ q = queue'
  OBVIOUS
<1>2. Shows(queue, s)
  BY <1>1, ContentsShown
<1>3. x \in Queue!Cells(Len(s)) /\ x + 1 \in 1..Len(s)
  <2>1. Len(s) = Queue!Size(queue) /\ Queue!Size(queue) \in Nat
    BY <1>2, SizeIs DEF Shows
  <2>2. x < Queue!Size(queue)
    BY DEF Queue!RemoveAtIndex
  <2> QED  BY <2>1, <2>2 DEF Queue!Cells
<1>4. PICK p :
        p = LET moved == {k \in Queue!Cells(Queue!Size(queue) - 1) : k >= x} IN
            [queue EXCEPT
              !.array = [i \in DOMAIN queue.array |->
                IF \E k \in moved : i = Queue!Cell(queue, k)
                THEN Queue!Element(queue, (CHOOSE k \in moved : i = Queue!Cell(queue, k)) + 1)
                ELSE queue.array[i]],
              !.tail = IF @ = 0 THEN queue.size - 1 ELSE @ - 1]
  OBVIOUS
<1>5. Ring(p) /\ Shows(p, Queue!RemoveAt(s, x + 1))
  BY <1>2, <1>3, <1>4, RemovedIs
<1>6. q = Queue!Held(p)
  BY <1>1, <1>4 DEF Queue!RemoveAtIndex
<1>7. Ring(q) /\ Shows(q, Queue!RemoveAt(s, x + 1))
  BY <1>5, <1>6, HeldIs
<1>8. Queue!Contents(q) = Queue!RemoveAt(s, x + 1)
  BY <1>7, ContentsAre
<1> QED  BY <1>1, <1>3, <1>7, <1>8

\* Pop returns the first element and leaves the others.
LEMMA PopStep ==
  ASSUME Ring(queue), Queue!Pop
  PROVE  /\ Ring(queue') /\ Queue!Contents(queue') = Tail(Queue!Contents(queue))
         /\ Queue!Popped(queue) = Head(Queue!Contents(queue))
<1>1. PICK s, q : s = Queue!Contents(queue) /\ q = queue'
  OBVIOUS
<1>2. Shows(queue, s) /\ queue.head # queue.tail
  BY <1>1, ContentsShown DEF Queue!Pop
<1>3. PICK p : p = [queue EXCEPT !.head = Queue!After(queue)]
  OBVIOUS
<1>4. Ring(p) /\ Shows(p, Tail(s)) /\ Queue!Popped(queue) = Head(s)
  BY <1>2, <1>3, PoppedIs
<1>5. q = Queue!Held(p)
  BY <1>1, <1>3 DEF Queue!Pop
<1>6. Ring(q) /\ Shows(q, Tail(s))
  BY <1>4, <1>5, HeldIs
<1>7. Queue!Contents(q) = Tail(s)
  BY <1>6, ContentsAre
<1> QED  BY <1>1, <1>4, <1>6, <1>7

\* A new array has no elements.
LEMMA BlankStep ==
  ASSUME NEW n \in Nat
  PROVE  Ring(Queue!Blank(n)) /\ Queue!Contents(Queue!Blank(n)) = <<>>
<1>1. PICK q : q = Queue!Blank(n)
  OBVIOUS
<1>2. Ring(q) /\ Shows(q, <<>>)
  BY <1>1, BlankIs
<1>3. Queue!Contents(q) = <<>>
  BY <1>2, ContentsAre
<1> QED  BY <1>1, <1>2, <1>3

\* Elements that are moved to a longer array stay the queue's.
LEMMA MovedStep ==
  ASSUME Ring(queue), NEW n \in Nat, n > Queue!Size(queue)
  PROVE  /\ Ring(Queue!Moved(queue, n))
         /\ Queue!Contents(Queue!Moved(queue, n)) = Queue!Contents(queue)
<1>1. PICK s, q : s = Queue!Contents(queue) /\ q = Queue!Moved(queue, n)
  OBVIOUS
<1>2. Shows(queue, s)
  BY <1>1, ContentsShown
<1>3. Ring(q) /\ Shows(q, s)
  BY <1>1, <1>2, MovedIs
<1>4. Queue!Contents(q) = s
  BY <1>3, ContentsAre
<1> QED  BY <1>1, <1>3, <1>4

\* Compress keeps the elements.
LEMMA CompressStep ==
  ASSUME Queue!QueueAssumption, Ring(queue), Queue!Compress
  PROVE  Ring(queue') /\ Queue!Contents(queue') = Queue!Contents(queue)
<1>1. PICK n \in 0..MaxSize : 2^n > Queue!Size(queue) /\ queue' = Queue!Moved(queue, 2^n)
  BY DEF Queue!Compress
<1>2. PICK m : m = 2^n
  OBVIOUS
<1>3. m \in Nat /\ m > Queue!Size(queue) /\ queue' = Queue!Moved(queue, m)
  BY <1>1, <1>2 DEF Queue!QueueAssumption
<1> QED  BY <1>3, MovedStep

\* So does operator=, which goes by their number.
LEMMA AssignStep ==
  ASSUME Ring(queue), Queue!Assign
  PROVE  Ring(queue') /\ Queue!Contents(queue') = Queue!Contents(queue)
<1>1. CASE Queue!Size(queue) = 0
  <2>1. queue' = Queue!Blank(0)
    BY <1>1 DEF Queue!Assign
  <2>2. Queue!Contents(queue) = <<>>
    BY <1>1, ContentsShown, EmptySeq DEF Shows
  <2> QED  BY <2>1, <2>2, BlankStep
<1>2. CASE Queue!Size(queue) # 0
  <2>1. PICK n : n = Queue!Size(queue) + 1
    OBVIOUS
  <2>2. n \in Nat /\ n > Queue!Size(queue)
    BY <2>1, SizeIs
  <2>3. queue' = Queue!Moved(queue, n)
    BY <1>2, <2>1 DEF Queue!Assign
  <2> QED  BY <2>2, <2>3, MovedStep
<1> QED  BY <1>1, <1>2

\* Clear leaves none, and nothing to do where there is no array.
LEMMA ClearStep ==
  ASSUME Ring(queue), Queue!Clear
  PROVE  Ring(queue') /\ Queue!Contents(queue') = <<>>
<1>1. CASE queue.size = 0
  <2>1. queue' = queue
    BY <1>1 DEF Queue!Clear, Queue!Cleared
  <2>2. Queue!Contents(queue) = <<>>
    BY <1>1, SizeIs, ContentsShown, EmptySeq DEF Shows
  <2> QED  BY <2>1, <2>2
<1>2. CASE queue.size # 0
  <2>1. PICK n \in Nat : queue' = Queue!Blank(n)
    <3>1. queue.size \in Nat
      BY DEF Ring
    <3>2. queue' = Queue!Blank(0) \/ queue' = Queue!Blank(queue.size)
      BY <1>2 DEF Queue!Clear, Queue!Cleared
    <3> QED  BY <3>1, <3>2
  <2> QED  BY <2>1, BlankStep
<1> QED  BY <1>1, <1>2

\* Every operation leaves a ring.
LEMMA QueueRingStep ==
  ASSUME Queue!QueueAssumption, Ring(queue), [Queue!Next]_queue
  PROVE  Ring(queue')
<1>1. CASE queue' = queue
  BY <1>1
<1>2. ASSUME NEW v \in Values, Queue!Push(v) PROVE Ring(queue')
  BY <1>2, PushStep
<1>3. ASSUME NEW v \in Values, NEW i \in 0..MaxSize, Queue!PushAtHead(v, i) PROVE Ring(queue')
  <2>1. i \in Nat
    BY DEF Queue!QueueAssumption
  <2> QED  BY <2>1, <1>3, PushAtHeadStep
<1>4. ASSUME NEW x \in Queue!Cells(MaxSize), Queue!RemoveAtIndex(x) PROVE Ring(queue')
  <2>1. x \in Nat
    BY DEF Queue!QueueAssumption, Queue!Cells
  <2> QED  BY <2>1, <1>4, RemoveAtIndexStep
<1>5. ASSUME NEW n \in ForcedSizes, Queue!ClearAndForceAllocation(n) PROVE Ring(queue')
  <2>1. n \in Nat /\ queue' = Queue!Blank(n)
    BY <1>5 DEF Queue!ClearAndForceAllocation, Queue!QueueAssumption
  <2> QED  BY <2>1, BlankStep
<1>6. CASE Queue!Pop
  BY <1>6, PopStep
<1>7. CASE Queue!Clear
  BY <1>7, ClearStep
<1>8. CASE Queue!Compress
  BY <1>8, CompressStep
<1>9. CASE Queue!Assign
  BY <1>9, AssignStep
<1> QED  BY <1>1, <1>2, <1>3, <1>4, <1>5, <1>6, <1>7, <1>8, <1>9 DEF Queue!Next

\* Each operation does to the elements what its name says, from any ring.
LEMMA StepKeepsSequence ==
  ASSUME Queue!QueueAssumption, Ring(queue), Ring(queue')
  PROVE  Queue!SequenceKept
<1>1. PICK s, t : s = Queue!Contents(queue) /\ t = Queue!Contents(queue')
  OBVIOUS
<1>2. Queue!Agrees(queue')
  BY ReadsAgree
<1>3. \A v \in Values : Queue!Push(v) => t = Append(s, v)
  BY <1>1, PushStep
<1>4. \A v \in Values, i \in 0..Len(s) : Queue!PushAtHead(v, i) => t = Queue!InsertAt(s, i + 1, v)
  <2> SUFFICES ASSUME NEW v \in Values, NEW i \in 0..Len(s), Queue!PushAtHead(v, i)
               PROVE  t = Queue!InsertAt(s, i + 1, v)
    OBVIOUS
  <2>1. i \in Nat
    BY <1>1, SizeIs, ContentsShown DEF Shows
  <2> QED  BY <2>1, <1>1, PushAtHeadStep
<1>5. \A i \in 1..Len(s) : Queue!RemoveAtIndex(i - 1) => t = Queue!RemoveAt(s, i)
  <2> SUFFICES ASSUME NEW i \in 1..Len(s), Queue!RemoveAtIndex(i - 1)
               PROVE  t = Queue!RemoveAt(s, i)
    OBVIOUS
  <2>1. PICK x : x = i - 1
    OBVIOUS
  <2>2. x \in Nat /\ x + 1 = i /\ Queue!RemoveAtIndex(x)
    BY <2>1
  <2> QED  BY <2>2, <1>1, RemoveAtIndexStep
<1>6. Queue!Pop => t = Tail(s) /\ Queue!Popped(queue) = Head(s)
  BY <1>1, PopStep
<1>7. Queue!Compress \/ Queue!Assign => t = s
  BY <1>1, CompressStep, AssignStep
<1>8. Queue!Clear => t = <<>>
  BY <1>1, ClearStep
<1> QED  BY <1>1, <1>2, <1>3, <1>4, <1>5, <1>6, <1>7, <1>8 DEF Queue!SequenceKept

\* In every behaviour head and tail lie in the memory there is, and no cell of
\* it holds anything that was not pushed (DS_Queue.h, lines 26-60).
THEOREM QueueIsRing ==
  ASSUME Queue!QueueAssumption
  PROVE  Queue!Spec => []Ring(queue)
<1>1. Queue!Init => Ring(queue)
  BY BlankStep DEF Queue!Init, Queue!QueueAssumption
<1>2. Ring(queue) /\ [Queue!Next]_queue => Ring(queue)'
  <2> SUFFICES ASSUME Ring(queue), [Queue!Next]_queue PROVE Ring(queue)'
    OBVIOUS
  <2>1. Ring(queue')
    BY QueueRingStep
  <2> QED  BY <2>1 DEF Ring, Queue!Cells
<1> QED  BY <1>1, <1>2, PTL DEF Queue!Spec

\* A queue is the sequence that its operations name and reads agree with,
\* wherever the ring begins and however often it grew, shrank or was copied,
\* for any length of its first array (the operations of DS_Queue.h).
THEOREM QueueKeepsSequence ==
  ASSUME Queue!QueueAssumption
  PROVE  Queue!Spec => Queue!KeepsSequence
<1>1. Ring(queue) /\ Ring(queue)' => Queue!SequenceKept
  <2> SUFFICES ASSUME Ring(queue), Ring(queue)' PROVE Queue!SequenceKept
    OBVIOUS
  <2>1. Ring(queue')
    BY DEF Ring, Queue!Cells
  <2> QED  BY <2>1, StepKeepsSequence
<1>2. Queue!Spec => []Ring(queue)
  BY QueueIsRing
<1> QED  BY <1>1, <1>2, PTL DEF Queue!Spec, Queue!KeepsSequence
=============================================================================
