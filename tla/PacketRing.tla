----------------------------- MODULE PacketRing -----------------------------
(***************************************************************************)
(* The queue that carries packets from RakNet's network thread to the      *)
(* thread that calls Receive (SingleProducerConsumer.h, used by            *)
(* RakPeer.cpp without a lock; the commands of the other direction go      *)
(* through a second one).  It is a ring of nodes that grows while it is    *)
(* used.  A step is one access to memory that the other thread can see.    *)
(***************************************************************************)
EXTENDS Naturals, Sequences, FiniteSetsExt

CONSTANTS
  MinSize,       \* MINIMUM_LIST_SIZE
  MaxNodes,      \* bound: nodes allocated at once
  MaxPackets,    \* bound: packets in a behaviour
  MaxShutdowns   \* bound: calls of Shutdown

RingAssumption ==
  /\ MinSize \in Nat /\ MaxNodes \in Nat /\ MaxPackets \in Nat /\ MaxShutdowns \in Nat
  /\ MinSize >= 3 /\ MaxNodes >= MinSize

VARIABLES
  next, readyToRead, object,   \* of each node
  readPointer, readAheadPointer, writePointer, writeAheadPointer,
  writer, originalNext, slot,  \* the network thread: its next step, its locals
  reader, threadPacket, taken,\* the thread of the application, likewise
  sent,                        \* packets put in so far
  packetPool, received,        \* packets for Receive, and the last it returned
  shutdowns

nodeVars == <<next, readyToRead, object>>
readVars == <<readPointer, readAheadPointer>>
writeVars == <<writePointer, writeAheadPointer>>
writerVars == <<writer, originalNext, slot, sent>>
readerVars == <<reader, threadPacket, taken, packetPool, received>>
ringVars == <<nodeVars, readVars, writeVars, writerVars, readerVars, shutdowns>>

Nodes == 1..MaxNodes
\* Where a link leads that was not set.
Unlinked == 0
\* The nodes of the ring, and one being linked into it.
Linked == {n \in Nodes : \E m \in Nodes : next[m] = n}

RingInit ==
  /\ next = [n \in {Unlinked} \cup Nodes |-> IF n \in 1..(MinSize - 1) THEN n + 1
                                             ELSE IF n = MinSize THEN 1 ELSE Unlinked]
  /\ readyToRead = [n \in {Unlinked} \cup Nodes |-> FALSE]
  /\ object = [n \in {Unlinked} \cup Nodes |-> 0]
  /\ readPointer = 1 /\ readAheadPointer = 1
  /\ writePointer = 1 /\ writeAheadPointer = 1
  /\ writer = "idle" /\ originalNext = Unlinked /\ slot = 1
  /\ reader = "lock" /\ threadPacket = 1 /\ taken = <<>>
  /\ sent = 0 /\ packetPool = <<>> /\ received = 0 /\ shutdowns = 0

-----------------------------------------------------------------------------
(* The network thread: AddPacketToProducer *)

Writer(from, to) == writer = from /\ writer' = to

\* Slip: the ring has its first size for good.
WriteLockUnchecked ==
  /\ sent < MaxPackets
  /\ Writer("idle", "advance")
  /\ UNCHANGED <<nodeVars, readVars, writeVars, originalNext, slot, sent, readerVars, shutdowns>>

\* WriteLock: is the next node the one that is read?
WriteLock ==
  /\ sent < MaxPackets
  /\ Writer("idle", IF next[writeAheadPointer] = readPointer THEN "grow" ELSE "check")
  /\ UNCHANGED <<nodeVars, readVars, writeVars, originalNext, slot, sent, readerVars, shutdowns>>

\* Or one that was not read yet?
CheckReady ==
  /\ Writer("check", IF readyToRead[next[writeAheadPointer]] THEN "grow" ELSE "advance")
  /\ UNCHANGED <<nodeVars, readVars, writeVars, originalNext, slot, sent, readerVars, shutdowns>>

\* Then a new node goes in between: first the link to it, then its own.
Grow ==
  /\ Nodes \ Linked # {}
  /\ Writer("grow", "link")
  /\ originalNext' = next[writeAheadPointer]
  /\ LET n == Min(Nodes \ Linked) IN
       /\ next' = [next EXCEPT ![writeAheadPointer] = n, ![n] = Unlinked]
       /\ readyToRead' = [readyToRead EXCEPT ![n] = FALSE]
  /\ UNCHANGED <<object, readVars, writeVars, slot, sent, readerVars, shutdowns>>

Link ==
  /\ Writer("link", "advance")
  /\ next' = [next EXCEPT ![next[writeAheadPointer]] = originalNext]
  /\ UNCHANGED <<readyToRead, object, readVars, writeVars, originalNext, slot,
                 sent, readerVars, shutdowns>>

Advance ==
  /\ Writer("advance", "store")
  /\ slot' = writeAheadPointer
  /\ writeAheadPointer' = next[writeAheadPointer]
  /\ UNCHANGED <<nodeVars, readVars, writePointer, originalNext, sent, readerVars, shutdowns>>

Store ==
  /\ Writer("store", "flag")
  /\ object' = [object EXCEPT ![slot] = sent + 1]
  /\ UNCHANGED <<next, readyToRead, readVars, writeVars, originalNext, slot,
                 sent, readerVars, shutdowns>>

\* WriteUnlock
Flag ==
  /\ Writer("flag", "publish")
  /\ readyToRead' = [readyToRead EXCEPT ![writePointer] = TRUE]
  /\ UNCHANGED <<next, object, readVars, writeVars, originalNext, slot,
                 sent, readerVars, shutdowns>>

Publish ==
  /\ Writer("publish", "idle")
  /\ writePointer' = next[writePointer]
  /\ sent' = sent + 1
  /\ UNCHANGED <<nodeVars, readVars, writeAheadPointer, originalNext, slot,
                 readerVars, shutdowns>>

-----------------------------------------------------------------------------
(* The thread of the application: ReceiveIgnoreRPC *)

Reader(from, to) == reader = from /\ reader' = to

\* What the loop took before goes to the pool after the next ReadLock.
Push == packetPool' = packetPool \o taken /\ taken' = <<>>

\* ReadLock: is there a node that was written, and is it ready?
ReadLock ==
  /\ Reader("lock", IF readAheadPointer = writePointer THEN "pop" ELSE "ready")
  /\ IF readAheadPointer = writePointer THEN Push ELSE UNCHANGED <<packetPool, taken>>
  /\ UNCHANGED <<nodeVars, readVars, writeVars, writerVars, threadPacket, received, shutdowns>>

ReadReady ==
  /\ Reader("ready", IF readyToRead[readAheadPointer] THEN "ahead" ELSE "pop")
  /\ IF readyToRead[readAheadPointer] THEN UNCHANGED <<packetPool, taken>> ELSE Push
  /\ UNCHANGED <<nodeVars, readVars, writeVars, writerVars, threadPacket, received, shutdowns>>

ReadAhead ==
  /\ Reader("ahead", "copy")
  /\ threadPacket' = readAheadPointer
  /\ readAheadPointer' = next[readAheadPointer]
  /\ Push
  /\ UNCHANGED <<nodeVars, readPointer, writeVars, writerVars, received, shutdowns>>

Copy ==
  /\ Reader("copy", "unflag")
  /\ taken' = <<object[threadPacket]>>
  /\ UNCHANGED <<nodeVars, readVars, writeVars, writerVars, threadPacket,
                 packetPool, received, shutdowns>>

\* ReadUnlock
Unflag ==
  /\ Reader("unflag", "unlock")
  /\ readyToRead' = [readyToRead EXCEPT ![readPointer] = FALSE]
  /\ UNCHANGED <<next, object, readVars, writeVars, writerVars, threadPacket,
                 taken, packetPool, received, shutdowns>>

Unlock ==
  /\ Reader("unlock", "lock")
  /\ readPointer' = next[readPointer]
  /\ UNCHANGED <<nodeVars, readAheadPointer, writeVars, writerVars,
                 threadPacket, taken, packetPool, received, shutdowns>>

\* Receive returns a packet of the pool, or none.
Pop ==
  /\ Reader("pop", "lock")
  /\ \/ packetPool = <<>> /\ UNCHANGED <<packetPool, received>>
     \/ /\ packetPool # <<>>
        /\ received' = Head(packetPool) /\ packetPool' = Tail(packetPool)
  /\ UNCHANGED <<nodeVars, readVars, writeVars, writerVars, threadPacket, taken, shutdowns>>

-----------------------------------------------------------------------------

\* The node k links behind p.
Hops(p) ==
  LET hop[k \in 0..MaxNodes] == IF k = 0 THEN p ELSE next[hop[k - 1]] IN hop

\* Shutdown, when the network thread has ended: what is left is taken out and
\* dropped, and Clear shortens the ring to its first size.
Shutdown ==
  /\ shutdowns < MaxShutdowns
  /\ writer = "idle" /\ reader = "lock" /\ taken = <<>>
  /\ LET ring == Hops(writePointer)
         size == Min({k \in 1..MaxNodes : ring[k] = writePointer})
         freed == {ring[i] : i \in 1..(size - MinSize)}
     IN next' = [n \in {Unlinked} \cup Nodes |->
                   IF n \in freed THEN Unlinked
                   ELSE IF n = writePointer THEN ring[size - MinSize + 1] ELSE next[n]]
  /\ readyToRead' = [n \in {Unlinked} \cup Nodes |-> FALSE]
  /\ readPointer' = writePointer /\ readAheadPointer' = writePointer
  /\ writeAheadPointer' = writePointer
  /\ packetPool' = <<>>
  /\ shutdowns' = shutdowns + 1
  /\ UNCHANGED <<object, writePointer, writerVars, reader, threadPacket, taken, received>>

RingNext ==
  \/ WriteLock \/ CheckReady \/ Grow \/ Link \/ Advance \/ Store \/ Flag \/ Publish
  \/ ReadLock \/ ReadReady \/ ReadAhead \/ Copy \/ Unflag \/ Unlock \/ Pop
  \/ Shutdown

RingSpec == RingInit /\ [][RingNext]_ringVars

-----------------------------------------------------------------------------
(* Properties *)

\* The objects of the nodes that were written and not copied.
Waiting ==
  LET first == IF reader = "copy" THEN threadPacket ELSE readAheadPointer
      hop == Hops(first)
      ends == {writePointer, Unlinked}
      count == CHOOSE k \in 0..MaxNodes :
                 hop[k] \in ends /\ \A j \in 0..(k - 1) : hop[j] \notin ends
  IN [i \in 1..count |-> object[hop[i - 1]]]

Channel == INSTANCE Fifo WITH
  Values <- 1..MaxPackets, inside <- packetPool \o taken \o Waiting, out <- received,
  drops <- shutdowns

\* Without a lock between the threads, and while nodes are linked into the
\* ring, each packet that AddPacketToProducer put in is returned by Receive
\* once and in order, and none is overwritten before it was copied.
KeepsOrder == Channel!Spec
=============================================================================
