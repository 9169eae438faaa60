----------------------------- MODULE RangeList -----------------------------
(***************************************************************************)
(* RakNet's list of ranges (DS_RangeList.h) on its ordered list            *)
(* (DS_OrderedList.h): the message numbers to acknowledge.  What the       *)
(* reliability layer relies on is that it is a set of numbers, of which a  *)
(* datagram carries as many as it has room for.                            *)
(***************************************************************************)
EXTENDS Integers, Sequences, SequencesExt

CONSTANTS
  Numbers,    \* message numbers are 0..Numbers-1, and wrap
  CountBits,  \* 16: the count of ranges that precedes them
  IndexBits,  \* 32: a message number
  Rooms,      \* bits that an acknowledgement may have
  MaxRanges   \* bound: ranges in the list

VARIABLES
  ranges,     \* minIndex and maxIndex of each, by minIndex
  carried     \* the ranges of the last datagram, as its receiver has them

vars == <<ranges, carried>>

Indices == 0..(Numbers - 1)
RangeNode(min, max) == [minIndex |-> min, maxIndex |-> max]
Plus(n) == (n + 1) % Numbers
Minus(n) == (n - 1) % Numbers

Init == ranges = <<>> /\ carried = <<>>

-----------------------------------------------------------------------------

\* GetIndexFromKey, with positions from 1: the range that begins with index,
\* or the first one that begins behind it.
Position(index) ==
  LET search[low \in 0..Len(ranges), up \in -1..(Len(ranges) - 1), at \in 0..Len(ranges)] ==
        LET min == ranges[at + 1].minIndex
            below == IF index < min THEN low ELSE at + 1
            above == IF index < min THEN at - 1 ELSE up
        IN IF index = min THEN at
           ELSE IF below > above THEN below
           ELSE search[below, above, below + (above - below) \div 2]
  IN IF ranges = <<>> THEN 1 ELSE search[0, Len(ranges) - 1, Len(ranges) \div 2] + 1

\* Behind every range that begins lower: the last one grows, or a new one
\* follows it.
AtEnd(index) ==
  LET last == Len(ranges) max == ranges[last].maxIndex IN
  IF index = Plus(max) THEN [ranges EXCEPT ![last].maxIndex = Plus(@)]
  ELSE IF index > Plus(max) THEN Append(ranges, RangeNode(index, index))
  ELSE ranges

\* Slip: the range that is joined to its left neighbour stays where it is not.
JoinedEarly(k) ==
  LET grown == [ranges EXCEPT ![k].minIndex = Minus(@)] IN
  IF k > 1 /\ grown[k - 1].maxIndex = Minus(grown[k].minIndex)
  THEN RemoveAt(grown, k) ELSE grown

\* The range at k grows downwards, and is joined to its left neighbour.
Joined(k) ==
  LET grown == [ranges EXCEPT ![k].minIndex = Minus(@)] IN
  IF k > 1 /\ Plus(grown[k - 1].maxIndex) = grown[k].minIndex
  THEN RemoveAt([grown EXCEPT ![k - 1].maxIndex = grown[k].maxIndex], k)
  ELSE grown

\* A number that is in the middle of a range is not looked for there: it
\* gets a range of its own before the next one.  So does 0 when a range
\* begins with it, for the number below 0 is the largest.
Insert(index) ==
  LET k == Position(index) IN
  /\ Len(ranges) < MaxRanges
  /\ ranges' =
       CASE ranges = <<>> -> <<RangeNode(index, index)>>
         [] ranges # <<>> /\ k > Len(ranges) -> AtEnd(index)
         [] k <= Len(ranges) /\ index < Minus(ranges[k].minIndex) ->
              InsertAt(ranges, k, RangeNode(index, index))
         [] k <= Len(ranges) /\ index = Minus(ranges[k].minIndex) -> Joined(k)
         [] k <= Len(ranges) /\ index > Minus(ranges[k].minIndex) -> ranges
  /\ UNCHANGED carried

\* Ranges that fit before the room ends, with what the next one could need.
Fits(room) ==
  LET bits[i \in 0..Len(ranges)] ==
        IF i = 0 THEN 0
        ELSE bits[i - 1] + IndexBits + 1
             + (IF ranges[i].minIndex = ranges[i].maxIndex THEN 0 ELSE IndexBits)
      fits(i) == CountBits + bits[i - 1] + 2 * IndexBits + 1 <= room
      counts == {n \in 0..Len(ranges) : \A i \in 1..n : fits(i)}
  IN CHOOSE n \in counts : \A m \in counts : m <= n

\* What was serialized leaves the list, and is what Deserialize reads.
Serialize(room) ==
  /\ ranges # <<>>
  /\ carried' = SubSeq(ranges, 1, Fits(room))
  /\ ranges' = SubSeq(ranges, Fits(room) + 1, Len(ranges))

Clear == ranges' = <<>> /\ UNCHANGED carried

Next == (\E index \in Indices : Insert(index)) \/ (\E room \in Rooms : Serialize(room)) \/ Clear

Spec == Init /\ [][Next]_vars

-----------------------------------------------------------------------------
(* What a step keeps *)

In(list) == UNION {list[i].minIndex..list[i].maxIndex : i \in DOMAIN list}

\* Numbers come in any order, again, and around the largest: the list holds
\* exactly those that were inserted and did not go out, and each datagram
\* carries at least one, none that was not received, and leaves the others.
NumbersKept ==
  /\ \A index \in Indices : Insert(index) => In(ranges') = In(ranges) \cup {index}
  /\ \A room \in Rooms : Serialize(room) =>
       /\ In(carried') # {}
       /\ In(carried') \cup In(ranges') = In(ranges)
  /\ \A i \in DOMAIN ranges' : ranges'[i].minIndex <= ranges'[i].maxIndex
=============================================================================
