----------------------------- MODULE RingQueue -----------------------------
(***************************************************************************)
(* RakNet's queue in a ring of memory (DS_Queue.h), which holds the        *)
(* packets for Receive, the connection attempts and every queue of the     *)
(* reliability layer.                                                      *)
(***************************************************************************)
EXTENDS Naturals, Sequences, SequencesExt

CONSTANTS
  Values,
  FirstSize,   \* 16: elements of the first array
  KeptSize,    \* 32: the longest array that Clear keeps
  ForcedSizes, \* bound: arguments of ClearAndForceAllocation
  MaxSize      \* bound: elements in the queue

QueueAssumption ==
  /\ FirstSize \in Nat \ {0, 1} /\ KeptSize \in Nat /\ ForcedSizes \subseteq Nat
  /\ MaxSize \in Nat /\ \A n \in 0..MaxSize : 2^n \in Nat

VARIABLE queue   \* array, head, tail and allocation_size

Cells(n) == 0..(n - 1)
\* What lies in a cell that holds no element.
Junk == 0

Blank(n) == [array |-> [i \in Cells(n) |-> Junk], head |-> 0, tail |-> 0, size |-> n]

Size(q) == IF q.head <= q.tail THEN q.tail - q.head ELSE q.size - q.head + q.tail
\* operator[]
Cell(q, k) == IF q.head + k >= q.size THEN q.head + k - q.size ELSE q.head + k
Element(q, k) == q.array[Cell(q, k)]

\* The cells that hold no element are not told apart.
Held(q) ==
  LET held == {Cell(q, k) : k \in Cells(Size(q))}
  IN [q EXCEPT !.array = [i \in DOMAIN q.array |-> IF i \in held THEN q.array[i] ELSE Junk]]

\* A new array of n cells with the same elements from its beginning.
Moved(q, n) ==
  [Blank(n) EXCEPT !.array = [i \in Cells(n) |-> IF i < Size(q) THEN q.array[(q.head + i) % q.size]
                                                ELSE Junk],
                   !.tail = Size(q)]

Init == queue = Blank(FirstSize)

-----------------------------------------------------------------------------

Stored(q, v) == [q EXCEPT !.array[q.tail] = v, !.tail = IF @ + 1 = q.size THEN 0 ELSE @ + 1]

\* A ring that is full is moved to one of twice the size; tail and head are
\* equal then, and the elements are all of the old one.
Doubled(q) ==
  [array |-> [i \in Cells(2 * q.size) |->
                IF i < q.size THEN q.array[(q.head + i) % q.size] ELSE Junk],
   head |-> 0, tail |-> q.size, size |-> 2 * q.size]

Pushed(q, v) ==
  IF q.size = 0 THEN Stored(Blank(FirstSize), v)
  ELSE LET p == Stored(q, v) IN IF p.tail = p.head THEN Doubled(p) ELSE p

Push(v) == Size(queue) < MaxSize /\ queue' = Pushed(queue, v)

\* Slip: the element at the index stays where it is.
PushBehind(v, index) ==
  /\ Size(queue) < MaxSize /\ index <= Size(queue)
  /\ LET p == Pushed(queue, v)
         last == Size(p) - 1
         moved == {k \in 1..last : k > index + 1}
     IN queue' = IF Size(p) = 1 THEN p
                 ELSE [p EXCEPT !.array = [i \in DOMAIN p.array |->
                         IF i = Cell(p, index) THEN v
                         ELSE IF \E k \in moved : i = Cell(p, k)
                              THEN Element(p, (CHOOSE k \in moved : i = Cell(p, k)) - 1)
                              ELSE p.array[i]]]

\* Push, then everything from index on moves up by one.
PushAtHead(v, index) ==
  /\ Size(queue) < MaxSize /\ index <= Size(queue)
  /\ LET p == Pushed(queue, v)
         last == Size(p) - 1
         moved == {k \in 1..last : k > index}
     IN queue' = IF Size(p) = 1 THEN p
                 ELSE [p EXCEPT !.array = [i \in DOMAIN p.array |->
                         IF i = Cell(p, index) THEN v
                         ELSE IF \E k \in moved : i = Cell(p, k)
                              THEN Element(p, (CHOOSE k \in moved : i = Cell(p, k)) - 1)
                              ELSE p.array[i]]]

After(q) == IF q.head + 1 = q.size THEN 0 ELSE q.head + 1
Popped(q) == q.array[IF After(q) = 0 THEN q.size - 1 ELSE After(q) - 1]

Pop ==
  /\ queue.head # queue.tail
  /\ queue' = Held([queue EXCEPT !.head = After(queue)])

RemoveAtIndex(position) ==
  /\ queue.head # queue.tail /\ position < Size(queue)
  /\ LET moved == {k \in Cells(Size(queue) - 1) : k >= position} IN
       queue' = Held([queue EXCEPT
         !.array = [i \in DOMAIN queue.array |->
                      IF \E k \in moved : i = Cell(queue, k)
                      THEN Element(queue, (CHOOSE k \in moved : i = Cell(queue, k)) + 1)
                      ELSE queue.array[i]],
         !.tail = IF @ = 0 THEN queue.size - 1 ELSE @ - 1])

Cleared(q) ==
  IF q.size = 0 THEN q ELSE IF q.size > KeptSize THEN Blank(0) ELSE Blank(q.size)

Clear == queue' = Cleared(queue)

\* Never called where there is no array: it would be freed twice.
ClearAndForceAllocation(size) == queue.size # 0 /\ queue' = Blank(size)

\* The smallest power of two above the number of elements.
Compress ==
  /\ queue.size # 0
  /\ \E n \in 0..MaxSize :
       /\ 2^n > Size(queue) /\ \A k \in 0..MaxSize : 2^k > Size(queue) => n <= k
       /\ queue' = Moved(queue, 2^n)

\* A new queue takes the elements over by operator=.
Assign == queue' = IF Size(queue) = 0 THEN Blank(0) ELSE Moved(queue, Size(queue) + 1)

Next ==
  \/ \E v \in Values : Push(v) \/ \E index \in 0..MaxSize : PushAtHead(v, index)
  \/ \E position \in Cells(MaxSize) : RemoveAtIndex(position)
  \/ \E size \in ForcedSizes : ClearAndForceAllocation(size)
  \/ Pop \/ Clear \/ Compress \/ Assign

Spec == Init /\ [][Next]_queue

-----------------------------------------------------------------------------
(* Properties *)

\* The elements that Find goes through, one cell after the other.
Contents(q) ==
  LET length == CHOOSE n \in 0..q.size :
                  \/ n = 0 /\ q.head = q.tail
                  \/ n # 0 /\ q.head # q.tail /\ (q.head + n) % q.size = q.tail
  IN [k \in 1..length |-> q.array[(q.head + k - 1) % q.size]]

\* What is read agrees with it: Size, operator[], Peek and PeekTail.
Agrees(q) ==
  LET s == Contents(q) IN
  /\ Size(q) = Len(s)
  /\ \A k \in 1..Len(s) : Element(q, k - 1) = s[k]
  /\ s # <<>> => /\ q.array[q.head] = Head(s)
                 /\ q.array[IF q.tail # 0 THEN q.tail - 1 ELSE q.size - 1] = Last(s)
  /\ q.size # 0 => q.tail \in Cells(q.size)

\* Wherever the ring begins and however often it grew, shrank or was copied,
\* each operation does to the elements what its name says, and reads see it.
SequenceKept ==
  LET s == Contents(queue) t == Contents(queue') IN
  /\ Agrees(queue')
  /\ \A v \in Values : Push(v) => t = Append(s, v)
  /\ \A v \in Values, i \in 0..Len(s) : PushAtHead(v, i) => t = InsertAt(s, i + 1, v)
  /\ \A i \in 1..Len(s) : RemoveAtIndex(i - 1) => t = RemoveAt(s, i)
  /\ Pop => t = Tail(s) /\ Popped(queue) = Head(s)
  /\ Compress \/ Assign => t = s
  /\ Clear => t = <<>>
KeepsSequence == [][SequenceKept]_queue
=============================================================================
