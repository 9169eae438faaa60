---------------------------- MODULE CircularList ----------------------------
(***************************************************************************)
(* RakNet's doubly linked lists with a current position (DS_LinkedList.h): *)
(* CircularLinkedList, and LinkedList, whose ++ and -- stop at the ends.   *)
(***************************************************************************)
EXTENDS Integers, Sequences, FiniteSetsExt, SequencesExt

CONSTANTS
  Items,     \* numbers, so that < is defined
  MaxNodes   \* bound: nodes in the list

VARIABLES
  list,      \* root, position, list_size; next, previous and item of nodes
  circular   \* FALSE for a LinkedList

vars == <<list, circular>>

NoNode == 0
Nodes == 1..MaxNodes
Used(l) == {n \in Nodes : l.next[n] # NoNode}
New(l) == Min(Nodes \ Used(l))

Empty ==
  [root |-> NoNode, position |-> NoNode, list_size |-> 0,
   next |-> [n \in Nodes |-> NoNode], previous |-> [n \in Nodes |-> NoNode],
   item |-> [n \in Nodes |-> NoNode]]

Init == list = Empty /\ circular \in BOOLEAN

-----------------------------------------------------------------------------

\* The first node of a list.
Single(l, i) ==
  LET n == New(l) IN
  [l EXCEPT !.root = n, !.position = n, !.list_size = 1,
            !.next[n] = n, !.previous[n] = n, !.item[n] = i]

\* The second is before and behind the first.
Paired(l, i) ==
  LET n == New(l) r == l.root IN
  [l EXCEPT !.next = [@ EXCEPT ![r] = n, ![n] = r],
            !.previous = [@ EXCEPT ![r] = n, ![n] = r],
            !.item[n] = i, !.position = n, !.list_size = 2]

\* A node linked in before node p, in the order of the statements.
Before(l, p, i) ==
  LET n == New(l) IN
  [l EXCEPT !.item[n] = i,
            !.next = [@ EXCEPT ![l.previous[p]] = n, ![n] = p],
            !.previous = [@ EXCEPT ![n] = l.previous[p], ![p] = n],
            !.list_size = @ + 1]

\* Slip: a new root is not made the position.
InsertedBehindPosition(l, i) ==
  IF l.list_size = 0 THEN Single(l, i)
  ELSE LET p == Before(l, l.position, i) IN
    IF l.position = l.root THEN [p EXCEPT !.root = New(l)] ELSE p

Inserted(l, i) ==
  IF l.list_size = 0 THEN Single(l, i)
  ELSE IF l.list_size = 1
    THEN LET p == Paired(l, i) IN [p EXCEPT !.root = p.position]
  ELSE LET p == Before(l, l.position, i) IN
    IF l.position = l.root THEN [p EXCEPT !.root = New(l), !.position = New(l)] ELSE p

Added(l, i) ==
  IF l.list_size = 0 THEN Single(l, i)
  ELSE IF l.list_size = 1 THEN [Paired(l, i) EXCEPT !.position = l.root]
  ELSE Before(l, l.next[l.position], i)

Deleted(l) ==
  LET p == l.position n == l.next[p] IN
  IF l.list_size = 0 THEN l
  ELSE IF l.list_size = 1 THEN Empty
  ELSE [l EXCEPT !.next = [@ EXCEPT ![l.previous[p]] = n, ![p] = NoNode],
                 !.previous = [@ EXCEPT ![n] = l.previous[p], ![p] = NoNode],
                 !.item[p] = NoNode,
                 !.root = IF p = @ THEN n ELSE @,
                 !.position = n, !.list_size = @ - 1]

Stepped(l) ==
  IF l.list_size = 0 \/ (~circular /\ l.next[l.position] = l.root) THEN l
  ELSE [l EXCEPT !.position = l.next[@]]
SteppedBack(l) ==
  IF l.list_size = 0 \/ (~circular /\ l.position = l.root) THEN l
  ELSE [l EXCEPT !.position = l.previous[@]]

\* The nodes from the root on.
Walk(l) ==
  LET node[k \in 1..l.list_size] == IF k = 1 THEN l.root ELSE l.next[node[k - 1]]
  IN [k \in 1..l.list_size |-> node[k]]
Contents(l) == [k \in DOMAIN Walk(l) |-> l.item[Walk(l)[k]]]
At(l) == IF l.list_size = 0 THEN 0 ELSE CHOOSE k \in 1..l.list_size : Walk(l)[k] = l.position

\* New nodes for the items, in their order.
Copied(items, at) ==
  LET n == Len(items) IN
  IF n = 0 THEN Empty
  ELSE [root |-> 1, position |-> at, list_size |-> n,
        next |-> [k \in Nodes |-> IF k < n THEN k + 1 ELSE IF k = n THEN 1 ELSE NoNode],
        previous |-> [k \in Nodes |-> IF k = 1 THEN n ELSE IF k <= n THEN k - 1 ELSE NoNode],
        item |-> [k \in Nodes |-> IF k <= n THEN items[k] ELSE NoNode]]

-----------------------------------------------------------------------------

Insert(i) == list.list_size < MaxNodes /\ list' = Inserted(list, i)
Add(i) == list.list_size < MaxNodes /\ list' = Added(list, i)
Replace(i) == list.list_size > 0 /\ list' = [list EXCEPT !.item[list.position] = i]
Del == list' = Deleted(list)
Beginning == list.root # NoNode /\ list' = [list EXCEPT !.position = list.root]
End == list.root # NoNode /\ list' = [list EXCEPT !.position = list.previous[list.root]]
Forward == list' = Stepped(list)
Back == list' = SteppedBack(list)
Clear == list' = Empty

\* FindPointer goes from the root to the first node with the item.
Find(i) ==
  \E k \in 1..list.list_size :
    /\ list.item[Walk(list)[k]] = i
    /\ \A j \in 1..(k - 1) : list.item[Walk(list)[j]] # i
    /\ list' = [list EXCEPT !.position = Walk(list)[k]]

\* The list is assigned to another one, which takes its place.
Assign == list' = Copied(Contents(list), At(list))

\* Concatenate with a copy of itself: from the end of the list each item is
\* added behind the position, which moves on.
Concatenate ==
  /\ list.list_size \in 1..(MaxNodes \div 2)
  /\ LET items == Contents(list)
         joined[k \in 0..Len(items)] ==
           IF k = 0 THEN [list EXCEPT !.position = list.previous[list.root]]
           ELSE LET l == Added(joined[k - 1], items[k]) IN [l EXCEPT !.position = l.next[@]]
     IN list' = joined[Len(items)]

\* The items in the order in which Add leaves them when the position stays on
\* the first: the others in reverse.
HalfOf(s) == IF s = <<>> THEN s ELSE <<Head(s)>> \o Reverse(Tail(s))

\* The smaller of the two first items goes first, of two equal ones that of
\* the second list, until one list is empty.
Merge(s, t) ==
  LET place[i \in 0..Len(s), j \in 0..Len(t)] ==
        IF i = Len(s) THEN SubSeq(t, j + 1, Len(t))
        ELSE IF j = Len(t) THEN SubSeq(s, i + 1, Len(s))
        ELSE IF s[i + 1] < t[j + 1] THEN <<s[i + 1]>> \o place[i + 1, j]
        ELSE <<t[j + 1]>> \o place[i, j + 1]
  IN place[0, 0]

\* Mergesort of a list of at most MaxNodes items.
Mergesort(s) ==
  LET sorted[t \in SeqOf(Items, MaxNodes)] ==
        LET half == Len(t) \div 2
            first == HalfOf(SubSeq(t, 1, half))
            second == HalfOf(SubSeq(t, half + 1, Len(t)))
        IN Merge(IF Len(first) > 1 THEN sorted[first] ELSE first,
                 IF Len(second) > 1 THEN sorted[second] ELSE second)
  IN sorted[s]

Sort == list.list_size > 1 /\ list' = Copied(Mergesort(Contents(list)), 1)

Next ==
  /\ \/ \E i \in Items : Insert(i) \/ Add(i) \/ Replace(i) \/ Find(i)
     \/ Del \/ Beginning \/ End \/ Forward \/ Back \/ Clear
     \/ Assign \/ Concatenate \/ Sort
  /\ UNCHANGED circular

Spec == Init /\ [][Next]_vars

-----------------------------------------------------------------------------
(* Properties *)

\* Going back from the root gives the items in reverse, and no node is lost.
LinksAgree(l) ==
  /\ Cardinality(Used(l)) = l.list_size
  /\ \A n \in Used(l) : l.previous[l.next[n]] = n /\ l.next[l.previous[n]] = n
  /\ l.list_size > 0 => {l.root, l.position} \subseteq Used(l)

Around(k, n) == IF k > n THEN 1 ELSE IF k < 1 THEN n ELSE k
Within(k, n) == IF k > n THEN n ELSE IF k < 1 THEN 1 ELSE k

\* Each operation does to the items what its name says, the position stays
\* on its item or goes where the comments in the header say, and the links
\* agree in both directions.
SequenceKept ==
  LET s == Contents(list) t == Contents(list') p == At(list) q == At(list') IN
  /\ LinksAgree(list')
  /\ \A i \in Items :
       /\ Insert(i) => /\ t = InsertAt(s, IF s = <<>> THEN 1 ELSE p, i)
                       /\ q = IF p <= 1 THEN 1 ELSE p + 1
       /\ Add(i) => t = InsertAt(s, p + 1, i) /\ q = IF s = <<>> THEN 1 ELSE p
       /\ Replace(i) => t = ReplaceAt(s, p, i) /\ q = p
       /\ Find(i) => t = s /\ s[q] = i /\ \A k \in 1..(q - 1) : s[k] # i
  /\ Del /\ s # <<>> =>
       t = RemoveAt(s, p) /\ q = IF t = <<>> THEN 0 ELSE Around(p, Len(t))
  /\ Forward /\ s # <<>> =>
       t = s /\ q = IF circular THEN Around(p + 1, Len(s)) ELSE Within(p + 1, Len(s))
  /\ Back /\ s # <<>> =>
       t = s /\ q = IF circular THEN Around(p - 1, Len(s)) ELSE Within(p - 1, Len(s))
  /\ Assign => t = s /\ q = p
  /\ Concatenate => t = s \o s
  /\ Sort => t = SortSeq(s, <)
KeepsSequence == [][SequenceKept]_vars
=============================================================================
