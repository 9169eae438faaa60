----------------------------- MODULE OrderProofs -----------------------------
(***************************************************************************)
(* The ordered channels of the reliability layer implement OrderedStream.  *)
(*                                                                         *)
(* An index is as good as a place in the line of its channel: every index  *)
(* below the next one was given to exactly one message (WriteFits), and    *)
(* every index below the one a channel waits for belongs to exactly one    *)
(* delivered message, in order (OrderFits).  So what was sent and what     *)
(* came out are the beginnings of one line (LinesAgree), and a step adds   *)
(* to the one or the other.                                                *)
(***************************************************************************)
EXTENDS ReliabilityProofs

-----------------------------------------------------------------------------
(* What is picked from a sequence keeps its order *)

\* What Picked has picked up to each place.
Picks(u, S, s, places) ==
  /\ u[0] = <<>> /\ Picked(s, places) = u[Len(s)]
  /\ \A i \in 0..Len(s) : u[i] \in Seq(S)
  /\ \A i \in 1..Len(s) : u[i] = IF i \in places THEN Append(u[i - 1], s[i]) ELSE u[i - 1]

LEMMA PickedSteps ==
  ASSUME NEW S, NEW s \in Seq(S), NEW places
  PROVE  \E u : Picks(u, S, s, places)
<1> DEFINE V == Seq(S)
           n == Len(s)
           Add(i, t) == IF i \in places THEN Append(t, s[i]) ELSE t
           step == [i \in 1..n |-> [t \in V |-> Add(i, t)]]
           upTo[i \in 0..n] == IF i = 0 THEN <<>>
                               ELSE IF i \in places THEN Append(upTo[i - 1], s[i]) ELSE upTo[i - 1]
<1>1. n \in Nat /\ <<>> \in V
  OBVIOUS
<1>2. \A i \in 1..n : \A t \in V : Add(i, t) \in V
  OBVIOUS
<1> HIDE DEF V, Add, n
<1>3. step \in [1..n -> [V -> V]]
  BY <1>2
<1>4. \A i \in 1..n : \A t \in V : step[i][t] = Add(i, t)
  OBVIOUS
<1> HIDE DEF step
<1>5. PICK f : IsChain(f, n, V, <<>>, step)
  BY <1>1, <1>3, Chain
<1>6. \A i \in 1..n : f[i - 1] \in V /\ f[i] = Add(i, f[i - 1])
  BY <1>1, <1>4, <1>5 DEF IsChain
<1>7. f = [i \in 0..n |-> IF i = 0 THEN <<>>
                           ELSE IF i \in places THEN Append(f[i - 1], s[i]) ELSE f[i - 1]]
  <2>1. ASSUME NEW i \in 0..n
        PROVE  f[i] = IF i = 0 THEN <<>>
                      ELSE IF i \in places THEN Append(f[i - 1], s[i]) ELSE f[i - 1]
    <3>1. CASE i = 0  BY <3>1, <1>5 DEF IsChain
    <3>2. CASE i \in 1..n  BY <3>2, <1>6 DEF Add
    <3> QED  BY <3>1, <3>2, <1>1
  <2> QED  BY <2>1, <1>5 DEF IsChain
<1>8. upTo = [i \in 0..n |-> IF i = 0 THEN <<>>
                           ELSE IF i \in places THEN Append(upTo[i - 1], s[i]) ELSE upTo[i - 1]]
  BY <1>7
<1> HIDE DEF upTo
<1>9. upTo[0] = <<>>
  BY <1>1, <1>8
<1>10. ASSUME NEW i \in 1..n PROVE upTo[i] = Add(i, upTo[i - 1])
  <2>1. i \in 0..n /\ i # 0
    BY <1>1
  <2> QED  BY <2>1, <1>8 DEF Add
<1>11. \A k \in 0..n : upTo[k] \in V
  <2> DEFINE T == {k \in 0..n : upTo[k] \notin V}
  <2>1. SUFFICES ASSUME T # {} PROVE FALSE
    BY <2>1
  <2>2. PICK k \in T : \A j \in T : k <= j
    BY <2>1, <1>1, Least, T \subseteq Nat
  <2>3. k # 0
    BY <2>2, <1>9, <1>1
  <2>4. k \in 1..n /\ upTo[k - 1] \in V
    BY <2>2, <2>3, <1>1
  <2> QED  BY <2>2, <2>4, <1>2, <1>10
<1>12. Picked(s, places) = upTo[n]
  BY DEF Picked, upTo, n
<1>13. Picks(upTo, S, s, places)
  BY <1>9, <1>10, <1>11, <1>12 DEF Picks, Add, V, n
<1> QED  BY <1>13

\* f leads from the places of t to those of s that were picked, in order.
Leads(f, t, s, n, places) ==
  /\ f \in [1..Len(t) -> 1..n]
  /\ \A i \in 1..Len(t) : f[i] \in places /\ t[i] = s[f[i]]
  /\ \A i, j \in 1..Len(t) : i < j => f[i] < f[j]
  /\ \A j \in 1..n : j \in places => \E i \in 1..Len(t) : f[i] = j

\* What is picked keeps its order.
LEMMA PickedInOrder ==
  ASSUME NEW S, NEW s \in Seq(S), NEW places
  PROVE  /\ Picked(s, places) \in Seq(S)
         /\ \E f : Leads(f, Picked(s, places), s, Len(s), places)
<1> DEFINE n == Len(s)
           All(u, k) == \E f : Leads(f, u[k], s, k, places)
<1>0. PICK u : Picks(u, S, s, places)
  BY PickedSteps
<1>1. /\ u[0] = <<>> /\ Picked(s, places) = u[n]
      /\ \A i \in 0..n : u[i] \in Seq(S)
      /\ \A i \in 1..n : u[i] = IF i \in places THEN Append(u[i - 1], s[i]) ELSE u[i - 1]
  BY <1>0 DEF Picks
<1>2. n \in Nat
  OBVIOUS
<1>3. ASSUME NEW k \in 1..n, NEW f, Leads(f, u[k - 1], s, k - 1, places) PROVE All(u, k)
  <2> DEFINE t == u[k - 1]  m == Len(t) + 1
  <2>1. k - 1 \in 0..n /\ k \in Nat /\ s[k] \in S
    BY <1>2, ElementOfSeq
  <2>2. t \in Seq(S) /\ Len(t) \in Nat
    BY <2>1, <1>1
  <2>3. u[k] = IF k \in places THEN Append(t, s[k]) ELSE t
    BY <1>1
  <2>4. /\ f \in [1..Len(t) -> 1..(k - 1)]
        /\ \A i \in 1..Len(t) : f[i] \in places /\ t[i] = s[f[i]]
        /\ \A i, j \in 1..Len(t) : i < j => f[i] < f[j]
        /\ \A j \in 1..(k - 1) : j \in places => \E i \in 1..Len(t) : f[i] = j
    BY <1>3 DEF Leads
  <2> HIDE DEF t, n
  <2>5. CASE k \in places
    <3> DEFINE g == [i \in 1..m |-> IF i = m THEN k ELSE f[i]]
               v == Append(t, s[k])
    <3>1. /\ Len(v) = m /\ v[m] = s[k] /\ \A i \in 1..Len(t) : v[i] = t[i]
      BY <2>1, <2>2, AppendProperties
    <3>2. \A i \in 1..m : i = m \/ (i # m /\ i \in 1..Len(t))
      BY <2>2
    <3>3. /\ \A i \in 1..Len(t) : /\ f[i] \in 1..k /\ f[i] < k /\ f[i] \in Int
                                  /\ i \in 1..m /\ i # m /\ g[i] = f[i]
          /\ m \in 1..m /\ g[m] = k /\ k \in 1..k
      <4>1. \A i \in 1..Len(t) : f[i] \in 1..(k - 1)
        BY <2>4
      <4>2. \A i \in 1..Len(t) : f[i] \in 1..k /\ f[i] < k /\ f[i] \in Int
        BY <4>1, <2>1
      <4>3. \A i \in 1..Len(t) : i \in 1..m /\ i # m
        BY <2>2
      <4>4. m \in 1..m /\ k \in 1..k
        BY <2>1, <2>2
      <4> QED  BY <4>2, <4>3, <4>4
    <3>4. g \in [1..m -> 1..k]
      BY <3>2, <3>3
    <3> HIDE DEF g, v
    <3>5. \A i \in 1..m : g[i] \in places /\ v[i] = s[g[i]]
      BY <3>1, <3>2, <3>3, <2>4, <2>5
    <3>6. ASSUME NEW i \in 1..m, NEW j \in 1..m, i < j PROVE g[i] < g[j]
      <4>1. i \in 1..Len(t)
        BY <3>2, <3>6, <2>2
      <4> QED  BY <4>1, <3>2, <3>3, <3>6, <2>4
    <3>7. ASSUME NEW j \in 1..k, j \in places PROVE \E i \in 1..m : g[i] = j
      <4>1. j = k \/ j \in 1..(k - 1)
        BY <2>1
      <4> QED  BY <4>1, <3>3, <3>7, <2>4
    <3>8. Leads(g, v, s, k, places)
      BY <3>1, <3>4, <3>5, <3>6, <3>7 DEF Leads
    <3> QED  BY <3>8, <2>3, <2>5 DEF v
  <2>6. CASE k \notin places
    <3>1. \A j \in 1..k : j = k \/ j \in 1..(k - 1)
      BY <2>1
    <3>2. \A i \in 1..Len(t) : f[i] \in 1..k
      BY <2>1, <2>4
    <3>3. f \in [1..Len(t) -> 1..k]
      BY <3>2, <2>4
    <3>4. Leads(f, t, s, k, places)
      BY <3>1, <3>3, <2>4, <2>6 DEF Leads
    <3> QED  BY <3>4, <2>3, <2>6
  <2> QED  BY <2>5, <2>6
<1>4. All(u, 0)
  <2>1. Len(u[0]) = 0 /\ 1..0 = {}
    BY <1>1
  <2> DEFINE f == [i \in 1..0 |-> 0]
  <2>2. Leads(f, u[0], s, 0, places)
    BY <2>1 DEF Leads
  <2> QED  BY <2>2
<1> HIDE DEF n
<1>5. All(u, n)
  <2> DEFINE T == {k \in 0..n : ~All(u, k)}
  <2> HIDE DEF All
  <2>1. SUFFICES T = {}
    BY <2>1, <1>2
  <2>2. SUFFICES ASSUME T # {} PROVE FALSE
    BY <2>2
  <2>3. PICK k \in T : \A j \in T : k <= j
    BY <2>2, <1>2, Least, T \subseteq Nat
  <2>4. k # 0
    BY <2>3, <1>4
  <2>5. k \in 1..n /\ k - 1 \in 0..n /\ All(u, k - 1)
    BY <2>3, <2>4, <1>2
  <2> QED  BY <2>3, <2>5, <1>3 DEF All
<1>6. n \in 0..n /\ u[n] \in Seq(S)
  BY <1>1, <1>2
<1> QED  BY <1>1, <1>5, <1>6 DEF n

\* g goes up from place to place, to n at most, and leaves nothing out.
Climbs(g, l, n) ==
  /\ g \in [1..l -> Nat]
  /\ \A i, j \in 1..l : i < j => g[i] < g[j]
  /\ \A i \in 1..l : g[i] < n
  /\ \A t \in 0..(n - 1) : \E i \in 1..l : g[i] = t

\* What climbs to n without a gap counts from 0 to n - 1.
LEMMA CountsUp ==
  ASSUME NEW l \in Nat, NEW n \in Nat, NEW g, Climbs(g, l, n)
  PROVE  l = n /\ \A i \in 1..l : g[i] = i - 1
<1> USE DEF Climbs
<1> DEFINE T == {i \in 1..l : g[i] # i - 1}
<1>1. T = {}
  <2>1. SUFFICES ASSUME T # {} PROVE FALSE
    BY <2>1
  <2>2. PICK i \in T : \A j \in T : i <= j
    BY <2>1, Least, T \subseteq Nat
  <2>3. i \in 1..l /\ g[i] \in Nat /\ g[i] # i - 1
    BY <2>2
  <2>4. \A j \in 1..l : j < i => g[j] = j - 1
    BY <2>2
  <2>5. g[i] > i - 1
    <3>1. CASE i = 1
      BY <3>1, <2>3
    <3>2. CASE i # 1
      <4>1. i - 1 \in 1..l /\ i - 1 < i
        BY <3>2, <2>3
      <4>2. g[i - 1] = (i - 1) - 1 /\ g[i - 1] < g[i]
        BY <4>1, <2>3, <2>4
      <4> QED  BY <4>2, <2>3
    <3> QED  BY <3>1, <3>2
  <2>6. i - 1 \in 0..(n - 1)
    BY <2>3, <2>5
  <2>7. PICK k \in 1..l : g[k] = i - 1
    BY <2>6
  <2>8. CASE k < i
    BY <2>3, <2>4, <2>7, <2>8
  <2>9. CASE k = i
    BY <2>3, <2>7, <2>9
  <2>10. CASE i < k
    <3>1. g[i] < g[k]
      BY <2>3, <2>10
    <3> QED  BY <3>1, <2>3, <2>5, <2>7
  <2> QED  BY <2>3, <2>8, <2>9, <2>10
<1>2. \A i \in 1..l : g[i] = i - 1
  BY <1>1
<1>3. ~(l < n)
  <2> SUFFICES ASSUME l < n PROVE FALSE
    OBVIOUS
  <2>1. l \in 0..(n - 1)
    OBVIOUS
  <2>2. PICK k \in 1..l : g[k] = l
    BY <2>1
  <2> QED  BY <2>2, <1>2
<1>4. ~(n < l)
  <2> SUFFICES ASSUME n < l PROVE FALSE
    OBVIOUS
  <2>1. l \in 1..l
    OBVIOUS
  <2>2. g[l] = l - 1 /\ g[l] < n
    BY <2>1, <1>2
  <2> QED  BY <2>2
<1> QED  BY <1>2, <1>3, <1>4

-----------------------------------------------------------------------------
(* The lines of a channel *)

\* The ordered messages of a channel, and their places in its line.
InLine(i, c) == asked[i].as = "RELIABLE_ORDERED" /\ asked[i].ch = c
TurnOf(i) == Turn(asked[i].ord)

\* The first n ordered messages of channel c.
IsLine(l, c, n) ==
  /\ l \in Seq(1..Len(asked)) /\ Len(l) = n
  /\ \A k \in 1..n : InLine(l[k], c) /\ TurnOf(l[k]) = k - 1

\* A sequence that has every message of a channel up to the n-th, in order, has the
\* channel's line in it.
LEMMA LineIs ==
  ASSUME AskedTypes, course \in Courses, NEW s \in Seq(1..Len(asked)), NEW c \in Channels, NEW n \in Nat,
         \A i \in 1..Len(s) : InLine(s[i], c) => TurnOf(s[i]) < n,
         \A t \in 0..(n - 1) : \E i \in 1..Len(s) : InLine(s[i], c) /\ TurnOf(s[i]) = t,
         \A i, j \in 1..Len(s) :
           i < j /\ InLine(s[i], c) /\ InLine(s[j], c) => TurnOf(s[i]) < TurnOf(s[j])
  PROVE  IsLine(OfChannels(s)[c], c, n)
<1> DEFINE places == {i \in DOMAIN s : InLine(s[i], c)}  l == Picked(s, places)
<1>1. OfChannels(s)[c] = l
  BY DEF OfChannels, InLine
<1>2. DOMAIN s = 1..Len(s) /\ Len(s) \in Nat /\ \A i \in 1..Len(s) : s[i] \in 1..Len(asked)
  OBVIOUS
<1>3. \A i \in 1..Len(s) : i \in places <=> InLine(s[i], c)
  BY <1>2
<1> HIDE DEF places, l
<1>4. l \in Seq(1..Len(asked)) /\ \E f : Leads(f, l, s, Len(s), places)
  BY PickedInOrder DEF l
<1>5. PICK f : Leads(f, l, s, Len(s), places)
  BY <1>4
<1>6. Len(l) \in Nat
  BY <1>4
<1> DEFINE g == [i \in 1..Len(l) |-> TurnOf(l[i])]
<1>7. \A i \in 1..Len(l) : /\ f[i] \in 1..Len(s) /\ l[i] = s[f[i]] /\ InLine(l[i], c)
                           /\ TurnOf(l[i]) < n
  BY <1>3, <1>5 DEF Leads
<1>8. \A i \in 1..Len(s) : TurnOf(s[i]) \in Nat
  <2> TAKE i \in 1..Len(s)
  <2>1. asked[s[i]] \in AskedRecord
    BY <1>2, ElementOfSeq DEF AskedTypes
  <2>2. asked[s[i]].ord \in Orders
    BY <2>1 DEF AskedRecord
  <2> QED  BY <2>2, TurnIs DEF TurnOf
<1>9. g \in [1..Len(l) -> Nat] /\ \A i \in 1..Len(l) : g[i] = TurnOf(l[i])
  BY <1>7, <1>8
<1> HIDE DEF g
<1>10. ASSUME NEW i \in 1..Len(l), NEW j \in 1..Len(l), i < j PROVE g[i] < g[j]
  <2>1. f[i] < f[j]
    BY <1>5, <1>10 DEF Leads
  <2>2. \A a, b \in 1..Len(s) :
          a < b /\ InLine(s[a], c) /\ InLine(s[b], c) => TurnOf(s[a]) < TurnOf(s[b])
    OBVIOUS
  <2>3. TurnOf(s[f[i]]) < TurnOf(s[f[j]])
    BY <2>1, <2>2, <1>7
  <2> QED  BY <2>3, <1>7, <1>9
<1>11. ASSUME NEW t \in 0..(n - 1) PROVE \E i \in 1..Len(l) : g[i] = t
  <2>1. PICK j \in 1..Len(s) : InLine(s[j], c) /\ TurnOf(s[j]) = t
    OBVIOUS
  <2>2. PICK i \in 1..Len(l) : f[i] = j
    BY <2>1, <1>3, <1>5 DEF Leads
  <2> QED  BY <2>1, <2>2, <1>7, <1>9
<1>12. Len(l) = n /\ \A i \in 1..Len(l) : g[i] = i - 1
  <2>1. \A i \in 1..Len(l) : g[i] < n
    BY <1>7, <1>9
  <2>2. \A i, j \in 1..Len(l) : i < j => g[i] < g[j]
    BY <1>10
  <2>3. \A t \in 0..(n - 1) : \E i \in 1..Len(l) : g[i] = t
    BY <1>11
  <2>4. Climbs(g, Len(l), n)
    BY <2>1, <2>2, <2>3, <1>9 DEF Climbs
  <2> QED  BY <2>4, <1>6, CountsUp
<1> QED  BY <1>1, <1>4, <1>7, <1>9, <1>12 DEF IsLine

\* Every index below the next one was given to a message.
WriteFits ==
  \A c \in Channels : \A t \in 0..(Turn(snd.ordWrite[c]) - 1) :
    \E i \in 1..Len(asked) : InLine(i, c) /\ TurnOf(i) = t

\* What is delivered of channel c.
IsOf(e, c) == e.rel = "RELIABLE_ORDERED" /\ e.ch = c

\* A channel delivered everything before what it waits for, in order.
OrderFits(r) ==
  LET out == r.outputQueue IN
  \A c \in Channels :
    /\ Turn(r.ordRead[c]) <= Len(asked)
    /\ \A i \in 1..Len(out) : IsOf(out[i], c) => Turn(out[i].ord) < Turn(r.ordRead[c])
    /\ \A t \in 0..(Turn(r.ordRead[c]) - 1) :
         \E i \in 1..Len(out) : IsOf(out[i], c) /\ Turn(out[i].ord) = t
    /\ \A i, j \in 1..Len(out) :
         i < j /\ IsOf(out[i], c) /\ IsOf(out[j], c) => Turn(out[i].ord) < Turn(out[j].ord)

\* What was sent on a channel, and what came out, are the first of its line.
LinesFit ==
  \A c \in Channels :
    /\ IsLine(OfChannels([i \in DOMAIN asked |-> i])[c], c, Turn(snd.ordWrite[c]))
    /\ IsLine(OfChannels(Delivered)[c], c, Turn(rcv.ordRead[c]))

\* What was asked and what was delivered have the lines of their indices.
LEMMA LinesAre ==
  ASSUME SenderTypes, IndicesFit, WriteFits, ReceiverTypes(rcv), OutputFits(rcv), OrderFits(rcv)
  PROVE  LinesFit
<1> SUFFICES ASSUME NEW c \in Channels
             PROVE  /\ IsLine(OfChannels([i \in DOMAIN asked |-> i])[c], c, Turn(snd.ordWrite[c]))
                    /\ IsLine(OfChannels(Delivered)[c], c, Turn(rcv.ordRead[c]))
  BY DEF LinesFit
<1>1. /\ asked \in Seq(AskedRecord) /\ AskedTypes /\ course \in Courses /\ Len(asked) \in Nat
      /\ DOMAIN asked = 1..Len(asked)
  BY DEF SenderTypes, AskedTypes
<1>2. snd.ordWrite[c] \in Orders /\ rcv.ordRead[c] \in Orders
  BY DEF SenderTypes, SenderRecord, ReceiverTypes, Receivers
<1>3. Turn(snd.ordWrite[c]) \in Nat /\ Turn(rcv.ordRead[c]) \in Nat
  BY <1>1, <1>2, TurnIs
<1>4. ASSUME NEW i \in 1..Len(asked), InLine(i, c)
      PROVE  asked[i].as \in Indexed /\ NextIndex(asked[i]) = snd.ordWrite[c]
  BY <1>4 DEF InLine, Indexed, Sequenced, NextIndex
<1>5. IsLine(OfChannels([i \in DOMAIN asked |-> i])[c], c, Turn(snd.ordWrite[c]))
  <2> DEFINE s == [i \in DOMAIN asked |-> i]
  <2>1. s \in Seq(1..Len(asked)) /\ Len(s) = Len(asked) /\ \A i \in 1..Len(asked) : s[i] = i
    BY <1>1
  <2> HIDE DEF s
  <2>2. \A i \in 1..Len(asked) : InLine(i, c) => TurnOf(i) < Turn(snd.ordWrite[c])
    BY <1>4 DEF IndicesFit, TurnOf
  <2>3. \A t \in 0..(Turn(snd.ordWrite[c]) - 1) : \E i \in 1..Len(asked) : InLine(i, c) /\ TurnOf(i) = t
    BY DEF WriteFits
  <2>4. \A i, j \in 1..Len(asked) : i < j /\ InLine(i, c) /\ InLine(j, c) => TurnOf(i) < TurnOf(j)
    <3> SUFFICES ASSUME NEW i \in 1..Len(asked), NEW j \in 1..Len(asked), i < j,
                        InLine(i, c), InLine(j, c)
                 PROVE  TurnOf(i) < TurnOf(j)
      OBVIOUS
    <3>1. SameLine(asked[i], asked[j])
      BY DEF SameLine, InLine
    <3> QED  BY <3>1, <1>4 DEF IndicesFit, TurnOf
  <2>5. /\ \A i \in 1..Len(s) : InLine(s[i], c) => TurnOf(s[i]) < Turn(snd.ordWrite[c])
        /\ \A t \in 0..(Turn(snd.ordWrite[c]) - 1) :
             \E i \in 1..Len(s) : InLine(s[i], c) /\ TurnOf(s[i]) = t
        /\ \A i, j \in 1..Len(s) :
             i < j /\ InLine(s[i], c) /\ InLine(s[j], c) => TurnOf(s[i]) < TurnOf(s[j])
    BY <2>1, <2>2, <2>3, <2>4
  <2>6. IsLine(OfChannels(s)[c], c, Turn(snd.ordWrite[c]))
    BY <2>1, <2>5, <1>1, <1>3, LineIs
  <2> QED  BY <2>6 DEF s
<1>6. IsLine(OfChannels(Delivered)[c], c, Turn(rcv.ordRead[c]))
  <2> DEFINE out == rcv.outputQueue  s == Delivered
  <2>1. out \in Seq(Entry) /\ Len(out) \in Nat /\ DOMAIN out = 1..Len(out)
    BY DEF ReceiverTypes, Receivers
  <2>2. \A i \in 1..Len(out) : /\ s[i] = out[i].parts[1] /\ s[i] \in 1..Len(asked)
                               /\ Labelled(out[i], asked[s[i]])
    BY <2>1 DEF Delivered, OutputFits, IsWhole
  <2>3. s = [i \in 1..Len(out) |-> s[i]]
    BY <2>1 DEF Delivered
  <2> HIDE DEF s
  <2>4. s \in Seq(1..Len(asked)) /\ Len(s) = Len(out)
    <3>1. s \in [1..Len(out) -> 1..Len(asked)]
      BY <2>2, <2>3
    <3> HIDE DEF out
    <3> QED  BY <3>1, <2>1
  <2>5. \A i \in 1..Len(out) : /\ InLine(s[i], c) <=> IsOf(out[i], c)
                               /\ TurnOf(s[i]) = Turn(out[i].ord)
    BY <2>2 DEF InLine, IsOf, TurnOf, Labelled
  <2> DEFINE n == Turn(rcv.ordRead[c])
  <2>6. \A i \in 1..Len(out) : IsOf(out[i], c) => Turn(out[i].ord) < n
    BY DEF OrderFits
  <2>7. \A t \in 0..(n - 1) : \E i \in 1..Len(out) : IsOf(out[i], c) /\ Turn(out[i].ord) = t
    BY DEF OrderFits
  <2>8. \A i, j \in 1..Len(out) :
          i < j /\ IsOf(out[i], c) /\ IsOf(out[j], c) => Turn(out[i].ord) < Turn(out[j].ord)
    BY DEF OrderFits
  <2> HIDE DEF n, out
  <2>9. \A i \in 1..Len(s) : InLine(s[i], c) => TurnOf(s[i]) < n
    BY <2>4, <2>5, <2>6
  <2>10. \A t \in 0..(n - 1) : \E i \in 1..Len(s) : InLine(s[i], c) /\ TurnOf(s[i]) = t
    BY <2>4, <2>5, <2>7
  <2>11. \A i, j \in 1..Len(s) :
           i < j /\ InLine(s[i], c) /\ InLine(s[j], c) => TurnOf(s[i]) < TurnOf(s[j])
    BY <2>4, <2>5, <2>8
  <2>12. n \in Nat
    BY <1>3 DEF n
  <2>13. IsLine(OfChannels(s)[c], c, n)
    BY <2>4, <2>9, <2>10, <2>11, <2>12, <1>1, LineIs
  <2> QED  BY <2>13 DEF s, n
<1> QED  BY <1>5, <1>6

-----------------------------------------------------------------------------
(* What one message does to the order of a channel *)

\* The index some places after another one, short of a full circle.
LEMMA TurnShift ==
  ASSUME course \in Courses, NEW n \in Orders, NEW k \in Nat, Turn(n) + k < OrdMod
  PROVE  (n + k) % OrdMod \in Orders /\ Turn((n + k) % OrdMod) = Turn(n) + k
<1>1. OrdMod \in Nat \ {0} /\ n \in Nat /\ n < OrdMod /\ OrdFirst \in Nat /\ OrdFirst < OrdMod
  BY TurnIs, ReliabilityAssumption DEF Orders
<1>2. k < OrdMod
  <2>1. Turn(n) \in Nat
    BY TurnIs
  <2> QED  BY <2>1, <1>1
<1> DEFINE x == n + k
<1>3. x \in (0 - OrdMod)..(2 * OrdMod - 1) /\ ~(x < 0) /\ x = n + k
  BY <1>1, <1>2
<1> HIDE DEF x
<1>4. x % OrdMod = IF x >= OrdMod THEN x - OrdMod ELSE x
  BY <1>1, <1>3, Wrapped
<1>5. (n + k) % OrdMod = IF n + k >= OrdMod THEN n + k - OrdMod ELSE n + k
  BY <1>1, <1>4 DEF x
<1> QED  BY <1>1, <1>5 DEF Turn, Orders

\* What is not ordered does not disturb the order.
LEMMA StillFits ==
  ASSUME NEW r, ReceiverTypes(r), NEW w, ReceiverTypes(w), Grows(r, w), w.ordRead = r.ordRead,
         \A i \in 1..Len(w.outputQueue) :
           i > Len(r.outputQueue) => w.outputQueue[i].rel # "RELIABLE_ORDERED",
         OrderFits(r)
  PROVE  OrderFits(w)
<1> DEFINE out == r.outputQueue  more == w.outputQueue
<1>1. Len(out) \in Nat /\ Len(more) \in Nat
  BY DEF ReceiverTypes, Receivers
<1>2. \A i \in 1..Len(out) : i \in 1..Len(more) /\ more[i] = out[i]
  BY <1>1 DEF Grows
<1>3. \A i \in 1..Len(more) : \A c \in Channels : IsOf(more[i], c) => i \in 1..Len(out)
  BY <1>1 DEF IsOf
<1> HIDE DEF more
<1> SUFFICES ASSUME NEW c \in Channels
             PROVE  /\ Turn(w.ordRead[c]) <= Len(asked)
                    /\ \A i \in 1..Len(more) : IsOf(more[i], c) => Turn(more[i].ord) < Turn(w.ordRead[c])
                    /\ \A t \in 0..(Turn(w.ordRead[c]) - 1) :
                         \E i \in 1..Len(more) : IsOf(more[i], c) /\ Turn(more[i].ord) = t
                    /\ \A i, j \in 1..Len(more) :
                         i < j /\ IsOf(more[i], c) /\ IsOf(more[j], c)
                           => Turn(more[i].ord) < Turn(more[j].ord)
  BY DEF OrderFits, more
<1> DEFINE n == Turn(r.ordRead[c])
<1>4. n = Turn(w.ordRead[c])
  OBVIOUS
<1>5. n <= Len(asked)
  BY DEF OrderFits
<1>6. \A i \in 1..Len(out) : IsOf(out[i], c) => Turn(out[i].ord) < n
  BY DEF OrderFits
<1>7. \A t \in 0..(n - 1) : \E i \in 1..Len(out) : IsOf(out[i], c) /\ Turn(out[i].ord) = t
  BY DEF OrderFits
<1>8. \A i, j \in 1..Len(out) :
        i < j /\ IsOf(out[i], c) /\ IsOf(out[j], c) => Turn(out[i].ord) < Turn(out[j].ord)
  BY DEF OrderFits
<1> HIDE DEF n, out
<1>9. \A i \in 1..Len(more) : IsOf(more[i], c) => Turn(more[i].ord) < n
  BY <1>2, <1>3, <1>6
<1>10. \A t \in 0..(n - 1) : \E i \in 1..Len(more) : IsOf(more[i], c) /\ Turn(more[i].ord) = t
  BY <1>2, <1>7
<1>11. \A i, j \in 1..Len(more) :
         i < j /\ IsOf(more[i], c) /\ IsOf(more[j], c) => Turn(more[i].ord) < Turn(more[j].ord)
  BY <1>2, <1>3, <1>8
<1> QED  BY <1>4, <1>5, <1>9, <1>10, <1>11

\* The k messages that w delivers more than r.
NextOf(r, w, c, k) ==
  /\ Grows(r, w) /\ Len(w.outputQueue) = Len(r.outputQueue) + k
  /\ Turn(w.ordRead[c]) = Turn(r.ordRead[c]) + k /\ Turn(w.ordRead[c]) <= Len(asked)
  /\ \A d \in Channels : d # c => w.ordRead[d] = r.ordRead[d]
  /\ \A i \in 1..k : LET e == w.outputQueue[Len(r.outputQueue) + i]
                     IN IsOf(e, c) /\ Turn(e.ord) = Turn(r.ordRead[c]) + i - 1

\* A channel that delivers what it waits for waits for what is next.
LEMMA NextFits ==
  ASSUME course \in Courses, NEW r, ReceiverTypes(r), NEW w, ReceiverTypes(w),
         NEW c \in Channels, NEW k \in Nat, NextOf(r, w, c, k), OrderFits(r)
  PROVE  OrderFits(w)
<1> DEFINE out == r.outputQueue  more == w.outputQueue  n == Turn(r.ordRead[c])
<1>1. Len(out) \in Nat /\ Len(more) \in Nat /\ Len(more) = Len(out) + k
  BY DEF ReceiverTypes, Receivers, NextOf
<1>2. n \in Nat
  <2>1. r.ordRead[c] \in Orders
    BY DEF ReceiverTypes, Receivers
  <2> QED  BY <2>1, TurnIs
<1>3. \A i \in 1..Len(out) : i \in 1..Len(more) /\ more[i] = out[i]
  BY <1>1 DEF NextOf, Grows
<1>4. ASSUME NEW i \in 1..Len(more)
      PROVE  \/ i \in 1..Len(out)
             \/ /\ i > Len(out) /\ i - Len(out) \in 1..k /\ IsOf(more[i], c)
                /\ Turn(more[i].ord) = n + (i - Len(out)) - 1
  <2>1. CASE i <= Len(out)
    BY <2>1, <1>1
  <2>2. CASE ~(i <= Len(out))
    <3> DEFINE a == i - Len(out)
    <3>1. a \in 1..k /\ Len(out) + a = i /\ i > Len(out)
      BY <2>2, <1>1
    <3> HIDE DEF a
    <3>2. IsOf(more[i], c) /\ Turn(more[i].ord) = n + a - 1
      BY <3>1 DEF NextOf
    <3> QED  BY <3>1, <3>2 DEF a
  <2> QED  BY <2>1, <2>2
<1>5. \A i \in 1..k : /\ Len(out) + i \in 1..Len(more) /\ IsOf(more[Len(out) + i], c)
                      /\ Turn(more[Len(out) + i].ord) = n + i - 1
  BY <1>1 DEF NextOf
<1>6. Turn(w.ordRead[c]) = n + k /\ Turn(w.ordRead[c]) <= Len(asked)
      /\ \A d \in Channels : d # c => w.ordRead[d] = r.ordRead[d]
  BY DEF NextOf
<1>7. \A i \in 1..Len(out) : \A d \in Channels :
        IsOf(out[i], d) => Turn(out[i].ord) < Turn(r.ordRead[d]) /\ Turn(out[i].ord) \in Int
  <2> TAKE i \in 1..Len(out)
  <2>1. out[i] \in Entry
    BY ElementOfSeq DEF ReceiverTypes, Receivers
  <2>2. Turn(out[i].ord) \in Int
    BY <2>1, TurnIs DEF Entry
  <2> QED  BY <2>2 DEF OrderFits
<1>8. \A d \in Channels : \A t \in 0..(Turn(r.ordRead[d]) - 1) :
        \E i \in 1..Len(out) : IsOf(out[i], d) /\ Turn(out[i].ord) = t
  BY DEF OrderFits
<1>9. \A d \in Channels : \A i, j \in 1..Len(out) :
        i < j /\ IsOf(out[i], d) /\ IsOf(out[j], d) => Turn(out[i].ord) < Turn(out[j].ord)
  BY DEF OrderFits
<1>10. \A d \in Channels : Turn(r.ordRead[d]) <= Len(asked)
  BY DEF OrderFits
<1>11. \A i, d : IsOf(more[i], c) /\ IsOf(more[i], d) => d = c
  BY DEF IsOf
<1> HIDE DEF out, more, n
<1>12. ASSUME NEW d \in Channels
       PROVE  /\ Turn(w.ordRead[d]) <= Len(asked)
              /\ \A i \in 1..Len(more) : IsOf(more[i], d) => Turn(more[i].ord) < Turn(w.ordRead[d])
              /\ \A t \in 0..(Turn(w.ordRead[d]) - 1) :
                   \E i \in 1..Len(more) : IsOf(more[i], d) /\ Turn(more[i].ord) = t
              /\ \A i, j \in 1..Len(more) :
                   i < j /\ IsOf(more[i], d) /\ IsOf(more[j], d)
                     => Turn(more[i].ord) < Turn(more[j].ord)
  <2>1. CASE d # c
    <3>1. w.ordRead[d] = r.ordRead[d]
      BY <2>1, <1>6
    <3>2. \A i \in 1..Len(more) : IsOf(more[i], d) => i \in 1..Len(out)
      BY <2>1, <1>4, <1>11
    <3> QED  BY <3>1, <3>2, <1>3, <1>7, <1>8, <1>9, <1>10
  <2>2. CASE d = c
    <3>1. ASSUME NEW i \in 1..Len(more), IsOf(more[i], c) PROVE Turn(more[i].ord) < n + k
      <4>1. CASE i \in 1..Len(out)
        BY <4>1, <3>1, <1>2, <1>3, <1>7 DEF n
      <4>2. CASE i - Len(out) \in 1..k /\ Turn(more[i].ord) = n + (i - Len(out)) - 1
        BY <4>2, <1>1, <1>2
      <4> QED  BY <4>1, <4>2, <1>4
    <3>2. ASSUME NEW t \in 0..((n + k) - 1)
          PROVE  \E i \in 1..Len(more) : IsOf(more[i], c) /\ Turn(more[i].ord) = t
      <4>1. CASE t \in 0..(n - 1)
        BY <4>1, <1>3, <1>8 DEF n
      <4>2. CASE t >= n
        <5>1. (t - n) + 1 \in 1..k /\ n + ((t - n) + 1) - 1 = t
          BY <4>2, <1>2
        <5> QED  BY <5>1, <1>5
      <4> QED  BY <4>1, <4>2, <1>2
    <3>3. ASSUME NEW i \in 1..Len(more), NEW j \in 1..Len(more), i < j,
                 IsOf(more[i], c), IsOf(more[j], c)
          PROVE  Turn(more[i].ord) < Turn(more[j].ord)
      <4>1. CASE i \in 1..Len(out) /\ j \in 1..Len(out)
        BY <4>1, <3>3, <1>3, <1>9
      <4>2. CASE i \in 1..Len(out) /\ j > Len(out) /\ Turn(more[j].ord) = n + (j - Len(out)) - 1
        <5>1. Turn(more[i].ord) < n /\ Turn(more[i].ord) \in Int
          BY <4>2, <3>3, <1>3, <1>7 DEF n
        <5> QED  BY <5>1, <4>2, <1>1, <1>2
      <4>3. CASE /\ i > Len(out) /\ Turn(more[i].ord) = n + (i - Len(out)) - 1
                 /\ j > Len(out) /\ Turn(more[j].ord) = n + (j - Len(out)) - 1
        BY <4>3, <3>3, <1>1, <1>2
      <4>4. CASE i > Len(out) /\ j \in 1..Len(out)
        BY <4>4, <3>3, <1>1
      <4> QED  BY <4>1, <4>2, <4>3, <4>4, <1>4
    <3> QED  BY <2>2, <3>1, <3>2, <3>3, <1>6
  <2> QED  BY <2>1, <2>2
<1> QED  BY <1>12 DEF OrderFits, more

\* What waits or arrives has an index that was given out.
LEMMA IndexWasGiven ==
  ASSUME SenderTypes, IndicesFit, NEW r, NEW e, IsWhole(r, e), e.rel = "RELIABLE_ORDERED"
  PROVE  e.ord \in Orders /\ Turn(e.ord) \in Nat /\ Turn(e.ord) < Len(asked)
<1> DEFINE id == e.parts[1]
<1>1. id \in 1..Len(asked) /\ e.ord = asked[id].ord /\ asked[id].as = "RELIABLE_ORDERED"
  BY DEF IsWhole, Labelled
<1>2. asked[id] \in AskedRecord /\ Len(asked) \in Nat /\ course \in Courses
  BY <1>1, ElementOfSeq DEF SenderTypes
<1>3. asked[id].ord \in Orders /\ asked[id].ch \in Channels
  BY <1>2 DEF AskedRecord
<1>4. snd.ordWrite[asked[id].ch] \in Orders
  BY <1>3 DEF SenderTypes, SenderRecord
<1>5. NextIndex(asked[id]) = snd.ordWrite[asked[id].ch] /\ asked[id].as \in Indexed
  BY <1>1 DEF NextIndex, Indexed, Sequenced
<1>6. /\ Turn(asked[id].ord) < Turn(snd.ordWrite[asked[id].ch])
      /\ Turn(snd.ordWrite[asked[id].ch]) <= Len(asked)
  BY <1>1, <1>3, <1>5 DEF IndicesFit
<1>7. Turn(asked[id].ord) \in Nat /\ Turn(snd.ordWrite[asked[id].ch]) \in Nat
  BY <1>2, <1>3, <1>4, TurnIs
<1> QED  BY <1>1, <1>2, <1>3, <1>6, <1>7

\* The k messages that leave the ordering list of a channel.
DrainedAre(r, w, c, k, next) ==
  /\ next \in Seq(Entry) /\ Len(next) = k
  /\ \A i \in 1..k : next[i] \in r.orderingList[c] /\ next[i].ord = Follows(r, c, i - 1)
  /\ w.outputQueue = r.outputQueue \o next
  /\ w.ordRead = [r.ordRead EXCEPT ![c] = Follows(r, c, k)]

\* Drain takes what follows from the list, as far as there is no gap.
LEMMA DrainIs ==
  ASSUME NEW r, ReceiverTypes(r), NEW c \in Channels
  PROVE  \E k \in 0..OrdMod : \E next : DrainedAre(r, Drain(r, c), c, k, next)
<1> DEFINE list == r.orderingList[c]
           have == {e.ord : e \in list}
           at(i) == Follows(r, c, i)
           run == CHOOSE n \in 0..OrdMod : /\ \A i \in 0..(n - 1) : at(i) \in have
                                           /\ n < OrdMod => at(n) \notin have
           nth(i) == CHOOSE e \in list : e.ord = at(i - 1)
           gone == {at(i) : i \in 0..(run - 1)}
           next == [i \in 1..run |-> nth(i)]
           left == {e \in list : e.ord \notin gone}
           w == Drain(r, c)
<1>1. list \subseteq Entry /\ OrdMod \in Nat \ {0}
  BY ReliabilityAssumption DEF ReceiverTypes, Receivers
<1>2. w = [r EXCEPT !.outputQueue = r.outputQueue \o next,
                    !.ordRead[c] = (r.ordRead[c] + run) % OrdMod,
                    !.orderingList[c] = left]
  BY DEF Drain
<1> HIDE DEF w, list
<1>3. run \in 0..OrdMod /\ \A i \in 0..(run - 1) : at(i) \in have
  <2> DEFINE Stops == {n \in 0..OrdMod : n < OrdMod => at(n) \notin have}
  <2> HIDE DEF have
  <2>1. Stops \subseteq Nat /\ OrdMod \in Stops
    BY <1>1
  <2>2. PICK n \in Stops : \A m \in Stops : n <= m
    BY <2>1, Least
  <2>3. ASSUME NEW i \in 0..(n - 1) PROVE at(i) \in have
    <3>1. i \in 0..OrdMod /\ i < OrdMod /\ ~(n <= i)
      BY <2>1, <2>2, <1>1
    <3>2. i \notin Stops
      <4> HIDE DEF Stops
      <4> QED  BY <3>1, <2>2
    <3> QED  BY <3>1, <3>2
  <2> QED  BY <2>2, <2>3
<1> HIDE DEF run
<1>4. run \in Nat
  BY <1>1, <1>3
<1>5. \A i \in 1..run : nth(i) \in list /\ nth(i).ord = at(i - 1)
  <2> TAKE i \in 1..run
  <2>1. i - 1 \in 0..(run - 1)
    BY <1>4
  <2>2. \E e \in list : e.ord = at(i - 1)
    BY <2>1, <1>3
  <2> QED  BY <2>2
<1>6. next \in Seq(Entry) /\ Len(next) = run /\ \A i \in 1..run : next[i] = nth(i)
  <2> HIDE DEF nth
  <2> QED  BY <1>1, <1>4, <1>5
<1> HIDE DEF nth, next, left
<1>7. /\ w.outputQueue = r.outputQueue \o next
      /\ w.ordRead = [r.ordRead EXCEPT ![c] = (r.ordRead[c] + run) % OrdMod]
  BY <1>2 DEF ReceiverTypes, Receivers
<1>8. DrainedAre(r, w, c, run, next)
  BY <1>5, <1>6, <1>7 DEF DrainedAre, list, Follows
<1> QED  BY <1>3, <1>8 DEF w

\* So a drained channel is in order, and waits for the next gap.
LEMMA DrainFits ==
  ASSUME SenderTypes, IndicesFit, IndicesNotRound,
         NEW r, ReceiverTypes(r), Content(r), NEW c \in Channels, OrderFits(r)
  PROVE  OrderFits(Drain(r, c))
<1>0. PICK w : w = Drain(r, c)
  OBVIOUS
<1>1. ReceiverTypes(w) /\ Delivers(r, w, {})
  BY <1>0, DrainKeeps
<1>2. PICK k \in 0..OrdMod : \E next : DrainedAre(r, w, c, k, next)
  BY <1>0, DrainIs
<1>3. PICK next : DrainedAre(r, w, c, k, next)
  BY <1>2
<1> DEFINE n == Turn(r.ordRead[c])
<1>4. /\ r.ordRead \in [Channels -> Orders] /\ r.ordRead[c] \in Orders /\ course \in Courses
      /\ OrdMod \in Nat \ {0} /\ k \in Nat /\ r.outputQueue \in Seq(Entry) /\ Len(asked) \in Nat
  BY ReliabilityAssumption DEF ReceiverTypes, Receivers, SenderTypes
<1>5. n \in Nat /\ n <= Len(asked) /\ Len(asked) < OrdMod
  <2>1. n <= Len(asked)
    BY DEF OrderFits
  <2>2. Len(asked) < OrdMod
    BY <1>4, OrdHalfIs DEF IndicesNotRound
  <2> QED  BY <2>1, <2>2, <1>4, TurnIs
<1> HIDE DEF n
<1>6. \A i \in Nat : n + i < OrdMod => Turn(Follows(r, c, i)) = n + i
  BY <1>4, TurnShift DEF Follows, n
<1>7. \A i \in 1..k : next[i].rel = "RELIABLE_ORDERED" /\ next[i].ch = c
                      /\ Turn(next[i].ord) < Len(asked)
  <2> TAKE i \in 1..k
  <2>1. next[i] \in r.orderingList[c]
    BY <1>3 DEF DrainedAre
  <2>2. IsWhole(r, next[i]) /\ next[i].rel = "RELIABLE_ORDERED" /\ next[i].ch = c
    BY <2>1 DEF Content, ListsFit
  <2> QED  BY <2>2, IndexWasGiven
<1>8. \A i \in 1..k : next[i].ord = Follows(r, c, i - 1)
  BY <1>3 DEF DrainedAre
<1>9. \A i \in 0..k : n + i <= Len(asked)
  <2> DEFINE T == {i \in 0..k : ~(n + i <= Len(asked))}
  <2>1. SUFFICES ASSUME T # {} PROVE FALSE
    BY <2>1
  <2>2. PICK i \in T : \A j \in T : i <= j
    BY <2>1, <1>4, Least, T \subseteq Nat
  <2>3. i \in 0..k /\ i # 0 /\ i \in Nat
    BY <2>2, <1>4, <1>5
  <2>4. i - 1 \in 0..k /\ i - 1 \in Nat /\ i \in 1..k /\ ~(i <= i - 1)
    BY <2>3, <1>4
  <2>5. n + (i - 1) <= Len(asked)
    BY <2>2, <2>4
  <2>6. Turn(Follows(r, c, i - 1)) = n + (i - 1)
    BY <2>4, <2>5, <1>4, <1>5, <1>6
  <2>7. n + (i - 1) < Len(asked)
    BY <2>4, <2>6, <1>7, <1>8
  <2>8. ~(n + i <= Len(asked))
    BY <2>2
  <2> QED  BY <2>3, <2>7, <2>8, <1>4, <1>5
<1>10. Turn(w.ordRead[c]) = n + k /\ n + k <= Len(asked)
  <2>1. n + k <= Len(asked)
    BY <1>4, <1>9
  <2>2. w.ordRead[c] = Follows(r, c, k)
    BY <1>3, <1>4 DEF DrainedAre
  <2> QED  BY <2>1, <2>2, <1>4, <1>5, <1>6
<1>11. \A d \in Channels : d # c => w.ordRead[d] = r.ordRead[d]
  BY <1>3, <1>4 DEF DrainedAre
<1>12. /\ Len(w.outputQueue) = Len(r.outputQueue) + k
       /\ \A i \in 1..k : w.outputQueue[Len(r.outputQueue) + i] = next[i]
  <2> DEFINE out == r.outputQueue
  <2>1. next \in Seq(Entry) /\ Len(next) = k /\ w.outputQueue = out \o next
    BY <1>3 DEF DrainedAre
  <2>2. out \in Seq(Entry) /\ Len(out) \in Nat
    BY <1>4
  <2> HIDE DEF out
  <2>3. /\ Len(out \o next) = Len(out) + k
        /\ \A i \in 1..(Len(out) + k) :
             (out \o next)[i] = IF i <= Len(out) THEN out[i] ELSE next[i - Len(out)]
    BY <2>1, <2>2, ConcatProperties
  <2>4. ASSUME NEW i \in 1..k PROVE (out \o next)[Len(out) + i] = next[i]
    <3>1. Len(out) + i \in 1..(Len(out) + k) /\ ~(Len(out) + i <= Len(out))
          /\ (Len(out) + i) - Len(out) = i
      BY <2>2, <1>4
    <3> QED  BY <3>1, <2>3
  <2> QED  BY <2>1, <2>3, <2>4 DEF out
<1>13. \A i \in 1..k : Turn(next[i].ord) = n + i - 1
  <2> TAKE i \in 1..k
  <2>1. i - 1 \in Nat /\ i - 1 \in 0..k /\ i \in Nat
    BY <1>4
  <2>2. n + (i - 1) < OrdMod
    <3>1. n + (i - 1) <= Len(asked)
      BY <2>1, <1>9
    <3> QED  BY <3>1, <2>1, <1>4, <1>5
  <2>3. Turn(next[i].ord) = n + (i - 1)
    BY <2>1, <2>2, <1>6, <1>8
  <2> QED  BY <2>1, <2>3, <1>5
<1>14. NextOf(r, w, c, k)
  BY <1>1, <1>7, <1>10, <1>11, <1>12, <1>13 DEF NextOf, IsOf, Delivers, n
<1>15. OrderFits(w)
  BY <1>1, <1>4, <1>14, NextFits
<1> QED  BY <1>0, <1>15

\* A message whose turn it is goes out with what waited for it, another one waits.
LEMMA OrderOrOutputFits ==
  ASSUME SenderTypes, IndicesFit, IndicesNotRound,
         NEW r, ReceiverTypes(r), Content(r), OrderFits(r),
         NEW e \in Entry, IsWhole(r, e), NoneOf(r, e.parts[1])
  PROVE  OrderFits(OrderOrOutput(r, e))
<1> DEFINE c == e.ch
           n == [Output(r, e) EXCEPT !.ordRead[c] = (@ + 1) % OrdMod]
<1>1. c \in Channels /\ e.ord \in Orders /\ r.ordRead[c] \in Orders /\ course \in Courses
      /\ r.ordRead \in [Channels -> Orders]
  BY DEF Entry, ReceiverTypes, Receivers, SenderTypes
<1>2. PICK o : o = Output(r, e)
  OBVIOUS
<1>3. /\ ReceiverTypes(o) /\ Content(o) /\ Grows(r, o) /\ o.ordRead = r.ordRead
      /\ Len(o.outputQueue) = Len(r.outputQueue) + 1 /\ o.outputQueue[Len(o.outputQueue)] = e
  <2>1. ReceiverTypes(o) /\ Content(o)
    BY <1>2, OutputKeeps
  <2>2. /\ Delivers(r, o, {e}) /\ Len(o.outputQueue) = Len(r.outputQueue) + 1
        /\ o.outputQueue[Len(o.outputQueue)] = e
    BY <1>2, OutputDelivers
  <2>3. o.ordRead = r.ordRead
    BY <1>2 DEF Output, ReceiverTypes, Receivers
  <2> QED  BY <2>1, <2>2, <2>3 DEF Delivers
<1>4. Len(r.outputQueue) \in Nat
  BY DEF ReceiverTypes, Receivers
<1>5. CASE e.rel # "RELIABLE_ORDERED"
  <2>1. OrderOrOutput(r, e) = o
    BY <1>2, <1>5 DEF OrderOrOutput
  <2>2. \A i \in 1..Len(o.outputQueue) :
          i > Len(r.outputQueue) => o.outputQueue[i].rel # "RELIABLE_ORDERED"
    <3> TAKE i \in 1..Len(o.outputQueue)
    <3>1. i > Len(r.outputQueue) => i = Len(o.outputQueue)
      BY <1>3, <1>4
    <3> QED  BY <3>1, <1>3, <1>5
  <2> QED  BY <2>1, <2>2, <1>3, StillFits
<1>6. CASE e.rel = "RELIABLE_ORDERED" /\ e.ord # r.ordRead[c]
  <2>1. OrderOrOutput(r, e) = Await(r, e)
    BY <1>6 DEF OrderOrOutput, Order, Await
  <2>2. Await(r, e).outputQueue = r.outputQueue /\ Await(r, e).ordRead = r.ordRead
    BY DEF Await, ReceiverTypes, Receivers
  <2> QED  BY <2>1, <2>2 DEF OrderFits
<1>7. CASE e.rel = "RELIABLE_ORDERED" /\ e.ord = r.ordRead[c]
  <2>1. OrderOrOutput(r, e) = Drain(n, c)
    BY <1>7 DEF OrderOrOutput, Order
  <2>2. (o.ordRead[c] + 1) % OrdMod \in Orders /\ Turn((o.ordRead[c] + 1) % OrdMod) = Turn(e.ord) + 1
        /\ Turn(e.ord) + 1 <= Len(asked) /\ Turn(e.ord) \in Nat
    <3>1. Turn(e.ord) \in Nat /\ Turn(e.ord) < Len(asked) /\ Len(asked) \in Nat
      BY <1>7, IndexWasGiven DEF SenderTypes
    <3>2. Turn(e.ord) + 1 < OrdMod
      BY <3>1, OrdHalfIs DEF IndicesNotRound
    <3>3. /\ (e.ord + 1) % OrdMod \in Orders /\ Turn((e.ord + 1) % OrdMod) = Turn(e.ord) + 1
      BY <3>2, <1>1, TurnNext
    <3> QED  BY <3>1, <3>3, <1>3, <1>7
  <2>3. PICK x : x = n
    OBVIOUS
  <2>4. x = [o EXCEPT !.ordRead[c] = (o.ordRead[c] + 1) % OrdMod]
    BY <2>3, <1>2
  <2>5. ReceiverTypes(x) /\ Content(x)
    BY <2>2, <2>4, <1>1, <1>3, ReadIndexKeeps
  <2>6. /\ x.outputQueue = o.outputQueue
        /\ x.ordRead = [r.ordRead EXCEPT ![c] = (o.ordRead[c] + 1) % OrdMod]
    BY <2>4, <1>3 DEF ReceiverTypes, Receivers
  <2>7. /\ x.ordRead[c] = (o.ordRead[c] + 1) % OrdMod
        /\ \A d \in Channels : d # c => x.ordRead[d] = r.ordRead[d]
    BY <2>6, <1>1
  <2>8. NextOf(r, x, c, 1)
    <3>1. Grows(r, x) /\ Len(x.outputQueue) = Len(r.outputQueue) + 1
      BY <2>6, <1>3 DEF Grows
    <3>2. Turn(x.ordRead[c]) = Turn(r.ordRead[c]) + 1 /\ Turn(x.ordRead[c]) <= Len(asked)
      BY <2>2, <2>7, <1>7
    <3>3. ASSUME NEW i \in 1..1
          PROVE  LET a == x.outputQueue[Len(r.outputQueue) + i]
                 IN IsOf(a, c) /\ Turn(a.ord) = Turn(r.ordRead[c]) + i - 1
      <4>1. i = 1 /\ x.outputQueue[Len(r.outputQueue) + i] = e
        BY <2>6, <1>3
      <4>2. Turn(e.ord) = Turn(r.ordRead[c]) + i - 1
        BY <4>1, <2>2, <1>7
      <4> QED  BY <4>1, <4>2, <1>7 DEF IsOf
    <3> QED  BY <3>1, <3>2, <3>3, <2>7 DEF NextOf
  <2>9. OrderFits(x)
    BY <2>5, <2>8, <1>1, NextFits
  <2>10. OrderFits(Drain(x, c))
    BY <2>5, <2>9, <1>1, DrainFits
  <2> QED  BY <2>1, <2>3, <2>10
<1> QED  BY <1>5, <1>6, <1>7

\* Whatever becomes of a message that is new to the receiver, channels stay in order.
LEMMA ProcessFits ==
  ASSUME SenderTypes, SplitIds, IndicesFit, IndicesNotRound,
         NEW r, ReceiverTypes(r), Content(r), OrderFits(r), NEW p \in Message, Fits(p),
         Settled(r, p.id, p.idx), NoneOf(r, p.id),
         \A q \in r.splits : ~(q.id = p.id /\ q.idx = p.idx)
  PROVE  OrderFits(Process(r, p)) /\ Grows(r, Process(r, p))
<1> DEFINE Alike(x) == /\ ReceiverTypes(x) /\ Content(x) /\ SameWindow(r, x)
                       /\ x.outputQueue = r.outputQueue /\ x.orderingList = r.orderingList
                       /\ x.ordRead = r.ordRead
           passed(x) == [x EXCEPT !.seqRead[p.ch] = (p.ord + 1) % OrdMod]
           IsIt(e) == /\ e \in Entry /\ IsWhole(r, e) /\ e.parts[1] = p.id /\ e.rel = p.rel
<1>0. AskedTypes /\ course \in Courses
  BY DEF SenderTypes, AskedTypes
<1>1. p.cnt \in Nat /\ p.ch \in Channels /\ p.ord \in Orders /\ p.rel = asked[p.id].as
  BY DEF Message, Fits, FitsIn, Labelled
<1>2. Alike(r)
  BY DEF SameWindow
<1>3. (p.ord + 1) % OrdMod \in Orders
  <2>1. OrdMod \in Nat \ {0} /\ p.ord + 1 \in Int
    BY <1>1, ReliabilityAssumption DEF Orders
  <2> QED  BY <2>1 DEF Orders
<1>4. ASSUME NEW x, Alike(x), NEW e, IsIt(e), p.rel \notin Sequenced
      PROVE  OrderFits(OrderOrOutput(x, e))
  <2>1. IsWhole(x, e) /\ NoneOf(x, e.parts[1])
    BY <1>4, SameSettled DEF NoneOf
  <2>2. OrderFits(x)
    BY <1>4 DEF OrderFits
  <2> QED  BY <2>1, <2>2, <1>4, OrderOrOutputFits
<1>5. ASSUME NEW x, Alike(x), NEW e, IsIt(e), p.rel \in Sequenced
      PROVE  OrderFits(Output(passed(x), e))
  <2> DEFINE v == passed(x)  y == Output(v, e)
  <2>1. ReceiverTypes(v) /\ v.outputQueue = x.outputQueue
    BY <1>1, <1>3, <1>5, ReadIndexKeeps
  <2>2. v.ordRead = x.ordRead
    BY <1>5 DEF ReceiverTypes, Receivers
  <2> HIDE DEF v, passed
  <2>3. OrderFits(v)
    BY <2>1, <2>2, <1>5 DEF OrderFits
  <2>5. /\ Grows(v, y) /\ Len(y.outputQueue) = Len(v.outputQueue) + 1
        /\ y.outputQueue[Len(y.outputQueue)] = e
    BY <2>1, <1>5, OutputDelivers DEF Delivers
  <2>6. ReceiverTypes(y) /\ y.ordRead = v.ordRead
    <3>1. v.outputQueue \in Seq(Entry) /\ Append(v.outputQueue, e) \in Seq(Entry)
      BY <2>1, <1>5, AppendProperties DEF ReceiverTypes, Receivers
    <3> QED  BY <3>1, <2>1 DEF Output, ReceiverTypes, Receivers
  <2> HIDE DEF y
  <2>7. e.rel # "RELIABLE_ORDERED"
    BY <1>5 DEF Sequenced
  <2>8. \A i \in 1..Len(y.outputQueue) :
          i > Len(v.outputQueue) => y.outputQueue[i].rel # "RELIABLE_ORDERED"
    <3> TAKE i \in 1..Len(y.outputQueue)
    <3>1. Len(v.outputQueue) \in Nat
      BY <2>1 DEF ReceiverTypes, Receivers
    <3>2. i > Len(v.outputQueue) => i = Len(y.outputQueue)
      BY <3>1, <2>5
    <3> QED  BY <3>2, <2>5, <2>7
  <2>9. OrderFits(y)
    BY <2>1, <2>3, <2>5, <2>6, <2>8, StillFits
  <2> QED  BY <2>9 DEF y, v
<1> HIDE DEF passed
<1>6. Grows(r, Process(r, p))
  <2>1. Unmoved(r, Process(r, p)) \/ Advances(r, Process(r, p), p)
    BY <1>0, ProcessMoves
  <2> QED  BY <2>1 DEF Unmoved, Advances
<1>7. CASE p.rel \in Sequenced /\ Superseded(r, p)
  <2>1. Process(r, p) = r
    BY <1>7 DEF Process, Sequence
  <2> QED  BY <2>1, <1>6
<1>8. CASE p.cnt = 0
  <2>1. IsIt(Single(p))
    <3>1. Single(p) \in Entry /\ IsWhole(r, Single(p)) /\ Single(p).parts[1] = p.id
      BY <1>0, <1>8, SingleIsWhole
    <3> QED  BY <3>1 DEF Single
  <2> HIDE DEF Alike, IsIt
  <2>2. ~(p.cnt > 0)
    BY <1>8
  <2>3. CASE p.rel \in Sequenced /\ ~Superseded(r, p)
    <3>1. Process(r, p) = Output(passed(r), Single(p))
      BY <2>2, <2>3, <1>8 DEF Process, Sequence, passed
    <3> QED  BY <3>1, <2>1, <2>3, <1>2, <1>5, <1>6
  <2>4. CASE p.rel \notin Sequenced
    <3>1. Process(r, p) = OrderOrOutput(r, Single(p))
      BY <2>2, <2>4 DEF Process
    <3> QED  BY <3>1, <2>1, <2>4, <1>2, <1>4, <1>6
  <2> QED  BY <2>3, <2>4, <1>7
<1>9. CASE p.cnt # 0
  <2> DEFINE w == WithPiece(r, p)  e == Rebuilt(w, p.sid)  x == WithoutSplit(w, p.sid)
  <2>1. /\ ReceiverTypes(w) /\ Content(w) /\ SameWindow(r, w) /\ PiecesHeld(w, p.sid) # {}
        /\ w.outputQueue = r.outputQueue /\ w.orderingList = r.orderingList
    BY <1>0, <1>9, WithPieceKeeps
  <2>2. w.ordRead = r.ordRead
    BY DEF WithPiece, ReceiverTypes, Receivers
  <2> HIDE DEF w
  <2>3. OrderFits(w)
    BY <2>1, <2>2 DEF OrderFits
  <2>4. Alike(x)
    <3>1. /\ ReceiverTypes(x) /\ Content(x) /\ SameWindow(w, x)
          /\ x.outputQueue = w.outputQueue /\ x.orderingList = w.orderingList
      BY <2>1, WithoutSplitKeeps
    <3>2. SameWindow(r, x)
      BY <3>1, <2>1, Transitive
    <3>3. x.ordRead = w.ordRead
      BY <2>1 DEF WithoutSplit, ReceiverTypes, Receivers
    <3> HIDE DEF x
    <3> QED  BY <3>1, <3>2, <3>3, <2>1, <2>2
  <2>5. ASSUME IsComplete(w, p.sid) PROVE IsIt(e)
    <3>1. PICK q \in w.splits : q.sid = p.sid
      BY <2>1 DEF PiecesHeld
    <3>2. e \in Entry /\ IsWhole(w, e) /\ e.parts[1] = q.id
      BY <2>1, <2>5, <3>1, <1>0, RebuiltIsWhole
    <3>3. q.id = p.id
      BY <3>1, <2>1, <1>9, SameSplit
    <3> HIDE DEF e
    <3>4. IsWhole(r, e)
      BY <3>2, <2>1, SameSettled
    <3>5. e.rel = p.rel
      BY <3>2, <3>3, <1>1 DEF IsWhole, Labelled
    <3> QED  BY <3>2, <3>3, <3>4, <3>5
  <2> HIDE DEF Alike, IsIt
  <2>6. p.cnt > 0 /\ p.cnt # 0
    BY <1>1, <1>9
  <2>7. CASE p.rel \in Sequenced /\ ~Superseded(r, p)
    <3>1. Process(r, p) = IF IsComplete(w, p.sid)
                          THEN Output(WithoutSplit(passed(w), p.sid), e) ELSE w
      BY <2>6, <2>7 DEF Process, Sequence, passed, w, e
    <3>2. WithoutSplit(passed(w), p.sid) = passed(x)
      BY <2>1 DEF WithoutSplit, passed, ReceiverTypes, Receivers, x
    <3> HIDE DEF x, e
    <3> QED  BY <3>1, <3>2, <2>3, <2>4, <2>5, <2>7, <1>5, <1>6
  <2>8. CASE p.rel \notin Sequenced
    <3>1. Process(r, p) = IF IsComplete(w, p.sid) THEN OrderOrOutput(x, e) ELSE w
      BY <2>6, <2>8 DEF Process, Reassemble, w, e, x
    <3> HIDE DEF x, e
    <3> QED  BY <3>1, <2>3, <2>4, <2>5, <2>8, <1>4, <1>6
  <2> QED  BY <2>7, <2>8, <1>7
<1> QED  BY <1>8, <1>9

LEMMA GrowsOn ==
  ASSUME NEW a, ReceiverTypes(a), NEW b, ReceiverTypes(b), NEW c, ReceiverTypes(c),
         Grows(a, b), Grows(b, c)
  PROVE  Grows(a, c)
<1>1. /\ Len(a.outputQueue) \in Nat /\ Len(b.outputQueue) \in Nat /\ Len(c.outputQueue) \in Nat
  BY DEF ReceiverTypes, Receivers
<1>2. \A i \in 1..Len(a.outputQueue) : i \in 1..Len(b.outputQueue)
  BY <1>1 DEF Grows
<1> QED  BY <1>1, <1>2 DEF Grows

LEMMA HandleMessageOrder ==
  ASSUME SenderTypes, SenderInv, NotRound, IndicesFit, IndicesNotRound,
         NEW r, ReceiverInv(r), OrderFits(r), NEW p \in Message, p \in Sent
  PROVE  OrderFits(HandleMessage(r, p)) /\ Grows(r, HandleMessage(r, p))
<1>1. /\ AskedTypes /\ SplitIds /\ Fits(p) /\ \A o \in Sent : o.num \in CircleNumbers
  BY SenderFacts
<1>2. CASE IsDuplicate(r, p) \/ TooFar(r, p)
  <2>1. HandleMessage(r, p) = Acked(r, p) /\ SameRest(r, Acked(r, p))
    BY <1>1, <1>2, AckedKeeps DEF HandleMessage
  <2> HIDE DEF HandleMessage
  <2> QED  BY <2>1 DEF SameRest, OrderFits, Grows, ReceiverInv, ReceiverTypes, Receivers
<1>3. CASE ~(IsDuplicate(r, p) \/ TooFar(r, p))
  <2> DEFINE w == PopExpired(Marked(Acked(r, p), p))
  <2>1. /\ ReceiverTypes(w) /\ Content(w) /\ Settled(w, p.id, p.idx) /\ NoneOf(w, p.id)
        /\ \A q \in w.splits : ~(q.id = p.id /\ q.idx = p.idx)
        /\ SameRest(r, w) /\ HandleMessage(r, p) = Process(w, p)
    BY <1>3, MessageIsNew
  <2> HIDE DEF w
  <2>2. OrderFits(w)
    BY <2>1 DEF SameRest, OrderFits
  <2>3. OrderFits(Process(w, p)) /\ Grows(w, Process(w, p))
    BY <2>1, <2>2, <1>1, ProcessFits
  <2>4. Grows(r, Process(w, p))
    BY <2>1, <2>3 DEF SameRest, Grows
  <2> QED  BY <2>1, <2>3, <2>4
<1> QED  BY <1>2, <1>3

LEMMA HandleAllOrder ==
  ASSUME SenderTypes, SenderInv, NotRound, IndicesFit, IndicesNotRound,
         ReceiverInv(rcv), OrderFits(rcv), NEW d \in wire
  PROVE  OrderFits(HandleAll(d)) /\ Grows(rcv, HandleAll(d))
<1> DEFINE V == {r \in Receivers : ReceiverInv(r) /\ OrderFits(r) /\ Grows(rcv, r)}
<1>1. rcv \in V
  BY DEF ReceiverInv, ReceiverTypes, Receivers, Grows
<1>2. ASSUME NEW r \in V, NEW p \in Message, p \in Sent PROVE HandleMessage(r, p) \in V
  <2> DEFINE w == HandleMessage(r, p)
  <2>1. ReceiverInv(w) /\ OrderFits(w) /\ Grows(r, w)
    BY <1>2, HandleMessageKeeps, HandleMessageOrder
  <2> HIDE DEF w
  <2>2. Grows(rcv, w)
    BY <2>1, GrowsOn DEF ReceiverInv
  <2> QED  BY <2>1, <2>2 DEF ReceiverInv, ReceiverTypes, w
<1> HIDE DEF V
<1>3. HandleAll(d) \in V
  BY <1>1, <1>2, HandleAllIn
<1> QED  BY <1>3 DEF V

-----------------------------------------------------------------------------
(* The steps and the order of the channels *)

\* The inductive invariant.
OrderInv == NotRound /\ IndicesNotRound => WriteFits /\ OrderFits(rcv)

\* What Send does to the line of its channel.
Lengthens(ch) ==
  LET a == asked'[Len(asked')] IN
  /\ a.as = "RELIABLE_ORDERED" /\ a.ch = ch /\ Turn(a.ord) = Turn(snd.ordWrite[ch])
  /\ Turn(snd'.ordWrite[ch]) = Turn(snd.ordWrite[ch]) + 1
  /\ \A c \in Channels : c # ch => snd'.ordWrite[c] = snd.ordWrite[c]

\* An ordered message takes the next index of its channel, others leave it.
LEMMA SendLengthens ==
  ASSUME SenderTypes, NEW m \in Menu, Send(m), IndicesFit, IndicesNotRound'
  PROVE  /\ \A x : Turn(x)' = Turn(x)
         /\ Len(asked') = Len(asked) + 1 /\ \A i \in 1..Len(asked) : asked'[i] = asked[i]
         /\ m.ch \in Channels
         /\ \/ Lengthens(m.ch)
            \/ /\ asked'[Len(asked')].as # "RELIABLE_ORDERED"
               /\ \A c \in Channels : snd'.ordWrite[c] = snd.ordWrite[c]
<1> DEFINE n == Len(asked)
           rel == Upgraded(m.rel)
           ch == m.ch
           rec == [rel |-> m.rel, as |-> rel, ch |-> ch, ord |-> IndexFor(rel, ch),
                   cnt |-> IF m.size > Whole THEN Len(Pieces(Packet(m, n + 1))) ELSE 1,
                   sid |-> IF m.size > Whole THEN snd.splitPacketId ELSE Unsplit]
           ord == snd.ordWrite[ch]
<1>1. ch \in Channels
  BY ReliabilityAssumption DEF SenderTypes, Menu
<1>2. /\ asked \in Seq(AskedRecord) /\ n \in Nat /\ snd \in SenderRecord /\ course \in Courses
      /\ snd.ordWrite \in [Channels -> Orders] /\ snd.ordWrite[ch] \in Orders
  BY <1>1 DEF SenderTypes, SenderRecord
<1>3. course'.first = course.first
  BY <1>2 DEF Send, Courses
<1>4. \A x : Turn(x)' = Turn(x)
  BY <1>3 DEF Turn, OrdFirst
<1>5. asked' = Append(asked, rec)
  BY DEF Send, Packet
<1>6. snd' = [snd EXCEPT
        !.splitPacketId = NextSplitId(Packet(m, n + 1)),
        !.seqWrite[ch] = IF rel \in Sequenced THEN (@ + 1) % OrdMod ELSE @,
        !.ordWrite[ch] = IF rel = "RELIABLE_ORDERED" THEN (@ + 1) % OrdMod ELSE @]
  BY DEF Send, Packet
<1>7. snd'.ordWrite = [snd.ordWrite EXCEPT ![ch] = IF rel = "RELIABLE_ORDERED"
                                                   THEN (@ + 1) % OrdMod ELSE @]
  BY <1>6, <1>2 DEF SenderRecord
<1>8. rec.as = rel /\ rec.ch = ch /\ (rel = "RELIABLE_ORDERED" => rec.ord = ord)
  BY DEF IndexFor, Sequenced
<1>9. /\ Len(asked') = n + 1 /\ asked'[Len(asked')] = rec /\ \A i \in 1..n : asked'[i] = asked[i]
  BY <1>2, <1>5
<1>10. n + 1 < OrdHalf
  BY <1>9 DEF IndicesNotRound, OrdHalf
<1> HIDE DEF rec, rel, ch, ord
<1>11. Turn((ord + 1) % OrdMod) = Turn(ord) + 1
  <2>1. ord \in Orders
    BY <1>2 DEF ord
  <2>2. Turn(ord) \in Nat /\ Turn(ord) <= n
    BY <2>1, <1>1, <1>2, TurnIs DEF IndicesFit, ord
  <2>3. Turn(ord) + 1 < OrdMod
    BY <2>2, <1>2, <1>10, OrdHalfIs
  <2> QED  BY <2>1, <2>3, <1>2, TurnNext
<1>12. CASE rel = "RELIABLE_ORDERED"
  <2>1. Lengthens(ch)
    <3>1. Turn(rec.ord) = Turn(snd.ordWrite[ch])
      BY <1>8, <1>12 DEF ord
    <3>2. snd'.ordWrite[ch] = (ord + 1) % OrdMod
      BY <1>2, <1>1, <1>7, <1>12 DEF ord
    <3>3. \A c \in Channels : c # ch => snd'.ordWrite[c] = snd.ordWrite[c]
      BY <1>2, <1>7
    <3>4. Turn(snd'.ordWrite[ch]) = Turn(snd.ordWrite[ch]) + 1
      BY <3>2, <1>11 DEF ord
    <3> QED  BY <3>1, <3>3, <3>4, <1>8, <1>9, <1>12 DEF Lengthens
  <2> QED  BY <2>1, <1>1, <1>4, <1>9 DEF ch
<1>13. CASE rel # "RELIABLE_ORDERED"
  <2>1. \A c \in Channels : snd'.ordWrite[c] = snd.ordWrite[c]
    BY <1>2, <1>7, <1>13
  <2> QED  BY <2>1, <1>1, <1>4, <1>8, <1>9, <1>13 DEF ch
<1> QED  BY <1>12, <1>13

LEMMA SendWrites ==
  ASSUME SenderTypes, NEW m \in Menu, Send(m), IndicesFit, IndicesNotRound', WriteFits
  PROVE  WriteFits'
<1>1. /\ \A x : Turn(x)' = Turn(x)
      /\ Len(asked') = Len(asked) + 1 /\ \A i \in 1..Len(asked) : asked'[i] = asked[i]
      /\ m.ch \in Channels
      /\ \/ Lengthens(m.ch)
         \/ /\ asked'[Len(asked')].as # "RELIABLE_ORDERED"
            /\ \A c \in Channels : snd'.ordWrite[c] = snd.ordWrite[c]
  BY SendLengthens
<1>2. Len(asked) \in Nat /\ \A c \in Channels : Turn(snd.ordWrite[c]) \in Nat
  BY TurnIs DEF SenderTypes, SenderRecord
<1>3. \A i \in 1..Len(asked) :
        /\ i \in 1..Len(asked') /\ \A c : InLine(i, c)' <=> InLine(i, c)
        /\ TurnOf(i)' = TurnOf(i)
  BY <1>1, <1>2 DEF InLine, TurnOf
<1>4. ASSUME NEW c \in Channels, NEW t \in 0..(Turn(snd'.ordWrite[c]) - 1)
      PROVE  \E i \in 1..Len(asked') : InLine(i, c)' /\ TurnOf(i)' = t
  <2>1. CASE t \in 0..(Turn(snd.ordWrite[c]) - 1)
    <3>1. PICK i \in 1..Len(asked) : InLine(i, c) /\ TurnOf(i) = t
      BY <2>1 DEF WriteFits
    <3> QED  BY <3>1, <1>3
  <2>2. CASE ~(t \in 0..(Turn(snd.ordWrite[c]) - 1))
    <3>1. snd'.ordWrite[c] # snd.ordWrite[c]
      BY <2>2
    <3>2. Lengthens(m.ch) /\ c = m.ch
      BY <3>1, <1>1 DEF Lengthens
    <3>3. t = Turn(snd.ordWrite[c])
      BY <3>2, <2>2, <1>2 DEF Lengthens
    <3>4. Len(asked') \in 1..Len(asked')
      BY <1>1, <1>2
    <3>5. InLine(Len(asked), c)' /\ TurnOf(Len(asked))' = t
      BY <3>2, <3>3, <1>1 DEF Lengthens, InLine, TurnOf
    <3> QED  BY <3>4, <3>5 DEF InLine, TurnOf
  <2> QED  BY <2>1, <2>2
<1>5. \A c : Turn(snd.ordWrite[c])' = Turn(snd'.ordWrite[c])
  BY <1>1
<1> QED  BY <1>4, <1>5 DEF WriteFits

LEMMA StepOrder ==
  ASSUME SenderTypes, SenderInv, NotRound, IndicesFit, IndicesNotRound,
         ReceiverInv(rcv), OrderFits(rcv), [Next]_vars
  PROVE  \E r : OrderFits(r) /\ Grows(rcv, r) /\ rcv' = r
<1>1. CASE rcv'.outputQueue = rcv.outputQueue /\ rcv'.ordRead = rcv.ordRead
  <2>1. PICK r : r = rcv'
    OBVIOUS
  <2>2. Len(rcv.outputQueue) \in Nat
    BY DEF ReceiverInv, ReceiverTypes, Receivers
  <2>3. r.outputQueue = rcv.outputQueue /\ r.ordRead = rcv.ordRead /\ rcv' = r
    BY <2>1, <1>1
  <2>4. OrderFits(r)
    BY <2>3 DEF OrderFits
  <2>5. Grows(rcv, r)
    BY <2>2, <2>3 DEF Grows
  <2> QED  BY <2>3, <2>4, <2>5
<1>2. CASE \E d \in wire : Receive(d)
  BY <1>2, HandleAllOrder DEF Receive
<1>3. CASE (\E m \in Menu : Send(m)) \/ GenerateDatagram \/ DieOfSilence \/ Lose \/ Mature
           \/ (\E a \in acksOnWire : ReceiveAcks(a)) \/ UNCHANGED vars
  BY <1>3, <1>1 DEF Send, GenerateDatagram, DieOfSilence, Lose, Mature, ReceiveAcks, vars
<1>4. CASE SendAcks \/ ForgetSplit \/ Tick
  <2>1. rcv'.outputQueue = rcv.outputQueue /\ rcv'.ordRead = rcv.ordRead
    BY <1>4 DEF SendAcks, ForgetSplit, WithoutSplit, Tick, ReceiverInv, ReceiverTypes, Receivers
  <2> QED  BY <2>1, <1>1
<1> QED  BY <1>2, <1>3, <1>4 DEF Next

LEMMA OrderCarried ==
  ASSUME NEW r, ReceiverTypes(r), OrderFits(r), rcv' = r, SenderTypes, SenderTypes', SettledStays
  PROVE  OrderFits(rcv)'
<1>1. \A n : Turn(n)' = Turn(n)
  BY DEF Turn, OrdFirst, SettledStays
<1>2. Len(asked) \in Nat /\ Len(asked') \in Nat /\ Len(asked) <= Len(asked')
  BY DEF SenderTypes, SettledStays
<1>3. \A c \in Channels : Turn(r.ordRead[c]) \in Nat
  BY TurnIs DEF ReceiverTypes, Receivers, SenderTypes
<1>4. \A c \in Channels : Turn(r.ordRead[c]) <= Len(asked')
  BY <1>2, <1>3 DEF OrderFits
<1> QED  BY <1>1, <1>4 DEF OrderFits

LEMMA OrderStep ==
  ASSUME Inv, Inv', SequenceInv, OrderInv, [Next]_vars
  PROVE  OrderInv' /\ (NotRound' /\ IndicesNotRound' => \E r : Grows(rcv, r) /\ rcv' = r)
<1>1. SenderTypes /\ SenderTypes' /\ SettledStays
  BY EveryStep DEF Inv
<1> SUFFICES ASSUME NotRound', IndicesNotRound'
             PROVE  WriteFits' /\ OrderFits(rcv)' /\ \E r : Grows(rcv, r) /\ rcv' = r
  BY DEF OrderInv
<1>2. NotRound /\ IndicesNotRound
  BY <1>1, EveryStep
<1>3. SenderInv /\ ReceiverInv(rcv) /\ IndicesFit /\ WriteFits /\ OrderFits(rcv)
  BY <1>2 DEF Inv, SequenceInv, OrderInv
<1>4. WriteFits'
  <2>1. CASE \E m \in Menu : Send(m)
    BY <2>1, <1>1, <1>3, SendWrites
  <2>2. CASE ~\E m \in Menu : Send(m)
    <3>1. UNCHANGED <<asked, course.first, snd.seqWrite, snd.ordWrite>>
      BY <2>2, <1>1, IndicesUnchanged
    <3> QED  BY <3>1, <1>3 DEF WriteFits, InLine, TurnOf, Turn, OrdFirst
  <2> QED  BY <2>1, <2>2
<1>5. PICK r : OrderFits(r) /\ Grows(rcv, r) /\ rcv' = r
  BY <1>1, <1>2, <1>3, StepOrder
<1>6. ReceiverTypes(r)
  <2>1. ReceiverTypes(rcv)'
    BY DEF Inv, ReceiverInv
  <2> QED  BY <2>1, <1>5 DEF ReceiverTypes, Receivers
<1>7. OrderFits(rcv)'
  BY <1>1, <1>5, <1>6, OrderCarried
<1> QED  BY <1>4, <1>5, <1>7

LEMMA OrderAtStart ==
  ASSUME Init
  PROVE  OrderInv
<1>1. PICK n \in plan.starts : /\ snd = SenderStart(n) /\ rcv = ReceiverStart(n)
                               /\ course = [first |-> n, count |-> 0, splits |-> 0]
  BY DEF Init
<1>2. asked = <<>> /\ Len(asked) = 0
  BY DEF Init
<1>3. n % OrdMod \in Nat
  <2>1. n \in Nat /\ OrdMod \in Nat \ {0}
    BY ReliabilityAssumption DEF Init
  <2> QED  BY <2>1
<1>4. Turn(n % OrdMod) = 0
  BY <1>1, <1>3 DEF Turn, OrdFirst
<1>5. WriteFits
  BY <1>1, <1>4 DEF WriteFits, SenderStart
<1>6. OrderFits(rcv)
  BY <1>1, <1>2, <1>4 DEF OrderFits, ReceiverStart
<1> QED  BY <1>5, <1>6 DEF OrderInv

\* Every index below the next was given to a message, and every one below what a
\* channel waits for was delivered, in order.
THEOREM OrderInvariant == Spec => []OrderInv
<1>1. Init => OrderInv
  BY OrderAtStart
<1>2. Inv /\ Inv' /\ SequenceInv /\ OrderInv /\ [Next]_vars => OrderInv'
  BY OrderStep
<1> QED  BY <1>1, <1>2, ReliabilityInvariant, SequenceInvariant, PTL DEF Spec

-----------------------------------------------------------------------------
(* What was asked to be sequenced *)

\* It goes sequenced or, in the first minute, ordered.
WentAs == \A i \in 1..Len(asked) : asked[i].rel \in Sequenced => asked[i].as \in Indexed

LEMMA WentAsStep ==
  ASSUME SenderTypes, WentAs, [Next]_vars
  PROVE  WentAs'
<1>1. CASE \E m \in Menu : Send(m)
  <2>1. PICK m \in Menu : Send(m)
    BY <1>1
  <2>2. m.rel \in Sequenced => Upgraded(m.rel) \in Indexed
    BY DEF Upgraded, Sequenced, Indexed
  <2>3. \E c, s : asked' = Append(asked, [rel |-> m.rel, as |-> Upgraded(m.rel), ch |-> m.ch,
                                           ord |-> IndexFor(Upgraded(m.rel), m.ch),
                                           cnt |-> c, sid |-> s])
    BY <2>1 DEF Send, Packet
  <2>4. PICK new : asked' = Append(asked, new) /\ (new.rel \in Sequenced => new.as \in Indexed)
    BY <2>2, <2>3
  <2>5. asked \in Seq(AskedRecord) /\ Len(asked) \in Nat
    BY DEF SenderTypes
  <2>6. /\ Len(asked') = Len(asked) + 1 /\ asked'[Len(asked) + 1] = new
        /\ \A i \in 1..Len(asked) : asked'[i] = asked[i]
    BY <2>4, <2>5
  <2>7. \A i \in 1..Len(asked') : i \in 1..Len(asked) \/ i = Len(asked) + 1
    BY <2>5, <2>6
  <2> QED  BY <2>4, <2>6, <2>7 DEF WentAs
<1>2. CASE ~\E m \in Menu : Send(m)
  <2>1. UNCHANGED asked
    BY <1>2, IndicesUnchanged
  <2> QED  BY <2>1 DEF WentAs
<1> QED  BY <1>1, <1>2

LEMMA WentAsHolds == Spec => []WentAs
<1>1. Init => WentAs
  BY DEF Init, WentAs
<1>2. Inv /\ WentAs /\ [Next]_vars => WentAs'
  BY WentAsStep DEF Inv
<1> QED  BY <1>1, <1>2, ReliabilityInvariant, PTL DEF Spec

\* So no message that was asked to be sequenced is delivered after a newer one of
\* its channel that went as it did: sequenced, by the comparison on the circle of
\* indices, or ordered in the first minute, by the line of the channel.
THEOREM NeverBackwards == Spec => [](NotRound /\ IndicesNotRound => SequenceMovesForward)
<1>1. ASSUME Inv, SequenceInv, OrderInv, WentAs, NotRound, IndicesNotRound
      PROVE  SequenceMovesForward
  <2> DEFINE out == rcv.outputQueue
  <2>1. /\ SenderTypes /\ ReceiverTypes(rcv) /\ OutputFits(rcv)
        /\ IndicesFit /\ SequenceFits(rcv) /\ OrderFits(rcv)
    BY <1>1 DEF Inv, SequenceInv, OrderInv, ReceiverInv
  <2>2. out \in Seq(Entry) /\ DOMAIN out = 1..Len(out) /\ DOMAIN Delivered = DOMAIN out
    BY <2>1 DEF ReceiverTypes, Receivers, Delivered
  <2> SUFFICES ASSUME NEW i \in DOMAIN Delivered, NEW j \in DOMAIN Delivered,
                      InTurn(i, j), WentAlike(i, j)
               PROVE  Delivered[i] < Delivered[j]
    BY DEF SequenceMovesForward
  <2> DEFINE a == out[i].parts[1]   b == out[j].parts[1]
  <2>3. /\ i \in 1..Len(out) /\ j \in 1..Len(out) /\ i < j
        /\ Delivered[i] = a /\ Delivered[j] = b
        /\ asked[a].rel \in Sequenced /\ asked[b].rel \in Sequenced /\ asked[a].ch = asked[b].ch
        /\ asked[a].as \in Sequenced <=> asked[b].as \in Sequenced
    BY <2>2 DEF Delivered, InTurn, WentAlike
  <2>4. /\ a \in 1..Len(asked) /\ b \in 1..Len(asked) /\ a # b
        /\ out[i].rel = asked[a].as /\ out[i].ch = asked[a].ch /\ out[i].ord = asked[a].ord
        /\ out[j].rel = asked[b].as /\ out[j].ch = asked[b].ch /\ out[j].ord = asked[b].ord
    <3>1. /\ \A k \in 1..Len(out) : IsWhole(rcv, out[k])
          /\ \A k, l \in 1..Len(out) : out[k].parts[1] = out[l].parts[1] => k = l
      BY <2>1 DEF OutputFits
    <3>2. i # j
      BY <2>3, <2>2
    <3>3. a # b
      BY <2>3, <3>1, <3>2
    <3>4. /\ a \in 1..Len(asked) /\ Labelled(out[i], asked[a])
          /\ b \in 1..Len(asked) /\ Labelled(out[j], asked[b])
      BY <2>3, <3>1 DEF IsWhole
    <3> QED  BY <3>3, <3>4 DEF Labelled
  <2>5. asked[a] \in AskedRecord /\ asked[b] \in AskedRecord
    <3>1. asked \in Seq(AskedRecord)
      BY <2>1 DEF SenderTypes
    <3> QED  BY <2>4, <3>1, ElementOfSeq
  <2> HIDE DEF out, a, b
  <2>6. CASE asked[a].as \in Sequenced
    BY <2>1, <2>3, <2>4, <2>6 DEF SequenceFits, out, a, b
  <2>7. CASE asked[a].as \notin Sequenced
    <3>1. asked[a].as = "RELIABLE_ORDERED" /\ asked[b].as = "RELIABLE_ORDERED"
      BY <1>1, <2>3, <2>4, <2>7 DEF WentAs, Indexed
    <3>2. Turn(asked[a].ord) < Turn(asked[b].ord)
      <4>1. asked[a].ch \in Channels
        BY <2>5 DEF AskedRecord
      <4>2. IsOf(out[i], asked[a].ch) /\ IsOf(out[j], asked[a].ch)
        BY <2>3, <2>4, <3>1 DEF IsOf
      <4> QED  BY <2>1, <2>3, <2>4, <4>1, <4>2 DEF OrderFits, out
    <3>3. CASE b < a
      <4>1. Turn(asked[b].ord) < Turn(asked[a].ord)
        BY <2>1, <2>3, <2>4, <3>1, <3>3 DEF IndicesFit, SameLine, Indexed
      <4>2. asked[a].ord \in Orders /\ asked[b].ord \in Orders
        BY <2>5 DEF AskedRecord
      <4>3. Turn(asked[a].ord) \in Nat /\ Turn(asked[b].ord) \in Nat
        BY <2>1, <4>2, TurnIs DEF SenderTypes
      <4> QED  BY <3>2, <4>1, <4>3
    <3> QED  BY <2>3, <2>4, <3>3
  <2> QED  BY <2>6, <2>7
<1>2. Inv /\ SequenceInv /\ OrderInv /\ WentAs => (NotRound /\ IndicesNotRound => SequenceMovesForward)
  BY <1>1
<1> QED  BY <1>2, ReliabilityInvariant, SequenceInvariant, OrderInvariant, WentAsHolds, PTL

-----------------------------------------------------------------------------
(* The channels implement the abstract streams *)

\* Two sequences have the same n elements at the front.
SameUpTo(a, b, n) == \A k \in 1..n : a[k] = b[k]

\* What is of one line and not longer is the beginning of the other.
LinesAgree ==
  \A c \in Channels : \A p, q \in Nat : \A a, b :
    IsLine(a, c, p) /\ IsLine(b, c, q) /\ p <= q =>
      IsPrefix(a, b) /\ (p = q => a = b) /\ SameUpTo(a, b, p)

\* There is nothing in the line that Send has not put there.
LinesEnd ==
  \A c \in Channels : \A p \in Nat : \A a :
    IsLine(a, c, p) => /\ p <= Turn(snd.ordWrite[c])
                       /\ \A i \in 1..Len(asked) : \A k \in 1..p :
                            InLine(i, c) /\ TurnOf(i) = k - 1 => a[k] = i

LEMMA LinesHold ==
  ASSUME SenderTypes, IndicesFit
  PROVE  LinesAgree /\ LinesEnd
<1>1. AskedTypes /\ course \in Courses /\ asked \in Seq(AskedRecord)
  BY DEF SenderTypes, AskedTypes
<1>2. ASSUME NEW i \in 1..Len(asked)
      PROVE  asked[i].ord \in Orders /\ asked[i].ch \in Channels /\ TurnOf(i) \in Nat
  <2>1. asked[i] \in AskedRecord
    BY <1>1, ElementOfSeq
  <2>2. asked[i].ord \in Orders /\ asked[i].ch \in Channels
    BY <2>1 DEF AskedRecord
  <2> QED  BY <2>2, <1>1, TurnIs DEF TurnOf
<1>3. ASSUME NEW c, NEW i \in 1..Len(asked), NEW j \in 1..Len(asked), InLine(i, c), InLine(j, c),
             TurnOf(i) = TurnOf(j)
      PROVE  i = j
  <2>1. asked[i].ord = asked[j].ord
    BY <1>1, <1>2, <1>3, TurnIs DEF TurnOf
  <2> QED  BY <2>1, <1>1, <1>3, OrdersApart DEF InLine
<1>4. ASSUME NEW c \in Channels, NEW p \in Nat, NEW a, IsLine(a, c, p)
      PROVE  /\ a \in Seq(1..Len(asked)) /\ Len(a) = p
             /\ \A k \in 1..p : a[k] \in 1..Len(asked) /\ InLine(a[k], c) /\ TurnOf(a[k]) = k - 1
  BY <1>4 DEF IsLine
<1>5. LinesAgree
  <2> SUFFICES ASSUME NEW c \in Channels, NEW p \in Nat, NEW q \in Nat, NEW a, NEW b,
                      IsLine(a, c, p), IsLine(b, c, q), p <= q
               PROVE  IsPrefix(a, b) /\ (p = q => a = b) /\ SameUpTo(a, b, p)
    BY DEF LinesAgree
  <2>1. \A k \in 1..p : a[k] = b[k]
    <3> TAKE k \in 1..p
    <3>1. k \in 1..q
      OBVIOUS
    <3>2. /\ a[k] \in 1..Len(asked) /\ InLine(a[k], c) /\ TurnOf(a[k]) = k - 1
          /\ b[k] \in 1..Len(asked) /\ InLine(b[k], c) /\ TurnOf(b[k]) = k - 1
      BY <3>1, <1>4
    <3> QED  BY <3>2, <1>3
  <2>2. /\ a \in Seq(1..Len(asked)) /\ Len(a) = p /\ b \in Seq(1..Len(asked)) /\ Len(b) = q
    BY <1>4
  <2>3. IsPrefix(a, b)
    <3>1. SubSeq(a, 1, p) = SubSeq(b, 1, p)
      BY <2>1, <2>2
    <3> QED  BY <3>1, <2>2 DEF IsPrefix
  <2>4. p = q => a = b
    BY <2>1, <2>2
  <2> QED  BY <2>1, <2>3, <2>4 DEF SameUpTo
<1>6. LinesEnd
  <2> SUFFICES ASSUME NEW c \in Channels, NEW p \in Nat, NEW a, IsLine(a, c, p)
               PROVE  /\ p <= Turn(snd.ordWrite[c])
                      /\ \A i \in 1..Len(asked) : \A k \in 1..p :
                           InLine(i, c) /\ TurnOf(i) = k - 1 => a[k] = i
    BY DEF LinesEnd
  <2>1. \A i \in 1..Len(asked) : \A k \in 1..p : InLine(i, c) /\ TurnOf(i) = k - 1 => a[k] = i
    BY <1>3, <1>4
  <2>2. Turn(snd.ordWrite[c]) \in Nat
    BY <1>1, TurnIs DEF SenderTypes, SenderRecord
  <2>3. CASE p = 0
    BY <2>1, <2>2, <2>3
  <2>4. CASE p # 0
    <3>1. p \in 1..p
      BY <2>4
    <3>2. a[p] \in 1..Len(asked) /\ InLine(a[p], c) /\ TurnOf(a[p]) = p - 1
      BY <3>1, <1>4
    <3>3. asked[a[p]].as \in Indexed /\ NextIndex(asked[a[p]]) = snd.ordWrite[c]
      BY <3>2 DEF InLine, Indexed, Sequenced, NextIndex
    <3>4. TurnOf(a[p]) < Turn(snd.ordWrite[c])
      BY <3>2, <3>3 DEF IndicesFit, TurnOf
    <3> QED  BY <3>2, <3>4, <2>1, <2>2
  <2> QED  BY <2>3, <2>4
<1> QED  BY <1>5, <1>6

\* A line is still one when more is asked.
LEMMA LineStays ==
  ASSUME SenderTypes, SenderTypes', SettledStays, NEW c, NEW n \in Nat, NEW l, IsLine(l, c, n)
  PROVE  IsLine(l, c, n)'
<1>1. \A x : Turn(x)' = Turn(x)
  BY DEF Turn, OrdFirst, SettledStays
<1>2. Len(asked) \in Nat /\ Len(asked') \in Nat /\ Len(asked) <= Len(asked')
      /\ \A i \in 1..Len(asked) : asked'[i] = asked[i] /\ i \in 1..Len(asked')
  BY DEF SenderTypes, SettledStays
<1>3. l \in Seq(1..Len(asked)) /\ Len(l) = n
  BY DEF IsLine
<1>4. l \in Seq(1..Len(asked'))
  <2>1. \A k \in 1..n : l[k] \in 1..Len(asked')
    BY <1>2, <1>3
  <2>2. l = [k \in 1..n |-> l[k]]
    BY <1>3
  <2> QED  BY <2>1, <2>2
<1>5. ASSUME NEW k \in 1..n PROVE InLine(l[k], c)' /\ TurnOf(l[k])' = k - 1
  <2>1. l[k] \in 1..Len(asked) /\ InLine(l[k], c) /\ TurnOf(l[k]) = k - 1
    BY <1>3 DEF IsLine
  <2> QED  BY <2>1, <1>1, <1>2 DEF InLine, TurnOf
<1> QED  BY <1>3, <1>4, <1>5 DEF IsLine

\* What a channel waits for moves on.
LEMMA ReadMovesOn ==
  ASSUME SenderTypes, SenderTypes', SettledStays, ReceiverTypes(rcv), ReceiverTypes(rcv)',
         OrderFits(rcv), OrderFits(rcv)', NEW r, Grows(rcv, r), rcv' = r, NEW c \in Channels
  PROVE  Turn(rcv.ordRead[c]) <= Turn(rcv.ordRead[c])'
<1> DEFINE out == rcv.outputQueue  n == Turn(rcv.ordRead[c])
<1>1. ReceiverTypes(r)
  BY DEF ReceiverTypes, Receivers
<1>2. \A x : Turn(x)' = Turn(x)
  BY DEF Turn, OrdFirst, SettledStays
<1>3. rcv.ordRead[c] \in Orders /\ r.ordRead[c] \in Orders /\ course \in Courses
      /\ Len(out) \in Nat /\ Len(r.outputQueue) \in Nat
  BY <1>1 DEF ReceiverTypes, Receivers, SenderTypes
<1>4. n \in Nat /\ Turn(r.ordRead[c]) \in Nat
  BY <1>3, TurnIs
<1>5. n' = Turn(r.ordRead[c])
  BY <1>2
<1>6. \A t \in 0..(n - 1) : \E i \in 1..Len(out) : IsOf(out[i], c) /\ Turn(out[i].ord) = t
  BY DEF OrderFits
<1>7. \A i \in 1..Len(r.outputQueue) :
        IsOf(r.outputQueue[i], c) => Turn(r.outputQueue[i].ord) < Turn(r.ordRead[c])
  BY <1>2 DEF OrderFits
<1> SUFFICES ASSUME Turn(r.ordRead[c]) < n PROVE FALSE
  BY <1>3, <1>4, <1>5
<1>8. PICK i \in 1..Len(out) : IsOf(out[i], c) /\ Turn(out[i].ord) = Turn(r.ordRead[c])
  <2>1. Turn(r.ordRead[c]) \in 0..(n - 1)
    BY <1>4
  <2> QED  BY <2>1, <1>6
<1>9. i \in 1..Len(r.outputQueue) /\ r.outputQueue[i] = out[i]
  BY <1>3 DEF Grows
<1> QED  BY <1>4, <1>7, <1>8, <1>9

\* What a step of the streams needs to know before and after it.
InOrderHere ==
  /\ SenderTypes /\ LinesFit /\ LinesAgree /\ LinesEnd
  /\ ReceiverTypes(rcv) /\ OrderFits(rcv) /\ IndicesFit

LEMMA OrderHolds ==
  ASSUME Inv, SequenceInv, OrderInv, NotRound, IndicesNotRound
  PROVE  InOrderHere
<1>1. /\ SenderTypes /\ ReceiverTypes(rcv) /\ OutputFits(rcv) /\ IndicesFit
      /\ WriteFits /\ OrderFits(rcv)
  BY DEF Inv, ReceiverInv, SequenceInv, OrderInv
<1> QED  BY <1>1, LinesAre, LinesHold DEF InOrderHere

AskedSent == OfChannels([i \in DOMAIN asked |-> i])
CameOut == OfChannels(Delivered)

\* Every step of the layer sends one ordered message or lets some come out.
LEMMA StreamStep ==
  ASSUME InOrderHere, InOrderHere', SettledStays, [Next]_vars, IndicesNotRound',
         NEW r, Grows(rcv, r), rcv' = r
  PROVE  [Stream!Next]_<<AskedSent, CameOut>>
<1>1. SenderTypes /\ SenderTypes' /\ IndicesFit /\ LinesFit /\ LinesFit' /\ ReceiverTypes(rcv)
      /\ ReceiverTypes(rcv)' /\ OrderFits(rcv) /\ OrderFits(rcv)' /\ LinesAgree' /\ LinesEnd'
  BY DEF InOrderHere
<1>2. /\ course \in Courses /\ course' \in Courses /\ Len(asked) \in Nat /\ Len(asked') \in Nat
      /\ \A c \in Channels : /\ snd.ordWrite[c] \in Orders /\ snd'.ordWrite[c] \in Orders
                             /\ rcv.ordRead[c] \in Orders /\ rcv'.ordRead[c] \in Orders
  BY <1>1 DEF SenderTypes, SenderRecord, ReceiverTypes, Receivers
<1>3. \A x : Turn(x)' = Turn(x)
  BY DEF Turn, OrdFirst, SettledStays
<1>4. PICK s, t, o, u : s = AskedSent /\ t = AskedSent' /\ o = CameOut /\ u = CameOut'
  OBVIOUS
<1>5. /\ s = [c \in Channels |-> s[c]] /\ t = [c \in Channels |-> t[c]]
      /\ o = [c \in Channels |-> o[c]] /\ u = [c \in Channels |-> u[c]]
  BY <1>4 DEF AskedSent, CameOut, OfChannels
<1>6. PICK wrote, writes, read, reads :
        /\ wrote = [c \in Channels |-> Turn(snd.ordWrite[c])]
        /\ writes = [c \in Channels |-> Turn(snd'.ordWrite[c])]
        /\ read = [c \in Channels |-> Turn(rcv.ordRead[c])]
        /\ reads = [c \in Channels |-> Turn(rcv'.ordRead[c])]
  OBVIOUS
<1>7. ASSUME NEW c \in Channels
      PROVE  /\ wrote[c] \in Nat /\ writes[c] \in Nat /\ read[c] \in Nat /\ reads[c] \in Nat
             /\ wrote[c] = Turn(snd.ordWrite[c]) /\ writes[c] = Turn(snd'.ordWrite[c])
             /\ read[c] = Turn(rcv.ordRead[c]) /\ reads[c] = Turn(rcv'.ordRead[c])
  BY <1>2, <1>6, TurnIs
<1>8. ASSUME NEW c \in Channels
      PROVE  /\ IsLine(s[c], c, wrote[c]) /\ IsLine(o[c], c, read[c])
             /\ IsLine(t[c], c, writes[c])' /\ IsLine(u[c], c, reads[c])'
  <2>1. IsLine(AskedSent[c], c, Turn(snd.ordWrite[c])) /\ IsLine(CameOut[c], c, Turn(rcv.ordRead[c]))
    BY <1>1 DEF LinesFit, AskedSent, CameOut
  <2>2. /\ IsLine(AskedSent[c], c, Turn(snd.ordWrite[c]))'
        /\ IsLine(CameOut[c], c, Turn(rcv.ordRead[c]))'
    BY <1>1 DEF LinesFit, AskedSent, CameOut
  <2>3. Turn(snd.ordWrite[c])' = writes[c] /\ Turn(rcv.ordRead[c])' = reads[c]
    BY <1>3, <1>7
  <2>4. IsLine(s[c], c, wrote[c]) /\ IsLine(o[c], c, read[c])
    BY <2>1, <1>4, <1>7
  <2>5. AskedSent[c]' = t[c] /\ CameOut[c]' = u[c]
    BY <1>4
  <2>6. IsLine(t[c], c, writes[c])' /\ IsLine(u[c], c, reads[c])'
    BY <2>2, <2>3, <2>5 DEF IsLine
  <2> QED  BY <2>4, <2>6
<1>9. ASSUME NEW c \in Channels
      PROVE  IsLine(s[c], c, wrote[c])' /\ IsLine(o[c], c, read[c])'
  BY <1>1, <1>7, <1>8, LineStays
<1>10. ASSUME NEW c \in Channels
       PROVE  /\ read[c] <= reads[c] /\ reads[c] <= writes[c]
              /\ \A i \in 1..Len(asked') : \A k \in 1..writes[c] :
                   InLine(i, c)' /\ TurnOf(i)' = k - 1 => t[c][k] = i
  <2>1. read[c] <= reads[c]
    BY <1>1, <1>3, <1>7, ReadMovesOn
  <2>2. reads[c] <= Turn(snd.ordWrite[c])'
    BY <1>1, <1>7, <1>8 DEF LinesEnd
  <2>3. \A i \in 1..Len(asked') : \A k \in 1..writes[c] :
          InLine(i, c)' /\ TurnOf(i)' = k - 1 => t[c][k] = i
    BY <1>1, <1>7, <1>8 DEF LinesEnd
  <2> QED  BY <2>1, <2>2, <2>3, <1>3, <1>7
<1>11. ASSUME NEW c \in Channels, NEW p \in Nat, NEW q \in Nat, NEW a, NEW b,
              IsLine(a, c, p)', IsLine(b, c, q)', p <= q
       PROVE  IsPrefix(a, b) /\ (p = q => a = b) /\ SameUpTo(a, b, p)
  <2>1. \A d \in Channels : \A x, y \in Nat : \A l, k :
          IsLine(l, d, x)' /\ IsLine(k, d, y)' /\ x <= y =>
            IsPrefix(l, k) /\ (x = y => l = k) /\ SameUpTo(l, k, x)
    BY <1>1 DEF LinesAgree
  <2> QED  BY <2>1, <1>11
<1>12. \A c \in Channels : IsPrefix(o[c], u[c]) /\ IsPrefix(u[c], t[c])
  BY <1>7, <1>8, <1>9, <1>10, <1>11
<1>13. CASE \A c \in Channels : snd'.ordWrite[c] = snd.ordWrite[c]
  <2>1. \A c \in Channels : writes[c] = wrote[c] /\ wrote[c] <= writes[c]
    BY <1>7, <1>13
  <2>2. ASSUME NEW c \in Channels PROVE s[c] = t[c]
    <3>1. IsLine(s[c], c, wrote[c])' /\ IsLine(t[c], c, writes[c])'
      BY <1>8, <1>9
    <3>2. writes[c] = wrote[c] /\ wrote[c] \in Nat /\ wrote[c] <= writes[c]
      BY <2>1, <1>7
    <3> QED  BY <3>1, <3>2, <1>11
  <2>3. s = t
    BY <2>2, <1>5
  <2>4. Stream!Receive
    BY <2>3, <1>4, <1>12 DEF Stream!Receive, AskedSent, CameOut, Stream!IsPrefix, IsPrefix
  <2> QED  BY <2>4 DEF Stream!Next
<1>14. ASSUME NEW m \in Menu, Send(m), Lengthens(m.ch)
       PROVE  Stream!Next
  <2> DEFINE ch == m.ch
  <2>0. PICK n : n = Len(asked')
    OBVIOUS
  <2>1. /\ ch \in Channels /\ n = Len(asked) + 1
    BY <2>0, <1>1, <1>14, SendLengthens
  <2>2. n \in Ids /\ n \in 1..n
    <3>1. n <= plan.sends /\ plan.sends \in 0..MaxSends /\ MaxSends \in Nat
      BY <1>1, <1>14, <2>1, ReliabilityAssumption DEF Send, SenderTypes
    <3> QED  BY <3>1, <2>1, <1>2 DEF Ids
  <2>3. /\ writes[ch] = wrote[ch] + 1
        /\ \A c \in Channels : c # ch => writes[c] = wrote[c]
    BY <2>1, <1>7, <1>14 DEF Lengthens
  <2>4. InLine(Len(asked), ch)' /\ TurnOf(Len(asked))' = wrote[ch]
    BY <2>1, <1>3, <1>7, <1>14 DEF Lengthens, InLine, TurnOf
  <2>5. InLine(n, ch)' /\ TurnOf(n)' = wrote[ch]
    BY <2>0, <2>4 DEF InLine, TurnOf
  <2> HIDE DEF ch
  <2>6. t[ch][wrote[ch] + 1] = n
    <3>1. wrote[ch] + 1 \in 1..writes[ch] /\ (wrote[ch] + 1) - 1 = wrote[ch]
      BY <2>1, <2>3, <1>7
    <3> QED  BY <3>1, <2>0, <2>1, <2>2, <2>5, <1>10
  <2>7. \A k \in 1..wrote[ch] : s[ch][k] = t[ch][k]
    <3>1. IsLine(s[ch], ch, wrote[ch])' /\ IsLine(t[ch], ch, writes[ch])'
      BY <2>1, <1>8, <1>9
    <3>2. wrote[ch] \in Nat /\ writes[ch] \in Nat /\ wrote[ch] <= writes[ch]
      BY <2>1, <2>3, <1>7
    <3>3. SameUpTo(s[ch], t[ch], wrote[ch])
      BY <3>1, <3>2, <2>1, <1>11
    <3> QED  BY <3>3 DEF SameUpTo
  <2>8. /\ s[ch] \in Seq(1..Len(asked')) /\ Len(s[ch]) = wrote[ch]
        /\ t[ch] \in Seq(1..Len(asked')) /\ Len(t[ch]) = wrote[ch] + 1
    BY <2>1, <2>3, <1>8, <1>9 DEF IsLine
  <2>9. t[ch] = Append(s[ch], n)
    BY <2>6, <2>7, <2>8
  <2>10. ASSUME NEW c \in Channels, c # ch PROVE t[c] = s[c]
    <3>1. IsLine(s[c], c, wrote[c])' /\ IsLine(t[c], c, writes[c])'
      BY <1>8, <1>9
    <3>2. writes[c] = wrote[c] /\ wrote[c] \in Nat /\ wrote[c] <= writes[c]
      BY <2>3, <2>10, <1>7
    <3> QED  BY <3>1, <3>2, <1>11
  <2>11. t = [s EXCEPT ![ch] = Append(@, n)]
    BY <2>1, <2>9, <2>10, <1>5
  <2>12. o = u
    <3>1. ASSUME NEW c \in Channels PROVE o[c] = u[c]
      <4>1. IsLine(o[c], c, read[c])' /\ IsLine(u[c], c, reads[c])'
        BY <1>8, <1>9
      <4>2. reads[c] = read[c] /\ read[c] \in Nat /\ read[c] <= reads[c]
        BY <1>7, <1>14 DEF Send
      <4> QED  BY <4>1, <4>2, <1>11
    <3> QED  BY <3>1, <1>5
  <2>13. Stream!Send(ch, n)
    BY <2>11, <2>12, <1>4 DEF Stream!Send, AskedSent, CameOut
  <2> QED  BY <2>1, <2>2, <2>13 DEF Stream!Next
<1>15. CASE \E m \in Menu : Send(m)
  BY <1>1, <1>13, <1>14, <1>15, SendLengthens
<1>16. CASE ~\E m \in Menu : Send(m)
  <2>1. UNCHANGED <<asked, course.first, snd.seqWrite, snd.ordWrite>>
    BY <1>1, <1>16, IndicesUnchanged
  <2> QED  BY <2>1, <1>13
<1> QED  BY <1>15, <1>16

LEMMA StreamAtStart ==
  ASSUME Init
  PROVE  Stream!Init
<1>1. PICK n \in plan.starts : rcv = ReceiverStart(n)
  BY DEF Init
<1>2. asked = <<>> /\ rcv.outputQueue = <<>>
  BY <1>1 DEF Init, ReceiverStart
<1>3. Delivered = <<>> /\ [i \in DOMAIN asked |-> i] = <<>>
  BY <1>2 DEF Delivered
<1>4. OfChannels(<<>>) = [c \in Channels |-> <<>>]
  <2>1. \A places : Picked(<<>>, places) = <<>>
    <3> TAKE places
    <3>1. <<>> \in Seq({}) /\ Len(<<>>) = 0
      OBVIOUS
    <3>2. PICK u : Picks(u, {}, <<>>, places)
      BY <3>1, PickedSteps
    <3> QED  BY <3>1, <3>2 DEF Picks
  <2> QED  BY <2>1 DEF OfChannels
<1> QED  BY <1>3, <1>4 DEF Stream!Init

\* As long as the numbers and indices have not come round, the ordered messages of a
\* channel come out as from a queue: in the order of sending, without gaps and
\* without repetition, whatever the network and the other channels do.
THEOREM InOrder == Spec /\ [](NotRound /\ IndicesNotRound) => OrderedAsSent
<1> DEFINE H == NotRound /\ IndicesNotRound
           All == Inv /\ SequenceInv /\ OrderInv
<1>1. Init => Stream!Init
  BY StreamAtStart
<1>2. All /\ H => InOrderHere
  BY OrderHolds
<1>3. All /\ All' /\ H /\ H' /\ InOrderHere /\ InOrderHere' /\ [Next]_vars
        => [Stream!Next]_<<AskedSent, CameOut>>
  <2> SUFFICES ASSUME All, All', H, H', InOrderHere, InOrderHere', [Next]_vars
               PROVE  [Stream!Next]_<<AskedSent, CameOut>>
    OBVIOUS
  <2>1. PICK r : Grows(rcv, r) /\ rcv' = r
    BY OrderStep
  <2>2. SettledStays
    BY EveryStep DEF Inv
  <2> QED  BY <2>1, <2>2, StreamStep
<1> QED
  BY <1>1, <1>2, <1>3, ReliabilityInvariant, SequenceInvariant, OrderInvariant, PTL
     DEF Spec, OrderedAsSent, Stream!Spec, AskedSent, CameOut
=============================================================================
