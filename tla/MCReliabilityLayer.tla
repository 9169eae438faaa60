------------------------- MODULE MCReliabilityLayer -------------------------
(* Instances of ReliabilityLayer for TLC: a connection that is used for one *)
(* kind of traffic, over a network with the faults that are hard for it.    *)
EXTENDS ReliabilityLayer

m(p, r, c, n) == [pri |-> p, rel |-> r, ch |-> c, size |-> n]

\* Ordered and unreliable messages, datagrams repeated and reordered, the
\* message numbers about to wrap.
Ordered ==
  [menu |-> {m(1, "RELIABLE_ORDERED", 0, 1), m(1, "UNRELIABLE", 0, 1)}, sends |-> 3,
   room |-> 2, wait |-> 1, starts |-> {14}, repeats |-> TRUE, losses |-> 0]
\* Two channels and two priorities, sent in another order than asked; a
\* datagram is lost.
TwoChannels ==
  [menu |-> {m(1, "RELIABLE_ORDERED", 0, 1), m(2, "RELIABLE_ORDERED", 1, 1),
             m(2, "RELIABLE_ORDERED", 0, 1)}, sends |-> 3,
   room |-> 2, wait |-> 1, starts |-> {15}, repeats |-> FALSE, losses |-> 1]
\* Sequenced messages, overtaking each other, the indices about to wrap, and in
\* the first minute.
InSequence ==
  [menu |-> {m(1, "RELIABLE_SEQUENCED", 0, 1), m(1, "UNRELIABLE_SEQUENCED", 0, 1)},
   sends |-> 3, room |-> 2, wait |-> 1, starts |-> {0, 14}, repeats |-> FALSE, losses |-> 0]
\* Messages of two pieces.
Split ==
  [menu |-> {m(1, "RELIABLE_ORDERED", 0, 2), m(1, "UNRELIABLE", 0, 2)}, sends |-> 2,
   room |-> 1, wait |-> 2, starts |-> {14}, repeats |-> FALSE, losses |-> 0]
\* Long sequenced messages, one overtaking the other.
LongSequence ==
  [menu |-> {m(1, "RELIABLE_SEQUENCED", 0, 2)}, sends |-> 3,
   room |-> 1, wait |-> 3, starts |-> {7}, repeats |-> FALSE, losses |-> 0]

\* A connection that is not a minute old, and then is.
FirstMinute ==
  [menu |-> {m(1, "UNRELIABLE_SEQUENCED", 0, 1)}, sends |-> 2,
   room |-> 1, wait |-> 2, starts |-> {0}, repeats |-> FALSE, losses |-> 0]

SafetyPlans == {Ordered, TwoChannels, InSequence, Split}
LongPlans == {LongSequence}
FirstPlans == {FirstMinute}
=============================================================================
