--------------------------- MODULE OrderedStream ---------------------------
(***************************************************************************)
(* What ordered channels promise: what one side sends on a channel the     *)
(* other side receives once, in the order of sending and without gaps.     *)
(***************************************************************************)
EXTENDS Naturals, Sequences, SequencesExt

CONSTANTS Channels, Values

VARIABLES
  sent,       \* per channel, everything sent on it
  received    \* per channel, what came out of it

Init ==
  /\ sent = [c \in Channels |-> <<>>]
  /\ received = [c \in Channels |-> <<>>]

Send(c, v) ==
  /\ sent' = [sent EXCEPT ![c] = Append(@, v)]
  /\ UNCHANGED received

\* The oldest messages that did not come out yet, on any of the channels.
Receive ==
  /\ \A c \in Channels : \E out \in {received'[c]} :
       IsPrefix(received[c], out) /\ IsPrefix(out, sent[c])
  /\ UNCHANGED sent

Next == Receive \/ \E c \in Channels, v \in Values : Send(c, v)

Spec == Init /\ [][Next]_<<sent, received>>
=============================================================================
