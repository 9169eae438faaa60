-------------------------------- MODULE Fifo --------------------------------
(***************************************************************************)
(* What a queue between two threads promises: everything put in comes out  *)
(* once, unchanged and in order, unless all of it is dropped.              *)
(***************************************************************************)
EXTENDS Naturals, Sequences, SequencesExt

CONSTANT Values

VARIABLES
  inside,  \* what was put in and did not come out
  out,     \* what came out last
  drops    \* how often everything was dropped

Init == inside = <<>> /\ out = 0 /\ drops = 0

Put(before, after) ==
  /\ after # <<>> /\ Front(after) = before /\ Last(after) \in Values
  /\ UNCHANGED <<out, drops>>

Take(before, after) ==
  /\ before # <<>> /\ out' = Head(before) /\ after = Tail(before)
  /\ UNCHANGED drops

Drop(after) == after = <<>> /\ drops' = drops + 1 /\ UNCHANGED out

\* The two are looked up once.
Next ==
  \E before \in {inside}, after \in {inside'} :
    Put(before, after) \/ Take(before, after) \/ Drop(after)

Spec == Init /\ [][Next]_<<inside, out, drops>>
=============================================================================
