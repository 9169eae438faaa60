----------------------------- MODULE HashOracle -----------------------------
(***************************************************************************)
(* What a hash object promises: the digest depends on the bytes it was fed *)
(* and on nothing else, neither on how they were cut into pieces nor on    *)
(* what was in memory before.                                              *)
(***************************************************************************)
EXTENDS Sequences

CONSTANTS Chunks,          \* the pieces a caller may feed
          Digest(_)        \* the digest of a message

VARIABLES fed, digest      \* all bytes fed so far; the digest, once asked for

HashInit == fed = <<>> /\ digest = <<>>

Feed == /\ digest = <<>> /\ fed' # fed
        /\ \E chunk \in Chunks : fed' = fed \o chunk
        /\ UNCHANGED digest

Finish == digest = <<>> /\ digest' = Digest(fed) /\ UNCHANGED fed

HashNext == Feed \/ Finish

HashSpec == HashInit /\ [][HashNext]_<<fed, digest>>
=============================================================================
