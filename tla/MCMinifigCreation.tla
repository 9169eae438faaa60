-------------------------- MODULE MCMinifigCreation --------------------------
(* Two servers that create minifigs, for TLC. *)
EXTENDS MinifigCreation
=============================================================================
