-------------------------- MODULE MCServerRegistry --------------------------
(* Instances of ServerRegistry for TLC.  Ports keep their order and their   *)
(* gaps and are counted from a small number instead of 2000.                *)
EXTENDS ServerRegistry
=============================================================================
