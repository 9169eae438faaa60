----------------------------- MODULE MCDatabase -----------------------------
(* What the server processes do to the database they share, for TLC: a      *)
(* behaviour is about the table of servers and the players on their way     *)
(* through them (LoginJourney, and with it ServerRegistry), or about the    *)
(* tables of minifigs and items (MinifigCreation), which have no column in  *)
(* common.  Ports keep their order and their gaps and are counted from a    *)
(* small number instead of 2000.                                            *)
EXTENDS LoginJourney, MinifigCreation, TLC

VARIABLE scene

databaseVars == <<scene, journeyVars, creationVars>>

DatabaseInit == scene \in {"servers", "minifigs"} /\ JourneyInit /\ CreationInit

DatabaseNext ==
  /\ UNCHANGED scene
  /\ \/ scene = "servers" /\ JourneyNext /\ UNCHANGED creationVars
     \/ scene = "minifigs" /\ CreationNext /\ UNCHANGED journeyVars

DatabaseSpec == DatabaseInit /\ [][DatabaseNext]_databaseVars

\* Launches of one role, clients, creating servers, accounts and names of minifigs
\* are interchangeable.  No scene sees both the launches and the creating servers,
\* so an exchange of two of the one goes with an exchange of the other: that is
\* half as many symmetries to look through, and neither scene loses any.
IsExchange(p) == Cardinality({x \in DOMAIN p : p[x] # x}) = 2
Exchanged ==
  {both \in Permutations(Procs) \X Permutations(Servers) :
     IsExchange(both[1]) <=> IsExchange(both[2])}
Symmetry ==
  UNION {{both[1] @@ both[2] : both \in Exchanged}, Permutations(Clients),
         Permutations(AccountIds), Permutations(Names)}

\* Ann and ann are one name to the database; bob is banned.
SomeAccounts ==
  {[name |-> "Ann", password |-> "x", banned |-> FALSE],
   [name |-> "ann", password |-> "y", banned |-> FALSE],
   [name |-> "bob", password |-> "x", banned |-> TRUE]}
SomeLogins ==
  {[name |-> "Ann", password |-> "x"], [name |-> "bob", password |-> "x"],
   [name |-> "bob", password |-> "y"]}
OneLogin == {[name |-> "Ann", password |-> "x"]}
CaseFolded == [n \in {"Ann", "ann", "bob"} |-> IF n = "Ann" THEN "ann" ELSE n]
=============================================================================
