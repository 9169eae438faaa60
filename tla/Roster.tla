-------------------------------- MODULE Roster --------------------------------
(***************************************************************************)
(* What character creation promises a player, whatever it does to the      *)
(* tables: a name belongs to the first account that got it and never to    *)
(* another; creation is confirmed to that account only, and only once the  *)
(* minifig is ready to be shown; it is refused only if the name is taken.  *)
(* A server that dies may leave a name taken whose minifig is never ready. *)
(***************************************************************************)
CONSTANTS AccountIds, Names, Nobody

VARIABLES
  owner,     \* the account each name belongs to
  ready,     \* names whose minifig is complete
  confirmed, \* [account, name] pairs that were told success
  refused    \* [account, name] pairs that were told the name is in use

rosterVars == <<owner, ready, confirmed, refused>>

Claim(a, n) == [account |-> a, name |-> n]

RosterInit ==
  /\ owner = [n \in Names |-> Nobody]
  /\ ready = {} /\ confirmed = {} /\ refused = {}

Register(a, n) ==
  /\ owner[n] = Nobody
  /\ owner' = [owner EXCEPT ![n] = a]
  /\ UNCHANGED <<ready, confirmed, refused>>

Confirm(a, n) ==
  /\ owner[n] = a
  /\ ready' = ready \cup {n}
  /\ confirmed' = confirmed \cup {Claim(a, n)}
  /\ UNCHANGED <<owner, refused>>

Refuse(a, n) ==
  /\ owner[n] # Nobody
  /\ refused' = refused \cup {Claim(a, n)}
  /\ UNCHANGED <<owner, ready, confirmed>>

RosterNext ==
  \E a \in AccountIds, n \in Names : Register(a, n) \/ Confirm(a, n) \/ Refuse(a, n)

RosterSpec == RosterInit /\ [][RosterNext]_rosterVars
=============================================================================
