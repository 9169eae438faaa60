---------------------------- MODULE LoginJourney ----------------------------
(***************************************************************************)
(* A player's way from the login form to a zone, over the fleet of         *)
(* ServerRegistry.  Any running server answers a login (handleLoginPacket, *)
(* lwoAuthPackets.cpp): it looks the account up, then the character        *)
(* server, and tells the client both results.  The client connects to the  *)
(* character server, picks a minifig, is directed to the zone's server and *)
(* enters it.                                                              *)
(***************************************************************************)
EXTENDS ServerRegistry

CONSTANTS
  Accounts,     \* rows of `accounts`: [name, password, banned]
  Logins,       \* what players type: [name, password]
  Fold,         \* names the database takes for equal have the same image
  NoLogin       \* nothing was typed

ASSUME AccountAssumption ==
  /\ IsFiniteSet(Accounts)
  /\ \A r \in Accounts : r.banned \in BOOLEAN /\ r.name \in DOMAIN Fold
  /\ \A l \in Logins : l.name \in DOMAIN Fold
  /\ NoLogin \notin Logins

VARIABLES
  onTheWay,   \* how far each client is
  login,      \* what its player typed
  told,       \* the answer: [state, port]
  host,       \* the character server it is connected to
  fits        \* history: what the table of servers offered when it was told

journey == <<onTheWay, login, told, host, fits>>

Nowhere == 0          \* 255.255.255.255
NoAnswer == [state |-> 0, port |-> Nowhere]
Incorrect == 0
Ok == 1
Banned == 2
Stages == {"form", "auth", "told", "char", "directed"}

JourneyInit ==
  /\ Init
  /\ onTheWay = [c \in Clients |-> "form"]
  /\ login = [c \in Clients |-> NoLogin]
  /\ told = [c \in Clients |-> NoAnswer]
  /\ host = [c \in Clients |-> NoProc]
  /\ fits = [c \in Clients |-> {}]

TypeLogin(c, l) ==
  /\ onTheWay[c] = "form"
  /\ onTheWay' = [onTheWay EXCEPT ![c] = "auth"]
  /\ login' = [login EXCEPT ![c] = l]
  /\ UNCHANGED <<vars, told, host, fits>>

\* Slip: the ban was looked at before the password.
VerdictBanFirst(row, l) ==
  IF row.name # l.name THEN Incorrect
  ELSE IF row.banned THEN Banned
  ELSE IF row.password = l.password THEN Ok ELSE Incorrect

\* cLoginState for the row that was found.
Verdict(row, l) ==
  IF row.name # l.name \/ row.password # l.password THEN Incorrect
  ELSE IF row.banned THEN Banned ELSE Ok

\* SELECT ... WHERE username=? LIMIT 1: of the rows the database takes for
\* equal, any.
RowsNamed(l) == {r \in Accounts : Fold[r.name] = Fold[l.name]}
Verdicts(l) == IF RowsNamed(l) = {} THEN {Incorrect}
               ELSE {Verdict(r, l) : r \in RowsNamed(l)}

CharRows == {r \in servers : r.zone = CharZone}

\* A row of zone 0 counts if it has the character server's port.
Direction(r) == IF r.port = CharPort THEN r.port ELSE Nowhere

\* SELECT ... WHERE zoneID='0' LIMIT 1
PortsToTell == IF CharRows = {} THEN {Nowhere}
               ELSE {Direction(r) : r \in CharRows}

\* Slip: the condition on the zone is forgotten.
HandleLoginAnyZone(p, c) ==
  /\ Running(p) /\ onTheWay[c] = "auth"
  /\ \E state \in Verdicts(login[c]), r \in servers :
       told' = [told EXCEPT ![c] = [state |-> state, port |-> r.port]]
  /\ fits' = [fits EXCEPT ![c] = {r.port : r \in CharRows}]
  /\ onTheWay' = [onTheWay EXCEPT ![c] = "told"]
  /\ UNCHANGED <<vars, login, host>>

HandleLogin(p, c) ==
  /\ Running(p) /\ onTheWay[c] = "auth"
  /\ \E state \in Verdicts(login[c]), port \in PortsToTell :
       told' = [told EXCEPT ![c] = [state |-> state, port |-> port]]
  /\ fits' = [fits EXCEPT ![c] = {r.port : r \in CharRows}]
  /\ onTheWay' = [onTheWay EXCEPT ![c] = "told"]
  /\ UNCHANGED <<vars, login, host>>

\* The client shows what it was told and, unless it may go on, the form again.
BackToForm(c) ==
  /\ onTheWay' = [onTheWay EXCEPT ![c] = "form"]
  /\ told' = [told EXCEPT ![c] = NoAnswer]
  /\ host' = [host EXCEPT ![c] = NoProc]
  /\ fits' = [fits EXCEPT ![c] = {}]
  /\ login' = [login EXCEPT ![c] = NoLogin]

MayGoOn(c) == told[c].state = Ok /\ told[c].port # Nowhere

Refused(c) ==
  /\ onTheWay[c] = "told" /\ ~MayGoOn(c)
  /\ BackToForm(c)
  /\ UNCHANGED vars

EnterCharServer(c, p) ==
  /\ onTheWay[c] = "told" /\ MayGoOn(c)
  /\ Running(p) /\ usServerPort[p] = told[c].port
  /\ onTheWay' = [onTheWay EXCEPT ![c] = "char"]
  /\ host' = [host EXCEPT ![c] = p]
  /\ UNCHANGED <<vars, login, told, fits>>

\* The player picks a minifig of zone z; the character server directs it.
Play(c, z) ==
  /\ onTheWay[c] = "char"
  /\ TransferToRow(host[c], c, z) \/ TransferToNewServer(host[c], c, z)
  /\ onTheWay' = [onTheWay EXCEPT ![c] = "directed"]
  /\ host' = [host EXCEPT ![c] = NoProc]
  /\ UNCHANGED <<login, told, fits>>

Enter(c, p) == onTheWay[c] = "directed" /\ EnterWorld(c, p) /\ UNCHANGED journey

LeaveWorld(c) == at[c] # NoProc /\ Leave(c) /\ BackToForm(c)

\* Who was connected to server p, or waited for it, is dropped if it ended.
Drops(p) ==
  LET Dropped(c) == \/ host[c] = p /\ pc'[p] # "running"
                    \/ ticket[c] # NoTicket /\ ticket'[c] = NoTicket
  IN /\ onTheWay' = [c \in Clients |-> IF Dropped(c) THEN "form" ELSE onTheWay[c]]
     /\ host' = [c \in Clients |-> IF Dropped(c) THEN NoProc ELSE host[c]]
     /\ told' = [c \in Clients |-> IF Dropped(c) THEN NoAnswer ELSE told[c]]
     /\ fits' = [c \in Clients |-> IF Dropped(c) THEN {} ELSE fits[c]]
     /\ login' = [c \in Clients |-> IF Dropped(c) THEN NoLogin ELSE login[c]]

FleetStep(p) ==
  /\ \/ OperatorLaunch(p) \/ QueryPort(p) \/ InsertRow(p)
     \/ StartupSucceeds(p) \/ StartupFails(p)
     \/ Quit(p) \/ DeleteRow(p) \/ Kill(p)
  /\ Drops(p)

ClientStep(c) ==
  \/ \E p \in Procs : HandleLogin(p, c) \/ EnterCharServer(c, p) \/ Enter(c, p)
  \/ \E z \in Zones : Play(c, z)
  \/ Refused(c)

JourneyNext ==
  \/ \E p \in Procs : FleetStep(p)
  \/ \E c \in Clients : ClientStep(c) \/ LeaveWorld(c)
                        \/ \E l \in Logins : TypeLogin(c, l)

journeyVars == <<vars, journey>>

JourneySpec == JourneyInit /\ [][JourneyNext]_journeyVars

\* Servers get through their startup, and a client goes on by itself; it
\* need not type a login, nor leave.
JourneyFairness ==
  /\ \A p \in Procs : WF_journeyVars(Advance(p) /\ Drops(p))
  /\ \A c \in Clients : WF_journeyVars(ClientStep(c))

JourneyFairSpec == JourneySpec /\ JourneyFairness

-----------------------------------------------------------------------------

\* A client is only ever told the character server's port, or nowhere.
JourneyTypeOK ==
  /\ onTheWay \in [Clients -> Stages]
  /\ login \in [Clients -> Logins \cup {NoLogin}]
  /\ told \in [Clients -> [state : 0..2, port : {CharPort, Nowhere}]]
  /\ host \in [Clients -> Procs \cup {NoProc}]
  /\ fits \in [Clients -> SUBSET Ports]

Sole(l) == Cardinality(RowsNamed(l)) = 1

Owns(r, l) == r.name = l.name /\ r.password = l.password

\* Whoever is told that the login is right, or that it is banned, typed the
\* name and the password of such an account; and if the database takes no
\* other name for the same, the owner of an account is told nothing else
\* (lines 17-36: the name is compared again, exactly).  So whoever is on the
\* way to a world, or in one, owns an account that is not banned.
VerdictIsRight ==
  \A c \in Clients :
    LET l == login[c]
    IN /\ onTheWay[c] = "told" =>
            /\ told[c].state # Incorrect =>
                 \E r \in Accounts : Owns(r, l) /\ r.banned = (told[c].state = Banned)
            /\ Sole(l) /\ (\E r \in Accounts : Owns(r, l)) => told[c].state # Incorrect
       /\ host[c] # NoProc \/ ticket[c] # NoTicket \/ at[c] # NoProc =>
            \E r \in Accounts : Owns(r, l) /\ ~r.banned

\* A client is sent to the character server whenever every row of zone 0 was
\* one of a character server, and is not when there was none, whatever other
\* servers were registered, died or left rows behind (lines 45-52).
SentToCharServer ==
  \A c \in Clients :
    onTheWay[c] = "told" =>
      /\ fits[c] = {CharPort} => told[c].port = CharPort
      /\ CharPort \notin fits[c] => told[c].port = Nowhere

\* The model's launches were all used for zone 0.
Spent == \A p \in Procs : pc[p] # "idle" /\ zone[p] = CharZone

\* End to end: while servers do not die, a player who was let in and sent to
\* a character server gets into a zone, whether its server was running, was
\* being launched by others or has to be launched.
ArrivesInZone ==
  \A c \in Clients :
    (onTheWay[c] = "told" /\ MayGoOn(c)) ~> (at[c] # NoProc \/ Spent)
=============================================================================
