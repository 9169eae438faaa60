--------------------------- MODULE ServerRegistry ---------------------------
(***************************************************************************)
(* The fleet of lwoWorld processes and the `servers` table they share.     *)
(*                                                                         *)
(* Every launch of lwoWorld.exe runs main() of Source/lwoWorld.cpp: it     *)
(* reads the highest port of the table, takes the next one, inserts its    *)
(* row, opens its socket, serves packets until a key is pressed, and       *)
(* deletes its row.  A process that is killed, or whose Startup fails,     *)
(* leaves its row behind.  A client that picks a minifig is directed to    *)
(* the port of a row of the minifig's zone; if there is none a server is   *)
(* launched for the zone and the client is told a fixed port.              *)
(*                                                                         *)
(* One action is one database statement of one process, with the local     *)
(* computation that follows it up to the next access to shared state.      *)
(***************************************************************************)
EXTENDS Integers, FiniteSets

CONSTANTS
  Procs,        \* the launches of lwoWorld.exe that the model allows
  Zones,        \* the ids of the zones minifigs are in
  Clients,      \* the game clients
  NoProc,       \* not a process
  NoTicket,     \* a client that was not directed anywhere
  NoArg,        \* launched without a command line argument
  Args,         \* the command line arguments an operator uses
  DefaultPort,  \* 2000: usServerPort before anything is known
  CharPort,     \* 2002: the port of the character server
  FirstZonePort,\* 2003: the lowest port of a zone server
  MaxPort,      \* 65535: the largest unsigned short
  MaxKills,     \* bound: processes that die without running their shutdown
  MaxQuits,     \* bound: processes that are closed with a key
  MaxFails      \* bound: processes whose Startup fails

CharZone == 0   \* iZoneID of a server in character mode

ASSUME PortAssumption ==
  /\ DefaultPort \in Nat /\ CharPort \in Nat
  /\ FirstZonePort \in Nat /\ MaxPort \in Nat
  /\ DefaultPort < CharPort /\ FirstZonePort = CharPort + 1
  /\ FirstZonePort <= MaxPort

ASSUME FleetAssumption ==
  /\ IsFiniteSet(Procs) /\ NoProc \notin Procs
  /\ Zones \subseteq Nat \ {CharZone}
  /\ NoArg \notin Nat
  /\ Args \subseteq Zones \cup {CharZone, NoArg}

Ports == 0 .. MaxPort
AllZones == Zones \cup {CharZone}

VARIABLES
  servers,  \* the rows of table `servers`
  nextId,   \* its AUTO_INCREMENT counter
  pc,       \* where in main() each process is
  zone,     \* iZoneID of each process
  usServerPort, \* usServerPort (later g_ourPort) of each process
  before,   \* history: the owners of rows when the process read the table
  ticket,   \* the zone a client asked for and the port it was sent to
  at        \* the process a client is connected to after its transfer

procVars == <<pc, zone, usServerPort, before>>
clientVars == <<ticket, at>>
vars == <<servers, nextId, procVars, clientVars>>

Row == [id : Nat, port : Ports, zone : AllZones]
Ticket == [zone : Zones, port : Ports]

\* "lost": it ended leaving its row; "gone": it ended owning no row.
Places == {"idle", "boot", "insert", "startup", "running", "failed",
           "closing", "exited", "lost", "gone"}

\* The process inserted its row and did not delete it.
OwnsRow(p) == pc[p] \in {"startup", "running", "failed", "closing", "lost"}
RowsOf(port, z) == {r \in servers : r.port = port /\ r.zone = z}
OwnersOf(port, z) ==
  {p \in Procs : OwnsRow(p) /\ usServerPort[p] = port /\ zone[p] = z}
Running(p) == pc[p] = "running"
EndedAs(place) == {p \in Procs : pc[p] = place}

Init ==
  /\ servers = {} /\ nextId = 1
  /\ pc = [p \in Procs |-> "idle"]
  /\ zone = [p \in Procs |-> CharZone]
  /\ usServerPort = [p \in Procs |-> DefaultPort]
  /\ before = [p \in Procs |-> {}]
  /\ ticket = [c \in Clients |-> NoTicket]
  /\ at = [c \in Clients |-> NoProc]

-----------------------------------------------------------------------------
(* main(), from launch to exit *)

\* The argument decides the zone and, without one, the port: a server with
\* no argument is the character server, one with any number is not, 0 included.
Launch(p, arg) ==
  /\ pc[p] = "idle"
  /\ zone' = [zone EXCEPT ![p] = IF arg = NoArg THEN CharZone ELSE arg]
  /\ usServerPort' = [usServerPort EXCEPT ![p] = IF arg = NoArg THEN CharPort
                                                   ELSE DefaultPort]
  /\ pc' = [pc EXCEPT ![p] = "boot"]
  /\ UNCHANGED before

OperatorLaunch(p) ==
  /\ \E arg \in Args : Launch(p, arg)
  /\ UNCHANGED <<servers, nextId, clientVars>>

\* Slip: the lift above the character server's port is forgotten.
NextPortUnlifted(highest) == (highest + 1) % (MaxPort + 1)

\* Slip: the sum is kept in an int.
NextPortWide(highest) ==
  IF highest + 1 <= CharPort THEN FirstZonePort ELSE highest + 1

\* A server that hosts a zone takes the port after the highest of the table,
\* in the width of an unsigned short, and never one at or below the
\* character server's.
NextPort(highest) ==
  LET next == (highest + 1) % (MaxPort + 1)
  IN  IF next <= CharPort THEN FirstZonePort ELSE next

\* Slip: ORDER BY port without DESC.
IsLowest(port) ==
  \/ servers = {} /\ port = DefaultPort
  \/ /\ \E r \in servers : r.port = port
     /\ \A r \in servers : r.port >= port

\* SELECT port FROM servers ORDER BY port DESC LIMIT 1, or the default.
IsHighest(port) ==
  \/ servers = {} /\ port = DefaultPort
  \/ /\ \E r \in servers : r.port = port
     /\ \A r \in servers : r.port <= port

QueryPort(p) ==
  /\ pc[p] = "boot"
  /\ \/ /\ zone[p] # CharZone
        /\ \E highest \in Ports :
             /\ IsHighest(highest)
             /\ usServerPort' = [usServerPort EXCEPT ![p] = NextPort(highest)]
        /\ before' = [before EXCEPT ![p] = {q \in Procs : OwnsRow(q)}]
     \/ /\ zone[p] = CharZone
        /\ UNCHANGED <<usServerPort, before>>
  /\ pc' = [pc EXCEPT ![p] = "insert"]
  /\ UNCHANGED <<servers, nextId, zone, clientVars>>

InsertRow(p) ==
  /\ pc[p] = "insert"
  /\ servers' = servers \cup
       {[id |-> nextId, port |-> usServerPort[p], zone |-> zone[p]]}
  /\ nextId' = nextId + 1
  /\ pc' = [pc EXCEPT ![p] = "startup"]
  /\ UNCHANGED <<zone, usServerPort, before, clientVars>>

\* The socket is opened with SO_REUSEADDR, so a port another server listens
\* on does not make Startup fail.
StartupSucceeds(p) ==
  /\ pc[p] = "startup"
  /\ pc' = [pc EXCEPT ![p] = "running"]
  /\ UNCHANGED <<servers, nextId, zone, usServerPort, before, clientVars>>

\* No socket, no thread, or a zone with maxplayers 0: the process reports it
\* and exits, and nothing deletes the row.
StartupFails(p) ==
  /\ pc[p] = "startup" /\ Cardinality(EndedAs("failed")) < MaxFails
  /\ pc' = [pc EXCEPT ![p] = "failed"]
  /\ UNCHANGED <<servers, nextId, zone, usServerPort, before, clientVars>>

\* Every client connected to p is dropped.
DropClientsOf(p) ==
  /\ at' = [c \in Clients |-> IF at[c] = p THEN NoProc ELSE at[c]]
  /\ ticket' = [c \in Clients |-> IF at[c] = p THEN NoTicket ELSE ticket[c]]

\* A key was pressed: the loop ends and the peer is destroyed.
Quit(p) ==
  /\ Running(p)
  /\ Cardinality(EndedAs("closing") \cup EndedAs("exited")) < MaxQuits
  /\ pc' = [pc EXCEPT ![p] = "closing"]
  /\ DropClientsOf(p)
  /\ UNCHANGED <<servers, nextId, zone, usServerPort, before>>

\* Slip: the DELETE names the zone and not the port.
DeleteRowOfZone(p) ==
  /\ pc[p] = "closing"
  /\ \/ \E r \in servers : r.zone = zone[p] /\ servers' = servers \ {r}
     \/ (\A r \in servers : r.zone # zone[p]) /\ UNCHANGED servers
  /\ pc' = [pc EXCEPT ![p] = "exited"]
  /\ UNCHANGED <<nextId, zone, usServerPort, before, clientVars>>

\* Slip: the DELETE has no LIMIT 1.
DeleteEveryRow(p) ==
  /\ pc[p] = "closing"
  /\ servers' = servers \ RowsOf(usServerPort[p], zone[p])
  /\ pc' = [pc EXCEPT ![p] = "exited"]
  /\ UNCHANGED <<nextId, zone, usServerPort, before, clientVars>>

\* DELETE ... LIMIT 1: of the rows that read like its own, one is removed.
DeleteRow(p) ==
  /\ pc[p] = "closing"
  /\ \/ \E r \in RowsOf(usServerPort[p], zone[p]) : servers' = servers \ {r}
     \/ RowsOf(usServerPort[p], zone[p]) = {} /\ UNCHANGED servers
  /\ pc' = [pc EXCEPT ![p] = "exited"]
  /\ UNCHANGED <<nextId, zone, usServerPort, before, clientVars>>

\* The window is closed, the process crashes, or the database throws.
Kill(p) ==
  /\ pc[p] \in {"boot", "insert", "startup", "running", "closing"}
  /\ Cardinality(EndedAs("lost") \cup EndedAs("gone")) < MaxKills
  /\ pc' = [pc EXCEPT ![p] = IF OwnsRow(p) THEN "lost" ELSE "gone"]
  /\ DropClientsOf(p)
  /\ UNCHANGED <<servers, nextId, zone, usServerPort, before>>

-----------------------------------------------------------------------------
(* clientLoginRequest(), handled by a running server, and what follows *)

\* The zone has a row: the client is directed to the port of one of them.
TransferToRow(p, c, z) ==
  /\ Running(p) /\ ticket[c] = NoTicket
  /\ \E r \in servers :
       /\ r.zone = z
       /\ ticket' = [ticket EXCEPT ![c] = [zone |-> z, port |-> r.port]]
  /\ UNCHANGED <<servers, nextId, procVars, at>>

\* Slip: the client is told the port a process has before it reads the table.
TransferToDefaultPort(p, c, z) ==
  /\ Running(p) /\ ticket[c] = NoTicket
  /\ \A r \in servers : r.zone # z
  /\ \E q \in Procs : Launch(q, z)
  /\ ticket' = [ticket EXCEPT ![c] = [zone |-> z, port |-> DefaultPort]]
  /\ UNCHANGED <<servers, nextId, at>>

\* It has none: one is launched and the client is told port 2003.
TransferToNewServer(p, c, z) ==
  /\ Running(p) /\ ticket[c] = NoTicket
  /\ \A r \in servers : r.zone # z
  /\ \E q \in Procs : Launch(q, z)
  /\ ticket' = [ticket EXCEPT ![c] = [zone |-> z, port |-> FirstZonePort]]
  /\ UNCHANGED <<servers, nextId, at>>

\* The client reaches whichever process listens on the port it was given.
EnterWorld(c, p) ==
  /\ ticket[c] # NoTicket /\ at[c] = NoProc
  /\ Running(p) /\ usServerPort[p] = ticket[c].port
  /\ at' = [at EXCEPT ![c] = p]
  /\ UNCHANGED <<servers, nextId, procVars, ticket>>

\* The client leaves the world, or stops waiting for it.
Leave(c) ==
  /\ ticket[c] # NoTicket
  /\ ticket' = [ticket EXCEPT ![c] = NoTicket]
  /\ at' = [at EXCEPT ![c] = NoProc]
  /\ UNCHANGED <<servers, nextId, procVars>>

-----------------------------------------------------------------------------
Advance(p) ==
  QueryPort(p) \/ InsertRow(p) \/ StartupSucceeds(p) \/ DeleteRow(p)

Next ==
  \/ \E p \in Procs :
       \/ OperatorLaunch(p) \/ QueryPort(p) \/ InsertRow(p)
       \/ StartupSucceeds(p) \/ StartupFails(p)
       \/ Quit(p) \/ DeleteRow(p) \/ Kill(p)
  \/ \E c \in Clients :
       \/ \E p \in Procs, z \in Zones :
            TransferToRow(p, c, z) \/ TransferToNewServer(p, c, z)
       \/ \E p \in Procs : EnterWorld(c, p)
       \/ Leave(c)

Spec == Init /\ [][Next]_vars

\* A launched process is scheduled and its database answers, so it gets
\* through its startup and its shutdown; nothing else is promised.
FairSpec == Spec /\ \A p \in Procs : WF_vars(Advance(p))

-----------------------------------------------------------------------------
(* Properties *)

\* The state stays well formed; no port leaves the range of unsigned short.
TypeOK ==
  /\ servers \subseteq Row /\ nextId \in Nat
  /\ pc \in [Procs -> Places]
  /\ zone \in [Procs -> AllZones]
  /\ usServerPort \in [Procs -> Ports]
  /\ before \in [Procs -> SUBSET Procs]
  /\ ticket \in [Clients -> Ticket \cup {NoTicket}]
  /\ at \in [Clients -> Procs \cup {NoProc}]

\* A server that listens, is starting or is shutting down can be found in the
\* table under its own port and zone: the shutdown of another server, which
\* deletes by content and not by id, never unregisters it.
EveryOwnerHasARow ==
  \A p \in Procs : OwnsRow(p) => RowsOf(usServerPort[p], zone[p]) # {}

\* The table is an exact account of the fleet: for each port and zone it
\* holds one row per process that inserted one and did not delete one, the
\* dead ones included; nothing else ever removes a row.
Ledger ==
  \A port \in Ports, z \in AllZones :
    Cardinality(RowsOf(port, z)) = Cardinality(OwnersOf(port, z))

\* A client sent to a zone never ends up on the character server, even when
\* the counter of ports has wrapped around.
NeverBackToCharServer ==
  \A c \in Clients : at[c] # NoProc => zone[at[c]] # CharZone

\* Two servers take the same port only if neither had inserted its row when
\* the other read the table, or the ports had run out: a server that reads
\* the table takes a port above that of every server registered by then.
LateStarterGetsFreshPort ==
  \A p \in Procs : \A q \in before[p] :
    \/ usServerPort[q] < usServerPort[p]
    \/ \E w \in before[p] : usServerPort[w] = MaxPort

\* A client directed to a zone finds a server of that zone listening on the
\* port it was told, sooner or later, the port 2003 of a server that is only
\* being launched included.
TransferIsServed ==
  \A c \in Clients :
    (ticket[c] # NoTicket) ~>
      \/ ticket[c] = NoTicket
      \/ \E p \in Procs : /\ Running(p)
                          /\ usServerPort[p] = ticket[c].port
                          /\ zone[p] = ticket[c].zone

\* What the code says and does not do:

\* lwoWorld.cpp:98 and 134-135: a row tells other servers that its owner is
\* up, unless a server was closed otherwise than with a key.
RegisteredMeansUp ==
  EndedAs("lost") = {} =>
    \A r \in servers : \E p \in Procs :
      /\ pc[p] \in {"startup", "running", "closing"}
      /\ usServerPort[p] = r.port /\ zone[p] = r.zone

\* lwoAuthPackets.cpp:45: the port of a zone server is not tied to the world
\* it hosts, so port 2003 is not told for a zone whose server may get another:
\* a client lands in the zone of its minifig.
TransferReachesZone ==
  \A c \in Clients : at[c] # NoProc => zone[at[c]] = ticket[c].zone

=============================================================================
