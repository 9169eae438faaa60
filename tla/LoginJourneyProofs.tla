-------------------------- MODULE LoginJourneyProofs --------------------------
(***************************************************************************)
(* What main(), clientLoginRequest() and handleLoginPacket() keep, for     *)
(* every number of processes, zones and clients, every port range and      *)
(* every table of accounts.                                                *)
(*                                                                         *)
(* First the fleet of ServerRegistry, in layers: the types; the account of *)
(* the table (Books), which rests on the AUTO_INCREMENT ids being fresh;   *)
(* the ports (PortBands, Directions, Order), which rest on the account.    *)
(*                                                                         *)
(* Then the journey of a player.  It takes no step the fleet does not      *)
(* take, so what is proved of the fleet holds under it.                    *)
(***************************************************************************)
EXTENDS LoginJourney, TLAPS, FiniteSetTheorems

-----------------------------------------------------------------------------
(* Types *)

\* The port a zone server takes is one of unsigned short, above the character
\* server's, and the successor of the highest unless that was the last one.
LEMMA NextPortBand ==
  ASSUME NEW highest \in Ports
  PROVE  /\ NextPort(highest) \in Ports
         /\ NextPort(highest) >= FirstZonePort
         /\ highest # MaxPort => NextPort(highest) > highest
<1>1. CASE highest = MaxPort
  <2>1. (highest + 1) % (MaxPort + 1) = 0
    BY <1>1, PortAssumption
  <2> QED  BY <2>1, <1>1, PortAssumption DEF NextPort, Ports
<1>2. CASE highest # MaxPort
  <2>1. (highest + 1) % (MaxPort + 1) = highest + 1
    BY <1>2, PortAssumption DEF Ports
  <2> QED  BY <2>1, <1>2, PortAssumption DEF NextPort, Ports
<1> QED  BY <1>1, <1>2

LEMMA TypeStep == TypeOK /\ [Next]_vars => TypeOK'
<1> SUFFICES ASSUME TypeOK, [Next]_vars PROVE TypeOK'
  OBVIOUS
<1> USE DEF TypeOK, procVars, clientVars
<1>L. ASSUME NEW p \in Procs, NEW arg \in Args \cup Zones, Launch(p, arg)
      PROVE  /\ pc' \in [Procs -> Places] /\ zone' \in [Procs -> AllZones]
             /\ usServerPort' \in [Procs -> Ports]
             /\ before' \in [Procs -> SUBSET Procs]
  BY <1>L, PortAssumption, FleetAssumption
     DEF Launch, Places, AllZones, Ports
<1>1. ASSUME NEW p \in Procs, OperatorLaunch(p) PROVE TypeOK'
  BY <1>1, <1>L DEF OperatorLaunch
<1>2. ASSUME NEW p \in Procs, QueryPort(p) PROVE TypeOK'
  BY <1>2, NextPortBand DEF QueryPort, Places
<1>3. ASSUME NEW p \in Procs, InsertRow(p) PROVE TypeOK'
  BY <1>3 DEF InsertRow, Places, Row
<1>4. ASSUME NEW p \in Procs, StartupSucceeds(p) PROVE TypeOK'
  BY <1>4 DEF StartupSucceeds, Places
<1>5. ASSUME NEW p \in Procs, StartupFails(p) PROVE TypeOK'
  BY <1>5 DEF StartupFails, Places
<1>6. ASSUME NEW p \in Procs, Quit(p) PROVE TypeOK'
  BY <1>6 DEF Quit, DropClientsOf, Places
<1>7. ASSUME NEW p \in Procs, DeleteRow(p) PROVE TypeOK'
  BY <1>7 DEF DeleteRow, Places
<1>8. ASSUME NEW p \in Procs, Kill(p) PROVE TypeOK'
  BY <1>8 DEF Kill, DropClientsOf, Places
<1>9. ASSUME NEW p \in Procs, NEW c \in Clients, NEW z \in Zones,
             TransferToRow(p, c, z)
      PROVE  TypeOK'
  BY <1>9 DEF TransferToRow, Row, Ticket
<1>10. ASSUME NEW p \in Procs, NEW c \in Clients, NEW z \in Zones,
              TransferToNewServer(p, c, z)
       PROVE  TypeOK'
  <2>1. FirstZonePort \in Ports
    BY PortAssumption DEF Ports
  <2> QED  BY <1>10, <1>L, <2>1 DEF TransferToNewServer, Ticket
<1>11. ASSUME NEW c \in Clients, NEW p \in Procs, EnterWorld(c, p)
       PROVE  TypeOK'
  BY <1>11 DEF EnterWorld
<1>12. ASSUME NEW c \in Clients, Leave(c) PROVE TypeOK'
  BY <1>12 DEF Leave
<1>13. CASE UNCHANGED vars
  BY <1>13 DEF vars
<1> QED
  BY <1>1, <1>2, <1>3, <1>4, <1>5, <1>6, <1>7, <1>8, <1>9, <1>10, <1>11,
     <1>12, <1>13 DEF Next

\* Every variable keeps its type; in particular the port that a server takes
\* after 65535 stays an unsigned short (lwoWorld.cpp:113-114).
THEOREM TypeCorrect == Spec => []TypeOK
<1>1. Init => TypeOK
  BY PortAssumption DEF Init, TypeOK, Places, AllZones, Ports
<1> QED  BY <1>1, TypeStep, PTL DEF Spec

-----------------------------------------------------------------------------
(* The account of the table *)

\* Ids are fresh, so an INSERT always adds a row, and rows that read alike
\* stay apart.
Books ==
  /\ IsFiniteSet(servers)
  /\ \A r \in servers : r.id < nextId
  /\ Ledger

\* A step that touches neither the table nor who owns what in it keeps the
\* books.
LEMMA BooksKept ==
  ASSUME TypeOK, Books, UNCHANGED <<servers, nextId>>,
         \A p \in Procs : OwnsRow(p)' <=> OwnsRow(p),
         \A p \in Procs : OwnsRow(p) =>
           usServerPort'[p] = usServerPort[p] /\ zone'[p] = zone[p]
  PROVE  Books'
<1>1. \A port \in Ports, z \in AllZones :
        OwnersOf(port, z)' = OwnersOf(port, z)
  BY DEF OwnersOf
<1>2. \A port \in Ports, z \in AllZones : RowsOf(port, z)' = RowsOf(port, z)
  BY DEF RowsOf
<1> QED  BY <1>1, <1>2 DEF Books, Ledger

\* The shape of the two steps that do touch them: p becomes an owner and its
\* row is added, or p ceases to be one and a row like its own is removed.
LEMMA OwnersFinite ==
  ASSUME NEW port, NEW z
  PROVE  IsFiniteSet(OwnersOf(port, z))
BY FleetAssumption, FS_Subset DEF OwnersOf

LEMMA RowsFinite ==
  ASSUME IsFiniteSet(servers), NEW port, NEW z
  PROVE  IsFiniteSet(RowsOf(port, z))
BY FS_Subset DEF RowsOf

LEMMA BooksInsert ==
  ASSUME TypeOK, Books, NEW p \in Procs, InsertRow(p)
  PROVE  Books'
<1> DEFINE new == [id |-> nextId, port |-> usServerPort[p], zone |-> zone[p]]
<1>1. new \notin servers /\ servers' = servers \cup {new}
  BY DEF InsertRow, Books, TypeOK
<1>2. IsFiniteSet(servers')
  BY <1>1, FS_AddElement DEF Books
<1>3. \A r \in servers' : r.id < nextId'
  BY <1>1 DEF InsertRow, Books, TypeOK, Row
<1>4. ASSUME NEW port \in Ports, NEW z \in AllZones
      PROVE  Cardinality(RowsOf(port, z)') = Cardinality(OwnersOf(port, z)')
  <2>0. /\ Cardinality(RowsOf(port, z)) = Cardinality(OwnersOf(port, z))
        /\ IsFiniteSet(RowsOf(port, z)) /\ IsFiniteSet(OwnersOf(port, z))
    BY OwnersFinite, RowsFinite DEF Books, Ledger
  <2>1. CASE usServerPort[p] = port /\ zone[p] = z
    <3>1. new \notin RowsOf(port, z)
          /\ RowsOf(port, z)' = RowsOf(port, z) \cup {new}
      BY <1>1, <2>1 DEF RowsOf
    <3>2. p \notin OwnersOf(port, z)
          /\ OwnersOf(port, z)' = OwnersOf(port, z) \cup {p}
      BY <2>1 DEF OwnersOf, OwnsRow, InsertRow, TypeOK
    <3>3. Cardinality(RowsOf(port, z)') = Cardinality(RowsOf(port, z)) + 1
      BY <2>0, <3>1, FS_AddElement
    <3>4. Cardinality(OwnersOf(port, z)') = Cardinality(OwnersOf(port, z)) + 1
      BY <2>0, <3>2, FS_AddElement
    <3> QED  BY <2>0, <3>3, <3>4
  <2>2. CASE ~(usServerPort[p] = port /\ zone[p] = z)
    <3>1. RowsOf(port, z)' = RowsOf(port, z)
      BY <1>1, <2>2 DEF RowsOf
    <3>2. OwnersOf(port, z)' = OwnersOf(port, z)
      BY <2>2 DEF OwnersOf, OwnsRow, InsertRow, TypeOK
    <3> QED  BY <2>0, <3>1, <3>2
  <2> QED  BY <2>1, <2>2
<1> QED  BY <1>2, <1>3, <1>4 DEF Books, Ledger

LEMMA BooksDelete ==
  ASSUME TypeOK, Books, NEW p \in Procs, DeleteRow(p)
  PROVE  Books'
<1> DEFINE port0 == usServerPort[p]
           zone0 == zone[p]
<1>0. /\ port0 \in Ports /\ zone0 \in AllZones /\ p \in OwnersOf(port0, zone0)
  BY DEF TypeOK, DeleteRow, OwnersOf, OwnsRow
<1>1. PICK r \in RowsOf(port0, zone0) : servers' = servers \ {r}
  <2>1. Cardinality(RowsOf(port0, zone0)) # 0
    BY <1>0, OwnersFinite, FS_EmptySet DEF Books, Ledger
  <2>2. RowsOf(port0, zone0) # {}
    BY <2>1, FS_EmptySet
  <2> QED  BY <2>2 DEF DeleteRow
<1>2. IsFiniteSet(servers')
  BY <1>1, FS_RemoveElement DEF Books, RowsOf
<1>3. \A q \in servers' : q.id < nextId'
  BY <1>1 DEF DeleteRow, Books
<1>4. ASSUME NEW port \in Ports, NEW z \in AllZones
      PROVE  Cardinality(RowsOf(port, z)') = Cardinality(OwnersOf(port, z)')
  <2>0. /\ Cardinality(RowsOf(port, z)) = Cardinality(OwnersOf(port, z))
        /\ IsFiniteSet(RowsOf(port, z)) /\ IsFiniteSet(OwnersOf(port, z))
    BY OwnersFinite, RowsFinite DEF Books, Ledger
  <2>1. CASE port0 = port /\ zone0 = z
    <3>1. r \in RowsOf(port, z) /\ RowsOf(port, z)' = RowsOf(port, z) \ {r}
      BY <1>1, <2>1 DEF RowsOf
    <3>2. p \in OwnersOf(port, z)
          /\ OwnersOf(port, z)' = OwnersOf(port, z) \ {p}
      BY <1>0, <2>1 DEF OwnersOf, OwnsRow, DeleteRow, TypeOK
    <3>3. Cardinality(RowsOf(port, z)') = Cardinality(RowsOf(port, z)) - 1
      BY <2>0, <3>1, FS_RemoveElement
    <3>4. Cardinality(OwnersOf(port, z)') = Cardinality(OwnersOf(port, z)) - 1
      BY <2>0, <3>2, FS_RemoveElement
    <3> QED  BY <2>0, <3>3, <3>4
  <2>2. CASE ~(port0 = port /\ zone0 = z)
    <3>1. RowsOf(port, z)' = RowsOf(port, z)
      BY <1>1, <2>2 DEF RowsOf
    <3>2. OwnersOf(port, z)' = OwnersOf(port, z)
      BY <2>2 DEF OwnersOf, OwnsRow, DeleteRow, TypeOK
    <3> QED  BY <2>0, <3>1, <3>2
  <2> QED  BY <2>1, <2>2
<1> QED  BY <1>2, <1>3, <1>4 DEF Books, Ledger

LEMMA BooksStep == TypeOK /\ Books /\ [Next]_vars => Books'
<1> SUFFICES ASSUME TypeOK, Books, [Next]_vars PROVE Books'
  OBVIOUS
<1> USE DEF procVars, clientVars
<1>L. ASSUME NEW p \in Procs, NEW arg, Launch(p, arg),
             UNCHANGED <<servers, nextId>>
      PROVE  Books'
  <2>1. /\ \A q \in Procs : OwnsRow(q)' <=> OwnsRow(q)
        /\ \A q \in Procs : OwnsRow(q) =>
             usServerPort'[q] = usServerPort[q] /\ zone'[q] = zone[q]
    BY <1>L DEF Launch, OwnsRow, TypeOK
  <2> QED  BY <1>L, <2>1, BooksKept
<1>1. ASSUME NEW p \in Procs, OperatorLaunch(p) PROVE Books'
  BY <1>1, <1>L DEF OperatorLaunch
<1>2. ASSUME NEW p \in Procs, QueryPort(p) PROVE Books'
  <2>1. /\ \A q \in Procs : OwnsRow(q)' <=> OwnsRow(q)
        /\ \A q \in Procs : OwnsRow(q) =>
             usServerPort'[q] = usServerPort[q] /\ zone'[q] = zone[q]
    BY <1>2 DEF QueryPort, OwnsRow, TypeOK
  <2> QED  BY <1>2, <2>1, BooksKept DEF QueryPort
<1>3. ASSUME NEW p \in Procs, InsertRow(p) PROVE Books'
  BY <1>3, BooksInsert
<1>4. ASSUME NEW p \in Procs,
             StartupSucceeds(p) \/ StartupFails(p) \/ Quit(p) \/ Kill(p)
      PROVE  Books'
  <2>1. /\ \A q \in Procs : OwnsRow(q)' <=> OwnsRow(q)
        /\ UNCHANGED <<servers, nextId, usServerPort, zone>>
    BY <1>4 DEF StartupSucceeds, StartupFails, Quit, Kill, Running, OwnsRow,
                TypeOK
  <2> QED  BY <2>1, BooksKept
<1>5. ASSUME NEW p \in Procs, DeleteRow(p) PROVE Books'
  BY <1>5, BooksDelete
<1>6. ASSUME NEW p \in Procs, NEW c \in Clients, NEW z \in Zones,
             TransferToNewServer(p, c, z)
      PROVE  Books'
  BY <1>6, <1>L DEF TransferToNewServer
<1>7. ASSUME UNCHANGED <<servers, nextId, procVars>> PROVE Books'
  BY <1>7, BooksKept DEF OwnsRow
<1>8. ASSUME NEW p \in Procs, NEW c \in Clients, NEW z \in Zones,
             TransferToRow(p, c, z)
      PROVE  Books'
  BY <1>7, <1>8 DEF TransferToRow
<1>9. ASSUME NEW c \in Clients, NEW p \in Procs, EnterWorld(c, p)
      PROVE  Books'
  BY <1>7, <1>9 DEF EnterWorld
<1>10. ASSUME NEW c \in Clients, Leave(c) PROVE Books'
  BY <1>7, <1>10 DEF Leave
<1>11. CASE UNCHANGED vars
  BY <1>7, <1>11 DEF vars
<1> QED
  BY <1>1, <1>2, <1>3, <1>4, <1>5, <1>6, <1>8, <1>9, <1>10, <1>11 DEF Next

LEMMA InitBooks == Init => TypeOK /\ Books
<1> SUFFICES ASSUME Init PROVE TypeOK /\ Books
  OBVIOUS
<1>1. TypeOK
  BY PortAssumption DEF Init, TypeOK, Places, AllZones, Ports
<1>2. \A port \in Ports, z \in AllZones :
        RowsOf(port, z) = {} /\ OwnersOf(port, z) = {}
  BY DEF Init, RowsOf, OwnersOf, OwnsRow
<1> QED  BY <1>1, <1>2, FS_EmptySet DEF Init, Books, Ledger

LEMMA BooksCorrect == Spec => [](TypeOK /\ Books)
BY InitBooks, TypeStep, BooksStep, PTL DEF Spec

\* The table holds exactly one row per process that inserted one and did not
\* delete one, for every port and zone: deleting by content, with LIMIT 1,
\* accounts for every shutdown (lwoWorld.cpp:115-123, 189-197).
THEOREM LedgerBalances == Spec => []Ledger
BY BooksCorrect, PTL DEF Books

LEMMA OwnerHasRow ==
  ASSUME TypeOK, Books, NEW p \in Procs, OwnsRow(p)
  PROVE  RowsOf(usServerPort[p], zone[p]) # {}
<1>1. p \in OwnersOf(usServerPort[p], zone[p])
  BY DEF OwnersOf
<1>2. Cardinality(OwnersOf(usServerPort[p], zone[p])) # 0
  BY <1>1, OwnersFinite, FS_EmptySet
<1>3. Cardinality(RowsOf(usServerPort[p], zone[p])) # 0
  BY <1>2 DEF Books, Ledger, TypeOK
<1> QED  BY <1>3, FS_EmptySet

LEMMA RowHasOwner ==
  ASSUME TypeOK, Books, NEW r \in servers
  PROVE  \E p \in Procs :
           OwnsRow(p) /\ usServerPort[p] = r.port /\ zone[p] = r.zone
<1>1. r \in RowsOf(r.port, r.zone) /\ r.port \in Ports /\ r.zone \in AllZones
  BY DEF RowsOf, TypeOK, Row
<1>2. Cardinality(RowsOf(r.port, r.zone)) # 0
  BY <1>1, RowsFinite, FS_EmptySet DEF Books
<1>3. OwnersOf(r.port, r.zone) # {}
  BY <1>1, <1>2, FS_EmptySet DEF Books, Ledger
<1> QED  BY <1>3 DEF OwnersOf

\* No server is unregistered by the shutdown of another one, however many of
\* them share its port and zone (lwoWorld.cpp:189-197).
THEOREM OwnersStayRegistered == Spec => []EveryOwnerHasARow
<1>1. TypeOK /\ Books => EveryOwnerHasARow
  BY OwnerHasRow DEF EveryOwnerHasARow
<1> QED  BY <1>1, BooksCorrect, PTL

-----------------------------------------------------------------------------
(* The ports *)

\* A process that has chosen its port keeps it.
HasPort(p) == pc[p] \notin {"idle", "boot", "gone"}

\* Zone servers stay above the character server's port, and a server of zone
\* 0 never goes there.
PortBands ==
  \A p \in Procs :
    /\ zone[p] = CharZone => usServerPort[p] <= CharPort
    /\ zone[p] # CharZone /\ HasPort(p) => usServerPort[p] >= FirstZonePort

\* A client is only ever sent above the character server's port, and is where
\* it was sent, on a server that still runs.
Directions ==
  \A c \in Clients :
    /\ ticket[c] # NoTicket => ticket[c].port >= FirstZonePort
    /\ at[c] # NoProc => /\ ticket[c] # NoTicket
                         /\ usServerPort[at[c]] = ticket[c].port
                         /\ Running(at[c])

Inv == TypeOK /\ Books /\ PortBands /\ Directions

LEMMA LaunchBands ==
  ASSUME TypeOK, PortBands, NEW p \in Procs, NEW arg \in Args \cup Zones,
         Launch(p, arg)
  PROVE  PortBands'
BY PortAssumption, FleetAssumption
   DEF Launch, PortBands, HasPort, TypeOK, CharZone

LEMMA BandsStep == Inv /\ [Next]_vars => PortBands'
<1> SUFFICES ASSUME Inv, [Next]_vars PROVE PortBands'
  OBVIOUS
<1> USE DEF Inv, procVars, clientVars
<1>1. ASSUME NEW p \in Procs, OperatorLaunch(p) PROVE PortBands'
  BY <1>1, LaunchBands DEF OperatorLaunch
<1>2. ASSUME NEW p \in Procs, QueryPort(p) PROVE PortBands'
  BY <1>2, NextPortBand DEF QueryPort, PortBands, HasPort, TypeOK
<1>3. ASSUME NEW p \in Procs,
             \/ InsertRow(p) \/ StartupSucceeds(p) \/ StartupFails(p)
             \/ Quit(p) \/ DeleteRow(p) \/ Kill(p)
      PROVE  PortBands'
  BY <1>3 DEF InsertRow, StartupSucceeds, StartupFails, Quit, DeleteRow, Kill,
              Running, OwnsRow, PortBands, HasPort, TypeOK
<1>4. ASSUME NEW p \in Procs, NEW c \in Clients, NEW z \in Zones,
             TransferToNewServer(p, c, z)
      PROVE  PortBands'
  BY <1>4, LaunchBands DEF TransferToNewServer
<1>5. ASSUME UNCHANGED procVars PROVE PortBands'
  BY <1>5 DEF PortBands, HasPort
<1> QED
  BY <1>1, <1>2, <1>3, <1>4, <1>5
     DEF Next, vars, TransferToRow, EnterWorld, Leave

LEMMA DirectionsStep == Inv /\ [Next]_vars => Directions'
<1> SUFFICES ASSUME Inv, [Next]_vars PROVE Directions'
  OBVIOUS
<1> USE DEF Inv, procVars, clientVars
\* A step of a process that is not running moves no client.
<1>A. ASSUME NEW p \in Procs, UNCHANGED clientVars, ~Running(p),
             pc' = [pc EXCEPT ![p] = pc'[p]],
             \A q \in Procs \ {p} : usServerPort'[q] = usServerPort[q]
      PROVE  Directions'
  BY <1>A DEF Directions, Running, TypeOK
<1>1. ASSUME NEW p \in Procs, OperatorLaunch(p) PROVE Directions'
  BY <1>1, <1>A DEF OperatorLaunch, Launch, Running, TypeOK
<1>2. ASSUME NEW p \in Procs, QueryPort(p) PROVE Directions'
  BY <1>2, <1>A DEF QueryPort, Running, TypeOK
<1>3. ASSUME NEW p \in Procs,
             \/ InsertRow(p) \/ StartupSucceeds(p) \/ StartupFails(p)
             \/ DeleteRow(p)
      PROVE  Directions'
  BY <1>3, <1>A DEF InsertRow, StartupSucceeds, StartupFails, DeleteRow,
                    Running, TypeOK
<1>4. ASSUME NEW p \in Procs, Quit(p) \/ Kill(p) PROVE Directions'
  BY <1>4, FleetAssumption
     DEF Quit, Kill, DropClientsOf, Directions, Running, TypeOK
<1>5. ASSUME NEW p \in Procs, NEW c \in Clients, NEW z \in Zones,
             TransferToRow(p, c, z)
      PROVE  Directions'
  <2>1. PICK r \in servers :
          /\ r.zone = z
          /\ ticket' = [ticket EXCEPT ![c] = [zone |-> z, port |-> r.port]]
    BY <1>5 DEF TransferToRow
  <2>2. r.port >= FirstZonePort
    <3>1. PICK q \in Procs :
            OwnsRow(q) /\ usServerPort[q] = r.port /\ zone[q] = r.zone
      BY RowHasOwner
    <3> QED  BY <2>1, <3>1, FleetAssumption DEF PortBands, HasPort, OwnsRow
  <2>3. at[c] = NoProc /\ UNCHANGED <<pc, usServerPort, at>>
    BY <1>5 DEF TransferToRow, Directions
  <2>4. ticket'[c].port >= FirstZonePort
    BY <2>1, <2>2 DEF TypeOK
  <2>5. \A d \in Clients \ {c} : ticket'[d] = ticket[d]
    BY <2>1 DEF TypeOK
  <2> QED  BY <2>3, <2>4, <2>5 DEF Directions, Running
<1>6. ASSUME NEW p \in Procs, NEW c \in Clients, NEW z \in Zones,
             TransferToNewServer(p, c, z)
      PROVE  Directions'
  <2>1. PICK q \in Procs : Launch(q, z)
    BY <1>6 DEF TransferToNewServer
  <2>2. ~Running(q) /\ \A o \in Procs \ {q} :
          usServerPort'[o] = usServerPort[o] /\ pc'[o] = pc[o]
    BY <2>1 DEF Launch, Running, TypeOK
  <2>3. at[c] = NoProc /\ UNCHANGED at
    BY <1>6 DEF TransferToNewServer, Directions
  <2>4. ticket'[c].port >= FirstZonePort
    BY <1>6, PortAssumption DEF TransferToNewServer, TypeOK
  <2>5. \A d \in Clients \ {c} : ticket'[d] = ticket[d]
    BY <1>6 DEF TransferToNewServer, TypeOK
  <2> QED  BY <2>2, <2>3, <2>4, <2>5 DEF Directions, Running, TypeOK
<1>7. ASSUME NEW c \in Clients, NEW p \in Procs, EnterWorld(c, p)
      PROVE  Directions'
  BY <1>7 DEF EnterWorld, Directions, Running, TypeOK
<1>8. ASSUME NEW c \in Clients, Leave(c) PROVE Directions'
  BY <1>8 DEF Leave, Directions, Running, TypeOK
<1>9. CASE UNCHANGED vars
  BY <1>9 DEF vars, Directions, Running
<1> QED
  BY <1>1, <1>2, <1>3, <1>4, <1>5, <1>6, <1>7, <1>8, <1>9 DEF Next

LEMMA InvCorrect == Spec => []Inv
<1>1. Init => PortBands /\ Directions
  BY PortAssumption DEF Init, PortBands, Directions, HasPort, CharZone
<1>2. Init => Inv
  <2>1. Init => TypeOK /\ Books
    BY InitBooks
  <2> QED  BY <1>1, <2>1 DEF Inv
<1>3. Inv /\ [Next]_vars => Inv'
  BY TypeStep, BooksStep, BandsStep, DirectionsStep DEF Inv
<1> QED  BY <1>2, <1>3, PTL DEF Spec

\* A client sent to a zone is never on a server of zone 0, wherever the port
\* counter has wrapped to (lwoWorld.cpp:114, lwoWorldPackets.cpp:175-191).
THEOREM ZonesOnly == Spec => []NeverBackToCharServer
<1>1. Inv => NeverBackToCharServer
  BY PortAssumption
     DEF Inv, NeverBackToCharServer, PortBands, Directions, TypeOK, Ticket,
         Ports
<1> QED  BY <1>1, InvCorrect, PTL

-----------------------------------------------------------------------------
(* Who takes which port *)

\* Whoever was registered when p read the table keeps its port for good.
Settled ==
  \A p \in Procs :
    /\ pc[p] = "idle" => before[p] = {}
    /\ \A q \in before[p] : OwnsRow(q) \/ pc[q] = "exited"

OrderInv == TypeOK /\ Books /\ Settled /\ LateStarterGetsFreshPort

LEMMA SettledStep == TypeOK /\ Settled /\ [Next]_vars => Settled'
<1> SUFFICES ASSUME TypeOK, Settled, [Next]_vars PROVE Settled'
  OBVIOUS
<1> USE DEF procVars, clientVars
<1>1. ASSUME NEW p \in Procs, NEW arg, Launch(p, arg) PROVE Settled'
  BY <1>1 DEF Launch, Settled, OwnsRow, TypeOK
<1>2. ASSUME NEW p \in Procs, QueryPort(p) PROVE Settled'
  BY <1>2 DEF QueryPort, Settled, OwnsRow, TypeOK
<1>3. ASSUME NEW p \in Procs,
             \/ InsertRow(p) \/ StartupSucceeds(p) \/ StartupFails(p)
             \/ Quit(p) \/ DeleteRow(p) \/ Kill(p)
      PROVE  Settled'
  BY <1>3 DEF InsertRow, StartupSucceeds, StartupFails, Quit, DeleteRow, Kill,
              Running, Settled, OwnsRow, TypeOK
<1>4. ASSUME UNCHANGED procVars PROVE Settled'
  BY <1>4 DEF Settled, OwnsRow
<1> QED
  BY <1>1, <1>2, <1>3, <1>4
     DEF Next, vars, OperatorLaunch, TransferToRow, TransferToNewServer,
         EnterWorld, Leave

LEMMA FreshPortStep ==
  OrderInv /\ [Next]_vars => LateStarterGetsFreshPort'
<1> SUFFICES ASSUME OrderInv, [Next]_vars PROVE LateStarterGetsFreshPort'
  OBVIOUS
<1> USE DEF OrderInv, procVars, clientVars
<1>1. ASSUME NEW p \in Procs, NEW arg, Launch(p, arg)
      PROVE  LateStarterGetsFreshPort'
  BY <1>1 DEF Launch, LateStarterGetsFreshPort, Settled, OwnsRow, TypeOK
<1>2. ASSUME NEW p \in Procs, QueryPort(p), zone[p] # CharZone
      PROVE  LateStarterGetsFreshPort'
  <2>1. PICK highest \in Ports :
          /\ IsHighest(highest)
          /\ usServerPort' = [usServerPort EXCEPT ![p] = NextPort(highest)]
    BY <1>2 DEF QueryPort
  <2>2. /\ before' = [before EXCEPT ![p] = {q \in Procs : OwnsRow(q)}]
        /\ pc[p] = "boot"
    BY <1>2 DEF QueryPort
  <2>3. ASSUME NEW o \in Procs, o # p, NEW q \in before'[o]
        PROVE  \/ usServerPort'[q] < usServerPort'[o]
               \/ \E w \in before'[o] : usServerPort'[w] = MaxPort
    \* p has no row yet, so nobody saw one of it.
    <3>1. before'[o] = before[o] /\ p \notin before[o]
      BY <2>2, <2>3 DEF Settled, OwnsRow, TypeOK
    <3>2. \A w \in before[o] \cup {o} : usServerPort'[w] = usServerPort[w]
      BY <2>1, <2>3, <3>1 DEF TypeOK
    <3> QED  BY <3>1, <3>2, <2>3 DEF LateStarterGetsFreshPort
  <2>4. ASSUME NEW q \in before'[p]
        PROVE  \/ usServerPort'[q] < usServerPort'[p]
               \/ \E w \in before'[p] : usServerPort'[w] = MaxPort
    <3>1. q \in Procs /\ OwnsRow(q) /\ q # p
      BY <2>2, <2>4 DEF OwnsRow, TypeOK
    <3>2. PICK r \in servers : r.port = usServerPort[q]
      BY <3>1, OwnerHasRow DEF RowsOf
    <3>3. usServerPort[q] <= highest
      BY <2>1, <3>2 DEF IsHighest
    <3>4. CASE highest # MaxPort
      BY <2>1, <3>1, <3>3, <3>4, NextPortBand DEF TypeOK, Ports
    <3>5. CASE highest = MaxPort
      \* The last port is in the table, and its owner was seen.
      <4>1. PICK m \in servers : m.port = MaxPort
        BY <2>1, <3>2, <3>5 DEF IsHighest
      <4>2. PICK w \in Procs : OwnsRow(w) /\ usServerPort[w] = MaxPort
        BY <4>1, RowHasOwner
      <4>3. w # p /\ w \in before'[p]
        BY <2>2, <4>2 DEF OwnsRow, TypeOK
      <4> QED  BY <2>1, <4>2, <4>3 DEF TypeOK
    <3> QED  BY <3>4, <3>5
  <2> QED  BY <2>3, <2>4 DEF LateStarterGetsFreshPort
<1>3. ASSUME UNCHANGED <<usServerPort, before>>
      PROVE  LateStarterGetsFreshPort'
  BY <1>3 DEF LateStarterGetsFreshPort
<1> QED
  BY <1>1, <1>2, <1>3
     DEF Next, vars, OperatorLaunch, QueryPort, InsertRow, StartupSucceeds,
         StartupFails, Quit, DeleteRow, Kill, TransferToRow,
         TransferToNewServer, EnterWorld, Leave

\* Two servers share a port only if neither was registered when the other
\* read the table, or the last port was taken (lwoWorld.cpp:98-123).
THEOREM FreshPorts == Spec => []LateStarterGetsFreshPort
<1>1. Init => OrderInv
  BY InitBooks DEF OrderInv, Init, Settled, LateStarterGetsFreshPort
<1>2. OrderInv /\ [Next]_vars => OrderInv'
  BY TypeStep, BooksStep, SettledStep, FreshPortStep DEF OrderInv
<1> QED  BY <1>1, <1>2, PTL DEF Spec, OrderInv

-----------------------------------------------------------------------------
(* Where a client is *)

Owner(c) == \E r \in Accounts : Owns(r, login[c]) /\ ~r.banned

\* A client is connected to a character server, or waits for a zone or is in
\* one, at its own stage of the journey only, and it got there as the owner of
\* an account.
Stations ==
  \A c \in Clients :
    /\ onTheWay[c] = "char" <=> host[c] # NoProc
    /\ ticket[c] # NoTicket => onTheWay[c] = "directed"
    /\ at[c] # NoProc => ticket[c] # NoTicket
    /\ onTheWay[c] \in {"char", "directed"} => Owner(c)

JourneyInv == TypeOK /\ JourneyTypeOK /\ Stations /\ VerdictIsRight /\ SentToCharServer

-----------------------------------------------------------------------------
(* The fleet under the journey *)

\* A step of the journey is a step of the fleet, or leaves it alone.
LEMMA FleetMoves ==
  JourneyTypeOK /\ Stations /\ [JourneyNext]_journeyVars => [Next]_vars
<1> SUFFICES ASSUME JourneyTypeOK, Stations, [JourneyNext]_journeyVars
             PROVE  [Next]_vars
  OBVIOUS
<1>1. ASSUME NEW p \in Procs, FleetStep(p) PROVE Next
  BY <1>1 DEF FleetStep, Next
<1>2. ASSUME NEW c \in Clients, LeaveWorld(c) PROVE Next
  <2>1. Leave(c)
    BY <1>2 DEF LeaveWorld
  <2> QED  BY <2>1 DEF Next
<1>3. ASSUME NEW c \in Clients, NEW l \in Logins, TypeLogin(c, l)
      PROVE  UNCHANGED vars
  BY <1>3 DEF TypeLogin
<1>4. ASSUME NEW c \in Clients, ClientStep(c) PROVE [Next]_vars
  <2>1. ASSUME NEW p \in Procs, HandleLogin(p, c) PROVE UNCHANGED vars
    BY <2>1 DEF HandleLogin
  <2>2. ASSUME NEW p \in Procs, EnterCharServer(c, p) PROVE UNCHANGED vars
    BY <2>2 DEF EnterCharServer
  <2>3. ASSUME NEW p \in Procs, Enter(c, p) PROVE Next
    <3>1. EnterWorld(c, p)
      BY <2>3 DEF Enter
    <3> QED  BY <3>1 DEF Next
  <2>4. ASSUME NEW z \in Zones, Play(c, z) PROVE Next
    <3>1. host[c] \in Procs
      BY <2>4 DEF Play, Stations, JourneyTypeOK
    <3> QED  BY <3>1, <2>4 DEF Play, Next
  <2>5. ASSUME Refused(c) PROVE UNCHANGED vars
    BY <2>5 DEF Refused
  <2> QED  BY <1>4, <2>1, <2>2, <2>3, <2>4, <2>5 DEF ClientStep
<1>5. CASE UNCHANGED journeyVars
  BY <1>5 DEF journeyVars
<1> QED  BY <1>1, <1>2, <1>3, <1>4, <1>5 DEF JourneyNext

-----------------------------------------------------------------------------
(* What a client is told *)

\* handleLoginPacket's verdict: right or banned only for the name and password
\* of such an account, and never "incorrect" for the owner of the one account
\* the database can find.
LEMMA VerdictFits ==
  ASSUME NEW l, NEW state \in Verdicts(l)
  PROVE  /\ state \in 0..2
         /\ state # Incorrect =>
              \E r \in Accounts : Owns(r, l) /\ r.banned = (state = Banned)
         /\ Sole(l) /\ (\E r \in Accounts : Owns(r, l)) => state # Incorrect
<1> USE DEF Verdict, Incorrect, Ok, Banned
<1>1. CASE RowsNamed(l) = {}
  BY <1>1 DEF Verdicts, RowsNamed, Owns
<1>2. CASE RowsNamed(l) # {}
  <2>1. PICK row \in RowsNamed(l) : state = Verdict(row, l)
    BY <1>2 DEF Verdicts
  <2>2. row \in Accounts /\ row.banned \in BOOLEAN
    BY <2>1, AccountAssumption DEF RowsNamed
  <2>3. state # Incorrect => Owns(row, l) /\ row.banned = (state = Banned)
    BY <2>1, <2>2 DEF Owns
  <2>4. ASSUME Sole(l), NEW r \in Accounts, Owns(r, l)
        PROVE  state # Incorrect
    <3>1. IsFiniteSet(RowsNamed(l))
      BY AccountAssumption, FS_Subset DEF RowsNamed
    <3>2. r \in RowsNamed(l)
      BY <2>4 DEF RowsNamed, Owns
    <3>3. r = row
      BY <2>1, <2>4, <3>1, <3>2, FS_Singleton DEF Sole
    <3> QED  BY <2>1, <2>4, <3>3 DEF Owns
  <2> QED  BY <2>1, <2>2, <2>3, <2>4
<1> QED  BY <1>1, <1>2

\* The port that is told, when the rows of zone 0 have these ports.
LEMMA PortFits ==
  ASSUME NEW port \in PortsToTell
  PROVE  LET offered == {r.port : r \in CharRows}
         IN  /\ port \in {CharPort, Nowhere}
             /\ offered = {CharPort} => port = CharPort
             /\ CharPort \notin offered => port = Nowhere
BY DEF PortsToTell, Direction

\* Only an answer makes a client one that was told something.
LEMMA HandleLoginKeeps ==
  ASSUME JourneyInv, NEW p \in Procs, NEW c \in Clients, HandleLogin(p, c)
  PROVE  JourneyInv'
<1> USE DEF JourneyInv
<1>1. PICK state \in Verdicts(login[c]), port \in PortsToTell :
        told' = [told EXCEPT ![c] = [state |-> state, port |-> port]]
  BY DEF HandleLogin
<1>2. /\ onTheWay' = [onTheWay EXCEPT ![c] = "told"] /\ onTheWay[c] = "auth"
      /\ fits' = [fits EXCEPT ![c] = {r.port : r \in CharRows}]
      /\ UNCHANGED <<vars, login, host>>
  BY DEF HandleLogin
<1>3. UNCHANGED <<servers, nextId, pc, zone, usServerPort, before, ticket, at>>
  BY <1>2 DEF vars, procVars, clientVars
<1>4. /\ state \in 0..2 /\ port \in {CharPort, Nowhere}
      /\ told'[c] = [state |-> state, port |-> port]
      /\ \A d \in Clients \ {c} : told'[d] = told[d] /\ onTheWay'[d] = onTheWay[d]
      /\ onTheWay'[c] = "told"
  BY <1>1, <1>2, VerdictFits, PortFits DEF JourneyTypeOK
<1>5. TypeOK'
  BY <1>3 DEF TypeOK
<1>6. JourneyTypeOK'
  <2>1. {r.port : r \in CharRows} \subseteq Ports
    BY DEF CharRows, TypeOK, Row
  <2> QED  BY <1>1, <1>2, <1>4, <2>1 DEF JourneyTypeOK, Stages
<1>7. Stations'
  BY <1>2, <1>3, <1>4 DEF Stations, Owner
<1>8. VerdictIsRight'
  <2>1. \A d \in Clients : host'[d] # NoProc \/ ticket'[d] # NoTicket \/ at'[d] # NoProc
          => Owner(d)'
    BY <1>7 DEF Stations
  <2>2. \A d \in Clients \ {c} : onTheWay'[d] = onTheWay[d] /\ told'[d] = told[d]
    BY <1>4
  <2> QED  BY <1>2, <1>4, <2>1, <2>2, VerdictFits DEF VerdictIsRight, Owner
<1>9. SentToCharServer'
  <2>1. fits'[c] = {r.port : r \in CharRows} /\ \A d \in Clients \ {c} : fits'[d] = fits[d]
    BY <1>2 DEF JourneyTypeOK
  <2> QED  BY <1>4, <2>1, PortFits DEF SentToCharServer
<1> QED  BY <1>5, <1>6, <1>7, <1>8, <1>9

-----------------------------------------------------------------------------
(* The other steps of a journey *)

\* A step after which nobody is newly told anything, and nobody's login or
\* answer has changed but that of a client which is back at the form.
Quiet ==
  \A c \in Clients :
    \/ /\ onTheWay'[c] # "told" \/ onTheWay[c] = "told"
       /\ told'[c] = told[c] /\ login'[c] = login[c] /\ fits'[c] = fits[c]
    \/ onTheWay'[c] \in {"form", "auth"}

LEMMA QuietKeeps ==
  ASSUME VerdictIsRight, SentToCharServer, Stations', Quiet
  PROVE  VerdictIsRight' /\ SentToCharServer'
<1>1. \A c \in Clients :
        host'[c] # NoProc \/ ticket'[c] # NoTicket \/ at'[c] # NoProc => Owner(c)'
  BY DEF Stations
<1>2. \A c \in Clients : onTheWay'[c] = "told" =>
        /\ onTheWay[c] = "told" /\ told'[c] = told[c]
        /\ login'[c] = login[c] /\ fits'[c] = fits[c]
  BY DEF Quiet
<1>3. VerdictIsRight'
  BY <1>1, <1>2 DEF VerdictIsRight, Owner
<1>4. SentToCharServer'
  BY <1>2 DEF SentToCharServer
<1> QED  BY <1>3, <1>4

LEMMA TypeLoginKeeps ==
  ASSUME JourneyInv, NEW c \in Clients, NEW l \in Logins, TypeLogin(c, l)
  PROVE  JourneyTypeOK' /\ Stations' /\ Quiet
<1> USE DEF JourneyInv, TypeLogin, vars, procVars, clientVars
<1>1. JourneyTypeOK'
  BY DEF JourneyTypeOK, Stages
<1>2. Stations'
  BY DEF Stations, Owner, JourneyTypeOK
<1>3. Quiet
  BY DEF Quiet, JourneyTypeOK
<1> QED  BY <1>1, <1>2, <1>3

\* Back at the form a client is nowhere else.
LEMMA BackToFormKeeps ==
  ASSUME JourneyInv, NEW c \in Clients, BackToForm(c),
         \A d \in Clients \ {c} : ticket'[d] = ticket[d] /\ at'[d] = at[d],
         ticket'[c] = NoTicket, at'[c] = NoProc
  PROVE  JourneyTypeOK' /\ Stations' /\ Quiet
<1> USE DEF JourneyInv, BackToForm
<1>1. JourneyTypeOK'
  BY DEF JourneyTypeOK, Stages, NoAnswer
<1>2. Stations'
  BY DEF Stations, Owner, JourneyTypeOK
<1>3. Quiet
  BY DEF Quiet, JourneyTypeOK
<1> QED  BY <1>1, <1>2, <1>3

LEMMA RefusedKeeps ==
  ASSUME JourneyInv, NEW c \in Clients, Refused(c)
  PROVE  JourneyTypeOK' /\ Stations' /\ Quiet
<1>1. ticket[c] = NoTicket /\ at[c] = NoProc
  BY DEF JourneyInv, Refused, Stations
<1> QED  BY <1>1, BackToFormKeeps DEF Refused, vars, clientVars

LEMMA LeaveWorldKeeps ==
  ASSUME JourneyInv, NEW c \in Clients, LeaveWorld(c)
  PROVE  JourneyTypeOK' /\ Stations' /\ Quiet
BY BackToFormKeeps DEF LeaveWorld, Leave, JourneyInv, TypeOK

\* Only the owner of an account gets past what it was told.
LEMMA EnterCharServerKeeps ==
  ASSUME JourneyInv, NEW c \in Clients, NEW p \in Procs, EnterCharServer(c, p)
  PROVE  JourneyTypeOK' /\ Stations' /\ Quiet
<1> USE DEF JourneyInv, EnterCharServer, vars, procVars, clientVars
<1>1. JourneyTypeOK'
  BY DEF JourneyTypeOK, Stages
<1>2. Owner(c)
  <2>1. told[c].state = Ok /\ Ok # Incorrect /\ ~(Ok = Banned)
    BY DEF MayGoOn, Ok, Incorrect, Banned
  <2>2. PICK r \in Accounts :
          Owns(r, login[c]) /\ r.banned = (told[c].state = Banned)
    BY <2>1 DEF VerdictIsRight
  <2>3. r.banned = FALSE
    BY <2>1, <2>2
  <2> QED  BY <2>2, <2>3 DEF Owner
<1>3. Stations'
  BY <1>2, FleetAssumption DEF Stations, Owner, JourneyTypeOK
<1>4. Quiet
  BY DEF Quiet, JourneyTypeOK
<1> QED  BY <1>1, <1>3, <1>4

LEMMA PlayKeeps ==
  ASSUME JourneyInv, NEW c \in Clients, NEW z \in Zones, Play(c, z)
  PROVE  JourneyTypeOK' /\ Stations' /\ Quiet
<1> USE DEF JourneyInv, Play
<1>1. JourneyTypeOK'
  BY DEF JourneyTypeOK, Stages
<1>2. \A d \in Clients \ {c} : ticket'[d] = ticket[d]
  BY DEF TransferToRow, TransferToNewServer, TypeOK
<1>3. UNCHANGED at
  BY DEF TransferToRow, TransferToNewServer
<1>4. ticket[c] = NoTicket /\ at[c] = NoProc
  BY DEF Stations
<1>5. Stations'
  BY <1>2, <1>3, <1>4 DEF Stations, Owner, JourneyTypeOK
<1>6. Quiet
  BY DEF Quiet, JourneyTypeOK
<1> QED  BY <1>1, <1>5, <1>6

LEMMA EnterKeeps ==
  ASSUME JourneyInv, NEW c \in Clients, NEW p \in Procs, Enter(c, p)
  PROVE  JourneyTypeOK' /\ Stations' /\ Quiet
<1> USE DEF JourneyInv, Enter, EnterWorld, journey
<1>1. JourneyTypeOK'
  BY DEF JourneyTypeOK
<1>2. Stations'
  BY DEF Stations, Owner, TypeOK
<1>3. Quiet
  BY DEF Quiet
<1> QED  BY <1>1, <1>2, <1>3

\* A server that ends drops its clients and changes nothing for the others.
LEMMA FleetStepKeeps ==
  ASSUME JourneyInv, NEW p \in Procs, FleetStep(p)
  PROVE  JourneyTypeOK' /\ Stations' /\ Quiet
<1> USE DEF JourneyInv
<1>1. Drops(p)
  BY DEF FleetStep
<1>2. \A c \in Clients :
        \/ ticket'[c] = ticket[c] /\ at'[c] = at[c]
        \/ ticket'[c] = NoTicket /\ at'[c] = NoProc /\ ticket[c] # NoTicket
  BY DEF FleetStep, OperatorLaunch, QueryPort, InsertRow, StartupSucceeds,
         StartupFails, Quit, DeleteRow, Kill, DropClientsOf, clientVars, TypeOK,
         Stations
<1>3. JourneyTypeOK'
  BY <1>1 DEF Drops, JourneyTypeOK, Stages, NoAnswer
<1>4. Stations'
  <2> SUFFICES ASSUME NEW c \in Clients
               PROVE  /\ onTheWay'[c] = "char" <=> host'[c] # NoProc
                      /\ ticket'[c] # NoTicket => onTheWay'[c] = "directed"
                      /\ at'[c] # NoProc => ticket'[c] # NoTicket
                      /\ onTheWay'[c] \in {"char", "directed"} => Owner(c)'
    BY DEF Stations
  <2>1. CASE \/ host[c] = p /\ pc'[p] # "running"
             \/ ticket[c] # NoTicket /\ ticket'[c] = NoTicket
    <3>1. onTheWay'[c] = "form" /\ host'[c] = NoProc
      BY <1>1, <2>1 DEF Drops
    <3>2. ticket'[c] = NoTicket /\ at'[c] = NoProc
      BY <1>2, <2>1, FleetAssumption DEF Stations
    <3> QED  BY <3>1, <3>2
  <2>2. CASE ~ \/ host[c] = p /\ pc'[p] # "running"
               \/ ticket[c] # NoTicket /\ ticket'[c] = NoTicket
    <3>1. onTheWay'[c] = onTheWay[c] /\ host'[c] = host[c] /\ login'[c] = login[c]
      BY <1>1, <2>2 DEF Drops
    <3>2. ticket'[c] = ticket[c] /\ at'[c] = at[c]
      BY <1>2, <2>2
    <3> QED  BY <3>1, <3>2 DEF Stations, Owner
  <2> QED  BY <2>1, <2>2
<1>5. Quiet
  BY <1>1 DEF Drops, Quiet
<1> QED  BY <1>3, <1>4, <1>5

-----------------------------------------------------------------------------
(* The invariant *)

LEMMA JourneyStep == JourneyInv /\ [JourneyNext]_journeyVars => JourneyInv'
<1> SUFFICES ASSUME JourneyInv, [JourneyNext]_journeyVars PROVE JourneyInv'
  OBVIOUS
<1>1. TypeOK'
  BY FleetMoves, TypeStep DEF JourneyInv
<1>2. ASSUME JourneyTypeOK', Stations', Quiet PROVE JourneyInv'
  BY <1>1, <1>2, QuietKeeps DEF JourneyInv
<1>3. ASSUME NEW p \in Procs, FleetStep(p) PROVE JourneyInv'
  BY <1>2, <1>3, FleetStepKeeps
<1>4. ASSUME NEW c \in Clients, NEW p \in Procs, HandleLogin(p, c)
      PROVE  JourneyInv'
  BY <1>4, HandleLoginKeeps
<1>5. ASSUME NEW c \in Clients, NEW p \in Procs, EnterCharServer(c, p)
      PROVE  JourneyInv'
  BY <1>2, <1>5, EnterCharServerKeeps
<1>6. ASSUME NEW c \in Clients, NEW p \in Procs, Enter(c, p) PROVE JourneyInv'
  BY <1>2, <1>6, EnterKeeps
<1>7. ASSUME NEW c \in Clients, NEW z \in Zones, Play(c, z) PROVE JourneyInv'
  BY <1>2, <1>7, PlayKeeps
<1>8. ASSUME NEW c \in Clients, Refused(c) PROVE JourneyInv'
  BY <1>2, <1>8, RefusedKeeps
<1>9. ASSUME NEW c \in Clients, LeaveWorld(c) PROVE JourneyInv'
  BY <1>2, <1>9, LeaveWorldKeeps
<1>10. ASSUME NEW c \in Clients, NEW l \in Logins, TypeLogin(c, l)
       PROVE  JourneyInv'
  BY <1>2, <1>10, TypeLoginKeeps
<1>11. CASE UNCHANGED journeyVars
  BY <1>11 DEF JourneyInv, journeyVars, journey, vars, procVars, clientVars,
               TypeOK, JourneyTypeOK, Stations, Owner, VerdictIsRight, SentToCharServer
<1> QED
  BY <1>3, <1>4, <1>5, <1>6, <1>7, <1>8, <1>9, <1>10, <1>11
     DEF JourneyNext, ClientStep

LEMMA JourneyInvCorrect == JourneySpec => []JourneyInv
<1>1. JourneyInit => JourneyInv
  <2> SUFFICES ASSUME JourneyInit PROVE JourneyInv
    OBVIOUS
  <2>1. TypeOK
    BY InitBooks DEF JourneyInit
  <2>2. JourneyTypeOK
    BY DEF JourneyInit, JourneyTypeOK, Stages, NoAnswer
  <2>3. Stations /\ VerdictIsRight /\ SentToCharServer
    BY DEF JourneyInit, Init, Stations, VerdictIsRight, SentToCharServer
  <2> QED  BY <2>1, <2>2, <2>3 DEF JourneyInv
<1> QED  BY <1>1, JourneyStep, PTL DEF JourneySpec

\* A player is told that the login is right, or that the account is banned,
\* only for its name and its password; the owner of an account the database
\* takes no other name for is told nothing else; and only the owner of an
\* account that is not banned gets to a world (lwoAuthPackets.cpp:17-36).
THEOREM VerdictsAreRight == JourneySpec => []VerdictIsRight
<1>1. JourneyInv => VerdictIsRight
  BY DEF JourneyInv
<1> QED  BY <1>1, JourneyInvCorrect, PTL

\* A player is sent to the character server's port if only its rows are there,
\* and nowhere if none of them is (lwoAuthPackets.cpp:45-52).
THEOREM SentThere == JourneySpec => []SentToCharServer
<1>1. JourneyInv => SentToCharServer
  BY DEF JourneyInv
<1> QED  BY <1>1, JourneyInvCorrect, PTL

\* The players' journeys make no fleet do what ServerRegistry does not allow:
\* the theorems about its servers and rows hold for them (main(), and
\* clientLoginRequest as the only handler that touches the fleet).
THEOREM JourneyRunsTheFleet == JourneySpec => Spec
<1>1. JourneyInit => Init
  BY DEF JourneyInit
<1>2. JourneyInv /\ [JourneyNext]_journeyVars => [Next]_vars
  BY FleetMoves DEF JourneyInv
<1> QED  BY <1>1, <1>2, JourneyInvCorrect, PTL DEF JourneySpec, Spec

=============================================================================
