------------------------ MODULE MinifigCreationProofs ------------------------
(***************************************************************************)
(* What holds of MinifigCreation for every number of servers, accounts,    *)
(* names and requests, crashes between any two statements included.        *)
(*                                                                         *)
(* First what a request relies on at each of its steps: rows are never     *)
(* changed or deleted, so a fact about the rows a request left behind      *)
(* survives every step of the others.                                      *)
(*                                                                         *)
(* Then the wardrobe, which adds up.  The proof counts: every step of a    *)
(* creation moves its request from one set of At to the next and adds one  *)
(* row on the other side of the equation.  It needs that requests,         *)
(* minifigs and items are told apart by their numbers, and that the row an *)
(* item was given to has the name of the request.                          *)
(*                                                                         *)
(* Last the list sent after a creation, which shows the new minifig: the   *)
(* row that the request inserted stays in the table under its name and     *)
(* account, so a SELECT that is not full returns it, and one that is full  *)
(* leaves the account with more rows than a list.                          *)
(*                                                                         *)
(* At the end what one server keeps that two do not: names are unique, the *)
(* list after a creation shows it complete, and the statements of          *)
(* createNewMinifig, crashes between them included, implement the abstract *)
(* Roster.  With one server nothing happens between the check of a name    *)
(* and the INSERT, and the row found by name is the one just inserted.     *)
(***************************************************************************)
EXTENDS MinifigCreation, TLAPS, FiniteSetTheorems

CreationSteps == {"check", "insert", "find", "shirt", "pants"}

\* A row that looks like the one of an item.
Has(id, slot) == \E i \in items : i.owner = id /\ i.slot = slot
Dressed(f) == \A slot \in Slots : Has(f.id, slot)

\* What the request of a server relies on at each of its steps.
InGoodOrder(s) ==
  /\ job[s].step # "idle" => job[s].account \in AccountIds
  /\ job[s].step \in CreationSteps => job[s].name \in Names
  /\ job[s].step = "find" => FigsNamed(job[s].name) # {}
  /\ job[s].step \in {"shirt", "pants"} =>
       \E f \in FigsNamed(job[s].name) : f.id = job[s].objectID
  /\ job[s].step = "pants" => Has(job[s].objectID, "torso")

\* Every creation that was confirmed left a dressed minifig.
Honest ==
  \A r \in answers : r.code = 0 => \E f \in FigsNamed(r.name) : Dressed(f)

Inv ==
  /\ CreationTypeOK
  /\ \A s \in Servers : InGoodOrder(s)
  /\ EveryItemHasAnOwner
  /\ Honest

LEMMA WornByAll ==
  ASSUME NEW f PROVE (Worn(f) = Slots) <=> Dressed(f)
BY DEF Worn, Wearing, Has, Dressed

LEMMA IdleJob == Idle \in Job
BY DEF Idle, Job, Steps

-----------------------------------------------------------------------------
(* The type of each part of the state *)

\* A job that goes to another step, or ends, is a job.
LEMMA JobMoves ==
  ASSUME CreationTypeOK, NEW s \in Servers
  PROVE  /\ job[s] \in Job
         /\ \A step \in Steps : Goto(s, step) => job' \in [Servers -> Job]
         /\ Finish(s) => job' \in [Servers -> Job]
<1>1. job[s] \in Job
  BY DEF CreationTypeOK
<1>2. ASSUME NEW step \in Steps, Goto(s, step) PROVE job' \in [Servers -> Job]
  <2>1. [job[s] EXCEPT !.step = step] \in Job
    BY <1>1 DEF Job
  <2> QED  BY <1>2, <2>1 DEF Goto, CreationTypeOK
<1>3. ASSUME Finish(s) PROVE job' \in [Servers -> Job]
  BY <1>3, IdleJob DEF Finish, CreationTypeOK
<1> QED  BY <1>1, <1>2, <1>3

LEMMA RespondType ==
  ASSUME CreationTypeOK, NEW s \in Servers, InGoodOrder(s),
         job[s].step \in CreationSteps, NEW code \in {0, 3}, Respond(s, code)
  PROVE  answers' \subseteq Answer
<1>1. [account |-> job[s].account, name |-> job[s].name, code |-> code] \in Answer
  BY DEF InGoodOrder, CreationSteps, Answer
<1> QED  BY <1>1 DEF Respond, CreationTypeOK

LEMMA InsertItemType ==
  ASSUME CreationTypeOK, NEW s \in Servers, NEW slot \in Slots, InsertItem(s, slot)
  PROVE  items' \subseteq Item /\ nextItem' \in Nat
<1>1. job[s].objectID \in Nat
  BY DEF CreationTypeOK, Job
<1>2. [id |-> nextItem, owner |-> job[s].objectID, slot |-> slot] \in Item
  BY <1>1 DEF CreationTypeOK, Item
<1> QED  BY <1>2 DEF InsertItem, CreationTypeOK

LEMMA TypeStep == Inv /\ [CreationNext]_creationVars => CreationTypeOK'
<1> SUFFICES ASSUME Inv, [CreationNext]_creationVars PROVE CreationTypeOK'
  OBVIOUS
<1>0. CreationTypeOK /\ \A s \in Servers : InGoodOrder(s) /\ job[s] \in Job
  BY JobMoves DEF Inv
<1>1. CASE UNCHANGED creationVars
  BY <1>0, <1>1 DEF CreationTypeOK, creationVars, tables
<1>2. ASSUME NEW s \in Servers, NEW a \in AccountIds, NEW n \in Names \cup {None},
             NEW step \in {"check", "figs"}, Begin(s, step, a, n)
      PROVE  CreationTypeOK'
  <2>1. requests + 1 \in Nat
    BY <1>0 DEF CreationTypeOK
  <2>2. [Idle EXCEPT !.step = step, !.account = a, !.name = n,
                     !.request = requests + 1] \in Job
    BY <2>1 DEF Idle, Job, Steps
  <2>3. job' \in [Servers -> Job]
    BY <1>0, <1>2, <2>2 DEF Begin, CreationTypeOK
  <2> QED  BY <1>0, <1>2, <2>1, <2>3 DEF Begin, CreationTypeOK, tables
<1>3. ASSUME NEW s \in Servers, CheckName(s) PROVE CreationTypeOK'
  <2>1. job' \in [Servers -> Job]
    BY <1>0, <1>3, JobMoves DEF CheckName, Steps
  <2>2. answers' \subseteq Answer
    BY <1>0, <1>3, RespondType DEF CheckName, CreationSteps, CreationTypeOK
  <2> QED  BY <1>0, <1>3, <2>1, <2>2 DEF CheckName, CreationTypeOK, tables
<1>4. ASSUME NEW s \in Servers, InsertFig(s) PROVE CreationTypeOK'
  <2>1. job' \in [Servers -> Job]
    BY <1>0, <1>4, JobMoves DEF InsertFig, Steps
  <2>2. job[s].account \in AccountIds /\ job[s].name \in Names
    BY <1>0, <1>4 DEF InsertFig, InGoodOrder, CreationSteps
  <2>3. minifigs' \subseteq Fig /\ nextFig' \in Nat \ {0}
    BY <1>0, <1>4, <2>2 DEF InsertFig, CreationTypeOK, Fig
  <2> QED  BY <1>0, <1>4, <2>1, <2>3 DEF InsertFig, CreationTypeOK
<1>5. ASSUME NEW s \in Servers, FindObjectID(s) PROVE CreationTypeOK'
  <2>1. PICK id \in IF FigsNamed(job[s].name) = {} THEN {0}
                    ELSE {f.id : f \in FigsNamed(job[s].name)} :
          job' = [job EXCEPT ![s].step = "shirt", ![s].objectID = id]
    BY <1>5 DEF FindObjectID
  <2>2. id \in Nat
    BY <1>0 DEF FigsNamed, CreationTypeOK, Fig
  <2>3. [job[s] EXCEPT !.step = "shirt", !.objectID = id] \in Job
    BY <1>0, <2>2 DEF Job, Steps
  <2>4. job' \in [Servers -> Job]
    BY <1>0, <2>1, <2>3 DEF CreationTypeOK
  <2> QED  BY <1>0, <1>5, <2>4 DEF FindObjectID, CreationTypeOK, tables
<1>6. ASSUME NEW s \in Servers, InsertShirt(s) PROVE CreationTypeOK'
  <2>1. job' \in [Servers -> Job]
    BY <1>0, <1>6, JobMoves DEF InsertShirt, Steps
  <2>2. items' \subseteq Item /\ nextItem' \in Nat
    BY <1>0, <1>6, InsertItemType DEF InsertShirt, Slots
  <2> QED  BY <1>0, <1>6, <2>1, <2>2 DEF InsertShirt, CreationTypeOK
<1>7. ASSUME NEW s \in Servers, InsertPants(s) PROVE CreationTypeOK'
  <2>1. job' \in [Servers -> Job]
    BY <1>0, <1>7, JobMoves DEF InsertPants, Steps
  <2>2. items' \subseteq Item /\ nextItem' \in Nat
    BY <1>0, <1>7, InsertItemType DEF InsertPants, Slots
  <2>3. answers' \subseteq Answer
    BY <1>0, <1>7, RespondType DEF InsertPants, CreationSteps
  <2> QED  BY <1>0, <1>7, <2>1, <2>2, <2>3 DEF InsertPants, CreationTypeOK
<1>8. ASSUME NEW s \in Servers, ListFigs(s) PROVE CreationTypeOK'
  <2>1. PICK rows \in SUBSET Fig :
          job' = [job EXCEPT ![s].step = "send", ![s].left = rows]
    BY <1>0, <1>8 DEF ListFigs, SelectFigs, FigsOf, CreationTypeOK
  <2>2. [job[s] EXCEPT !.step = "send", !.left = rows] \in Job
    BY <1>0 DEF Job, Steps
  <2>3. job' \in [Servers -> Job]
    BY <1>0, <2>1, <2>2 DEF CreationTypeOK
  <2> QED  BY <1>0, <1>8, <2>3 DEF ListFigs, CreationTypeOK, tables
<1>9. ASSUME NEW s \in Servers, ListItems(s) PROVE CreationTypeOK'
  <2>1. job[s].left \in SUBSET Fig /\ job[s].page \in SUBSET Entry
    BY <1>0 DEF Job
  <2>2. PICK f \in job[s].left :
          job' = [job EXCEPT ![s].left = @ \ {f},
                             ![s].page = @ \cup {[fig |-> f, worn |-> Worn(f)]}]
    BY <1>9 DEF ListItems
  <2>3. [fig |-> f, worn |-> Worn(f)] \in Entry
    BY <2>1 DEF Entry, Worn
  <2>4. [job[s] EXCEPT !.left = @ \ {f},
                       !.page = @ \cup {[fig |-> f, worn |-> Worn(f)]}] \in Job
    BY <1>0, <2>1, <2>3 DEF Job
  <2>5. job' \in [Servers -> Job]
    BY <1>0, <2>2, <2>4 DEF CreationTypeOK
  <2> QED  BY <1>0, <1>9, <2>5 DEF ListItems, CreationTypeOK, tables
<1>10. ASSUME NEW s \in Servers, SendList(s) PROVE CreationTypeOK'
  BY <1>0, <1>10, JobMoves DEF SendList, CreationTypeOK, tables
<1>11. ASSUME NEW s \in Servers, Crash(s) PROVE CreationTypeOK'
  <2>1. crashed' \subseteq Job
    BY <1>0, <1>11 DEF Crash, CreationTypeOK
  <2> QED  BY <1>0, <1>11, <2>1, JobMoves DEF Crash, CreationTypeOK, tables
<1> QED
  BY <1>1, <1>2, <1>3, <1>4, <1>5, <1>6, <1>7, <1>8, <1>9, <1>10, <1>11
     DEF CreationNext, RequestCreation, RequestList

-----------------------------------------------------------------------------
(* The rows only grow *)

\* No step takes a row away.
LEMMA RowsStay ==
  ASSUME [CreationNext]_creationVars
  PROVE  minifigs \subseteq minifigs' /\ items \subseteq items'
BY DEF CreationNext, RequestCreation, RequestList, Begin, CheckName, InsertFig,
       FindObjectID, InsertShirt, InsertPants, InsertItem, ListFigs, ListItems,
       SendList, Crash, creationVars, tables

\* So what a request relied on, another server's step leaves true.
LEMMA OthersStayInOrder ==
  ASSUME [CreationNext]_creationVars, NEW t \in Servers, InGoodOrder(t), job'[t] = job[t]
  PROVE  InGoodOrder(t)'
BY RowsStay DEF InGoodOrder, FigsNamed, Has

\* A request that is over, or that has come to the list, relies on nothing
\* but its account.
LEMMA ListingInOrder ==
  ASSUME NEW t \in Servers, job'[t].step \in {"idle", "figs", "send"},
         job'[t].step # "idle" => job'[t].account \in AccountIds
  PROVE  InGoodOrder(t)'
BY DEF InGoodOrder, CreationSteps

LEMMA HonestStays ==
  ASSUME [CreationNext]_creationVars, Honest, UNCHANGED answers
  PROVE  Honest'
BY RowsStay DEF Honest, FigsNamed, Dressed, Has

LEMMA OwnersStay ==
  ASSUME [CreationNext]_creationVars, EveryItemHasAnOwner, UNCHANGED items
  PROVE  EveryItemHasAnOwner'
BY RowsStay DEF EveryItemHasAnOwner

\* An item that was inserted for a row of `minifigs`.
LEMMA NewItem ==
  ASSUME [CreationNext]_creationVars, NEW s \in Servers, NEW slot, InsertItem(s, slot),
         EveryItemHasAnOwner, \E f \in minifigs : f.id = job[s].objectID
  PROVE  /\ EveryItemHasAnOwner'
         /\ \E i \in items' : i.owner = job[s].objectID /\ i.slot = slot
<1>1. [id |-> nextItem, owner |-> job[s].objectID, slot |-> slot] \in items'
  BY DEF InsertItem
<1>2. EveryItemHasAnOwner'
  BY RowsStay DEF InsertItem, EveryItemHasAnOwner
<1> QED  BY <1>1, <1>2

-----------------------------------------------------------------------------
(* Every step keeps the invariant *)

LEMMA CheckKeeps ==
  ASSUME Inv, CreationTypeOK', [CreationNext]_creationVars, NEW s \in Servers, CheckName(s)
  PROVE  Inv'
<1>0. CreationTypeOK /\ InGoodOrder(s) /\ job[s].step = "check"
  BY DEF Inv, CheckName
<1>1. Honest'
  <2>1. CASE UNCHANGED answers
    BY <2>1, HonestStays DEF Inv
  <2>2. CASE Respond(s, 3)
    BY <2>2, RowsStay DEF Inv, Respond, Honest, FigsNamed, Dressed, Has
  <2> QED  BY <2>1, <2>2 DEF CheckName
<1>2. EveryItemHasAnOwner'
  BY OwnersStay DEF Inv, CheckName, tables
<1>3. InGoodOrder(s)'
  <2>1. CASE Goto(s, "insert")
    BY <1>0, <2>1 DEF Goto, InGoodOrder, CreationSteps, CreationTypeOK
  <2>2. CASE Finish(s)
    <3>1. job'[s].step = "idle"
      BY <1>0, <2>2 DEF Finish, Idle, CreationTypeOK
    <3> QED  BY <3>1, ListingInOrder
  <2> QED  BY <2>1, <2>2 DEF CheckName
<1>4. ASSUME NEW t \in Servers, t # s PROVE job'[t] = job[t]
  BY <1>0, <1>4 DEF CheckName, Goto, Finish, CreationTypeOK
<1> QED  BY <1>1, <1>2, <1>3, <1>4, OthersStayInOrder DEF Inv

\* Steps of a list, and the begin and the end of a request, change no row
\* and confirm nothing.
LEMMA QuietKeeps ==
  ASSUME Inv, CreationTypeOK', [CreationNext]_creationVars, NEW s \in Servers,
         UNCHANGED <<tables, answers>>, InGoodOrder(s)',
         \A t \in Servers : t # s => job'[t] = job[t]
  PROVE  Inv'
<1>1. Honest'
  BY HonestStays DEF Inv
<1>2. EveryItemHasAnOwner'
  BY OwnersStay DEF Inv, tables
<1> QED  BY <1>1, <1>2, OthersStayInOrder DEF Inv

LEMMA BeginKeeps ==
  ASSUME Inv, CreationTypeOK', [CreationNext]_creationVars, NEW s \in Servers,
         RequestCreation(s) \/ RequestList(s)
  PROVE  Inv'
<1>1. PICK step \in {"check", "figs"}, a \in AccountIds, n \in Names \cup {None} :
        Begin(s, step, a, n) /\ (step = "check" => n \in Names)
  BY DEF RequestCreation, RequestList
<1>2. /\ job'[s].step = step /\ job'[s].account = a /\ job'[s].name = n
      /\ \A t \in Servers : t # s => job'[t] = job[t]
  BY <1>1 DEF Begin, Idle, Inv, CreationTypeOK
<1>3. InGoodOrder(s)'
  BY <1>1, <1>2 DEF InGoodOrder, CreationSteps
<1> QED  BY <1>1, <1>2, <1>3, QuietKeeps DEF Begin

LEMMA FindKeeps ==
  ASSUME Inv, CreationTypeOK', [CreationNext]_creationVars, NEW s \in Servers, FindObjectID(s)
  PROVE  Inv'
<1>1. job[s].name \in Names /\ FigsNamed(job[s].name) # {}
  BY DEF Inv, InGoodOrder, FindObjectID, CreationSteps
<1>2. PICK id \in {f.id : f \in FigsNamed(job[s].name)} :
        job' = [job EXCEPT ![s].step = "shirt", ![s].objectID = id]
  BY <1>1 DEF FindObjectID
<1>3. /\ job[s] \in Job
      /\ job' = [job EXCEPT ![s] = [job[s] EXCEPT !.step = "shirt", !.objectID = id]]
  BY <1>2 DEF Inv, CreationTypeOK
<1>4. /\ job'[s].step = "shirt" /\ job'[s].objectID = id
      /\ job'[s].account = job[s].account /\ job'[s].name = job[s].name
      /\ \A t \in Servers : t # s => job'[t] = job[t]
  BY <1>3 DEF Inv, CreationTypeOK, Job
<1>5. minifigs' = minifigs /\ job[s].step = "find"
  BY DEF FindObjectID, tables
<1>6. \E f \in FigsNamed(job[s].name) : f.id = id
  BY <1>2
<1>7. InGoodOrder(s)'
  BY <1>1, <1>4, <1>5, <1>6 DEF InGoodOrder, FigsNamed, Inv
<1> QED  BY <1>4, <1>7, QuietKeeps DEF FindObjectID

LEMMA ListKeeps ==
  ASSUME Inv, CreationTypeOK', [CreationNext]_creationVars, NEW s \in Servers,
         ListFigs(s) \/ ListItems(s) \/ SendList(s) \/ Crash(s)
  PROVE  Inv'
<1>0. job[s] \in Job /\ (job[s].step # "idle" => job[s].account \in AccountIds)
  BY DEF Inv, CreationTypeOK, InGoodOrder
<1>1. CASE ListFigs(s)
  <2>1. PICK rows : job' = [job EXCEPT ![s].step = "send", ![s].left = rows]
    BY <1>1 DEF ListFigs
  <2>2. /\ job'[s].step = "send" /\ job'[s].account = job[s].account
        /\ \A t \in Servers : t # s => job'[t] = job[t]
    BY <1>0, <2>1 DEF Inv, CreationTypeOK, Job
  <2>3. InGoodOrder(s)'
    BY <1>0, <1>1, <2>2, ListingInOrder DEF ListFigs
  <2> QED  BY <1>1, <2>2, <2>3, QuietKeeps DEF ListFigs
<1>2. CASE ListItems(s)
  <2>1. PICK f : job' = [job EXCEPT ![s].left = @ \ {f},
                                    ![s].page = @ \cup {[fig |-> f, worn |-> Worn(f)]}]
    BY <1>2 DEF ListItems
  <2>2. /\ job'[s].step = job[s].step /\ job'[s].account = job[s].account
        /\ \A t \in Servers : t # s => job'[t] = job[t]
    BY <1>0, <2>1 DEF Inv, CreationTypeOK, Job
  <2>3. InGoodOrder(s)'
    BY <1>0, <1>2, <2>2, ListingInOrder DEF ListItems
  <2> QED  BY <1>2, <2>2, <2>3, QuietKeeps DEF ListItems
<1>3. CASE SendList(s) \/ Crash(s)
  <2>1. /\ job'[s].step = "idle"
        /\ \A t \in Servers : t # s => job'[t] = job[t]
    BY <1>3 DEF SendList, Crash, Finish, Idle, Inv, CreationTypeOK
  <2>2. InGoodOrder(s)'
    BY <2>1, ListingInOrder
  <2> QED  BY <1>3, <2>1, <2>2, QuietKeeps DEF SendList, Crash
<1> QED  BY <1>1, <1>2, <1>3

\* What Goto leaves of a job.
LEMMA GotoJob ==
  ASSUME CreationTypeOK, NEW s \in Servers, NEW step, Goto(s, step)
  PROVE  /\ job'[s].step = step /\ job'[s].objectID = job[s].objectID
         /\ job'[s].account = job[s].account /\ job'[s].name = job[s].name
         /\ \A t \in Servers : t # s => job'[t] = job[t]
<1>1. job[s] \in Job
  BY DEF CreationTypeOK
<1> QED  BY <1>1 DEF Goto, CreationTypeOK, Job

LEMMA InsertFigKeeps ==
  ASSUME Inv, CreationTypeOK', [CreationNext]_creationVars, NEW s \in Servers, InsertFig(s)
  PROVE  Inv'
<1>1. /\ job'[s].step = "find" /\ job'[s].name = job[s].name
      /\ job'[s].account = job[s].account
      /\ \A t \in Servers : t # s => job'[t] = job[t]
  BY GotoJob DEF InsertFig, Inv
<1>2. [id |-> nextFig, account |-> job[s].account, name |-> job[s].name]
        \in FigsNamed(job[s].name)'
  BY <1>1 DEF InsertFig, FigsNamed
<1>3. InGoodOrder(s)'
  BY <1>1, <1>2 DEF InGoodOrder, Inv, InsertFig, CreationSteps
<1>4. Honest' /\ EveryItemHasAnOwner'
  BY HonestStays, OwnersStay DEF InsertFig, Inv
<1> QED  BY <1>1, <1>3, <1>4, OthersStayInOrder DEF Inv

LEMMA InsertShirtKeeps ==
  ASSUME Inv, CreationTypeOK', [CreationNext]_creationVars, NEW s \in Servers, InsertShirt(s)
  PROVE  Inv'
<1>1. /\ job'[s].step = "pants" /\ job'[s].name = job[s].name
      /\ job'[s].account = job[s].account /\ job'[s].objectID = job[s].objectID
      /\ \A t \in Servers : t # s => job'[t] = job[t]
  BY GotoJob DEF InsertShirt, Inv
<1>2. \E f \in FigsNamed(job[s].name) : f.id = job[s].objectID
  BY DEF Inv, InGoodOrder, InsertShirt
<1>3. /\ EveryItemHasAnOwner'
      /\ \E i \in items' : i.owner = job[s].objectID /\ i.slot = "torso"
  BY <1>2, NewItem DEF InsertShirt, Inv, FigsNamed
<1>4. InGoodOrder(s)'
  BY <1>1, <1>2, <1>3
     DEF InGoodOrder, Has, FigsNamed, Inv, InsertShirt, CreationSteps
<1>5. Honest'
  BY HonestStays DEF InsertShirt, Inv
<1> QED  BY <1>1, <1>3, <1>4, <1>5, OthersStayInOrder DEF Inv

\* The creation that ends here leaves the minifig it found dressed.
LEMMA PantsDress ==
  ASSUME Inv, [CreationNext]_creationVars, NEW s \in Servers, InsertPants(s)
  PROVE  /\ EveryItemHasAnOwner'
         /\ \E f \in FigsNamed(job[s].name)' : Dressed(f)'
<1>1. PICK f \in FigsNamed(job[s].name) : f.id = job[s].objectID
  BY DEF Inv, InGoodOrder, InsertPants
<1>2. /\ EveryItemHasAnOwner'
      /\ \E i \in items' : i.owner = job[s].objectID /\ i.slot = "legs"
  BY <1>1, NewItem DEF InsertPants, Inv, FigsNamed
<1>3. \E i \in items' : i.owner = job[s].objectID /\ i.slot = "torso"
  BY RowsStay DEF Inv, InGoodOrder, InsertPants, Has
<1>4. Dressed(f)'
  BY <1>1, <1>2, <1>3 DEF Dressed, Has, Slots
<1>5. job'[s].name = job[s].name
  BY GotoJob DEF InsertPants, Inv
<1>6. f \in FigsNamed(job[s].name)'
  BY <1>1, <1>5, RowsStay DEF FigsNamed
<1> QED  BY <1>2, <1>4, <1>6

LEMMA InsertPantsKeeps ==
  ASSUME Inv, CreationTypeOK', [CreationNext]_creationVars, NEW s \in Servers, InsertPants(s)
  PROVE  Inv'
<1>1. /\ job'[s].step = "figs" /\ job'[s].name = job[s].name
      /\ job'[s].account = job[s].account
      /\ \A t \in Servers : t # s => job'[t] = job[t]
  BY GotoJob DEF InsertPants, Inv
<1>2. InGoodOrder(s)'
  BY <1>1, ListingInOrder DEF Inv, InGoodOrder, InsertPants
<1>3. EveryItemHasAnOwner' /\ \E f \in FigsNamed(job[s].name)' : Dressed(f)'
  BY PantsDress
<1>4. Honest'
  <2> SUFFICES ASSUME NEW r \in answers', r.code = 0
               PROVE  \E f \in FigsNamed(r.name)' : Dressed(f)'
    BY DEF Honest
  <2>1. CASE r \in answers
    BY <2>1, RowsStay DEF Inv, Honest, FigsNamed, Dressed, Has
  <2>2. CASE r \notin answers
    BY <1>1, <1>3, <2>2 DEF InsertPants, Respond
  <2> QED  BY <2>1, <2>2
<1> QED  BY <1>1, <1>2, <1>3, <1>4, OthersStayInOrder DEF Inv

LEMMA InitInv == CreationInit => Inv
<1> SUFFICES ASSUME CreationInit PROVE Inv
  OBVIOUS
<1>1. CreationTypeOK
  BY IdleJob DEF CreationInit, CreationTypeOK
<1>2. \A s \in Servers : InGoodOrder(s)
  BY DEF CreationInit, InGoodOrder, Idle, CreationSteps
<1> QED  BY <1>1, <1>2 DEF CreationInit, Inv, EveryItemHasAnOwner, Honest

LEMMA StepInv == Inv /\ [CreationNext]_creationVars => Inv'
<1> SUFFICES ASSUME Inv, [CreationNext]_creationVars PROVE Inv'
  OBVIOUS
<1>0. CreationTypeOK'
  BY TypeStep
<1>1. CASE UNCHANGED creationVars
  BY <1>0, <1>1 DEF creationVars, tables, Inv, InGoodOrder, FigsNamed, Has,
                    EveryItemHasAnOwner, Honest, Dressed
<1>2. CASE CreationNext
  BY <1>0, <1>2, BeginKeeps, CheckKeeps, InsertFigKeeps, FindKeeps,
     InsertShirtKeeps, InsertPantsKeeps, ListKeeps DEF CreationNext
<1> QED  BY <1>1, <1>2

\* The invariant holds throughout, for any servers, accounts and names.
LEMMA Invariance == CreationSpec => []Inv
BY InitInv, StepInv, PTL DEF CreationSpec

-----------------------------------------------------------------------------
(* Theorems *)

\* Rows, jobs and answers are well-formed: in particular createNewMinifig
\* answers 0 or 3 and nothing else, and only to requests it was given.
THEOREM TypeCorrect == CreationSpec => []CreationTypeOK
<1>1. Inv => CreationTypeOK
  BY DEF Inv
<1> QED  BY <1>1, Invariance, PTL

\* However many servers create minifigs at the same time and die half-way, an
\* item always belongs to a minifig: the SELECT by name that createNewMinifig
\* does after its INSERT finds a row of that name, be it another one's.
THEOREM ItemsHaveOwners == CreationSpec => []EveryItemHasAnOwner
<1>1. Inv => EveryItemHasAnOwner
  BY DEF Inv
<1> QED  BY <1>1, Invariance, PTL

\* Response 0 is never sent for a name of which no minifig is dressed, also
\* when the items of two creations of that name went to one of their rows.
THEOREM ConfirmationIsHonest == CreationSpec => []ConfirmedIsDressed
<1>1. Inv => ConfirmedIsDressed
  BY WornByAll DEF Inv, Honest, ConfirmedIsDressed
<1> QED  BY <1>1, Invariance, PTL

-----------------------------------------------------------------------------
(* The wardrobe: what is counted *)

\* Requests under way have numbers of their own.
Numbered ==
  /\ \A s \in Servers : job[s].step # "idle" => job[s].request \in 1 .. requests
  /\ \A j \in crashed : j.request \in 1 .. requests
  /\ \A s, t \in Servers :
       job[s].step # "idle" /\ job[t].step # "idle" /\ job[s].request = job[t].request
         => s = t
  /\ \A s \in Servers, j \in crashed :
       job[s].step # "idle" => j.request # job[s].request

\* Rows have ids of their own, and there are finitely many of them.
RowsApart ==
  /\ \A f, g \in minifigs : f.id = g.id => f = g
  /\ \A f \in minifigs : f.id < nextFig
  /\ \A i \in items : i.id < nextItem
  /\ IsFiniteSet(minifigs) /\ IsFiniteSet(items)

CountInv == Inv /\ Numbered /\ RowsApart /\ WardrobeAddsUp

-----------------------------------------------------------------------------
(* The numbers of requests *)

Steady == {"find", "shirt", "pants"}

LEMMA AtFinite ==
  ASSUME CreationTypeOK, Numbered, NEW n, NEW steps, "idle" \notin steps
  PROVE  IsFiniteSet(At(n, steps))
<1>1. At(n, steps) \subseteq 1 .. requests
  BY DEF At, Numbered
<1>2. IsFiniteSet(1 .. requests)
  BY FS_Interval DEF CreationTypeOK
<1> QED  BY <1>1, <1>2, FS_Subset

\* A request that a server is handling is counted where it is.
LEMMA AtOwn ==
  ASSUME Numbered, NEW s \in Servers, job[s].step # "idle",
         NEW n, NEW steps, "idle" \notin steps
  PROVE  job[s].request \in At(n, steps) <=> job[s].name = n /\ job[s].step \in steps
BY DEF At, Numbered

\* A request that moves to another step is counted there, and no other is
\* touched.
LEMMA AtMoves ==
  ASSUME Numbered, NEW s \in Servers, job[s].step # "idle",
         NEW step, step # "idle", job'[s].step = step,
         job'[s].name = job[s].name, job'[s].request = job[s].request,
         \A t \in Servers : t # s => job'[t] = job[t],
         UNCHANGED <<crashed, requests>>,
         NEW n, NEW steps, "idle" \notin steps
  PROVE  At(n, steps)' =
           IF job[s].name = n /\ step \in steps
             THEN At(n, steps) \cup {job[s].request}
             ELSE At(n, steps) \ {job[s].request}
<1>1. Numbered'
  BY DEF Numbered
<1>2. ASSUME NEW q, q # job[s].request
      PROVE  q \in At(n, steps)' <=> q \in At(n, steps)
  BY <1>2 DEF At
<1>3. job[s].request \in At(n, steps)' <=> job[s].name = n /\ step \in steps
  BY <1>1 DEF At, Numbered
<1> QED  BY <1>2, <1>3

LEMMA AtCounts ==
  ASSUME CreationTypeOK, Numbered, NEW s \in Servers, job[s].step # "idle",
         NEW step, step # "idle", job'[s].step = step,
         job'[s].name = job[s].name, job'[s].request = job[s].request,
         \A t \in Servers : t # s => job'[t] = job[t],
         UNCHANGED <<crashed, requests>>,
         NEW n, NEW steps, "idle" \notin steps
  PROVE  /\ Cardinality(At(n, steps)) \in Nat
         /\ \/ job[s].name # n
            \/ job[s].step \in steps /\ step \in steps
            \/ job[s].step \notin steps /\ step \notin steps
            => At(n, steps)' = At(n, steps)
         /\ job[s].name = n /\ job[s].step \notin steps /\ step \in steps
            => Cardinality(At(n, steps)') = Cardinality(At(n, steps)) + 1
         /\ job[s].name = n /\ job[s].step \in steps /\ step \notin steps
            => Cardinality(At(n, steps)') = Cardinality(At(n, steps)) - 1
<1>1. IsFiniteSet(At(n, steps))
  BY AtFinite
<1>2. job[s].request \in At(n, steps) <=> job[s].name = n /\ job[s].step \in steps
  BY AtOwn
<1>3. At(n, steps)' = IF job[s].name = n /\ step \in steps
                        THEN At(n, steps) \cup {job[s].request}
                        ELSE At(n, steps) \ {job[s].request}
  BY AtMoves
<1>4. Cardinality(At(n, steps)) \in Nat
  BY <1>1, FS_CardinalityType
<1>5. Cardinality(At(n, steps) \cup {job[s].request}) =
        IF job[s].request \in At(n, steps) THEN Cardinality(At(n, steps))
        ELSE Cardinality(At(n, steps)) + 1
  BY <1>1, FS_AddElement
<1>6. Cardinality(At(n, steps) \ {job[s].request}) =
        IF job[s].request \in At(n, steps) THEN Cardinality(At(n, steps)) - 1
        ELSE Cardinality(At(n, steps))
  BY <1>1, FS_RemoveElement
<1> QED  BY <1>2, <1>3, <1>4, <1>5, <1>6

\* A step outside the counted part of a creation, or a crash, counts nothing.
LEMMA AtStays ==
  ASSUME CreationTypeOK, NEW s \in Servers,
         \A t \in Servers : t # s => job'[t] = job[t],
         \/ /\ job[s].step \notin Steady /\ job'[s].step \notin Steady
            /\ crashed' = crashed
         \/ /\ job'[s] = Idle /\ crashed' = crashed \cup {job[s]},
         NEW n \in Names, NEW steps \in SUBSET Steady
  PROVE  At(n, steps)' = At(n, steps)
<1>1. ASSUME NEW q PROVE q \in At(n, steps)' <=> q \in At(n, steps)
  <2>1. CASE /\ job[s].step \notin Steady /\ job'[s].step \notin Steady
             /\ crashed' = crashed
    BY <2>1 DEF At
  <2>2. CASE job'[s] = Idle /\ crashed' = crashed \cup {job[s]}
    <3>1. job'[s].name # n
      BY <2>2, CreationAssumption DEF Idle
    <3> QED  BY <2>2, <3>1 DEF At
  <2> QED  BY <2>1, <2>2
<1> QED  BY <1>1

-----------------------------------------------------------------------------
(* The parts of the invariant other than the wardrobe *)

LEMMA NumberedSame ==
  ASSUME CreationTypeOK, Numbered, NEW s \in Servers,
         \A t \in Servers : t # s => job'[t] = job[t],
         \/ /\ job[s].step # "idle" /\ job'[s].request = job[s].request
            /\ UNCHANGED <<crashed, requests>>
         \/ /\ job'[s] = Idle /\ requests' = requests
            /\ crashed' = crashed
  PROVE  Numbered'
BY DEF Numbered, Idle

LEMMA NumberedNew ==
  ASSUME CreationTypeOK, Numbered, NEW s \in Servers,
         \A t \in Servers : t # s => job'[t] = job[t],
         job'[s].request = requests + 1, requests' = requests + 1,
         crashed' = crashed
  PROVE  Numbered'
BY DEF Numbered, CreationTypeOK

LEMMA RowsApartStep ==
  ASSUME CountInv, [CreationNext]_creationVars PROVE RowsApart'
<1>0. /\ RowsApart /\ nextFig \in Nat /\ nextItem \in Nat
      /\ \A f \in minifigs : f.id \in Nat
      /\ \A i \in items : i.id \in Nat
  BY DEF CountInv, Inv, CreationTypeOK, Fig, Item
<1>1. CASE UNCHANGED tables
  BY <1>0, <1>1 DEF RowsApart, tables
<1>2. ASSUME NEW s \in Servers, InsertFig(s) PROVE RowsApart'
  <2>1. IsFiniteSet(minifigs')
    BY <1>0, <1>2, FS_AddElement DEF InsertFig, RowsApart
  <2> QED  BY <1>0, <1>2, <2>1 DEF InsertFig, RowsApart
<1>3. ASSUME NEW s \in Servers, NEW slot, InsertItem(s, slot),
             UNCHANGED <<minifigs, nextFig>>
      PROVE  RowsApart'
  <2>1. IsFiniteSet(items')
    BY <1>0, <1>3, FS_AddElement DEF InsertItem, RowsApart
  <2> QED  BY <1>0, <1>3, <2>1 DEF InsertItem, RowsApart
<1> QED
  BY <1>1, <1>2, <1>3 DEF CreationNext, RequestCreation, RequestList, Begin, CheckName,
     FindObjectID, InsertShirt, InsertPants, ListFigs, ListItems, SendList,
     Crash, creationVars

-----------------------------------------------------------------------------
(* The wardrobe *)

LEMMA Sizes ==
  ASSUME RowsApart, NEW n, NEW slot
  PROVE  /\ IsFiniteSet(FigsNamed(n)) /\ Cardinality(FigsNamed(n)) \in Nat
         /\ IsFiniteSet(Outfits(n, slot)) /\ Cardinality(Outfits(n, slot)) \in Nat
<1>1. FigsNamed(n) \subseteq minifigs /\ Outfits(n, slot) \subseteq items
  BY DEF FigsNamed, Outfits
<1>2. IsFiniteSet(FigsNamed(n)) /\ IsFiniteSet(Outfits(n, slot))
  BY <1>1, FS_Subset DEF RowsApart
<1> QED  BY <1>2, FS_CardinalityType

\* An item for a minifig of the name joins the items of that slot, and those
\* of no other name or slot.
LEMMA NewOutfit ==
  ASSUME CountInv, NEW s \in Servers, NEW slot, InsertItem(s, slot),
         minifigs' = minifigs, NEW m, m = job[s].name,
         \E f \in FigsNamed(m) : f.id = job[s].objectID,
         NEW n, NEW other
  PROVE  /\ n = m /\ other = slot =>
              Cardinality(Outfits(n, other)') = Cardinality(Outfits(n, other)) + 1
         /\ n # m \/ other # slot => Outfits(n, other)' = Outfits(n, other)
<1>0. RowsApart
  BY DEF CountInv
<1>1. PICK new : /\ items' = items \cup {new} /\ new \notin items
                 /\ new.owner = job[s].objectID /\ new.slot = slot
  <2>1. PICK new : new = [id |-> nextItem, owner |-> job[s].objectID, slot |-> slot]
    OBVIOUS
  <2>2. new \notin items
    BY <2>1 DEF CountInv, RowsApart, Inv, CreationTypeOK
  <2> QED  BY <2>1, <2>2 DEF InsertItem
<1>2. CASE n = m /\ other = slot
  <2>1. Outfits(n, other)' = Outfits(n, other) \cup {new}
    BY <1>1, <1>2 DEF Outfits, FigsNamed
  <2>2. new \notin Outfits(n, other)
    BY <1>1 DEF Outfits
  <2>3. IsFiniteSet(Outfits(n, other))
    BY <1>0, Sizes
  <2>4. Cardinality(Outfits(n, other) \cup {new}) = Cardinality(Outfits(n, other)) + 1
    BY <2>2, <2>3, FS_AddElement
  <2> QED  BY <1>2, <2>1, <2>4
<1>3. CASE n # m \/ other # slot
  <2>1. ~(other = new.slot /\ \E f \in FigsNamed(n) : f.id = new.owner)
    BY <1>0, <1>1, <1>3 DEF RowsApart, FigsNamed
  <2> QED  BY <1>1, <1>3, <2>1 DEF Outfits, FigsNamed
<1> QED  BY <1>2, <1>3

\* The equations for one name.
AddsUp(n) ==
  /\ Cardinality(FigsNamed(n)) = Cardinality(Outfits(n, "torso"))
                                   + Cardinality(At(n, {"find", "shirt"}))
  /\ Cardinality(Outfits(n, "torso")) = Cardinality(Outfits(n, "legs"))
                                          + Cardinality(At(n, {"pants"}))

LEMMA AddsUpSame ==
  ASSUME NEW n, AddsUp(n), FigsNamed(n)' = FigsNamed(n),
         \A slot \in Slots : Outfits(n, slot)' = Outfits(n, slot),
         At(n, {"find", "shirt"})' = At(n, {"find", "shirt"}),
         At(n, {"pants"})' = At(n, {"pants"})
  PROVE  AddsUp(n)'
BY DEF AddsUp, Slots

LEMMA QuietAddsUp ==
  ASSUME CountInv, UNCHANGED <<minifigs, items>>, NEW s \in Servers,
         \A t \in Servers : t # s => job'[t] = job[t],
         \/ /\ job[s].step \notin Steady /\ job'[s].step \notin Steady
            /\ crashed' = crashed
         \/ /\ job'[s] = Idle /\ crashed' = crashed \cup {job[s]}
  PROVE  WardrobeAddsUp'
<1> SUFFICES ASSUME NEW n \in Names PROVE AddsUp(n)'
  BY DEF WardrobeAddsUp, AddsUp
<1>1. AddsUp(n)
  BY DEF CountInv, WardrobeAddsUp, AddsUp
<1>2. /\ FigsNamed(n)' = FigsNamed(n)
      /\ \A slot \in Slots : Outfits(n, slot)' = Outfits(n, slot)
  BY DEF FigsNamed, Outfits
<1>3. /\ At(n, {"find", "shirt"})' = At(n, {"find", "shirt"})
      /\ At(n, {"pants"})' = At(n, {"pants"})
  BY AtStays DEF CountInv, Inv, Steady
<1> QED  BY <1>1, <1>2, <1>3, AddsUpSame

\* A step inside the counted part of a creation.
LEMMA MovingJob ==
  ASSUME CreationTypeOK, NEW s \in Servers, NEW step, Goto(s, step)
  PROVE  job'[s].request = job[s].request
<1>1. job[s] \in Job
  BY DEF CreationTypeOK
<1> QED  BY <1>1 DEF Goto, CreationTypeOK, Job

LEMMA InsertFigAddsUp ==
  ASSUME CountInv, NEW s \in Servers, InsertFig(s)
  PROVE  WardrobeAddsUp'
<1> SUFFICES ASSUME NEW n \in Names PROVE AddsUp(n)'
  BY DEF WardrobeAddsUp, AddsUp
<1>0. AddsUp(n) /\ RowsApart /\ CreationTypeOK /\ Numbered
  BY DEF CountInv, WardrobeAddsUp, AddsUp, Inv
<1>1. /\ job[s].step = "insert" /\ job'[s].step = "find"
      /\ job'[s].name = job[s].name /\ job'[s].request = job[s].request
      /\ \A t \in Servers : t # s => job'[t] = job[t]
      /\ crashed' = crashed /\ requests' = requests
  BY <1>0, GotoJob, MovingJob DEF InsertFig
<1>2. PICK new : /\ minifigs' = minifigs \cup {new} /\ items' = items
                 /\ new.id = nextFig /\ new.name = job[s].name
  <2>1. PICK new : new = [id |-> nextFig, account |-> job[s].account,
                          name |-> job[s].name]
    OBVIOUS
  <2> QED  BY <2>1 DEF InsertFig
<1>3. ASSUME NEW slot PROVE Outfits(n, slot)' = Outfits(n, slot)
  <2>1. \A i \in items : i.owner # nextFig
    BY DEF CountInv, RowsApart, Inv, CreationTypeOK, Fig, EveryItemHasAnOwner
  <2> QED  BY <1>2, <2>1 DEF Outfits, FigsNamed
<1>4. At(n, {"pants"})' = At(n, {"pants"})
  BY <1>0, <1>1, AtCounts
<1>5. CASE job[s].name # n
  <2>1. FigsNamed(n)' = FigsNamed(n)
    BY <1>2, <1>5 DEF FigsNamed
  <2>2. At(n, {"find", "shirt"})' = At(n, {"find", "shirt"})
    BY <1>0, <1>1, <1>5, AtCounts
  <2> QED  BY <1>0, <1>3, <1>4, <2>1, <2>2, AddsUpSame
<1>6. CASE job[s].name = n
  <2>1. FigsNamed(n)' = FigsNamed(n) \cup {new} /\ new \notin FigsNamed(n)
    BY <1>0, <1>2, <1>6 DEF FigsNamed, RowsApart, CreationTypeOK
  <2>2. Cardinality(FigsNamed(n)') = Cardinality(FigsNamed(n)) + 1
    BY <1>0, <2>1, Sizes, FS_AddElement
  <2>3. /\ Cardinality(At(n, {"find", "shirt"})')
             = Cardinality(At(n, {"find", "shirt"})) + 1
        /\ Cardinality(At(n, {"find", "shirt"})) \in Nat
    BY <1>0, <1>1, <1>6, AtCounts
  <2>4. /\ Cardinality(FigsNamed(n)) \in Nat
        /\ Cardinality(Outfits(n, "torso")) \in Nat
    BY <1>0, Sizes
  <2> QED  BY <1>0, <1>3, <1>4, <2>2, <2>3, <2>4 DEF AddsUp
<1> QED  BY <1>5, <1>6

LEMMA InsertShirtAddsUp ==
  ASSUME CountInv, NEW s \in Servers, InsertShirt(s)
  PROVE  WardrobeAddsUp'
<1> SUFFICES ASSUME NEW n \in Names PROVE AddsUp(n)'
  BY DEF WardrobeAddsUp, AddsUp
<1>0. AddsUp(n) /\ RowsApart /\ CreationTypeOK /\ Numbered
  BY DEF CountInv, WardrobeAddsUp, AddsUp, Inv
<1>1. /\ job[s].step = "shirt" /\ job'[s].step = "pants"
      /\ job'[s].name = job[s].name /\ job'[s].request = job[s].request
      /\ \A t \in Servers : t # s => job'[t] = job[t]
      /\ crashed' = crashed /\ requests' = requests
      /\ minifigs' = minifigs /\ InsertItem(s, "torso")
  BY <1>0, GotoJob, MovingJob DEF InsertShirt
<1>2. \E f \in FigsNamed(job[s].name) : f.id = job[s].objectID
  BY <1>1 DEF CountInv, Inv, InGoodOrder
<1>3. FigsNamed(n)' = FigsNamed(n)
  BY <1>1 DEF FigsNamed
<1>4. Outfits(n, "legs")' = Outfits(n, "legs")
  BY <1>1, <1>2, NewOutfit
<1>5. CASE job[s].name # n
  <2>1. Outfits(n, "torso")' = Outfits(n, "torso")
    BY <1>1, <1>2, <1>5, NewOutfit
  <2>2. /\ At(n, {"find", "shirt"})' = At(n, {"find", "shirt"})
        /\ At(n, {"pants"})' = At(n, {"pants"})
    BY <1>0, <1>1, <1>5, AtCounts
  <2> QED  BY <1>0, <1>3, <1>4, <2>1, <2>2, AddsUpSame DEF Slots
<1>6. CASE job[s].name = n
  <2>1. Cardinality(Outfits(n, "torso")') = Cardinality(Outfits(n, "torso")) + 1
    BY <1>1, <1>2, <1>6, NewOutfit
  <2>2. /\ Cardinality(At(n, {"find", "shirt"})')
             = Cardinality(At(n, {"find", "shirt"})) - 1
        /\ Cardinality(At(n, {"find", "shirt"})) \in Nat
    BY <1>0, <1>1, <1>6, AtCounts
  <2>3. /\ Cardinality(At(n, {"pants"})') = Cardinality(At(n, {"pants"})) + 1
        /\ Cardinality(At(n, {"pants"})) \in Nat
    BY <1>0, <1>1, <1>6, AtCounts
  <2>4. /\ Cardinality(Outfits(n, "torso")) \in Nat
        /\ Cardinality(Outfits(n, "legs")) \in Nat
    BY <1>0, Sizes
  <2> QED  BY <1>0, <1>3, <1>4, <2>1, <2>2, <2>3, <2>4 DEF AddsUp
<1> QED  BY <1>5, <1>6

LEMMA InsertPantsAddsUp ==
  ASSUME CountInv, NEW s \in Servers, InsertPants(s)
  PROVE  WardrobeAddsUp'
<1> SUFFICES ASSUME NEW n \in Names PROVE AddsUp(n)'
  BY DEF WardrobeAddsUp, AddsUp
<1>0. AddsUp(n) /\ RowsApart /\ CreationTypeOK /\ Numbered
  BY DEF CountInv, WardrobeAddsUp, AddsUp, Inv
<1>1. /\ job[s].step = "pants" /\ job'[s].step = "figs"
      /\ job'[s].name = job[s].name /\ job'[s].request = job[s].request
      /\ \A t \in Servers : t # s => job'[t] = job[t]
      /\ crashed' = crashed /\ requests' = requests
      /\ minifigs' = minifigs /\ InsertItem(s, "legs")
  BY <1>0, GotoJob, MovingJob DEF InsertPants
<1>2. \E f \in FigsNamed(job[s].name) : f.id = job[s].objectID
  BY <1>1 DEF CountInv, Inv, InGoodOrder
<1>3. FigsNamed(n)' = FigsNamed(n)
  BY <1>1 DEF FigsNamed
<1>4. Outfits(n, "torso")' = Outfits(n, "torso")
  BY <1>1, <1>2, NewOutfit
<1>5. At(n, {"find", "shirt"})' = At(n, {"find", "shirt"})
  BY <1>0, <1>1, AtCounts
<1>6. CASE job[s].name # n
  <2>1. Outfits(n, "legs")' = Outfits(n, "legs")
    BY <1>1, <1>2, <1>6, NewOutfit
  <2>2. At(n, {"pants"})' = At(n, {"pants"})
    BY <1>0, <1>1, <1>6, AtCounts
  <2> QED  BY <1>0, <1>3, <1>4, <1>5, <2>1, <2>2, AddsUpSame DEF Slots
<1>7. CASE job[s].name = n
  <2>1. Cardinality(Outfits(n, "legs")') = Cardinality(Outfits(n, "legs")) + 1
    BY <1>1, <1>2, <1>7, NewOutfit
  <2>2. /\ Cardinality(At(n, {"pants"})') = Cardinality(At(n, {"pants"})) - 1
        /\ Cardinality(At(n, {"pants"})) \in Nat
    BY <1>0, <1>1, <1>7, AtCounts
  <2>3. Cardinality(Outfits(n, "legs")) \in Nat
    BY <1>0, Sizes
  <2> QED  BY <1>0, <1>3, <1>4, <1>5, <2>1, <2>2, <2>3 DEF AddsUp
<1> QED  BY <1>6, <1>7

\* FindObjectID changes the id a request works with and not its count.
LEMMA FindAddsUp ==
  ASSUME CountInv, NEW s \in Servers, FindObjectID(s)
  PROVE  WardrobeAddsUp' /\ Numbered'
<1>0. RowsApart /\ CreationTypeOK /\ Numbered /\ job[s] \in Job /\ job[s].step = "find"
  BY DEF CountInv, Inv, CreationTypeOK, FindObjectID
<1>1. PICK id : job' = [job EXCEPT ![s].step = "shirt", ![s].objectID = id]
  BY DEF FindObjectID
<1>2. job' = [job EXCEPT ![s] = [job[s] EXCEPT !.step = "shirt", !.objectID = id]]
  BY <1>0, <1>1 DEF CreationTypeOK
<1>3. /\ job'[s].step = "shirt" /\ job'[s].name = job[s].name
      /\ job'[s].request = job[s].request
      /\ \A t \in Servers : t # s => job'[t] = job[t]
  BY <1>0, <1>2 DEF CreationTypeOK, Job
<1>4. /\ minifigs' = minifigs /\ items' = items
      /\ crashed' = crashed /\ requests' = requests
  BY DEF FindObjectID, tables
<1>5. ASSUME NEW n \in Names PROVE AddsUp(n)'
  <2>1. /\ At(n, {"find", "shirt"})' = At(n, {"find", "shirt"})
        /\ At(n, {"pants"})' = At(n, {"pants"})
    BY <1>0, <1>3, <1>4, AtCounts
  <2>2. /\ FigsNamed(n)' = FigsNamed(n)
        /\ \A slot \in Slots : Outfits(n, slot)' = Outfits(n, slot)
    BY <1>4 DEF FigsNamed, Outfits
  <2>3. AddsUp(n)
    BY DEF CountInv, WardrobeAddsUp, AddsUp
  <2> QED  BY <2>1, <2>2, <2>3, AddsUpSame
<1>6. Numbered'
  BY <1>0, <1>3, <1>4, NumberedSame
<1> QED  BY <1>5, <1>6 DEF WardrobeAddsUp, AddsUp

\* The steps that count nothing.
LEMMA OtherAddsUp ==
  ASSUME CountInv, NEW s \in Servers,
         \/ RequestCreation(s) \/ RequestList(s) \/ CheckName(s)
         \/ ListFigs(s) \/ ListItems(s) \/ SendList(s) \/ Crash(s)
  PROVE  WardrobeAddsUp' /\ Numbered'
<1>0. CreationTypeOK /\ Numbered /\ job[s] \in Job
  BY DEF CountInv, Inv, CreationTypeOK
<1>1. minifigs' = minifigs /\ items' = items
  BY DEF RequestCreation, RequestList, Begin, CheckName, ListFigs, ListItems,
         SendList, Crash, tables
<1>2. CASE RequestCreation(s) \/ RequestList(s)
  <2>1. PICK step \in {"check", "figs"}, a \in AccountIds, n \in Names \cup {None} :
          Begin(s, step, a, n)
    BY <1>2 DEF RequestCreation, RequestList
  <2>2. /\ job[s].step = "idle" /\ job'[s].step = step
        /\ job'[s].request = requests + 1 /\ requests' = requests + 1
        /\ \A t \in Servers : t # s => job'[t] = job[t]
        /\ crashed' = crashed
    BY <1>0, <2>1 DEF Begin, Idle, CreationTypeOK
  <2>3. Numbered'
    BY <1>0, <2>2, NumberedNew
  <2> QED  BY <1>1, <2>2, <2>3, QuietAddsUp DEF Steady
<1>3. CASE \/ CheckName(s) /\ Goto(s, "insert")
           \/ ListFigs(s) \/ ListItems(s)
  <2>1. /\ job[s].step \in {"check", "figs", "send"}
        /\ job'[s].step \in {"insert", "send"}
        /\ job'[s].request = job[s].request
        /\ \A t \in Servers : t # s => job'[t] = job[t]
        /\ crashed' = crashed /\ requests' = requests
    <3>1. CASE CheckName(s) /\ Goto(s, "insert")
      BY <1>0, <3>1, GotoJob, MovingJob DEF CheckName
    <3>2. CASE ListFigs(s)
      <4>1. PICK rows : job' = [job EXCEPT ![s].step = "send", ![s].left = rows]
        BY <3>2 DEF ListFigs
      <4> QED  BY <1>0, <3>2, <4>1 DEF ListFigs, CreationTypeOK, Job
    <3>3. CASE ListItems(s)
      <4>1. PICK f : job' = [job EXCEPT ![s].left = @ \ {f},
                       ![s].page = @ \cup {[fig |-> f, worn |-> Worn(f)]}]
        BY <3>3 DEF ListItems
      <4> QED  BY <1>0, <3>3, <4>1 DEF ListItems, CreationTypeOK, Job
    <3> QED  BY <1>3, <3>1, <3>2, <3>3
  <2>2. Numbered'
    BY <1>0, <2>1, NumberedSame
  <2> QED  BY <1>1, <2>1, <2>2, QuietAddsUp DEF Steady
<1>4. CASE (CheckName(s) /\ Finish(s)) \/ SendList(s)
  <2>1. /\ job[s].step \in {"check", "send"} /\ job'[s] = Idle
        /\ \A t \in Servers : t # s => job'[t] = job[t]
        /\ crashed' = crashed /\ requests' = requests
    BY <1>0, <1>4 DEF CheckName, SendList, Finish, CreationTypeOK
  <2>2. Numbered'
    BY <1>0, <2>1, NumberedSame
  <2> QED  BY <1>1, <2>1, <2>2, QuietAddsUp DEF Steady, Idle
<1>5. CASE Crash(s)
  <2>1. /\ job[s].step # "idle" /\ job'[s] = Idle
        /\ \A t \in Servers : t # s => job'[t] = job[t]
        /\ crashed' = crashed \cup {job[s]} /\ requests' = requests
    BY <1>0, <1>5 DEF Crash, Finish, CreationTypeOK
  <2>2. Numbered'
    BY <1>0, <2>1 DEF Numbered, Idle
  <2> QED  BY <1>1, <2>1, <2>2, QuietAddsUp
<1> QED  BY <1>2, <1>3, <1>4, <1>5 DEF CheckName

LEMMA CountStep == CountInv /\ [CreationNext]_creationVars => CountInv'
<1> SUFFICES ASSUME CountInv, [CreationNext]_creationVars PROVE CountInv'
  OBVIOUS
<1>0. Inv' /\ RowsApart'
  BY StepInv, RowsApartStep DEF CountInv
<1>1. CASE UNCHANGED creationVars
  <2>1. Numbered'
    BY <1>1 DEF creationVars, CountInv, Numbered
  <2>2. ASSUME NEW n, NEW steps, NEW slot
        PROVE  /\ FigsNamed(n)' = FigsNamed(n)
               /\ Outfits(n, slot)' = Outfits(n, slot)
               /\ At(n, steps)' = At(n, steps)
    BY <1>1 DEF creationVars, tables, FigsNamed, Outfits, At
  <2>3. WardrobeAddsUp'
    BY <2>2 DEF CountInv, WardrobeAddsUp
  <2> QED  BY <1>0, <2>1, <2>3 DEF CountInv
<1>2. ASSUME NEW s \in Servers,
             InsertFig(s) \/ InsertShirt(s) \/ InsertPants(s)
      PROVE  Numbered'
  <2>1. /\ job[s].step # "idle" /\ job'[s].request = job[s].request
        /\ \A t \in Servers : t # s => job'[t] = job[t]
        /\ crashed' = crashed /\ requests' = requests
    BY <1>2, GotoJob, MovingJob
       DEF InsertFig, InsertShirt, InsertPants, CountInv, Inv
  <2> QED  BY <2>1, NumberedSame DEF CountInv, Inv
<1>3. CASE CreationNext
  BY <1>0, <1>2, <1>3, InsertFigAddsUp, InsertShirtAddsUp, InsertPantsAddsUp,
     FindAddsUp, OtherAddsUp DEF CreationNext, CountInv
<1> QED  BY <1>1, <1>3

LEMMA CountInit == CreationInit => CountInv
<1> SUFFICES ASSUME CreationInit PROVE CountInv
  OBVIOUS
<1>1. Numbered
  BY DEF CreationInit, Numbered, Idle
<1>2. RowsApart
  BY FS_EmptySet DEF CreationInit, RowsApart
<1>3. WardrobeAddsUp
  <2> SUFFICES ASSUME NEW n \in Names PROVE AddsUp(n)
    BY DEF WardrobeAddsUp, AddsUp
  <2>1. FigsNamed(n) = {} /\ \A slot \in Slots : Outfits(n, slot) = {}
    BY DEF CreationInit, FigsNamed, Outfits
  <2>2. At(n, {"find", "shirt"}) = {} /\ At(n, {"pants"}) = {}
    BY DEF CreationInit, At, Idle
  <2> QED  BY <2>1, <2>2, FS_EmptySet DEF AddsUp, Slots
<1> QED  BY <1>1, <1>2, <1>3, InitInv DEF CountInv

\* However many servers create minifigs at once and wherever they die, the
\* rows of `minifigs` and `items` and the requests under way or dead balance:
\* nothing is inserted twice, lost, or given to a minifig of another name.
THEOREM WardrobeBalances == CreationSpec => []WardrobeAddsUp
<1>1. CountInv => WardrobeAddsUp
  BY DEF CountInv
<1> QED  BY <1>1, CountInit, CountStep, PTL DEF CreationSpec

-----------------------------------------------------------------------------
(* The list sent after a creation *)

\* The row that the request inserted.
Created(s) ==
  job[s].name # None /\ job[s].step \in {"find", "shirt", "pants", "figs"} =>
    \E f \in FigsOf(job[s].account) : f.name = job[s].name

\* It is on the list, or will be, or the account has too many.
OnTheList(s) ==
  job[s].step = "send" /\ job[s].name # None =>
    \/ \E f \in job[s].left : f.name = job[s].name
    \/ \E e \in job[s].page : e.fig.name = job[s].name
    \/ Cardinality(FigsOf(job[s].account)) > ListLimit

ListingInv ==
  /\ Inv /\ IsFiniteSet(minifigs)
  /\ \A s \in Servers : Created(s) /\ OnTheList(s)

LEMMA FigsGrow ==
  ASSUME [CreationNext]_creationVars, IsFiniteSet(minifigs)
  PROVE  /\ IsFiniteSet(minifigs')
         /\ \A a : /\ FigsOf(a) \subseteq FigsOf(a)'
                   /\ Cardinality(FigsOf(a)) \in Nat
                   /\ Cardinality(FigsOf(a)') \in Nat
                   /\ Cardinality(FigsOf(a)) <= Cardinality(FigsOf(a)')
<1>1. IsFiniteSet(minifigs')
  <2>1. CASE minifigs' = minifigs
    BY <2>1
  <2>2. ASSUME NEW s \in Servers, InsertFig(s) PROVE IsFiniteSet(minifigs')
    BY <2>2, FS_AddElement DEF InsertFig
  <2> QED
    BY <2>1, <2>2 DEF CreationNext, RequestCreation, RequestList, Begin, CheckName,
       FindObjectID, InsertShirt, InsertPants, ListFigs, ListItems, SendList,
       Crash, creationVars, tables
<1>2. ASSUME NEW a
      PROVE  /\ FigsOf(a) \subseteq FigsOf(a)' /\ IsFiniteSet(FigsOf(a)')
             /\ IsFiniteSet(FigsOf(a))
  <2>1. FigsOf(a) \subseteq minifigs /\ FigsOf(a)' \subseteq minifigs'
    BY DEF FigsOf
  <2> QED  BY <1>1, <2>1, RowsStay, FS_Subset DEF FigsOf
<1> QED  BY <1>1, <1>2, FS_Subset, FS_CardinalityType

\* The steps of other servers.
LEMMA OthersListed ==
  ASSUME [CreationNext]_creationVars, IsFiniteSet(minifigs), NEW t \in Servers,
         Created(t), OnTheList(t), job'[t] = job[t]
  PROVE  Created(t)' /\ OnTheList(t)'
BY FigsGrow, CreationAssumption DEF Created, OnTheList

\* A request that is not yet, or no longer, in between.
LEMMA NotCreated ==
  ASSUME NEW t \in Servers, job'[t].step \in {"idle", "check", "insert"}
  PROVE  Created(t)' /\ OnTheList(t)'
BY DEF Created, OnTheList

\* A request that goes on with the same name and account.
LEMMA CreatedStays ==
  ASSUME [CreationNext]_creationVars, IsFiniteSet(minifigs), NEW s \in Servers, Created(s),
         job[s].step \in {"find", "shirt", "pants"},
         job'[s].step \in {"shirt", "pants", "figs"},
         job'[s].name = job[s].name, job'[s].account = job[s].account
  PROVE  Created(s)' /\ OnTheList(s)'
BY FigsGrow DEF Created, OnTheList

\* What SELECT ... LIMIT leaves out is one too many.
LEMMA FullList ==
  ASSUME IsFiniteSet(minifigs), NEW a, NEW rows \in SelectFigs(a),
         NEW f \in FigsOf(a), f \notin rows
  PROVE  Cardinality(FigsOf(a)) > ListLimit
<1>1. IsFiniteSet(FigsOf(a))
  BY FS_Subset DEF FigsOf
<1>2. rows \subseteq FigsOf(a) /\ Cardinality(rows) = ListLimit
  BY DEF SelectFigs
<1>3. IsFiniteSet(rows)
  BY <1>1, <1>2, FS_Subset
<1>4. Cardinality(rows \cup {f}) = ListLimit + 1
  BY <1>2, <1>3, FS_AddElement
<1>5. Cardinality(rows \cup {f}) <= Cardinality(FigsOf(a))
  BY <1>1, <1>2, FS_Subset
<1> QED
  BY <1>1, <1>4, <1>5, FS_CardinalityType, CreationAssumption

LEMMA ListFigsLists ==
  ASSUME ListingInv, [CreationNext]_creationVars, NEW s \in Servers, ListFigs(s)
  PROVE  Created(s)' /\ OnTheList(s)'
<1>0. job[s] \in Job /\ Created(s) /\ minifigs' = minifigs
  BY DEF ListingInv, Inv, CreationTypeOK, ListFigs, tables
<1>1. PICK rows \in SelectFigs(job[s].account) :
        job' = [job EXCEPT ![s].step = "send", ![s].left = rows]
  BY DEF ListFigs
<1>2. /\ job'[s].step = "send" /\ job'[s].left = rows
      /\ job'[s].name = job[s].name /\ job'[s].account = job[s].account
  BY <1>0, <1>1 DEF ListingInv, Inv, CreationTypeOK, Job
<1>3. ASSUME job[s].name # None
      PROVE  \/ \E f \in rows : f.name = job[s].name
             \/ Cardinality(FigsOf(job[s].account)) > ListLimit
  <2>1. PICK f \in FigsOf(job[s].account) : f.name = job[s].name
    BY <1>0, <1>3 DEF Created, ListFigs
  <2> QED  BY <2>1, FullList DEF ListingInv
<1> QED  BY <1>0, <1>2, <1>3 DEF Created, OnTheList, FigsOf

LEMMA ListItemsLists ==
  ASSUME ListingInv, [CreationNext]_creationVars, NEW s \in Servers, ListItems(s)
  PROVE  Created(s)' /\ OnTheList(s)'
<1>0. job[s] \in Job /\ OnTheList(s) /\ minifigs' = minifigs
  BY DEF ListingInv, Inv, CreationTypeOK, ListItems, tables
<1>1. PICK f \in job[s].left :
        job' = [job EXCEPT ![s].left = @ \ {f},
                           ![s].page = @ \cup {[fig |-> f, worn |-> Worn(f)]}]
  BY DEF ListItems
<1>2. /\ job'[s].step = "send" /\ job'[s].left = job[s].left \ {f}
      /\ job'[s].page = job[s].page \cup {[fig |-> f, worn |-> Worn(f)]}
      /\ job'[s].name = job[s].name /\ job'[s].account = job[s].account
  BY <1>0, <1>1 DEF ListingInv, Inv, CreationTypeOK, Job, ListItems
<1>3. PICK entry : entry \in job'[s].page /\ entry.fig = f
  <2>1. PICK entry : entry = [fig |-> f, worn |-> Worn(f)]
    OBVIOUS
  <2>2. entry.fig = f
    BY <2>1
  <2>3. entry \in job'[s].page
    BY <1>2, <2>1
  <2> QED  BY <2>2, <2>3
<1>4. job[s].step = "send" /\ job[s].page \subseteq job'[s].page
  BY <1>2 DEF ListItems
<1>5. ASSUME job[s].name # None, NEW g \in job[s].left, g.name = job[s].name
      PROVE  \/ \E h \in job'[s].left : h.name = job[s].name
             \/ \E e \in job'[s].page : e.fig.name = job[s].name
  BY <1>2, <1>3, <1>5
<1>6. FigsOf(job[s].account)' = FigsOf(job[s].account)
  BY <1>0, <1>2 DEF FigsOf
<1>7. Created(s)'
  BY <1>2 DEF Created
<1>8. OnTheList(s)'
  BY <1>0, <1>2, <1>4, <1>5, <1>6 DEF OnTheList
<1> QED  BY <1>7, <1>8

LEMMA InsertFigCreates ==
  ASSUME ListingInv, NEW s \in Servers, InsertFig(s)
  PROVE  Created(s)' /\ OnTheList(s)'
<1>1. PICK new : new = [id |-> nextFig, account |-> job[s].account,
                        name |-> job[s].name]
  OBVIOUS
<1>2. /\ job'[s].step = "find" /\ job'[s].name = job[s].name
      /\ job'[s].account = job[s].account
  BY GotoJob DEF InsertFig, ListingInv, Inv
<1>3. new \in minifigs' /\ new.account = job[s].account /\ new.name = job[s].name
  BY <1>1 DEF InsertFig
<1> QED  BY <1>2, <1>3 DEF Created, OnTheList, FigsOf

\* Every step of a server keeps its own list in order.
LEMMA OwnStep ==
  ASSUME ListingInv, [CreationNext]_creationVars, NEW s \in Servers,
         \/ RequestCreation(s) \/ RequestList(s)
         \/ CheckName(s) \/ InsertFig(s) \/ FindObjectID(s)
         \/ InsertShirt(s) \/ InsertPants(s)
         \/ ListFigs(s) \/ ListItems(s) \/ SendList(s)
         \/ Crash(s)
  PROVE  /\ Created(s)' /\ OnTheList(s)'
         /\ \A t \in Servers : t # s => job'[t] = job[t]
<1>0. CreationTypeOK /\ job[s] \in Job /\ Created(s) /\ IsFiniteSet(minifigs)
  BY DEF ListingInv, Inv, CreationTypeOK
<1>1. CASE RequestCreation(s) \/ RequestList(s)
  <2>1. PICK step \in {"check", "figs"}, a \in AccountIds, n \in Names \cup {None} :
          Begin(s, step, a, n) /\ (step = "figs" => n = None)
    BY <1>1 DEF RequestCreation, RequestList
  <2>2. /\ job'[s].step = step /\ job'[s].name = n
        /\ \A t \in Servers : t # s => job'[t] = job[t]
    BY <1>0, <2>1 DEF Begin, Idle, CreationTypeOK
  <2> QED  BY <2>1, <2>2 DEF Created, OnTheList
<1>2. CASE CheckName(s)
  <2>1. /\ job'[s].step \in {"idle", "insert"}
        /\ \A t \in Servers : t # s => job'[t] = job[t]
    BY <1>0, <1>2, GotoJob DEF CheckName, Finish, Idle, CreationTypeOK
  <2> QED  BY <2>1, NotCreated
<1>3. CASE InsertFig(s)
  BY <1>0, <1>3, InsertFigCreates, GotoJob DEF InsertFig
<1>4. CASE FindObjectID(s)
  <2>1. PICK id : job' = [job EXCEPT ![s].step = "shirt", ![s].objectID = id]
    BY <1>4 DEF FindObjectID
  <2>2. /\ job'[s].step = "shirt" /\ job'[s].name = job[s].name
        /\ job'[s].account = job[s].account
        /\ \A t \in Servers : t # s => job'[t] = job[t]
    BY <1>0, <2>1 DEF CreationTypeOK, Job
  <2> QED  BY <1>0, <1>4, <2>2, CreatedStays DEF FindObjectID
<1>5. CASE InsertShirt(s) \/ InsertPants(s)
  <2>1. /\ job[s].step \in {"shirt", "pants"} /\ job'[s].step \in {"pants", "figs"}
        /\ job'[s].name = job[s].name /\ job'[s].account = job[s].account
        /\ \A t \in Servers : t # s => job'[t] = job[t]
    BY <1>0, <1>5, GotoJob DEF InsertShirt, InsertPants
  <2> QED  BY <1>0, <2>1, CreatedStays
<1>6. CASE ListFigs(s)
  BY <1>0, <1>6, ListFigsLists DEF ListFigs, CreationTypeOK
<1>7. CASE ListItems(s)
  BY <1>0, <1>7, ListItemsLists DEF ListItems, CreationTypeOK
<1>8. CASE SendList(s) \/ Crash(s)
  <2>1. /\ job'[s].step = "idle"
        /\ \A t \in Servers : t # s => job'[t] = job[t]
    BY <1>0, <1>8 DEF SendList, Crash, Finish, Idle, CreationTypeOK
  <2> QED  BY <2>1, NotCreated
<1> QED  BY <1>1, <1>2, <1>3, <1>4, <1>5, <1>6, <1>7, <1>8

LEMMA ListingStep == ListingInv /\ [CreationNext]_creationVars => ListingInv'
<1> SUFFICES ASSUME ListingInv, [CreationNext]_creationVars PROVE ListingInv'
  OBVIOUS
<1>0. Inv' /\ IsFiniteSet(minifigs')
  BY StepInv, FigsGrow DEF ListingInv
<1>1. CASE UNCHANGED creationVars
  BY <1>0, <1>1, OthersListed DEF ListingInv, creationVars
<1>2. ASSUME NEW s \in Servers,
             Created(s)', OnTheList(s)',
             \A t \in Servers : t # s => job'[t] = job[t]
      PROVE  ListingInv'
  BY <1>0, <1>2, OthersListed DEF ListingInv
<1> QED  BY <1>1, <1>2, OwnStep DEF CreationNext

LEMMA ListingInit == CreationInit => ListingInv
BY InitInv, FS_EmptySet DEF CreationInit, ListingInv, Created, OnTheList, Idle

-----------------------------------------------------------------------------
\* For any number of servers, however many create minifigs at once and die:
\* the list sent after a creation shows a minifig of the new name, unless the
\* account has more minifigs than a list holds (sendMinifigureList, LIMIT 4).
THEOREM ListedOrTooMany == CreationSpec => []NewFigIsListed
<1>1. ListingInv => NewFigIsListed
  BY DEF ListingInv, OnTheList, NewFigIsListed
<1> QED  BY <1>1, ListingInit, ListingStep, PTL DEF CreationSpec

-----------------------------------------------------------------------------
(* One server *)

OneServer == \A s, t \in Servers : s = t

\* Rows are told apart by name and by id, and ids are not used again.
SoleNames ==
  /\ \A f, g \in minifigs : f.name = g.name \/ f.id = g.id => f = g
  /\ \A f \in minifigs : f.id < nextFig

\* What the request of the server relies on, when there is no other server.
Undisturbed(s) ==
  /\ job[s].step = "insert" => FigsNamed(job[s].name) = {}
  /\ job[s].step \in {"find", "shirt"} =>
       \A f \in FigsNamed(job[s].name) : ~Has(f.id, "legs")
  /\ job[s].step \in {"find", "shirt", "pants"} =>
       \A f \in FigsNamed(job[s].name) : f.account = job[s].account

\* What a list under way holds.
ListInOrder(s) ==
  /\ job[s].left \subseteq minifigs
  /\ job[s].step \in {"figs", "send"} /\ job[s].name # None =>
       /\ \A f \in FigsNamed(job[s].name) : Dressed(f)
       /\ \A e \in job[s].page : e.fig.name = job[s].name => e.worn = Slots
  /\ job[s].step # "send" => job[s].left = {} /\ job[s].page = {}

SoleInv ==
  /\ Inv
  /\ SoleNames
  /\ \A s \in Servers : Undisturbed(s) /\ ListInOrder(s)

LEMMA SoleInit == CreationInit => SoleInv
BY InitInv DEF CreationInit, SoleInv, SoleNames, Undisturbed, ListInOrder, Idle

LEMMA SoleNamesStep ==
  ASSUME SoleInv, [CreationNext]_creationVars
  PROVE  SoleNames'
<1>1. CASE UNCHANGED <<minifigs, nextFig>>
  BY <1>1 DEF SoleInv, SoleNames
<1>2. ASSUME NEW s \in Servers, InsertFig(s) PROVE SoleNames'
  <2>1. /\ FigsNamed(job[s].name) = {}
        /\ nextFig \in Nat /\ minifigs \subseteq Fig
    BY <1>2 DEF SoleInv, Undisturbed, InsertFig, Inv, CreationTypeOK
  <2>2. ASSUME NEW f \in minifigs
        PROVE  f.id \in Nat /\ f.id < nextFig /\ f.name # job[s].name
    BY <2>1, <2>2 DEF FigsNamed, SoleInv, SoleNames, Fig
  <2> QED  BY <1>2, <2>1, <2>2 DEF InsertFig, SoleInv, SoleNames
<1> QED
  BY <1>1, <1>2 DEF CreationNext, RequestCreation, RequestList, Begin, CheckName,
     FindObjectID, InsertShirt, InsertPants, InsertItem, ListFigs, ListItems,
     SendList, Crash, creationVars, tables

\* A request that has not begun or is over.
LEMMA SoleIdle ==
  ASSUME NEW s \in Servers, job'[s] = Idle
  PROVE  Undisturbed(s)' /\ ListInOrder(s)'
BY DEF Undisturbed, ListInOrder, Idle

LEMMA SoleBegin ==
  ASSUME SoleInv, [CreationNext]_creationVars, NEW s \in Servers,
         RequestCreation(s) \/ RequestList(s)
  PROVE  Undisturbed(s)' /\ ListInOrder(s)'
<1>1. PICK step \in {"check", "figs"}, a \in AccountIds, n \in Names \cup {None} :
        Begin(s, step, a, n) /\ (step = "figs" => n = None)
  BY DEF RequestCreation, RequestList
<1>2. /\ job'[s].step = step /\ job'[s].name = n
      /\ job'[s].left = {} /\ job'[s].page = {}
  BY <1>1 DEF Begin, Idle, SoleInv, Inv, CreationTypeOK
<1> QED  BY <1>1, <1>2 DEF Undisturbed, ListInOrder

\* What Goto leaves of the list of a job.
LEMMA GotoLists ==
  ASSUME CreationTypeOK, NEW s \in Servers, NEW step, Goto(s, step)
  PROVE  job'[s].left = job[s].left /\ job'[s].page = job[s].page
<1>1. job[s] \in Job
  BY DEF CreationTypeOK
<1> QED  BY <1>1 DEF Goto, CreationTypeOK, Job

LEMMA SoleCreation ==
  ASSUME SoleInv, [CreationNext]_creationVars, NEW s \in Servers,
         CheckName(s) \/ InsertFig(s) \/ InsertShirt(s)
  PROVE  Undisturbed(s)' /\ ListInOrder(s)'
<1>0. CreationTypeOK /\ Inv /\ job[s].left = {} /\ job[s].page = {}
  BY DEF SoleInv, Inv, ListInOrder, CheckName, InsertFig, InsertShirt
<1>1. CASE CheckName(s) /\ Finish(s)
  BY <1>0, <1>1, SoleIdle DEF Finish, CreationTypeOK
<1>2. CASE CheckName(s) /\ Goto(s, "insert")
  <2>1. /\ job'[s].step = "insert" /\ job'[s].name = job[s].name
        /\ job'[s].left = {} /\ job'[s].page = {}
    BY <1>0, <1>2, GotoJob, GotoLists
  <2>2. FigsNamed(job[s].name) = {} \/ Finish(s)
    BY <1>2 DEF CheckName
  <2>3. minifigs' = minifigs /\ ~Finish(s)
    BY <1>0, <1>2, <2>1 DEF CheckName, tables, Finish, Idle, CreationTypeOK
  <2> QED  BY <2>1, <2>2, <2>3 DEF Undisturbed, ListInOrder, FigsNamed
<1>3. CASE InsertFig(s)
  <2>1. /\ job'[s].step = "find" /\ job'[s].name = job[s].name
        /\ job'[s].account = job[s].account
        /\ job'[s].left = {} /\ job'[s].page = {}
    BY <1>0, <1>3, GotoJob, GotoLists DEF InsertFig
  <2>2. ASSUME NEW f \in FigsNamed(job[s].name)'
        PROVE  ~Has(f.id, "legs")' /\ f.account = job[s].account
    <3>1. f.id = nextFig /\ f.account = job[s].account
      BY <1>3, <2>1 DEF FigsNamed, InsertFig, SoleInv, Undisturbed
    <3>2. \A g \in minifigs : g.id # nextFig
      BY DEF SoleInv, SoleNames, Inv, CreationTypeOK, Fig
    <3> QED  BY <1>3, <3>1, <3>2 DEF Has, InsertFig, SoleInv, Inv, EveryItemHasAnOwner
  <2> QED  BY <2>1, <2>2 DEF Undisturbed, ListInOrder
<1>4. CASE InsertShirt(s)
  <2>1. /\ job'[s].step = "pants" /\ job'[s].name = job[s].name
        /\ job'[s].account = job[s].account
        /\ job'[s].left = {} /\ job'[s].page = {}
    BY <1>0, <1>4, GotoJob, GotoLists DEF InsertShirt
  <2>2. \A f \in FigsNamed(job[s].name) : f.account = job[s].account
    BY <1>4 DEF SoleInv, Undisturbed, InsertShirt
  <2> QED  BY <1>4, <2>1, <2>2 DEF InsertShirt, Undisturbed, ListInOrder, FigsNamed
<1> QED  BY <1>1, <1>2, <1>3, <1>4 DEF CheckName

LEMMA SoleFind ==
  ASSUME SoleInv, [CreationNext]_creationVars, NEW s \in Servers, FindObjectID(s)
  PROVE  Undisturbed(s)' /\ ListInOrder(s)'
<1>0. job[s] \in Job /\ job[s].left = {} /\ job[s].page = {}
  BY DEF SoleInv, Inv, CreationTypeOK, ListInOrder, FindObjectID
<1>1. PICK id : job' = [job EXCEPT ![s].step = "shirt", ![s].objectID = id]
  BY DEF FindObjectID
<1>2. job' = [job EXCEPT ![s] = [job[s] EXCEPT !.step = "shirt", !.objectID = id]]
  BY <1>0, <1>1 DEF SoleInv, Inv, CreationTypeOK
<1>3. /\ job'[s].step = "shirt" /\ job'[s].name = job[s].name
      /\ job'[s].account = job[s].account
      /\ job'[s].left = {} /\ job'[s].page = {}
  BY <1>0, <1>2 DEF SoleInv, Inv, CreationTypeOK, Job
<1>4. minifigs' = minifigs /\ items' = items
  BY DEF FindObjectID, tables
<1>5. \A f \in FigsNamed(job[s].name) :
        ~Has(f.id, "legs") /\ f.account = job[s].account
  BY DEF SoleInv, Undisturbed, FindObjectID
<1> QED  BY <1>3, <1>4, <1>5 DEF Undisturbed, ListInOrder, FigsNamed, Has

LEMMA SolePants ==
  ASSUME SoleInv, SoleNames', [CreationNext]_creationVars, NEW s \in Servers, InsertPants(s)
  PROVE  Undisturbed(s)' /\ ListInOrder(s)'
<1>0. Inv /\ CreationTypeOK /\ job[s].left = {} /\ job[s].page = {}
  BY DEF SoleInv, Inv, ListInOrder, InsertPants
<1>1. /\ job'[s].step = "figs" /\ job'[s].name = job[s].name
      /\ job'[s].left = {} /\ job'[s].page = {}
  BY <1>0, GotoJob, GotoLists DEF InsertPants
<1>2. \E f \in FigsNamed(job[s].name)' : Dressed(f)'
  BY <1>0, PantsDress
<1>3. \A f, g \in FigsNamed(job[s].name)' : f = g
  BY DEF SoleNames, FigsNamed
<1>4. \A f \in FigsNamed(job[s].name)' : Dressed(f)'
  BY <1>2, <1>3
<1> QED  BY <1>1, <1>4 DEF Undisturbed, ListInOrder

LEMMA SoleList ==
  ASSUME SoleInv, [CreationNext]_creationVars, NEW s \in Servers,
         ListFigs(s) \/ ListItems(s) \/ SendList(s) \/ Crash(s)
  PROVE  Undisturbed(s)' /\ ListInOrder(s)'
<1>0. /\ job[s] \in Job /\ CreationTypeOK /\ ListInOrder(s)
      /\ minifigs' = minifigs /\ items' = items
  BY DEF SoleInv, Inv, CreationTypeOK, ListFigs, ListItems, SendList, Crash, tables
<1>1. CASE ListFigs(s)
  <2>1. PICK rows \in SUBSET minifigs :
          job' = [job EXCEPT ![s].step = "send", ![s].left = rows]
    BY <1>1 DEF ListFigs, SelectFigs, FigsOf
  <2>2. /\ job'[s].step = "send" /\ job'[s].name = job[s].name
        /\ job'[s].left = rows /\ job'[s].page = job[s].page
    BY <1>0, <2>1 DEF CreationTypeOK, Job
  <2>3. job[s].page = {}
    BY <1>0, <1>1 DEF ListInOrder, ListFigs
  <2>4. job'[s].name # None => \A f \in FigsNamed(job[s].name) : Dressed(f)
    BY <1>0, <1>1, <2>2 DEF ListInOrder, ListFigs
  <2>5. job'[s].name # None => \A f \in FigsNamed(job[s].name)' : Dressed(f)'
    BY <1>0, <2>2, <2>4 DEF FigsNamed, Dressed, Has
  <2>6. ListInOrder(s)'
    BY <1>0, <2>1, <2>2, <2>3, <2>5 DEF ListInOrder
  <2> QED  BY <2>2, <2>6 DEF Undisturbed
<1>2. CASE ListItems(s)
  <2>1. PICK f \in job[s].left :
          job' = [job EXCEPT ![s].left = @ \ {f},
                             ![s].page = @ \cup {[fig |-> f, worn |-> Worn(f)]}]
    BY <1>2 DEF ListItems
  <2>2. /\ job'[s].step = "send" /\ job'[s].name = job[s].name
        /\ job'[s].left = job[s].left \ {f}
        /\ job'[s].page = job[s].page \cup {[fig |-> f, worn |-> Worn(f)]}
    BY <1>0, <1>2, <2>1 DEF CreationTypeOK, Job, ListItems
  <2>3. ASSUME job[s].name # None
        PROVE  /\ \A g \in FigsNamed(job[s].name) : Dressed(g)
               /\ \A e \in job[s].page : e.fig.name = job[s].name => e.worn = Slots
               /\ f.name = job[s].name => Worn(f) = Slots
    <3>1. /\ \A g \in FigsNamed(job[s].name) : Dressed(g)
          /\ \A e \in job[s].page : e.fig.name = job[s].name => e.worn = Slots
      BY <1>0, <1>2, <2>3 DEF ListInOrder, ListItems
    <3>2. f.name = job[s].name => f \in FigsNamed(job[s].name)
      BY <1>0 DEF ListInOrder, FigsNamed
    <3> QED  BY <3>1, <3>2, WornByAll
  <2>4. job'[s].left \subseteq minifigs
    BY <1>0, <2>2 DEF ListInOrder
  <2>5. job[s].name # None =>
          /\ \A g \in FigsNamed(job[s].name)' : Dressed(g)'
          /\ \A e \in job'[s].page : e.fig.name = job[s].name => e.worn = Slots
    BY <1>0, <2>2, <2>3 DEF FigsNamed, Dressed, Has
  <2> QED  BY <1>0, <2>2, <2>4, <2>5 DEF Undisturbed, ListInOrder
<1>3. CASE SendList(s) \/ Crash(s)
  BY <1>0, <1>3, SoleIdle DEF SendList, Crash, Finish, CreationTypeOK
<1> QED  BY <1>1, <1>2, <1>3

LEMMA SoleStep ==
  ASSUME OneServer PROVE SoleInv /\ [CreationNext]_creationVars => SoleInv'
<1> SUFFICES ASSUME SoleInv, [CreationNext]_creationVars PROVE SoleInv'
  OBVIOUS
<1>0. Inv' /\ SoleNames'
  BY StepInv, SoleNamesStep DEF SoleInv
<1>1. CASE UNCHANGED creationVars
  BY <1>0, <1>1 DEF creationVars, tables, SoleInv, Undisturbed, ListInOrder, FigsNamed,
                    Has, Dressed
<1>2. ASSUME NEW s \in Servers, Undisturbed(s)', ListInOrder(s)' PROVE SoleInv'
  BY <1>0, <1>2 DEF OneServer, SoleInv
<1>3. CASE CreationNext
  BY <1>0, <1>2, <1>3, SoleBegin, SoleCreation, SoleFind, SolePants, SoleList
     DEF CreationNext
<1> QED  BY <1>1, <1>3

LEMMA SoleInvariance == ASSUME OneServer PROVE CreationSpec => []SoleInv
BY SoleInit, SoleStep, PTL DEF CreationSpec

-----------------------------------------------------------------------------
(* Theorems about a single server *)

\* createNewMinifig's check of the name is enough when there is one server,
\* whatever requests died before: no two minifigs have the same name.
THEOREM UniqueNames == ASSUME OneServer PROVE CreationSpec => []NamesAreUnique
<1>1. ASSUME SoleInv, NEW n \in Names PROVE Cardinality(FigsNamed(n)) <= 1
  <2>1. CASE FigsNamed(n) = {}
    BY <2>1, FS_EmptySet
  <2>2. ASSUME NEW f \in FigsNamed(n) PROVE Cardinality(FigsNamed(n)) = 1
    <3>1. FigsNamed(n) = {f}
      BY <1>1, <2>2 DEF SoleInv, SoleNames, FigsNamed
    <3> QED  BY <3>1, FS_Singleton
  <2> QED  BY <2>1, <2>2
<1>2. SoleInv => NamesAreUnique
  BY <1>1 DEF NamesAreUnique
<1> QED  BY <1>2, SoleInvariance, PTL

\* The list that follows a creation shows the new minifig with shirt and
\* pants on.
THEOREM ShownDressed == ASSUME OneServer PROVE CreationSpec => []NewFigIsShownDressed
<1>1. SoleInv => NewFigIsShownDressed
  BY DEF SoleInv, ListInOrder, NewFigIsShownDressed
<1> QED  BY <1>1, SoleInvariance, PTL

-----------------------------------------------------------------------------
(* The refinement *)

Ready(n) == \E f \in FigsNamed(n) : Worn(f) = Slots

LEMMA OwnerOfRow ==
  ASSUME SoleNames, NEW n, NEW f \in FigsNamed(n)
  PROVE  OwnerOf(n) = f.account
BY DEF SoleNames, OwnerOf, FigsNamed

LEMMA RosterStart == CreationInit => Promise!RosterInit
<1> SUFFICES ASSUME CreationInit PROVE Promise!RosterInit
  OBVIOUS
<1>1. \A n \in Names : FigsNamed(n) = {}
  BY DEF CreationInit, FigsNamed
<1>2. \A n \in Names : OwnerOf(n) = None
  BY <1>1 DEF OwnerOf
<1>3. ToldCode(0) = {} /\ ToldCode(3) = {}
  BY DEF CreationInit, ToldCode
<1> QED  BY <1>1, <1>2, <1>3 DEF Promise!RosterInit

\* A step that changes neither rows nor answers changes nothing of the roster.
LEMMA RosterStutters ==
  ASSUME UNCHANGED <<minifigs, items, answers>>
  PROVE  UNCHANGED Promise!rosterVars
BY DEF Promise!rosterVars, OwnerOf, FigsNamed, Worn, Wearing, ToldCode

\* A response adds a claim to those of its code.
LEMMA Told ==
  ASSUME NEW s \in Servers, NEW code, Respond(s, code)
  PROVE  /\ ToldCode(code)' = ToldCode(code) \cup
              {[account |-> job[s].account, name |-> job[s].name]}
         /\ \A other : other # code => ToldCode(other)' = ToldCode(other)
<1> DEFINE r == [account |-> job[s].account, name |-> job[s].name, code |-> code]
<1>1. /\ answers' = answers \cup {r} /\ r.code = code
      /\ r.account = job[s].account /\ r.name = job[s].name
  BY DEF Respond
<1> HIDE DEF r
<1>2. {q \in answers' : q.code = code} = {q \in answers : q.code = code} \cup {r}
  BY <1>1
<1>3. ToldCode(code)' = ToldCode(code) \cup {[account |-> r.account, name |-> r.name]}
  BY <1>2 DEF ToldCode
<1>4. ASSUME NEW other, other # code PROVE ToldCode(other)' = ToldCode(other)
  <2>1. {q \in answers' : q.code = other} = {q \in answers : q.code = other}
    BY <1>1, <1>4
  <2> QED  BY <2>1 DEF ToldCode
<1> QED  BY <1>1, <1>3, <1>4

\* A refusal: the name is taken.
LEMMA CheckRefines ==
  ASSUME SoleInv, NEW s \in Servers, CheckName(s)
  PROVE  Promise!RosterNext \/ UNCHANGED Promise!rosterVars
<1>0. minifigs' = minifigs /\ items' = items
  BY DEF CheckName, tables
<1>1. CASE UNCHANGED answers
  BY <1>0, <1>1, RosterStutters
<1>2. CASE FigsNamed(job[s].name) # {} /\ Respond(s, 3)
  <2>1. job[s].account \in AccountIds /\ job[s].name \in Names
    BY DEF SoleInv, Inv, InGoodOrder, CheckName, CreationSteps
  <2>2. PICK f \in FigsNamed(job[s].name) : f.account \in AccountIds
    BY <1>2 DEF SoleInv, Inv, CreationTypeOK, Fig, FigsNamed
  <2>3. OwnerOf(job[s].name) # None
    BY <2>2, OwnerOfRow, CreationAssumption DEF SoleInv
  <2>4. /\ [n \in Names |-> OwnerOf(n)]' = [n \in Names |-> OwnerOf(n)]
        /\ {n \in Names : Ready(n)}' = {n \in Names : Ready(n)}
    BY <1>0 DEF OwnerOf, Ready, FigsNamed, Worn, Wearing
  <2>5. /\ ToldCode(0)' = ToldCode(0)
        /\ ToldCode(3)' = ToldCode(3) \cup
             {[account |-> job[s].account, name |-> job[s].name]}
    BY <1>2, Told
  <2>6. Promise!Refuse(job[s].account, job[s].name)
    BY <2>1, <2>3, <2>4, <2>5 DEF Promise!Refuse, Promise!Claim, Ready
  <2> QED  BY <2>1, <2>6 DEF Promise!RosterNext
<1> QED  BY <1>1, <1>2 DEF CheckName

\* The INSERT of the minifig gives the name to the account.
LEMMA InsertFigRefines ==
  ASSUME SoleInv, NEW s \in Servers, InsertFig(s)
  PROVE  Promise!RosterNext
<1>1. PICK a \in AccountIds, n \in Names : job[s].account = a /\ job[s].name = n
  BY DEF SoleInv, Inv, InGoodOrder, InsertFig, CreationSteps
<1>2. FigsNamed(n) = {}
  BY <1>1 DEF SoleInv, Undisturbed, InsertFig
<1>N. PICK new : new = [id |-> nextFig, account |-> a, name |-> n]
  OBVIOUS
<1>3. /\ minifigs' = minifigs \cup {new} /\ items' = items /\ answers' = answers
      /\ new.id = nextFig /\ new.account = a /\ new.name = n
  BY <1>1, <1>N DEF InsertFig
<1>4. /\ {f \in minifigs' : f.name = n} = {new}
      /\ \A m : m # n => {f \in minifigs' : f.name = m} = {f \in minifigs : f.name = m}
  BY <1>2, <1>3 DEF FigsNamed
<1>5. [m \in Names |-> OwnerOf(m)]' = [[m \in Names |-> OwnerOf(m)] EXCEPT ![n] = a]
  <2>1. OwnerOf(n)' = a
    <3>1. (CHOOSE f \in {new} : TRUE) = new
      OBVIOUS
    <3> QED  BY <1>3, <1>4, <3>1 DEF OwnerOf, FigsNamed
  <2>2. ASSUME NEW m \in Names, m # n PROVE OwnerOf(m)' = OwnerOf(m)
    <3>1. FigsNamed(m)' = FigsNamed(m)
      BY <1>4, <2>2 DEF FigsNamed
    <3> QED  BY <3>1 DEF OwnerOf
  <2> QED  BY <2>1, <2>2
<1>6. \A i \in items : i.owner # nextFig
  BY DEF SoleInv, SoleNames, Inv, CreationTypeOK, Fig, EveryItemHasAnOwner
<1>7. ~Ready(n) /\ ~Ready(n)'
  <2>1. ~Ready(n)
    BY <1>2 DEF Ready
  <2>2. Worn(new)' = {}
    BY <1>3, <1>6 DEF Worn, Wearing
  <2> QED  BY <1>4, <2>1, <2>2 DEF Ready, FigsNamed, Slots
<1>8. ASSUME NEW m \in Names PROVE Ready(m)' <=> Ready(m)
  BY <1>3, <1>4, <1>7 DEF Ready, FigsNamed, Worn, Wearing
<1>9. /\ {m \in Names : Ready(m)}' = {m \in Names : Ready(m)}
      /\ ToldCode(0)' = ToldCode(0) /\ ToldCode(3)' = ToldCode(3)
  BY <1>3, <1>8 DEF ToldCode
<1>10. OwnerOf(n) = None
  BY <1>2 DEF OwnerOf
<1>11. Promise!Register(a, n)
  BY <1>1, <1>5, <1>9, <1>10 DEF Promise!Register, Ready
<1> QED  BY <1>1, <1>11 DEF Promise!RosterNext

\* A new item changes what one minifig wears.
LEMMA ItemForOne ==
  ASSUME NEW s \in Servers, NEW slot, InsertItem(s, slot),
         NEW f, f.id # job[s].objectID
  PROVE  Worn(f)' = Worn(f)
BY DEF InsertItem, Worn, Wearing

\* The shirt alone makes no minifig ready.
LEMMA InsertShirtRefines ==
  ASSUME SoleInv, NEW s \in Servers, InsertShirt(s)
  PROVE  UNCHANGED Promise!rosterVars
<1>1. minifigs' = minifigs /\ answers' = answers /\ InsertItem(s, "torso")
  BY DEF InsertShirt
<1>2. ASSUME NEW m \in Names, NEW f \in FigsNamed(m)
      PROVE  (Worn(f) = Slots)' <=> (Worn(f) = Slots)
  <2>1. CASE f.id # job[s].objectID
    BY <1>1, <2>1, ItemForOne
  <2>2. CASE f.id = job[s].objectID
    <3>1. f \in FigsNamed(job[s].name)
      BY <2>2 DEF SoleInv, SoleNames, Inv, InGoodOrder, InsertShirt, FigsNamed
    <3>2. ~Has(f.id, "legs")
      BY <3>1 DEF SoleInv, Undisturbed, InsertShirt
    <3>3. "legs" \notin Worn(f) /\ "legs" \notin Worn(f)'
      BY <1>1, <3>2 DEF Has, Worn, Wearing, InsertItem
    <3> QED  BY <3>3 DEF Slots
  <2> QED  BY <2>1, <2>2
<1>3. {m \in Names : Ready(m)}' = {m \in Names : Ready(m)}
  BY <1>1, <1>2 DEF Ready, FigsNamed
<1>4. [m \in Names |-> OwnerOf(m)]' = [m \in Names |-> OwnerOf(m)]
  BY <1>1 DEF OwnerOf, FigsNamed
<1> QED  BY <1>1, <1>3, <1>4 DEF Promise!rosterVars, ToldCode, Ready

\* The pants make it ready, and the confirmation goes to its account.
LEMMA InsertPantsRefines ==
  ASSUME SoleInv, [CreationNext]_creationVars, NEW s \in Servers, InsertPants(s)
  PROVE  Promise!RosterNext
<1>1. PICK a \in AccountIds, n \in Names : job[s].account = a /\ job[s].name = n
  BY DEF SoleInv, Inv, InGoodOrder, InsertPants, CreationSteps
<1>2. PICK g \in FigsNamed(n) : g.id = job[s].objectID /\ g.account = a
  BY <1>1 DEF SoleInv, Undisturbed, Inv, InGoodOrder, InsertPants
<1>3. /\ minifigs' = minifigs /\ InsertItem(s, "legs") /\ Respond(s, 0)
      /\ job'[s].name = n
  BY <1>1, GotoJob DEF InsertPants, SoleInv, Inv
<1>4. OwnerOf(n) = a
  BY <1>2, OwnerOfRow DEF SoleInv
<1>5. Ready(n)'
  <2>1. \E f \in FigsNamed(job[s].name)' : Dressed(f)'
    BY PantsDress DEF SoleInv
  <2>2. \E f \in FigsNamed(n)' : Worn(f)' = Slots
    BY <2>1, <1>3 DEF Dressed, Has, Worn, Wearing
  <2> QED  BY <2>2 DEF Ready
<1>6. ASSUME NEW m \in Names, m # n PROVE Ready(m)' <=> Ready(m)
  <2>1. \A f \in FigsNamed(m) : f.id # job[s].objectID
    BY <1>2, <1>6 DEF SoleInv, SoleNames, FigsNamed
  <2> QED  BY <1>3, <2>1, ItemForOne DEF Ready, FigsNamed
<1>7. {m \in Names : Ready(m)}' = {m \in Names : Ready(m)} \cup {n}
  BY <1>1, <1>5, <1>6
<1>8. [m \in Names |-> OwnerOf(m)]' = [m \in Names |-> OwnerOf(m)]
  BY <1>3 DEF OwnerOf, FigsNamed
<1>9. /\ ToldCode(3)' = ToldCode(3)
      /\ ToldCode(0)' = ToldCode(0) \cup {[account |-> a, name |-> n]}
  BY <1>1, <1>3, Told
<1>10. Promise!Confirm(a, n)
  BY <1>1, <1>4, <1>7, <1>8, <1>9 DEF Promise!Confirm, Promise!Claim, Ready
<1> QED  BY <1>1, <1>10 DEF Promise!RosterNext

\* The statements of createNewMinifig and sendMinifigureList on one server,
\* with a crash between any two of them, implement the Roster: a name goes to
\* the first account that gets it and stays there; success is reported to
\* that account when its minifig is complete; a name is refused if taken.
THEOREM ImplementsRoster == ASSUME OneServer PROVE CreationSpec => KeepsRoster
<1>1. ASSUME SoleInv, [CreationNext]_creationVars
      PROVE  Promise!RosterNext \/ UNCHANGED Promise!rosterVars
  <2>1. CASE UNCHANGED <<minifigs, items, answers>>
    BY <2>1, RosterStutters
  <2>2. CASE ~UNCHANGED <<minifigs, items, answers>>
    <3>1. \E s \in Servers :
            CheckName(s) \/ InsertFig(s) \/ InsertShirt(s) \/ InsertPants(s)
      BY <1>1, <2>2 DEF CreationNext, RequestCreation, RequestList, Begin, FindObjectID,
         ListFigs, ListItems, SendList, Crash, creationVars, tables
    <3> QED
      BY <1>1, <3>1, CheckRefines, InsertFigRefines, InsertShirtRefines,
         InsertPantsRefines
  <2> QED  BY <2>1, <2>2
<1>2. SoleInv /\ [CreationNext]_creationVars => [Promise!RosterNext]_(Promise!rosterVars)
  BY <1>1
<1> QED
  BY <1>2, RosterStart, SoleInvariance, PTL
     DEF CreationSpec, KeepsRoster, Promise!RosterSpec

=============================================================================
