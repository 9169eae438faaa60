--------------------------- MODULE MinifigCreation ---------------------------
(***************************************************************************)
(* Creating and listing minifigs, statement by statement.                  *)
(*                                                                         *)
(* createNewMinifig and sendMinifigureList (lwoWorldPackets.cpp) are runs  *)
(* of single SQL statements without a transaction, on tables `minifigs`    *)
(* and `items` that every server process shares.  Inside one server the    *)
(* handlers run one after the other; the statements of two servers         *)
(* interleave, and a server may die between any two of its own.            *)
(***************************************************************************)
EXTENDS Integers, FiniteSets

CONSTANTS
  Servers,      \* the server processes
  AccountIds,   \* accounts of the users that send requests
  Names,        \* minifig names
  None,         \* neither a name nor an account
  ListLimit,    \* 4: minifigs in a list
  MaxRequests,  \* bound: requests made during a behaviour
  MaxCrashes    \* bound: requests whose server dies while handling them

ASSUME CreationAssumption ==
  /\ IsFiniteSet(Servers)
  /\ None \notin Names \cup AccountIds
  /\ ListLimit \in Nat /\ MaxRequests \in Nat /\ MaxCrashes \in Nat

VARIABLES
  minifigs,          \* the rows of `minifigs`
  items,             \* the rows of `items`
  nextFig, nextItem, \* their AUTO_INCREMENT counters
  job,       \* the request each server is handling
  answers,   \* the response codes that were sent
  requests,  \* requests made so far
  crashed    \* history: the requests whose server died

tables == <<minifigs, items, nextFig, nextItem>>
creationVars == <<tables, job, answers, requests, crashed>>

Slots == {"torso", "legs"}
Fig == [id : Nat, account : AccountIds, name : Names]
Item == [id : Nat, owner : Nat, slot : Slots]

\* The statement a handler executes next, or "send" for the list packet.
Steps == {"idle", "check", "insert", "find", "shirt", "pants", "figs", "send"}

\* name is None for a request of the list; left and page are the rows of the
\* list that were not and were looked up in `items`.
Entry == [fig : Fig, worn : SUBSET Slots]
Job == [step : Steps, request : Nat, account : AccountIds \cup {None},
        name : Names \cup {None}, objectID : Nat,
        left : SUBSET Fig, page : SUBSET Entry]
Idle == [step |-> "idle", request |-> 0, account |-> None, name |-> None,
         objectID |-> 0, left |-> {}, page |-> {}]
Answer == [account : AccountIds, name : Names, code : {0, 3}]

FigsNamed(n) == {f \in minifigs : f.name = n}
FigsOf(a) == {f \in minifigs : f.account = a}
Wearing(f, slot) == {i \in items : i.owner = f.id /\ i.slot = slot}
Worn(f) == {slot \in Slots : Wearing(f, slot) # {}}

CreationInit ==
  /\ minifigs = {} /\ items = {} /\ nextFig = 1 /\ nextItem = 1
  /\ job = [s \in Servers |-> Idle]
  /\ answers = {} /\ requests = 0 /\ crashed = {}

-----------------------------------------------------------------------------
(* Requests *)

Begin(s, step, a, n) ==
  /\ job[s].step = "idle" /\ requests < MaxRequests
  /\ requests' = requests + 1
  /\ job' = [job EXCEPT ![s] = [Idle EXCEPT !.step = step, !.account = a,
                                  !.name = n, !.request = requests + 1]]
  /\ UNCHANGED <<tables, answers, crashed>>

RequestCreation(s) ==
  \E a \in AccountIds, n \in Names : Begin(s, "check", a, n)
RequestList(s) == \E a \in AccountIds : Begin(s, "figs", a, None)

Goto(s, step) == job' = [job EXCEPT ![s].step = step]
Finish(s) == job' = [job EXCEPT ![s] = Idle]
Respond(s, code) ==
  answers' = answers \cup
    {[account |-> job[s].account, name |-> job[s].name, code |-> code]}

-----------------------------------------------------------------------------
(* createNewMinifig *)

\* Slip: the result of the name check is not used.
CheckNothing(s) ==
  /\ job[s].step = "check"
  /\ Goto(s, "insert")
  /\ UNCHANGED <<tables, answers, requests, crashed>>

\* Slip: the response is 2, "that name is unavailable".
CheckNameUnavailable(s) ==
  /\ job[s].step = "check"
  /\ \/ /\ FigsNamed(job[s].name) = {}
        /\ Goto(s, "insert") /\ UNCHANGED answers
     \/ /\ FigsNamed(job[s].name) # {}
        /\ Respond(s, 2) /\ Finish(s)
  /\ UNCHANGED <<tables, requests, crashed>>

\* SELECT objectID FROM minifigs WHERE playerName=?; response 3 if it exists.
CheckName(s) ==
  /\ job[s].step = "check"
  /\ \/ /\ FigsNamed(job[s].name) = {}
        /\ Goto(s, "insert") /\ UNCHANGED answers
     \/ /\ FigsNamed(job[s].name) # {}
        /\ Respond(s, 3) /\ Finish(s)
  /\ UNCHANGED <<tables, requests, crashed>>

InsertFig(s) ==
  /\ job[s].step = "insert"
  /\ minifigs' = minifigs \cup
       {[id |-> nextFig, account |-> job[s].account, name |-> job[s].name]}
  /\ nextFig' = nextFig + 1
  /\ Goto(s, "find")
  /\ UNCHANGED <<items, nextItem, answers, requests, crashed>>

\* Slip: the counter of the table is taken for the id of the new row.
FindNextID(s) ==
  /\ job[s].step = "find"
  /\ job' = [job EXCEPT ![s].step = "shirt", ![s].objectID = nextFig]
  /\ UNCHANGED <<tables, answers, requests, crashed>>

\* SELECT objectID FROM minifigs WHERE playerName=? LIMIT 1: the id of a row
\* of that name, 0 without one.
FindObjectID(s) ==
  /\ job[s].step = "find"
  /\ \E id \in IF FigsNamed(job[s].name) = {} THEN {0}
               ELSE {f.id : f \in FigsNamed(job[s].name)} :
       job' = [job EXCEPT ![s].step = "shirt", ![s].objectID = id]
  /\ UNCHANGED <<tables, answers, requests, crashed>>

InsertItem(s, slot) ==
  /\ items' = items \cup
       {[id |-> nextItem, owner |-> job[s].objectID, slot |-> slot]}
  /\ nextItem' = nextItem + 1

\* Slip: the block of the shirt is copied and its slot is left as it was.
InsertShirtTwice(s) ==
  /\ job[s].step = "pants"
  /\ InsertItem(s, "torso")
  /\ Respond(s, 0)
  /\ Goto(s, "figs")
  /\ UNCHANGED <<minifigs, nextFig, requests, crashed>>

\* Slip: creation is confirmed before the pants are there.
InsertShirtAndRespond(s) ==
  /\ job[s].step = "shirt"
  /\ InsertItem(s, "torso")
  /\ Respond(s, 0)
  /\ Goto(s, "pants")
  /\ UNCHANGED <<minifigs, nextFig, requests, crashed>>

InsertShirt(s) ==
  /\ job[s].step = "shirt"
  /\ InsertItem(s, "torso")
  /\ Goto(s, "pants")
  /\ UNCHANGED <<minifigs, nextFig, answers, requests, crashed>>

\* The last statement; response 0 follows at once, then the list.
InsertPants(s) ==
  /\ job[s].step = "pants"
  /\ InsertItem(s, "legs")
  /\ Respond(s, 0)
  /\ Goto(s, "figs")
  /\ UNCHANGED <<minifigs, nextFig, requests, crashed>>

-----------------------------------------------------------------------------
(* sendMinifigureList *)

\* Slip: the limit is one less.
SelectFewer(a) ==
  {rows \in SUBSET FigsOf(a) :
     \/ Cardinality(rows) = ListLimit - 1
     \/ rows = FigsOf(a) /\ Cardinality(rows) < ListLimit}

\* What SELECT * FROM minifigs WHERE accountID=? LIMIT 4 may return.
SelectFigs(a) ==
  {rows \in SUBSET FigsOf(a) :
     \/ Cardinality(rows) = ListLimit
     \/ rows = FigsOf(a) /\ Cardinality(rows) < ListLimit}

ListFigs(s) ==
  /\ job[s].step = "figs"
  /\ \E rows \in SelectFigs(job[s].account) :
       job' = [job EXCEPT ![s].step = "send", ![s].left = rows]
  /\ UNCHANGED <<tables, answers, requests, crashed>>

\* SELECT LOT FROM items WHERE ownerID=? AND bEquipped=1, for the next row.
ListItems(s) ==
  /\ job[s].step = "send"
  /\ \E f \in job[s].left :
       job' = [job EXCEPT ![s].left = @ \ {f},
                          ![s].page = @ \cup {[fig |-> f, worn |-> Worn(f)]}]
  /\ UNCHANGED <<tables, answers, requests, crashed>>

SendList(s) ==
  /\ job[s].step = "send" /\ job[s].left = {}
  /\ Finish(s)
  /\ UNCHANGED <<tables, answers, requests, crashed>>

-----------------------------------------------------------------------------
\* The server dies between two statements and is started again: what it wrote
\* stays, the request is forgotten.
Crash(s) ==
  /\ job[s].step # "idle" /\ Cardinality(crashed) < MaxCrashes
  /\ crashed' = crashed \cup {job[s]}
  /\ Finish(s)
  /\ UNCHANGED <<tables, answers, requests>>

CreationNext ==
  \E s \in Servers :
    \/ RequestCreation(s) \/ RequestList(s)
    \/ CheckName(s) \/ InsertFig(s) \/ FindObjectID(s)
    \/ InsertShirt(s) \/ InsertPants(s)
    \/ ListFigs(s) \/ ListItems(s) \/ SendList(s)
    \/ Crash(s)

CreationSpec == CreationInit /\ [][CreationNext]_creationVars

-----------------------------------------------------------------------------
(* Properties *)

CreationTypeOK ==
  /\ minifigs \subseteq Fig /\ items \subseteq Item
  /\ nextFig \in Nat \ {0} /\ nextItem \in Nat
  /\ job \in [Servers -> Job]
  /\ answers \subseteq Answer
  /\ requests \in Nat /\ crashed \subseteq Job

\* The requests that reached one of these steps and not the next, those that
\* died there included.
At(n, steps) ==
  {j.request : j \in {j \in crashed \cup {job[s] : s \in Servers} :
                        j.name = n /\ j.step \in steps}}

Outfits(n, slot) ==
  {i \in items : i.slot = slot /\ \E f \in FigsNamed(n) : f.id = i.owner}

\* The wardrobe adds up: the minifigs of a name own between them one shirt
\* for each row but those whose creation is, or died, before the shirt, and
\* one pair of pants for each shirt but those whose creation is, or died, in
\* between; whichever of the rows of that name the items were given to.
WardrobeAddsUp ==
  \A n \in Names :
    /\ Cardinality(FigsNamed(n)) = Cardinality(Outfits(n, "torso"))
                                     + Cardinality(At(n, {"find", "shirt"}))
    /\ Cardinality(Outfits(n, "torso")) = Cardinality(Outfits(n, "legs"))
                                            + Cardinality(At(n, {"pants"}))

\* No item is left to nobody: every owner is a minifig, of a name somebody
\* asked for.
EveryItemHasAnOwner ==
  \A i \in items : \E f \in minifigs : f.id = i.owner

\* A player who is told that a minifig was created can find one of that name
\* that is dressed from head to toe.
ConfirmedIsDressed ==
  \A r \in answers : r.code = 0 =>
    \E f \in FigsNamed(r.name) : Worn(f) = Slots

\* The list sent after a creation shows the new minifig, unless the account
\* has more of them than a list holds.
NewFigIsListed ==
  \A s \in Servers :
    job[s].step = "send" /\ job[s].left = {} /\ job[s].name # None =>
      \/ \E e \in job[s].page : e.fig.name = job[s].name
      \/ Cardinality(FigsOf(job[s].account)) > ListLimit

\* With one server, the list sent after a creation shows the new minifig with
\* everything on, also when earlier creations of others died half-way.
NewFigIsShownDressed ==
  \A s \in Servers :
    job[s].step = "send" /\ job[s].name # None =>
      \A e \in job[s].page : e.fig.name = job[s].name => e.worn = Slots

\* lwoWorldPackets.cpp:150: a name that is in use by another minifig is not
\* given to a second one.
NamesAreUnique == \A n \in Names : Cardinality(FigsNamed(n)) <= 1

\* The account that a name belongs to.
OwnerOf(n) ==
  IF FigsNamed(n) = {} THEN None
  ELSE (CHOOSE f \in FigsNamed(n) : TRUE).account

ToldCode(code) ==
  {[account |-> r.account, name |-> r.name] : r \in {r \in answers : r.code = code}}

Promise == INSTANCE Roster WITH
  Nobody <- None,
  owner <- [n \in Names |-> OwnerOf(n)],
  ready <- {n \in Names : \E f \in FigsNamed(n) : Worn(f) = Slots},
  confirmed <- ToldCode(0),
  refused <- ToldCode(3)

\* The statements of a single server, crashes included, implement the roster:
\* a name never changes hands, and no answer is given that the tables do not
\* bear out.
KeepsRoster == Promise!RosterSpec
=============================================================================
