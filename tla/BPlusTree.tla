----------------------------- MODULE BPlusTree -----------------------------
(***************************************************************************)
(* RakNet's B+ tree (DS_BPlusTree.h), in which the reliability layer keeps *)
(* the messages that are not acknowledged by their number (resendList).    *)
(* Leaves hold the data and are linked; a full leaf gives a key to a       *)
(* neighbour or is split, one that ran short takes a key from a neighbour  *)
(* or is merged with it.                                                   *)
(*                                                                         *)
(* The datum of a key is the key, as in the header's own ValidateTree.     *)
(***************************************************************************)
EXTENDS Integers, Sequences, FiniteSetsExt

CONSTANTS
  Order,     \* keys in a page
  MaxKey,    \* bound: keys are 1..MaxKey
  MaxPages   \* bound: pages allocated at once

VARIABLE tree   \* root, leftmostLeaf and the pages

Null == 0
Ids == 1..MaxPages
Half == Order \div 2
UpHalf == (Order + 1) \div 2

Blank ==
  [used |-> FALSE, isLeaf |-> TRUE, size |-> 0, next |-> Null, previous |-> Null,
   keys |-> [i \in 0..(Order - 1) |-> 0], data |-> [i \in 0..(Order - 1) |-> 0],
   children |-> [i \in 0..Order |-> Null]]

NoPages == [root |-> Null, leftmostLeaf |-> Null, page |-> [n \in Ids |-> Blank]]
Init == tree = NoPages

New(t) == Min({n \in Ids : ~t.page[n].used})
Child(t, n, i) == t.page[t.page[n].children[i]]

\* The index of a key in a page, or where it would be.
Has(p, key) == \E i \in 0..(p.size - 1) : p.keys[i] = key
IndexOf(p, key) == Cardinality({i \in 0..(p.size - 1) : p.keys[i] < key})

\* An array with the elements from index i on one further up or down.
Up(a, i) == [j \in DOMAIN a |-> IF j > i THEN a[j - 1] ELSE a[j]]
Down(a, i) == [j \in DOMAIN a |-> IF j >= i /\ j + 1 \in DOMAIN a THEN a[j + 1] ELSE a[j]]

\* What is behind the last key of a page is not told apart.
Tidy(t) ==
  [t EXCEPT !.page = [n \in Ids |->
     LET p == t.page[n] IN
     IF ~p.used THEN Blank
     ELSE [p EXCEPT
       !.keys = [i \in DOMAIN @ |-> IF i < p.size THEN @[i] ELSE 0],
       !.data = [i \in DOMAIN @ |-> IF i < p.size /\ p.isLeaf THEN @[i] ELSE 0],
       !.children = [i \in DOMAIN @ |-> IF i <= p.size /\ ~p.isLeaf THEN @[i] ELSE Null]]]]

-----------------------------------------------------------------------------
(* Insert.  What a call gives back: the tree, a page that was split off and *)
(* the action its caller takes.                                             *)

Back(t, page, action, key1, key2) ==
  [tree |-> t, page |-> page, action |-> action, key1 |-> key1, key2 |-> key2]
Nothing(t) == Back(t, Null, "none", 0, 0)

WithKey(p, key, i, node) ==
  [p EXCEPT !.keys = [Up(@, i) EXCEPT ![i] = key],
            !.data = IF p.isLeaf THEN [Up(@, i) EXCEPT ![i] = key] ELSE @,
            !.children = IF p.isLeaf THEN @ ELSE [Up(@, i + 1) EXCEPT ![i + 1] = node],
            !.size = @ + 1]

\* A full page and what goes into it, split after the first keys.
InsertIntoNode(t, cur, key, i, node, before) ==
  LET p == t.page[cur] IN
  IF p.size < Order
  THEN [before EXCEPT !.tree = [t EXCEPT !.page[cur] = WithKey(p, key, i, node)], !.page = Null]
  ELSE
    LET n == New(t)
        \* one cell longer than a page
        keys == [j \in 0..Order |-> IF j < i THEN p.keys[j] ELSE IF j = i THEN key ELSE p.keys[j - 1]]
        children == [j \in 0..(Order + 1) |-> IF j <= i THEN p.children[j]
                                              ELSE IF j = i + 1 THEN node ELSE p.children[j - 1]]
        late == i >= UpHalf
        \* keys that stay, and all that go to the new page
        stay == IF late THEN Half ELSE UpHalf
        gone == Order + 1 - stay
        right == [Blank EXCEPT
          !.used = TRUE, !.isLeaf = p.isLeaf,
          !.next = p.next, !.previous = cur,
          !.size = gone,
          !.keys = [j \in DOMAIN @ |->
                      IF p.isLeaf /\ j < gone THEN keys[stay + j]
                      ELSE IF ~p.isLeaf /\ j < gone - 1 THEN keys[stay + 1 + j] ELSE 0],
          !.data = [j \in DOMAIN @ |-> IF p.isLeaf /\ j < gone THEN keys[stay + j] ELSE 0],
          !.children = [j \in DOMAIN @ |-> IF ~p.isLeaf /\ j < gone THEN children[stay + 1 + j] ELSE Null]]
        left == [p EXCEPT
          !.size = stay,
          !.next = IF p.isLeaf THEN n ELSE @,
          !.keys = [j \in DOMAIN @ |-> IF j < stay THEN keys[j] ELSE @[j]],
          !.data = [j \in DOMAIN @ |-> IF p.isLeaf /\ j < stay THEN keys[j] ELSE @[j]],
          !.children = [j \in DOMAIN @ |-> IF ~p.isLeaf /\ j <= stay THEN children[j] ELSE @[j]]]
        linked == [t.page EXCEPT ![n] = right, ![cur] = left]
        pages == IF p.isLeaf /\ p.next # Null THEN [linked EXCEPT ![p.next].previous = n] ELSE linked
    IN IF p.isLeaf
       THEN [before EXCEPT !.tree = [t EXCEPT !.page = pages], !.page = n]
       ELSE Back([t EXCEPT !.page = pages], n, "push", keys[stay], 0)

\* A full leaf gives its first key to the leaf before it, or the new key
\* takes its place.
GiveLeft(t, cur, branch, key) ==
  LET d == t.page[cur].children[branch - 1]
      s == t.page[cur].children[branch]
      source == t.page[s]
      first == source.keys[0]
      dest == WithKey(t.page[d], first, t.page[d].size, Null)
      rest == [source EXCEPT !.keys = Down(@, 0), !.data = Down(@, 0), !.size = @ - 1]
      full == IF key > first THEN WithKey(rest, key, IndexOf(rest, key), Null)
              ELSE [source EXCEPT !.keys[0] = key, !.data[0] = key]
  IN Back([t EXCEPT !.page = [@ EXCEPT ![d] = dest, ![s] = full,
                                       ![cur].keys[branch - 1] = full.keys[0]]],
          Null, "replace", first, IF key > first THEN rest.keys[0] ELSE key)

\* Or its last key to the leaf behind it, or the new one goes there.
GiveRight(t, cur, branch, key) ==
  LET d == t.page[cur].children[branch + 1]
      s == t.page[cur].children[branch]
      source == t.page[s]
      last == source.keys[source.size - 1]
      over == IF key < last THEN last ELSE key
      dest == WithKey(t.page[d], over, 0, Null)
      rest == [source EXCEPT !.size = @ - 1]
      full == IF key < last THEN WithKey(rest, key, IndexOf(rest, key), Null) ELSE source
  IN Back([t EXCEPT !.page = [@ EXCEPT ![d] = dest, ![s] = full, ![cur].keys[branch] = over]],
          Null, "replace", t.page[d].keys[0], over)

RECURSIVE InsertBranchDown(_, _, _)
InsertBranchDown(t, cur, key) ==
  LET p == t.page[cur]
      branch == IndexOf(p, key) + (IF Has(p, key) THEN 1 ELSE 0)
      child == Child(t, cur, branch)
      full == child.isLeaf /\ child.size = Order
  IN IF p.isLeaf THEN InsertIntoNode(t, cur, key, branch, Null, Nothing(t))
     ELSE IF full /\ branch > 0 /\ Child(t, cur, branch - 1).size < Order
       THEN GiveLeft(t, cur, branch, key)
     ELSE IF full /\ branch < p.size /\ Child(t, cur, branch + 1).size < Order
       THEN GiveRight(t, cur, branch, key)
     ELSE LET down == InsertBranchDown(t, p.children[branch], key)
              b == branch - 1
              u == IF down.action = "replace" /\ branch > 0 /\ down.tree.page[cur].keys[b] = down.key1
                   THEN [down.tree EXCEPT !.page[cur].keys[b] = down.key2] ELSE down.tree
              n == down.page
          IN IF n = Null THEN [down EXCEPT !.tree = u]
             ELSE IF u.page[n].isLeaf
               THEN InsertIntoNode(u, cur, u.page[n].keys[0], branch, n, down)
             ELSE InsertIntoNode([u EXCEPT !.page[n].size = @ - 1], cur, down.key1, branch, n, down)

Inserted(t, key) ==
  IF t.root = Null
  THEN LET n == New(t) IN
    [t EXCEPT !.root = n, !.leftmostLeaf = n,
              !.page[n] = WithKey([Blank EXCEPT !.used = TRUE], key, 0, Null)]
  ELSE
    LET down == InsertBranchDown(t, t.root, key)
        n == down.page
        leaf == down.tree.page[n].isLeaf
        u == IF n = Null \/ leaf THEN down.tree ELSE [down.tree EXCEPT !.page[n].size = @ - 1]
        r == New(u)
    IN IF n = Null THEN u
       ELSE [u EXCEPT !.root = r,
               !.page[r] = [Blank EXCEPT
                  !.used = TRUE, !.isLeaf = FALSE, !.size = 1,
                  !.keys[0] = IF leaf THEN u.page[n].keys[0] ELSE down.key1,
                  !.children = [@ EXCEPT ![0] = t.root, ![1] = n]]]

-----------------------------------------------------------------------------
(* Delete.  What a call gives back: the tree, whether the page ran short,   *)
(* and the key of the branch that its caller sets.                          *)

Without(p, i) ==
  [p EXCEPT !.keys = [j \in DOMAIN @ |-> IF j >= i /\ j < p.size - 1 THEN @[j + 1] ELSE @[j]],
            !.data = [j \in DOMAIN @ |-> IF p.isLeaf /\ j >= i /\ j < p.size - 1 THEN @[j + 1] ELSE @[j]],
            !.children = [j \in DOMAIN @ |->
                            IF ~p.isLeaf /\ j > i /\ j < p.size THEN @[j + 1] ELSE @[j]],
            !.size = @ - 1]

Result(t, underflow, action, key1) ==
  [tree |-> t, underflow |-> underflow, action |-> action, key1 |-> key1]

\* The last key of the page before goes to the page that ran short.
TakeLeft(t, cur, branch, action, key1) ==
  LET d == t.page[cur].children[branch]
      s == t.page[cur].children[branch - 1]
      source == t.page[s]
      dest == t.page[d]
      last == source.size - 1
  IN Result([t EXCEPT !.page = [@ EXCEPT
       ![d] = [dest EXCEPT
          !.keys = [Up(@, 0) EXCEPT ![0] = IF dest.isLeaf THEN source.keys[last]
                                           ELSE t.page[cur].keys[branch - 1]],
          !.data = IF dest.isLeaf THEN [Up(@, 0) EXCEPT ![0] = source.data[last]] ELSE @,
          !.children = IF dest.isLeaf THEN @ ELSE [Up(@, 0) EXCEPT ![0] = source.children[source.size]],
          !.size = @ + 1],
       ![s].size = @ - 1,
       ![cur].keys[branch - 1] = source.keys[last]]], FALSE, action, key1)

\* The first key of the page behind.
TakeRight(t, cur, branch, rightRootKey, action, key1) ==
  LET d == t.page[cur].children[branch]
      s == t.page[cur].children[branch + 1]
      source == t.page[s]
      dest == t.page[d]
      more == [dest EXCEPT
         !.keys[dest.size] = IF dest.isLeaf THEN source.keys[0] ELSE rightRootKey,
         !.data = IF dest.isLeaf THEN [@ EXCEPT ![dest.size] = source.data[0]] ELSE @,
         !.children = IF dest.isLeaf THEN @ ELSE [@ EXCEPT ![dest.size + 1] = source.children[0]],
         !.size = @ + 1]
      less == [source EXCEPT
         !.keys = Down(@, 0), !.size = @ - 1,
         !.data = IF source.isLeaf THEN Down(@, 0) ELSE @,
         !.children = IF source.isLeaf THEN @ ELSE Down(@, 0)]
      keys == [t.page[cur].keys EXCEPT ![branch] = source.keys[IF dest.isLeaf THEN 1 ELSE 0]]
      \* a leaf that was empty, which a small order allows
      wasEmpty == dest.isLeaf /\ Order <= 3 /\ dest.size = 0
      set == \/ wasEmpty /\ branch = 0
             \/ ~dest.isLeaf /\ action = "none"
  IN Result([t EXCEPT !.page = [@ EXCEPT
       ![d] = more, ![s] = less,
       ![cur].keys = IF wasEmpty /\ branch > 0 THEN [keys EXCEPT ![branch - 1] = more.keys[0]]
                     ELSE keys]],
       FALSE,
       IF set THEN "set" ELSE action,
       IF set THEN (IF dest.isLeaf THEN more.keys[0] ELSE dest.keys[0]) ELSE key1)

\* Or the two become one, and the branch between them goes.
MergePages(t, cur, branch, rightRootKey, action, key1) ==
  LET p == t.page[cur]
      right == IF branch < p.size THEN branch + 1 ELSE branch
      d == p.children[right - 1]
      s == p.children[right]
      source == t.page[s]
      dest == t.page[d]
      base == dest.size + (IF dest.isLeaf THEN 0 ELSE 1)
      both == [dest EXCEPT
         !.size = base + source.size,
         !.keys = [j \in DOMAIN @ |->
                     IF j >= base /\ j < base + source.size THEN source.keys[j - base]
                     ELSE IF ~dest.isLeaf /\ j = dest.size THEN rightRootKey ELSE @[j]],
         !.data = [j \in DOMAIN @ |->
                     IF dest.isLeaf /\ j >= base /\ j < base + source.size
                     THEN source.data[j - base] ELSE @[j]],
         !.children = [j \in DOMAIN @ |->
                     IF ~dest.isLeaf /\ j >= base /\ j <= base + source.size
                     THEN source.children[j - base] ELSE @[j]]]
      first == IF right - 1 = branch THEN both ELSE source
      named == IF Order <= 3 /\ branch > 0 /\ dest.isLeaf
               THEN [p EXCEPT !.keys[branch - 1] = first.keys[0]] ELSE p
      less == Without(named, right - 1)
      set == branch = 0 /\ dest.isLeaf
      merged == [t.page EXCEPT ![d] = both, ![cur] = less, ![s] = Blank]
      before == IF source.isLeaf /\ source.previous # Null
                THEN [merged EXCEPT ![source.previous].next = source.next] ELSE merged
      after == IF source.isLeaf /\ source.next # Null
               THEN [before EXCEPT ![source.next].previous = source.previous] ELSE before
  IN Result([t EXCEPT !.page = after,
                      !.leftmostLeaf = IF @ = s THEN source.next ELSE @],
            less.size < Half,
            IF set THEN "set" ELSE action, IF set THEN both.keys[0] ELSE key1)

\* Slip: a neighbour with as few keys as allowed gives one as well.
FixUnderflowGreedy(t, cur, branch, rightRootKey, action, key1) ==
  IF branch > 0 /\ Child(t, cur, branch - 1).size >= Half
  THEN TakeLeft(t, cur, branch, action, key1)
  ELSE IF branch < t.page[cur].size /\ Child(t, cur, branch + 1).size > Half
  THEN TakeRight(t, cur, branch, rightRootKey, action, key1)
  ELSE MergePages(t, cur, branch, rightRootKey, action, key1)

FixUnderflow(t, cur, branch, rightRootKey, action, key1) ==
  IF branch > 0 /\ Child(t, cur, branch - 1).size > Half
  THEN TakeLeft(t, cur, branch, action, key1)
  ELSE IF branch < t.page[cur].size /\ Child(t, cur, branch + 1).size > Half
  THEN TakeRight(t, cur, branch, rightRootKey, action, key1)
  ELSE MergePages(t, cur, branch, rightRootKey, action, key1)

\* The key to the right of a branch, or to its left behind the last.
KeyBeside(p, branch) == p.keys[IF branch < p.size THEN branch ELSE branch - 1]

RECURSIVE FindDeleteRebalance(_, _, _, _)
FindDeleteRebalance(t, cur, key, rightRootKey) ==
  LET p == t.page[cur]
      index == IndexOf(p, key)
      branch == index + (IF Has(p, key) THEN 1 ELSE 0)
      c == p.children[branch]
      child == t.page[c]
  IN IF child.isLeaf
     THEN LET i == IndexOf(child, key)
              less == Without(child, i)
              set == i = 0 /\ branch = 0
              u == [t EXCEPT !.page = [@ EXCEPT
                      ![c] = less,
                      ![cur].keys = IF i = 0 /\ branch > 0
                                    THEN [@ EXCEPT ![branch - 1] = less.keys[0]] ELSE @]]
              action == IF set THEN "set" ELSE "none"
          IN IF less.size < Half
             THEN FixUnderflow(u, cur, branch, rightRootKey, action, less.keys[0])
             ELSE Result(u, FALSE, action, less.keys[0])
     ELSE LET down == FindDeleteRebalance(t, c, key, KeyBeside(p, branch))
              sets == down.action = "set" /\ branch # index
              u == IF sets THEN [down.tree EXCEPT !.page[cur].keys[index] = down.key1] ELSE down.tree
              action == IF sets THEN "none" ELSE down.action
          IN IF down.underflow
             THEN FixUnderflow(u, cur, branch, KeyBeside(u.page[cur], branch), action, down.key1)
             ELSE Result(u, FALSE, action, down.key1)

Deleted(t, key) ==
  IF t.root = t.leftmostLeaf
  THEN LET less == Without(t.page[t.root], IndexOf(t.page[t.root], key)) IN
    IF less.size = 0
    THEN [t EXCEPT !.root = Null, !.leftmostLeaf = Null, !.page[t.root] = Blank]
    ELSE [t EXCEPT !.page[t.root] = less]
  ELSE
    LET done == FindDeleteRebalance(t, t.root, key, t.page[t.root].keys[0])
        r == done.tree.page[t.root]
    IN IF done.underflow /\ r.size = 0
       THEN [done.tree EXCEPT !.root = r.children[0], !.page[t.root] = Blank]
       ELSE done.tree

-----------------------------------------------------------------------------

\* GetLeafFromKey, from a page on down.
RECURSIVE LeafOf(_, _, _)
LeafOf(t, n, key) ==
  LET p == t.page[n] IN
  IF p.isLeaf THEN n
  ELSE LeafOf(t, p.children[IndexOf(p, key) + (IF Has(p, key) THEN 1 ELSE 0)], key)

\* Get
Found(t, key) == t.root # Null /\ Has(t.page[LeafOf(t, t.root, key)], key)

\* The keys of the leaves, from GetListHead on.
Leaves(t) ==
  LET used == {n \in Ids : t.page[n].used /\ t.page[n].isLeaf}
      leaf[k \in 1..Cardinality(used)] ==
        IF k = 1 THEN t.leftmostLeaf
        ELSE IF leaf[k - 1] = Null THEN Null ELSE t.page[leaf[k - 1]].next
  IN [k \in 1..Cardinality(used) |-> leaf[k]]

InLeaf(t, n) == {t.page[n].keys[i] : i \in 0..(t.page[n].size - 1)}
Keys(t) == UNION {InLeaf(t, n) : n \in {n \in Ids : t.page[n].used /\ t.page[n].isLeaf}}
Missing == (1..MaxKey) \ Keys(tree)

\* Keys are new, as row numbers are: only then is one that exists found.
Insert(key) == key \in Missing /\ tree' = Tidy(Inserted(tree, key))
Delete(key) == key \in Keys(tree) /\ tree' = Tidy(Deleted(tree, key))
Clear == tree # NoPages /\ tree' = NoPages

\* Bound: the keys at either end and in the middle.
Ends(s) ==
  IF s = {} THEN {}
  ELSE {Min(s), Max(s), Min({k \in s : 2 * Cardinality({j \in s : j < k}) >= Cardinality(s) - 1})}

Next ==
  \/ \E key \in Ends(Missing) : Insert(key)
  \/ \E key \in Ends(Keys(tree)) : Delete(key)
  \/ Clear

Spec == Init /\ [][Next]_tree

-----------------------------------------------------------------------------
(* Properties *)

\* Pages that can be reached from the root.
Reached(t) ==
  ({t.root} \cup {t.page[e[1]].children[e[2]] :
     e \in {<<n, i>> \in Ids \X (0..Order) : ~t.page[n].isLeaf /\ i <= t.page[n].size}}) \ {Null}

\* The header's ValidateTree: leaves are linked in both directions, hold their
\* keys in order and their data; pages are half full at least, and a branch
\* is named by the first key behind it.  No page is lost.
ValidTree(t) ==
  LET used == {n \in Ids : t.page[n].used} s == Leaves(t) IN
  /\ \A n \in used : n # t.root => t.page[n].size >= Half
  /\ Reached(t) = used
  /\ \A k \in DOMAIN s :
       LET n == s[k] IN
       /\ n # Null
       /\ t.page[n].previous = (IF k = 1 THEN Null ELSE s[k - 1])
       /\ \A i \in 0..(t.page[n].size - 1) : t.page[n].data[i] = t.page[n].keys[i]
       /\ \A i \in 1..(t.page[n].size - 1) : t.page[n].keys[i - 1] < t.page[n].keys[i]
       /\ k > 1 => Max(InLeaf(t, s[k - 1])) < Min(InLeaf(t, n))
  /\ s # <<>> => t.page[s[Len(s)]].next = Null
  /\ \A n \in used :
       LET p == t.page[n] IN
       /\ ~p.isLeaf /\ Child(t, n, 0).isLeaf =>
            /\ Child(t, n, 0).keys[0] < p.keys[0]
            /\ \A i \in 0..(p.size - 1) : Child(t, n, i + 1).keys[0] = p.keys[i]

\* Insert and Delete change the set of keys by theirs alone, Get finds exactly
\* the keys that are in, and the tree stays valid, through every split, loan
\* and merge.
MapKept ==
  /\ ValidTree(tree')
  /\ \A key \in 1..MaxKey : Found(tree', key) <=> key \in Keys(tree')
  /\ \A key \in Ends(Missing) : Insert(key) => Keys(tree') = Keys(tree) \cup {key}
  /\ \A key \in Ends(Keys(tree)) : Delete(key) => Keys(tree') = Keys(tree) \ {key}
KeepsMap == [][MapKept]_tree
=============================================================================
