-------------------------------- MODULE Forest --------------------------------
(***************************************************************************)
(* The order that the picker shows the queue in (buildForest): each        *)
(* delegated session under its delegator, the freshest tree first.         *)
(*                                                                         *)
(* rows is a function on the ids of the open sessions.  Of a row it has    *)
(*   parent    the recorded delegator, or NULL: it may be of no row, and   *)
(*             nothing keeps the links from forming a cycle                *)
(*   activity  when the session last did something                         *)
(*   keep      does the state filter ask for it?                           *)
(*   scoped    is it of the repository that is shown?                      *)
(* Ids are numbers, in the order that the ids themselves have.             *)
(***************************************************************************)
EXTENDS Integers, SequencesExt

CONSTANT NULL

\* The ids in S in their own order.
Ascending(S) ==
  CHOOSE q \in [1..Cardinality(S) -> S] : \A i, j \in DOMAIN q : i < j => q[i] < q[j]

\* The delegators above id, up to one that has no row, or to the one where a cycle of
\* them closes.
Above(rows, id) ==
  LET up[n \in 0..Cardinality(DOMAIN rows)] ==
        IF n = 0 THEN {id}
        ELSE up[n - 1] \cup ({rows[x].parent : x \in up[n - 1]} \cap DOMAIN rows)
  IN  up[Cardinality(DOMAIN rows)]

KeptRows(rows) == {id \in DOMAIN rows : rows[id].keep}

\* The rows that are asked for, and those above them.
PulledBack(rows) == UNION {Above(rows, id) : id \in KeptRows(rows)}

HasChildIn(rows, S, id) == \E child \in S \ {id} : rows[child].parent = id

\* A row that was only pulled back goes when no child of it is left, until none does.
Prune(rows, S) ==
  LET pass[n \in 0..Cardinality(S)] ==
        IF n = 0 THEN S
        ELSE {id \in pass[n - 1] : rows[id].keep \/ HasChildIn(rows, pass[n - 1], id)}
  IN  pass[Cardinality(S)]

ShownIds(rows, scope) ==
  IF scope THEN Prune(rows, {id \in PulledBack(rows) : rows[id].scoped})
  ELSE PulledBack(rows)

\* The links between rows that are shown, as a function on their ids.
Links(rows, S) ==
  [id \in S |-> IF rows[id].parent \in S \ {id} THEN rows[id].parent ELSE NULL]

\* The walk up from id: where it is after each number of links, NULL past its end.
Walk(link, id) ==
  LET at[n \in 0..Cardinality(DOMAIN link)] ==
        IF n = 0 THEN id ELSE IF at[n - 1] = NULL THEN NULL ELSE link[at[n - 1]]
  IN  at

\* Mutant of CutFrom: the link that is cut is the one the walk began with.
CutFromStart(link, id) ==
  LET at == Walk(link, id)
      returns == {n \in DOMAIN at : at[n] # NULL /\ \E m \in 0..(n - 1) : at[m] = at[n]}
  IN  IF returns = {} THEN link ELSE [link EXCEPT ![id] = NULL]

\* The walk up from id cuts the link by which it first returns to an id it has visited.
CutFrom(link, id) ==
  LET at == Walk(link, id)
      returns == {n \in DOMAIN at : at[n] # NULL /\ \E m \in 0..(n - 1) : at[m] = at[n]}
  IN  IF returns = {} THEN link ELSE [link EXCEPT ![at[Min(returns) - 1]] = NULL]

\* Mutant of Cut: only rows that are their own delegator's delegator are cut loose.
CutPairs(link) ==
  [id \in DOMAIN link |->
     IF link[id] # NULL /\ link[link[id]] = id /\ id < link[id] THEN NULL ELSE link[id]]

\* The links without those that close a cycle: one walk after the other, in id order.
Cut(link) ==
  LET ids == Ascending(DOMAIN link)
      cut[n \in 0..Len(ids)] == IF n = 0 THEN link ELSE CutFrom(cut[n - 1], ids[n])
  IN  cut[Len(ids)]

Children(link, id) == {child \in DOMAIN link : link[child] = id}

\* id and all below it, of links without a cycle.
Below(link, id) == {x \in DOMAIN link : \E n \in DOMAIN Walk(link, x) : Walk(link, x)[n] = id}

\* Mutant of Freshness: a tree is as fresh as its root.
FreshnessOfRoot(rows, link, id) == rows[id].activity

\* maxActivity: a tree is as fresh as the freshest in it.
Freshness(rows, link, id) == Max({rows[x].activity : x \in Below(link, id)})

\* Is tree a listed before tree b?
Before(rows, link, a, b) ==
  LET fa == Freshness(rows, link, a)
      fb == Freshness(rows, link, b)
  IN  fa > fb \/ (fa = fb /\ a < b)

\* The trees of the ids in S, the freshest first.
Freshest(rows, link, S) ==
  CHOOSE q \in [1..Cardinality(S) -> S] :
    \A i, j \in DOMAIN q : i < j => Before(rows, link, q[i], q[j])

Deeper(list) == [i \in DOMAIN list |-> [list[i] EXCEPT !.depth = @ + 1]]

\* The tree of id in the order of the list, each row with the number of those above it.
TreeOf(rows, link) ==
  LET tree[id \in DOMAIN link] ==
        LET kids == Freshest(rows, link, Children(link, id))
        IN  <<[id |-> id, depth |-> 0]>>
              \o FlattenSeq([i \in DOMAIN kids |-> Deeper(tree[kids[i]])])
  IN  tree

\* buildForest.  scope: is there a repo filter?
BuildForest(rows, scope) ==
  LET link == Cut(Links(rows, ShownIds(rows, scope)))
      roots == Freshest(rows, link, {id \in DOMAIN link : link[id] = NULL})
      tree == TreeOf(rows, link)
  IN  FlattenSeq([i \in DOMAIN roots |-> tree[roots[i]]])

-----------------------------------------------------------------------------
(***************************************************************************)
(* What the list promises, of any rows.                                    *)
(***************************************************************************)

IdsIn(list) == {list[i].id : i \in DOMAIN list}

\* The row that the i-th is directly under, or NULL.
ParentInList(list, i) ==
  LET above == {j \in 1..(i - 1) : list[j].depth < list[i].depth}
  IN  IF above = {} THEN NULL ELSE list[Max(above)].id

\* The row that the i-th is under, or is, and that is under none.
RootInList(list, i) == list[Max({j \in 1..i : list[j].depth = 0})].id

\* Every row that is asked for is listed, and no row twice, cycles and delegators
\* without a row notwithstanding.  A row nobody asked for is listed only to hold one
\* of its delegates.
ListsEachOnce(rows, scope) ==
  LET list == BuildForest(rows, scope)
  IN  /\ \A i, j \in DOMAIN list : list[i].id = list[j].id => i = j
      /\ \A id \in KeptRows(rows) : (scope => rows[id].scoped) => id \in IdsIn(list)
      /\ \A id \in IdsIn(list) \ KeptRows(rows) : HasChildIn(rows, IdsIn(list), id)

\* A row is directly under its delegator.  It is under no row only where its delegator
\* is not listed, or, one row of each cycle, where its delegator is below it.
ListsUnderDelegator(rows, scope) ==
  LET list == BuildForest(rows, scope)
  IN  \A i \in DOMAIN list :
        LET id == list[i].id
            parent == rows[id].parent
        IN  \/ ParentInList(list, i) = parent
            \/ /\ list[i].depth = 0
               /\ \A j \in DOMAIN list : list[j].id = parent => RootInList(list, j) = id

\* No tree is listed before a fresher one: what is active lifts all that it is part of.
ListsFreshestFirst(rows, scope) ==
  LET list == BuildForest(rows, scope)
  IN  \A i, j \in DOMAIN list : i < j =>
        \E m \in DOMAIN list : /\ RootInList(list, m) = RootInList(list, i)
                               /\ rows[list[m].id].activity >= rows[list[j].id].activity

=============================================================================
