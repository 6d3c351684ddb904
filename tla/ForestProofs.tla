---------------------------- MODULE ForestProofs ----------------------------
(***************************************************************************)
(* Proofs about Forest: that the list of the picker is what it promises to *)
(* be, of any finite number of rows, however they are linked.              *)
(*                                                                         *)
(* The definitions of Forest are recursive functions.  That there is a     *)
(* function as each of them says is what Recursion is for.                 *)
(***************************************************************************)
EXTENDS MCPicker, SequenceTheorems, FiniteSetTheorems, WellFoundedInduction, TLAPS

(***************************************************************************)
(* Induction and recursion, over sets instead of operators.                *)
(***************************************************************************)

LEMMA LeastOfNaturals ==
  ASSUME NEW T \in SUBSET Nat, T # {}
  PROVE  \E m \in T : \A q \in T : m <= q
<1> DEFINE below == OpToRel(<, Nat)
<1>1. below = {ss \in Nat \X Nat : ss[1] < ss[2]}
  BY DEF OpToRel
<1>2. IsWellFoundedOn(below, Nat)
  BY NatLessThanWellFounded
<1> HIDE DEF below
<1>3. PICK m \in T : \A q \in T : ~ (<<q, m>> \in below)
  BY <1>2, WFMin
<1>4. \A q \in T : ~ (q < m)
  BY <1>1, <1>3
<1>5. QED
  BY <1>3, <1>4

\* Induction up to N: G are the numbers of which it holds.
LEMMA UpTo ==
  ASSUME NEW N \in Nat, NEW G, 0 \in G, \A n \in 0..N : n \in G /\ n < N => n + 1 \in G
  PROVE  \A n \in 0..N : n \in G
<1> DEFINE Bad == {n \in 0..N : n \notin G}
<1>1. SUFFICES ASSUME Bad # {} PROVE FALSE
  OBVIOUS
<1>2. Bad \in SUBSET Nat
  OBVIOUS
<1>3. PICK m \in Bad : \A q \in Bad : m <= q
  BY <1>1, <1>2, LeastOfNaturals
<1>4. m # 0 /\ m \in 0..N /\ m \notin G
  BY <1>3
<1>5. m - 1 \in 0..N /\ m - 1 < N
  BY <1>4
<1>6. m - 1 \in G
  BY <1>3, <1>5
<1>7. m \in G
  BY <1>4, <1>5, <1>6
<1>8. QED
  BY <1>4, <1>7

\* The j-th of l that begin after the first a.
LEMMA Within ==
  ASSUME NEW a \in Nat, NEW l \in Nat, NEW c \in Nat, a + l <= c, NEW j \in 1..l
  PROVE  a + j \in 1..c
OBVIOUS

\* What begins after a ends after a.
LEMMA Beyond ==
  ASSUME NEW a \in Nat, NEW b \in Nat, a <= b, NEW i \in Nat, i >= 1
  PROVE  ~ (b + i <= a)
OBVIOUS

\* f goes in N steps, of which the n-th is step[n], from a on.
Iterates(f, N, A, a, step) ==
  /\ f \in [0..N -> A] /\ f[0] = a
  /\ \A n \in 1..N : f[n] = step[n][f[n - 1]]

LEMMA Recursion ==
  ASSUME NEW A, NEW a \in A, NEW N \in Nat, NEW step \in [1..N -> [A -> A]]
  PROVE  \E f : Iterates(f, N, A, a, step)
<1> DEFINE G == {m \in 0..N : \E f : Iterates(f, m, A, a, step)}
<1>1. 0 \in G
  <2> DEFINE g == [n \in 0..0 |-> a]
  <2>1. Iterates(g, 0, A, a, step)
    BY DEF Iterates
  <2> HIDE DEF g
  <2>2. QED
    BY <2>1
<1>2. ASSUME NEW m \in 0..N, m \in G, m < N
      PROVE  m + 1 \in G
  <2>1. PICK f : Iterates(f, m, A, a, step)
    BY <1>2
  <2>2. f \in [0..m -> A] /\ f[0] = a /\ \A n \in 1..m : f[n] = step[n][f[n - 1]]
    BY <2>1 DEF Iterates
  <2>3. step[m + 1][f[m]] \in A /\ m + 1 \in 1..N
    BY <1>2, <2>2
  <2> DEFINE g == [n \in 0..(m + 1) |-> IF n = m + 1 THEN step[m + 1][f[m]] ELSE f[n]]
  <2>4. g \in [0..(m + 1) -> A]
    BY <2>2, <2>3
  <2>5. g[0] = a
    BY <2>2
  <2>6. ASSUME NEW n \in 1..(m + 1)
        PROVE  g[n] = step[n][g[n - 1]]
    <3>1. CASE n = m + 1
      <4>1. g[n - 1] = f[m] /\ g[n] = step[m + 1][f[m]]
        BY <3>1
      <4>2. QED
        BY <3>1, <4>1
    <3>2. CASE n # m + 1
      <4>1. n \in 1..m /\ g[n] = f[n] /\ g[n - 1] = f[n - 1]
        BY <3>2
      <4>2. QED
        BY <2>2, <4>1
    <3>3. QED
      BY <3>1, <3>2
  <2> HIDE DEF g
  <2>7. Iterates(g, m + 1, A, a, step)
    BY <2>4, <2>5, <2>6 DEF Iterates
  <2>8. m + 1 \in 0..N
    BY <1>2
  <2>9. QED
    BY <2>7, <2>8
<1> HIDE DEF G
<1>3. N \in 0..N
  OBVIOUS
<1>4. N \in G
  BY <1>1, <1>2, <1>3, UpTo
<1>5. QED
  BY <1>4 DEF G

-----------------------------------------------------------------------------
(***************************************************************************)
(* Walks up the links.                                                     *)
(***************************************************************************)

Listable(S) == IsFiniteSet(S) /\ S \subseteq Int /\ NULL \notin S

Linked(S, link) == link \in [S -> S \cup {NULL}]

LEMMA Size ==
  ASSUME NEW S, Listable(S)
  PROVE  Cardinality(S) \in Nat
BY FS_CardinalityType DEF Listable

LEMMA WalkSteps ==
  ASSUME NEW S, Listable(S), NEW link, Linked(S, link), NEW x \in S
  PROVE  /\ Walk(link, x) \in [0..Cardinality(S) -> S \cup {NULL}]
         /\ Walk(link, x)[0] = x
         /\ \A n \in 1..Cardinality(S) :
              Walk(link, x)[n] =
                IF Walk(link, x)[n - 1] = NULL THEN NULL ELSE link[Walk(link, x)[n - 1]]
<1> DEFINE N == Cardinality(S)
           A == S \cup {NULL}
           step == [n \in 1..N |-> [y \in A |-> IF y = NULL THEN NULL ELSE link[y]]]
<1>1. N \in Nat
  BY Size
<1>2. DOMAIN link = S /\ \A y \in S : link[y] \in A
  BY DEF Linked
<1>3. step \in [1..N -> [A -> A]]
  BY <1>2
<1>4. \A n \in 1..N, y \in A : step[n][y] = IF y = NULL THEN NULL ELSE link[y]
  OBVIOUS
<1>0. x \in A /\ NULL \in A
  OBVIOUS
<1> HIDE DEF step, N, A
<1>5. PICK f : Iterates(f, N, A, x, step)
  BY <1>0, <1>1, <1>3, Recursion
<1>6. \A n \in 1..N : n - 1 \in 0..N
  BY <1>1
<1>7. f = [n \in 0..N |-> IF n = 0 THEN x ELSE IF f[n - 1] = NULL THEN NULL ELSE link[f[n - 1]]]
  <2>1. \A n \in 1..N : f[n] = IF f[n - 1] = NULL THEN NULL ELSE link[f[n - 1]]
    BY <1>4, <1>5, <1>6 DEF Iterates
  <2>2. \A n \in 0..N : n # 0 => n \in 1..N
    BY <1>1
  <2>3. f = [n \in 0..N |-> f[n]] /\ f[0] = x
    BY <1>5 DEF Iterates
  <2>4. QED
    BY <2>1, <2>2, <2>3
<1> DEFINE at == CHOOSE g : g = [n \in 0..N |->
                    IF n = 0 THEN x ELSE IF g[n - 1] = NULL THEN NULL ELSE link[g[n - 1]]]
<1>8. Walk(link, x) = at
  BY <1>2 DEF Walk, N
<1>9. at = [n \in 0..N |-> IF n = 0 THEN x ELSE IF at[n - 1] = NULL THEN NULL ELSE link[at[n - 1]]]
  BY <1>7
<1> HIDE DEF at
<1>10. /\ DOMAIN at = 0..N /\ at[0] = x
       /\ \A n \in 1..N : at[n] = IF at[n - 1] = NULL THEN NULL ELSE link[at[n - 1]]
  BY <1>1, <1>9
<1>11. \A n \in 0..N : at[n] \in A
  <2> DEFINE G == {n \in 0..N : at[n] \in A}
  <2>1. 0 \in G
    BY <1>0, <1>1, <1>10
  <2>2. \A n \in 0..N : n \in G /\ n < N => n + 1 \in G
    <3>1. \A n \in 0..N : n < N => n + 1 \in 1..N /\ n + 1 - 1 = n /\ n + 1 \in 0..N
      BY <1>1
    <3>2. QED
      BY <1>0, <1>2, <1>10, <3>1 DEF A
  <2> HIDE DEF G
  <2>3. \A n \in 0..N : n \in G
    BY <1>1, <2>1, <2>2, UpTo
  <2>4. QED
    BY <2>3 DEF G
<1>12. at = [n \in 0..N |-> at[n]]
  BY <1>9
<1>13. at \in [0..N -> A]
  BY <1>11, <1>12
<1>14. QED
  BY <1>8, <1>10, <1>13 DEF N, A

\* A walk that has got somewhere goes on like the walk that starts there.
LEMMA WalkOn ==
  ASSUME NEW S, Listable(S), NEW link, Linked(S, link), NEW x \in S,
         NEW m \in Nat, NEW k \in Nat, m + k <= Cardinality(S), Walk(link, x)[m] \in S
  PROVE  Walk(link, Walk(link, x)[m])[k] = Walk(link, x)[m + k]
<1> DEFINE N == Cardinality(S)
           w == Walk(link, x)
           v == Walk(link, w[m])
           G == {j \in 0..k : v[j] = w[m + j]}
<1>1. N \in Nat
  BY Size
<1>2. \A n \in 1..N : w[n] = IF w[n - 1] = NULL THEN NULL ELSE link[w[n - 1]]
  BY WalkSteps
<1>3. v[0] = w[m] /\ \A n \in 1..N : v[n] = IF v[n - 1] = NULL THEN NULL ELSE link[v[n - 1]]
  BY WalkSteps
<1> HIDE DEF N, w, v
<1>4. m + k <= N
  BY DEF N
<1>5. 0 \in G
  BY <1>3
<1>6. ASSUME NEW j \in 0..k, j \in G, j < k
      PROVE  j + 1 \in G
  <2>1. j + 1 \in 1..N /\ m + j + 1 \in 1..N /\ j + 1 - 1 = j /\ m + (j + 1) - 1 = m + j
    BY <1>1, <1>4, <1>6
  <2>2. v[j] = w[m + j]
    BY <1>6
  <2>3. v[j + 1] = w[m + (j + 1)]
    BY <1>2, <1>3, <2>1, <2>2
  <2>4. QED
    BY <1>6, <2>3
<1> HIDE DEF G
<1>7. k \in G
  BY <1>5, <1>6, UpTo
<1>8. QED
  BY <1>7 DEF G, v, w

LEMMA WalkStaysOut ==
  ASSUME NEW S, Listable(S), NEW link, Linked(S, link), NEW x \in S,
         NEW m \in Nat, NEW n \in Nat, m <= n, n <= Cardinality(S), Walk(link, x)[m] = NULL
  PROVE  Walk(link, x)[n] = NULL
<1> DEFINE N == Cardinality(S)
           w == Walk(link, x)
           G == {j \in 0..(n - m) : w[m + j] = NULL}
<1>1. \A i \in 1..N : w[i] = IF w[i - 1] = NULL THEN NULL ELSE link[w[i - 1]]
  BY WalkSteps
<1>2. N \in Nat
  BY Size
<1>3. w[m] = NULL /\ n <= N
  OBVIOUS
<1> HIDE DEF N, w
<1>4. 0 \in G
  BY <1>3
<1>5. ASSUME NEW j \in 0..(n - m), j \in G, j < n - m
      PROVE  j + 1 \in G
  <2>1. m + (j + 1) \in 1..N /\ m + (j + 1) - 1 = m + j
    BY <1>2, <1>3, <1>5
  <2>2. w[m + (j + 1)] = NULL
    BY <1>1, <1>5, <2>1
  <2>3. QED
    BY <1>5, <2>2
<1> HIDE DEF G
<1>6. n - m \in Nat /\ n - m \in 0..(n - m)
  OBVIOUS
<1>7. n - m \in G
  BY <1>4, <1>5, <1>6, UpTo
<1>8. QED
  BY <1>7 DEF G, w

\* The walk up from x comes to an end.
Grounded(link, x) == \E n \in DOMAIN Walk(link, x) : Walk(link, x)[n] = NULL

\* It has then been nowhere twice.
LEMMA NoReturn ==
  ASSUME NEW S, Listable(S), NEW link, Linked(S, link), NEW x \in S, Grounded(link, x),
         NEW i \in 0..Cardinality(S), NEW j \in 0..Cardinality(S), i < j,
         Walk(link, x)[i] = Walk(link, x)[j]
  PROVE  Walk(link, x)[i] = NULL
<1> DEFINE N == Cardinality(S)
           w == Walk(link, x)
           Out == {n \in 0..N : w[n] = NULL}
<1>1. N \in Nat /\ w \in [0..N -> S \cup {NULL}]
  BY Size, WalkSteps
<1>2. Out # {} /\ Out \in SUBSET Nat
  BY <1>1 DEF Grounded
<1>3. PICK z \in Out : \A n \in Out : z <= n
  BY <1>2, LeastOfNaturals
<1>4. SUFFICES ASSUME w[i] # NULL PROVE FALSE
  OBVIOUS
<1>5. j < z
  <2>1. SUFFICES ASSUME z <= j PROVE FALSE
    BY <1>1, <1>3
  <2>2. w[j] = NULL
    BY <1>1, <1>3, <2>1, WalkStaysOut
  <2>3. QED
    BY <1>4, <2>2
<1>6. w[i] \in S /\ w[j] \in S /\ w[i] = w[j]
  BY <1>1, <1>4
<1> DEFINE k == z - j
<1>7. k \in Nat /\ j + k = z /\ i + k \in 0..N /\ i + k < z /\ i + k <= N
  BY <1>1, <1>3, <1>5
<1> HIDE DEF k
<1>8. Walk(link, w[j])[k] = w[z]
  <2>1. j \in Nat /\ j + k <= N /\ w[j] \in S
    BY <1>1, <1>3, <1>6, <1>7
  <2>2. Walk(link, w[j])[k] = w[j + k]
    BY <1>7, <2>1, WalkOn
  <2>3. QED
    BY <1>7, <2>2, Zenon
<1>9. Walk(link, w[i])[k] = w[i + k]
  BY <1>1, <1>6, <1>7, WalkOn
<1>10. w[i + k] = NULL
  BY <1>3, <1>6, <1>8, <1>9
<1>11. QED
  BY <1>3, <1>7, <1>10

LEMMA GroundedOn ==
  ASSUME NEW S, Listable(S), NEW link, Linked(S, link), NEW x \in S, Grounded(link, x),
         NEW k \in 0..Cardinality(S), Walk(link, x)[k] \in S
  PROVE  /\ k + 1 <= Cardinality(S)
         /\ Grounded(link, Walk(link, x)[k])
<1> DEFINE N == Cardinality(S)
           w == Walk(link, x)
<1>1. N \in Nat /\ w \in [0..N -> S \cup {NULL}] /\ NULL \notin S /\ k \in 0..N
  BY Size, WalkSteps DEF Listable
<1>2. PICK z \in 0..N : w[z] = NULL
  BY <1>1 DEF Grounded
<1>3. k < z
  <2>1. SUFFICES ASSUME z <= k PROVE FALSE
    BY <1>1, <1>2
  <2>2. w[k] = NULL
    BY <1>1, <1>2, <2>1, WalkStaysOut
  <2>3. QED
    BY <1>1, <2>2
<1> DEFINE j == z - k
<1>4. j \in Nat /\ k + j = z /\ k + j <= N /\ j \in 0..N /\ k + 1 <= N /\ k \in Nat
  BY <1>1, <1>2, <1>3
<1> HIDE DEF j
<1>5. Walk(link, w[k])[j] = w[k + j]
  BY <1>4, WalkOn
<1>6. Walk(link, w[k])[j] = NULL
  BY <1>2, <1>4, <1>5
<1>7. DOMAIN Walk(link, w[k]) = 0..N
  BY WalkSteps
<1>8. QED
  BY <1>4, <1>6, <1>7 DEF Grounded

\* A walk is the same as long as the links on it are.
LEMMA SameWalk ==
  ASSUME NEW S, Listable(S), NEW link, Linked(S, link), NEW c, Linked(S, c), NEW x \in S,
         NEW n \in 0..Cardinality(S),
         \A k \in 0..Cardinality(S) :
           k < n /\ Walk(link, x)[k] \in S => c[Walk(link, x)[k]] = link[Walk(link, x)[k]]
  PROVE  \A k \in 0..n : Walk(c, x)[k] = Walk(link, x)[k]
<1> DEFINE N == Cardinality(S)
           w == Walk(link, x)
           v == Walk(c, x)
           G == {k \in 0..n : v[k] = w[k]}
<1>1. /\ N \in Nat /\ w \in [0..N -> S \cup {NULL}] /\ n \in 0..N
      /\ w[0] = x /\ v[0] = x
      /\ \A i \in 1..N : w[i] = IF w[i - 1] = NULL THEN NULL ELSE link[w[i - 1]]
      /\ \A i \in 1..N : v[i] = IF v[i - 1] = NULL THEN NULL ELSE c[v[i - 1]]
  BY Size, WalkSteps
<1>2. \A k \in 0..N : k < n /\ w[k] \in S => c[w[k]] = link[w[k]]
  OBVIOUS
<1> HIDE DEF N, w, v
<1>3. 0 \in G
  BY <1>1
<1>4. ASSUME NEW k \in 0..n, k \in G, k < n
      PROVE  k + 1 \in G
  <2>1. k + 1 \in 1..N /\ k + 1 - 1 = k /\ k \in 0..N
    BY <1>1, <1>4
  <2>2. v[k] = w[k]
    BY <1>4
  <2>3. v[k + 1] = w[k + 1]
    BY <1>1, <1>2, <1>4, <2>1, <2>2
  <2>4. QED
    BY <1>4, <2>1, <2>3
<1> HIDE DEF G
<1>5. n \in Nat
  BY <1>1
<1>6. \A k \in 0..n : k \in G
  BY <1>3, <1>4, <1>5, UpTo
<1>7. QED
  BY <1>6 DEF G, v, w

\* Where the walk up from id returns to where it has been.
Returns(S, link, id) ==
  {n \in 0..Cardinality(S) : /\ Walk(link, id)[n] # NULL
                             /\ \E m \in 0..(n - 1) : Walk(link, id)[m] = Walk(link, id)[n]}

LEMMA MinOfSome ==
  ASSUME NEW T \in SUBSET Nat, T # {}
  PROVE  Min(T) \in T /\ \A q \in T : Min(T) <= q
<1>1. PICK m \in T : \A q \in T : m <= q
  BY LeastOfNaturals
<1>2. QED
  BY <1>1 DEF Min

LEMMA CutFromIs ==
  ASSUME NEW S, Listable(S), NEW link, Linked(S, link), NEW id \in S
  PROVE  CutFrom(link, id) =
           IF Returns(S, link, id) = {} THEN link
           ELSE [link EXCEPT ![Walk(link, id)[Min(Returns(S, link, id)) - 1]] = NULL]
<1> DEFINE at == Walk(link, id)
           returns == {n \in DOMAIN at : at[n] # NULL /\ \E m \in 0..(n - 1) : at[m] = at[n]}
<1>1. CutFrom(link, id) = IF returns = {} THEN link ELSE [link EXCEPT ![at[Min(returns) - 1]] = NULL]
  BY DEF CutFrom
<1>2. DOMAIN at = 0..Cardinality(S)
  BY WalkSteps
<1> HIDE DEF at
<1>3. returns = {n \in 0..Cardinality(S) : at[n] # NULL /\ \E m \in 0..(n - 1) : at[m] = at[n]}
  BY <1>2
<1> HIDE DEF returns
<1>4. returns = Returns(S, link, id)
  BY <1>3 DEF Returns, at
<1>5. QED
  BY <1>1, <1>4 DEF at

\* A walk that nowhere returns comes to an end: there are not so many ids.
LEMMA NoReturnGrounds ==
  ASSUME NEW S, Listable(S), NEW link, Linked(S, link), NEW id \in S,
         Returns(S, link, id) = {}
  PROVE  Grounded(link, id)
<1> DEFINE N == Cardinality(S)
           w == Walk(link, id)
<1>1. N \in Nat /\ w \in [0..N -> S \cup {NULL}] /\ IsFiniteSet(S)
  BY Size, WalkSteps DEF Listable
<1>2. SUFFICES ASSUME \A n \in 0..N : w[n] # NULL PROVE FALSE
  BY <1>1 DEF Grounded
<1> HIDE DEF w
<1>3. w \in [0..N -> S]
  BY <1>1, <1>2
<1>4. IsFiniteSet(0..N) /\ Cardinality(0..N) = N + 1
  BY <1>1, FS_Interval
<1>5. Cardinality(S) < Cardinality(0..N)
  BY <1>1, <1>4
<1>6. PICK i, j \in 0..N : i # j /\ w[i] = w[j]
  BY <1>1, <1>3, <1>4, <1>5, FS_PigeonHole
<1>7. PICK m, n \in 0..N : m < n /\ w[m] = w[n]
  <2>1. i < j \/ j < i
    BY <1>1, <1>6
  <2>2. QED
    BY <1>6, <2>1
<1>8. m \in 0..(n - 1) /\ w[n] # NULL
  BY <1>1, <1>2, <1>7
<1>9. n \in Returns(S, link, id)
  BY <1>7, <1>8 DEF Returns, w
<1>10. QED
  BY <1>9

-----------------------------------------------------------------------------
(***************************************************************************)
(* The cut of the links that close a cycle.                                *)
(***************************************************************************)

\* The link up from x has been cut, and closed a cycle: its end is under x.
CutLoose(S, link, c, x) ==
  /\ c[x] = NULL /\ link[x] \in S
  /\ Grounded(c, link[x])
  /\ \E n \in 0..Cardinality(S) : Walk(c, link[x])[n] = x

\* A walk of one step.
LEMMA FirstStep ==
  ASSUME NEW S, Listable(S), NEW link, Linked(S, link), NEW x \in S
  PROVE  1 <= Cardinality(S) /\ Walk(link, x)[1] = link[x]
<1>1. IsFiniteSet(S) /\ S # {} /\ Cardinality(S) \in Nat /\ NULL \notin S
  BY Size DEF Listable
<1>2. Cardinality(S) # 0
  BY <1>1, FS_EmptySet
<1>3. 1 \in 1..Cardinality(S)
  BY <1>1, <1>2
<1>4. Walk(link, x)[1] = IF Walk(link, x)[1 - 1] = NULL THEN NULL ELSE link[Walk(link, x)[1 - 1]]
  BY <1>3, WalkSteps
<1>5. Walk(link, x)[0] = x
  BY WalkSteps
<1>6. QED
  BY <1>1, <1>3, <1>4, <1>5

LEMMA CutFromGrounds ==
  ASSUME NEW S, Listable(S), NEW link, Linked(S, link), NEW id \in S
  PROVE  /\ Linked(S, CutFrom(link, id))
         /\ Grounded(CutFrom(link, id), id)
         /\ \A x \in S : \/ CutFrom(link, id)[x] = link[x]
                         \/ CutLoose(S, link, CutFrom(link, id), x)
         /\ \A x \in S : Grounded(link, x) =>
              /\ Grounded(CutFrom(link, id), x)
              /\ Walk(CutFrom(link, id), x) = Walk(link, x)
<1> DEFINE N == Cardinality(S)
           w == Walk(link, id)
           c == CutFrom(link, id)
           R == Returns(S, link, id)
<1>1. N \in Nat /\ w \in [0..N -> S \cup {NULL}] /\ IsFiniteSet(S) /\ NULL \notin S
  BY Size, WalkSteps DEF Listable
<1>2. CASE R = {}
  <2>1. c = link
    BY <1>2, CutFromIs
  <2>2. Grounded(link, id)
    BY <1>2, NoReturnGrounds
  <2> HIDE DEF c
  <2>3. QED
    BY <2>1, <2>2 DEF c
<1>3. CASE R # {}
  <2> DEFINE r == Min(R)
             y == w[r - 1]
  <2>1. R \in SUBSET Nat
    BY <1>1 DEF Returns
  <2>2. r \in R /\ \A q \in R : r <= q
    BY <1>3, <2>1, MinOfSome
  <2>3. c = [link EXCEPT ![y] = NULL]
    BY <1>3, CutFromIs
  <2> HIDE DEF r, c
  <2>4. /\ r \in 0..N /\ w[r] # NULL
        /\ \E m \in 0..(r - 1) : w[m] = w[r]
    BY <2>2 DEF Returns
  <2>5. PICK m \in 0..(r - 1) : w[m] = w[r]
    BY <2>4
  <2>6. r \in 1..N /\ r - 1 \in 0..N /\ m \in 0..N /\ m \in Nat /\ m < r
    BY <1>1, <2>4, <2>5
  <2>7. w[r] \in S /\ w[m] \in S
    BY <1>1, <2>4, <2>5, <2>6
  <2>8. y \in S /\ link[y] = w[r]
    <3>1. w[r] = IF y = NULL THEN NULL ELSE link[y]
      BY <2>6, WalkSteps
    <3>2. y \in S \cup {NULL}
      BY <1>1, <2>6
    <3>3. QED
      BY <2>4, <3>1, <3>2
  <2>9. \A k \in 0..N : k < r - 1 => w[k] # y
    <3>1. SUFFICES ASSUME NEW k \in 0..N, k < r - 1, w[k] = y PROVE FALSE
      OBVIOUS
    <3>2. k \in 0..((r - 1) - 1) /\ w[r - 1] # NULL
      BY <1>1, <2>6, <2>8, <3>1
    <3>3. r - 1 \in R
      BY <2>6, <3>1, <3>2 DEF Returns
    <3>4. QED
      BY <2>2, <2>6, <3>3
  <2>10. Linked(S, c) /\ c[y] = NULL /\ \A x \in S \ {y} : c[x] = link[x]
    BY <2>3, <2>8 DEF Linked
  <2> HIDE DEF y
  \* The walk up from id goes up to y, and there it ends.
  <2>11. \A k \in 0..(r - 1) : Walk(c, id)[k] = w[k]
    <3>1. \A k \in 0..N : k < r - 1 /\ w[k] \in S => c[w[k]] = link[w[k]]
      BY <2>9, <2>10
    <3>2. QED
      BY <2>6, <2>10, <3>1, SameWalk
  <2>12. Walk(c, id)[r - 1] = y
    BY <2>6, <2>11 DEF y
  <2>13. Walk(c, id)[r] = NULL
    <3>1. Walk(c, id)[r] = IF Walk(c, id)[r - 1] = NULL THEN NULL ELSE c[Walk(c, id)[r - 1]]
      BY <2>6, <2>10, WalkSteps
    <3>2. QED
      BY <2>10, <2>12, <3>1
  <2>14. \A x \in S : DOMAIN Walk(c, x) = 0..N /\ DOMAIN Walk(link, x) = 0..N
    BY <2>10, WalkSteps
  <2>15. Grounded(c, id)
    BY <2>4, <2>13, <2>14 DEF Grounded
  <2>16. CutLoose(S, link, c, y)
    <3>1. Walk(c, id)[m] = w[m] /\ Walk(c, id)[m] \in S
      BY <2>6, <2>7, <2>11
    <3>2. Grounded(c, w[m])
      BY <2>6, <2>10, <2>15, <3>1, GroundedOn
    <3> DEFINE k == r - 1 - m
    <3>3. k \in Nat /\ m + k = r - 1 /\ m + k <= N /\ k \in 0..N
      BY <1>1, <2>6
    <3> HIDE DEF k
    <3>4. Walk(c, w[m])[k] = y
      BY <2>6, <2>10, <2>12, <3>1, <3>3, WalkOn
    <3>5. QED
      BY <2>5, <2>7, <2>8, <2>10, <3>2, <3>3, <3>4 DEF CutLoose
  \* A walk that came to its end has not been at y, from where it would have returned.
  <2>17. ASSUME NEW x \in S, Grounded(link, x)
         PROVE  Grounded(c, x) /\ Walk(c, x) = Walk(link, x)
    <3> DEFINE v == Walk(link, x)
    <3>1. v \in [0..N -> S \cup {NULL}]
      BY WalkSteps
    <3>2. ASSUME NEW k \in 0..N, v[k] = y
          PROVE  FALSE
      <4>1. Grounded(link, y)
        BY <2>8, <2>17, <3>2, GroundedOn
      <4>2. Walk(link, y)[1] = w[m] /\ 1 \in 0..N
        BY <1>1, <2>5, <2>8, FirstStep
      <4>3. Grounded(link, w[m])
        BY <2>7, <2>8, <4>1, <4>2, GroundedOn
      <4> DEFINE k1 == r - m
      <4>4. k1 \in Nat /\ m + k1 = r /\ k1 \in 0..N /\ 0 < k1 /\ 0 \in 0..N
        BY <1>1, <2>6
      <4> HIDE DEF k1
      <4>5. Walk(link, w[m])[k1] = w[r] /\ Walk(link, w[m])[0] = w[m]
        <5>1. m + k1 <= Cardinality(S)
          BY <1>1, <2>6, <4>4
        <5>2. Walk(link, w[m])[k1] = w[m + k1]
          BY <2>6, <2>7, <4>4, <5>1, WalkOn
        <5>3. QED
          BY <2>7, <4>4, <5>2, WalkSteps
      <4>6. w[m] = NULL
        BY <2>5, <2>7, <4>3, <4>4, <4>5, NoReturn
      <4>7. QED
        BY <1>1, <2>7, <4>6
    <3>3. \A k \in 0..N : k < N /\ v[k] \in S => c[v[k]] = link[v[k]]
      BY <2>10, <3>2
    <3>4. N \in 0..N
      BY <1>1
    <3>5. \A k \in 0..N : Walk(c, x)[k] = v[k]
      BY <2>10, <3>3, <3>4, SameWalk
    <3>6. Walk(c, x) \in [0..N -> S \cup {NULL}]
      BY <2>10, WalkSteps
    <3> HIDE DEF v, N
    <3>7. Walk(c, x) = v
      <4>1. v = [k \in 0..N |-> v[k]] /\ Walk(c, x) = [k \in 0..N |-> Walk(c, x)[k]]
        BY <3>1, <3>6
      <4>2. QED
        BY <3>5, <4>1
    <3>8. QED
      BY <2>17, <3>7 DEF v, Grounded
  <2>18. \A x \in S : c[x] = link[x] \/ CutLoose(S, link, c, x)
    BY <2>10, <2>16
  <2>19. QED
    BY <2>10, <2>15, <2>17, <2>18 DEF c
<1>4. QED
  BY <1>2, <1>3

-----------------------------------------------------------------------------
(***************************************************************************)
(* Sorting.                                                                *)
(***************************************************************************)

\* R orders the members of S, each before or after every other.
Orders(R, S) ==
  /\ \A a \in S : <<a, a>> \notin R
  /\ \A a, b, c \in S : <<a, b>> \in R /\ <<b, c>> \in R => <<a, c>> \in R
  /\ \A a, b \in S : a # b => <<a, b>> \in R \/ <<b, a>> \in R

Sorted(q, S, R) ==
  /\ q \in [1..Cardinality(S) -> S]
  /\ \A i, j \in 1..Cardinality(S) : i < j => <<q[i], q[j]>> \in R

LEMMA CanBeSorted ==
  ASSUME NEW S, IsFiniteSet(S), NEW R, Orders(R, S)
  PROVE  \E q : Sorted(q, S, R)
<1> DEFINE N == Cardinality(S)
           Ahead(x) == {y \in S : <<y, x>> \in R}
           place == [x \in S |-> Cardinality(Ahead(x)) + 1]
<1>1. N \in Nat
  BY FS_CardinalityType
<1>2. ASSUME NEW x \in S
      PROVE  /\ IsFiniteSet(Ahead(x)) /\ Cardinality(Ahead(x)) \in Nat
             /\ Cardinality(Ahead(x)) < N
  <2>1. Ahead(x) \in SUBSET S /\ x \notin Ahead(x)
    BY DEF Orders
  <2> HIDE DEF Ahead
  <2>2. IsFiniteSet(Ahead(x)) /\ Cardinality(Ahead(x)) <= N /\ (N = Cardinality(Ahead(x)) => S = Ahead(x))
    BY <2>1, FS_Subset
  <2>3. Cardinality(Ahead(x)) \in Nat
    BY <2>2, FS_CardinalityType
  <2>4. QED
    BY <1>1, <2>1, <2>2, <2>3
<1>3. ASSUME NEW x \in S, NEW y \in S, <<x, y>> \in R
      PROVE  Cardinality(Ahead(x)) < Cardinality(Ahead(y))
  <2>1. Ahead(x) \in SUBSET Ahead(y) /\ x \in Ahead(y) /\ x \notin Ahead(x)
    BY <1>3 DEF Orders
  <2>2. /\ IsFiniteSet(Ahead(y)) /\ Cardinality(Ahead(y)) \in Nat
        /\ Cardinality(Ahead(x)) \in Nat
    BY <1>2
  <2> HIDE DEF Ahead
  <2>3. /\ Cardinality(Ahead(x)) <= Cardinality(Ahead(y))
        /\ Cardinality(Ahead(y)) = Cardinality(Ahead(x)) => Ahead(y) = Ahead(x)
    BY <2>1, <2>2, FS_Subset
  <2>4. QED
    BY <2>1, <2>2, <2>3
<1>4. \A x \in S : place[x] = Cardinality(Ahead(x)) + 1
  OBVIOUS
<1>5. place \in [S -> 1..N]
  <2>1. \A x \in S : Cardinality(Ahead(x)) + 1 \in 1..N
    BY <1>1, <1>2
  <2>2. QED
    BY <2>1
<1> HIDE DEF place, Ahead
<1>6. \A x, y \in S : <<x, y>> \in R => place[x] < place[y]
  BY <1>2, <1>3, <1>4
<1>7. place \in Injection(S, 1..N)
  <2>1. ASSUME NEW x \in S, NEW y \in S, place[x] = place[y]
        PROVE  x = y
    <3>1. place[x] \in Nat /\ ~ (place[x] < place[y]) /\ ~ (place[y] < place[x])
      BY <1>1, <1>5, <2>1
    <3>2. QED
      BY <1>6, <3>1 DEF Orders
  <2>2. DOMAIN place = S
    BY <1>5
  <2>3. QED
    BY <1>5, <2>1, <2>2 DEF Injection, IsInjective
<1>8. place \in Surjection(S, 1..N)
  <2>1. IsFiniteSet(1..N) /\ Cardinality(1..N) = N
    BY <1>1, FS_Interval
  <2>2. QED
    BY <1>7, <2>1, FS_Injection
<1>9. \A i \in 1..N : \E x \in S : place[x] = i
  BY <1>8 DEF Surjection
<1> DEFINE q == [i \in 1..N |-> CHOOSE x \in S : place[x] = i]
<1>10. \A i \in 1..N : q[i] \in S /\ place[q[i]] = i
  BY <1>9
<1>11. q = [i \in 1..N |-> q[i]]
  OBVIOUS
<1> HIDE DEF q
<1>12. q \in [1..N -> S]
  BY <1>10, <1>11
<1>13. ASSUME NEW i \in 1..N, NEW j \in 1..N, i < j
       PROVE  <<q[i], q[j]>> \in R
  <2>1. /\ q[i] \in S /\ q[j] \in S /\ place[q[i]] = i /\ place[q[j]] = j
    BY <1>10
  <2>2. ~ (place[q[j]] < place[q[i]]) /\ q[i] # q[j]
    BY <1>1, <1>13, <2>1
  <2>3. QED
    BY <1>6, <2>1, <2>2 DEF Orders
<1>14. QED
  BY <1>12, <1>13 DEF Sorted

LEMMA SortedHasAll ==
  ASSUME NEW S, IsFiniteSet(S), NEW R, Orders(R, S), NEW q, Sorted(q, S, R)
  PROVE  /\ Cardinality(S) \in Nat
         /\ q \in [1..Cardinality(S) -> S] /\ DOMAIN q = 1..Cardinality(S) /\ Len(q) = Cardinality(S)
         /\ \A x \in S : \E i \in 1..Cardinality(S) : q[i] = x
         /\ \A i, j \in 1..Cardinality(S) : q[i] = q[j] => i = j
         /\ \A i, j \in 1..Cardinality(S) : i < j => <<q[i], q[j]>> \in R
<1> DEFINE N == Cardinality(S)
<1>1. N \in Nat
  BY FS_CardinalityType
<1>2. q \in [1..N -> S] /\ \A i, j \in 1..N : i < j => <<q[i], q[j]>> \in R
  BY DEF Sorted
<1>3. \A i, j \in 1..N : q[i] = q[j] => i = j
  <2>1. SUFFICES ASSUME NEW i \in 1..N, NEW j \in 1..N, q[i] = q[j], i < j
                 PROVE  FALSE
    BY <1>1
  <2>2. <<q[i], q[i]>> \in R /\ q[i] \in S
    BY <1>2, <2>1
  <2>3. QED
    BY <2>2 DEF Orders
<1>4. q \in Injection(1..N, S)
  BY <1>2, <1>3 DEF Injection, IsInjective
<1>5. IsFiniteSet(1..N) /\ Cardinality(1..N) = N
  BY <1>1, FS_Interval
<1>6. q \in Surjection(1..N, S)
  BY <1>4, <1>5, FS_Injection
<1>7. \A x \in S : \E i \in 1..N : q[i] = x
  BY <1>6 DEF Surjection
<1>8. Len(q) = N /\ DOMAIN q = 1..N
  BY <1>1, <1>2
<1>9. QED
  BY <1>1, <1>2, <1>3, <1>7, <1>8

LEMMA AscendingIsSorted ==
  ASSUME NEW S, Listable(S)
  PROVE  /\ Len(Ascending(S)) = Cardinality(S)
         /\ Ascending(S) \in [1..Cardinality(S) -> S]
         /\ \A x \in S : \E i \in 1..Cardinality(S) : Ascending(S)[i] = x
<1> DEFINE R == {p \in S \X S : p[1] < p[2]}
           N == Cardinality(S)
<1>1. \A a, b \in S : <<a, b>> \in R <=> a < b
  OBVIOUS
<1>2. S \subseteq Int /\ IsFiniteSet(S)
  BY DEF Listable
<1> HIDE DEF R
<1>3. Orders(R, S)
  BY <1>1, <1>2 DEF Orders
<1>4. PICK p : Sorted(p, S, R)
  BY <1>2, <1>3, CanBeSorted
<1>5. p \in [1..N -> S] /\ DOMAIN p = 1..N /\ \A i, j \in 1..N : i < j => p[i] < p[j]
  BY <1>1, <1>4 DEF Sorted
<1> DEFINE q == Ascending(S)
<1>6. q \in [1..N -> S] /\ \A i, j \in DOMAIN q : i < j => q[i] < q[j]
  BY <1>5 DEF Ascending
<1> HIDE DEF q
<1>7. Sorted(q, S, R)
  BY <1>1, <1>6 DEF Sorted
<1>8. QED
  BY <1>2, <1>3, <1>7, SortedHasAll DEF q

\* A link that has been cut loose stays so in the cuts that follow.
LEMMA StaysCutLoose ==
  ASSUME NEW S, Listable(S), NEW link, Linked(S, link), NEW c, Linked(S, c), NEW id \in S,
         NEW x \in S, c[x] = link[x] \/ CutLoose(S, link, c, x)
  PROVE  CutFrom(c, id)[x] = link[x] \/ CutLoose(S, link, CutFrom(c, id), x)
<1> DEFINE d == CutFrom(c, id)
<1>1. /\ d[x] = c[x] \/ CutLoose(S, c, d, x)
      /\ \A y \in S : Grounded(c, y) => Grounded(d, y) /\ Walk(d, y) = Walk(c, y)
  BY CutFromGrounds
<1> HIDE DEF d
<1>2. CASE c[x] = link[x]
  BY <1>1, <1>2 DEF CutLoose, d
<1>3. CASE CutLoose(S, link, c, x)
  <2>1. d[x] = NULL
    BY <1>1, <1>3 DEF CutLoose, Listable
  <2>2. QED
    BY <1>1, <1>3, <2>1 DEF CutLoose, d
<1>4. QED
  BY <1>2, <1>3

\* After the cut every walk up comes to an end, and a link that was cut had closed a cycle.
LEMMA CutGrounds ==
  ASSUME NEW S, Listable(S), NEW link, Linked(S, link)
  PROVE  /\ Linked(S, Cut(link))
         /\ \A x \in S : Grounded(Cut(link), x)
         /\ \A x \in S : Cut(link)[x] = link[x] \/ CutLoose(S, link, Cut(link), x)
<1> DEFINE N == Cardinality(S)
           ids == Ascending(S)
           A == [S -> S \cup {NULL}]
           step == [n \in 1..N |-> [c \in A |-> CutFrom(c, ids[n])]]
<1>1. N \in Nat /\ ids \in [1..N -> S] /\ Len(ids) = N
  BY Size, AscendingIsSorted
<1>2. \A x \in S : \E i \in 1..N : ids[i] = x
  BY AscendingIsSorted
<1>3. \A n \in 1..N : ids[n] \in S
  BY <1>1
<1> HIDE DEF ids
<1>4. \A c \in A, id \in S : CutFrom(c, id) \in A
  BY CutFromGrounds DEF Linked
<1>5. \A n \in 1..N : [c \in A |-> CutFrom(c, ids[n])] \in [A -> A]
  BY <1>3, <1>4
<1>6. step \in [1..N -> [A -> A]]
  BY <1>5
<1>7. \A n \in 1..N, c \in A : step[n][c] = CutFrom(c, ids[n])
  OBVIOUS
<1>8. link \in A
  BY DEF Linked
<1> HIDE DEF step, A, N
<1>9. PICK f : Iterates(f, N, A, link, step)
  BY <1>1, <1>6, <1>8, Recursion
<1>10. f = [n \in 0..N |-> IF n = 0 THEN link ELSE CutFrom(f[n - 1], ids[n])]
  <2>1. \A n \in 1..N : n - 1 \in 0..N
    BY <1>1
  <2>2. \A n \in 1..N : f[n] = CutFrom(f[n - 1], ids[n])
    BY <1>7, <1>9, <2>1 DEF Iterates
  <2>3. \A n \in 0..N : n # 0 => n \in 1..N
    BY <1>1
  <2>4. f = [n \in 0..N |-> f[n]] /\ f[0] = link
    BY <1>9 DEF Iterates
  <2>5. QED
    BY <2>2, <2>3, <2>4
<1> DEFINE cut == CHOOSE g : g = [n \in 0..N |-> IF n = 0 THEN link ELSE CutFrom(g[n - 1], ids[n])]
<1>11. DOMAIN link = S
  BY DEF Linked
<1>12. Cut(link) = cut[N]
  BY <1>1, <1>11 DEF Cut, ids
<1>13. cut = [n \in 0..N |-> IF n = 0 THEN link ELSE CutFrom(cut[n - 1], ids[n])]
  BY <1>10
<1> HIDE DEF cut
<1>14. cut[0] = link /\ \A n \in 1..N : cut[n] = CutFrom(cut[n - 1], ids[n])
  BY <1>1, <1>13
<1> DEFINE Holds(n) == /\ Linked(S, cut[n])
                       /\ \A i \in 1..n : Grounded(cut[n], ids[i])
                       /\ \A x \in S : cut[n][x] = link[x] \/ CutLoose(S, link, cut[n], x)
           G == {n \in 0..N : Holds(n)}
<1>15. 0 \in G
  BY <1>1, <1>14
<1>16. ASSUME NEW n \in 0..N, n \in G, n < N
       PROVE  n + 1 \in G
  <2>1. n + 1 \in 1..N /\ n + 1 - 1 = n
    BY <1>1, <1>16
  <2>2. Holds(n)
    BY <1>16
  <2>3. cut[n + 1] = CutFrom(cut[n], ids[n + 1]) /\ ids[n + 1] \in S
    BY <1>3, <1>14, <2>1
  <2>4. Linked(S, cut[n + 1]) /\ Grounded(cut[n + 1], ids[n + 1])
    BY <2>2, <2>3, CutFromGrounds
  <2>5. \A x \in S : Grounded(cut[n], x) => Grounded(cut[n + 1], x)
    BY <2>2, <2>3, CutFromGrounds
  <2>6. ASSUME NEW i \in 1..(n + 1)
        PROVE  Grounded(cut[n + 1], ids[i])
    <3>1. CASE i = n + 1
      BY <2>4, <3>1
    <3>2. CASE i # n + 1
      <4>1. i \in 1..n /\ i \in 1..N
        BY <1>1, <2>1, <3>2
      <4>2. QED
        BY <1>3, <2>2, <2>5, <4>1
    <3>3. QED
      BY <3>1, <3>2
  <2>7. \A x \in S : cut[n + 1][x] = link[x] \/ CutLoose(S, link, cut[n + 1], x)
    BY <2>2, <2>3, StaysCutLoose
  <2>8. n + 1 \in 0..N
    BY <2>1
  <2>9. QED
    BY <2>4, <2>6, <2>7, <2>8
<1> HIDE DEF G
<1>17. \A n \in 0..N : n \in G
  BY <1>1, <1>15, <1>16, UpTo
<1>18. N \in 0..N
  BY <1>1
<1>19. Holds(N)
  BY <1>17, <1>18 DEF G
<1>20. \A x \in S : Grounded(cut[N], x)
  BY <1>2, <1>19
<1>21. QED
  BY <1>12, <1>19, <1>20

-----------------------------------------------------------------------------
(***************************************************************************)
(* Trees.                                                                  *)
(***************************************************************************)

Forested(S, link) == Listable(S) /\ Linked(S, link) /\ \A x \in S : Grounded(link, x)

LEMMA BelowIs ==
  ASSUME NEW S, NEW link, Forested(S, link), NEW id
  PROVE  /\ Below(link, id) \subseteq S
         /\ \A x \in S : x \in Below(link, id) <=> \E n \in 0..Cardinality(S) : Walk(link, x)[n] = id
<1>1. DOMAIN link = S
  BY DEF Forested, Linked
<1>2. \A x \in S : DOMAIN Walk(link, x) = 0..Cardinality(S)
  BY WalkSteps DEF Forested
<1>3. QED
  BY <1>1, <1>2 DEF Below

\* One link further up.
LEMMA OneUp ==
  ASSUME NEW S, NEW link, Forested(S, link), NEW x \in S, NEW n \in 0..Cardinality(S),
         Walk(link, x)[n] \in S
  PROVE  n + 1 \in 0..Cardinality(S) /\ Walk(link, x)[n + 1] = link[Walk(link, x)[n]]
<1>1. n + 1 <= Cardinality(S) /\ Cardinality(S) \in Nat /\ NULL \notin S
  BY GroundedOn, Size DEF Forested, Listable
<1>2. n + 1 \in 1..Cardinality(S) /\ n + 1 - 1 = n
  BY <1>1
<1>3. QED
  BY <1>1, <1>2, WalkSteps DEF Forested

LEMMA BelowItself ==
  ASSUME NEW S, NEW link, Forested(S, link), NEW id \in S
  PROVE  id \in Below(link, id)
<1>1. Walk(link, id)[0] = id /\ 0 \in 0..Cardinality(S)
  BY WalkSteps, Size DEF Forested
<1>2. QED
  BY <1>1, BelowIs

LEMMA BelowParent ==
  ASSUME NEW S, NEW link, Forested(S, link), NEW c \in S, link[c] \in S, NEW x \in Below(link, c)
  PROVE  x \in Below(link, link[c])
<1>1. x \in S
  BY BelowIs
<1>2. PICK n \in 0..Cardinality(S) : Walk(link, x)[n] = c
  BY <1>1, BelowIs
<1>3. n + 1 \in 0..Cardinality(S) /\ Walk(link, x)[n + 1] = link[c]
  BY <1>1, <1>2, OneUp
<1>4. QED
  BY <1>1, <1>3, BelowIs

LEMMA BelowChild ==
  ASSUME NEW S, NEW link, Forested(S, link), NEW id \in S, NEW x \in Below(link, id), x # id
  PROVE  \E c \in Children(link, id) : x \in Below(link, c)
<1> DEFINE N == Cardinality(S)
           w == Walk(link, x)
           T == {n \in 0..N : w[n] = id}
<1>1. x \in S /\ N \in Nat /\ NULL \notin S
  BY BelowIs, Size DEF Forested, Listable
<1>2. T # {} /\ T \in SUBSET Nat
  BY <1>1, BelowIs
<1>3. PICK n \in T : \A q \in T : n <= q
  BY <1>2, LeastOfNaturals
<1>4. w[0] = x /\ w \in [0..N -> S \cup {NULL}]
  BY <1>1, WalkSteps DEF Forested
<1>5. n \in 1..N /\ n - 1 \in 0..N
  BY <1>1, <1>3, <1>4
<1>6. w[n] = IF w[n - 1] = NULL THEN NULL ELSE link[w[n - 1]]
  BY <1>1, <1>5, WalkSteps DEF Forested
<1>7. w[n - 1] \in S /\ link[w[n - 1]] = id
  BY <1>1, <1>3, <1>4, <1>5, <1>6
<1>8. x \in Below(link, w[n - 1])
  BY <1>1, <1>5, BelowIs
<1>9. DOMAIN link = S
  BY DEF Forested, Linked
<1>10. QED
  BY <1>7, <1>8, <1>9 DEF Children

\* The walk up from x does not come first to one and then to another of two siblings, or
\* of two roots.
LEMMA NoSiblingAbove ==
  ASSUME NEW S, NEW link, Forested(S, link), NEW c \in S, NEW d \in S, link[c] = link[d],
         NEW x \in S, NEW m \in 0..Cardinality(S), NEW n \in 0..Cardinality(S),
         Walk(link, x)[m] = c, Walk(link, x)[n] = d, m < n
  PROVE  FALSE
<1>1. m + 1 \in 0..Cardinality(S) /\ Walk(link, x)[m + 1] = link[c]
  BY OneUp
<1>2. n + 1 \in 0..Cardinality(S) /\ Walk(link, x)[n + 1] = link[d]
  BY OneUp
<1>3. Listable(S) /\ Linked(S, link) /\ Grounded(link, x) /\ m + 1 < n + 1
  BY DEF Forested
<1>4. Walk(link, x)[m + 1] = NULL
  BY <1>1, <1>2, <1>3, NoReturn
<1>5. m + 1 \in Nat /\ n \in Nat /\ m + 1 <= n /\ n <= Cardinality(S)
  BY <1>1, Size, <1>3
<1>6. Walk(link, x)[n] = NULL
  BY <1>3, <1>4, <1>5, WalkStaysOut
<1>7. QED
  BY <1>3, <1>6 DEF Listable

LEMMA TreesApart ==
  ASSUME NEW S, NEW link, Forested(S, link), NEW c \in S, NEW d \in S, link[c] = link[d],
         NEW x, x \in Below(link, c), x \in Below(link, d)
  PROVE  c = d
<1>1. x \in S
  BY BelowIs
<1>2. PICK m \in 0..Cardinality(S) : Walk(link, x)[m] = c
  BY <1>1, BelowIs
<1>3. PICK n \in 0..Cardinality(S) : Walk(link, x)[n] = d
  BY <1>1, BelowIs
<1>4. ~ (m < n) /\ ~ (n < m)
  BY <1>1, <1>2, <1>3, NoSiblingAbove
<1>5. m = n
  BY <1>4
<1>6. QED
  BY <1>2, <1>3, <1>5

LEMMA ParentNotBelow ==
  ASSUME NEW S, NEW link, Forested(S, link), NEW c \in S, link[c] \in S
  PROVE  link[c] \notin Below(link, c)
<1> DEFINE w == Walk(link, link[c])
<1>1. SUFFICES ASSUME link[c] \in Below(link, c) PROVE FALSE
  OBVIOUS
<1>2. PICK n \in 0..Cardinality(S) : w[n] = c
  BY <1>1, BelowIs
<1>3. n + 1 \in 0..Cardinality(S) /\ w[n + 1] = link[c]
  BY <1>2, OneUp
<1>4. w[0] = link[c] /\ 0 \in 0..Cardinality(S) /\ 0 < n + 1
  BY <1>2, <1>3, WalkSteps, Size DEF Forested
<1>5. w[0] = NULL
  BY <1>3, <1>4, NoReturn DEF Forested
<1>6. QED
  BY <1>4, <1>5 DEF Forested, Listable

LEMMA HasRoot ==
  ASSUME NEW S, NEW link, Forested(S, link), NEW x \in S
  PROVE  \E r \in S : link[r] = NULL /\ x \in Below(link, r)
<1> DEFINE N == Cardinality(S)
           w == Walk(link, x)
           T == {n \in 0..N : w[n] = NULL}
<1>0. Listable(S) /\ Linked(S, link) /\ NULL \notin S
  BY DEF Forested, Listable
<1>1. N \in Nat /\ w \in [0..N -> S \cup {NULL}] /\ w[0] = x
  BY <1>0, Size, WalkSteps
<1>2. T # {} /\ T \in SUBSET Nat
  BY <1>1 DEF Forested, Grounded
<1>3. PICK z \in T : \A q \in T : z <= q
  BY <1>2, LeastOfNaturals
<1>4. z \in 1..N /\ z - 1 \in 0..N /\ z - 1 < z
  <2>1. z \in 0..N /\ w[z] = NULL
    BY <1>3
  <2>2. z # 0
    BY <1>0, <1>1, <2>1
  <2>3. QED
    BY <1>1, <2>1, <2>2
<1>5. w[z - 1] \in S
  <2>1. z - 1 \notin T
    BY <1>3, <1>4
  <2>2. QED
    BY <1>1, <1>4, <2>1
<1>6. w[z] = link[w[z - 1]]
  BY <1>0, <1>4, <1>5, WalkSteps
<1>7. x \in Below(link, w[z - 1])
  BY <1>4, BelowIs
<1>8. QED
  BY <1>3, <1>5, <1>6, <1>7

\* A tree is smaller than the one it is in.
LEMMA TreeShrinks ==
  ASSUME NEW S, NEW link, Forested(S, link), NEW c \in S, link[c] \in S
  PROVE  /\ IsFiniteSet(Below(link, c)) /\ Cardinality(Below(link, c)) \in Nat
         /\ Cardinality(Below(link, link[c])) \in Nat
         /\ Cardinality(Below(link, c)) < Cardinality(Below(link, link[c]))
         /\ Cardinality(Below(link, link[c])) <= Cardinality(S)
<1>1. IsFiniteSet(S) /\ Below(link, c) \subseteq S /\ Below(link, link[c]) \subseteq S
  BY BelowIs DEF Forested, Listable
<1>2. Below(link, c) \in SUBSET Below(link, link[c])
  BY BelowParent
<1>3. Below(link, c) # Below(link, link[c])
  BY BelowItself, ParentNotBelow
<1>4. /\ IsFiniteSet(Below(link, link[c])) /\ IsFiniteSet(Below(link, c))
      /\ Cardinality(Below(link, link[c])) <= Cardinality(S)
  BY <1>1, FS_Subset
<1>5. /\ Cardinality(Below(link, c)) <= Cardinality(Below(link, link[c]))
      /\ Cardinality(Below(link, c)) # Cardinality(Below(link, link[c]))
  BY <1>2, <1>3, <1>4, FS_Subset
<1>6. Cardinality(Below(link, link[c])) \in Nat /\ Cardinality(Below(link, c)) \in Nat
  BY <1>4, FS_CardinalityType
<1>7. QED
  BY <1>4, <1>5, <1>6

-----------------------------------------------------------------------------
(***************************************************************************)
(* Lists one after the other.                                              *)
(***************************************************************************)

\* F is the n lists of ss, of which the k-th ends at off[k].
LaidOut(F, n, ss, off, E) ==
  /\ off \in [0..n -> Nat] /\ off[0] = 0
  /\ \A k \in 1..n : off[k] = off[k - 1] + Len(ss[k])
  /\ F \in Seq(E) /\ Len(F) = off[n]
  /\ \A k \in 1..n : \A j \in 1..Len(ss[k]) : F[off[k - 1] + j] = ss[k][j]

Ends(n, ss, off) ==
  /\ off \in [0..n -> Nat] /\ off[0] = 0
  /\ \A k \in 1..n : off[k] = off[k - 1] + Len(ss[k])

LEMMA HasEnds ==
  ASSUME NEW E, NEW n \in Nat, NEW ss \in [1..n -> Seq(E)]
  PROVE  \E off : Ends(n, ss, off)
<1> DEFINE step == [k \in 1..n |-> [o \in Nat |-> o + Len(ss[k])]]
<1>1. \A k \in 1..n : Len(ss[k]) \in Nat
  BY LenProperties
<1>2. step \in [1..n -> [Nat -> Nat]]
  BY <1>1
<1>3. \A k \in 1..n, o \in Nat : step[k][o] = o + Len(ss[k])
  OBVIOUS
<1> HIDE DEF step
<1>4. PICK off : Iterates(off, n, Nat, 0, step)
  BY <1>2, Recursion
<1>5. \A k \in 1..n : k - 1 \in 0..n
  OBVIOUS
<1>6. Ends(n, ss, off)
  BY <1>3, <1>4, <1>5 DEF Iterates, Ends
<1>7. QED
  BY <1>6

LEMMA EndsGrow ==
  ASSUME NEW E, NEW n \in Nat, NEW ss \in [1..n -> Seq(E)], NEW off, Ends(n, ss, off),
         NEW k \in 0..n, NEW m \in 0..n, k <= m
  PROVE  off[k] <= off[m]
<1> DEFINE G == {j \in 0..(m - k) : off[k] <= off[k + j]}
<1>1. /\ off \in [0..n -> Nat]
      /\ \A i \in 1..n : off[i] = off[i - 1] + Len(ss[i])
  BY DEF Ends
<1>2. \A i \in 1..n : Len(ss[i]) \in Nat
  BY LenProperties
<1>3. 0 \in G
  BY <1>1
<1>4. ASSUME NEW j \in 0..(m - k), j \in G, j < m - k
      PROVE  j + 1 \in G
  <2>1. k + (j + 1) \in 1..n /\ k + (j + 1) - 1 = k + j /\ k + j \in 0..n
    BY <1>4
  <2>2. off[k + (j + 1)] = off[k + j] + Len(ss[k + (j + 1)])
    BY <1>1, <2>1
  <2>3. off[k] \in Nat /\ off[k + j] \in Nat /\ off[k] <= off[k + j]
    BY <1>1, <1>4, <2>1
  <2>4. off[k] <= off[k + (j + 1)]
    BY <1>2, <2>1, <2>2, <2>3
  <2>5. QED
    BY <1>4, <2>4
<1> HIDE DEF G
<1>5. m - k \in Nat /\ m - k \in 0..(m - k) /\ k + (m - k) = m
  OBVIOUS
<1>6. m - k \in G
  BY <1>3, <1>4, <1>5, UpTo
<1>7. QED
  BY <1>5, <1>6 DEF G

LEMMA FlattenLaysOut ==
  ASSUME NEW E, NEW n \in Nat, NEW ss \in [1..n -> Seq(E)]
  PROVE  \E off : LaidOut(FlattenSeq(ss), n, ss, off, E)
<1> DEFINE A == Seq(E)
<1>1. Len(ss) = n
  OBVIOUS
<1>2. PICK off : Ends(n, ss, off)
  BY HasEnds
<1>3. /\ off \in [0..n -> Nat] /\ off[0] = 0
      /\ \A k \in 1..n : off[k] = off[k - 1] + Len(ss[k])
  BY <1>2 DEF Ends
<1>4. CASE n = 0
  <2>1. FlattenSeq(ss) = ss
    BY <1>1, <1>4 DEF FlattenSeq
  <2>2. ss \in Seq(E)
    BY <1>4
  <2>3. LaidOut(ss, n, ss, off, E)
    BY <1>1, <1>3, <1>4, <2>2 DEF LaidOut
  <2>4. QED
    BY <2>1, <2>3
<1>5. CASE n # 0
  <2> DEFINE step == [k \in 1..(n - 1) |-> [s \in A |-> s \o ss[k + 1]]]
  <2>1. n - 1 \in Nat /\ 1 \in 1..n /\ ss[1] \in A
    BY <1>5
  <2>2. \A k \in 1..(n - 1) : \A s \in A : s \o ss[k + 1] \in A
    <3>1. \A k \in 1..(n - 1) : ss[k + 1] \in A
      OBVIOUS
    <3>2. QED
      BY <3>1, ConcatProperties
  <2>3. step \in [1..(n - 1) -> [A -> A]]
    BY <2>2
  <2>4. \A k \in 1..(n - 1) : \A s \in A : step[k][s] = s \o ss[k + 1]
    OBVIOUS
  <2> HIDE DEF step, A
  <2>5. PICK f : Iterates(f, n - 1, A, ss[1], step)
    BY <2>1, <2>3, Recursion
  <2>6. /\ f \in [0..(n - 1) -> A] /\ f[0] = ss[1]
        /\ \A k \in 1..(n - 1) : f[k] = step[k][f[k - 1]]
    BY <2>5 DEF Iterates
  <2> DEFINE g == [i \in 1..n |-> f[i - 1]]
  <2>7. g = [i \in 1..n |-> IF i = 1 THEN ss[i] ELSE g[i - 1] \o ss[i]]
    <3>1. ASSUME NEW i \in 1..n, i # 1
          PROVE  g[i] = g[i - 1] \o ss[i]
      <4>1. i - 1 \in 1..(n - 1) /\ i - 1 - 1 \in 0..(n - 1) /\ i - 1 + 1 = i /\ i - 1 \in 1..n
        BY <3>1
      <4>2. f[i - 1 - 1] \in A
        BY <2>6, <4>1
      <4>3. f[i - 1] = f[i - 1 - 1] \o ss[i]
        BY <2>4, <2>6, <4>1, <4>2
      <4>4. g[i] = f[i - 1] /\ g[i - 1] = f[i - 1 - 1]
        BY <4>1
      <4>5. QED
        BY <4>3, <4>4
    <3>2. g[1] = ss[1]
      BY <2>1, <2>6
    <3>3. g = [i \in 1..n |-> g[i]]
      OBVIOUS
    <3> HIDE DEF g
    <3>4. QED
      BY <3>1, <3>2, <3>3
  <2> HIDE DEF g
  <2> DEFINE flatten == CHOOSE h : h = [i \in 1..n |-> IF i = 1 THEN ss[i] ELSE h[i - 1] \o ss[i]]
  <2>8. FlattenSeq(ss) = flatten[n]
    BY <1>1, <1>5 DEF FlattenSeq
  <2>9. flatten = [i \in 1..n |-> IF i = 1 THEN ss[i] ELSE flatten[i - 1] \o ss[i]]
    BY <2>7
  <2> HIDE DEF flatten
  <2>10. flatten[1] = ss[1] /\ \A i \in 1..n : i # 1 => flatten[i] = flatten[i - 1] \o ss[i]
    BY <2>1, <2>9
  <2> DEFINE Holds(i) == /\ flatten[i] \in Seq(E) /\ Len(flatten[i]) = off[i]
                         /\ \A k \in 1..i : \A j \in 1..Len(ss[k]) :
                              flatten[i][off[k - 1] + j] = ss[k][j]
             G == {i \in 0..(n - 1) : Holds(i + 1)}
  <2>11. 0 \in G
    <3>1. ss[1] \in Seq(E) /\ Len(ss[1]) \in Nat /\ \A k \in 1..1 : k = 1
      BY <2>1, LenProperties DEF A
    <3>2. off[1] = off[1 - 1] + Len(ss[1]) /\ off[1 - 1] = 0
      BY <1>3, <2>1
    <3>3. Holds(1)
      BY <2>10, <3>1, <3>2
    <3>4. QED
      BY <2>1, <3>3
  <2>12. ASSUME NEW i \in 0..(n - 1), i \in G, i < n - 1
         PROVE  i + 1 \in G
    <3> DEFINE m == i + 1
    <3>1. m + 1 \in 1..n /\ m + 1 # 1 /\ m + 1 - 1 = m /\ m \in 1..n /\ m \in 0..n
      BY <2>12
    <3>2. Holds(m)
      BY <2>12
    <3> HIDE DEF m
    <3>3. flatten[m + 1] = flatten[m] \o ss[m + 1]
      <4> DEFINE k == m + 1
      <4>1. k \in 1..n /\ k # 1 /\ k - 1 = m
        BY <3>1
      <4> HIDE DEF k
      <4>2. flatten[k] = flatten[k - 1] \o ss[k]
        BY <2>10, <4>1
      <4>3. flatten[k] = flatten[m] \o ss[k]
        BY <4>1, <4>2, Zenon
      <4>4. QED
        BY <4>3 DEF k
    <3>4. ss[m + 1] \in Seq(E) /\ Len(ss[m + 1]) \in Nat
      BY <3>1, LenProperties
    <3>5. /\ flatten[m + 1] \in Seq(E)
          /\ Len(flatten[m + 1]) = off[m] + Len(ss[m + 1])
          /\ \A p \in 1..(off[m] + Len(ss[m + 1])) :
               flatten[m + 1][p] = IF p <= off[m] THEN flatten[m][p] ELSE ss[m + 1][p - off[m]]
      <4>1. flatten[m] \in Seq(E) /\ Len(flatten[m]) = off[m]
        BY <3>2
      <4>2. /\ flatten[m] \o ss[m + 1] \in Seq(E)
            /\ Len(flatten[m] \o ss[m + 1]) = Len(flatten[m]) + Len(ss[m + 1])
            /\ \A p \in 1..(Len(flatten[m]) + Len(ss[m + 1])) :
                 (flatten[m] \o ss[m + 1])[p] =
                   IF p <= Len(flatten[m]) THEN flatten[m][p] ELSE ss[m + 1][p - Len(flatten[m])]
        BY <3>4, <4>1, ConcatProperties
      <4>3. QED
        BY <3>3, <4>1, <4>2
    <3>6. Len(flatten[m + 1]) = off[m + 1]
      BY <1>3, <3>1, <3>5
    <3>7. ASSUME NEW k \in 1..(m + 1), NEW j \in 1..Len(ss[k])
          PROVE  flatten[m + 1][off[k - 1] + j] = ss[k][j]
      <4>1. CASE k = m + 1
        <5>1. off[m] \in Nat /\ off[k - 1] = off[m]
          BY <1>3, <3>1, <4>1
        <5> DEFINE p == off[m] + j
        <5>2. p \in 1..(off[m] + Len(ss[m + 1])) /\ ~ (p <= off[m]) /\ p - off[m] = j
          BY <3>4, <4>1, <5>1
        <5> HIDE DEF p
        <5>3. flatten[m + 1][p] = ss[m + 1][p - off[m]]
          BY <3>5, <5>2
        <5>4. flatten[m + 1][p] = ss[m + 1][j]
          BY <5>2, <5>3, Zenon
        <5>5. QED
          BY <4>1, <5>1, <5>4 DEF p
      <4>2. CASE k # m + 1
        <5>1. k \in 1..m /\ k \in 1..n /\ k \in 0..n /\ k <= m /\ k - 1 \in 0..n
          BY <3>1, <4>2
        <5>2. off[k] <= off[m] /\ off[k] = off[k - 1] + Len(ss[k])
          BY <1>2, <1>3, <3>1, <5>1, EndsGrow
        <5>3. off[k - 1] \in Nat /\ off[m] \in Nat /\ off[k] \in Nat /\ Len(ss[k]) \in Nat
          BY <1>3, <3>1, <5>1, LenProperties
        <5>4. off[k - 1] + j \in 1..off[m]
          <6>1. off[k - 1] + Len(ss[k]) <= off[m]
            BY <5>2, Zenon
          <6>2. QED
            BY <5>3, <6>1, Within
        <5>5. off[k - 1] + j \in 1..(off[m] + Len(ss[m + 1])) /\ off[k - 1] + j <= off[m]
          BY <3>4, <5>3, <5>4
        <5>6. flatten[m + 1][off[k - 1] + j] = flatten[m][off[k - 1] + j]
          BY <3>5, <5>5
        <5>7. QED
          BY <3>2, <5>1, <5>6
      <4>3. QED
        BY <4>1, <4>2
    <3>8. Holds(m + 1)
      BY <3>5, <3>6, <3>7
    <3>9. i + 1 \in 0..(n - 1)
      BY <2>12
    <3>10. QED
      BY <3>8, <3>9 DEF m
  <2> HIDE DEF G
  <2>13. n - 1 \in 0..(n - 1) /\ n - 1 + 1 = n
    BY <2>1
  <2>14. n - 1 \in G
    BY <2>1, <2>11, <2>12, <2>13, UpTo
  <2>15. Holds(n)
    BY <2>13, <2>14 DEF G
  <2>16. LaidOut(flatten[n], n, ss, off, E)
    BY <1>3, <2>15 DEF LaidOut
  <2>17. QED
    BY <2>8, <2>16
<1>6. QED
  BY <1>4, <1>5

-----------------------------------------------------------------------------
(***************************************************************************)
(* Lists of rows.                                                          *)
(***************************************************************************)

Entry(S) == [id : S, depth : Nat]

\* The i-th row of T comes under the one that its link leads to.
Under(T, link, i) ==
  \E j \in 1..(i - 1) : /\ T[j].id = link[T[i].id]
                        /\ T[j].depth < T[i].depth
                        /\ \A k \in (j + 1)..(i - 1) : T[k].depth >= T[i].depth

\* It is one of Tops, at the depth that T begins with, or under another.
Placed(T, link, Tops, top, i) ==
  /\ T[i].depth >= top
  /\ T[i].depth = top => T[i].id \in Tops
  /\ T[i].depth > top => Under(T, link, i)

\* T lists the rows X, each once, Tops at depth top and the others under them.
Listing(T, S, link, X, Tops, top) ==
  /\ T \in Seq(Entry(S)) /\ top \in Nat
  /\ \A i, j \in 1..Len(T) : T[i].id = T[j].id => i = j
  /\ \A i \in 1..Len(T) : T[i].id \in X
  /\ \A x \in X : \E i \in 1..Len(T) : T[i].id = x
  /\ \A i \in 1..Len(T) : Placed(T, link, Tops, top, i)

LEMMA EntryFields ==
  ASSUME NEW S, NEW T \in Seq(Entry(S))
  PROVE  /\ Len(T) \in Nat /\ DOMAIN T = 1..Len(T)
         /\ \A i \in 1..Len(T) : T[i] \in Entry(S) /\ T[i].id \in S /\ T[i].depth \in Nat
<1>1. Len(T) \in Nat /\ DOMAIN T = 1..Len(T) /\ T \in [1..Len(T) -> Entry(S)]
  BY LenProperties
<1>2. \A e \in Entry(S) : e.id \in S /\ e.depth \in Nat
  BY DEF Entry
<1>3. QED
  BY <1>1, <1>2

\* U goes on after its first o as T does, d deeper.
Shifted(T, U, o, d) ==
  /\ o + Len(T) <= Len(U)
  /\ \A i \in 1..Len(T) : U[o + i].id = T[i].id /\ U[o + i].depth = T[i].depth + d

\* Which is the same to Placed.
LEMMA PlacedElsewhere ==
  ASSUME NEW S, NEW T \in Seq(Entry(S)), NEW U \in Seq(Entry(S)), NEW link, NEW Tops,
         NEW top \in Nat, NEW d \in Nat, NEW o \in Nat, Shifted(T, U, o, d),
         NEW i \in 1..Len(T), Placed(T, link, Tops, top, i)
  PROVE  Placed(U, link, Tops, top + d, o + i)
<1>1. /\ Len(T) \in Nat /\ Len(U) \in Nat
      /\ \A k \in 1..Len(T) : T[k].depth \in Nat
  BY EntryFields
<1>2. U[o + i].id = T[i].id /\ U[o + i].depth = T[i].depth + d /\ T[i].depth \in Nat
  BY <1>1 DEF Shifted
<1>3. ASSUME T[i].depth > top
      PROVE  Under(U, link, o + i)
  <2>1. Under(T, link, i)
    BY <1>3 DEF Placed
  <2>2. PICK j \in 1..(i - 1) : /\ T[j].id = link[T[i].id] /\ T[j].depth < T[i].depth
                                /\ \A k \in (j + 1)..(i - 1) : T[k].depth >= T[i].depth
    BY <2>1 DEF Under
  <2>3. j \in 1..Len(T) /\ o + j \in 1..(o + i - 1)
    <3>1. i \in Nat /\ i <= Len(T) /\ i - 1 \in Nat
      BY <1>1
    <3>2. j \in Nat /\ 1 <= j /\ j <= i - 1
      BY <3>1
    <3>3. j \in 1..Len(T)
      BY <1>1, <3>1, <3>2
    <3>4. o + j \in 1..(o + i - 1)
      BY <3>1, <3>2
    <3>5. QED
      BY <3>3, <3>4
  <2>4. U[o + j].id = T[j].id /\ U[o + j].depth = T[j].depth + d /\ T[j].depth \in Nat
    BY <1>1, <2>3 DEF Shifted
  <2>5. U[o + j].id = link[U[o + i].id] /\ U[o + j].depth < U[o + i].depth
    <3>1. T[j].id = link[T[i].id] /\ T[j].depth < T[i].depth
      BY <2>2
    <3>2. T[j].depth + d < T[i].depth + d
      <4> DEFINE a == T[j].depth
                 b == T[i].depth
      <4>1. a \in Nat /\ b \in Nat /\ a < b
        BY <1>2, <2>4, <3>1
      <4> HIDE DEF a, b
      <4>2. a + d < b + d
        BY <4>1
      <4>3. QED
        BY <4>2 DEF a, b
    <3>3. U[o + j].depth < U[o + i].depth
      BY <1>2, <2>4, <3>2, Zenon
    <3>4. U[o + j].id = link[U[o + i].id]
      BY <1>2, <2>4, <3>1, Zenon
    <3>5. QED
      BY <3>3, <3>4
  <2>6. ASSUME NEW k \in (o + j + 1)..(o + i - 1)
        PROVE  U[k].depth >= U[o + i].depth
    <3> DEFINE m == k - o
    <3>1. m \in (j + 1)..(i - 1) /\ m \in 1..Len(T) /\ o + m = k
      <4>1. j \in Nat /\ i \in Nat /\ k \in Int /\ o + j + 1 <= k /\ k <= o + i - 1
        BY <1>1, <2>3, <2>6
      <4>2. m \in (j + 1)..(i - 1) /\ o + m = k
        BY <4>1
      <4>3. m \in 1..Len(T)
        BY <1>1, <4>1, <4>2
      <4>4. QED
        BY <4>2, <4>3
    <3> HIDE DEF m
    <3>2. T[m].depth >= T[i].depth /\ T[m].depth \in Nat
      BY <1>1, <2>2, <3>1
    <3>3. U[o + m].depth = T[m].depth + d
      BY <3>1 DEF Shifted
    <3>4. U[k].depth = T[m].depth + d
      BY <3>1, <3>3, Zenon
    <3>5. T[m].depth + d >= T[i].depth + d
      BY <1>2, <3>2
    <3>6. QED
      BY <1>2, <3>4, <3>5, Zenon
  <2> DEFINE n == o + i
             p == o + j
  <2>7. p \in 1..(n - 1) /\ \A k \in (p + 1)..(n - 1) : U[k].depth >= U[n].depth
    BY <2>3, <2>6
  <2>8. U[p].id = link[U[n].id] /\ U[p].depth < U[n].depth
    BY <2>5
  <2> HIDE DEF n, p
  <2>9. Under(U, link, n)
    BY <2>7, <2>8 DEF Under
  <2>10. QED
    BY <2>9 DEF n
<1>4. T[i].depth >= top /\ (T[i].depth = top => T[i].id \in Tops)
  BY DEF Placed
<1> DEFINE m == o + i
<1>5. U[m].depth = T[i].depth + d /\ U[m].id = T[i].id /\ (T[i].depth > top => Under(U, link, m))
  BY <1>2, <1>3
<1> HIDE DEF m
<1>6. U[m].depth >= top + d
  BY <1>2, <1>4, <1>5
<1>7. U[m].depth = top + d => U[m].id \in Tops
  BY <1>2, <1>4, <1>5
<1>8. U[m].depth > top + d => Under(U, link, m)
  BY <1>2, <1>5
<1>9. Placed(U, link, Tops, top + d, m)
  BY <1>6, <1>7, <1>8 DEF Placed
<1>10. QED
  BY <1>9 DEF m

LEMMA DeeperListing ==
  ASSUME NEW S, NEW link, NEW X, NEW Tops, NEW top, NEW T, Listing(T, S, link, X, Tops, top)
  PROVE  Listing(Deeper(T), S, link, X, Tops, top + 1)
<1> DEFINE U == Deeper(T)
<1>1. T \in Seq(Entry(S)) /\ top \in Nat
  BY DEF Listing
<1>2. Len(T) \in Nat /\ DOMAIN T = 1..Len(T) /\ \A i \in 1..Len(T) : T[i] \in Entry(S)
  BY <1>1, EntryFields
<1>3. \A e \in Entry(S) : /\ [e EXCEPT !.depth = @ + 1] \in Entry(S)
                          /\ [e EXCEPT !.depth = @ + 1].id = e.id
                          /\ [e EXCEPT !.depth = @ + 1].depth = e.depth + 1
  BY DEF Entry
<1>4. U = [i \in 1..Len(T) |-> [T[i] EXCEPT !.depth = @ + 1]]
  BY <1>2 DEF Deeper
<1> HIDE DEF U
<1>5. \A i \in 1..Len(T) : U[i] \in Entry(S) /\ U[i].id = T[i].id /\ U[i].depth = T[i].depth + 1
  BY <1>2, <1>3, <1>4
<1>6. U \in Seq(Entry(S)) /\ Len(U) = Len(T)
  <2>1. U \in [1..Len(T) -> Entry(S)]
    BY <1>4, <1>5
  <2>2. QED
    BY <1>2, <2>1
<1>7. ASSUME NEW i \in 1..Len(T)
      PROVE  Placed(U, link, Tops, top + 1, i)
  <2>1. Placed(T, link, Tops, top, i)
    BY <1>7 DEF Listing
  <2>2. \A k \in 1..Len(T) : U[0 + k].id = T[k].id /\ U[0 + k].depth = T[k].depth + 1
    BY <1>5
  <2>3. 0 + Len(T) <= Len(U) /\ 0 + i = i /\ 1 \in Nat /\ 0 \in Nat
    BY <1>2, <1>6
  <2>4. Placed(U, link, Tops, top + 1, 0 + i)
    BY <1>1, <1>6, <2>1, <2>2, <2>3, PlacedElsewhere DEF Shifted
  <2>5. QED
    BY <2>3, <2>4
<1>8. /\ \A i, j \in 1..Len(U) : U[i].id = U[j].id => i = j
      /\ \A i \in 1..Len(U) : U[i].id \in X
      /\ \A x \in X : \E i \in 1..Len(U) : U[i].id = x
  BY <1>5, <1>6 DEF Listing
<1>9. \A i \in 1..Len(U) : Placed(U, link, Tops, top + 1, i)
  BY <1>6, <1>7
<1>10. top + 1 \in Nat
  BY <1>1
<1>11. QED
  BY <1>6, <1>8, <1>9, <1>10 DEF Listing, U

\* Each of n lists is a Listing, of rows that no other lists.
Listings(n, ss, S, link, X, Tops, top) ==
  /\ ss \in [1..n -> Seq(Entry(S))] /\ top \in Nat
  /\ \A k \in 1..n : Listing(ss[k], S, link, X[k], Tops, top)
  /\ \A k, m \in 1..n : k # m => X[k] \cap X[m] = {}

\* Of two rows of F the later is in the same part as the earlier, or in one that comes after.
InParts(F, n, X) ==
  \A p, q \in 1..Len(F) : p <= q =>
    \E k, m \in 1..n : k <= m /\ F[p].id \in X[k] /\ F[q].id \in X[m]

\* The p-th row of F is in the k-th part.
InPart(F, ss, off, p, k) == \E j \in 1..Len(ss[k]) : p = off[k - 1] + j /\ F[p] = ss[k][j]

LEMMA PartOf ==
  ASSUME NEW E, NEW n \in Nat, NEW ss \in [1..n -> Seq(E)], NEW F, NEW off,
         LaidOut(F, n, ss, off, E), NEW p \in 1..Len(F)
  PROVE  \E k \in 1..n : InPart(F, ss, off, p, k)
<1> DEFINE T == {k \in 0..n : p <= off[k]}
<1>1. /\ off \in [0..n -> Nat] /\ off[0] = 0 /\ Len(F) = off[n]
      /\ \A k \in 1..n : off[k] = off[k - 1] + Len(ss[k])
      /\ \A k \in 1..n : \A j \in 1..Len(ss[k]) : F[off[k - 1] + j] = ss[k][j]
  BY DEF LaidOut
<1>2. n \in 0..n /\ off[n] \in Nat /\ p \in Nat /\ p >= 1
  BY <1>1
<1>3. T \in SUBSET Nat /\ T # {}
  <2>1. p <= Len(F)
    BY <1>1, <1>2
  <2>2. p <= off[n]
    BY <1>1, <2>1, Zenon
  <2>3. n \in T
    BY <1>2, <2>2
  <2>4. T \in SUBSET Nat
    OBVIOUS
  <2> HIDE DEF T
  <2>5. QED
    BY <2>3, <2>4
<1>4. PICK k \in T : \A q \in T : k <= q
  BY <1>3, LeastOfNaturals
<1>5. k \in 1..n /\ k - 1 \in 0..n /\ p <= off[k]
  BY <1>1, <1>2, <1>4
<1>6. ~ (p <= off[k - 1])
  BY <1>4, <1>5
<1>7. off[k - 1] \in Nat /\ Len(ss[k]) \in Nat /\ off[k] = off[k - 1] + Len(ss[k])
  BY <1>1, <1>5, LenProperties
<1> DEFINE j == p - off[k - 1]
<1>8. j \in 1..Len(ss[k]) /\ p = off[k - 1] + j
  BY <1>2, <1>5, <1>6, <1>7
<1> HIDE DEF j
<1>9. F[off[k - 1] + j] = ss[k][j]
  BY <1>1, <1>5, <1>8
<1>10. F[p] = ss[k][j]
  BY <1>8, <1>9, Zenon
<1>11. QED
  BY <1>5, <1>8, <1>10 DEF InPart

LEMMA FlattenListing ==
  ASSUME NEW S, NEW link, NEW n \in Nat, NEW ss, NEW X, NEW Tops, NEW top,
         Listings(n, ss, S, link, X, Tops, top)
  PROVE  /\ Listing(FlattenSeq(ss), S, link, UNION {X[k] : k \in 1..n}, Tops, top)
         /\ InParts(FlattenSeq(ss), n, X)
<1> DEFINE E == Entry(S)
           F == FlattenSeq(ss)
           All == UNION {X[k] : k \in 1..n}
<1>1. ss \in [1..n -> Seq(E)] /\ top \in Nat
  BY DEF Listings
<1>2. PICK off : LaidOut(F, n, ss, off, E)
  BY <1>1, FlattenLaysOut
<1>3. Ends(n, ss, off) /\ F \in Seq(E) /\ Len(F) = off[n]
  BY <1>2 DEF LaidOut, Ends
<1>4. /\ off \in [0..n -> Nat]
      /\ \A k \in 1..n : off[k] = off[k - 1] + Len(ss[k])
      /\ \A k \in 1..n : \A j \in 1..Len(ss[k]) : F[off[k - 1] + j] = ss[k][j]
  BY <1>2 DEF LaidOut
<1>5. \A k \in 1..n : Listing(ss[k], S, link, X[k], Tops, top) /\ Len(ss[k]) \in Nat
  BY <1>1, LenProperties DEF Listings
<1> HIDE DEF E, F
<1>6. \A p \in 1..Len(F) : \E k \in 1..n : InPart(F, ss, off, p, k)
  BY <1>1, <1>2, PartOf
<1>7. ASSUME NEW k \in 1..n, NEW j \in 1..Len(ss[k])
      PROVE  off[k - 1] + j \in 1..Len(F)
  <2>1. k \in 0..n /\ k - 1 \in 0..n /\ n \in 0..n /\ k <= n
    OBVIOUS
  <2>2. off[k] <= off[n]
    BY <1>1, <1>3, <2>1, EndsGrow
  <2>3. off[k - 1] \in Nat /\ off[k] \in Nat /\ off[n] \in Nat /\ Len(ss[k]) \in Nat
        /\ off[k] = off[k - 1] + Len(ss[k])
    BY <1>4, <1>5, <2>1
  <2>4. off[k - 1] + Len(ss[k]) <= Len(F) /\ Len(F) \in Nat
    BY <1>3, <2>2, <2>3, Zenon
  <2>5. QED
    BY <2>3, <2>4, Within
\* A part that comes earlier in the list comes earlier among the parts.
<1>8. ASSUME NEW k \in 1..n, NEW m \in 1..n, NEW i \in 1..Len(ss[k]), NEW j \in 1..Len(ss[m]),
             off[k - 1] + i <= off[m - 1] + j
      PROVE  k <= m
  <2>1. SUFFICES ASSUME m < k PROVE FALSE
    OBVIOUS
  <2>2. m \in 0..n /\ k - 1 \in 0..n /\ m <= k - 1 /\ m - 1 \in 0..n
    BY <2>1
  <2>3. off[m] <= off[k - 1]
    BY <1>1, <1>3, <2>2, EndsGrow
  <2>4. off[m] = off[m - 1] + Len(ss[m]) /\ off[m - 1] \in Nat /\ off[k - 1] \in Nat
        /\ Len(ss[m]) \in Nat /\ Len(ss[k]) \in Nat
    BY <1>4, <1>5, <2>2
  <2>5. off[m - 1] + Len(ss[m]) <= off[k - 1]
    BY <2>3, <2>4, Zenon
  <2>6. off[m - 1] + j \in 1..off[k - 1]
    BY <2>4, <2>5, Within
  <2>7. i \in Nat /\ i >= 1 /\ off[m - 1] + j \in Nat /\ off[m - 1] + j <= off[k - 1]
    BY <2>4, <2>6
  <2>8. QED
    BY <1>8, <2>4, <2>7, Beyond
<1>9. \A p \in 1..Len(F) :
        \E k \in 1..n : \E j \in 1..Len(ss[k]) :
          p = off[k - 1] + j /\ F[p] = ss[k][j] /\ F[p].id \in X[k]
  <2>1. SUFFICES ASSUME NEW p \in 1..Len(F)
                 PROVE  \E k \in 1..n : \E j \in 1..Len(ss[k]) :
                          p = off[k - 1] + j /\ F[p] = ss[k][j] /\ F[p].id \in X[k]
    OBVIOUS
  <2>2. PICK k \in 1..n : InPart(F, ss, off, p, k)
    BY <1>6
  <2>3. PICK j \in 1..Len(ss[k]) : p = off[k - 1] + j /\ F[p] = ss[k][j]
    BY <2>2 DEF InPart
  <2>4. ss[k][j].id \in X[k]
    BY <1>5 DEF Listing
  <2>5. QED
    BY <2>3, <2>4
<1>10. InParts(F, n, X)
  <2>1. SUFFICES ASSUME NEW p \in 1..Len(F), NEW q \in 1..Len(F), p <= q
                 PROVE  \E k, m \in 1..n : k <= m /\ F[p].id \in X[k] /\ F[q].id \in X[m]
    BY DEF InParts
  <2>2. PICK k \in 1..n : \E i \in 1..Len(ss[k]) : p = off[k - 1] + i /\ F[p].id \in X[k]
    BY <1>9
  <2>3. PICK m \in 1..n : \E j \in 1..Len(ss[m]) : q = off[m - 1] + j /\ F[q].id \in X[m]
    BY <1>9
  <2>4. k <= m
    BY <1>8, <2>1, <2>2, <2>3
  <2>5. QED
    BY <2>2, <2>3, <2>4
<1>11. ASSUME NEW p \in 1..Len(F), NEW q \in 1..Len(F), F[p].id = F[q].id
       PROVE  p = q
  <2>1. PICK k \in 1..n : \E i \in 1..Len(ss[k]) :
          p = off[k - 1] + i /\ F[p] = ss[k][i] /\ F[p].id \in X[k]
    BY <1>9
  <2>2. PICK m \in 1..n : \E j \in 1..Len(ss[m]) :
          q = off[m - 1] + j /\ F[q] = ss[m][j] /\ F[q].id \in X[m]
    BY <1>9
  <2>3. k = m
    BY <1>11, <2>1, <2>2 DEF Listings
  <2>4. PICK i \in 1..Len(ss[k]) : p = off[k - 1] + i /\ F[p] = ss[k][i]
    BY <2>1
  <2>5. PICK j \in 1..Len(ss[k]) : q = off[k - 1] + j /\ F[q] = ss[k][j]
    BY <2>2, <2>3
  <2>6. i = j
    BY <1>5, <1>11, <2>4, <2>5 DEF Listing
  <2>7. QED
    BY <2>4, <2>5, <2>6
<1>12. \A p \in 1..Len(F) : F[p].id \in All
  BY <1>9
<1>13. \A x \in All : \E p \in 1..Len(F) : F[p].id = x
  <2>1. SUFFICES ASSUME NEW k \in 1..n, NEW x \in X[k]
                 PROVE  \E p \in 1..Len(F) : F[p].id = x
    OBVIOUS
  <2>2. PICK j \in 1..Len(ss[k]) : ss[k][j].id = x
    BY <1>5 DEF Listing
  <2>3. off[k - 1] + j \in 1..Len(F) /\ F[off[k - 1] + j] = ss[k][j]
    BY <1>4, <1>7
  <2>4. QED
    BY <2>2, <2>3
<1>14. ASSUME NEW p \in 1..Len(F)
       PROVE  Placed(F, link, Tops, top, p)
  <2>0. PICK k \in 1..n : \E i \in 1..Len(ss[k]) : p = off[k - 1] + i
    BY <1>9
  <2>1. PICK i \in 1..Len(ss[k]) : p = off[k - 1] + i
    BY <2>0
  <2> DEFINE o == off[k - 1]
  <2>2. k - 1 \in 0..n /\ n \in 0..n /\ k \in 0..n /\ k <= n
    OBVIOUS
  <2>3. o \in Nat /\ o + Len(ss[k]) = off[k] /\ off[k] <= off[n]
    BY <1>1, <1>3, <1>4, <2>2, EndsGrow
  <2>4. \A j \in 1..Len(ss[k]) : F[o + j] = ss[k][j]
    BY <1>4
  <2> HIDE DEF o
  <2>5. o + Len(ss[k]) <= Len(F)
    BY <1>3, <2>3, Zenon
  <2>6. ss[k] \in Seq(Entry(S)) /\ F \in Seq(Entry(S)) /\ Placed(ss[k], link, Tops, top, i)
    BY <1>1, <1>3, <1>5 DEF Listing, E
  <2>7. \A j \in 1..Len(ss[k]) : F[o + j].id = ss[k][j].id /\ F[o + j].depth = ss[k][j].depth + 0
    BY <2>4, <2>6, EntryFields
  <2>8. Placed(F, link, Tops, top + 0, o + i)
    BY <1>1, <2>3, <2>5, <2>6, <2>7, PlacedElsewhere DEF Shifted
  <2>9. top + 0 = top
    BY <1>1
  <2>10. QED
    BY <2>1, <2>8, <2>9 DEF o
<1>15. Listing(F, S, link, All, Tops, top)
  BY <1>1, <1>3, <1>11, <1>12, <1>13, <1>14 DEF Listing, E
<1>16. QED
  BY <1>10, <1>15 DEF F

\* A row before the list of the rows under it.
LEMMA RootListing ==
  ASSUME NEW S, NEW link, NEW X, NEW Tops, NEW F, Listing(F, S, link, X, Tops, 1),
         NEW id \in S, id \notin X, \A t \in Tops : link[t] = id
  PROVE  Listing(<<[id |-> id, depth |-> 0]>> \o F, S, link, X \cup {id}, {id}, 0)
<1> DEFINE e == [id |-> id, depth |-> 0]
           L == <<e>> \o F
<1>1. F \in Seq(Entry(S)) /\ Len(F) \in Nat /\ \A i \in 1..Len(F) : F[i].depth \in Nat
  BY EntryFields DEF Listing
<1>2. e \in Entry(S) /\ e.id = id /\ e.depth = 0
  BY DEF Entry
<1> HIDE DEF e
<1>3. <<e>> \in Seq(Entry(S)) /\ Len(<<e>>) = 1 /\ <<e>>[1] = e
  BY <1>2
<1>4. /\ L \in Seq(Entry(S)) /\ Len(L) = Len(<<e>>) + Len(F)
      /\ \A i \in 1..(Len(<<e>>) + Len(F)) :
           L[i] = IF i <= Len(<<e>>) THEN <<e>>[i] ELSE F[i - Len(<<e>>)]
  BY <1>1, <1>3, ConcatProperties
<1> HIDE DEF L
<1>5. Len(L) = 1 + Len(F) /\ L[1] = e
  BY <1>1, <1>3, <1>4
<1>6. ASSUME NEW i \in 1..Len(F)
      PROVE  L[1 + i] = F[i]
  <2> DEFINE j == 1 + i
  <2>1. j \in 1..(1 + Len(F)) /\ ~ (j <= 1) /\ j - 1 = i
    BY <1>1
  <2> HIDE DEF j
  <2>2. L[j] = F[j - 1]
    BY <1>3, <1>4, <2>1
  <2>3. L[j] = F[i]
    BY <2>1, <2>2, Zenon
  <2>4. QED
    BY <2>3 DEF j
<1>7. ASSUME NEW p \in 1..Len(L), p # 1
      PROVE  \E i \in 1..Len(F) : p = 1 + i /\ L[p] = F[i] /\ F[i].id \in X
  <2> DEFINE i == p - 1
  <2>1. i \in 1..Len(F) /\ p = 1 + i
    BY <1>1, <1>5, <1>7
  <2> HIDE DEF i
  <2>2. L[p] = F[i] /\ F[i].id \in X
    BY <1>6, <2>1 DEF Listing
  <2>3. QED
    BY <2>1, <2>2
<1>8. ASSUME NEW p \in 1..Len(L), NEW q \in 1..Len(L), L[p].id = L[q].id
      PROVE  p = q
  <2>1. CASE p = 1 \/ q = 1
    BY <1>2, <1>5, <1>7, <1>8, <2>1
  <2>2. CASE p # 1 /\ q # 1
    <3>1. PICK i \in 1..Len(F) : p = 1 + i /\ L[p] = F[i]
      BY <1>7, <2>2
    <3>2. PICK j \in 1..Len(F) : q = 1 + j /\ L[q] = F[j]
      BY <1>7, <2>2
    <3>3. i = j
      BY <1>8, <3>1, <3>2 DEF Listing
    <3>4. QED
      BY <3>1, <3>2, <3>3
  <2>3. QED
    BY <2>1, <2>2
<1>9. \A p \in 1..Len(L) : L[p].id \in X \cup {id}
  BY <1>2, <1>5, <1>7
<1>10. 1 \in 1..Len(L) /\ \A i \in 1..Len(F) : 1 + i \in 1..Len(L)
  BY <1>1, <1>5
<1>11. \A x \in X \cup {id} : \E p \in 1..Len(L) : L[p].id = x
  <2>1. \A x \in X : \E i \in 1..Len(F) : F[i].id = x
    BY DEF Listing
  <2>2. QED
    BY <1>2, <1>5, <1>6, <1>10, <2>1
<1>12. Placed(L, link, {id}, 0, 1)
  BY <1>2, <1>5 DEF Placed
<1>13. ASSUME NEW i \in 1..Len(F)
       PROVE  Placed(L, link, {id}, 0, 1 + i)
  <2>1. Placed(F, link, Tops, 1, i) /\ F[i].depth \in Nat
    BY <1>1 DEF Listing
  <2>2. L[1 + i] = F[i] /\ F[i].depth >= 1
    BY <1>6, <2>1 DEF Placed
  <2> DEFINE p == 1 + i
  <2>3. p \in 1..Len(L) /\ 1 \in 1..(p - 1)
    BY <1>1, <1>5
  <2>4. CASE F[i].depth = 1
    <3>1. link[F[i].id] = id
      BY <2>1, <2>4 DEF Placed
    <3>2. \A k \in 2..(p - 1) : L[k].depth >= 1
      <4>1. SUFFICES ASSUME NEW k \in 2..(p - 1) PROVE L[k].depth >= 1
        OBVIOUS
      <4>2. k \in 1..Len(L) /\ k # 1
        BY <1>1, <2>3
      <4>3. PICK j \in 1..Len(F) : L[k] = F[j]
        BY <1>7, <4>2
      <4>4. F[j].depth >= 1
        BY DEF Listing, Placed
      <4>5. QED
        BY <4>3, <4>4
    <3> HIDE DEF p
    <3>3. L[p].depth = 1 /\ L[p].id = F[i].id
      BY <2>2, <2>4 DEF p
    <3>4. Under(L, link, p)
      <4>1. L[1].id = link[L[p].id] /\ L[1].depth < L[p].depth
        BY <1>2, <1>5, <3>1, <3>3
      <4>2. \A k \in (1 + 1)..(p - 1) : L[k].depth >= L[p].depth
        BY <3>2, <3>3
      <4>3. QED
        BY <2>3, <4>1, <4>2 DEF Under
    <3>5. QED
      BY <3>3, <3>4 DEF Placed, p
  <2>5. CASE F[i].depth # 1
    <3>1. F[i].depth > 1
      BY <2>1, <2>2, <2>5
    <3>2. \A k \in 1..Len(F) : L[1 + k].id = F[k].id /\ L[1 + k].depth = F[k].depth + 0
      BY <1>1, <1>6
    <3>3. Placed(L, link, Tops, 1 + 0, 1 + i)
      <4>1. 1 + Len(F) <= Len(L) /\ 1 \in Nat /\ 0 \in Nat
        BY <1>1, <1>5
      <4>2. QED
        BY <1>1, <1>4, <2>1, <3>2, <4>1, PlacedElsewhere DEF Shifted
    <3>4. Under(L, link, 1 + i)
      BY <2>1, <2>2, <3>1, <3>3 DEF Placed
    <3>5. QED
      BY <2>1, <2>2, <3>1, <3>4 DEF Placed
  <2>6. QED
    BY <2>4, <2>5
<1>14. \A p \in 1..Len(L) : Placed(L, link, {id}, 0, p)
  BY <1>7, <1>12, <1>13
<1>15. QED
  BY <1>4, <1>8, <1>9, <1>11, <1>14 DEF Listing, L, e

-----------------------------------------------------------------------------
(***************************************************************************)
(* The order of siblings.                                                  *)
(***************************************************************************)

LEMMA MaxOfFinite ==
  ASSUME NEW T, IsFiniteSet(T), T \subseteq Int, T # {}
  PROVE  Max(T) \in T /\ \A q \in T : Max(T) >= q
<1> DEFINE R == {p \in T \X T : p[1] > p[2]}
           N == Cardinality(T)
<1>1. \A a, b \in T : <<a, b>> \in R <=> a > b
  OBVIOUS
<1> HIDE DEF R
<1>2. Orders(R, T)
  BY <1>1 DEF Orders
<1>3. PICK q : Sorted(q, T, R)
  BY <1>2, CanBeSorted
<1>4. /\ N \in Nat /\ q \in [1..N -> T]
      /\ \A x \in T : \E i \in 1..N : q[i] = x
      /\ \A i, j \in 1..N : i < j => <<q[i], q[j]>> \in R
  BY <1>2, <1>3, SortedHasAll
<1>5. N # 0
  BY FS_EmptySet
<1>6. 1 \in 1..N /\ q[1] \in T
  BY <1>4, <1>5
<1>7. \A i \in 1..N : q[1] >= q[i]
  <2>1. \A i \in 1..N : i # 1 => 1 < i /\ q[i] \in T
    BY <1>4
  <2>2. \A i \in 1..N : i # 1 => q[1] > q[i]
    BY <1>1, <1>4, <1>6, <2>1
  <2>3. q[1] \in Int /\ \A i \in 1..N : q[i] \in Int
    BY <1>4, <1>6
  <2>4. \A i \in 1..N : i = 1 => q[1] >= q[i]
    BY <2>3
  <2>5. QED
    BY <2>2, <2>3, <2>4
<1>8. \A x \in T : q[1] >= x
  BY <1>4, <1>7
<1>9. QED
  BY <1>6, <1>8 DEF Max

Rated(table, S) == \A x \in S : table[x].activity \in Int

LEMMA FreshnessIs ==
  ASSUME NEW S, NEW link, Forested(S, link), NEW table, Rated(table, S), NEW id \in S
  PROVE  /\ Freshness(table, link, id) \in Int
         /\ \A x \in Below(link, id) : Freshness(table, link, id) >= table[x].activity
         /\ \E x \in Below(link, id) : Freshness(table, link, id) = table[x].activity
<1> DEFINE B == Below(link, id)
           T == {table[x].activity : x \in B}
           f == [x \in B |-> table[x].activity]
<1>1. B \subseteq S /\ id \in B /\ IsFiniteSet(S)
  BY BelowIs, BelowItself DEF Forested, Listable
<1>2. IsFiniteSet(B)
  BY <1>1, FS_Subset
<1>3. Freshness(table, link, id) = Max(T)
  BY DEF Freshness
<1> HIDE DEF B
<1>4. f \in Surjection(B, T)
  BY DEF Surjection
<1>5. T \subseteq Int /\ T # {}
  BY <1>1 DEF Rated
<1> HIDE DEF f
<1>6. IsFiniteSet(T)
  BY <1>2, <1>4, FS_Surjection
<1>7. Max(T) \in T /\ \A q \in T : Max(T) >= q
  BY <1>5, <1>6, MaxOfFinite
<1>8. \A x \in B : table[x].activity \in T
  OBVIOUS
<1>9. \E x \in B : Max(T) = table[x].activity
  BY <1>7
<1>10. Max(T) \in Int /\ \A x \in B : Max(T) >= table[x].activity
  BY <1>5, <1>7, <1>8
<1>11. QED
  BY <1>3, <1>9, <1>10 DEF B

\* q has the ids of K, each once, and in the order of their trees.
InTreeOrder(q, table, link, K) ==
  /\ Cardinality(K) \in Nat
  /\ q \in [1..Cardinality(K) -> K] /\ DOMAIN q = 1..Cardinality(K)
  /\ \A x \in K : \E i \in 1..Cardinality(K) : q[i] = x
  /\ \A i, j \in 1..Cardinality(K) : q[i] = q[j] => i = j
  /\ \A i, j \in 1..Cardinality(K) : i < j => Before(table, link, q[i], q[j])

LEMMA FreshestIsInOrder ==
  ASSUME NEW S, NEW link, Forested(S, link), NEW table, Rated(table, S), NEW K \in SUBSET S
  PROVE  InTreeOrder(Freshest(table, link, K), table, link, K)
<1> DEFINE R == {p \in K \X K : Before(table, link, p[1], p[2])}
           N == Cardinality(K)
           q == Freshest(table, link, K)
<1>1. \A a, b \in K : <<a, b>> \in R <=> Before(table, link, a, b)
  OBVIOUS
<1>2. IsFiniteSet(S) /\ S \subseteq Int
  BY DEF Forested, Listable
<1>3. IsFiniteSet(K)
  BY <1>2, FS_Subset
<1> HIDE DEF R
<1>4. Orders(R, K)
  <2> DEFINE fresh(a) == Freshness(table, link, a)
  <2>1. \A a \in K : fresh(a) \in Int /\ a \in Int
    BY <1>2, FreshnessIs
  <2>2. \A a, b \in K : <<a, b>> \in R <=> fresh(a) > fresh(b) \/ (fresh(a) = fresh(b) /\ a < b)
    BY <1>1 DEF Before
  <2> HIDE DEF fresh
  <2>3. \A a \in K : <<a, a>> \notin R
    BY <2>1, <2>2
  <2>4. ASSUME NEW a \in K, NEW b \in K, NEW c \in K, <<a, b>> \in R, <<b, c>> \in R
        PROVE  <<a, c>> \in R
    <3>1. fresh(a) > fresh(b) \/ (fresh(a) = fresh(b) /\ a < b)
      BY <2>2, <2>4
    <3>2. fresh(b) > fresh(c) \/ (fresh(b) = fresh(c) /\ b < c)
      BY <2>2, <2>4
    <3>3. fresh(a) > fresh(c) \/ (fresh(a) = fresh(c) /\ a < c)
      BY <2>1, <3>1, <3>2
    <3>4. QED
      BY <2>2, <3>3
  <2>5. \A a, b \in K : a # b => <<a, b>> \in R \/ <<b, a>> \in R
    BY <2>1, <2>2
  <2>6. QED
    BY <2>3, <2>4, <2>5 DEF Orders
<1>5. PICK p : Sorted(p, K, R)
  BY <1>3, <1>4, CanBeSorted
<1>6. p \in [1..N -> K] /\ \A i, j \in DOMAIN p : i < j => Before(table, link, p[i], p[j])
  BY <1>1, <1>5 DEF Sorted
<1>7. q \in [1..N -> K] /\ \A i, j \in DOMAIN q : i < j => Before(table, link, q[i], q[j])
  BY <1>6 DEF Freshest
<1> HIDE DEF q
<1>8. Sorted(q, K, R)
  BY <1>1, <1>7 DEF Sorted
<1>9. /\ Cardinality(K) \in Nat
      /\ \A x \in K : \E i \in 1..Cardinality(K) : q[i] = x
      /\ \A i, j \in 1..Cardinality(K) : q[i] = q[j] => i = j
  BY <1>3, <1>4, <1>8, SortedHasAll
<1>10. QED
  BY <1>7, <1>9 DEF InTreeOrder, q

-----------------------------------------------------------------------------
(***************************************************************************)
(* The trees.                                                              *)
(***************************************************************************)

\* The list of id's tree, if t has those of the trees of its children.
Grow(table, link, t, id) ==
  LET kids == Freshest(table, link, Children(link, id))
  IN  <<[id |-> id, depth |-> 0]>> \o FlattenSeq([i \in DOMAIN kids |-> Deeper(t[kids[i]])])

LEMMA DeeperEntries ==
  ASSUME NEW S, NEW T \in Seq(Entry(S))
  PROVE  Deeper(T) \in Seq(Entry(S))
<1>1. Len(T) \in Nat /\ DOMAIN T = 1..Len(T) /\ \A i \in 1..Len(T) : T[i] \in Entry(S)
  BY EntryFields
<1>2. \A e \in Entry(S) : [e EXCEPT !.depth = @ + 1] \in Entry(S)
  BY DEF Entry
<1>3. Deeper(T) = [i \in 1..Len(T) |-> [T[i] EXCEPT !.depth = @ + 1]]
  BY <1>1 DEF Deeper
<1>4. Deeper(T) \in [1..Len(T) -> Entry(S)]
  BY <1>1, <1>2, <1>3
<1>5. QED
  BY <1>1, <1>4

LEMMA ChildrenAre ==
  ASSUME NEW S, NEW link, Forested(S, link), NEW id \in S
  PROVE  /\ Children(link, id) \in SUBSET S
         /\ \A c \in Children(link, id) : c \in S /\ link[c] = id
         /\ \A c \in S : link[c] = id => c \in Children(link, id)
BY DEF Children, Forested, Linked

\* The children of id, in order.
LEMMA KidsAre ==
  ASSUME NEW S, NEW link, Forested(S, link), NEW table, Rated(table, S), NEW id \in S
  PROVE  InTreeOrder(Freshest(table, link, Children(link, id)), table, link, Children(link, id))
BY ChildrenAre, FreshestIsInOrder

LEMMA GrowEntries ==
  ASSUME NEW S, NEW link, Forested(S, link), NEW table, Rated(table, S), NEW id \in S,
         NEW t \in [S -> Seq(Entry(S))]
  PROVE  Grow(table, link, t, id) \in Seq(Entry(S))
<1> DEFINE kids == Freshest(table, link, Children(link, id))
           ss == [i \in DOMAIN kids |-> Deeper(t[kids[i]])]
           n == Cardinality(Children(link, id))
           e == [id |-> id, depth |-> 0]
<1>1. InTreeOrder(kids, table, link, Children(link, id))
  BY KidsAre
<1>2. n \in Nat /\ DOMAIN kids = 1..n /\ \A i \in 1..n : kids[i] \in S
  BY <1>1, ChildrenAre DEF InTreeOrder
<1>3. \A i \in 1..n : Deeper(t[kids[i]]) \in Seq(Entry(S))
  BY <1>2, DeeperEntries
<1>4. Grow(table, link, t, id) = <<e>> \o FlattenSeq(ss)
  BY DEF Grow
<1> HIDE DEF kids, n
<1>5. ss \in [1..n -> Seq(Entry(S))]
  BY <1>2, <1>3
<1> HIDE DEF ss
<1>6. PICK off : LaidOut(FlattenSeq(ss), n, ss, off, Entry(S))
  BY <1>2, <1>5, FlattenLaysOut
<1>7. FlattenSeq(ss) \in Seq(Entry(S))
  BY <1>6 DEF LaidOut
<1>8. e \in Entry(S)
  BY DEF Entry
<1> HIDE DEF e
<1>9. <<e>> \in Seq(Entry(S))
  BY <1>8
<1>10. QED
  BY <1>4, <1>7, <1>9, ConcatProperties

\* What Grow takes from t are the trees of the children.
LEMMA GrowFromKids ==
  ASSUME NEW S, NEW link, Forested(S, link), NEW table, Rated(table, S), NEW id \in S,
         NEW t, NEW u, \A c \in Children(link, id) : t[c] = u[c]
  PROVE  Grow(table, link, t, id) = Grow(table, link, u, id)
<1> DEFINE kids == Freshest(table, link, Children(link, id))
<1>1. InTreeOrder(kids, table, link, Children(link, id))
  BY KidsAre
<1>2. \A i \in DOMAIN kids : kids[i] \in Children(link, id)
  BY <1>1 DEF InTreeOrder
<1>3. \A i \in DOMAIN kids : t[kids[i]] = u[kids[i]]
  BY <1>2
<1> HIDE DEF kids
<1>4. [i \in DOMAIN kids |-> Deeper(t[kids[i]])] = [i \in DOMAIN kids |-> Deeper(u[kids[i]])]
  BY <1>3
<1>5. QED
  BY <1>4 DEF Grow, kids

\* The size of a tree, on which all about trees is proved.
Rank(link, id) == Cardinality(Below(link, id))

LEMMA RankFalls ==
  ASSUME NEW S, NEW link, Forested(S, link), NEW id \in S
  PROVE  /\ Rank(link, id) \in 1..Cardinality(S)
         /\ \A c \in Children(link, id) : Rank(link, c) \in Nat /\ Rank(link, c) < Rank(link, id)
<1>1. Below(link, id) \in SUBSET S /\ id \in Below(link, id) /\ IsFiniteSet(S)
      /\ Cardinality(S) \in Nat
  BY BelowIs, BelowItself, Size DEF Forested, Listable
<1>2. IsFiniteSet(Below(link, id)) /\ Rank(link, id) <= Cardinality(S)
  BY <1>1, FS_Subset DEF Rank
<1>3. Rank(link, id) \in Nat /\ Rank(link, id) # 0
  BY <1>1, <1>2, FS_CardinalityType, FS_EmptySet DEF Rank
<1>4. Rank(link, id) \in 1..Cardinality(S)
  BY <1>1, <1>2, <1>3
<1>5. ASSUME NEW c \in Children(link, id)
      PROVE  Rank(link, c) \in Nat /\ Rank(link, c) < Rank(link, id)
  <2>1. c \in S /\ link[c] = id
    BY ChildrenAre
  <2>2. QED
    BY <2>1, TreeShrinks DEF Rank
<1>6. QED
  BY <1>4, <1>5

LEMMA TreesGrow ==
  ASSUME NEW S, NEW link, Forested(S, link), NEW table, Rated(table, S)
  PROVE  TreeOf(table, link) = [id \in S |-> Grow(table, link, TreeOf(table, link), id)]
<1> DEFINE N == Cardinality(S)
           A == [S -> Seq(Entry(S))]
           none == [id \in S |-> <<>>]
           step == [k \in 1..(N + 1) |-> [t \in A |-> [id \in S |-> Grow(table, link, t, id)]]]
<1>1. N \in Nat /\ N + 1 \in Nat
  BY Size DEF Forested
<1>2. none \in A
  OBVIOUS
<1>3. \A t \in A : [id \in S |-> Grow(table, link, t, id)] \in A
  BY GrowEntries
<1>4. [t \in A |-> [id \in S |-> Grow(table, link, t, id)]] \in [A -> A]
  BY <1>3
<1>5. step \in [1..(N + 1) -> [A -> A]]
  BY <1>4
<1>6. \A k \in 1..(N + 1), t \in A : step[k][t] = [id \in S |-> Grow(table, link, t, id)]
  OBVIOUS
<1> HIDE DEF step, A, N, none
<1>7. PICK f : Iterates(f, N + 1, A, none, step)
  BY <1>1, <1>2, <1>5, Recursion
<1>8. f \in [0..(N + 1) -> A] /\ \A k \in 1..(N + 1) : f[k] = step[k][f[k - 1]]
  BY <1>7 DEF Iterates
<1>9. ASSUME NEW k \in 0..N
      PROVE  \A id \in S : f[k + 1][id] = Grow(table, link, f[k], id)
  <2> DEFINE m == k + 1
  <2>1. m \in 1..(N + 1) /\ m - 1 = k /\ k \in 0..(N + 1)
    BY <1>1
  <2> HIDE DEF m
  <2>2. f[k] \in A
    BY <1>8, <2>1
  <2>3. f[m] = step[m][f[k]]
    BY <1>8, <2>1
  <2>4. f[m] = [id \in S |-> Grow(table, link, f[k], id)]
    BY <1>6, <2>1, <2>2, <2>3
  <2>5. QED
    BY <2>4 DEF m
<1> DEFINE G == {k \in 0..N : \A id \in S : Rank(link, id) <= k => f[k + 1][id] = f[k][id]}
<1>10. 0 \in G
  BY <1>1, RankFalls
<1>11. ASSUME NEW k \in 0..N, k \in G, k < N
       PROVE  k + 1 \in G
  <2>1. k + 1 \in 0..N
    BY <1>1, <1>11
  <2>2. ASSUME NEW id \in S, Rank(link, id) <= k + 1
        PROVE  f[k + 1 + 1][id] = f[k + 1][id]
    <3>1. \A c \in Children(link, id) : c \in S /\ Rank(link, c) <= k
      <4>1. \A c \in Children(link, id) : Rank(link, c) \in Nat /\ Rank(link, c) < Rank(link, id)
        BY RankFalls
      <4>2. Rank(link, id) \in Nat
        BY RankFalls
      <4>3. QED
        BY <2>2, <4>1, <4>2, ChildrenAre
    <3>2. \A c \in Children(link, id) : f[k + 1][c] = f[k][c]
      BY <1>11, <3>1
    <3>3. Grow(table, link, f[k + 1], id) = Grow(table, link, f[k], id)
      BY <3>2, GrowFromKids
    <3>4. f[k + 1][id] = Grow(table, link, f[k], id)
      BY <1>9
    <3>5. f[k + 1 + 1][id] = Grow(table, link, f[k + 1], id)
      BY <1>9, <2>1
    <3>6. QED
      BY <3>3, <3>4, <3>5
  <2>3. QED
    BY <2>1, <2>2
<1> HIDE DEF G
<1>12. N \in 0..N
  BY <1>1
<1>13. N \in G
  BY <1>1, <1>10, <1>11, <1>12, UpTo
<1>14. \A id \in S : f[N + 1][id] = f[N][id]
  <2>1. \A id \in S : Rank(link, id) <= N
    BY <1>1, RankFalls DEF N
  <2>2. QED
    BY <1>13, <2>1 DEF G
<1> DEFINE t == f[N]
<1>15. t = [id \in S |-> Grow(table, link, t, id)]
  <2>1. \A id \in S : t[id] = Grow(table, link, t, id)
    BY <1>9, <1>12, <1>14
  <2>2. t = [id \in S |-> t[id]]
    <3>1. N \in 0..(N + 1)
      BY <1>1
    <3>2. t \in A
      BY <1>8, <3>1
    <3>3. QED
      BY <3>2 DEF A
  <2> HIDE DEF t
  <2>3. QED
    BY <2>1, <2>2
<1> HIDE DEF t
<1> DEFINE tree == CHOOSE h : h = [id \in S |-> Grow(table, link, h, id)]
<1>16. tree = [id \in S |-> Grow(table, link, tree, id)]
  BY <1>15
<1>17. TreeOf(table, link) = tree
  BY DEF TreeOf, Grow, Forested, Linked
<1>18. QED
  BY <1>16, <1>17

LEMMA TopsGrow ==
  ASSUME NEW S, NEW link, NEW X, NEW Tops, NEW More, Tops \subseteq More, NEW top, NEW T,
         Listing(T, S, link, X, Tops, top)
  PROVE  Listing(T, S, link, X, More, top)
<1>1. \A i \in 1..Len(T) : Placed(T, link, Tops, top, i)
  BY DEF Listing
<1>2. \A i \in 1..Len(T) : Placed(T, link, More, top, i)
  BY <1>1 DEF Placed
<1>3. QED
  BY <1>2 DEF Listing

\* ss has the trees of K in their order, with K at depth top.
TreesOf(ss, q, S, link, K, top) ==
  /\ ss \in [1..Cardinality(K) -> Seq(Entry(S))] /\ top \in Nat
  /\ \A i \in 1..Cardinality(K) : Listing(ss[i], S, link, Below(link, q[i]), {q[i]}, top)

\* The trees of siblings, or of the roots, one after the other.
LEMMA SiblingsListing ==
  ASSUME NEW S, NEW link, Forested(S, link), NEW table, NEW K \in SUBSET S,
         \A c, d \in K : link[c] = link[d],
         NEW q, InTreeOrder(q, table, link, K), NEW top, NEW ss, TreesOf(ss, q, S, link, K, top)
  PROVE  /\ Listing(FlattenSeq(ss), S, link, UNION {Below(link, c) : c \in K}, K, top)
         /\ InParts(FlattenSeq(ss), Cardinality(K), [i \in 1..Cardinality(K) |-> Below(link, q[i])])
<1> DEFINE n == Cardinality(K)
           X == [i \in 1..n |-> Below(link, q[i])]
<1>1. /\ n \in Nat /\ q \in [1..n -> K]
      /\ \A x \in K : \E i \in 1..n : q[i] = x
      /\ \A i, j \in 1..n : q[i] = q[j] => i = j
  BY DEF InTreeOrder
<1>2. /\ ss \in [1..n -> Seq(Entry(S))] /\ top \in Nat
      /\ \A i \in 1..n : Listing(ss[i], S, link, Below(link, q[i]), {q[i]}, top)
  BY DEF TreesOf
<1>3. \A i \in 1..n : X[i] = Below(link, q[i])
  OBVIOUS
<1> HIDE DEF n, X
<1>4. ASSUME NEW i \in 1..n
      PROVE  Listing(ss[i], S, link, X[i], K, top)
  <2>1. Listing(ss[i], S, link, X[i], {q[i]}, top)
    BY <1>2, <1>3
  <2>2. {q[i]} \subseteq K
    BY <1>1
  <2>3. QED
    BY <2>1, <2>2, TopsGrow
<1>5. ASSUME NEW i \in 1..n, NEW j \in 1..n, i # j
      PROVE  X[i] \cap X[j] = {}
  <2>1. q[i] \in S /\ q[j] \in S /\ q[i] # q[j] /\ link[q[i]] = link[q[j]]
    BY <1>1, <1>5
  <2>2. \A x : ~ (x \in Below(link, q[i]) /\ x \in Below(link, q[j]))
    BY <2>1, TreesApart
  <2>3. QED
    BY <1>3, <2>2
<1>6. Listings(n, ss, S, link, X, K, top)
  BY <1>2, <1>4, <1>5 DEF Listings
<1>7. /\ Listing(FlattenSeq(ss), S, link, UNION {X[i] : i \in 1..n}, K, top)
      /\ InParts(FlattenSeq(ss), n, X)
  BY <1>1, <1>6, FlattenListing
<1>8. UNION {X[i] : i \in 1..n} = UNION {Below(link, c) : c \in K}
  <2>1. {X[i] : i \in 1..n} = {Below(link, c) : c \in K}
    BY <1>1, <1>3
  <2>2. QED
    BY <2>1
<1>9. QED
  BY <1>7, <1>8 DEF n, X

\* TreeOf lists each tree.
LEMMA TreesListed ==
  ASSUME NEW S, NEW link, Forested(S, link), NEW table, Rated(table, S)
  PROVE  \A id \in S : Listing(TreeOf(table, link)[id], S, link, Below(link, id), {id}, 0)
<1> DEFINE N == Cardinality(S)
           t == TreeOf(table, link)
           Holds(id) == Listing(t[id], S, link, Below(link, id), {id}, 0)
           G == {k \in 0..N : \A id \in S : Rank(link, id) <= k => Holds(id)}
<1>1. N \in Nat
  BY Size DEF Forested
<1>2. \A id \in S : t[id] = Grow(table, link, t, id)
  <2>1. t = [id \in S |-> Grow(table, link, t, id)]
    BY TreesGrow
  <2> HIDE DEF t
  <2>2. QED
    BY <2>1
<1> HIDE DEF t
<1>3. ASSUME NEW id \in S, \A c \in Children(link, id) : Holds(c)
      PROVE  Holds(id)
  <2> DEFINE K == Children(link, id)
             n == Cardinality(K)
             kids == Freshest(table, link, K)
             ss == [i \in DOMAIN kids |-> Deeper(t[kids[i]])]
             X == UNION {Below(link, c) : c \in K}
  <2>1. InTreeOrder(kids, table, link, K)
    BY KidsAre
  <2>2. K \in SUBSET S /\ \A c \in K : c \in S /\ link[c] = id
    BY ChildrenAre
  <2>3. n \in Nat /\ DOMAIN kids = 1..n /\ \A i \in 1..n : kids[i] \in K
    BY <2>1 DEF InTreeOrder
  <2>4. t[id] = <<[id |-> id, depth |-> 0]>> \o FlattenSeq(ss)
    BY <1>2 DEF Grow
  <2>5. \A c \in K : Listing(t[c], S, link, Below(link, c), {c}, 0)
    BY <1>3
  <2> HIDE DEF kids, K
  <2>6. \A i \in 1..n : ss[i] = Deeper(t[kids[i]])
    BY <2>3
  <2>7. ASSUME NEW i \in 1..n
        PROVE  Listing(ss[i], S, link, Below(link, kids[i]), {kids[i]}, 1)
    <3>1. Listing(t[kids[i]], S, link, Below(link, kids[i]), {kids[i]}, 0)
      BY <2>3, <2>5
    <3>2. Listing(Deeper(t[kids[i]]), S, link, Below(link, kids[i]), {kids[i]}, 0 + 1)
      BY <3>1, DeeperListing
    <3>3. 0 + 1 = 1
      OBVIOUS
    <3>4. QED
      BY <2>6, <3>2, <3>3
  <2>8. ss \in [1..n -> Seq(Entry(S))]
    <3>1. \A i \in 1..n : ss[i] \in Seq(Entry(S))
      BY <2>7 DEF Listing
    <3>2. ss = [i \in 1..n |-> ss[i]]
      BY <2>3
    <3> HIDE DEF ss
    <3>3. QED
      BY <3>1, <3>2
  <2> HIDE DEF ss
  <2>9. TreesOf(ss, kids, S, link, K, 1)
    BY <2>7, <2>8 DEF TreesOf
  <2>10. \A c, d \in K : link[c] = link[d]
    BY <2>2
  <2>11. Listing(FlattenSeq(ss), S, link, X, K, 1)
    BY <2>1, <2>2, <2>9, <2>10, SiblingsListing
  <2>12. id \notin X
    <3>1. \A c \in K : id \notin Below(link, c)
      BY <2>2, ParentNotBelow
    <3>2. QED
      BY <3>1
  <2>13. X \cup {id} = Below(link, id)
    <3>1. \A c \in K : Below(link, c) \subseteq Below(link, id)
      BY <2>2, BelowParent
    <3>2. id \in Below(link, id)
      BY BelowItself
    <3>3. \A x \in Below(link, id) : x # id => \E c \in K : x \in Below(link, c)
      BY BelowChild DEF K
    <3>4. QED
      BY <3>1, <3>2, <3>3
  <2> HIDE DEF X
  <2>14. Listing(<<[id |-> id, depth |-> 0]>> \o FlattenSeq(ss), S, link, X \cup {id}, {id}, 0)
    BY <2>2, <2>11, <2>12, RootListing
  <2>15. QED
    BY <2>4, <2>13, <2>14
<1> HIDE DEF Holds
<1>4. 0 \in G
  BY <1>1, RankFalls
<1>5. ASSUME NEW k \in 0..N, k \in G, k < N
      PROVE  k + 1 \in G
  <2>1. k + 1 \in 0..N
    BY <1>1, <1>5
  <2>2. ASSUME NEW id \in S, Rank(link, id) <= k + 1
        PROVE  Holds(id)
    <3>1. /\ Rank(link, id) \in Nat
          /\ \A c \in Children(link, id) : Rank(link, c) \in Nat /\ Rank(link, c) < Rank(link, id)
      BY RankFalls
    <3>2. \A c \in Children(link, id) : c \in S /\ Rank(link, c) <= k
      BY <2>2, <3>1, ChildrenAre
    <3>3. \A c \in Children(link, id) : Holds(c)
      BY <1>5, <3>2
    <3>4. QED
      BY <1>3, <3>3
  <2>3. QED
    BY <2>1, <2>2
<1> HIDE DEF G
<1>6. N \in 0..N
  BY <1>1
<1>7. N \in G
  BY <1>1, <1>4, <1>5, <1>6, UpTo
<1>8. \A id \in S : Rank(link, id) <= N
  BY <1>1, RankFalls DEF N
<1>9. QED
  BY <1>7, <1>8 DEF G, Holds, t

-----------------------------------------------------------------------------
(***************************************************************************)
(* The rows that are shown.                                                *)
(***************************************************************************)

Tabled(table) ==
  /\ Listable(DOMAIN table)
  /\ Rated(table, DOMAIN table)

LEMMA AboveHoldsUp ==
  ASSUME NEW table, Tabled(table), NEW id \in DOMAIN table
  PROVE  /\ Above(table, id) \subseteq DOMAIN table
         /\ id \in Above(table, id)
         /\ \A x \in Above(table, id) : x = id \/ HasChildIn(table, Above(table, id), x)
<1> DEFINE D == DOMAIN table
           N == Cardinality(D)
           A == SUBSET D
           higher(T) == T \cup ({table[x].parent : x \in T} \cap D)
           step == [n \in 1..N |-> [T \in A |-> higher(T)]]
<1>1. N \in Nat
  BY Size DEF Tabled
<1>2. {id} \in A /\ \A T \in A : higher(T) \in A
  OBVIOUS
<1>3. [T \in A |-> higher(T)] \in [A -> A]
  BY <1>2
<1>4. step \in [1..N -> [A -> A]]
  BY <1>3
<1>5. \A n \in 1..N, T \in A : step[n][T] = higher(T)
  OBVIOUS
<1> HIDE DEF step, A, N, higher
<1>6. PICK f : Iterates(f, N, A, {id}, step)
  BY <1>1, <1>2, <1>4, Recursion
<1>7. f = [n \in 0..N |-> IF n = 0 THEN {id} ELSE higher(f[n - 1])]
  <2>1. \A n \in 1..N : n - 1 \in 0..N
    BY <1>1
  <2>2. \A n \in 1..N : f[n] = higher(f[n - 1])
    BY <1>5, <1>6, <2>1 DEF Iterates
  <2>3. \A n \in 0..N : n # 0 => n \in 1..N
    BY <1>1
  <2>4. f = [n \in 0..N |-> f[n]] /\ f[0] = {id}
    BY <1>6 DEF Iterates
  <2>5. QED
    BY <2>2, <2>3, <2>4
<1> DEFINE up == CHOOSE g : g = [n \in 0..N |-> IF n = 0 THEN {id} ELSE higher(g[n - 1])]
<1>8. Above(table, id) = up[N]
  BY DEF Above, higher, N
<1>9. up = [n \in 0..N |-> IF n = 0 THEN {id} ELSE higher(up[n - 1])]
  BY <1>7
<1> HIDE DEF up
<1>10. up[0] = {id} /\ \A n \in 1..N : up[n] = higher(up[n - 1])
  BY <1>1, <1>9
<1> DEFINE Holds(n) == /\ up[n] \subseteq D /\ id \in up[n]
                       /\ \A x \in up[n] : x = id \/ HasChildIn(table, up[n], x)
           G == {n \in 0..N : Holds(n)}
<1>11. 0 \in G
  BY <1>1, <1>10
<1>12. ASSUME NEW n \in 0..N, n \in G, n < N
       PROVE  n + 1 \in G
  <2>1. n + 1 \in 0..N /\ n + 1 \in 1..N /\ n + 1 - 1 = n
    BY <1>1, <1>12
  <2> DEFINE T == up[n]
             U == up[n + 1]
  <2>2. T \subseteq D /\ id \in T /\ \A x \in T : x = id \/ HasChildIn(table, T, x)
    BY <1>12
  <2>3. U = T \cup ({table[x].parent : x \in T} \cap D)
    BY <1>10, <2>1 DEF higher
  <2> HIDE DEF T, U
  <2>4. ASSUME NEW x \in U
        PROVE  x = id \/ HasChildIn(table, U, x)
    <3>1. CASE x \in T
      BY <2>2, <2>3, <3>1 DEF HasChildIn
    <3>2. CASE x \notin T
      <4>1. PICK y \in T : x = table[y].parent
        BY <2>3, <3>2
      <4>2. y \in U \ {x}
        BY <2>3, <3>2, <4>1
      <4>3. QED
        BY <4>1, <4>2 DEF HasChildIn
    <3>3. QED
      BY <3>1, <3>2
  <2>5. U \subseteq D /\ id \in U
    BY <2>2, <2>3
  <2>6. Holds(n + 1)
    BY <2>4, <2>5 DEF U
  <2>7. QED
    BY <2>1, <2>6
<1> HIDE DEF G
<1>13. N \in 0..N
  BY <1>1
<1>14. N \in G
  BY <1>1, <1>11, <1>12, <1>13, UpTo
<1>15. QED
  BY <1>8, <1>14 DEF G

LEMMA PruneLeavesNoneBare ==
  ASSUME NEW table, Tabled(table), NEW S \in SUBSET (DOMAIN table)
  PROVE  /\ Prune(table, S) \subseteq S
         /\ \A x \in S : table[x].keep => x \in Prune(table, S)
         /\ \A x \in Prune(table, S) : table[x].keep \/ HasChildIn(table, Prune(table, S), x)
<1> DEFINE N == Cardinality(S)
           A == SUBSET S
           sieve(T) == {x \in T : table[x].keep \/ HasChildIn(table, T, x)}
           step == [n \in 1..N |-> [T \in A |-> sieve(T)]]
<1>0. IsFiniteSet(S)
  BY FS_Subset DEF Tabled, Listable
<1>1. N \in Nat
  BY <1>0, FS_CardinalityType
<1>2. S \in A /\ \A T \in A : sieve(T) \in A /\ sieve(T) \subseteq T
  OBVIOUS
<1>3. [T \in A |-> sieve(T)] \in [A -> A]
  BY <1>2
<1>4. step \in [1..N -> [A -> A]]
  BY <1>3
<1>5. \A n \in 1..N, T \in A : step[n][T] = sieve(T)
  OBVIOUS
<1> HIDE DEF step, A, N, sieve
<1>6. PICK f : Iterates(f, N, A, S, step)
  BY <1>1, <1>2, <1>4, Recursion
<1>7. f = [n \in 0..N |-> IF n = 0 THEN S ELSE sieve(f[n - 1])]
  <2>1. \A n \in 1..N : n - 1 \in 0..N
    BY <1>1
  <2>2. \A n \in 1..N : f[n] = sieve(f[n - 1])
    BY <1>5, <1>6, <2>1 DEF Iterates
  <2>3. \A n \in 0..N : n # 0 => n \in 1..N
    BY <1>1
  <2>4. f = [n \in 0..N |-> f[n]] /\ f[0] = S
    BY <1>6 DEF Iterates
  <2>5. QED
    BY <2>2, <2>3, <2>4
<1> DEFINE pass == CHOOSE g : g = [n \in 0..N |-> IF n = 0 THEN S ELSE sieve(g[n - 1])]
<1>8. Prune(table, S) = pass[N]
  BY DEF Prune, sieve, N
<1>9. pass = [n \in 0..N |-> IF n = 0 THEN S ELSE sieve(pass[n - 1])]
  BY <1>7
<1> HIDE DEF pass
<1>10. pass[0] = S /\ \A n \in 1..N : pass[n] = sieve(pass[n - 1])
  BY <1>1, <1>9
<1> DEFINE Holds(n) == /\ pass[n] \subseteq S
                       /\ \A x \in S : table[x].keep => x \in pass[n]
                       /\ sieve(pass[n]) = pass[n] \/ Cardinality(pass[n]) <= N - n
           G == {n \in 0..N : Holds(n)}
<1>11. 0 \in G
  BY <1>1, <1>10 DEF N
<1>12. ASSUME NEW n \in 0..N, n \in G, n < N
       PROVE  n + 1 \in G
  <2>1. n + 1 \in 0..N /\ n + 1 \in 1..N /\ n + 1 - 1 = n
    BY <1>1, <1>12
  <2> DEFINE T == pass[n]
             U == pass[n + 1]
  <2>2. /\ T \subseteq S /\ \A x \in S : table[x].keep => x \in T
        /\ sieve(T) = T \/ Cardinality(T) <= N - n
    BY <1>12
  <2>3. U = sieve(T)
    BY <1>10, <2>1
  <2> HIDE DEF T, U
  <2>4. U \subseteq T /\ \A x \in T : table[x].keep => x \in U
    BY <2>3 DEF sieve
  <2>5. sieve(U) = U \/ Cardinality(U) <= N - (n + 1)
    <3>1. CASE U = T
      BY <2>3, <3>1
    <3>2. CASE U # T
      <4>1. IsFiniteSet(T) /\ U \in SUBSET T
        BY <1>0, <2>2, <2>4, FS_Subset
      <4>2. /\ Cardinality(U) <= Cardinality(T) /\ Cardinality(U) # Cardinality(T)
            /\ IsFiniteSet(U)
        BY <3>2, <4>1, FS_Subset
      <4>3. Cardinality(T) \in Nat /\ Cardinality(U) \in Nat
        BY <4>1, <4>2, FS_CardinalityType
      <4>4. Cardinality(T) <= N - n
        BY <2>2, <2>3, <3>2
      <4>5. QED
        BY <1>1, <4>2, <4>3, <4>4
    <3>3. QED
      BY <3>1, <3>2
  <2>6. Holds(n + 1)
    BY <2>2, <2>4, <2>5 DEF U
  <2>7. QED
    BY <2>1, <2>6
<1> HIDE DEF G
<1>13. N \in 0..N
  BY <1>1
<1>14. N \in G
  BY <1>1, <1>11, <1>12, <1>13, UpTo
<1> DEFINE P == pass[N]
<1>15. /\ P \subseteq S /\ \A x \in S : table[x].keep => x \in P
       /\ sieve(P) = P \/ Cardinality(P) <= 0
  BY <1>1, <1>14 DEF G
<1> HIDE DEF P
<1>16. sieve(P) = P
  <2>1. SUFFICES ASSUME Cardinality(P) <= 0 PROVE sieve(P) = P
    BY <1>15
  <2>2. IsFiniteSet(P) /\ Cardinality(P) \in Nat
    BY <1>0, <1>15, FS_Subset, FS_CardinalityType
  <2>3. P = {}
    BY <2>1, <2>2, FS_EmptySet
  <2>4. QED
    BY <2>3 DEF sieve
<1>17. \A x \in P : table[x].keep \/ HasChildIn(table, P, x)
  BY <1>16 DEF sieve
<1>18. QED
  BY <1>8, <1>15, <1>17 DEF P

LEMMA ShownAre ==
  ASSUME NEW table, Tabled(table), NEW scope \in BOOLEAN
  PROVE  /\ ShownIds(table, scope) \subseteq DOMAIN table
         /\ \A id \in KeptRows(table) : (scope => table[id].scoped) => id \in ShownIds(table, scope)
         /\ \A id \in ShownIds(table, scope) \ KeptRows(table) :
              HasChildIn(table, ShownIds(table, scope), id)
<1> DEFINE D == DOMAIN table
           kept == KeptRows(table)
           back == PulledBack(table)
<1>1. kept = {id \in D : table[id].keep}
  BY DEF KeptRows
<1>2. back = UNION {Above(table, id) : id \in kept}
  BY DEF PulledBack
<1> HIDE DEF kept, back
<1>3. \A id \in kept : /\ Above(table, id) \subseteq D /\ id \in Above(table, id)
                       /\ \A x \in Above(table, id) : x = id \/ HasChildIn(table, Above(table, id), x)
  BY <1>1, AboveHoldsUp
<1>4. back \subseteq D /\ kept \subseteq back
  BY <1>2, <1>3
<1>5. \A x \in back \ kept : HasChildIn(table, back, x)
  <2>1. SUFFICES ASSUME NEW x \in back, x \notin kept PROVE HasChildIn(table, back, x)
    OBVIOUS
  <2>2. PICK id \in kept : x \in Above(table, id)
    BY <1>2
  <2>3. HasChildIn(table, Above(table, id), x)
    BY <1>3, <2>1, <2>2
  <2>4. Above(table, id) \subseteq back
    BY <1>2
  <2>5. QED
    BY <2>3, <2>4 DEF HasChildIn
<1>6. CASE scope
  <2> DEFINE S == {id \in back : table[id].scoped}
  <2>1. ShownIds(table, scope) = Prune(table, S)
    BY <1>6 DEF ShownIds, back
  <2>2. S \in SUBSET D
    BY <1>4
  <2> HIDE DEF S
  <2>3. /\ Prune(table, S) \subseteq S
        /\ \A x \in S : table[x].keep => x \in Prune(table, S)
        /\ \A x \in Prune(table, S) : table[x].keep \/ HasChildIn(table, Prune(table, S), x)
    BY <2>2, PruneLeavesNoneBare
  <2>4. \A id \in kept : table[id].scoped => id \in S
    BY <1>4 DEF S
  <2>5. QED
    BY <1>1, <1>6, <2>1, <2>2, <2>3, <2>4 DEF kept
<1>7. CASE ~scope
  <2>1. ShownIds(table, scope) = back
    BY <1>7 DEF ShownIds, back
  <2>2. QED
    BY <1>4, <1>5, <1>7, <2>1 DEF kept
<1>8. QED
  BY <1>6, <1>7


-----------------------------------------------------------------------------
(***************************************************************************)
(* The list.                                                               *)
(***************************************************************************)

LEMMA LinksAre ==
  ASSUME NEW table, Tabled(table), NEW S \in SUBSET (DOMAIN table)
  PROVE  /\ Listable(S) /\ Rated(table, S) /\ Linked(S, Links(table, S))
         /\ \A x \in S : Links(table, S)[x] =
                           IF table[x].parent \in S \ {x} THEN table[x].parent ELSE NULL
<1>1. Listable(S)
  BY FS_Subset DEF Tabled, Listable
<1>2. Rated(table, S)
  BY DEF Tabled, Rated
<1>3. QED
  BY <1>1, <1>2 DEF Links, Linked

Roots(S, link) == {id \in S : link[id] = NULL}

\* list has the rows of S as link and the order q of the roots ask for.
Shows(list, table, S, link, q) ==
  /\ Forested(S, link)
  /\ Rated(table, S)
  /\ \A x \in S : link[x] = Links(table, S)[x] \/ CutLoose(S, Links(table, S), link, x)
  /\ InTreeOrder(q, table, link, Roots(S, link))
  /\ Listing(list, S, link, S, Roots(S, link), 0)
  /\ InParts(list, Cardinality(Roots(S, link)),
             [i \in 1..Cardinality(Roots(S, link)) |-> Below(link, q[i])])

\* The list of a picker with the links cut, and the order of its roots.
CutLinks(table, scope) == Cut(Links(table, ShownIds(table, scope)))

RootOrder(table, scope) ==
  Freshest(table, CutLinks(table, scope),
           Roots(ShownIds(table, scope), CutLinks(table, scope)))

LEMMA BuildForestShows ==
  ASSUME NEW table, Tabled(table), NEW scope \in BOOLEAN
  PROVE  Shows(BuildForest(table, scope), table, ShownIds(table, scope),
               CutLinks(table, scope), RootOrder(table, scope))
<1> DEFINE S == ShownIds(table, scope)
           link == CutLinks(table, scope)
           R == Roots(S, link)
           q == RootOrder(table, scope)
           n == Cardinality(R)
           tree == TreeOf(table, link)
           ss == [i \in DOMAIN q |-> tree[q[i]]]
<1>1. S \in SUBSET (DOMAIN table)
  BY ShownAre
<1>2. link = Cut(Links(table, S))
  BY DEF CutLinks
<1>3. q = Freshest(table, link, R)
  BY DEF RootOrder
<1> HIDE DEF S, link, q
<1>4. Listable(S) /\ Rated(table, S) /\ Linked(S, Links(table, S))
  BY <1>1, LinksAre
<1>5. /\ Linked(S, link)
      /\ \A x \in S : Grounded(link, x)
      /\ \A x \in S : link[x] = Links(table, S)[x] \/ CutLoose(S, Links(table, S), link, x)
  BY <1>2, <1>4, CutGrounds
<1>6. Forested(S, link)
  BY <1>4, <1>5 DEF Forested
<1>7. R \in SUBSET S /\ (\A c, d \in R : link[c] = link[d]) /\ \A c \in R : c \in S /\ link[c] = NULL
  BY DEF Roots
<1>8. InTreeOrder(q, table, link, R)
  BY <1>3, <1>4, <1>6, <1>7, FreshestIsInOrder
<1>9. BuildForest(table, scope) = FlattenSeq(ss)
  <2>1. DOMAIN link = S
    BY <1>5 DEF Linked
  <2>2. {id \in DOMAIN link : link[id] = NULL} = R
    BY <2>1 DEF Roots
  <2>3. BuildForest(table, scope) =
          LET l == Cut(Links(table, ShownIds(table, scope)))
              roots == Freshest(table, l, {id \in DOMAIN l : l[id] = NULL})
          IN  FlattenSeq([i \in DOMAIN roots |-> TreeOf(table, l)[roots[i]]])
    BY DEF BuildForest
  <2>4. QED
    BY <1>3, <2>2, <2>3 DEF link, CutLinks
<1> HIDE DEF R
<1>10. n \in Nat /\ DOMAIN q = 1..n /\ \A i \in 1..n : q[i] \in R
  BY <1>8 DEF InTreeOrder
<1>11. \A id \in S : Listing(tree[id], S, link, Below(link, id), {id}, 0)
  BY <1>4, <1>6, TreesListed
<1> HIDE DEF tree
<1>12. \A i \in 1..n : ss[i] = tree[q[i]]
  BY <1>10
<1>13. \A i \in 1..n : Listing(ss[i], S, link, Below(link, q[i]), {q[i]}, 0)
  BY <1>7, <1>10, <1>11, <1>12
<1>14. ss \in [1..n -> Seq(Entry(S))]
  <2>1. \A i \in 1..n : ss[i] \in Seq(Entry(S))
    BY <1>13 DEF Listing
  <2>2. ss = [i \in 1..n |-> ss[i]]
    BY <1>10
  <2> HIDE DEF ss
  <2>3. QED
    BY <2>1, <2>2
<1> HIDE DEF ss
<1>15. TreesOf(ss, q, S, link, R, 0)
  BY <1>13, <1>14 DEF TreesOf
<1>16. /\ Listing(FlattenSeq(ss), S, link, UNION {Below(link, c) : c \in R}, R, 0)
       /\ InParts(FlattenSeq(ss), n, [i \in 1..n |-> Below(link, q[i])])
  BY <1>6, <1>7, <1>8, <1>15, SiblingsListing
<1>17. UNION {Below(link, c) : c \in R} = S
  <2>1. \A c \in R : Below(link, c) \subseteq S
    BY <1>6, BelowIs
  <2>2. \A x \in S : \E r \in R : x \in Below(link, r)
    BY <1>6, HasRoot DEF R, Roots
  <2>3. QED
    BY <2>1, <2>2
<1>18. Shows(FlattenSeq(ss), table, S, link, q)
  BY <1>4, <1>5, <1>6, <1>8, <1>16, <1>17 DEF Shows, R
<1>19. QED
  BY <1>9, <1>18 DEF S, link, q

LEMMA BelowHigher ==
  ASSUME NEW S, NEW link, Forested(S, link), NEW x \in S, NEW r \in S, link[x] \in Below(link, r)
  PROVE  x \in Below(link, r)
<1> DEFINE N == Cardinality(S)
           p == link[x]
<1>1. p \in S
  BY BelowIs
<1>2. Listable(S) /\ Linked(S, link)
  BY DEF Forested
<1>3. N \in Nat
  BY <1>2, Size
<1>4. 1 <= N /\ Walk(link, x)[1] = p
  BY <1>2, FirstStep
<1> HIDE DEF p, N
<1>5. PICK m \in 0..N : Walk(link, p)[m] = r
  BY <1>1, BelowIs DEF p, N
<1>6. m + 1 \in 0..N
  BY <1>1, <1>5, OneUp DEF N
<1>7. 1 \in Nat /\ m \in Nat /\ 1 + m <= N /\ 1 + m \in 0..N /\ Walk(link, x)[1] \in S
  BY <1>1, <1>3, <1>4, <1>6
<1>8. Walk(link, Walk(link, x)[1])[m] = Walk(link, x)[1 + m]
  BY <1>2, <1>7, WalkOn DEF N
<1>9. Walk(link, x)[1 + m] = r
  BY <1>4, <1>5, <1>8
<1>10. QED
  BY <1>7, <1>9, BelowIs DEF N

\* Where the root of the i-th is found is the head of a tree, and i is in that tree.
AtRoot(list, S, link, i) ==
  /\ RootInList(list, i) \in S
  /\ link[RootInList(list, i)] = NULL
  /\ list[i].id \in Below(link, RootInList(list, i))
  /\ list[i].depth = 0 => RootInList(list, i) = list[i].id

\* The last of 1..i that is in a set.
LEMMA LastUpTo ==
  ASSUME NEW i \in Nat, NEW T \in SUBSET (1..i), T # {}
  PROVE  Max(T) \in T /\ \A k \in T : Max(T) >= k
<1>1. IsFiniteSet(1..i)
  BY FS_Interval
<1>2. IsFiniteSet(T)
  BY <1>1, FS_Subset
<1>3. T \subseteq Int
  OBVIOUS
<1>4. QED
  BY <1>2, <1>3, MaxOfFinite

LEMMA RootOf ==
  ASSUME NEW list, NEW table, NEW S, NEW link, NEW q, Shows(list, table, S, link, q)
  PROVE  \A i \in 1..Len(list) : AtRoot(list, S, link, i)
<1> DEFINE n == Len(list)
           heads(i) == {j \in 1..i : list[j].depth = 0}
           G == {i \in 0..n : \A k \in 1..n : k <= i => AtRoot(list, S, link, k)}
<1>1. Forested(S, link) /\ Listing(list, S, link, S, Roots(S, link), 0)
  BY DEF Shows
<1>2. n \in Nat /\ \A i \in 1..n : list[i].id \in S /\ list[i].depth \in Nat
  BY <1>1, EntryFields DEF Listing
<1>3. \A i \in 1..n : /\ list[i].depth = 0 => list[i].id \in Roots(S, link)
                      /\ list[i].depth > 0 => Under(list, link, i)
  BY <1>1 DEF Listing, Placed
<1> HIDE DEF n
<1>4. ASSUME NEW i \in 1..n, \A k \in 1..n : k < i => AtRoot(list, S, link, k)
      PROVE  AtRoot(list, S, link, i)
  <2>1. i \in Nat /\ RootInList(list, i) = list[Max(heads(i))].id
    BY <1>2 DEF RootInList
  <2>2. CASE list[i].depth = 0
    <3>1. heads(i) \in SUBSET (1..i) /\ i \in heads(i)
      BY <2>1, <2>2
    <3>2. Max(heads(i)) \in heads(i) /\ \A k \in heads(i) : Max(heads(i)) >= k
      BY <2>1, <3>1, LastUpTo
    <3>3. Max(heads(i)) = i
      BY <2>1, <3>1, <3>2
    <3>4. RootInList(list, i) = list[i].id
      BY <2>1, <3>3
    <3>5. list[i].id \in S /\ link[list[i].id] = NULL
      BY <1>3, <2>2 DEF Roots
    <3>6. list[i].id \in Below(link, list[i].id)
      BY <1>1, <3>5, BelowItself
    <3>7. QED
      BY <3>4, <3>5, <3>6 DEF AtRoot
  <2>3. CASE list[i].depth # 0
    <3>1. list[i].depth > 0
      BY <1>2, <2>3
    <3>2. Under(list, link, i)
      BY <1>3, <3>1
    <3>3. PICK j \in 1..(i - 1) : /\ list[j].id = link[list[i].id]
                                  /\ list[j].depth < list[i].depth
                                  /\ \A k \in (j + 1)..(i - 1) : list[k].depth >= list[i].depth
      BY <3>2 DEF Under
    <3>4. j \in 1..n /\ j < i /\ j \in Nat
      BY <1>2, <2>1, <3>3
    <3>5. AtRoot(list, S, link, j)
      BY <1>4, <3>4
    <3>6. \A k \in 1..i : list[k].depth = 0 => k \in 1..j
      <4>1. SUFFICES ASSUME NEW k \in 1..i, list[k].depth = 0 PROVE k <= j
        BY <2>1, <3>4
      <4>2. k # i
        BY <2>3, <4>1
      <4>3. k \notin (j + 1)..(i - 1)
        BY <1>2, <3>1, <3>3, <4>1
      <4>4. QED
        BY <2>1, <3>4, <4>2, <4>3
    <3>7. heads(i) = heads(j)
      BY <2>1, <3>4, <3>6
    <3>8. RootInList(list, i) = RootInList(list, j)
      BY <2>1, <3>7 DEF RootInList
    <3>9. list[j].id \in Below(link, RootInList(list, j)) /\ RootInList(list, j) \in S
          /\ link[RootInList(list, j)] = NULL
      BY <3>5 DEF AtRoot
    <3>10. list[i].id \in S
      BY <1>2
    <3>11. list[i].id \in Below(link, RootInList(list, j))
      BY <1>1, <3>3, <3>9, <3>10, BelowHigher
    <3>12. QED
      BY <2>3, <3>8, <3>9, <3>11 DEF AtRoot
  <2>4. QED
    BY <2>2, <2>3
<1>5. 0 \in G
  BY <1>2
<1>6. ASSUME NEW i \in 0..n, i \in G, i < n
      PROVE  i + 1 \in G
  <2> DEFINE m == i + 1
  <2>1. m \in 1..n /\ m \in 0..n /\ \A k \in 1..n : k <= m => k <= i \/ k = m
    BY <1>2, <1>6
  <2>2. \A k \in 1..n : k < m => k <= i
    BY <1>2
  <2>3. \A k \in 1..n : k <= i => AtRoot(list, S, link, k)
    BY <1>6
  <2> HIDE DEF m
  <2>4. AtRoot(list, S, link, m)
    BY <1>4, <2>1, <2>2, <2>3
  <2>5. m \in G
    BY <2>1, <2>3, <2>4
  <2>6. QED
    BY <2>5 DEF m
<1> HIDE DEF G
<1>7. n \in G
  <2>1. n \in 0..n
    BY <1>2
  <2>2. QED
    BY <1>2, <1>5, <1>6, <2>1, UpTo
<1>8. \A k \in 1..n : k <= n
  BY <1>2
<1>9. QED
  BY <1>7, <1>8 DEF G, n

\* What is under none is a root; any other is directly under what its link says.
LEMMA ParentOf ==
  ASSUME NEW list, NEW table, NEW S, NEW link, NEW q, Shows(list, table, S, link, q),
         NEW i \in 1..Len(list)
  PROVE  ParentInList(list, i) = link[list[i].id]
<1> DEFINE n == Len(list)
           above == {j \in 1..(i - 1) : list[j].depth < list[i].depth}
<1>1. Listing(list, S, link, S, Roots(S, link), 0)
  BY DEF Shows
<1>2. n \in Nat /\ \A k \in 1..n : list[k].id \in S /\ list[k].depth \in Nat
  BY <1>1, EntryFields DEF Listing
<1>3. /\ list[i].depth = 0 => list[i].id \in Roots(S, link)
      /\ list[i].depth > 0 => Under(list, link, i)
  BY <1>1 DEF Listing, Placed
<1>4. i \in 1..n
  OBVIOUS
<1> HIDE DEF n
<1>5. ParentInList(list, i) = IF above = {} THEN NULL ELSE list[Max(above)].id
  BY DEF ParentInList
<1>6. CASE list[i].depth = 0
  <2>1. \A j \in 1..(i - 1) : list[j].depth \in Nat
    BY <1>2, <1>4
  <2>2. above = {}
    BY <1>6, <2>1
  <2>3. QED
    BY <1>3, <1>5, <1>6, <2>2 DEF Roots
<1>7. CASE list[i].depth # 0
  <2>1. list[i].depth > 0
    BY <1>2, <1>4, <1>7
  <2>2. PICK j \in 1..(i - 1) : /\ list[j].id = link[list[i].id]
                                /\ list[j].depth < list[i].depth
                                /\ \A k \in (j + 1)..(i - 1) : list[k].depth >= list[i].depth
    BY <1>3, <2>1 DEF Under
  <2>3. \A k \in 1..(i - 1) : list[k].depth \in Nat
    BY <1>2, <1>4
  <2>4. i - 1 \in Nat /\ j \in above /\ above \in SUBSET (1..(i - 1))
    BY <1>2, <1>4, <2>2
  <2>5. \A k \in above : k <= j
    <3>1. SUFFICES ASSUME NEW k \in 1..(i - 1), list[k].depth < list[i].depth, k > j
                   PROVE  FALSE
      BY <2>4
    <3>2. k \in (j + 1)..(i - 1)
      BY <2>4, <3>1
    <3>3. list[k].depth >= list[i].depth
      BY <2>2, <3>2
    <3>4. QED
      BY <1>2, <1>4, <2>3, <3>1, <3>3
  <2> HIDE DEF above
  <2>6. Max(above) \in above /\ \A k \in above : Max(above) >= k
    BY <2>4, LastUpTo
  <2>7. Max(above) = j
    <3>1. \A k \in 1..(i - 1) : k \in Int
      BY <2>4
    <3>2. Max(above) \in Int /\ j \in Int
      BY <2>4, <2>6, <3>1
    <3>3. Max(above) >= j /\ Max(above) <= j
      BY <2>4, <2>5, <2>6
    <3>4. QED
      BY <3>2, <3>3
  <2>8. QED
    BY <1>5, <2>2, <2>4, <2>7
<1>8. QED
  BY <1>6, <1>7

LEMMA RootIsTree ==
  ASSUME NEW list, NEW table, NEW S, NEW link, NEW q, Shows(list, table, S, link, q),
         NEW i \in 1..Len(list), NEW r \in Roots(S, link), list[i].id \in Below(link, r)
  PROVE  RootInList(list, i) = r
<1> DEFINE root == RootInList(list, i)
<1>1. root \in S /\ link[root] = NULL /\ list[i].id \in Below(link, root)
  BY RootOf DEF AtRoot
<1>2. r \in S /\ link[r] = link[root]
  BY <1>1 DEF Roots
<1>3. Forested(S, link)
  BY DEF Shows
<1> HIDE DEF root
<1>4. r = root
  BY <1>1, <1>2, <1>3, TreesApart
<1>5. QED
  BY <1>4 DEF root

LEMMA EachOnce ==
  ASSUME NEW table, Tabled(table), NEW scope \in BOOLEAN
  PROVE  ListsEachOnce(table, scope)
<1> DEFINE list == BuildForest(table, scope)
           S == ShownIds(table, scope)
           link == CutLinks(table, scope)
<1>1. Listing(list, S, link, S, Roots(S, link), 0)
  BY BuildForestShows DEF Shows
<1>2. /\ S \subseteq DOMAIN table
      /\ \A id \in KeptRows(table) : (scope => table[id].scoped) => id \in S
      /\ \A id \in S \ KeptRows(table) : HasChildIn(table, S, id)
  BY ShownAre
<1> HIDE DEF list, S, link
<1>3. DOMAIN list = 1..Len(list)
  BY <1>1, EntryFields DEF Listing
<1>4. \A i, j \in DOMAIN list : list[i].id = list[j].id => i = j
  BY <1>1, <1>3 DEF Listing
<1>5. IdsIn(list) = S
  <2>1. IdsIn(list) = {list[i].id : i \in 1..Len(list)}
    BY <1>3 DEF IdsIn
  <2>2. (\A i \in 1..Len(list) : list[i].id \in S) /\ \A x \in S : \E i \in 1..Len(list) : list[i].id = x
    BY <1>1 DEF Listing
  <2>3. QED
    BY <2>1, <2>2
<1>6. QED
  BY <1>2, <1>4, <1>5 DEF ListsEachOnce, list

\* A root whose delegator is listed is its own delegator, or was cut loose from it.
LEMMA RootAboveDelegator ==
  ASSUME NEW list, NEW table, Tabled(table), NEW S \in SUBSET (DOMAIN table), NEW link, NEW q,
         Shows(list, table, S, link, q), NEW id \in S, link[id] # table[id].parent
  PROVE  /\ link[id] = NULL
         /\ table[id].parent \in S => table[id].parent \in Below(link, id)
<1> DEFINE parent == table[id].parent
           asked == Links(table, S)
<1>1. /\ Forested(S, link)
      /\ link[id] = asked[id] \/ CutLoose(S, asked, link, id)
  BY DEF Shows
<1>2. asked[id] = IF parent \in S \ {id} THEN parent ELSE NULL
  BY LinksAre
<1>3. link[id] # parent
  OBVIOUS
<1> HIDE DEF parent, asked
<1>4. CASE link[id] = asked[id]
  <2>1. link[id] = NULL /\ parent \notin S \ {id}
    BY <1>2, <1>3, <1>4
  <2>2. id \in Below(link, id)
    BY <1>1, BelowItself
  <2>3. QED
    BY <2>1, <2>2 DEF parent
<1>5. CASE CutLoose(S, asked, link, id)
  <2>1. /\ link[id] = NULL /\ asked[id] \in S
        /\ \E n \in 0..Cardinality(S) : Walk(link, asked[id])[n] = id
    BY <1>5 DEF CutLoose
  <2>2. NULL \notin S
    BY <1>1 DEF Forested, Listable
  <2>3. asked[id] = parent
    BY <1>2, <2>1, <2>2
  <2>4. parent \in Below(link, id)
    BY <1>1, <2>1, <2>3, BelowIs
  <2>5. QED
    BY <2>1, <2>4 DEF parent
<1>6. QED
  BY <1>1, <1>4, <1>5

LEMMA UnderTheDelegator ==
  ASSUME NEW table, Tabled(table), NEW scope \in BOOLEAN
  PROVE  ListsUnderDelegator(table, scope)
<1> DEFINE list == BuildForest(table, scope)
           S == ShownIds(table, scope)
           link == CutLinks(table, scope)
           q == RootOrder(table, scope)
<1>1. Shows(list, table, S, link, q)
  BY BuildForestShows
<1>2. S \in SUBSET (DOMAIN table)
  BY ShownAre
<1> HIDE DEF list, S, link, q
<1>3. Forested(S, link) /\ Listing(list, S, link, S, Roots(S, link), 0)
  BY <1>1 DEF Shows
<1>4. DOMAIN list = 1..Len(list) /\ \A i \in 1..Len(list) : list[i].id \in S /\ list[i].depth \in Nat
  BY <1>3, EntryFields DEF Listing
<1>5. ASSUME NEW i \in DOMAIN list, link[list[i].id] # table[list[i].id].parent
      PROVE  /\ list[i].depth = 0
             /\ \A j \in DOMAIN list : list[j].id = table[list[i].id].parent =>
                                         RootInList(list, j) = list[i].id
  <2> DEFINE id == list[i].id
             parent == table[id].parent
  <2>1. id \in S /\ i \in 1..Len(list) /\ link[id] # parent
    BY <1>4, <1>5
  <2> HIDE DEF id
  <2>2. link[id] = NULL /\ (parent \in S => parent \in Below(link, id))
    BY <1>1, <1>2, <2>1, RootAboveDelegator
  <2> USE DEF id
  <2>3. list[i].depth = 0
    <3>1. SUFFICES ASSUME list[i].depth # 0 PROVE FALSE
      OBVIOUS
    <3>2. list[i].depth > 0
      BY <1>4, <2>1, <3>1
    <3>3. Under(list, link, i)
      BY <1>3, <2>1, <3>2 DEF Listing, Placed
    <3>4. PICK j \in 1..(i - 1) : list[j].id = link[list[i].id]
      BY <3>3 DEF Under
    <3>5. Len(list) \in Nat
      BY <1>3, EntryFields DEF Listing
    <3>6. list[j].id \in S
      BY <1>4, <2>1, <3>4, <3>5
    <3>7. QED
      BY <1>3, <2>2, <3>4, <3>6 DEF Forested, Listable
  <2>4. id \in Roots(S, link)
    BY <2>1, <2>2 DEF Roots
  <2> HIDE DEF id, parent
  <2>5. ASSUME NEW j \in DOMAIN list, list[j].id = parent
        PROVE  RootInList(list, j) = id
    <3>1. j \in 1..Len(list) /\ list[j].id \in Below(link, id)
      BY <1>4, <2>2, <2>5
    <3>2. QED
      BY <1>1, <2>4, <3>1, RootIsTree
  <2>6. QED
    BY <2>3, <2>5 DEF id, parent
<1>6. \A i \in DOMAIN list : ParentInList(list, i) = link[list[i].id]
  BY <1>1, <1>4, ParentOf
<1>7. QED
  BY <1>5, <1>6 DEF ListsUnderDelegator, list

LEMMA FreshTreesFirst ==
  ASSUME NEW table, Tabled(table), NEW scope \in BOOLEAN
  PROVE  ListsFreshestFirst(table, scope)
<1> DEFINE list == BuildForest(table, scope)
           S == ShownIds(table, scope)
           link == CutLinks(table, scope)
           q == RootOrder(table, scope)
           R == Roots(S, link)
           n == Cardinality(R)
           fresh(id) == Freshness(table, link, id)
<1>1. Shows(list, table, S, link, q)
  BY BuildForestShows
<1> HIDE DEF list, S, link, q
<1>2. /\ Forested(S, link) /\ Listing(list, S, link, S, R, 0) /\ Rated(table, S)
      /\ InTreeOrder(q, table, link, R)
      /\ InParts(list, n, [i \in 1..n |-> Below(link, q[i])])
  BY <1>1 DEF Shows
<1>3. DOMAIN list = 1..Len(list) /\ Len(list) \in Nat
      /\ \A x \in S : \E i \in 1..Len(list) : list[i].id = x
  BY <1>2, EntryFields DEF Listing
<1>4. R \subseteq S
  BY DEF Roots
<1> HIDE DEF R, n
<1>5. \A k \in 1..n : q[k] \in R
  BY <1>2 DEF InTreeOrder, n
<1>6. \A r \in R : /\ fresh(r) \in Int
                   /\ \A x \in Below(link, r) : fresh(r) >= table[x].activity
                   /\ \E x \in Below(link, r) : fresh(r) = table[x].activity
  BY <1>2, <1>4, FreshnessIs
<1>7. n \in Nat
  BY <1>2 DEF InTreeOrder, n
<1>8. ASSUME NEW k \in 1..n, NEW m \in 1..n, k <= m
      PROVE  fresh(q[k]) >= fresh(q[m])
  <2>1. CASE k = m
    BY <1>5, <1>6, <2>1
  <2>2. CASE k # m
    <3>1. k < m
      BY <1>7, <1>8, <2>2
    <3>2. Before(table, link, q[k], q[m])
      BY <1>2, <3>1 DEF InTreeOrder, n
    <3>3. fresh(q[k]) > fresh(q[m]) \/ fresh(q[k]) = fresh(q[m])
      BY <3>2 DEF Before
    <3> HIDE DEF fresh
    <3>4. fresh(q[k]) \in Int /\ fresh(q[m]) \in Int
      BY <1>5, <1>6
    <3>5. QED
      BY <3>3, <3>4
  <2>3. QED
    BY <2>1, <2>2
<1> HIDE DEF fresh
<1>9. ASSUME NEW i \in DOMAIN list, NEW j \in DOMAIN list, i < j
      PROVE  \E p \in DOMAIN list : /\ RootInList(list, p) = RootInList(list, i)
                                    /\ table[list[p].id].activity >= table[list[j].id].activity
  <2>1. i \in 1..Len(list) /\ j \in 1..Len(list) /\ i <= j
    BY <1>3, <1>9
  <2>2. PICK k \in 1..n, m \in 1..n :
          /\ k <= m /\ list[i].id \in Below(link, q[k]) /\ list[j].id \in Below(link, q[m])
    BY <1>2, <2>1 DEF InParts
  <2>3. q[k] \in R /\ q[m] \in R /\ fresh(q[k]) >= fresh(q[m])
    BY <1>5, <1>8, <2>2
  <2>4. RootInList(list, i) = q[k]
    BY <1>1, <2>1, <2>2, <2>3, RootIsTree DEF R
  <2>5. PICK x \in Below(link, q[k]) : fresh(q[k]) = table[x].activity
    BY <1>6, <2>3
  <2>6. x \in S /\ list[j].id \in S
    BY <1>2, <2>2, <2>5, BelowIs
  <2>7. PICK p \in 1..Len(list) : list[p].id = x
    BY <1>3, <2>6
  <2>8. RootInList(list, p) = q[k]
    BY <1>1, <2>3, <2>5, <2>7, RootIsTree DEF R
  <2>9. fresh(q[m]) >= table[list[j].id].activity
    BY <1>6, <2>2, <2>3
  <2>10. /\ table[x].activity \in Int /\ table[list[j].id].activity \in Int
         /\ fresh(q[k]) \in Int /\ fresh(q[m]) \in Int
    BY <1>2, <1>6, <2>3, <2>6 DEF Rated
  <2>11. table[x].activity >= table[list[j].id].activity
    BY <2>3, <2>5, <2>9, <2>10
  <2>12. QED
    BY <1>3, <2>4, <2>7, <2>8, <2>11
<1>10. QED
  BY <1>9 DEF ListsFreshestFirst, list

-----------------------------------------------------------------------------
(***************************************************************************)
(* The list in the picker.                                                 *)
(***************************************************************************)

\* Until they are shown, the rows are those of Ids.
RowsGiven == Shown \/ Tabled(rows)

LEMMA ListGiven == ListSpec => []RowsGiven
<1>1. ListInit => RowsGiven
  <2>1. SUFFICES ASSUME ListInit PROVE Tabled(rows)
    BY DEF RowsGiven
  <2>2. /\ DOMAIN rows = Ids
        /\ \A x \in Ids : rows[x].activity \in Activity
    BY <2>1 DEF ListInit
  <2>3. QED
    BY <2>2, ListAssumption DEF Tabled, Listable, Rated
<1>2. RowsGiven /\ [ListNext]_<<vars, rows>> => RowsGiven'
  <2>1. SUFFICES ASSUME RowsGiven, [ListNext]_<<vars, rows>> PROVE RowsGiven'
    OBVIOUS
  <2>2. rows' = <<>> \/ rows' = rows
    BY <2>1 DEF ListNext, ListShown
  <2>3. CASE rows' = <<>>
    BY <2>3 DEF RowsGiven, Shown
  <2>4. CASE rows' = rows
    BY <2>1, <2>4 DEF RowsGiven, Shown, Tabled, Listable, Rated
  <2>5. QED
    BY <2>2, <2>3, <2>4
<1>3. QED
  BY <1>1, <1>2, PTL DEF ListSpec

\* Whatever the rows and their links, what buildForest makes of them has each row that is
\* asked for once, and besides those only rows that hold a delegate.
THEOREM ForestListsEachOnce == ListSpec => []EachRowOnce
<1>1. RowsGiven => EachRowOnce
  BY EachOnce DEF RowsGiven, EachRowOnce
<1>2. QED
  BY <1>1, ListGiven, PTL

\* buildForest lists a row directly under its delegator, but for the row that each cycle
\* of delegations is cut at, whose delegator is then in its own tree.
THEOREM ForestListsUnderDelegator == ListSpec => []UnderDelegator
<1>1. RowsGiven => UnderDelegator
  BY UnderTheDelegator DEF RowsGiven, UnderDelegator
<1>2. QED
  BY <1>1, ListGiven, PTL

\* buildForest lists no tree before one in which a row has been active since.
THEOREM ForestListsFreshestFirst == ListSpec => []FreshestFirst
<1>1. RowsGiven => FreshestFirst
  BY FreshTreesFirst DEF RowsGiven, FreshestFirst
<1>2. QED
  BY <1>1, ListGiven, PTL
=============================================================================
