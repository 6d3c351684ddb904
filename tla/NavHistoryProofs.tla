-------------------------- MODULE NavHistoryProofs --------------------------
(***************************************************************************)
(* Proofs about NavHistory, for every NavLimit of at least 2.              *)
(***************************************************************************)
EXTENDS NavHistory, SequenceTheorems, WellFoundedInduction, TLAPS

\* A history between pushes and trims: well formed but for its length.
Run(h, lo, hi) ==
  /\ lo \in Nat \ {0} /\ hi \in Nat /\ lo <= hi
  /\ h \in [lo..hi -> Session]
  /\ \A p \in lo..hi - 1 : h[p] # h[p + 1]

LEMMA RunEnds ==
  ASSUME NEW h, NEW lo, NEW hi, Run(h, lo, hi)
  PROVE  Oldest(h) = lo /\ Newest(h) = hi /\ h # Empty /\ DOMAIN h = lo..hi
<1>1. DOMAIN h = lo..hi /\ lo \in lo..hi /\ hi \in lo..hi
  BY DEF Run
<1>2. \A p \in lo..hi : (\A q \in lo..hi : p <= q) <=> p = lo
  BY <1>1 DEF Run
<1>3. \A p \in lo..hi : (\A q \in lo..hi : q <= p) <=> p = hi
  BY <1>1 DEF Run
<1>4. DOMAIN Empty = {}
  BY DEF Empty
<1>5. QED
  BY <1>1, <1>2, <1>3, <1>4 DEF Oldest, Newest

LEMMA RunWellFormed ==
  ASSUME NEW h, NEW lo, NEW hi, Run(h, lo, hi), hi - lo < NavLimit
  PROVE  WellFormed(h)
<1>1. Oldest(h) = lo /\ Newest(h) = hi
  BY RunEnds
<1>2. QED
  BY <1>1 DEF WellFormed, Run

LEMMA WellFormedRun ==
  ASSUME NEW h, WellFormed(h), h # Empty
  PROVE  Run(h, Oldest(h), Newest(h))
<1>1. /\ Oldest(h) \in Nat \ {0} /\ Newest(h) \in Nat
      /\ h \in [Oldest(h)..Newest(h) -> Session]
      /\ \A p \in Oldest(h)..Newest(h) - 1 : h[p] # h[p + 1]
  BY DEF WellFormed
<1>2. Oldest(h) <= Newest(h)
  <2>1. SUFFICES ASSUME Oldest(h) > Newest(h) PROVE FALSE
    BY <1>1
  <2>2. Oldest(h)..Newest(h) = {}
    BY <1>1, <2>1
  <2>3. h = [p \in {} |-> NULL]
    BY <1>1, <2>2
  <2>4. QED
    BY <2>3 DEF Empty
<1>3. QED
  BY <1>1, <1>2 DEF Run

-----------------------------------------------------------------------------

\* A history whose current entry is at: a run, at its length unless at is its
\* newest position, or nothing yet.
Placed(h, lo, hi, at) ==
  Run(h, lo, hi) /\ at \in lo..hi /\ (at = hi \/ hi - lo < NavLimit)

\* What a push makes of a run: the run up to the current entry and one more.
LEMMA PushedOnRun ==
  ASSUME NEW h, NEW lo, NEW hi, NEW at \in lo..hi, NEW id \in Session,
         Run(h, lo, hi), id # h[at]
  PROVE  \E g : /\ Pushed(View(h, at), id) = View(g, at + 1)
                /\ Run(g, lo, at + 1)
                /\ g[at + 1] = id /\ g[at] = h[at]
<1> DEFINE g == [p \in lo..at + 1 |-> IF p = at + 1 THEN id ELSE h[p]]
<1>1. at \in Nat \ {0} /\ lo \in Nat \ {0} /\ hi \in Nat /\ DOMAIN h = lo..hi
  BY DEF Run
<1>2. {q \in DOMAIN h : q <= at} \cup {at + 1} = lo..at + 1
  BY <1>1
<1>3. Pushed(View(h, at), id) = View(g, at + 1)
  BY <1>1, <1>2, NavAssumption DEF Pushed, View, SessionAt
<1>4. g \in [lo..at + 1 -> Session]
  BY <1>1 DEF Run
<1>5. \A p \in lo..at : g[p] # g[p + 1]
  BY <1>1 DEF Run
<1>6. Run(g, lo, at + 1)
  BY <1>1, <1>4, <1>5 DEF Run
<1>7. g[at + 1] = id /\ g[at] = h[at]
  BY <1>1
<1> HIDE DEF g
<1>8. QED
  BY <1>3, <1>6, <1>7

LEMMA PushedOnEmpty ==
  ASSUME NEW id \in Session
  PROVE  \E g : /\ Pushed(View(Empty, 0), id) = View(g, 1)
                /\ Run(g, 1, 1) /\ g[1] = id
<1> DEFINE g == [p \in 1..1 |-> id]
<1>1. {q \in DOMAIN Empty : q <= 0} \cup {0 + 1} = 1..1
  BY DEF Empty
<1>2. Pushed(View(Empty, 0), id) = View(g, 1)
  BY <1>1, NavAssumption DEF Pushed, View, SessionAt
<1>3. Run(g, 1, 1) /\ g[1] = id
  BY DEF Run
<1> HIDE DEF g
<1>4. QED
  BY <1>2, <1>3

LEMMA PushedNothing ==
  ASSUME NEW h, NEW at, NEW id, id = NULL \/ id = SessionAt(h, at)
  PROVE  Pushed(View(h, at), id) = View(h, at)
BY DEF Pushed, View

\* A push of a session makes it the current one, right after the one that was.
LEMMA PushedPlaced ==
  ASSUME NEW h, NEW at, NEW id \in Session,
         \/ h = Empty /\ at = 0
         \/ \E lo, hi : Placed(h, lo, hi, at)
  PROVE  \E g, k, lo, hi :
           /\ Pushed(View(h, at), id) = View(g, k)
           /\ Placed(g, lo, hi, k) /\ g[k] = id
           /\ h # Empty /\ id # h[at] =>
                k - 1 \in lo..hi /\ g[k - 1] = h[at]
<1>1. CASE h = Empty /\ at = 0
  <2>1. PICK g : Pushed(View(Empty, 0), id) = View(g, 1) /\ Run(g, 1, 1) /\ g[1] = id
    BY PushedOnEmpty
  <2>2. Placed(g, 1, 1, 1)
    BY <2>1 DEF Placed
  <2>3. QED
    BY <1>1, <2>1, <2>2
<1>2. ASSUME NEW lo, NEW hi, Placed(h, lo, hi, at), id = h[at]
      PROVE  Pushed(View(h, at), id) = View(h, at)
  <2>1. at # 0
    BY <1>2 DEF Placed, Run
  <2>2. QED
    BY <1>2, <2>1, PushedNothing DEF SessionAt
<1>3. ASSUME NEW lo, NEW hi, Placed(h, lo, hi, at), id # h[at]
      PROVE  \E g : /\ Pushed(View(h, at), id) = View(g, at + 1)
                    /\ Placed(g, lo, at + 1, at + 1) /\ g[at + 1] = id
                    /\ (at + 1) - 1 \in lo..at + 1 /\ g[(at + 1) - 1] = h[at]
  <2>1. at \in lo..hi /\ Run(h, lo, hi)
    BY <1>3 DEF Placed
  <2>2. PICK g : /\ Pushed(View(h, at), id) = View(g, at + 1)
                 /\ Run(g, lo, at + 1)
                 /\ g[at + 1] = id /\ g[at] = h[at]
    BY <1>3, <2>1, PushedOnRun
  <2>3. lo \in Nat /\ at \in Nat /\ lo <= at /\ (at + 1) - 1 = at
    BY <2>1 DEF Run
  <2>4. Placed(g, lo, at + 1, at + 1)
    BY <2>2, <2>3 DEF Placed
  <2>5. QED
    BY <2>2, <2>3, <2>4
<1>4. QED
  BY <1>1, <1>2, <1>3

\* The trim after the pushes leaves a run that fits, and never the entry before
\* the current one behind.
LEMMA TrimmedRun ==
  ASSUME NEW h, NEW lo, NEW hi, NEW at, Placed(h, lo, hi, at)
  PROVE  LET g == Trimmed(View(h, at))
         IN  /\ WellFormed(g)
             /\ g # Empty
             /\ at \in DOMAIN g /\ g[at] = h[at]
             /\ at - 1 \in lo..hi => at - 1 \in DOMAIN g /\ g[at - 1] = h[at - 1]
<1> DEFINE g == Trimmed(View(h, at))
           first == IF lo > at - NavLimit THEN lo ELSE at - NavLimit + 1
<1>1. /\ at \in lo..hi /\ at \in Nat \ {0} /\ lo \in Nat \ {0} /\ hi \in Nat
      /\ DOMAIN h = lo..hi
      /\ at = hi \/ hi - lo < NavLimit
      /\ Run(h, lo, hi)
  BY DEF Run, Placed
<1>2. NavLimit \in Nat /\ NavLimit >= 2
  BY NavAssumption
<1>3. first \in Nat \ {0} /\ first <= at /\ lo <= first /\ hi - first < NavLimit
  BY <1>1, <1>2
<1>4. {q \in DOMAIN h : q > at - NavLimit} = first..hi
  BY <1>1, <1>2
<1>5. g = [p \in first..hi |-> h[p]]
  BY <1>4 DEF Trimmed, View
<1>6. at - 1 \in lo..hi => at - 1 \in first..hi
  BY <1>1, <1>2
<1> HIDE DEF first, g
<1>7. Run(g, first, hi)
  BY <1>1, <1>3, <1>5 DEF Run
<1>8. WellFormed(g) /\ g # Empty
  BY <1>3, <1>7, RunWellFormed, RunEnds
<1>9. QED
  BY <1>1, <1>3, <1>5, <1>6, <1>8 DEF g

-----------------------------------------------------------------------------

\* PushNav as a whole: the run it leaves, with the target current and the origin
\* before it.
LEMMA PushNavShape ==
  ASSUME HistoryWellFormed,
         NEW origin \in Session \cup {NULL}, NEW target \in Session,
         PushNav(origin, target)
  PROVE  \E g, k, lo, hi :
           /\ history' = Trimmed(View(g, k)) /\ cursor' = k
           /\ Placed(g, lo, hi, k) /\ g[k] = target
           /\ origin # NULL /\ origin # target =>
                k - 1 \in lo..hi /\ g[k - 1] = origin
<1> DEFINE at == At(history, cursor)
<1>1. \/ history = Empty /\ at = 0
      \/ \E lo, hi : Placed(history, lo, hi, at)
  <2>1. CASE history = Empty
    BY <2>1 DEF At
  <2>2. CASE history # Empty
    <3>1. Run(history, Oldest(history), Newest(history))
      BY <2>2, WellFormedRun DEF HistoryWellFormed
    <3>2. DOMAIN history = Oldest(history)..Newest(history)
      BY <3>1 DEF Run
    <3>3. Newest(history) - Oldest(history) < NavLimit
      BY <2>2 DEF HistoryWellFormed, WellFormed
    <3>4. at \in Oldest(history)..Newest(history)
      BY <2>2, <3>1, <3>2 DEF At, Run
    <3>5. QED
      BY <3>1, <3>3, <3>4 DEF Placed
  <2>3. QED
    BY <2>1, <2>2
<1> HIDE DEF at
<1>2. PICK h, k0 :
        /\ Pushed(View(history, at), origin) = View(h, k0)
        /\ \/ h = Empty /\ k0 = 0 /\ origin = NULL
           \/ /\ h # Empty
              /\ \E lo, hi : Placed(h, lo, hi, k0)
              /\ origin # NULL => h[k0] = origin
  <2>1. CASE origin = NULL
    <3>1. Pushed(View(history, at), origin) = View(history, at)
      BY <2>1, PushedNothing
    <3>2. \A lo, hi : Placed(history, lo, hi, at) => history # Empty
      BY RunEnds DEF Placed
    <3>3. QED
      BY <1>1, <2>1, <3>1, <3>2
  <2>2. CASE origin \in Session
    <3>1. PICK g, k, lo, hi : /\ Pushed(View(history, at), origin) = View(g, k)
                              /\ Placed(g, lo, hi, k) /\ g[k] = origin
      BY <1>1, <2>2, PushedPlaced
    <3>2. g # Empty
      BY <3>1, RunEnds DEF Placed
    <3>3. QED
      BY <3>1, <3>2
  <2>3. QED
    BY <2>1, <2>2
<1>3. PICK g, k, lo, hi :
        /\ Pushed(View(h, k0), target) = View(g, k)
        /\ Placed(g, lo, hi, k) /\ g[k] = target
        /\ h # Empty /\ target # h[k0] => k - 1 \in lo..hi /\ g[k - 1] = h[k0]
  BY <1>2, PushedPlaced
<1>4. history' = Trimmed(View(g, k)) /\ cursor' = View(g, k).at
  BY <1>2, <1>3 DEF PushNav, at
<1>5. View(g, k).at = k
  BY DEF View
<1>6. QED
  BY <1>2, <1>3, <1>4, <1>5

-----------------------------------------------------------------------------

\* What a walk holds on to: a snapshot that was not empty, and once it has
\* switched, a position.  The history never becomes empty again under it.
WalkUnderWay ==
  \A w \in Walker :
    walk[w].phase # "idle" =>
      /\ history # Empty
      /\ walk[w].phase = "read" => walk[w].seen # Empty

IInv == TypeOK /\ HistoryWellFormed /\ WalkUnderWay

\* A non-empty set of naturals has a least element.
LEMMA LeastOfNaturals ==
  ASSUME NEW T \in SUBSET Nat, T # {}
  PROVE  \E m \in T : \A q \in T : m <= q
<1> DEFINE below == OpToRel(<, Nat)
<1>1. below = {ss \in Nat \X Nat : ss[1] < ss[2]}
  BY DEF OpToRel
<1>2. IsWellFoundedOn(below, Nat)
  BY NatLessThanWellFounded
<1> HIDE DEF below
<1>3. PICK m \in T : \A q \in T : ~ (<<q, m>> \in below)
  BY <1>2, WFMin
<1>4. \A q \in T : ~ (q < m)
  BY <1>1, <1>3
<1>5. QED
  BY <1>3, <1>4

LEMMA EmptyWellFormed == WellFormed(Empty)
BY DEF WellFormed

LEMMA IInvInit == Init => IInv
<1> SUFFICES ASSUME Init PROVE IInv
  OBVIOUS
<1>1. HistoryWellFormed
  BY EmptyWellFormed DEF Init, HistoryWellFormed
<1>2. TypeOK
  BY EmptyWellFormed DEF Init, TypeOK, Idle, Forward
<1>3. WalkUnderWay
  BY DEF Init, WalkUnderWay, Idle
<1>4. QED
  BY <1>1, <1>2, <1>3 DEF IInv

LEMMA JumpStep ==
  ASSUME IInv, NEW origin \in Session \cup {NULL}, NEW target \in Session,
         PushNav(origin, target)
  PROVE  IInv'
<1>1. PICK g, k, lo, hi : /\ history' = Trimmed(View(g, k)) /\ cursor' = k
                          /\ Placed(g, lo, hi, k)
  BY PushNavShape DEF IInv
<1>2. WellFormed(history') /\ history' # Empty
  BY <1>1, TrimmedRun
<1>3. cursor' \in Nat
  BY <1>1 DEF Placed, Run
<1>4. UNCHANGED walk
  BY DEF PushNav
<1>5. HistoryWellFormed'
  BY <1>2, <1>3, NavAssumption DEF HistoryWellFormed
<1>6. TypeOK'
  BY <1>3, <1>4 DEF IInv, TypeOK
<1>7. WalkUnderWay'
  BY <1>2, <1>4 DEF IInv, WalkUnderWay
<1>8. QED
  BY <1>5, <1>6, <1>7 DEF IInv

\* What a step of a walker may make of its local state.
LocalOK(r) ==
  /\ r.phase \in {"idle", "read", "switched"}
  /\ r.step \in {Back, Forward}
  /\ r.pos \in Nat
  /\ WellFormed(r.seen)
  /\ r.phase = "read" => r.seen # Empty

LEMMA LocalStep ==
  ASSUME IInv, NEW w \in Walker, NEW r, LocalOK(r),
         walk' = [walk EXCEPT ![w] = r], UNCHANGED history,
         cursor' \in Nat \cup {NULL}, cursor' = NULL <=> history = Empty,
         r.phase = "idle" \/ history # Empty
  PROVE  IInv'
<1>1. DOMAIN walk = Walker
  BY DEF IInv, TypeOK
<1>2. DOMAIN walk' = Walker /\ \A x \in Walker : walk'[x] = IF x = w THEN r ELSE walk[x]
  BY <1>1
<1>3. TypeOK'
  BY <1>2 DEF IInv, TypeOK, LocalOK
<1>4. WalkUnderWay'
  BY <1>2 DEF IInv, WalkUnderWay, LocalOK
<1>5. HistoryWellFormed'
  BY DEF IInv, HistoryWellFormed
<1>6. QED
  BY <1>3, <1>4, <1>5 DEF IInv

LEMMA IdleOK == LocalOK(Idle) /\ Idle.phase = "idle"
BY EmptyWellFormed DEF LocalOK, Idle, Forward

LEMMA WalkStep ==
  ASSUME IInv, NEW w \in Walker, Walk(w)
  PROVE  IInv'
<1>1. cursor \in Nat \cup {NULL} /\ (cursor = NULL <=> history = Empty)
  BY DEF IInv, TypeOK, HistoryWellFormed
<1>2. ASSUME NEW step \in {Back, Forward}, ReadHistory(w, step)
      PROVE  IInv'
  <2> DEFINE r == [phase |-> "read", step |-> step, seen |-> history, pos |-> 0]
  <2>1. walk' = [walk EXCEPT ![w] = r] /\ UNCHANGED <<history, cursor>> /\ history # Empty
    BY <1>2 DEF ReadHistory
  <2>2. LocalOK(r)
    BY <2>1 DEF LocalOK, IInv, HistoryWellFormed
  <2> HIDE DEF r
  <2>3. QED
    BY <1>1, <2>1, <2>2, LocalStep
<1>3. ASSUME NEW client, NEW reachable, Switch(w, client, reachable)
      PROVE  IInv'
  <2>1. history # Empty /\ WellFormed(walk[w].seen) /\ walk[w].seen # Empty
    BY <1>3 DEF Switch, IInv, TypeOK, WalkUnderWay
  <2>2. ASSUME NEW p \in DOMAIN walk[w].seen PROVE p \in Nat
    BY <2>1, WellFormedRun DEF Run
  <2>3. ASSUME NEW p \in DOMAIN walk[w].seen
        PROVE  LocalOK([Idle EXCEPT !.phase = "switched", !.pos = p])
    BY <2>2, EmptyWellFormed DEF LocalOK, Idle, Forward
  <2>4. UNCHANGED <<history, cursor>>
    BY <1>3 DEF Switch
  <2>5. \/ walk' = [walk EXCEPT ![w] = Idle]
        \/ \E p \in DOMAIN walk[w].seen :
             walk' = [walk EXCEPT ![w] = [Idle EXCEPT !.phase = "switched", !.pos = p]]
    BY <1>3 DEF Switch
  <2>6. CASE walk' = [walk EXCEPT ![w] = Idle]
    BY <1>1, <2>4, <2>6, IdleOK, LocalStep
  <2>7. ASSUME NEW r, LocalOK(r), walk' = [walk EXCEPT ![w] = r]
        PROVE  IInv'
    BY <1>1, <2>1, <2>4, <2>7, LocalStep
  <2>8. QED
    BY <2>3, <2>5, <2>6, <2>7
<1>4. CASE SetNavCursor(w)
  <2>1. walk[w].pos \in Nat /\ history # Empty
    BY <1>4 DEF SetNavCursor, IInv, TypeOK, WalkUnderWay
  <2>2. cursor' \in Nat /\ cursor' # NULL
    BY <1>4, <2>1, NavAssumption DEF SetNavCursor
  <2>3. walk' = [walk EXCEPT ![w] = Idle] /\ UNCHANGED history
    BY <1>4 DEF SetNavCursor
  <2>4. QED
    BY <2>1, <2>2, <2>3, IdleOK, LocalStep
<1>5. CASE SaveFails(w)
  BY <1>1, <1>5, IdleOK, LocalStep DEF SaveFails
<1>6. QED
  BY <1>2, <1>3, <1>4, <1>5 DEF Walk

LEMMA IInvHolds == Spec => []IInv
<1>1. IInv /\ [Next]_vars => IInv'
  <2> SUFFICES ASSUME IInv, [Next]_vars PROVE IInv'
    OBVIOUS
  <2>1. CASE Jump
    BY <2>1, JumpStep DEF Jump
  <2>2. ASSUME NEW w \in Walker, Walk(w) PROVE IInv'
    BY <2>2, WalkStep
  <2>3. CASE UNCHANGED vars
    BY <2>3 DEF vars, IInv, TypeOK, HistoryWellFormed, WalkUnderWay
  <2>4. QED
    BY <2>1, <2>2, <2>3 DEF Next
<1>2. QED
  BY IInvInit, <1>1, PTL DEF Spec

-----------------------------------------------------------------------------

\* Cursor and walks keep their types, and no walk holds an ill-formed snapshot.
THEOREM NavTypeCorrect == Spec => []TypeOK
<1>1. IInv => TypeOK
  BY DEF IInv
<1>2. QED
  BY <1>1, IInvHolds, PTL

\* The history is a gap-free run of at most NavLimit entries with no session
\* twice in a row, wherever walks leave the cursor (PushNav).
THEOREM HistoryStaysWellFormed == Spec => []HistoryWellFormed
<1>1. IInv => HistoryWellFormed
  BY DEF IInv
<1>2. QED
  BY <1>1, IInvHolds, PTL

\* Forward undoes back (walkHistory), for a history of any length.
THEOREM ForwardUndoesBack == Spec => []BackThenForwardReturns
<1>1. ASSUME IInv, NEW at \in DOMAIN history, NEW back \in DOMAIN history,
             NEW reachable \in SUBSET Session,
             history[at] \in reachable,
             Lands(history, at, Back, history[at], reachable \ {history[at]}, back)
      PROVE  \E again \in DOMAIN history :
               /\ Lands(history, back, Forward, history[back],
                        reachable \ {history[back]}, again)
               /\ history[again] = history[at]
  <2>1. Run(history, Oldest(history), Newest(history))
    BY <1>1, WellFormedRun DEF IInv, HistoryWellFormed, Empty
  <2>2. DOMAIN history \subseteq Nat
    BY <2>1 DEF Run
  <2>3. back < at /\ history[back] \in reachable /\ history[back] # history[at]
    BY <1>1, <2>2 DEF Lands, Candidates, WalkFrom, Back
  <2>4. \A q \in DOMAIN history :
          q < at /\ history[q] \in reachable \ {history[at]} => q <= back
    BY <1>1, <2>2 DEF Lands, Candidates, WalkFrom, Back
  <2> DEFINE there == Candidates(history, back, Forward, history[back],
                                 reachable \ {history[back]})
  <2>5. there = {q \in DOMAIN history : q > back /\ history[q] \in reachable \ {history[back]}}
    BY <1>1, <2>2 DEF Candidates, WalkFrom, Forward, Back
  <2>6. at \in there /\ there \in SUBSET Nat
    BY <1>1, <2>2, <2>3, <2>5
  <2> HIDE DEF there
  <2>7. PICK again \in there : \A q \in there : again <= q
    BY <2>6, LeastOfNaturals
  <2>8. Lands(history, back, Forward, history[back],
              reachable \ {history[back]}, again)
    <3>1. \A q \in there : (q - again) * Forward >= 0
      BY <2>6, <2>7 DEF Forward
    <3>2. QED
      BY <2>7, <3>1 DEF Lands, there
  <2>9. again <= at /\ again > back /\ again \in DOMAIN history /\ history[again] \in reachable
    BY <2>5, <2>6, <2>7
  <2>10. history[again] = history[at]
    BY <1>1, <2>2, <2>4, <2>9
  <2>11. QED
    BY <2>8, <2>9, <2>10
<1>2. IInv => BackThenForwardReturns
  BY <1>1 DEF BackThenForwardReturns
<1>3. QED
  BY <1>2, IInvHolds, PTL

\* After a jump between two sessions the current entry is the target and the one
\* before it the origin, for every NavLimit of at least 2 (PushNav).
THEOREM JumpsLeaveWayBack == Spec => JumpLeavesWayBack
<1> DEFINE WayBack(origin, target) ==
             /\ cursor' \in DOMAIN history' /\ history'[cursor'] = target
             /\ cursor' - 1 \in DOMAIN history' /\ history'[cursor' - 1] = origin
<1>1. ASSUME IInv, NEW origin \in Session, NEW target \in Session,
             origin # target, PushNav(origin, target)
      PROVE  WayBack(origin, target)
  <2>1. PICK g, k, lo, hi : /\ history' = Trimmed(View(g, k)) /\ cursor' = k
                            /\ Placed(g, lo, hi, k) /\ g[k] = target
                            /\ k - 1 \in lo..hi /\ g[k - 1] = origin
    BY <1>1, PushNavShape, NavAssumption DEF IInv
  <2>2. QED
    BY <2>1, TrimmedRun
<1>2. IInv => [\A origin, target \in Session :
                 origin # target /\ PushNav(origin, target) => WayBack(origin, target)]_vars
  BY <1>1
<1>3. QED
  BY <1>2, IInvHolds, PTL DEF JumpLeavesWayBack

-----------------------------------------------------------------------------
(***************************************************************************)
(* The history as a list of visits: positions lo to at, oldest first.      *)
(***************************************************************************)
Visits(h, lo, at) == [i \in 1..(at - lo + 1) |-> h[lo + i - 1]]

\* s lists what is up to the current entry at.
Lists(s, h, at) ==
  \/ h = Empty /\ at = 0 /\ s = << >>
  \/ \E lo, hi : Placed(h, lo, hi, at) /\ s = Visits(h, lo, at)

\* Nothing lies ahead of the entry at that s ends with.
Ends(s, h, at) == \E lo : Run(h, lo, at) /\ s = Visits(h, lo, at)

Inside(h, lo, hi, at) == Run(h, lo, hi) /\ at \in lo..hi

\* s is what h has from lo to at.
IsList(s, h, lo, at) ==
  /\ s \in Seq(Session) /\ Len(s) = at - lo + 1 /\ at - lo + 1 \in Nat \ {0}
  /\ \A i \in 1..(at - lo + 1) : s[i] = h[lo + i - 1]

LEMMA VisitsList ==
  ASSUME NEW h, NEW lo, NEW hi, NEW at, Inside(h, lo, hi, at)
  PROVE  IsList(Visits(h, lo, at), h, lo, at)
<1> DEFINE n == at - lo + 1
<1>1. /\ lo \in Nat /\ hi \in Nat /\ at \in Nat /\ lo <= at /\ at <= hi
      /\ h \in [lo..hi -> Session]
  BY DEF Inside, Run
<1>2. n \in Nat \ {0}
  BY <1>1
<1>3. \A i \in 1..n : h[lo + i - 1] \in Session
  BY <1>1
<1>4. Visits(h, lo, at) = [i \in 1..n |-> h[lo + i - 1]]
  BY DEF Visits
<1> HIDE DEF n
<1>5. Visits(h, lo, at) \in [1..n -> Session]
  BY <1>3, <1>4
<1>6. Visits(h, lo, at) \in Seq(Session)
  BY <1>2, <1>5, SeqDef
<1>7. Len(Visits(h, lo, at)) = n
  BY <1>2, <1>5, <1>6, LenProperties
<1>8. QED
  BY <1>2, <1>4, <1>6, <1>7 DEF n, IsList

\* The list up to an entry is the beginning of the list.
LEMMA VisitsCut ==
  ASSUME NEW h, NEW lo, NEW hi, NEW at, Inside(h, lo, hi, at)
  PROVE  SubSeq(Visits(h, lo, hi), 1, at - lo + 1) = Visits(h, lo, at)
<1> DEFINE s == Visits(h, lo, hi)  n == at - lo + 1  t == SubSeq(s, 1, n)
<1>1. lo \in Nat /\ hi \in Nat /\ at \in Nat /\ lo <= at /\ at <= hi
  BY DEF Inside, Run
<1>2. s \in Seq(Session) /\ Len(s) = hi - lo + 1
      /\ \A i \in 1..(hi - lo + 1) : s[i] = h[lo + i - 1]
  <2>1. Inside(h, lo, hi, hi)
    BY DEF Inside, Run
  <2>2. IsList(s, h, lo, hi)
    BY <2>1, VisitsList
  <2>3. QED
    BY <2>2 DEF IsList
<1>3. Visits(h, lo, at) \in Seq(Session) /\ Len(Visits(h, lo, at)) = n /\ n \in Nat \ {0}
      /\ \A i \in 1..n : Visits(h, lo, at)[i] = h[lo + i - 1]
  <2>1. IsList(Visits(h, lo, at), h, lo, at)
    BY VisitsList
  <2>2. QED
    BY <2>1 DEF IsList
<1>4. n <= hi - lo + 1
  BY <1>1
<1> HIDE DEF s, n
<1>5. \A i \in 1..n : s[i] \in Session
  BY <1>1, <1>2, <1>3, <1>4, ElementOfSeq
<1>6. t \in Seq(Session) /\ Len(t) = n /\ \A i \in 1..n : t[i] = s[i]
  BY <1>3, <1>5, SubSeqProperties
<1> HIDE DEF t
<1>7. ASSUME NEW i \in 1..n PROVE t[i] = Visits(h, lo, at)[i]
  <2>1. i \in 1..(hi - lo + 1)
    BY <1>1, <1>3, <1>4
  <2>2. t[i] = s[i]
    BY <1>6
  <2>3. s[i] = h[lo + i - 1]
    BY <1>2, <2>1
  <2>4. Visits(h, lo, at)[i] = h[lo + i - 1]
    BY <1>3
  <2>5. QED
    BY <2>2, <2>3, <2>4
<1>8. t = Visits(h, lo, at)
  BY <1>3, <1>6, <1>7, SeqEqual
<1>9. QED
  BY <1>8 DEF t, s, n

\* A push is a visit: it changes nothing, or it is the last of the list.
LEMMA PushIsVisit ==
  ASSUME NEW h, NEW at, NEW s, Lists(s, h, at), NEW id \in Session \cup {NULL}
  PROVE  \E g, k :
           /\ Pushed(View(h, at), id) = View(g, k)
           /\ Lists(Browser!AfterVisit(s, id), g, k)
           /\ \/ g = h /\ k = at /\ Browser!AfterVisit(s, id) = s /\ (id = NULL \/ h # Empty)
              \/ /\ Ends(Browser!AfterVisit(s, id), g, k)
                 /\ s \in Seq(Session) /\ Browser!AfterVisit(s, id) \in Seq(Session)
                 /\ Len(Browser!AfterVisit(s, id)) = Len(s) + 1
<1>1. CASE id = NULL
  BY <1>1, PushedNothing DEF Browser!AfterVisit
<1>2. CASE h = Empty /\ at = 0 /\ s = << >> /\ id \in Session
  <2>1. PICK g : Pushed(View(Empty, 0), id) = View(g, 1) /\ Run(g, 1, 1) /\ g[1] = id
    BY <1>2, PushedOnEmpty
  <2>2. Browser!AfterVisit(s, id) = Append(<< >>, id)
    BY <1>2, NavAssumption DEF Browser!AfterVisit
  <2>3. << >> \in Seq(Session) /\ Len(<< >>) = 0
    BY EmptySeq
  <2>4. /\ Append(<< >>, id) \in Seq(Session) /\ Len(Append(<< >>, id)) = 1
        /\ Append(<< >>, id)[1] = id
    BY <1>2, <2>3, AppendProperties
  <2>5. Visits(g, 1, 1) \in Seq(Session) /\ Len(Visits(g, 1, 1)) = 1 /\ Visits(g, 1, 1)[1] = id
    <3>1. Inside(g, 1, 1, 1)
      BY <2>1 DEF Inside
    <3>2. IsList(Visits(g, 1, 1), g, 1, 1)
      BY <3>1, VisitsList
    <3>3. QED
      BY <2>1, <3>2 DEF IsList
  <2>6. Append(<< >>, id) = Visits(g, 1, 1)
    BY <2>4, <2>5, SeqEqual
  <2>7. Placed(g, 1, 1, 1)
    BY <2>1 DEF Placed
  <2>8. Lists(Append(<< >>, id), g, 1) /\ Ends(Append(<< >>, id), g, 1)
    BY <2>1, <2>6, <2>7 DEF Lists, Ends
  <2>9. QED
    <3>1. Pushed(View(h, at), id) = View(g, 1) /\ s \in Seq(Session) /\ Len(s) = 0
      BY <1>2, <2>1, <2>3
    <3>2. /\ Lists(Browser!AfterVisit(s, id), g, 1) /\ Ends(Browser!AfterVisit(s, id), g, 1)
          /\ Browser!AfterVisit(s, id) \in Seq(Session)
          /\ Len(Browser!AfterVisit(s, id)) = 1
      BY <2>2, <2>4, <2>8
    <3>3. Len(Browser!AfterVisit(s, id)) = Len(s) + 1
      BY <3>1, <3>2
    <3>4. QED
      BY <3>1, <3>2, <3>3, Zenon
<1>3. ASSUME NEW lo, NEW hi, Placed(h, lo, hi, at), s = Visits(h, lo, at), id \in Session
      PROVE  \E g, k :
               /\ Pushed(View(h, at), id) = View(g, k)
               /\ Lists(Browser!AfterVisit(s, id), g, k)
               /\ \/ /\ g = h /\ k = at /\ Browser!AfterVisit(s, id) = s
                     /\ (id = NULL \/ h # Empty)
                  \/ /\ Ends(Browser!AfterVisit(s, id), g, k)
                     /\ s \in Seq(Session) /\ Browser!AfterVisit(s, id) \in Seq(Session)
                     /\ Len(Browser!AfterVisit(s, id)) = Len(s) + 1
  <2>1. /\ Run(h, lo, hi) /\ at \in lo..hi /\ h # Empty /\ at # 0
        /\ lo \in Nat /\ at \in Nat /\ lo <= at /\ hi \in Nat /\ lo # 0
    <3>1. Run(h, lo, hi) /\ at \in lo..hi
      BY <1>3 DEF Placed
    <3>2. h # Empty
      BY <3>1, RunEnds
    <3>3. lo \in Nat /\ at \in Nat /\ lo <= at /\ hi \in Nat /\ lo # 0 /\ at # 0
      BY <3>1 DEF Run
    <3>4. QED
      BY <3>1, <3>2, <3>3
  <2>2. /\ s \in Seq(Session) /\ Len(s) = at - lo + 1 /\ Len(s) \in Nat \ {0}
        /\ \A i \in 1..(at - lo + 1) : s[i] = h[lo + i - 1]
    <3>1. Inside(h, lo, hi, at)
      BY <2>1 DEF Inside
    <3>2. IsList(s, h, lo, at)
      BY <1>3, <3>1, VisitsList
    <3>3. QED
      BY <3>2 DEF IsList
  <2>3. s # << >> /\ s[Len(s)] = h[at]
    <3>1. s[at - lo + 1] = h[lo + (at - lo + 1) - 1]
      BY <2>1, <2>2
    <3>2. lo + (at - lo + 1) - 1 = at
      BY <2>1
    <3>3. Len(<< >>) = 0
      BY EmptySeq
    <3>4. QED
      BY <2>2, <3>1, <3>2, <3>3
  <2>4. CASE id = h[at]
    <3>1. Browser!AfterVisit(s, id) = s
      BY <2>3, <2>4 DEF Browser!AfterVisit
    <3>2. Pushed(View(h, at), id) = View(h, at)
      BY <2>1, <2>4, PushedNothing DEF SessionAt
    <3>3. QED
      BY <2>1, <3>1, <3>2
  <2>5. CASE id # h[at]
    <3> DEFINE g == [p \in lo..at + 1 |-> IF p = at + 1 THEN id ELSE h[p]]
               t == Append(s, id)
    <3>1. Browser!AfterVisit(s, id) = t
      BY <1>3, <2>3, <2>5, NavAssumption DEF Browser!AfterVisit
    <3>2. DOMAIN h = lo..hi
      BY <2>1 DEF Run
    <3>3. {q \in DOMAIN h : q <= at} \cup {at + 1} = lo..at + 1
      BY <2>1, <3>2
    <3>4. Pushed(View(h, at), id) = View(g, at + 1)
      BY <1>3, <2>1, <2>5, <3>3, NavAssumption DEF Pushed, View, SessionAt
    <3>5. g \in [lo..at + 1 -> Session]
      BY <1>3, <2>1 DEF Run
    <3>6. \A p \in lo..at : g[p] # g[p + 1]
      BY <2>1, <2>5 DEF Run
    <3>7. Run(g, lo, at + 1)
      <4>1. (at + 1) - 1 = at /\ lo \in Nat \ {0} /\ at + 1 \in Nat /\ lo <= at + 1
        BY <2>1
      <4> HIDE DEF g
      <4>2. QED
        BY <3>5, <3>6, <4>1 DEF Run
    <3>8. /\ g[at + 1] = id
          /\ \A p \in lo..at : g[p] = h[p]
      BY <2>1
    <3> HIDE DEF g
    <3>9. /\ t \in Seq(Session) /\ Len(t) = Len(s) + 1 /\ t[Len(s) + 1] = id
          /\ \A i \in 1..Len(s) : t[i] = s[i]
      BY <1>3, <2>2, AppendProperties
    <3>10. /\ Visits(g, lo, at + 1) \in Seq(Session)
           /\ Len(Visits(g, lo, at + 1)) = (at + 1) - lo + 1
           /\ \A i \in 1..((at + 1) - lo + 1) : Visits(g, lo, at + 1)[i] = g[lo + i - 1]
      <4>1. Inside(g, lo, at + 1, at + 1)
        BY <2>1, <3>7 DEF Inside
      <4>2. IsList(Visits(g, lo, at + 1), g, lo, at + 1)
        BY <4>1, VisitsList
      <4>3. QED
        BY <4>2 DEF IsList
    <3>11. Len(Visits(g, lo, at + 1)) = Len(t)
      BY <2>1, <2>2, <3>9, <3>10
    <3> HIDE DEF t
    <3>12. ASSUME NEW i \in 1..Len(t) PROVE t[i] = Visits(g, lo, at + 1)[i]
      <4>1. Visits(g, lo, at + 1)[i] = g[lo + i - 1]
        BY <2>1, <2>2, <3>9, <3>10
      <4>2. CASE i = Len(s) + 1
        <5>1. lo + i - 1 = at + 1
          BY <2>1, <2>2, <4>2
        <5>2. QED
          BY <3>8, <3>9, <4>1, <4>2, <5>1
      <4>3. CASE i \in 1..Len(s)
        <5>1. lo + i - 1 \in lo..at /\ i \in 1..(at - lo + 1)
          BY <2>1, <2>2, <4>3
        <5>2. QED
          BY <2>2, <3>8, <3>9, <4>1, <4>3, <5>1
      <4>4. QED
        BY <2>2, <3>9, <4>2, <4>3
    <3>13. t = Visits(g, lo, at + 1)
      BY <3>9, <3>10, <3>11, <3>12, SeqEqual
    <3>14. Placed(g, lo, at + 1, at + 1)
      BY <2>1, <3>7 DEF Placed
    <3>15. Lists(t, g, at + 1) /\ Ends(t, g, at + 1)
      BY <3>7, <3>13, <3>14 DEF Lists, Ends
    <3>16. QED
      BY <2>2, <3>1, <3>4, <3>9, <3>15
  <2>6. QED
    BY <2>4, <2>5
<1>4. QED
  BY <1>1, <1>2, <1>3 DEF Lists

\* The trim keeps the newest visits.
LEMMA TrimKeepsNewest ==
  ASSUME NEW s, NEW h, NEW at, Ends(s, h, at)
  PROVE  LET g == Trimmed(View(h, at))
         IN  /\ g # Empty /\ at \in DOMAIN g
             /\ Browser!NewestOf(s) = Visits(g, Oldest(g), Newest(g))
             /\ Len(Browser!NewestOf(s)) = at - Oldest(g) + 1
<1> DEFINE g == Trimmed(View(h, at))
<1>1. PICK lo : Run(h, lo, at) /\ s = Visits(h, lo, at)
  BY DEF Ends
<1> DEFINE first == IF lo > at - NavLimit THEN lo ELSE at - NavLimit + 1
           from == first - lo + 1
           t == SubSeq(s, from, at - lo + 1)
<1>2. /\ lo \in Nat \ {0} /\ at \in Nat \ {0} /\ lo <= at /\ at \in lo..at
      /\ DOMAIN h = lo..at /\ NavLimit \in Nat /\ NavLimit >= 2
  BY <1>1, NavAssumption DEF Run
<1>3. first \in Nat \ {0} /\ first <= at /\ lo <= first /\ first \in first..at /\ at \in first..at
  BY <1>2
<1>4. {q \in DOMAIN h : q > at - NavLimit} = first..at
  BY <1>2
<1>5. g = [p \in first..at |-> h[p]]
  BY <1>4 DEF Trimmed, View
<1>6. /\ s \in Seq(Session) /\ Len(s) = at - lo + 1
      /\ \A i \in 1..(at - lo + 1) : s[i] = h[lo + i - 1]
  <2>1. Inside(h, lo, at, at)
    BY <1>1, <1>2 DEF Inside
  <2>2. IsList(s, h, lo, at)
    BY <1>1, <2>1, VisitsList
  <2>3. QED
    BY <2>2 DEF IsList
<1>7. Browser!NewestOf(s) = t
  <2>1. (IF Len(s) > NavLimit THEN Len(s) - NavLimit + 1 ELSE 1) = from
    BY <1>2, <1>6
  <2>2. QED
    BY <1>6, <2>1 DEF Browser!NewestOf
<1>8. from \in Nat \ {0} /\ from <= at - lo + 1
  BY <1>2, <1>3
<1>9. first = from + lo - 1
  BY <1>2, <1>3
<1> HIDE DEF first, g, from
<1>10. Run(g, first, at)
  BY <1>1, <1>2, <1>3, <1>5 DEF Run
<1>11. Oldest(g) = first /\ Newest(g) = at /\ g # Empty /\ at \in DOMAIN g
  BY <1>3, <1>10, RunEnds
<1>12. /\ Visits(g, first, at) \in Seq(Session)
       /\ Len(Visits(g, first, at)) = at - first + 1
       /\ \A i \in 1..(at - first + 1) : Visits(g, first, at)[i] = g[first + i - 1]
  <2>1. Inside(g, first, at, at)
    BY <1>3, <1>10 DEF Inside
  <2>2. IsList(Visits(g, first, at), g, first, at)
    BY <2>1, VisitsList
  <2>3. QED
    BY <2>2 DEF IsList
<1>13. /\ t \in Seq(Session) /\ Len(t) = at - first + 1
       /\ \A i \in 1..(at - first + 1) : t[i] = s[from + i - 1]
  <2>1. \A i \in from..(at - lo + 1) : s[i] \in Session
    BY <1>2, <1>6, <1>8, ElementOfSeq
  <2>2. /\ t \in Seq(Session) /\ Len(t) = (at - lo + 1) - from + 1
        /\ \A i \in 1..((at - lo + 1) - from + 1) : t[i] = s[from + i - 1]
    BY <1>2, <1>8, <2>1, SubSeqProperties
  <2>3. (at - lo + 1) - from + 1 = at - first + 1
    BY <1>2, <1>8, <1>9
  <2>4. QED
    BY <2>2, <2>3
<1> HIDE DEF t
<1>14. ASSUME NEW i \in 1..(at - first + 1) PROVE t[i] = Visits(g, first, at)[i]
  <2>1. from + i - 1 \in 1..(at - lo + 1) /\ lo + (from + i - 1) - 1 = first + i - 1
    BY <1>2, <1>3, <1>8, <1>9
  <2>2. t[i] = h[first + i - 1]
    BY <1>6, <1>13, <2>1
  <2>3. first + i - 1 \in first..at
    BY <1>2, <1>3
  <2>4. g[first + i - 1] = h[first + i - 1]
    BY <1>5, <2>3
  <2>5. QED
    BY <1>12, <2>2, <2>4
<1>15. t = Visits(g, first, at)
  BY <1>12, <1>13, <1>14, SeqEqual
<1>16. QED
  BY <1>7, <1>11, <1>12, <1>15 DEF g

\* The refinement mapping in these terms.
Listed(h) == IF h = Empty THEN << >> ELSE Visits(h, Oldest(h), Newest(h))

Place(h, c) == IF h = Empty THEN 0 ELSE At(h, c) - Oldest(h) + 1

LEMMA JumpIsVisits ==
  ASSUME IInv, NEW origin \in Session \cup {NULL}, NEW target \in Session,
         PushNav(origin, target)
  PROVE  LET past == SubSeq(Listed(history), 1, Place(history, cursor))
             made == Browser!AfterVisit(Browser!AfterVisit(past, origin), target)
         IN  IF made = past
             THEN /\ Listed(history') = Listed(history)
                  /\ Place(history', cursor') = Place(history, cursor)
             ELSE /\ Listed(history') = Browser!NewestOf(made)
                  /\ Place(history', cursor') = Len(Listed(history'))
<1> DEFINE at == At(history, cursor)
           past == SubSeq(Listed(history), 1, Place(history, cursor))
           once == Browser!AfterVisit(past, origin)
           made == Browser!AfterVisit(once, target)
<1>1. ASSUME history # Empty
      PROVE  /\ Placed(history, Oldest(history), Newest(history), at)
             /\ Newest(history) - Oldest(history) < NavLimit
             /\ at \in DOMAIN history
  <2>1. Run(history, Oldest(history), Newest(history))
    BY <1>1, WellFormedRun DEF IInv, HistoryWellFormed
  <2>2. Newest(history) - Oldest(history) < NavLimit
    BY <1>1 DEF IInv, HistoryWellFormed, WellFormed
  <2>3. at \in Oldest(history)..Newest(history)
    BY <1>1, <2>1 DEF At, Run
  <2>4. QED
    BY <2>1, <2>2, <2>3 DEF Placed, Run
<1>2. Lists(past, history, at)
  <2>1. CASE history = Empty
    <3>1. past = SubSeq(<< >>, 1, 0) /\ at = 0
      BY <2>1 DEF Listed, Place, At
    <3>2. SubSeq(<< >>, 1, 0) = << >>
      BY SubSeqEmpty
    <3>3. QED
      BY <2>1, <3>1, <3>2 DEF Lists
  <2>2. CASE history # Empty
    <3>1. past = SubSeq(Visits(history, Oldest(history), Newest(history)), 1,
                        at - Oldest(history) + 1)
      BY <2>2 DEF Listed, Place
    <3>2. past = Visits(history, Oldest(history), at)
      <4>1. Inside(history, Oldest(history), Newest(history), at)
        BY <1>1, <2>2 DEF Placed, Inside
      <4>2. QED
        BY <3>1, <4>1, VisitsCut
    <3>3. QED
      BY <1>1, <2>2, <3>2 DEF Lists
  <2>3. QED
    BY <2>1, <2>2
<1> HIDE DEF at, past
<1>3. PICK h, k0 :
        /\ Pushed(View(history, at), origin) = View(h, k0)
        /\ Lists(once, h, k0)
        /\ \/ h = history /\ k0 = at /\ once = past
           \/ /\ Ends(once, h, k0) /\ past \in Seq(Session) /\ once \in Seq(Session)
              /\ Len(once) = Len(past) + 1
  BY <1>2, PushIsVisit
<1> HIDE DEF once
<1>4. PICK g, k :
        /\ Pushed(View(h, k0), target) = View(g, k)
        /\ \/ g = h /\ k = k0 /\ made = once /\ h # Empty
           \/ /\ Ends(made, g, k) /\ once \in Seq(Session) /\ made \in Seq(Session)
              /\ Len(made) = Len(once) + 1
  <2>1. target # NULL
    BY NavAssumption
  <2>2. QED
    BY <1>3, <2>1, PushIsVisit
<1> HIDE DEF made
<1>5. history' = Trimmed(View(g, k)) /\ cursor' = k
  <2>1. Pushed(Pushed(View(history, at), origin), target) = View(g, k)
    BY <1>3, <1>4
  <2>2. history' = Trimmed(View(g, k)) /\ cursor' = View(g, k).at
    BY <2>1 DEF PushNav, at
  <2>3. QED
    BY <2>2 DEF View
<1>6. CASE Ends(made, g, k) /\ made # past
  <2>1. /\ history' # Empty /\ k \in DOMAIN history'
        /\ Browser!NewestOf(made) = Visits(history', Oldest(history'), Newest(history'))
        /\ Len(Browser!NewestOf(made)) = k - Oldest(history') + 1
    BY <1>5, <1>6, TrimKeepsNewest
  <2>2. Listed(history') = Browser!NewestOf(made)
    BY <2>1 DEF Listed
  <2>3. Place(history', cursor') = Len(Listed(history'))
    BY <1>5, <2>1, <2>2 DEF Place, At
  <2>4. QED
    BY <1>6, <2>2, <2>3 DEF made, once, past
<1>7. CASE g = history /\ k = at /\ made = past /\ history # Empty
  <2>1. Trimmed(View(history, at)) = history
    <3>1. /\ Placed(history, Oldest(history), Newest(history), at)
          /\ Newest(history) - Oldest(history) < NavLimit
      BY <1>1, <1>7
    <3>2. /\ DOMAIN history = Oldest(history)..Newest(history)
          /\ history = [p \in DOMAIN history |-> history[p]]
          /\ at \in DOMAIN history /\ Oldest(history) \in Nat /\ Newest(history) \in Nat
      BY <3>1 DEF Placed, Run
    <3>3. {q \in DOMAIN history : q > at - NavLimit} = DOMAIN history
      BY <3>1, <3>2, NavAssumption
    <3>4. QED
      BY <3>2, <3>3 DEF Trimmed, View
  <2>2. history' = history /\ cursor' = at
    BY <1>5, <1>7, <2>1
  <2>3. At(history, at) = at
    BY <1>1, <1>7 DEF At
  <2>4. Listed(history') = Listed(history)
    BY <2>2
  <2>5. Place(history', cursor') = Place(history, cursor)
    BY <1>7, <2>2, <2>3 DEF Place, at
  <2>6. QED
    BY <1>7, <2>4, <2>5 DEF made, once, past
<1>8. (Ends(made, g, k) /\ made # past) \/ (g = history /\ k = at /\ made = past /\ history # Empty)
  <2>1. CASE h = history /\ k0 = at /\ once = past
    <3>1. CASE g = h /\ k = k0 /\ made = once /\ h # Empty
      BY <2>1, <3>1
    <3>2. CASE /\ Ends(made, g, k) /\ once \in Seq(Session) /\ made \in Seq(Session)
               /\ Len(made) = Len(once) + 1
      <4>1. Len(once) \in Nat
        BY <3>2, LenProperties
      <4>2. QED
        BY <2>1, <3>2, <4>1
    <3>3. QED
      BY <1>4, <3>1, <3>2
  <2>2. CASE /\ Ends(once, h, k0) /\ past \in Seq(Session) /\ once \in Seq(Session)
             /\ Len(once) = Len(past) + 1
    <3>1. Len(past) \in Nat
      BY <2>2, LenProperties
    <3>2. CASE g = h /\ k = k0 /\ made = once
      BY <2>2, <3>1, <3>2
    <3>3. CASE Ends(made, g, k) /\ Len(made) = Len(once) + 1
      BY <2>2, <3>1, <3>3
    <3>4. QED
      BY <1>4, <3>2, <3>3
  <2>3. QED
    BY <1>3, <2>1, <2>2
<1>9. QED
  BY <1>6, <1>7, <1>8

LEMMA StepBrowses ==
  ASSUME IInv, [Next]_vars
  PROVE  [Browser!BNext]_(Browser!bvars)
<1> DEFINE entries == IF history = Empty THEN << >>
                      ELSE [i \in 1..(Newest(history) - Oldest(history) + 1) |->
                              history[Oldest(history) + i - 1]]
           current == IF history = Empty THEN 0
                      ELSE At(history, cursor) - Oldest(history) + 1
<1>1. entries = Listed(history) /\ current = Place(history, cursor)
  BY DEF Listed, Visits, Place
<1>2. entries' = Listed(history') /\ current' = Place(history', cursor')
  BY DEF Listed, Visits, Place
<1>3. ASSUME entries' = entries, current' = current
      PROVE  UNCHANGED Browser!bvars
  BY <1>3 DEF Browser!bvars
<1>4. ASSUME UNCHANGED <<history, cursor>>
      PROVE  UNCHANGED Browser!bvars
  BY <1>4 DEF Browser!bvars
<1>5. ASSUME NEW origin \in Session \cup {NULL}, NEW target \in Session,
             PushNav(origin, target)
      PROVE  Browser!BNext
  <2> DEFINE past == SubSeq(entries, 1, current)
             made == Browser!AfterVisit(Browser!AfterVisit(past, origin), target)
  <2> HIDE DEF entries, current
  <2>1. IF made = past
        THEN entries' = entries /\ current' = current
        ELSE entries' = Browser!NewestOf(made) /\ current' = Len(entries')
    BY <1>1, <1>2, <1>5, JumpIsVisits
  <2>2. Browser!JumpTo(origin, target)
    BY <1>3, <2>1 DEF Browser!JumpTo, entries, current
  <2>3. QED
    BY <2>2 DEF Browser!BNext
<1>6. ASSUME NEW w \in Walker, SetNavCursor(w)
      PROVE  Browser!BNext
  <2>1. history # Empty /\ UNCHANGED history
    BY <1>6 DEF SetNavCursor, IInv, WalkUnderWay
  <2>2. Run(history, Oldest(history), Newest(history))
    BY <2>1, WellFormedRun DEF IInv, HistoryWellFormed
  <2>3. At(history, cursor') \in Oldest(history)..Newest(history)
    BY <2>1, <2>2 DEF At, Run
  <2>4. /\ Len(Listed(history)) = Newest(history) - Oldest(history) + 1
        /\ Newest(history) \in Nat /\ Oldest(history) \in Nat
    <3>1. /\ Newest(history) \in Nat /\ Oldest(history) \in Nat
          /\ Inside(history, Oldest(history), Newest(history), Newest(history))
      BY <2>2 DEF Run, Inside
    <3>2. IsList(Listed(history), history, Oldest(history), Newest(history))
      BY <2>1, <3>1, VisitsList DEF Listed
    <3>3. QED
      BY <3>1, <3>2 DEF IsList
  <2>5. Place(history', cursor') \in 1..Len(Listed(history))
    BY <2>1, <2>3, <2>4 DEF Place
  <2>6. current' \in 1..Len(entries) /\ entries' = entries
    BY <1>1, <1>2, <2>1, <2>5
  <2>7. \E place \in 1..Len(entries) : current' = place /\ entries' = entries
    BY <2>6
  <2>8. QED
    BY <2>7 DEF Browser!BNext, Browser!GoTo
<1>7. CASE UNCHANGED <<history, cursor>>
  BY <1>4, <1>7
<1>8. \/ \E origin \in Session \cup {NULL}, target \in Session : PushNav(origin, target)
      \/ \E w \in Walker : SetNavCursor(w)
      \/ UNCHANGED <<history, cursor>>
  BY DEF Next, Jump, Walk, ReadHistory, Switch, SaveFails, vars
<1>9. QED
  BY <1>5, <1>6, <1>7, <1>8

\* The jump history is a browser's (PushNav, walkHistory): whatever positions are given
\* out and wherever slow walks leave the cursor, every step is a jump, a move or nothing
\* to somebody who sees the list of visits and the current one.
THEOREM HistoryIsABrowsers == Spec => BrowserImplemented
<1>1. Init => Browser!BInit
  BY DEF Init, Browser!BInit
<1>2. QED
  BY <1>1, StepBrowses, IInvHolds, PTL DEF Spec, BrowserImplemented, Browser!BSpec
=============================================================================
