----------------------------- MODULE NavHistory -----------------------------
(***************************************************************************)
(* The picker's jump history: the tables nav_history and nav_cursor, the   *)
(* pick that records a jump (PushNav, one immediate transaction) and the   *)
(* walk back or forward through it (walkHistory, three separate accesses   *)
(* to the database with a tmux switch between them).                       *)
(*                                                                         *)
(* Each walk is a process of its own, started by a key bind.  Where the    *)
(* client is and which sessions a switch can reach is up to the            *)
(* environment.  A walk finds the client in the pane of any session, or of *)
(* none, by the ledger, and any set of sessions in a pane it can reach     *)
(* that is not the client's: by the panes, the ledger's session of the     *)
(* client's pane may be reachable too, in another pane.                    *)
(***************************************************************************)
EXTENDS Integers

CONSTANTS
  Session,
  Walker,     \* concurrent runs of claude-queue nav
  NavLimit,   \* how many entries the history keeps
  MaxPos,     \* bound: no position beyond it is given out
  NULL        \* no row, and the empty session id

ASSUME NavAssumption ==
  /\ NavLimit \in Nat /\ NavLimit >= 2
  /\ MaxPos \in Nat
  /\ NULL \notin Session
  /\ NULL \notin Nat

VARIABLES
  history,   \* table nav_history: pos -> session_id
  cursor,    \* table nav_cursor: the pos of its row, or NULL
  walk       \* each walker's local state

vars == <<history, cursor, walk>>

Empty == [p \in {} |-> NULL]

Idle == [phase |-> "idle", step |-> 1, seen |-> Empty, pos |-> 0]

Back == -1
Forward == 1

-----------------------------------------------------------------------------
(***************************************************************************)
(* Reading the history.                                                    *)
(***************************************************************************)

Newest(h) == CHOOSE p \in DOMAIN h : \A q \in DOMAIN h : q <= p
Oldest(h) == CHOOSE p \in DOMAIN h : \A q \in DOMAIN h : p <= q

\* The entry navHistory calls current: a cursor that names no entry, or is not
\* there, reads as the newest one.  0 when there is no entry.
At(h, c) == IF h = Empty THEN 0
            ELSE IF c \in DOMAIN h THEN c ELSE Newest(h)

SessionAt(h, at) == IF at = 0 THEN NULL ELSE h[at]

(***************************************************************************)
(* PushNav.                                                                *)
(***************************************************************************)

\* A view of the history: its entries and the current one.
View(h, at) == [hist |-> h, at |-> at]

\* Mutant of Pushed: the forward side stays.
PushedOver(v, id) ==
  IF id = NULL \/ id = SessionAt(v.hist, v.at) THEN v
  ELSE View([p \in DOMAIN v.hist \cup {v.at + 1} |->
               IF p = v.at + 1 THEN id ELSE v.hist[p]],
            v.at + 1)

\* push: the forward side is dropped and id becomes the entry after the current
\* one.  Skipped when id is unknown or the current entry already.
Pushed(v, id) ==
  IF id = NULL \/ id = SessionAt(v.hist, v.at) THEN v
  ELSE View([p \in {q \in DOMAIN v.hist : q <= v.at} \cup {v.at + 1} |->
               IF p = v.at + 1 THEN id ELSE v.hist[p]],
            v.at + 1)

\* Mutant of Trimmed: one entry too few is kept.
TrimmedShort(v) ==
  [p \in {q \in DOMAIN v.hist : q > v.at - NavLimit + 1} |-> v.hist[p]]

Trimmed(v) ==
  [p \in {q \in DOMAIN v.hist : q > v.at - NavLimit} |-> v.hist[p]]

\* target is the session of the row picked and never empty, so an entry is
\* current at the end.
PushNav(origin, target) ==
  LET v == Pushed(Pushed(View(history, At(history, cursor)), origin), target)
  IN  /\ v.at <= MaxPos
      /\ history' = Trimmed(v)
      /\ cursor' = v.at
      /\ UNCHANGED walk

(***************************************************************************)
(* walkHistory.                                                            *)
(***************************************************************************)

\* The entry a walk starts from: back begins at the current entry itself when
\* the client was moved away from it by hand.
WalkFrom(h, at, step, client) ==
  IF step = Back /\ client # h[at] THEN at ELSE at + step

\* The entries of h in the walk's way that it may switch to: reachable are the
\* sessions whose pane can be reached and is not the one the client is in.
Candidates(h, at, step, client, reachable) ==
  LET from == WalkFrom(h, at, step, client)
  IN  {p \in DOMAIN h : (p - from) * step >= 0 /\ h[p] \in reachable}

\* Mutant of Lands: the search runs from the far end.
LandsFarthest(h, at, step, client, reachable, p) ==
  LET there == Candidates(h, at, step, client, reachable)
  IN  p \in there /\ \A q \in there : (p - q) * step >= 0

\* The walk comes to the entry p before any other of them.
Lands(h, at, step, client, reachable, p) ==
  LET there == Candidates(h, at, step, client, reachable)
  IN  p \in there /\ \A q \in there : (q - p) * step >= 0

\* Mutant of ReadHistory: the direction is never set.
ReadHistoryNoStep(w, step) ==
  /\ walk[w].phase = "idle"
  /\ history # Empty
  /\ walk' = [walk EXCEPT ![w] = [phase |-> "read", step |-> 0,
                                  seen |-> history, pos |-> 0]]
  /\ UNCHANGED <<history, cursor>>

\* The first query of NavHistory.  An empty result ends the walk there.
ReadHistory(w, step) ==
  /\ walk[w].phase = "idle"
  /\ history # Empty
  /\ walk' = [walk EXCEPT ![w] = [phase |-> "read", step |-> step,
                                  seen |-> history, pos |-> 0]]
  /\ UNCHANGED <<history, cursor>>

\* The second query, the search and the switch.  The walk ends here when no
\* entry is left or the switch fails.
Switch(w, client, reachable) ==
  LET seen == walk[w].seen
  IN  /\ walk[w].phase = "read"
      /\ \/ \E p \in DOMAIN seen :
              /\ Lands(seen, At(seen, cursor), walk[w].step, client, reachable, p)
              /\ walk' = [walk EXCEPT ![w] = [Idle EXCEPT !.phase = "switched",
                                                         !.pos = p]]
         \/ walk' = [walk EXCEPT ![w] = Idle]
      /\ UNCHANGED <<history, cursor>>

SetNavCursor(w) ==
  /\ walk[w].phase = "switched"
  /\ cursor' = walk[w].pos
  /\ walk' = [walk EXCEPT ![w] = Idle]
  /\ UNCHANGED history

\* The save fails, or the walk is killed before it: the client has moved and
\* the cursor has not.
SaveFails(w) ==
  /\ walk[w].phase = "switched"
  /\ walk' = [walk EXCEPT ![w] = Idle]
  /\ UNCHANGED <<history, cursor>>

-----------------------------------------------------------------------------

Init ==
  /\ history = Empty
  /\ cursor = NULL
  /\ walk = [w \in Walker |-> Idle]

Jump == \E origin \in Session \cup {NULL}, target \in Session :
          PushNav(origin, target)

Walk(w) ==
  \/ \E step \in {Back, Forward} : ReadHistory(w, step)
  \/ \E client \in Session \cup {NULL}, reachable \in SUBSET Session :
       Switch(w, client, reachable)
  \/ SetNavCursor(w)
  \/ SaveFails(w)

Next == Jump \/ \E w \in Walker : Walk(w)

Spec == Init /\ [][Next]_vars

-----------------------------------------------------------------------------
(***************************************************************************)
(* Properties.                                                             *)
(***************************************************************************)

\* A gap-free run of at most NavLimit positions with no session twice in a row.
WellFormed(h) ==
  h # Empty =>
    /\ Oldest(h) \in Nat \ {0} /\ Newest(h) \in Nat
    /\ Newest(h) - Oldest(h) < NavLimit
    /\ h \in [Oldest(h)..Newest(h) -> Session]
    /\ \A p \in Oldest(h)..Newest(h) - 1 : h[p] # h[p + 1]

TypeOK ==
  /\ cursor \in Nat \cup {NULL}
  /\ DOMAIN walk = Walker
  /\ \A w \in Walker :
       /\ walk[w].phase \in {"idle", "read", "switched"}
       /\ walk[w].step \in {Back, Forward}
       /\ walk[w].pos \in Nat
       /\ WellFormed(walk[w].seen)

\* The history is such a run whatever cursor a push starts from: one in the
\* middle, one that a slow walk left outside the run, or none.  A gap or a leftover entry
\* ahead of the cursor would make the insert of a later push collide with an
\* existing pos, and the jump would not be recorded.
HistoryWellFormed ==
  /\ WellFormed(history)
  /\ cursor = NULL <=> history = Empty

\* Back and then forward, with nothing changed in between, is where the client
\* was: from the session at the cursor, whichever entries either walk passes
\* over, forward from where back landed comes to that session again.  Each of
\* the reachable sessions has one pane, which the client is in once it landed.
BackThenForwardReturns ==
  \A at, back \in DOMAIN history : \A reachable \in SUBSET Session :
    /\ history[at] \in reachable
    /\ Lands(history, at, Back, history[at], reachable \ {history[at]}, back)
    => \E again \in DOMAIN history :
         /\ Lands(history, back, Forward, history[back],
                  reachable \ {history[back]}, again)
         /\ history[again] = history[at]

\* A jump can be walked back at once: however the history looked, the entry at
\* the cursor is the target and the one before it the origin, so that trimming
\* to NavLimit or a cursor left outside never costs the way back.
JumpLeavesWayBack ==
  [][\A origin, target \in Session :
       origin # target /\ PushNav(origin, target) =>
         /\ cursor' \in DOMAIN history' /\ history'[cursor'] = target
         /\ cursor' - 1 \in DOMAIN history' /\ history'[cursor' - 1] = origin]_vars

\* The history implements BrowserHistory: which positions are given out, reused
\* or left behind by a walk never shows, and a jump and a walk that overlap act
\* as if one came after the other.
Browser == INSTANCE BrowserHistory WITH
  Limit   <- NavLimit,
  entries <- IF history = Empty THEN << >>
             ELSE [i \in 1..(Newest(history) - Oldest(history) + 1) |->
                     history[Oldest(history) + i - 1]],
  current <- IF history = Empty THEN 0
             ELSE At(history, cursor) - Oldest(history) + 1

BrowserImplemented == Browser!BSpec

=============================================================================
