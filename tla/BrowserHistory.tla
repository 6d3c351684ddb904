--------------------------- MODULE BrowserHistory ---------------------------
(***************************************************************************)
(* What the jump history promises, as a browser would: a list of visits,   *)
(* oldest first, and the one the user is at.  A jump drops what lies ahead *)
(* and appends; moving back and forth changes nothing but the place; only  *)
(* the newest Limit visits are kept.                                       *)
(***************************************************************************)
EXTENDS Integers, Sequences

CONSTANTS Session, Limit, NULL

VARIABLES
  entries,   \* the visits, oldest first
  current    \* the index of the one the user is at, 0 when there is none

bvars == <<entries, current>>

\* The visits after one more, to the session id.
AfterVisit(past, id) ==
  IF id = NULL \/ (past # << >> /\ past[Len(past)] = id) THEN past
  ELSE Append(past, id)

NewestOf(visits) ==
  SubSeq(visits, IF Len(visits) > Limit THEN Len(visits) - Limit + 1 ELSE 1,
         Len(visits))

\* A jump from origin, when it is known, to target.
JumpTo(origin, target) ==
  LET past == SubSeq(entries, 1, current)
      made == AfterVisit(AfterVisit(past, origin), target)
  IN  IF made = past THEN UNCHANGED bvars
      ELSE /\ entries' = NewestOf(made)
           /\ current' = Len(entries')

GoTo(place) ==
  /\ current' = place
  /\ UNCHANGED entries

BInit == entries = << >> /\ current = 0

BNext ==
  \/ \E origin \in Session \cup {NULL}, target \in Session : JumpTo(origin, target)
  \/ \E place \in 1..Len(entries) : GoTo(place)

BSpec == BInit /\ [][BNext]_bvars
=============================================================================
