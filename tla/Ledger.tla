------------------------------- MODULE Ledger -------------------------------
(***************************************************************************)
(* The claude-queue ledger: the tables sessions, events and session_links, *)
(* and every transaction that moves a session along its two axes.          *)
(*                                                                         *)
(*   process axis  terminated   the process has ended (terminated_at set)  *)
(*   work axis     done_at      the work was declared finished             *)
(*                                                                         *)
(* A table is a function whose domain is the set of keys it holds, so an   *)
(* INSERT enlarges the domain and a DELETE shrinks it.  One action is one  *)
(* committed SQLite transaction.  Of a session's events only the state of  *)
(* the latest one is kept (raw_state): nothing here reads the others.      *)
(***************************************************************************)
EXTENDS Integers, FiniteSets

CONSTANTS
  Session,    \* full session ids
  Short,      \* the 8-character ids that links name a delegate by
  ShortOf,    \* the first 8 characters of each full id
  Pane,       \* tmux pane ids
  Kind,       \* how a session may have been started
  TurnState,  \* the states that hook events inside a session lead to
  Retention,  \* how long a done session is kept (DoneRetentionSec)
  MaxTime,    \* bound: the clock stops here
  NULL        \* SQL NULL

ASSUME LedgerAssumption ==
  /\ ShortOf \in [Session -> Short]
  /\ Kind \subseteq {"interactive", "background", "print"}
  /\ TurnState \subseteq {"working", "awaiting_approval", "idle_done"}
  /\ Retention \in Nat
  /\ MaxTime \in Nat
  /\ NULL \notin Nat
  /\ NULL \notin Pane

VARIABLES
  sessions,   \* table sessions, with the latest event's state as raw_state
  links,      \* table session_links: child short id -> delegator
  now,        \* unixepoch()
  collecting  \* sessions whose SessionEnd hook has committed but not run GC

vars == <<sessions, links, now, collecting>>

State == TurnState \cup {"working", "ended"}

Row == [tmux_pane  : Pane \cup {NULL},
        kind       : Kind,
        terminated : BOOLEAN,
        done_at    : Nat \cup {NULL},
        raw_state  : State]

Link == [parent : Session, created_at : Nat]

TypeOK ==
  /\ DOMAIN sessions \subseteq Session
  /\ sessions \in [DOMAIN sessions -> Row]
  /\ DOMAIN links \subseteq Short
  /\ links \in [DOMAIN links -> Link]
  /\ now \in Nat
  /\ collecting \subseteq Session

(***************************************************************************)
(* Queries and updates of the table sessions, as functions of a table t so *)
(* that a transaction can apply several of them in the order of the code.  *)
(***************************************************************************)

\* The sessions of t that are linked as delegates of x.
Delegates(t, x) ==
  {c \in DOMAIN t : /\ ShortOf[c] \in DOMAIN links
                    /\ links[ShortOf[c]].parent = x}

\* A set the recursive walk of MarkDone cannot leave.
ClosedUnderDelegation(t, W) == \A x \in W : Delegates(t, x) \subseteq W

\* Mutant of Tree: the walk does not go on below a delegate that is done.
TreeOfOpen(t, roots) ==
  {x \in roots \cup DOMAIN t :
     \A W \in SUBSET (roots \cup DOMAIN t) :
       /\ roots \subseteq W
       /\ \A y \in W \cap DOMAIN t : t[y].done_at = NULL => Delegates(t, y) \subseteq W
       => x \in W}

\* What the walk produces from the ids in roots: the least such set.
Tree(t, roots) ==
  {x \in roots \cup DOMAIN t :
     \A W \in SUBSET (roots \cup DOMAIN t) :
       roots \subseteq W /\ ClosedUnderDelegation(t, W) => x \in W}

\* MarkDone: every open session of the walk becomes done now.
MarkedDone(t, roots) ==
  [x \in DOMAIN t |->
     IF t[x].done_at = NULL /\ x \in Tree(t, roots)
     THEN [t[x] EXCEPT !.done_at = now]
     ELSE t[x]]

\* Mutant of Upserted: only a new row is recorded as running.
UpsertedKeepsEnd(t, s, pane, kind) ==
  [x \in DOMAIN t \cup {s} |->
     IF x # s THEN t[x]
     ELSE [tmux_pane  |-> IF pane = NULL /\ s \in DOMAIN t
                          THEN t[s].tmux_pane ELSE pane,
           kind       |-> kind,
           terminated |-> s \in DOMAIN t /\ t[s].terminated,
           done_at    |-> IF s \in DOMAIN t THEN t[s].done_at ELSE NULL,
           raw_state  |-> "working"]]

\* upsertSession: a hook event proves the process is running.
Upserted(t, s, pane, kind) ==
  [x \in DOMAIN t \cup {s} |->
     IF x # s THEN t[x]
     ELSE [tmux_pane  |-> IF pane = NULL /\ s \in DOMAIN t
                          THEN t[s].tmux_pane ELSE pane,
           kind       |-> kind,
           terminated |-> FALSE,
           done_at    |-> IF s \in DOMAIN t THEN t[s].done_at ELSE NULL,
           raw_state  |-> "working"]]

\* The insert of an event of s that leads to state.
Logged(t, s, state) ==
  [x \in DOMAIN t |-> IF x = s THEN [t[x] EXCEPT !.raw_state = state] ELSE t[x]]

\* Mutant of Ended: the view's name for an ended session as the event's state.
EndedAsGone(t, S) ==
  [x \in DOMAIN t |->
     IF x \in S THEN [t[x] EXCEPT !.terminated = TRUE, !.raw_state = "gone"]
     ELSE t[x]]

\* terminated_at together with the ended event that goes with it.
Ended(t, S) ==
  [x \in DOMAIN t |->
     IF x \in S THEN [t[x] EXCEPT !.terminated = TRUE, !.raw_state = "ended"]
     ELSE t[x]]

\* The other sessions recorded as running in pane.
Siblings(t, s, pane) ==
  {x \in DOMAIN t \ {s} : t[x].tmux_pane = pane /\ ~t[x].terminated}

(***************************************************************************)
(* Hook events (hook.Dispatch).                                            *)
(***************************************************************************)

SessionStart(s, pane, kind, source) ==
  LET upserted  == Upserted(sessions, s, pane, kind)
      displaced == IF pane = NULL THEN {} ELSE Siblings(upserted, s, pane)
      ended     == Ended(upserted, displaced)
  IN  /\ sessions' = Logged(IF source = "clear" THEN MarkedDone(ended, displaced)
                            ELSE ended,
                            s, "working")
      /\ UNCHANGED <<links, now, collecting>>

\* Every event of the table that neither starts nor ends a session.
TurnEvent(s, pane, kind, state) ==
  /\ sessions' = Logged(Upserted(sessions, s, pane, kind), s, state)
  /\ UNCHANGED <<links, now, collecting>>

DoneReasons == {"prompt_input_exit", "clear"}

SessionEnd(s, pane, kind, reason) ==
  LET ended == Ended(Upserted(sessions, s, pane, kind), {s})
  IN  /\ sessions' = IF reason \in DoneReasons \/ kind = "print"
                     THEN MarkedDone(ended, {s})
                     ELSE ended
      /\ collecting' = collecting \cup {s}
      /\ UNCHANGED <<links, now>>

(***************************************************************************)
(* The transaction that a SessionEnd hook runs after its own commit, on a  *)
(* best-effort basis: it may fail, or the hook may be killed before it.    *)
(***************************************************************************)
\* Mutant of Aged: off by one.
AgedInclusive(t) == t <= now - Retention

Aged(t) == t < now - Retention

Collectable(s) == sessions[s].done_at # NULL /\ Aged(sessions[s].done_at)

\* Mutant of GC: a link is kept for its parent only.
GCForgetsChildren(s) ==
  LET kept == {x \in DOMAIN sessions : ~Collectable(x)}
      open == {x \in kept : sessions[x].done_at = NULL}
      gone == {c \in DOMAIN links : /\ Aged(links[c].created_at)
                                    /\ links[c].parent \notin open}
  IN  /\ s \in collecting
      /\ collecting' = collecting \ {s}
      /\ sessions' = [x \in kept |-> sessions[x]]
      /\ links' = [c \in DOMAIN links \ gone |-> links[c]]
      /\ UNCHANGED now

GC(s) ==
  LET kept == {x \in DOMAIN sessions : ~Collectable(x)}
      open == {x \in kept : sessions[x].done_at = NULL}
      gone == {c \in DOMAIN links : /\ Aged(links[c].created_at)
                                    /\ links[c].parent \notin open
                                    /\ c \notin {ShortOf[x] : x \in open}}
  IN  /\ s \in collecting
      /\ collecting' = collecting \ {s}
      /\ sessions' = [x \in kept |-> sessions[x]]
      /\ links' = [c \in DOMAIN links \ gone |-> links[c]]
      /\ UNCHANGED now

GCFails(s) ==
  /\ s \in collecting
  /\ collecting' = collecting \ {s}
  /\ UNCHANGED <<sessions, links, now>>

(***************************************************************************)
(* Commands and the sweep.                                                 *)
(***************************************************************************)

\* claude-queue done, and the picker's key for it.
Done(s) ==
  /\ s \in DOMAIN sessions
  /\ sessions' = MarkedDone(sessions, {s})
  /\ UNCHANGED <<links, now, collecting>>

\* claude-queue reopen, and a pick from the picker's done list.
Reopen(s) ==
  /\ s \in DOMAIN sessions
  /\ sessions[s].done_at # NULL
  /\ sessions' = [sessions EXCEPT ![s].done_at = NULL]
  /\ UNCHANGED <<links, now, collecting>>

\* claude-queue link.  Neither end needs a row.
LinkSession(child, parent) ==
  /\ links' = [c \in DOMAIN links \cup {child} |->
                 IF c = child THEN [parent |-> parent, created_at |-> now]
                 ELSE links[c]]
  /\ UNCHANGED <<sessions, now, collecting>>

\* The sweep's write.  What it decides from was read earlier, so nothing
\* about the row is certain any more but that it is there.
TerminateSession(s) ==
  /\ s \in DOMAIN sessions
  /\ sessions' = Ended(sessions, {s})
  /\ UNCHANGED <<links, now, collecting>>

Tick ==
  /\ now < MaxTime
  /\ now' = now + 1
  /\ UNCHANGED <<sessions, links, collecting>>

-----------------------------------------------------------------------------

Init ==
  /\ sessions = [s \in {} |-> NULL]
  /\ links = [c \in {} |-> NULL]
  /\ now = 0
  /\ collecting = {}

\* A /clear starts a session under an id that nobody has heard of.
HookEvent(s, pane, kind) ==
  \/ SessionStart(s, pane, kind, "startup")
  \/ s \notin DOMAIN sessions /\ SessionStart(s, pane, kind, "clear")
  \/ \E state \in TurnState : TurnEvent(s, pane, kind, state)
  \/ \E reason \in DoneReasons \cup {"other"} : SessionEnd(s, pane, kind, reason)

Command(s) ==
  \/ Done(s)
  \/ Reopen(s)
  \/ \E child \in Short : LinkSession(child, s)

Next ==
  \/ \E s \in Session, pane \in Pane \cup {NULL}, kind \in Kind :
       HookEvent(s, pane, kind)
  \/ \E s \in Session : Command(s) \/ TerminateSession(s) \/ GC(s) \/ GCFails(s)
  \/ Tick

Spec == Init /\ [][Next]_vars

-----------------------------------------------------------------------------
(***************************************************************************)
(* Properties.                                                             *)
(***************************************************************************)

IsOpen(s) == s \in DOMAIN sessions /\ sessions[s].done_at = NULL
IsDone(s) == s \in DOMAIN sessions /\ sessions[s].done_at # NULL

\* The process axis is recorded twice, as terminated_at and as the latest
\* event, and no order of late, repeated or dropped hooks and sweeps makes the
\* two disagree: the queue view lists a row as gone exactly when its latest
\* event is an end.  (Candidates tests the first, Hibernate's re-check only the
\* second.)
GoneIffEnded ==
  \A s \in DOMAIN sessions : sessions[s].terminated <=> sessions[s].raw_state = "ended"

\* However a session becomes done -- a command, a typed exit, a print run's
\* end, a /clear in its pane -- everything it delegated, directly or through
\* delegates that were done before, is done with it (MarkDone's cascade).
CascadeComplete ==
  [][\A s \in Session :
       IsOpen(s) /\ IsDone(s)' =>
         \E W \in SUBSET DOMAIN sessions :
           /\ s \in W
           /\ ClosedUnderDelegation(sessions, W)
           /\ \A x \in W : IsDone(x)']_vars

\* Work is taken back one session at a time and by nothing but a reopen: a step
\* after which a done session is open again changed that and nothing else.  So
\* no hook event reopens (a resume of a done session leaves it done), no reopen
\* starts a process, and none reaches the delegates that were done with it.
ReopenAlone ==
  [][\A s \in Session :
       IsDone(s) /\ IsOpen(s)' =>
         /\ sessions' = [sessions EXCEPT ![s].done_at = NULL]
         /\ UNCHANGED <<links, now, collecting>>]_vars

\* A delegation with an open session at either end is never forgotten, however
\* old it is: it is what carries a later cascade to the delegate.  (A new link
\* may give the delegate another parent.)
OpenDelegationKept ==
  [][\A c \in DOMAIN links :
       (\/ IsOpen(links[c].parent)
        \/ \E s \in Session : ShortOf[s] = c /\ IsOpen(s))
       => c \in DOMAIN links']_vars

\* The ledger implements WorkAxis, with the done_at column as the work: no
\* order of hooks, sweeps, collections and commands loses open work, moves the
\* time of a first declaration, or forgets a done session before its retention
\* is over.  A process that ends, a reboot and a new session in an old pane are
\* all invisible on this axis.
Work == INSTANCE WorkAxis WITH
          work  <- [s \in DOMAIN sessions |-> sessions[s].done_at],
          clock <- now

WorkAxisImplemented == Work!WSpec

=============================================================================
