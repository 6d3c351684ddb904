-------------------------------- MODULE Migrate --------------------------------
(***************************************************************************)
(* Opening a ledger that the program wrote before sessions had a work axis *)
(* (db.Open).                                                              *)
(*                                                                         *)
(* There is no daemon: every hook and every command opens the ledger, and  *)
(* whoever comes first after the upgrade migrates it, next to others that  *)
(* do the same and to none that wait for it to be done.  The columns are   *)
(* added one statement at a time; which work is open is worked out from    *)
(* the recorded events once, in a transaction; the view is dropped and     *)
(* created again by everybody.                                             *)
(***************************************************************************)
EXTENDS Integers, SequencesExt

CONSTANTS
  Session, Pane,
  Opener,    \* bound: the processes that open the ledger at a time
  Columns,   \* how many columns are to be added
  Horizon,   \* 7 days
  Window,    \* a couple of seconds
  MaxEvent,  \* bound: the events that the old ledger holds
  MaxTime,   \* bound: the clock
  MaxKill,   \* bound: how many openers are killed on their way
  NULL

\* Bound: every session ran in a tmux pane.  One that did not has no pane in its row,
\* and none is looked for in its stead: no start forces its end, and it has no successors.
Row == [pane : Pane, closed : {NULL} \cup Nat, done : BOOLEAN, mark : Nat]

ASSUME MigrateAssumption ==
  /\ NULL \notin Session \cup Pane \cup Opener
  /\ NULL \notin Row \cup {"exit", "clear"} /\ NULL \notin Nat
  /\ Columns \in Nat \ {0}
  /\ {Horizon, Window, MaxEvent, MaxTime, MaxKill} \subseteq Nat

VARIABLES
  runs,      \* the pane that each session's process runs in, under the old hooks
  row,       \* the rows of sessions, NULL for a session that has none
  events,    \* the events of the old ledger, their ids the positions
  ended,     \* history: how each session's process came to its end
  held,      \* history: is each session marked, as the old hooks understood it?
  columns,   \* how many of the columns are there
  version,   \* PRAGMA user_version
  view,      \* is there a view?
  lock,      \* who is in a write transaction
  opener,    \* each opener's local state
  now, kills, upgraded

old == <<runs, events, ended, held>>
schema == <<columns, version, view, lock>>
vars == <<runs, row, events, ended, held, columns, version, view, lock, opener, now, kills,
          upgraded>>

Event == [s : Session, type : {"SessionStart", "Turn", "SessionEnd", "ForcedEnd"},
          why : {"startup", "clear", "exit", "other", NULL}, at : Nat,
          pane : Pane]   \* pane: history, the session's at the time

Out == [at |-> "out", column |-> 0, now |-> 0]

TypeOK ==
  /\ runs \in [Session -> Pane \cup {NULL}]
  /\ row \in [Session -> Row \cup {NULL}]
  /\ events \in Seq(Event)
  /\ ended \in [Session -> {"typed", "clear", "cut", NULL}]
  /\ held \in [Session -> BOOLEAN]
  /\ columns \in 0..Columns
  /\ version \in {0, 1}
  /\ view \in BOOLEAN
  /\ lock \in Opener \cup {NULL}
  /\ opener \in [Opener -> [at : {"out", "asks", "adds", "reads", "begins", "migrates",
                                  "drops", "creates", "open"},
                            column : 0..Columns, now : 0..MaxTime]]
  /\ now \in 0..MaxTime
  /\ kills \in 0..MaxKill
  /\ upgraded \in BOOLEAN

Rows == {s \in Session : row[s] # NULL}

-----------------------------------------------------------------------------
(***************************************************************************)
(* What the old program wrote.  A hook is a transaction, as it is now.     *)
(***************************************************************************)

Closed(s) == row[s].closed # NULL

Records(new) ==
  /\ Len(events \o new) <= MaxEvent
  /\ events' = events \o new

Happened(s, type, why, pane) ==
  [s |-> s, type |-> type, why |-> why, at |-> now, pane |-> pane]

OldHook ==
  /\ ~upgraded
  /\ UNCHANGED <<columns, version, view, lock, opener, now, kills, upgraded>>

\* SessionStart of s in pane, after what is recorded already: the sessions that the
\* ledger has there have ended.
StartsIn(s, pane, source, before, rows) ==
  LET siblings == {x \in Session \ {s} : /\ rows[x] # NULL
                                         /\ rows[x].pane = pane /\ rows[x].closed = NULL}
      forced == [i \in 1..Cardinality(siblings) |->
                   Happened(SetToSeq(siblings)[i], "ForcedEnd", NULL, pane)]
  IN  /\ Records(before \o forced \o <<Happened(s, "SessionStart", source, pane)>>)
      /\ row' = [x \in Session |->
                   IF x = s
                   THEN [pane |-> pane, closed |-> NULL, done |-> FALSE,
                         mark |-> IF rows[s] = NULL THEN 0 ELSE rows[s].mark]
                   ELSE IF x \in siblings THEN [rows[x] EXCEPT !.closed = now] ELSE rows[x]]

\* A session is started or resumed in a pane where no process of another is.
Starts(s, pane) ==
  /\ OldHook
  /\ runs[s] = NULL /\ \A x \in Session : runs[x] # pane
  /\ runs' = [runs EXCEPT ![s] = pane]
  /\ ended' = [ended EXCEPT ![s] = NULL]
  /\ held' = [held EXCEPT ![s] = FALSE]
  /\ StartsIn(s, pane, "startup", <<>>, row)

\* A turn.  Bound: of a marked session, whose mark it takes off.
Turn(s) ==
  /\ OldHook
  /\ runs[s] # NULL /\ held[s]
  /\ Records(<<Happened(s, "Turn", NULL, row[s].pane)>>)
  /\ row' = [row EXCEPT ![s].closed = NULL]
  /\ held' = [held EXCEPT ![s] = FALSE]
  /\ UNCHANGED <<runs, ended>>

\* A mark sits on the latest event of its session.
Marks(s) ==
  /\ OldHook
  /\ runs[s] # NULL /\ ~held[s]
  /\ row' = [row EXCEPT ![s].mark = Max({i \in DOMAIN events : events[i].s = s})]
  /\ held' = [held EXCEPT ![s] = TRUE]
  /\ UNCHANGED <<runs, events, ended>>

\* The session is left by hand, or its process is ended some other way, and says so.
Ends(s, why) ==
  /\ OldHook
  /\ runs[s] # NULL
  /\ runs' = [runs EXCEPT ![s] = NULL]
  /\ ended' = [ended EXCEPT ![s] = IF why = "exit" THEN "typed" ELSE "cut"]
  /\ Records(<<Happened(s, "SessionEnd", why, row[s].pane)>>)
  /\ row' = [row EXCEPT ![s].closed = now]
  /\ UNCHANGED held

\* It ends without a word.
Vanishes(s) ==
  /\ OldHook
  /\ runs[s] # NULL
  /\ runs' = [runs EXCEPT ![s] = NULL]
  /\ ended' = [ended EXCEPT ![s] = "cut"]
  /\ UNCHANGED <<row, events, held>>

\* A sweep finds the process gone.
Swept(s) ==
  /\ OldHook
  /\ s \in Rows /\ ~Closed(s) /\ runs[s] = NULL
  /\ Records(<<Happened(s, "ForcedEnd", NULL, row[s].pane)>>)
  /\ row' = [row EXCEPT ![s].closed = now]
  /\ UNCHANGED <<runs, ended, held>>

\* /clear: the process goes on as a new session, whose SessionStart closes the first
\* unless that one's own SessionEnd has.
Clears(s, t) ==
  /\ OldHook
  /\ runs[s] # NULL /\ t \notin Rows
  /\ runs' = [runs EXCEPT ![s] = NULL, ![t] = runs[s]]
  /\ ended' = [ended EXCEPT ![s] = "clear"]
  /\ UNCHANGED held
  /\ \/ StartsIn(t, runs[s], "clear", <<>>, row)
     \/ StartsIn(t, runs[s], "clear", <<Happened(s, "SessionEnd", "clear", runs[s])>>,
                 [row EXCEPT ![s].closed = now])

Tick ==
  /\ now < MaxTime
  /\ now' = now + 1
  /\ UNCHANGED <<row, columns, version, view, lock, opener, kills, upgraded>> /\ UNCHANGED old

\* The program is replaced.  From here on its processes are no concern of this module.
Upgrade ==
  /\ ~upgraded
  /\ upgraded' = TRUE
  /\ runs' = [s \in Session |-> NULL]
  /\ UNCHANGED <<row, events, ended, held, columns, version, view, lock, opener, now, kills>>

-----------------------------------------------------------------------------
(***************************************************************************)
(* What is worked out from it.                                             *)
(***************************************************************************)

EndsOf(s) == {i \in DOMAIN events : events[i].s = s /\ events[i].type \in {"SessionEnd", "ForcedEnd"}}

Latest(ids) == IF ids = {} THEN 0 ELSE Max(ids)

\* Mutant of ClosingEvent: the latest SessionEnd.
ClosingSessionEnd(s) == Latest({i \in EndsOf(s) : events[i].type = "SessionEnd"})

\* The end that closed the row: the latest, or 0.
ClosingEvent(s) == Latest(EndsOf(s))

\* The next SessionStart on the pane of s after event i, by what panes are now, within
\* the window.
Successors(s, i) ==
  {n \in (i + 1)..Len(events) : /\ events[n].type = "SessionStart" /\ events[n].s # s
                                /\ row[events[n].s].pane = row[s].pane
                                /\ events[n].at - events[i].at <= Window}

\* Was s ended by a /clear that was only recorded by the session that came after?
ForcedByClear(s) ==
  LET i == ClosingEvent(s)
  IN  /\ i # 0 /\ events[i].type = "ForcedEnd"
      /\ Successors(s, i) # {}
      /\ events[Min(Successors(s, i))].why = "clear"

\* Is the work of a closed row finished?
Finished(s, at) ==
  \/ row[s].closed < at - Horizon
  \/ ClosingEvent(s) # 0 /\ events[ClosingEvent(s)].why \in {"exit", "clear"}
  \/ ForcedByClear(s)

\* Does the mark still sit on the latest event that is no end?
MarkHolds(s) == row[s].mark = Latest({i \in DOMAIN events : events[i].s = s} \ EndsOf(s))

\* The row as the migration leaves it.
Sorted(s, at) ==
  [row[s] EXCEPT !.done = @ \/ (Closed(s) /\ Finished(s, at)),
                 !.mark = IF @ # 0 /\ MarkHolds(s) THEN @ ELSE 0]

-----------------------------------------------------------------------------
(***************************************************************************)
(* db.Open.                                                                *)
(***************************************************************************)

Becomes(o, to) == opener' = [opener EXCEPT ![o] = to]

GoesOn(o, at) == Becomes(o, [opener[o] EXCEPT !.at = at])

\* An opener that fails closes the ledger, and what it was to do is not done.
Step(o, at) ==
  /\ opener[o].at = at
  /\ UNCHANGED <<now, kills, upgraded>>

Opening(o, at) == Step(o, at) /\ UNCHANGED old

\* A statement that writes waits for the lock.
Free == lock = NULL

\* The pragmas and the tables.  A table that the old ledger lacks is created unless it
\* exists, whoever comes first; an opener that cannot get the lock for it stays out, as
\* one that has not begun.  What the old program recorded is not touched.
Begins(o) ==
  /\ upgraded
  /\ Opening(o, "out")
  /\ Becomes(o, [Out EXCEPT !.at = "asks", !.column = 1])
  /\ UNCHANGED row /\ UNCHANGED schema

\* hasColumn, of one column after the other.
AsksColumn(o) ==
  /\ Opening(o, "asks")
  /\ IF columns < opener[o].column THEN GoesOn(o, "adds")
     ELSE IF opener[o].column < Columns
     THEN Becomes(o, [opener[o] EXCEPT !.column = @ + 1])
     ELSE GoesOn(o, "reads")
  /\ UNCHANGED row /\ UNCHANGED schema

\* Mutant of AddsColumn: a column that is there is added like any other.
AddsColumnAnyway(o) ==
  /\ Opening(o, "adds")
  /\ Free
  /\ columns' = columns + 1 /\ GoesOn(o, "asks")
  /\ UNCHANGED <<row, version, view, lock>>

\* ALTER TABLE, an error if the column has come to be there.
AddsColumn(o) ==
  /\ Opening(o, "adds")
  /\ Free
  /\ IF columns < opener[o].column
     THEN columns' = opener[o].column /\ GoesOn(o, "asks")
     ELSE UNCHANGED columns /\ Becomes(o, Out)
  /\ UNCHANGED <<row, version, view, lock>>

\* migrateLifecycle is given its clock, and reads the version outside a transaction.
ReadsVersion(o) ==
  /\ Opening(o, "reads")
  /\ Becomes(o, [opener[o] EXCEPT !.at = IF version = 1 THEN "drops" ELSE "begins",
                                  !.now = now])
  /\ UNCHANGED row /\ UNCHANGED schema

\* BEGIN IMMEDIATE.
BeginsWrite(o) ==
  /\ Opening(o, "begins")
  /\ Free
  /\ lock' = o
  /\ GoesOn(o, "migrates")
  /\ UNCHANGED <<row, columns, version, view>>

\* The statements of the transaction, and its COMMIT.  Nothing reads the old events as
\* such after it: they are dropped from the state, with the history of them.
Sorts(o) ==
  /\ version' = 1
  /\ row' = [s \in Session |-> IF s \in Rows THEN Sorted(s, opener[o].now) ELSE NULL]
  /\ events' = <<>>
  /\ ended' = [s \in Session |-> NULL]
  /\ held' = [s \in Session |-> FALSE]
  /\ UNCHANGED runs

\* Mutant of Migrates: the version is not read again.
MigratesAgain(o) ==
  /\ Step(o, "migrates")
  /\ GoesOn(o, "drops")
  /\ lock' = NULL
  /\ Sorts(o)
  /\ UNCHANGED <<columns, view>>

\* The version is read again, and decides.
Migrates(o) ==
  /\ Step(o, "migrates")
  /\ GoesOn(o, "drops")
  /\ lock' = NULL
  /\ IF version = 1 THEN UNCHANGED <<version, row>> /\ UNCHANGED old ELSE Sorts(o)
  /\ UNCHANGED <<columns, view>>

\* DROP VIEW IF EXISTS, which writes nothing if there is none.
DropsView(o) ==
  /\ Opening(o, "drops")
  /\ view => Free
  /\ view' = FALSE
  /\ GoesOn(o, "creates")
  /\ UNCHANGED <<row, columns, version, lock>>

\* CREATE VIEW, an error if another has created it since it was dropped.
CreatesView(o) ==
  /\ Opening(o, "creates")
  /\ Free
  /\ view' = TRUE
  /\ IF view THEN Becomes(o, Out) ELSE GoesOn(o, "open")
  /\ UNCHANGED <<row, columns, version, lock>>

\* Mutant of GivesUp: a busy ledger is used as it is.
GivesUpOnMigration(o) ==
  /\ opener[o].at \in {"adds", "begins", "drops", "creates"}
  /\ Opening(o, opener[o].at)
  /\ ~Free
  /\ GoesOn(o, "open")
  /\ UNCHANGED row /\ UNCHANGED schema

\* The lock is not to be had in time.
GivesUp(o) ==
  /\ opener[o].at \in {"adds", "begins", "drops", "creates"}
  /\ Opening(o, opener[o].at)
  /\ ~Free
  /\ Becomes(o, Out)
  /\ UNCHANGED row /\ UNCHANGED schema

\* What the ledger was opened for: a hook records that a session is running or that it
\* has ended, and its work goes on being what it is.
Uses(o) ==
  /\ Opening(o, "open")
  /\ Free
  /\ Becomes(o, Out)
  /\ \/ \E s \in Rows, closed \in {NULL, now} : row' = [row EXCEPT ![s].closed = closed]
     \/ UNCHANGED row
  /\ UNCHANGED schema

\* An opener is killed; what it has not committed is rolled back.
Killed(o) ==
  /\ opener[o].at # "out"
  /\ kills < MaxKill
  /\ kills' = kills + 1
  /\ Becomes(o, Out)
  /\ lock' = IF lock = o THEN NULL ELSE lock
  /\ UNCHANGED <<row, columns, version, view, now, upgraded>> /\ UNCHANGED old

-----------------------------------------------------------------------------

Init ==
  /\ runs = [s \in Session |-> NULL]
  /\ row = [s \in Session |-> NULL]
  /\ events = <<>>
  /\ ended = [s \in Session |-> NULL]
  /\ held = [s \in Session |-> FALSE]
  /\ columns = 0
  /\ version = 0
  /\ view = TRUE
  /\ lock = NULL
  /\ opener = [o \in Opener |-> Out]
  /\ now = 0
  /\ kills = 0
  /\ upgraded = FALSE

OldProgram ==
  \E s \in Session :
    \/ \E pane \in Pane : Starts(s, pane)
    \/ \E t \in Session : Clears(s, t)
    \/ Turn(s) \/ Marks(s) \/ Ends(s, "exit") \/ Ends(s, "other") \/ Vanishes(s) \/ Swept(s)

Opens(o) ==
  \/ Begins(o) \/ AsksColumn(o) \/ AddsColumn(o) \/ ReadsVersion(o) \/ BeginsWrite(o)
  \/ Migrates(o) \/ DropsView(o) \/ CreatesView(o) \/ GivesUp(o) \/ Uses(o)

Next == OldProgram \/ Upgrade \/ Tick \/ \E o \in Opener : Opens(o) \/ Killed(o)

Spec == Init /\ [][Next]_vars

-----------------------------------------------------------------------------
(***************************************************************************)
(* Properties.                                                             *)
(***************************************************************************)

\* Whoever has opened the ledger finds it migrated, whatever became of those that were
\* migrating it.
OpenedWhole ==
  \A o \in Opener : opener[o].at = "open" => columns = Columns /\ version = 1

\* Which work is open is decided once: nobody who comes late to the migration finishes
\* work that is open after it, however long ago its process ended by then.
SortedOnce == [][version = 1 => \A s \in Rows : row'[s].done = row[s].done]_vars

\* Has every session stayed in the pane that it was started in?
NobodyMoved == \A i \in DOMAIN events : events[i].pane = row[events[i].s].pane

\* The migration recovers from the events how a session was left.  A mark outlives it
\* if it was in force, and a lapsed one does not return; of the sessions that ended
\* within the horizon the work is done if they were left by hand or cleared, and no
\* others.  Panes are read as they are now, so the latter is of sessions that have not
\* moved.
SortedAsEnded ==
  [][version' # version => \A o \in Opener : lock = o =>
       \A s \in Rows :
         /\ row'[s].mark # 0 <=> held[s]
         /\ NobodyMoved /\ ~Closed(s) => ~row'[s].done
         /\ NobodyMoved /\ Closed(s) /\ row[s].closed >= opener[o].now - Horizon =>
              (row'[s].done <=> ended[s] # "cut")]_vars

=============================================================================
