# claude-queue in TLA+

`knagiri/dotrc` is one person's dotfiles together with the tools that run many
Claude Code sessions side by side. The program with logic of its own is
`claude-queue` (`src/claude-queue`, Go): a ledger of sessions in one SQLite
file, written by hooks, by commands, by a picker and by an unattended watch
pass, each a short-lived process. This directory models it in TLA+, checks the
models with TLC and proves theorems about them with TLAPS.

Paths below are relative to the repository; `internal/` is
`src/claude-queue/internal/`.

## 1. The system

Everything runs on one host. There is no daemon: every actor is a process that
opens the database, does its work and exits, and any two may overlap. SQLite
serializes transactions, so an interleaving is an interleaving of transactions,
of subprocess calls between them (`claude agents`, `claude stop`, `tmux`, `gh`)
and of the claude processes that all of it is about.

| Component | State it keeps | Operations | Talks to |
|---|---|---|---|
| Ledger (`internal/db`, `internal/hook`, `internal/done`, `reopen`, `link`) | `sessions` (process axis `terminated_at`, work axis `done_at`), `events`, `session_links` | hook events, done with its cascade, reopen, link, GC | everything reads it |
| Jump history (`internal/db/nav.go`, `picker/nav.go`) | `nav_history`, `nav_cursor` | push a jump, walk back / forward | tmux between two of its accesses |
| Sweep (`internal/reconcile`, `internal/roster`) | none between runs | read ledger, read a roster per config dir, close rows, stop sessions | ledger, `claude agents`, `claude stop` |
| PR watch (`internal/prwatch`, PR columns in `internal/db/annotate.go`) | `pin_pr`, `pin_cursor`, `pin_seen_at`, `pin_delivered_*`, `pin_failures`, `pin_halted_upto` | poll, debounce, deliver, confirm, fail, halt, resume | `gh`, tmux, `claude --resume`, hooks that record the prompt |
| Watch, hibernation (`internal/watch`, `internal/hibernate`, `internal/sessionproc`) | none between runs | sweep, PR watch, choose idle sessions, re-check, stop | ledger, roster, transcript, tmux |
| Picker (`internal/picker`) | none | list, decide what a pick does (switch, resume, attach, reopen), record a jump | ledger, roster, tmux, fzf |
| Session tree (`picker/tree.go`, `origin.go`) | none | forest of delegations | pure function |
| Migration (`internal/db/open.go`, `schema.go`) | columns, `user_version`, the view | add columns, sort work into open and done once, replace the view | database file |
| Annotations (`internal/annotate`, `mark`) | memo, pin, mark | set and clear | ledger |
| Window names, config dirs, listings | none | formatting, path arithmetic, tmux command lines | tmux |
| Shell tools (`bin/`) | git worktrees, links | worktree creation, delegation, reviews, PR helpers | git, gh, claude |

What is hard here, and what each property is for, is listed line by line in
`PROJECT.json` under `hazards`. In short:

- **Ledger.** Hooks may be dropped, repeated, late, or run for a session that
  ended; done cascades over a graph that may have cycles; a collection that runs
  after any end must never lose open work.
- **Jump history.** A walk is three accesses with a tmux switch in between, and
  a jump may rewrite the history under it.
- **Sweep.** It decides on what it read earlier, while sessions start, end, are
  marked done and reopened, and while other sweeps run; some of its reads fail.
- **PR watch.** A launch proves nothing, so deliveries are confirmed later from
  the ledger, retried and capped, while the PR and the pin change.
- **Hibernation.** A session is chosen from three reads of the ledger, a roster
  and a transcript, and stopped after other candidates have been stopped and
  waited for, while it may start a turn, ask, or be started for by a delegate.
- **Picker.** Another check-then-act, on a roster, the panes of one tmux server
  and `/proc`, done by several pickers at once in a world that moves on.
- **Session tree.** A list that must show every row once, whatever the links are.
- **Migration.** No daemon migrates: the first hooks after an upgrade do, at once,
  and any may be killed on its way.

## 2. The modules

| Module | Models | Lines of code it stands for |
|---|---|---|
| `WorkAxis` | abstract: what the ledger promises about work | `docs/design/claude-queue-lifecycle.md` read against `db/lifecycle.go` |
| `Ledger` | tables `sessions`, `events`, `session_links` and every transaction on the two axes | `hook/dispatch.go`, `db/lifecycle.go`, `db/queries.go`, `done`, `reopen`, `link` |
| `BrowserHistory` | abstract: a browser's history | comments of `db.PushNav`, `walkHistory` |
| `NavHistory` | jump history and the walks | `db/nav.go`, `picker/nav.go` |
| `Sweep` | `reconcile.sweep` composed with `Ledger` and with the claude processes and their hooks | `reconcile/reconcile.go`, `roster/roster.go`, `hook/run.go` |
| `PRInbox` | abstract: what the PR watch promises about activity | comments of `prwatch.NewSince`, `db.AdvancePRCursor` |
| `PRWatch` | `prwatch.Pass` over one pin, with the PR, the session and the person | `prwatch/pass.go`, `deliver.go`, `poll.go`, the PR columns of `db/annotate.go` |
| `Hibernate` | the watch pass as far as it stops sessions, against processes, hooks, people and delegates | `hibernate/candidates.go`, `hibernate.go`, `watch/watch.go`, `sessionproc/sessionproc.go` |
| `Picker` | what picking a row does, several pickers at once | `picker/picker.go`, `origin.go`, `resume.go`, `multiplexer/tmux.go`, `label/label.go` |
| `Forest` | the list the picker shows, a pure function | `picker/tree.go` |
| `Migrate` | opening a ledger of the old program, several openers at once | `db/open.go`, `db/schema.go` |
| `LedgerProofs`, `NavHistoryProofs`, `SweepProofs`, `PRWatchProofs`, `PickerProofs`, `ForestProofs`, `MigrateProofs`, `HibernateProofs` | theorems | |
| `MCLedger`, `MCNavHistory`, `MCSweep`, `MCPRWatch`, `MCHibernate`, `MCPicker`, `MCMigrate` | constants and symmetry for TLC | |

Operators named after a defect (for instance `TreeOfOpen`, `GCForgetsChildren`)
that carry the comment *Mutant of X* are plausible bugs: with the body of `X`
replaced by them the property next to them in `PROJECT.json` fails. Nothing in a
specification uses them.

### Ledger

A table is a function whose domain is the set of keys it holds. `sessions[s]`
has the columns that a transition reads or writes: `tmux_pane`, `kind`,
`terminated` (is `terminated_at` set), `done_at`, and `raw_state`, the state of
the latest event (`db.LatestEvent`); older events are read by nothing modelled
here. `links` is keyed by the child's short id as the table is. `collecting` is
the set of sessions whose `SessionEnd` hook has committed and has yet to run the
garbage collection, which is a second transaction and may never happen.

One action is one committed transaction: `SessionStart` (the upsert, the forced
end of the other sessions of the pane, their done after a `/clear`, the event),
`TurnEvent`, `SessionEnd`, `GC`, `GCFails`, `Done`, `Reopen`, `LinkSession`,
`TerminateSession`, `Tick`. The operators `Upserted`, `Logged`, `Ended`,
`MarkedDone` are the statements inside, as functions of a table, applied in the
code's order. `Tree` is the recursive query of `MarkDone`, defined as the least
set closed under delegation (the query is a fixed point computed upward; least
closed set is what SQLite's `UNION` terminates with).

A `/clear` (`SessionStart` with source `clear`) is only taken for an id the ledger has
not heard of, as Claude Code makes a fresh id for it.

`WorkAxis` has no processes, panes, events or links: a session's work is heard
of, declared done, taken back or, after its retention, forgotten.

### NavHistory

`history` is the table (position to session), `cursor` the row of `nav_cursor` or
NULL. `PushNav` is one `BEGIN IMMEDIATE` transaction: two `push`es (origin,
target) as `Pushed`, then `Trimmed`, then the cursor. A walk (`walkHistory`) is
its own process: `ReadHistory` reads the entries (the first query of
`navHistory`), `Switch` reads the cursor, searches and switches the tmux client,
`SetNavCursor` saves the position; it may fail or be killed before
(`SaveFails`). Which session the ledger has in the client's pane, and which
sessions have a pane that a switch can reach and that is not the client's, is
chosen anew by each walk: the code compares panes (`nav.go:80`), so the two need
not go together. That nothing comes between the read and the writes of a jump is
what the immediate transaction promises; it is assumed.

### Sweep

`Sweep` instantiates `Ledger` for its four tables and adds `proc`, the claude
process of each session (off, starting before its `SessionStart` hook, running,
ending after a `claude stop`, dead with a hook still on its way), and `sweep`,
the local variables of each concurrent sweep (every picker run and watch pass
runs one): the rows it read, the rosters read so far, what is left to do.
`ReadLedger`, `ReadRoster` per dir, `RosterUnreadable`, `Decide` (`ToClose`),
`Close` per row, `CloseFails`, `ReadLeftovers` (`DoneButRunning`, which
`ReadLeftoversFails` gives up on), `Stop` per session, `StopFails`, `Finish`,
`Killed`. Between any two of these any process, hook, command or other sweep may act. `steady` is a history variable: which
sessions have had a process ever since the sweep read the ledger.

Processes and the roster are not code under `src/`: they are modelled from how
`reconcile` and `hook` use them, and marked external in `map`. Sessions in
`Sweep` have no pane; pane conflicts are checked in `Ledger` alone.

### PRWatch

One row of `sessions` with its PR columns (`pin`), and one pass at a time over
it: the timer starts a oneshot unit, which never overlaps itself. The pass reads
its pin once (`ReadPin`, `db.PRPins`) and keeps that copy, `pass.p`, for
everything it does afterwards, so its copy can be stale at any later step. Each
step of the pass is one database statement or one subprocess:

| Action | Code |
|---|---|
| `CheckPrompt`, `Confirm`, `FailPRDelivery` | `confirm`: a delivery is out, so the pass looks for the session's prompt and settles it |
| `Poll`, `ResumePRDelivery` | the poll, and the fresh start of a stopped delivery when it found something for it |
| `NoNews`, `SetPRSeen`, `Debounced` | the debounce |
| `StopFirst`, `Launch`, `SetPRDelivered` | `Deliver` and its record |
| `GivesUp` | every way a pass leaves a pin to the next one: a skip (delegates at work, a window on screen, a transcript in use, no tmux server), a failed poll, write or launch, and the end of the pass itself |

Its writes apply while `pin_pr` is the PR the pass read (`Writes`), and on no
other condition. GitHub (`Post`, `Delete`, `ChangeState`), the session's
process and its prompt hook, and the clock are modelled from how the code uses
them. A person pins, re-pins, unpins, marks done, reopens, resumes and types at
any moment.

Time comes in ticks: what happens within one tick carries the same stamp, as
times in the ledger and on GitHub have a resolution of one second. A time that
is only compared with a window (`pin_seen_at`, `pin_delivered_at`) is kept as
an age, up to the longest window, and the clock moves only when something has
the present stamp, which keeps the state space finite without a bound on how
long the system runs.

`past` is a history variable: when the pin was put on, what launches carried
(`told`), how many launches a pin has had since it was last confirmed or started
afresh (`tries`), and how many left no record (`lost`). `told` speaks of launches;
that a message arrived is what the code itself concludes from any later
`UserPromptSubmit`, a person's included, and the model concludes no more.

`PRInbox` says what all this is for, without cursor, debounce, count or pass: activity
comes and goes, is handed over any number of times, and is settled, which nothing is
that was not handed over or taken back, and which ends its being handed over. What is settled of
`PRWatch` is what lies behind the cursor since the pin was put on (`Settled`); a
launch hands over, a confirmation settles, a pin put on or taken off starts anew, and
everything else is hidden. The abstract module has one exception built in, that of a
resolution of one second: what comes in the second of something handed over may be
taken for it (`AtCursorDelivered` below). Activity from before the pin is of no
concern to it: a stale pass may move the cursor of a re-pinned PR back behind the pin.

Left out: the pin's note, the wording of messages, the limit of a hundred items
in a poll, a prompt in the very second of the pass's start and before it, and
passes over several pins (each pin is handled alone; only the reads share a
moment).

### Hibernate

One pass at a time (`pass`), from the PR watch's wake-ups to the last candidate.
The sweep and the PR watch have modules of their own and are only sketched here
(`SweepCloses`, `WakeStops`, `WakeLaunches`, `WakeFails`), as far as they move
what hibernation reads.

| Action | Code |
|---|---|
| `ReadRows` | `db.ListRows` with the gates read off a row: open, not ended, latest event an `idle_done` at least `Idle` old |
| `ReadOpen`, `ReadDelegates` | `db.OpenSessionIDs` (who is an orphan), `db.RunningDelegateCounts` |
| `ReadRoster`, `Judge` | the rosters; the transcript (`lastTurnSendsMessage`), which is not read for an orphan |
| `Spare` | `watch.Pass`: what the PR watch resumed in this pass is left alone |
| `CheckListed`, `CheckEvent`, `CheckEventFails` | `check`: the roster again, then the latest event again |
| `StopsBackground`, `EndsInteractive` | `claude stop` by id, SIGTERM by the pid the roster gave |
| `Skip` | every other reason to leave a candidate alone, wherever it is found |

`sent` is what the scan of the transcript would find; `AfterEntry` says what each
kind of entry makes of it. A roster may list a session that is on its way to or
from idle as idle (`Listings`). Any hook may be dropped, any number in a row.
The ledger hears of a turn if one of its hooks is recorded; of a turn that lost both
nothing is left that the code could see, and `NoTurnMissed` and, for questions asked
after the transcript was read, `QuestionKeepsSession` leave it out (`Unheard`).
`--idle-minutes 0` is not modelled. `since` is a history variable: who has been
through a turn the ledger heard of, which delegators stayed open, which delegates
stayed running and which questions a pass could know of since it read the ledger.
All rosters are read in one step before the transcripts, as if the rows shared a
config dir; the code reads the roster of a dir when it comes to its first row
(`candidates.go:163`).

### Picker and Forest

`proc` has the processes that run sessions, each with the place it can be seen
from: the tmux server that owns the pickers' socket, one that owns another, a
server that has lost its socket, one that has made it anew (`SocketBack`), no tmux,
or the daemon; and with the name of its window. A pick is one step after the other:

| Action | Code |
|---|---|
| `Lists`, `Refuses` | the listing, fzf and `isDone` |
| `ReadRoster` | `roster.ListIn`, which may fail |
| `Searches` | `describeTarget`, `reachablePane`, `FindPane`: without a roster the ledger's pane is taken, which may be any that is there; tmux may not answer |
| `Decides`, `DecidesNot` | `originOf`, which is asked after the search, and `DecideAction` |
| `Switches` | `switch-client` |
| `Kills`, `Waits` | `sessionproc.End`: a signal by pid, and `WaitGone` |
| `Names` | `windowNameFor`, from the transcript, before tmux is called |
| `Opens`, `OpenFails` | `OpenSession` |

`World` is what may happen between any two. A pid is given out again at once, to any
process (`Start`), and until then it may be any program's (`Finds`, `Origins`).
Windows are renamed by hooks (`HookNames`, `hook/window.go`) and by people, who also
move them to other tmux sessions (`WindowTaken`); the PR watch opens windows under the
same names without looking for one (`Start` with a name). `Selects` is
`new-window -S`: tmux selects a window of the name asked for rather than open a second
one, which is all that stands between two picks of one session. It stands only while
the name is the session's title, and so does `OnePerWindow` (`kept`).

A process that a pick ends is on a server that had lost its socket when it was asked
after. That is less than "nobody uses it", and the code knows: a client that was
attached before goes on (`origin.go:51`), and nothing can tell. Nor does the code look
again before it signals: the server may have made its socket anew by then, and if the
process has ended the pid may be any program's (`sessionproc.go:85`).
`EndsUnreachableOnly` says what is left: no other process that the roster had to list
is alive, and the one signalled, unless its pid is another's by now, was on such a
server.

`Forest!BuildForest` is `buildForest` as an operator over a function from row ids
to rows (delegator, last activity, whether the filter keeps it, whether it is in
scope): pruning level by level, cutting each cycle at one row, measuring trees by
their freshest row, and the pre-order walk. The loops and the recursion of the code
are recursive functions: a pass of the prune, a walk up and the series of cuts by
their number, at most as many as there are rows; a tree by its root. The two sorts
are the one sequence in that order (`Ascending`, `Freshest`; `Before` breaks ties by
id, so that there is just one). The reference, `ListsEachOnce`,
`ListsUnderDelegator` and `ListsFreshestFirst`, says what the list is to be without
saying how it is built.

### Migrate

The first part is the old program's hooks: `row`, `events` and what they record,
`ended` and `held` being the history of what really happened. The second
(`ClosingEvent`, `Successors`, `ForcedByClear`, `Finished`, `MarkHolds`, `Sorted`)
is the SQL of `migrateLifecycle`, one operator per subquery. The third is
`db.Open`, one action per statement that another process can come between:
`AsksColumn` and `AddsColumn` for each column, `ReadsVersion` outside a transaction,
`BeginsWrite`, `Migrates`, `DropsView`, `CreatesView`; `GivesUp` is the busy timeout,
`Killed` a kill with SQLite's rollback. `Uses` is what the ledger was opened for.
Rule 5 (`kind`) is left out: it fills a column that nothing here reads. A table that
the old ledger lacks is created by whoever opens it first (`IF NOT EXISTS`); nothing
that is modelled reads one, so an opener that waits or fails there is one that has not
begun. Every session of the old ledger has a pane: one without has a NULL that the
join in the SQL never matches (`open.go:198`), and closes no siblings.

## 3. What the runs show

| Run | Instance | Shows |
|---|---|---|
| `ledger_axes` | 2 sessions, 1 pane, print sessions and others, retention 1, clock 0..2 | `TypeOK`, `GoneIffEnded`, `OpenDelegationKept`, `WorkAxisImplemented` |
| `ledger_cascade` | 3 sessions, every link graph | `CascadeComplete` |
| `nav_history` | 3 sessions, 2 walks, limit 3, positions to 6 | `TypeOK`, `HistoryWellFormed`, `BackThenForwardReturns`, `BrowserImplemented` |
| `sweep_safety` | 2 sessions in 2 config dirs, 2 concurrent sweeps, links, one kill | `TypeOK`, `SteadyNotClosed` |
| `sweep_live` | 2 sessions in 2 config dirs, 1 sweep, clock 0..1 with retention 0, one kill, fairness | `VanishedBecomesGone`, `DoneBackgroundStops` |
| `pr_safety` | 2 events, 1 PR, cap 2, clock to 3, a turn by hand, a lost record | `TypeOK`, `NothingSkipped`, `LaunchesCapped`, `InboxImplemented` |
| `pr_pins` | 1 event, 2 PRs that close and reopen, cap 1, clock to 2 | `UnpinnedAfterClose`, `ResumedForNews` |
| `pr_live` | 1 event, 1 PR that merges, cap 2, clock to 2, fairness | `NewsIsSettled`, `MergeUnpins` |
| `hibernate` | a delegator at its terminal, with a pin, and its background delegate; idle after 1 tick; fairness | `TypeOK`, `NoTurnMissed`, `QuestionKeepsSession`, `DelegateKeepsDelegator`, `WokenNotStopped`, `RestingIsStopped` |
| `picker` | 1 session, 2 pickers, 2 pids, 2 panes, 2 titles; every list of 3 rows | `TypeOK`, `OnePerWindow`, `EndsUnreachableOnly`, `ResumesAlone`, `SwitchesToSession`; `EachRowOnce`, `UnderDelegator`, `FreshestFirst` |
| `migrate` | 2 sessions, 2 panes, 4 old events, 2 openers, 2 columns, one kill | `TypeOK`, `OpenedWhole`, `SortedOnce`, `SortedAsEnded` |
| `pr_same_second` | as `pr_safety` | `AtCursorDelivered` fails (below) |

Why the bounds are enough to be interesting: three sessions are the least with a
delegate of a delegate (and with a delegate reached through a done one), two
share a pane; a retention of one tick and a clock of two ticks show a done row
before, at and after its boundary (in `sweep_live` a retention of none and one
tick are enough for a row to be collected under a sweep); `Ledger` tells only
print sessions from the rest, and the `Sweep` runs have background sessions only,
the kind a sweep stops; a history limit of three with positions to six is trimmed
several times, walked back in, and pushed into from the middle; two dirs are the least for one roster to fail and the other not; two
process starts (`MaxStart`) are the least for a resume, and one kill (`MaxKill`)
for a sweep that has to be made up for. Two events are the least to share a
second, to come in a burst, and for one to be deleted between a poll and its
confirmation; two PRs are the least to re-pin between during a pass; a cap of two
shows a failure that does not stop the delivery and one that does; the debounce
and the confirmation window are one tick each, so that each has a before and an
after. In `hibernate` a delegator and its delegate are the least that hold each other,
orphan each other and ask each other, of the two kinds that are stopped in
different ways; one tick of idling has an age before it and one at it; a pass
takes no whole tick (`PassLimit = 0`), yet within it any number of hooks,
turns and commands happen, and only the delegate sends messages and has its
turns remembered (`Followed`), which makes the state space a third smaller. In `picker` two
pickers of one session are the least to collide, with two pids for one process to be
ended while the other lives, or to be given out again to a process elsewhere, two
panes for an id to be given out again, and two titles for a window to lose its name
(a pid or a pane that is another session's is one that is no process of this one; the
theorems are about any number of sessions); three rows have every shape that the cut
and the prune tell apart (a cycle of two with a row hanging off it, a cycle of
three, a chain with its middle filtered out). In `migrate` four events are the least for a
start, a `/clear`, an end and a resume; a horizon and a window of no ticks, with a
clock of two values, have something on both sides of each; two columns are the least to be killed
between. `MaxTime`, `MaxPos`, `MaxStart`, `MaxKill`, `MaxByHand`, `MaxLost`,
`MaxEvent`, `PassLimit` and the sets that their comments call bounds are the only
bounds. The sessions, walks, sweeps, events and PRs of a run with
symmetry are interchangeable: no definition names one. `CHECK_DEADLOCK FALSE` is
set where those bounds, or an empty history, really leave nothing to do.

**Fairness** (`Sweep!Fairness`). `dot/systemd-user/claude-queue-watch.timer`
starts a pass every three minutes for ever and every pass begins with a sweep,
so every step of a sweep, of whichever kind, is weakly fair. A roster read,
a close and a stop may each fail any number of times, but not always (strong
fairness): a claude binary that never answers again, or a database that is never
free, is out of scope; the read of the leftovers, of a local file, fails only so many
times (`<>[]` of not `ReadLeftoversFails`). A process told to end does. Nothing is assumed of
sessions, people or hooks: a process may run, or be gone without a word, for
ever. A kill is bounded by `MaxKill`; a sweep that is killed every single time
would never close anything.

**Fairness** (`PRWatch!Fairness`). The same timer brings pass after pass, each
of which ends; reading the pin and going on with a pass are weakly fair. A pass
may be killed, and a read, a poll, a write, a stop and a launch may fail or be
skipped, any number of times, but not always (strong fairness of the steps that
matter). A turn ends. A launched resume takes its message or fails, and may fail
every time: the cap is what ends that. Nothing is assumed of GitHub or of the person, so both liveness
properties hold unless the person lifts the stop on the delivery again and again
(`KeepsLifting`), which makes it start over each time. In `pr_live` no one types
by hand and no record is lost.

**Fairness** (`Hibernate!Fairness`). The same timer: passes keep coming and each
goes on (`WF` of `Pass`). Time passes, though not within a pass that has run out
of its limit (`SF` of `Tick`). A candidate may be skipped any number of times, but
not always (`SF` of `Stops(s)` for each session): a window that is on screen for
ever, or a roster that is never readable, keeps its session and is out of
scope. Nothing is assumed of people, processes or hooks: `RestingIsStopped` says
that a session is stopped in the end *or* something happens to it.

**Where the code and its comments disagree.** One is a run that ends in a
counterexample (`findings` in `PROJECT.json`):

- `pr_same_second`: `prwatch/poll.go:158` says an event at the cursor is already
  delivered. One posted in the second of the newest delivered event, after the
  poll, is not, and never will be. `NothingSkipped` is the part that holds: apart
  from such a second nothing behind the cursor was left out.

The others no run states, as each follows from the models' actions at once:

- A session reopened between `DoneButRunning` and its stop (`Sweep!ReadLeftovers`,
  `Stop`; `reconcile/reconcile.go:213`) is stopped, against the comment of
  `DoneButRunning` (`db/lifecycle.go:153`). Its work stays open.
- The design has activity delivered a tick after the last of it; the code counts
  from the pass that first saw it (`PRWatch!Debounced`), so a longer burst is
  delivered in its middle.
- `prwatch/deliver.go:95` says a running session is stopped before it is resumed.
  One that a person resumed after the pass read the pins is resumed while it runs
  (`PRWatch!Launch`, which goes by the copy; `deliver.go:141`).
- `db/nav.go:60` says that the cursor names a kept entry unless the table was
  edited by hand. A walk that saves its position after a jump dropped the entry is
  another way; `BrowserImplemented` shows that the fallback makes it invisible.
- A session resumed between the roster read and the close is closed while it
  runs, until its next hook. `SteadyNotClosed` is the part of the promise that
  holds.
- `docs/design/claude-queue-lifecycle.md:87` has an open delegate of a done
  session marked done automatically; no code does that. It can only come about
  by a reopen or by a link recorded after the done.
- `db/annotate.go:104` says that what happened before the pin is not news. A pass
  that read the pin before it was put on again delivers it.
- Rule 2 of the comment of `migrateLifecycle` speaks of a `/clear` on the session's
  pane; the SQL (`db/open.go:194`) joins the panes the two sessions have *now*. A
  `/clear` whose successor was since resumed in another pane leaves the old session
  open (`Migrate!Successors`; hence `NobodyMoved` in `SortedAsEnded`).
- `db/open.go:133` says that opening a migrated ledger does not take the write
  lock. `DROP VIEW` and `CREATE VIEW` at every open do (`Migrate!DropsView`,
  `CreatesView`), and between the two a reader finds no view. Of two openers at
  once the second to add a column, or to create the view, fails, and the hook it
  opened for is lost.

## 4. What is proved

TLAPS checks every step; the constants are only assumed to be what
`LedgerAssumption`, `NavAssumption`, `SweepAssumption`, `PRWatchAssumption`,
`PickerAssumption`, `ProcessAssumption`, `ListAssumption`, `MigrateAssumption` and `HibernateAssumption`
say (no finiteness but that of the rows of a list, whose ids and times are integers; no
particular number of sessions, panes, walks, sweeps, dirs, events, PRs, pickers,
processes or openers, any idle threshold, any limit of at least two, any retention, any cap of at least
one, a debounce not longer than the confirmation window, any number of columns of at
least one, a `NULL` that is none of the values it stands beside; the bounds `MaxTime`, `MaxPos`, `MaxStart`, `MaxKill`, `MaxByHand`,
`MaxLost`, `MaxEvent` are arbitrary numbers).

| Theorem | Property | Argument |
|---|---|---|
| `LedgerTypeCorrect` | `TypeOK` | inductive as it stands; each statement operator keeps a table typed |
| `ProcessAxisRecordedOnce` | `GoneIffEnded` | inductive with `TypeOK`: the upsert and the event log together put both records to "running", `Ended` both to "ended" |
| `DoneTakesDelegatesAlong` | `CascadeComplete` | a step that makes an open session done applies `MarkedDone` with roots `R` and the session is in `Tree(R)`; the witness is `Tree` itself, which is closed under delegation because it is the least closed set |
| `OnlyReopenTakesBack` | that no step but a reopen takes back a done | every other action keeps a set `done_at`, by the lemma for each statement operator |
| `OpenDelegationsStay` | `OpenDelegationKept` | links leave only in `GC`, whose condition names both ends |
| `LedgerImplementsWorkAxis` | `WorkAxisImplemented` | step by step: hooks and done map to `HearAndDeclare`, reopen to `TakeBack`, `GC` to `Forget`, `Tick` to `Pass`, the rest stutters |
| `NavTypeCorrect`, `HistoryStaysWellFormed` | `TypeOK`, `HistoryWellFormed` | one invariant of both: the history a walk has read must be well formed too, because the cursor it will save comes from it |
| `ForwardUndoesBack` | `BackThenForwardReturns` | in a well-formed history the entry back started from is ahead of where back landed; the nearest candidate there exists by well-foundedness of the naturals and can only be that entry's session |
| `JumpsLeaveWayBack` | `JumpLeavesWayBack` (in no run: it is part of what `BrowserImplemented` says of a jump) | two pushes put target right after origin, and a limit of at least two keeps both when trimming |
| `HistoryIsABrowsers` | `BrowserImplemented` | the refinement: the entries up to the current one are the list of visits, a push is a visit or nothing, a trim keeps the newest of them, and a saved cursor always reads as some entry of the list |
| `SteadySessionsSpared` | `SteadyNotClosed` | inductive strengthening: every steady session is in every roster the sweep has read, for its own dir, and so not in `ToClose` |
| `SweepTypeCorrect` | `TypeOK` | the hooks need that a process that is there was started as some kind (`ProcTyped`); every step takes one of `Ledger` or leaves the tables alone, so their invariant is that of `LedgerProofs`, instantiated with no panes; two lemmas show its copies of `Next` and of `TypeOK` to be the ones of `Sweep` |
| `TypeCorrect` (`PRWatch`) | `TypeOK` | inductive with three facts of a pass: a launch has news unless it is for a close, what it read was posted, and what it goes on with is what the phase says it has; `Newest` needs them, and that a nonempty set of times up to `MaxTime` has a maximum |
| `LaunchesAreCapped` | `LaunchesCapped` | every launch is accounted for: `tries` is at most the recorded failures, the lost records and the one in flight, and failures and the one in flight stay within the cap, because a pass launches only on a copy with failures below it and a fresh start in between resets both |
| `UnpinsAfterClose` | `UnpinnedAfterClose` | a delivery that is out with no `upto` is one of a close, and the PR the last launch called closed is the PR of that delivery, through re-pins and stale passes |
| `NothingIsSkipped` | `NothingSkipped` | about every place the cursor is or may yet be put (the pin, the pass's copy, a delivery that is out, a launch not yet recorded): everything behind it was told, and its own second holds a told event |
| `ResumesForNews` | `ResumedForNews` | whoever holds a delivery (the pin that has it out, or has stopped on it, and the pass that will record it as failed) holds what the session was told last, because nothing is launched meanwhile; a poll that outdoes it has found something else |
| `WatchIsAnInbox` | `InboxImplemented` | the refinement, step by step. A post, a deletion, a pin and a launch map to `Comes`, `Goes`, `Pins` and `HandsOver`; a confirmation to `Settles`, or to `Pins(NULL)` after a close; the rest stutters. It rests on the invariant of `NothingIsSkipped` for what may be settled, and on `Ordered` for what stays so: every place the cursor may yet be put, and the copy of it that a pass calls news by, is no further back than the cursor, or the cursor is no further than the time of the pin, where nothing is settled |
| `PickerTypeCorrect`, `OneProcessPerWindow` | `TypeOK`, `OnePerWindow` | one invariant (`Inv` of `PickerProofs`): types, no two processes in one pane, a window that was `kept` has its session's title for its name, there is one such per session, and what each pick knows of the processes it has read. A pick gets such a window only in the step that finds no other of the name |
| `OnlyUnreachableEnded`, `LaunchesAlone`, `SwitchesRight` | `EndsUnreachableOnly`, `ResumesAlone`, `SwitchesToSession` | each from what the pick knows in its phase, which every step of the world leaves true: what it has seen and is still there is the picked session's and among the pids it has; a pid to be signalled is the only one seen, and its process, if it still is the one that was asked after, is on a server that has lost its socket or made it anew; whoever goes on to open has seen everything end |
| `ForestListsEachOnce` | `EachRowOnce` | of the rows shown (5 below) the whole list is a `Listing` (4), which has each once |
| `ForestListsUnderDelegator` | `UnderDelegator` | in a `Listing` the last row before one that is less deep is the one its link, after the cuts, leads to; a link that was cut led into the row's own tree (1) |
| `ForestListsFreshestFirst` | `FreshestFirst` | the list is in parts, a tree each, in the order of `Freshest`; what is listed before is in the same tree or in one at least as fresh |
| `HibernateTypeCorrect` | `TypeOK` | with the next four from one invariant (`Inv` of `HibernateProofs`): types, the shape of a pass in each phase (`Shaped`), and what it still recalls of the world (`Recalled`) |
| `NoTurnIsMissed` | `NoTurnMissed` | a row is judged by an event at least `Idle` old, so a turn since then that the ledger heard of has left a newer one: one of its hooks is recorded, and is younger; the re-check compares with the row's own event |
| `QuestionsKeepSessions` | `QuestionKeepsSession` | a row that is still to be judged by its transcript has not asked; one already judged is an orphan, had not asked, or asked in a turn since, which is not over, has left a newer event, or was not heard of and is not counted |
| `DelegatesKeepDelegators` | `DelegateKeepsDelegator` | a row counted as without delegates has none among those that have been running since, because that set was taken in the same read and only shrinks |
| `WokenAreSpared` | `WokenNotStopped` | what a pass has resumed is taken out of its rows in one step: the session in hand is one that `Spared` has let through, and nothing is resumed once rows are being judged |
| `WholeWhenOpen` | `OpenedWhole` | the invariant of `MigrateProofs`: only one opener is in a transaction and holds the lock, and each relies only on what nobody undoes (columns it has seen there stay, the version stays) |
| `SortsOnce` | `SortedOnce` | in the same invariant the version, once read as 1 under the lock, is 1: a `Sorts` happens only at version 0, and after it `row` changes only by `Uses`, which keeps `done` |
| `MigrateTypeCorrect` | `TypeOK` | with the next one from `IInv` of `MigrateProofs`; that the mark the SQL picks is an event's number needs that a nonempty set of event numbers has a greatest |
| `SortsAsEnded` | `SortedAsEnded` | `Recorded`, which the old program keeps up to the migration: its events are in the order of their times; one open row per pane, that of the session that runs there; a mark is in force exactly if it sits on its session's latest event that is no end; and the last event of a closed session is an end that tells how it ended: by its reason, or, if another start forced it, by whether that start came after a `/clear` and was recorded with it. Each subquery of the migration then reads back what `Recorded` says the events hold |

How the proofs about `Forest` go. Its properties are about recursive functions, and
the prover has no induction over an operator; `ForestProofs` does without: `UpTo` is
induction over the *set* of numbers up to a bound for which something holds, and
`Recursion` that there is a function that goes from a start in so many steps, both
from the least element of a set of naturals. On these stand, in this order:

1. *Cutting.* A walk through more links than there are rows is somewhere twice, so a
   walk that never returns comes to its end (`NoReturnGrounds`: pigeonhole). One cut
   grounds the walk it is made on and leaves the grounded ones as they were
   (`CutFromGrounds`), so after a cut per row every walk ends, and a row that lost its
   link is above the delegator it lost (`CutGrounds`, `CutLoose`).
2. *Trees.* When every walk ends, each row is below exactly one root (`HasRoot`,
   `TreesApart`) and a child's tree is smaller than its parent's (`TreeShrinks`),
   which is what the recursion of the walk over trees is proved to end by
   (`TreesGrow`).
3. *Orders.* A finite set has exactly one sequence in a total order, with all of it
   (`CanBeSorted`, `SortedHasAll`); `Freshest` is such (`FreshestIsInOrder`).
4. *Lists.* `Listing` is the invariant of the pre-order walk: each id of a set once,
   and each row either at the top or with its parent as the last row before it that
   is less deep. Concatenation keeps it (`FlattenListing`), so does putting a root in
   front (`RootListing`); by the size of the trees every tree is listed so
   (`TreesListed`), and so is the whole (`BuildForestShows`).
5. *Which rows.* A row pulled back is above one that is asked for (`AboveHoldsUp`),
   and as many passes of the prune as there are rows leave none bare
   (`PruneLeavesNoneBare`).

Only model-checked: the liveness properties (`VanishedBecomesGone`,
`DoneBackgroundStops`, `NewsIsSettled`, `MergeUnpins`, `RestingIsStopped`), as fairness
is out of the prover's reach.

## 5. Not modelled

- Cwd, transcript paths, memo, note and payload columns: no transition reads them.
- Rendering, summaries, fzf with its key binds and reloads, glyphs, rails and the
  marks on roots of the tree, quoting and option handling of tmux, popups, path
  arithmetic.
- Several tmux servers in the ledger, and the reuse of pane ids there: a hazard
  with no property. (The picker's side of both is in `Picker`.)
- In the picker: a server that takes the pickers' own path back (its socket made anew
  where another server had the path), and clients that are attached to a server.
- In the ledger: `claude-queue done` finds the id and reads the row in statements of their
  own before it writes (`Ledger!Done` is all of them). Ids do not change, what the row
  says decides the wording of the answer alone, and it could be collected in between
  only if it had been done for a week.
- In the PR watch: see the end of its section above. In `Hibernate`: the wait for an
  interactive process and the closing of its pane are one delay; several passes at
  once do not occur (the timer starts a oneshot unit). In `Migrate`: rule 5.
- Corruption or loss of the database file; SQLite itself; the deletion of the
  database by `reset`.
- `bin/`, `rc/`, `dot/` (see the components in `PROJECT.json`): sequential scripts
  and the configuration of other programs.

## 6. Plan

What is left, in order of importance:

1. An abstract specification of opening a ledger (the rows are sorted in one step,
   by whichever opener, before anyone uses them), with `Migrate` as its
   implementation.
2. The same for a pick of `Picker`: a session is switched to, or ended and resumed,
   in one step, by whichever picker, as far as names and pids let it be.
