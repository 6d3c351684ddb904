------------------------------- MODULE Sweep -------------------------------
(***************************************************************************)
(* The sweep (reconcile.Sweep) against the ledger and against the processes *)
(* that both of them are about.                                            *)
(*                                                                         *)
(* A claude process reports to the ledger only through its hooks, and may  *)
(* die without one; the roster of its config dir (claude agents) is what   *)
(* is true.  A sweep compares the two.  It is not a transaction: it reads  *)
(* the ledger, reads one roster after the other, closes one row at a time, *)
(* reads the ledger again and stops one session at a time, while sessions  *)
(* start, end, are marked done and reopened, and other sweeps (each picker *)
(* run, each watch pass) do the same.                                      *)
(*                                                                         *)
(* The ledger is module Ledger.  Panes are left out: no session has one.   *)
(***************************************************************************)
EXTENDS Integers

CONSTANTS
  Session, Short, ShortOf, Kind, TurnState, Retention, MaxTime, NULL,
  Dir,       \* config dirs
  DirOf,     \* the config dir each session runs under
  Sweeper,   \* concurrent sweeps
  Linked,    \* bound: the short ids that delegations are recorded for
  MaxStart,  \* bound: how often a process may start
  MaxKill    \* bound: how many sweeps are killed on their way

ASSUME SweepAssumption ==
  /\ ShortOf \in [Session -> Short]
  /\ Kind \subseteq {"interactive", "background", "print"}
  /\ TurnState \subseteq {"working", "awaiting_approval", "idle_done"}
  /\ Retention \in Nat /\ MaxTime \in Nat /\ NULL \notin Nat
  /\ DirOf \in [Session -> Dir]
  /\ Linked \subseteq Short
  /\ MaxStart \in Nat
  /\ MaxKill \in Nat

VARIABLES
  sessions, links, now, collecting,   \* module Ledger
  proc,      \* each session's process
  starts,    \* how many processes have been started
  kills,     \* how many sweeps have been killed
  sweep,     \* each sweeper's local state
  steady     \* history: for each sweeper, the sessions whose process has been
             \* in the roster ever since the sweep read the ledger

Ledger == INSTANCE Ledger WITH Pane <- {}

ledger == <<sessions, links, now, collecting>>
vars == <<sessions, links, now, collecting, proc, starts, kills, sweep, steady>>

\* off       no process
\* starting  a process whose SessionStart hook has not committed
\* running   a process between hooks
\* ending    a process told to end, whose SessionEnd hook is yet to come
\* dead      no process, but a hook it started has not committed
ProcState == {"off", "starting", "running", "ending", "dead"}

Alive(p) == p.at \notin {"off", "dead"}

\* Mutant of Roster: an agent without an id is passed on.
RosterWithBlank(dir) == {s \in Session : DirOf[s] = dir /\ Alive(proc[s])} \cup {NULL}

\* What claude agents reports for dir.
Roster(dir) == {s \in Session : DirOf[s] = dir /\ Alive(proc[s])}

Idle == [phase |-> "idle", tracked |-> {}, unread |-> {}, live |-> [d \in {} |-> {}],
         todo |-> {}]

TypeOK ==
  /\ Ledger!TypeOK
  /\ proc \in [Session -> [at : ProcState, kind : Kind \cup {NULL}]]
  /\ starts \in 0..MaxStart
  /\ kills \in 0..MaxKill
  /\ DOMAIN sweep = Sweeper
  /\ \A w \in Sweeper :
       /\ sweep[w].phase \in {"idle", "reading", "closing", "stopping"}
       /\ sweep[w].tracked \subseteq Session
       /\ sweep[w].unread \subseteq Dir
       /\ DOMAIN sweep[w].live \subseteq Dir
       /\ \A d \in DOMAIN sweep[w].live : sweep[w].live[d] \subseteq Session
       /\ sweep[w].todo \subseteq Session
  /\ steady \in [Sweeper -> SUBSET Session]

-----------------------------------------------------------------------------
(***************************************************************************)
(* Processes, and the hooks they run.                                      *)
(***************************************************************************)

\* The process of s goes from one of the states in from to the state to.
Moves(s, from, to) ==
  /\ proc[s].at \in from
  /\ proc' = [proc EXCEPT ![s].at = to]
  /\ steady' = [w \in Sweeper |-> {x \in steady[w] : Alive(proc'[x])}]
  /\ UNCHANGED <<starts, kills, sweep>>

\* A session is started or resumed.
Start(s, kind) ==
  /\ proc[s].at = "off"
  /\ starts < MaxStart
  /\ starts' = starts + 1
  /\ proc' = [proc EXCEPT ![s] = [at |-> "starting", kind |-> kind]]
  /\ UNCHANGED <<sessions, links, now, collecting, kills, sweep, steady>>

StartHook(s) ==
  /\ Moves(s, {"starting"}, "running")
  /\ Ledger!SessionStart(s, NULL, proc[s].kind, "startup")

\* A hook that is dropped on the way changes nothing but the process.
StartHookLost(s) ==
  /\ Moves(s, {"starting"}, "running")
  /\ UNCHANGED ledger

TurnHook(s, state) ==
  /\ Moves(s, {"running"}, "running")
  /\ Ledger!TurnEvent(s, NULL, proc[s].kind, state)

\* The session ends, by itself or because it was told to: its last hook commits
\* and the process is gone.
EndHook(s, reason) ==
  /\ proc[s].at = "ending" => reason = "other"
  /\ Moves(s, {"running", "ending"}, "off")
  /\ Ledger!SessionEnd(s, NULL, proc[s].kind, reason)

\* The process is gone without a SessionEnd, with or without a hook of an
\* earlier event still on its way.
Vanish(s) ==
  /\ \/ Moves(s, {"starting", "running", "ending"}, "off")
     \/ Moves(s, {"running"}, "dead")
  /\ UNCHANGED ledger

LateHook(s, state) ==
  /\ Moves(s, {"dead"}, "off")
  /\ Ledger!TurnEvent(s, NULL, proc[s].kind, state)

\* What happens to the ledger without a process or a sweep.
LedgerOnly ==
  /\ \/ \E s \in Session : \/ Ledger!Done(s) \/ Ledger!Reopen(s)
                           \/ Ledger!GC(s) \/ Ledger!GCFails(s)
     \/ \E s \in Session, child \in Linked : Ledger!LinkSession(child, s)
     \/ Ledger!Tick
  /\ UNCHANGED <<proc, starts, kills, sweep, steady>>

-----------------------------------------------------------------------------
(***************************************************************************)
(* reconcile.sweep.                                                        *)
(***************************************************************************)

Becomes(w, local) == sweep' = [sweep EXCEPT ![w] = local]

\* LiveSessions.
Tracked == {s \in DOMAIN sessions : ~sessions[s].terminated}

\* Mutant of Leftovers: the process is looked for on the wrong axis.
LeftoversEnded == {s \in DOMAIN sessions : /\ sessions[s].done_at # NULL
                                           /\ sessions[s].terminated
                                           /\ sessions[s].kind = "background"}

\* DoneButRunning.
Leftovers == {s \in Tracked : /\ sessions[s].done_at # NULL
                              /\ sessions[s].kind = "background"}

\* Mutant of ToClose: a roster that could not be read counts as an empty one.
ToCloseUnread(tracked, live) ==
  {s \in tracked : DirOf[s] \in DOMAIN live => s \notin live[DirOf[s]]}

\* A dir whose roster was not read decides nothing about its sessions.
ToClose(tracked, live) ==
  {s \in tracked : DirOf[s] \in DOMAIN live /\ s \notin live[DirOf[s]]}

ListedIn(live, S) == {s \in S : DirOf[s] \in DOMAIN live /\ s \in live[DirOf[s]]}

ReadLedger(w) ==
  /\ sweep[w].phase = "idle"
  /\ Becomes(w, [Idle EXCEPT !.phase = "reading", !.tracked = Tracked,
                             !.unread = {DirOf[s] : s \in Tracked}])
  /\ steady' = [steady EXCEPT ![w] = {s \in Session : Alive(proc[s])}]
  /\ UNCHANGED <<sessions, links, now, collecting, proc, starts, kills>>

ProcessesAlone == UNCHANGED <<proc, starts, kills, steady>>

ReadRoster(w, dir) ==
  /\ sweep[w].phase = "reading"
  /\ dir \in sweep[w].unread
  /\ Becomes(w, [sweep[w] EXCEPT
                   !.unread = @ \ {dir},
                   !.live = [d \in DOMAIN @ \cup {dir} |->
                               IF d = dir THEN Roster(dir) ELSE @[d]]])
  /\ ProcessesAlone /\ UNCHANGED ledger

RosterUnreadable(w, dir) ==
  /\ sweep[w].phase = "reading"
  /\ dir \in sweep[w].unread
  /\ Becomes(w, [sweep[w] EXCEPT !.unread = @ \ {dir}])
  /\ ProcessesAlone /\ UNCHANGED ledger

\* Mutant of Decide: one unreadable roster is enough to give the sweep up.
DecideAll(w) ==
  LET local == sweep[w]
  IN  /\ local.phase = "reading" /\ local.unread = {}
      /\ Becomes(w, IF DOMAIN local.live # {DirOf[s] : s \in local.tracked} THEN Idle
                    ELSE [local EXCEPT !.phase = "closing", !.tracked = {},
                                       !.todo = ToClose(local.tracked, local.live)])
      /\ ProcessesAlone /\ UNCHANGED ledger

\* The decision.  With every dir unreadable the sweep is given up.
Decide(w) ==
  LET local == sweep[w]
  IN  /\ local.phase = "reading" /\ local.unread = {}
      /\ Becomes(w, IF local.tracked # {} /\ DOMAIN local.live = {} THEN Idle
                    ELSE [local EXCEPT !.phase = "closing", !.tracked = {},
                                       !.todo = ToClose(local.tracked, local.live)])
      /\ ProcessesAlone /\ UNCHANGED ledger

\* TerminateSession decides nothing: the row is closed whatever it is by now.
Close(w, s) ==
  /\ sweep[w].phase = "closing" /\ s \in sweep[w].todo
  /\ Ledger!TerminateSession(s)
  /\ Becomes(w, [sweep[w] EXCEPT !.todo = @ \ {s}])
  /\ ProcessesAlone

\* The transaction fails, as it must when the row has been collected since (an
\* event needs its session), and the rest of the sweep with it.
CloseFails(w) ==
  /\ sweep[w].phase = "closing" /\ sweep[w].todo # {}
  /\ Becomes(w, Idle)
  /\ ProcessesAlone /\ UNCHANGED ledger

ReadLeftovers(w) ==
  /\ sweep[w].phase = "closing" /\ sweep[w].todo = {}
  /\ Becomes(w, [sweep[w] EXCEPT !.phase = "stopping",
                                 !.todo = ListedIn(sweep[w].live, Leftovers)])
  /\ ProcessesAlone /\ UNCHANGED ledger

ReadLeftoversFails(w) ==
  /\ sweep[w].phase = "closing" /\ sweep[w].todo = {}
  /\ Becomes(w, Idle)
  /\ ProcessesAlone /\ UNCHANGED ledger

\* claude stop, by id: a process of that id that is still there is told to end.
Stop(w, s) ==
  /\ sweep[w].phase = "stopping" /\ s \in sweep[w].todo
  /\ proc' = [proc EXCEPT ![s].at = IF @ \in {"starting", "running"} THEN "ending" ELSE @]
  /\ Becomes(w, [sweep[w] EXCEPT !.todo = @ \ {s}])
  /\ UNCHANGED <<sessions, links, now, collecting, starts, kills, steady>>

StopFails(w, s) ==
  /\ sweep[w].phase = "stopping" /\ s \in sweep[w].todo
  /\ Becomes(w, [sweep[w] EXCEPT !.todo = @ \ {s}])
  /\ ProcessesAlone /\ UNCHANGED ledger

Finish(w) ==
  /\ sweep[w].phase = "stopping" /\ sweep[w].todo = {}
  /\ Becomes(w, Idle)
  /\ ProcessesAlone /\ UNCHANGED ledger

\* The sweep is killed, with its picker or by a shutdown.
Killed(w) ==
  /\ sweep[w].phase # "idle"
  /\ kills < MaxKill
  /\ kills' = kills + 1
  /\ Becomes(w, Idle)
  /\ UNCHANGED <<sessions, links, now, collecting, proc, starts, steady>>

-----------------------------------------------------------------------------

Init ==
  /\ Ledger!Init
  /\ proc = [s \in Session |-> [at |-> "off", kind |-> NULL]]
  /\ starts = 0
  /\ kills = 0
  /\ sweep = [w \in Sweeper |-> Idle]
  /\ steady = [w \in Sweeper |-> {}]

Process(s) ==
  \/ \E kind \in Kind : Start(s, kind)
  \/ StartHook(s) \/ StartHookLost(s)
  \/ \E state \in TurnState : TurnHook(s, state) \/ LateHook(s, state)
  \/ \E reason \in Ledger!DoneReasons \cup {"other"} : EndHook(s, reason)
  \/ Vanish(s)

Sweeping(w) ==
  \/ ReadLedger(w)
  \/ \E dir \in Dir : ReadRoster(w, dir) \/ RosterUnreadable(w, dir)
  \/ Decide(w)
  \/ \E s \in Session : Close(w, s) \/ Stop(w, s) \/ StopFails(w, s)
  \/ CloseFails(w) \/ ReadLeftovers(w) \/ ReadLeftoversFails(w)
  \/ Finish(w) \/ Killed(w)

Next ==
  \/ \E s \in Session : Process(s)
  \/ \E w \in Sweeper : Sweeping(w)
  \/ LedgerOnly

Spec == Init /\ [][Next]_vars

\* Sweeps keep coming and each goes on, no roster, close or stop fails for ever, and in
\* the end the ledger can be read.  A process told to end does.
Fairness ==
  /\ \A w \in Sweeper :
       /\ WF_vars(Sweeping(w)) /\ <>[][~ReadLeftoversFails(w)]_vars
       /\ \A dir \in Dir : SF_vars(ReadRoster(w, dir))
       /\ \A s \in Session : SF_vars(Close(w, s)) /\ SF_vars(Stop(w, s))
  /\ \A s \in Session : WF_vars(proc[s].at = "ending" /\ EndHook(s, "other"))

FairSpec == Spec /\ Fairness

-----------------------------------------------------------------------------
(***************************************************************************)
(* Properties.                                                             *)
(***************************************************************************)

Done(s) == s \in DOMAIN sessions /\ sessions[s].done_at # NULL
RecordedRunning(s) == s \in Tracked

\* A sweep never closes the row of a session whose process was there from the
\* read of the ledger to the close, whichever rosters it could not read, under
\* whichever dir the session runs, and whatever other sweeps close meanwhile.
SteadyNotClosed ==
  \A w \in Sweeper : sweep[w].phase = "closing" => sweep[w].todo \cap steady[w] = {}

\* A process that ended without a word, or whose last hook came late, does not
\* stay listed as running: sweeps record it as gone, unless it is started again.
VanishedBecomesGone ==
  \A s \in Session :
    proc[s].at = "off" /\ RecordedRunning(s) ~>
      proc[s].at # "off" \/ ~RecordedRunning(s)

\* A background process whose work is done does not stay up (what a cascade
\* leaves behind), unless the work is taken back.  A row that was closed under
\* the running process hides it from sweeps until its next hook.
DoneBackgroundStops ==
  \A s \in Session :
    (/\ proc[s].at = "running" /\ Done(s)
     /\ RecordedRunning(s) /\ sessions[s].kind = "background")
    ~> \/ proc[s].at # "running" \/ ~Done(s) \/ ~RecordedRunning(s)
       \/ sessions[s].kind # "background"

=============================================================================
