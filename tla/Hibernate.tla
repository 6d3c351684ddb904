------------------------------- MODULE Hibernate -------------------------------
(***************************************************************************)
(* Hibernation: the watch pass (watch.Pass) stops the processes of sessions *)
(* that have sat idle for a while, and leaves their work open.             *)
(*                                                                         *)
(* A pass sweeps, lets the PR watch wake sessions, chooses candidates from *)
(* three reads of the ledger, a roster and a transcript per session, and   *)
(* then takes them one after the other: a re-check, and the stop, which    *)
(* may wait.  None of this is a transaction, and all the while people type, *)
(* turns start and end, hooks commit late or never, delegates ask, report, *)
(* die and are resumed, and work is marked done and reopened.              *)
(*                                                                         *)
(* The modules Ledger, Sweep and PRWatch have the parts that are only      *)
(* sketched here: a row has its two axes and its latest event, the sweep   *)
(* closes rows of ended processes, the PR watch stops and resumes.  Each   *)
(* session has a row, and its delegator is recorded once and for all.      *)
(***************************************************************************)
EXTENDS Integers

CONSTANTS
  Session,
  ParentOf,   \* the recorded delegator of each session, or NULL
  KindOf,     \* "interactive" or "background"
  Pinned,     \* the sessions whose pin watches a PR
  Idle,       \* Options.Idle, in ticks
  PassLimit,  \* TimeoutStartSec, in ticks: how long a pass may take
  Followed,   \* bound: the sessions whose messages and turns are followed
  NULL

ASSUME HibernateAssumption ==
  /\ NULL \notin Session
  /\ ParentOf \in [Session -> Session \cup {NULL}]
  /\ KindOf \in [Session -> {"interactive", "background"}]
  /\ Pinned \subseteq Session
  /\ Idle \in Nat \ {0}
  /\ PassLimit \in Nat /\ Followed \subseteq Session

VARIABLES
  open,    \* the sessions whose work is not done (done_at IS NULL)
  gone,    \* those whose process is recorded as ended (terminated_at)
  latest,  \* each session's latest event: is it an idle_done, and its age
  proc,    \* each session's process
  sent,    \* what the transcript tells: the last turn sent a SendMessage
  pass,    \* the pass's local state
  since    \* history: what the properties remember (see Init)

vars == <<open, gone, latest, proc, sent, pass, since>>
ledger == <<open, gone, latest>>

\* off   no process             starting  its first hook to come
\* idle  between turns          prompted  in a turn, its hook to come
\* busy  in a turn              ending    told to end, its last hook to come
ProcState == {"off", "starting", "idle", "prompted", "busy", "ending"}

\* Ages count up to where no comparison can tell them apart.
MaxAge == Idle + PassLimit
Age == 0..MaxAge
Older(age) == IF age < MaxAge THEN age + 1 ELSE age

Event == [idle : BOOLEAN, age : Age]
IdleDone == [idle |-> TRUE, age |-> 0]
Other == [idle |-> FALSE, age |-> 0]

\* rows: the sessions still considered, each with the age of the idle_done it is
\* judged by (IdleSince).  orphans: those whose delegator is done.  todo: those whose
\* transcript is still to be read.  same: the interactive ones whose pid, as read, is
\* still theirs.
NoPass == [phase |-> "none", took |-> 0, rows |-> [s \in {} |-> 0], orphans |-> {},
           todo |-> {}, same |-> {}, resumed |-> {}, at |-> NULL]

Phase == {"none", "watch", "waking", "rows", "open", "delegates", "candidates",
          "listed", "checked"}

TypeOK ==
  /\ open \subseteq Session /\ gone \subseteq Session
  /\ latest \in [Session -> Event]
  /\ proc \in [Session -> ProcState]
  /\ sent \in [Session -> BOOLEAN]
  /\ pass.phase \in Phase /\ pass.took \in 0..PassLimit
  /\ DOMAIN pass.rows \subseteq Session
  /\ pass.rows \in [DOMAIN pass.rows -> Age]
  /\ pass.todo \subseteq DOMAIN pass.rows /\ pass.orphans \subseteq DOMAIN pass.rows
  /\ pass.same \subseteq Session /\ pass.resumed \subseteq Session
  /\ pass.at \in Session \cup {NULL}
  /\ pass.phase \in {"waking", "listed", "checked"} <=> pass.at # NULL
  /\ since \in [turns : SUBSET Session, open : SUBSET Session,
                running : SUBSET Session, asked : SUBSET Session]

Delegates(s) == {c \in Session : ParentOf[c] = s}

\* Open and recorded as running.
Running == open \ gone

-----------------------------------------------------------------------------
(***************************************************************************)
(* Processes and their hooks.                                              *)
(***************************************************************************)

\* The process of s goes from a state in from to the state to.  A pid that was
\* read is no longer the session's once the process is gone.
Moves(s, from, to) ==
  /\ proc[s] \in from
  /\ proc' = [proc EXCEPT ![s] = to]
  /\ pass' = IF to = "off" THEN [pass EXCEPT !.same = @ \ {s}] ELSE pass

\* A hook event of s commits: the process is running.
Records(s, event) ==
  /\ latest' = [latest EXCEPT ![s] = event]
  /\ gone' = gone \ {s}
  /\ UNCHANGED open

\* What the properties remember, after a step of a process or a person.
Remembers(turns, asked) ==
  since' = [since EXCEPT !.turns = turns, !.asked = asked,
                         !.open = @ \cap open', !.running = @ \cap (open' \ gone')]
RemembersSame == Remembers(since.turns, since.asked)

\* A session is started, or resumed, by a person or by its delegator.
Start(s) ==
  /\ Moves(s, {"off"}, "starting")
  /\ UNCHANGED <<ledger, sent, since>>

\* The pass has read the transcript of s.
TranscriptRead(s) ==
  pass.phase \in {"candidates", "listed", "checked"} /\ s \in DOMAIN pass.rows \ pass.todo

\* Any hook may be dropped.  When the hook that ends a turn is, and the latest event is
\* still an idle_done, then the turn's first one has been dropped as well: the ledger has
\* not heard of the turn, nor has a pass that is past the transcript.
Unheard(s) == latest[s].idle /\ UNCHANGED ledger
Asked(s) == IF Unheard(s) /\ TranscriptRead(s) THEN since.asked \ {s} ELSE since.asked

StartHook(s) ==
  /\ Moves(s, {"starting"}, "idle")
  /\ Records(s, Other) \/ UNCHANGED ledger
  /\ UNCHANGED sent
  /\ Remembers(since.turns, Asked(s))

\* Mutant of AfterEntry: tool results come as user entries, and end a turn.
AfterEntryOfUser(told, entry) ==
  IF entry \in {"prompt", "tool_result"} THEN FALSE ELSE told \/ entry = "SendMessage"

\* lastTurnSendsMessage: what one more entry of the transcript makes of it.
AfterEntry(told, entry) ==
  IF entry = "prompt" THEN FALSE ELSE told \/ entry = "SendMessage"

Entry == {"SendMessage", "tool_result", "subagent"}

\* A person, or a message that arrives, starts a turn.
Prompt(s) ==
  /\ Moves(s, {"idle"}, "prompted")
  /\ sent' = [sent EXCEPT ![s] = AfterEntry(@, "prompt")]
  /\ UNCHANGED <<ledger>>
  /\ Remembers(since.turns, since.asked \ {s})

PromptHook(s) ==
  /\ Moves(s, {"prompted"}, "busy")
  /\ Records(s, Other) \/ UNCHANGED ledger
  /\ UNCHANGED sent /\ RemembersSame

Works(s, entry) ==
  /\ s \in Followed /\ Moves(s, {"busy"}, "busy")
  /\ sent' = [sent EXCEPT ![s] = AfterEntry(@, entry)]
  /\ UNCHANGED <<ledger>>
  /\ Remembers(since.turns, IF entry = "SendMessage" THEN since.asked \cup {s} ELSE since.asked)

\* The turn ends.
StopHook(s) ==
  /\ Moves(s, {"busy"}, "idle")
  /\ Records(s, IdleDone) \/ UNCHANGED ledger
  /\ UNCHANGED sent
  /\ Remembers(IF Unheard(s) THEN since.turns
               ELSE since.turns \cup ({s} \cap Followed \cap DOMAIN pass.rows), Asked(s))

\* A process that was told to end does, and its SessionEnd is recorded.
EndHook(s) ==
  /\ Moves(s, {"ending"}, "off")
  /\ latest' = [latest EXCEPT ![s] = Other]
  /\ gone' = gone \cup {s}
  /\ UNCHANGED <<open, sent>> /\ RemembersSame

\* The process ends without a word.
Vanish(s) ==
  /\ Moves(s, ProcState \ {"off"}, "off")
  /\ UNCHANGED <<ledger, sent, since>>

\* The commands done, which takes the delegates along, and reopen.
Below(s) ==
  {x \in Session : \A W \in SUBSET Session :
     s \in W /\ (\A y \in W : Delegates(y) \subseteq W) => x \in W}

Done(s) ==
  /\ s \in open
  /\ open' = open \ Below(s)
  /\ UNCHANGED <<gone, latest, proc, sent, pass>> /\ RemembersSame

Reopen(s) ==
  /\ s \notin open
  /\ open' = open \cup {s}
  /\ UNCHANGED <<gone, latest, proc, sent, pass, since>>

Tick ==
  /\ pass.phase # "none" => pass.took < PassLimit
  /\ UNCHANGED <<open, gone, proc, sent, since>>
  /\ latest' = [s \in Session |->
                  IF latest[s].idle THEN [latest[s] EXCEPT !.age = Older(@)] ELSE latest[s]]
  /\ pass' = IF pass.phase = "none" THEN pass
             ELSE [pass EXCEPT !.took = @ + 1,
                               !.rows = [s \in DOMAIN @ |-> Older(@[s])]]

-----------------------------------------------------------------------------
(***************************************************************************)
(* The pass, up to the candidates.                                         *)
(***************************************************************************)

World == <<open, gone, latest, proc, sent>>

\* reconcile.Sweep, of this pass or of any picker, closes the row of a session
\* that it found without a process, and that may have been started since.
SweepCloses(s) ==
  /\ s \notin gone /\ proc[s] \in {"off", "starting"}
  /\ gone' = gone \cup {s}
  /\ latest' = [latest EXCEPT ![s] = Other]
  /\ UNCHANGED <<open, proc, sent, pass>> /\ RemembersSame

\* A pass begins, or has woken a session.
Watching == pass.phase \in {"none", "watch"}

\* prwatch.Deliver for a running session: it is stopped first.
WakeStops(s) ==
  /\ Watching /\ s \in (Pinned \cap open) \ pass.resumed
  /\ latest[s].idle /\ Delegates(s) \cap Running = {}
  /\ proc[s] = "idle"
  /\ UNCHANGED <<ledger, sent, since>>
  /\ proc' = [proc EXCEPT ![s] = "ending"]
  /\ pass' = [pass EXCEPT !.phase = "waking", !.at = s]

\* The resume, of a session that was gone or has been stopped.
WakeLaunches(s) ==
  /\ \/ Watching /\ s \in (Pinned \cap open) \ pass.resumed /\ s \in gone
     \/ pass.phase = "waking" /\ s = pass.at
  /\ proc[s] = "off"
  /\ proc' = [proc EXCEPT ![s] = "starting"]
  /\ pass' = [pass EXCEPT !.phase = "watch", !.at = NULL, !.resumed = @ \cup {s}]
  /\ UNCHANGED <<ledger, sent, since>>

\* Stopped, but not resumed.
WakeFails ==
  /\ pass.phase = "waking"
  /\ UNCHANGED <<World, since>>
  /\ pass' = [pass EXCEPT !.phase = "watch", !.at = NULL]

\* Mutant of Keep: a transcript is read for a row that is no longer considered.
KeepTodo(p, S) == [p EXCEPT !.rows = [s \in DOMAIN @ \cap S |-> @[s]],
                            !.orphans = @ \cap S, !.same = @ \cap S]

\* p without the rows that are not in S.
Keep(p, S) == [p EXCEPT !.rows = [s \in DOMAIN @ \cap S |-> @[s]],
                        !.orphans = @ \cap S, !.todo = @ \cap S, !.same = @ \cap S]

\* The pass goes on as p; without a row left, it has nothing more to do.  What was
\* resumed matters where there is a row.
GoesOn(p) ==
  pass' = IF DOMAIN p.rows = {} THEN NoPass
          ELSE [p EXCEPT !.resumed = @ \cap DOMAIN p.rows]

\* What the properties remember of the rows that are left.
RemembersRows(asOpen, asRunning) ==
  LET rows == DOMAIN pass'.rows
  IN  since' = [since EXCEPT !.turns = @ \cap rows,
                             !.open = asOpen \cap {ParentOf[s] : s \in rows},
                             !.running = {c \in asRunning : ParentOf[c] \in rows}]

\* ListRows, with the gates that are read off a row.
ReadRows ==
  /\ Watching
  /\ UNCHANGED <<World, since>>
  /\ GoesOn([pass EXCEPT
               !.phase = "rows",
               !.rows = [s \in {x \in Running : latest[x].idle /\ latest[x].age >= Idle}
                           |-> latest[s].age]])

\* Mutant of Orphan: only a delegator that is not in the ledger counts.
OrphanOfNone(s) == FALSE

\* The delegator's work is done: no reply is coming.
Orphan(s) == ParentOf[s] # NULL /\ ParentOf[s] \notin open

\* OpenSessionIDs.
ReadOpen ==
  /\ pass.phase = "rows"
  /\ UNCHANGED World
  /\ pass' = [pass EXCEPT !.phase = "open", !.orphans = {s \in DOMAIN pass.rows : Orphan(s)}]
  /\ RemembersRows(open, {})

\* Mutant of HeldByDelegate: a delegate holds its delegator while it runs a turn.
HeldByBusyDelegate(s) == \E c \in Delegates(s) \cap Running : ~latest[c].idle

\* RunningDelegateCounts.
HeldByDelegate(s) == Delegates(s) \cap Running # {}

ReadDelegates ==
  /\ pass.phase = "open"
  /\ UNCHANGED World
  /\ GoesOn(Keep([pass EXCEPT !.phase = "delegates"], {s \in Session : ~HeldByDelegate(s)}))
  /\ RemembersRows(since.open, Running)

\* What a roster may say is idle: a process between turns, and perhaps one that
\* is on its way from or to there.
Listings == {S \in SUBSET {s \in Session : proc[s] \in {"starting", "idle", "ending"}} :
               {s \in Session : proc[s] = "idle"} \subseteq S}

ReadRoster ==
  /\ pass.phase = "delegates"
  /\ UNCHANGED World
  /\ \E idle \in Listings :
       LET rows == DOMAIN pass.rows \cap idle
       IN  GoesOn([Keep(pass, idle) EXCEPT
                     !.phase = "candidates",
                     !.orphans = {}, !.todo = rows \ pass.orphans,
                     !.same = {s \in rows : KindOf[s] = "interactive"}])
  /\ RemembersRows(since.open, since.running)

\* Without s, and on to the next.
Without(s) ==
  /\ GoesOn(Keep([pass EXCEPT !.phase = "candidates", !.at = NULL], Session \ {s}))
  /\ RemembersRows(since.open, since.running)

\* The transcript, which is read for all but orphans.
Judge(s) ==
  /\ pass.phase = "candidates" /\ s \in pass.todo
  /\ UNCHANGED World
  /\ \/ ~sent[s] /\ pass' = [pass EXCEPT !.todo = @ \ {s}] /\ UNCHANGED since
     \/ sent[s] /\ Without(s)

-----------------------------------------------------------------------------
(***************************************************************************)
(* The pass, candidate by candidate.                                       *)
(***************************************************************************)

\* s is the next candidate.
Comes(s) == pass.phase = "candidates" /\ pass.todo = {} /\ s \in DOMAIN pass.rows

\* Mutant of Spared: what the PR watch resumed is not remembered.
SparedNone(s) == FALSE

\* Woken by the PR watch in this pass.
Spared(s) == s \in pass.resumed

Spare(s) ==
  /\ Comes(s) /\ Spared(s)
  /\ UNCHANGED World
  /\ Without(s)

\* check: the roster again,
CheckListed(s) ==
  /\ Comes(s) /\ ~Spared(s)
  /\ UNCHANGED World
  /\ \E idle \in Listings :
       \/ /\ s \in idle
          /\ pass' = [pass EXCEPT !.phase = "listed", !.at = s]
          /\ UNCHANGED since
       \/ s \notin idle /\ Without(s)

\* Mutant of StillJudged: any idle_done will do.
StillIdle(s) == s \in open /\ latest[s].idle

\* the ledger again: the row is open and its latest event the one judged by,
StillJudged(s) == s \in open /\ latest[s].idle /\ latest[s].age = pass.rows[s]

CheckEvent(s) ==
  /\ pass.phase = "listed" /\ s = pass.at
  /\ StillJudged(s)
  /\ UNCHANGED <<World, since>>
  /\ pass' = [pass EXCEPT !.phase = "checked"]

CheckEventFails(s) ==
  /\ pass.phase = "listed" /\ s = pass.at
  /\ ~StillJudged(s)
  /\ UNCHANGED World
  /\ Without(s)

\* claude stop, by id.
StopsBackground(s) ==
  /\ pass.phase = "checked" /\ s = pass.at /\ KindOf[s] = "background"
  /\ UNCHANGED <<ledger, sent>>
  /\ proc' = [proc EXCEPT ![s] = IF @ = "off" THEN @ ELSE "ending"]
  /\ Without(s)

\* SIGTERM, by the pid that Candidates read: FindPane has found its pane, and no
\* client shows the window.  The wait until it is gone, and the closing of its pane,
\* are part of the time until the next candidate.
EndsInteractive(s) ==
  /\ pass.phase = "checked" /\ s = pass.at /\ KindOf[s] = "interactive"
  /\ s \in pass.same
  /\ UNCHANGED <<ledger, sent>>
  /\ proc' = [proc EXCEPT ![s] = "ending"]
  /\ Without(s)

Stops(s) == StopsBackground(s) \/ EndsInteractive(s)

\* A roster, a transcript, the ledger or the stop fails, the session is listed
\* twice, its window is on screen or cannot be found.  Wherever that is found out,
\* the session is left alone; a pass that is killed leaves the rest alone.
Skip(s) ==
  /\ pass.phase = "checked" /\ s = pass.at
  /\ UNCHANGED World
  /\ Without(s)

-----------------------------------------------------------------------------

\* Of since: turns are the followed sessions considered that were through with a turn since
\* their rows were read, and at least one hook of it was recorded.  open are the
\* delegators that were open when that was read, and ever since, running the delegates
\* that were open and recorded running when they were counted, and ever since.  asked are
\* the sessions that sent a message after their last prompt, but for what neither the
\* ledger nor the pass can have heard of.
Init ==
  /\ open = Session
  /\ gone = Session
  /\ latest = [s \in Session |-> Other]
  /\ proc = [s \in Session |-> "off"]
  /\ sent = [s \in Session |-> FALSE]
  /\ pass = NoPass
  /\ since = [turns |-> {}, open |-> {}, running |-> {}, asked |-> {}]

Process(s) ==
  \/ Start(s) \/ StartHook(s) \/ Prompt(s) \/ PromptHook(s)
  \/ \E entry \in Entry : Works(s, entry)
  \/ StopHook(s) \/ EndHook(s) \/ Vanish(s)

Act(s) == \/ Judge(s) \/ Spare(s) \/ CheckListed(s) \/ CheckEvent(s) \/ CheckEventFails(s)
          \/ Stops(s) \/ Skip(s)

Pass == \/ WakeFails \/ ReadRows \/ ReadOpen \/ ReadDelegates \/ ReadRoster
        \/ \E s \in Session : WakeStops(s) \/ WakeLaunches(s) \/ Act(s)

Next ==
  \/ \E s \in Session : Process(s) \/ Done(s) \/ Reopen(s) \/ SweepCloses(s)
  \/ Tick
  \/ Pass

Spec == Init /\ [][Next]_vars

\* Time passes, passes keep coming and each goes on.  A candidate may be skipped any
\* number of times, but not always.  Nothing is assumed of people, processes, hooks.
Fairness ==
  /\ SF_vars(Tick) /\ WF_vars(Pass)
  /\ \A s \in Session : SF_vars(Stops(s))

FairSpec == Spec /\ Fairness

-----------------------------------------------------------------------------
(***************************************************************************)
(* Properties.                                                             *)
(***************************************************************************)

\* A session is not stopped on an old judgement: when the re-check lets it through
\* it has not been through a turn since the pass read its row that a hook told the
\* ledger of, whatever it was read as in between.  One of the turn's two hooks is enough;
\* a turn that lost both is missed.
NoTurnMissed ==
  [][\A s \in Session : CheckEvent(s) => s \notin since.turns]_vars

\* A session at rest that waits for an answer is not stopped, unless its delegator
\* has been done at some moment since the pass read who is open: nor when it asked after
\* its transcript was read, provided that a hook told the ledger of that turn.
QuestionKeepsSession ==
  [][\A s \in Session :
       CheckEvent(s) /\ proc[s] = "idle" /\ s \in since.asked
       => ParentOf[s] # NULL /\ ParentOf[s] \notin since.open]_vars

\* A session is not stopped while a delegate has its work open and is running, by
\* the ledger, unless that came to be after the pass counted delegates.
DelegateKeepsDelegator ==
  [][\A s \in Session : Stops(s) => Delegates(s) \cap since.running = {}]_vars

\* A pass does not stop a session that it woke itself, not even one that is still
\* listed by the idle_done of the process it was before.
WokenNotStopped ==
  [][\A s \in Session : Stops(s) => s \notin pass.resumed]_vars

Resting(s) ==
  /\ proc[s] = "idle" /\ s \in Running /\ latest[s].idle
  /\ Delegates(s) \cap Running = {}
  /\ sent[s] => ParentOf[s] # NULL /\ ParentOf[s] \notin open

\* A session that nobody waits for does not sit idle for ever: in the end it is
\* stopped, or something happens to it.
RestingIsStopped == \A s \in Session : []<>~Resting(s)

=============================================================================
