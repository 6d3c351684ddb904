-------------------------------- MODULE Picker --------------------------------
(***************************************************************************)
(* A pick (picker.run): what choosing a row of the queue does.             *)
(*                                                                         *)
(* The row is as old as the listing.  What the pick does is decided from a *)
(* roster read after the choice, from the panes of the tmux server, and    *)
(* from what /proc says of the process; it is done with tmux commands and  *)
(* perhaps a signal, each some time after what it was decided from.        *)
(* Meanwhile sessions start, end and are retitled, panes close, tmux       *)
(* servers are replaced, and other pickers pick.                           *)
(***************************************************************************)
EXTENDS Integers, FiniteSets

CONSTANTS
  Session,
  Picker,   \* bound: the pickers at work
  Pid,      \* bound: the processes there are at a time
  Pane,     \* pane ids, which every tmux server gives out anew
  Title,    \* what a session may be called
  NULL

ASSUME PickerAssumption == NULL \notin Session \cup Pid \cup Pane \cup Title

VARIABLES
  proc,   \* the processes that run a session
  panes,  \* the panes of the server that owns the pickers' socket
  title,  \* what each session's transcript says it is about
  pick    \* each picker's local state

vars == <<proc, panes, title, pick>>

\* home         in a pane of the server that owns the pickers' socket
\* other        on a server that owns another socket
\* lost         on a server that owns none: no new client can be opened onto it.  One
\*              that was attached before goes on, and cannot be asked for
\* back         on a server that has made its lost socket anew
\* outside      in no tmux at all
\* background   under the daemon
Place == {"home", "other", "lost", "back", "outside", "background"}

\* starting: not listed yet.  ending: told to end, and still listed.
ProcState == {"starting", "listed", "ending"}

\* pane: where it can be seen, or NULL.  name: the title that its window there is
\* named after, or NULL.  kept: history, a pick opened that window, and it has been
\* named after what the session is about ever since.
Process == [of : Session, place : Place, pane : Pane \cup {NULL},
            name : Title \cup {NULL}, kept : BOOLEAN, state : ProcState]

ASSUME ProcessAssumption == NULL \notin Process

NoPick == [phase |-> "none", s |-> NULL, pane |-> NULL, ok |-> FALSE,
           agents |-> {}, others |-> FALSE, seen |-> {}, pid |-> NULL, name |-> NULL]

\* pane: to be switched to.  agents: the pids that the roster has
\* for the session, others: it has it in the background too.  name: of the window to
\* be opened.  seen: history, the processes that a roster had to list and that are
\* still there, none that has got the pid of one.
Pick == [phase : {"none", "listed", "roster", "unreached", "switch", "kill", "waiting",
                  "open", "named"},
         s : Session \cup {NULL}, pane : Pane \cup {NULL}, ok : BOOLEAN,
         agents : SUBSET Pid, others : BOOLEAN, seen : SUBSET Pid,
         pid : Pid \cup {NULL}, name : Title \cup {NULL}]

Alive == {p \in Pid : proc[p] # NULL}

TypeOK ==
  /\ proc \in [Pid -> Process \cup {NULL}]
  /\ panes \subseteq Pane
  /\ title \in [Session -> Title]
  /\ pick \in [Picker -> Pick]
  /\ \A p \in Alive : proc[p].pane # NULL => proc[p].place = "home" /\ proc[p].pane \in panes
  /\ \A k \in Picker : pick[k].phase = "switch" => pick[k].pane # NULL

\* What a roster lists of s.
Listed(s) == {p \in Alive : proc[p].of = s /\ proc[p].state # "starting"}

Free == Pane \ {proc[p].pane : p \in Alive}

-----------------------------------------------------------------------------
(***************************************************************************)
(* The world.                                                              *)
(***************************************************************************)

\* A session is started or resumed by other means than a pick, whatever else runs,
\* under any pid that is free.  The PR watch names the window as a pick does, and does
\* not look for one that has the name.
Start(p, s, place, pane, name) ==
  /\ p \in Pid \ Alive
  /\ IF place = "home" THEN pane \in Free ELSE pane = NULL /\ name = NULL
  /\ proc' = [proc EXCEPT ![p] = [of |-> s, place |-> place, pane |-> pane,
                                  name |-> name, kept |-> FALSE, state |-> "starting"]]
  /\ panes' = panes \cup ({pane} \ {NULL})
  /\ UNCHANGED <<title, pick>>

\* The roster lists it.
Registers(p) ==
  /\ p \in Alive /\ proc[p].state = "starting"
  /\ proc' = [proc EXCEPT ![p].state = "listed"]
  /\ UNCHANGED <<panes, title, pick>>

\* It ends, and its pane with it, or a shell is left there.
Exits(p) ==
  /\ p \in Alive
  /\ proc' = [proc EXCEPT ![p] = NULL]
  /\ panes' \in {panes, panes \ {proc[p].pane}}
  /\ pick' = [k \in Picker |-> [pick[k] EXCEPT !.seen = @ \ {p}]]
  /\ UNCHANGED <<title>>

\* The session is about something else.
Retitled(p, t) ==
  /\ p \in Alive /\ proc[p].state = "listed" /\ t # title[proc[p].of]
  /\ title' = [title EXCEPT ![proc[p].of] = t]
  /\ proc' = [q \in Pid |-> IF q \in Alive /\ proc[q].of = proc[p].of
                            THEN [proc[q] EXCEPT !.kept = FALSE] ELSE proc[q]]
  /\ UNCHANGED <<panes, pick>>

\* applyWindowName: a hook names the window of a session after what it is about.
HookNames(p) ==
  /\ p \in Alive /\ proc[p].pane # NULL /\ proc[p].state = "listed"
  /\ proc' = [proc EXCEPT ![p].name = title[proc[p].of]]
  /\ UNCHANGED <<panes, title, pick>>

\* A person gives the window another name, or moves it to another tmux session.
WindowTaken(p) ==
  /\ p \in Alive /\ proc[p].name # NULL
  /\ proc' = [proc EXCEPT ![p].name = NULL, ![p].kept = FALSE]
  /\ UNCHANGED <<panes, title, pick>>

PaneOpens(pane) ==
  /\ panes' = panes \cup {pane}
  /\ UNCHANGED <<proc, title, pick>>

\* The pane is closed, and a process in it lives on.
PaneCloses(pane) ==
  /\ pane \in panes
  /\ panes' = panes \ {pane}
  /\ proc' = [p \in Pid |-> IF p \in Alive /\ proc[p].pane = pane
                            THEN [proc[p] EXCEPT !.pane = NULL, !.name = NULL, !.kept = FALSE]
                            ELSE proc[p]]
  /\ UNCHANGED <<title, pick>>

\* The socket that the servers of place own goes, or another server takes it over.
SocketLost(place) ==
  /\ proc' = [p \in Pid |-> IF p \in Alive /\ proc[p].place = place
                            THEN [proc[p] EXCEPT !.place = "lost", !.pane = NULL,
                                                 !.name = NULL, !.kept = FALSE]
                            ELSE proc[p]]
  /\ panes' = IF place = "home" THEN {} ELSE panes
  /\ UNCHANGED <<title, pick>>

\* The server of p makes its socket anew, where no other has taken its path.
SocketBack(p) ==
  /\ p \in Alive /\ proc[p].place = "lost"
  /\ proc' = [proc EXCEPT ![p].place = "back"]
  /\ UNCHANGED <<panes, title, pick>>

World ==
  \/ \E p \in Pid, s \in Session, place \in Place \ {"back"}, pane \in Pane \cup {NULL},
        name \in Title \cup {NULL} : Start(p, s, place, pane, name)
  \/ \E p \in Pid :
       \/ Registers(p) \/ Exits(p) \/ HookNames(p) \/ WindowTaken(p) \/ SocketBack(p)
       \/ \E t \in Title : Retitled(p, t)
  \/ \E pane \in Pane : PaneOpens(pane) \/ PaneCloses(pane)
  \/ \E place \in {"home", "other", "back"} : SocketLost(place)

-----------------------------------------------------------------------------
(***************************************************************************)
(* What is decided.                                                        *)
(***************************************************************************)

\* FindPane: the pane that p is seen in, or NULL.  The pid of a process that has ended
\* may be any program's.
Finds(p) == IF p \in Alive THEN {proc[p].pane} ELSE panes \cup {NULL}

\* Mutants of Reaches: a process that is in no pane is reached; the ledger's pane will
\* do when the roster has none.
ReachesUnfound(a) ==
  IF a.ok THEN UNION {Finds(p) : p \in a.agents} ELSE panes

ReachesByLedger(a) ==
  IF a.agents # {} THEN (UNION {Finds(p) : p \in a.agents}) \ {NULL} ELSE panes

\* reachablePane: the panes that the search for one may find.  A background session's
\* process is not searched for.  Without a roster it is the ledger's pane, if there
\* is one of that id: one that was recorded long ago may be any.
Reaches(a) ==
  IF a.ok THEN (UNION {Finds(p) : p \in a.agents}) \ {NULL} ELSE panes

\* originOf: what /proc and the sockets may say of the server of p, or of the program
\* that has its pid.  A question that cannot be answered is "unknown".
Origins(p) ==
  IF p \notin Alive THEN Place \cup {"unknown"}
  ELSE {"unknown", IF proc[p].place = "back" THEN "other" ELSE proc[p].place}

\* Mutant of Displaceable: a process that has no pane is in nobody's way.
DisplaceableAny(origin) == TRUE

\* The process that a resume may end first: one on a server that owns no socket.
Displaceable(origin) == origin = "lost"

-----------------------------------------------------------------------------
(***************************************************************************)
(* A pick.                                                                 *)
(***************************************************************************)

Goes(k, to) == pick' = [pick EXCEPT ![k] = to]

\* The picker lists a row of s, and it is picked.
Lists(k, s) ==
  /\ pick[k] = NoPick
  /\ Goes(k, [NoPick EXCEPT !.phase = "listed", !.s = s])
  /\ UNCHANGED <<proc, panes, title>>

\* Nothing is chosen, or the session has been done since.
Refuses(k) ==
  /\ pick[k].phase = "listed"
  /\ Goes(k, NoPick)
  /\ UNCHANGED <<proc, panes, title>>

\* A roster that cannot be read has no entries.
ReadRoster(k) ==
  /\ pick[k].phase = "listed"
  /\ LET listed == Listed(pick[k].s)
         agents == {p \in listed : proc[p].place # "background"}
     IN  \/ Goes(k, [pick[k] EXCEPT !.phase = "roster", !.ok = TRUE, !.seen = listed,
                                    !.agents = agents, !.others = listed # agents])
         \/ Goes(k, [pick[k] EXCEPT !.phase = "roster", !.seen = listed])
  /\ UNCHANGED <<proc, panes, title>>

\* describeTarget searches for the pane, and may find none where there is one: tmux has
\* not answered, or the process is too deep below its pane.  With neither a pane nor a
\* roster nothing is done; nor is it for a session in the background: an attach opens a
\* window onto that, which changes nothing else that is modelled.
Searches(k) ==
  /\ pick[k].phase = "roster"
  /\ LET a == pick[k]
     IN  \/ \E pane \in Reaches(a) :
              Goes(k, [NoPick EXCEPT !.phase = "switch", !.s = a.s, !.pane = pane])
         \/ Goes(k, IF a.ok /\ ~a.others THEN [a EXCEPT !.phase = "unreached"]
                    ELSE NoPick)
  /\ UNCHANGED <<proc, panes, title>>

\* DecideAction for a row without a pane that is resumed: the roster has no process of
\* it, or the only one is asked after and ended first.
Decides(k) ==
  /\ pick[k].phase = "unreached"
  /\ LET a == pick[k]
     IN  \/ /\ a.agents = {}
            /\ Goes(k, [NoPick EXCEPT !.phase = "open", !.s = a.s, !.seen = a.seen])
         \/ \E p \in a.agents : \E origin \in Origins(p) :
              /\ a.agents = {p} /\ Displaceable(origin)
              /\ Goes(k, [NoPick EXCEPT !.phase = "kill", !.s = a.s, !.seen = a.seen,
                                        !.pid = p])
  /\ UNCHANGED <<proc, panes, title>>

\* It is not: there is more than one process, or one that somebody may get to, or no
\* transcript.
DecidesNot(k) ==
  /\ pick[k].phase = "unreached"
  /\ Goes(k, NoPick)
  /\ UNCHANGED <<proc, panes, title>>

\* switch-client, which fails if the pane has closed.
Switches(k) ==
  /\ pick[k].phase = "switch"
  /\ Goes(k, NoPick)
  /\ UNCHANGED <<proc, panes, title>>

\* sessionproc.End: SIGTERM to whatever has the pid, which fails if nothing has.
Kills(k) ==
  /\ pick[k].phase = "kill"
  /\ LET p == pick[k].pid
     IN  /\ \/ Goes(k, [pick[k] EXCEPT !.phase = "waiting", !.pid = NULL])
            \/ p \notin Alive /\ Goes(k, NoPick)
         /\ proc' = IF p \in Alive /\ proc[p].state = "listed"
                    THEN [proc EXCEPT ![p].state = "ending"] ELSE proc
  /\ UNCHANGED <<panes, title>>

\* Mutant of SeenGone: a roster that cannot be read does not list it.
SeenGoneUnread(s) == TRUE

\* A roster that can be read, and does not list the session.
SeenGone(s) == Listed(s) = {}

\* WaitGone: a poll finds it gone, or there have been enough of them.
Waits(k) ==
  /\ pick[k].phase = "waiting"
  /\ \/ SeenGone(pick[k].s) /\ Goes(k, [pick[k] EXCEPT !.phase = "open"])
     \/ Goes(k, NoPick)
  /\ UNCHANGED <<proc, panes, title>>

\* windowNameFor: the window is named after what the session is about now.
Names(k) ==
  /\ pick[k].phase = "open"
  /\ Goes(k, [pick[k] EXCEPT !.phase = "named", !.name = title[pick[k].s]])
  /\ UNCHANGED <<proc, panes, title>>

\* Mutant of Selects: new-window without -S.
SelectsNever(p, s, name) == FALSE

\* new-window -S: p runs in a window of the name, a title with the id of s.
Selects(p, s, name) == proc[p].of = s /\ proc[p].name = name

\* OpenSession, to run claude --resume: a window of that name is selected and
\* nothing is run, or there is none and one is opened in a new pane.
Opens(k) ==
  /\ pick[k].phase = "named"
  /\ Goes(k, NoPick)
  /\ LET s == pick[k].s
         name == pick[k].name
     IN  IF \E p \in Alive : Selects(p, s, name)
         THEN UNCHANGED <<proc, panes>>
         ELSE \E p \in Pid \ Alive, pane \in Pane \ panes :
                /\ proc' = [proc EXCEPT ![p] = [of |-> s, place |-> "home", pane |-> pane,
                                                name |-> name, kept |-> name = title[s],
                                                state |-> "starting"]]
                /\ panes' = panes \cup {pane}
  /\ UNCHANGED <<title>>

OpenFails(k) ==
  /\ pick[k].phase = "named"
  /\ Goes(k, NoPick)
  /\ UNCHANGED <<proc, panes, title>>

-----------------------------------------------------------------------------

Init ==
  /\ proc = [p \in Pid |-> NULL]
  /\ panes = {}
  /\ title \in [Session -> Title]
  /\ pick = [k \in Picker |-> NoPick]

Next ==
  \/ World
  \/ \E k \in Picker :
       \/ \E s \in Session : Lists(k, s)
       \/ Refuses(k) \/ ReadRoster(k) \/ Searches(k) \/ Switches(k)
       \/ Decides(k) \/ DecidesNot(k) \/ Kills(k) \/ Waits(k)
       \/ Names(k) \/ Opens(k) \/ OpenFails(k)

Spec == Init /\ [][Next]_vars

-----------------------------------------------------------------------------
(***************************************************************************)
(* Properties.                                                             *)
(***************************************************************************)

\* When a pick signals, every process that the roster had to list is gone but the one
\* it signals, and that one is on a server without a socket, or with one that it has
\* made anew since it was asked after: no session in use in another terminal, on
\* another server or in a pane that was only just closed is ended to be resumed.  (A
\* client attached to the lost server, and whatever has got the pid, can be hit.)
EndsUnreachableOnly ==
  [][\A k \in Picker :
       Kills(k) /\ pick'[k].phase = "waiting" =>
         \A p \in pick[k].seen : p = pick[k].pid /\ proc[p].place \in {"lost", "back"}]_vars

\* A pick does not put a second process on a transcript: when it launches a resume,
\* no process that a roster had to list when it looked is still there, not even the
\* one that it told to end.
ResumesAlone ==
  [][\A k \in Picker :
       Opens(k) /\ proc' # proc =>
         pick[k].seen = {}]_vars

\* However many picks of a session saw it without a process, they do not run two in
\* windows of their own: for a second one, the first one's window must be gone or its
\* name another than the session's title at some moment since it was opened, be it
\* that the session was retitled or that a person renamed or moved the window.
OnePerWindow ==
  \A p, q \in Alive : p # q /\ proc[p].of = proc[q].of => ~(proc[p].kept /\ proc[q].kept)

\* With a roster that can be read, a pick switches to a pane of the picked session,
\* never to one that has got an id the session's pane once had: unless the process
\* has ended since, and its pid is another's.
SwitchesToSession ==
  [][\A k \in Picker :
       Searches(k) /\ pick[k].ok /\ pick'[k].phase = "switch" =>
         \/ \E p \in pick[k].seen : proc[p].of = pick[k].s /\ proc[p].pane = pick'[k].pane
         \/ \E p \in pick[k].agents : p \notin pick[k].seen]_vars

=============================================================================
