---------------------------- MODULE PickerProofs ----------------------------
(***************************************************************************)
(* Proofs about Picker.                                                    *)
(***************************************************************************)
EXTENDS Picker, TLAPS

AliveIn(procs) == {p \in Pid : procs[p] # NULL}

Unreachable == {"lost", "back"}

\* What a pick that has got as far as a knows of the processes, as long as it goes on:
\* what a roster had to list is the picked session's until it is gone, nothing that is
\* signalled is in nobody's way, and nothing is there when a window is opened.
Knows(a, procs) ==
  /\ a.phase # "none" => a.s \in Session
  /\ \A p \in a.seen : /\ p \in AliveIn(procs)
                       /\ procs[p].of = a.s /\ procs[p].state # "starting"
  /\ a.phase = "listed" => ~a.ok
  /\ a.ok /\ ~a.others => a.seen \subseteq a.agents
  /\ a.phase = "unreached" => a.ok /\ ~a.others
  /\ a.phase = "kill" => \A p \in a.seen : p = a.pid /\ procs[p].place \in Unreachable
  /\ a.phase \in {"open", "named"} => a.seen = {}
  /\ a.phase = "named" => a.name \in Title

\* A pane shows one process.
PanesApart ==
  \A p, q \in Alive : p # q /\ proc[p].pane # NULL => proc[p].pane # proc[q].pane

\* A window that has been kept is named after what its session is about.
KeptNamed ==
  \A p \in Alive : proc[p].kept => proc[p].name = title[proc[p].of]

Inv ==
  /\ TypeOK
  /\ PanesApart
  /\ KeptNamed
  /\ OnePerWindow
  /\ \A k \in Picker : Knows(pick[k], proc)

\* A process r goes on as q: it stays its session's, no client can be opened onto a
\* server that nobody could get to at the pickers' socket, and it stays listed.
Continues(r, q) ==
  /\ q.of = r.of
  /\ r.place \in Unreachable => q.place \in Unreachable
  /\ r.state # "starting" => q.state # "starting"

\* It shows where it did or nowhere, and its window is as it was or is not kept.
Shows(r, q) ==
  /\ q.pane # NULL => q.pane = r.pane /\ q.place = "home" /\ q.pane \in panes'
  /\ q.kept => r.kept /\ q.name = title'[r.of]

-----------------------------------------------------------------------------

LEMMA InvParts ==
  ASSUME Inv
  PROVE  /\ proc \in [Pid -> Process \cup {NULL}] /\ panes \subseteq Pane
         /\ title \in [Session -> Title] /\ pick \in [Picker -> Pick]
         /\ AliveIn(proc) = Alive /\ Alive \subseteq Pid
         /\ \A p \in Alive : proc[p] \in Process
         /\ \A k \in Picker : pick[k] \in Pick /\ Knows(pick[k], proc)
BY DEF Inv, TypeOK, Alive, AliveIn

LEMMA NoPickKnows == NoPick \in Pick /\ \A P : Knows(NoPick, P)
BY DEF NoPick, Pick, Knows

\* What a pick knows stays true while processes go on, end, or are started: under
\* whatever pid, for seen holds none that has got the pid of one.
LEMMA KnowsKept ==
  ASSUME NEW a \in Pick, NEW P, NEW Q, Knows(a, P),
         NEW T, T \subseteq a.seen,
         \A p \in T : p \in AliveIn(Q) /\ Continues(P[p], Q[p])
  PROVE  Knows([a EXCEPT !.seen = T], Q)
<1> DEFINE b == [a EXCEPT !.seen = T]
<1>1. /\ b.phase = a.phase /\ b.s = a.s /\ b.seen = T /\ b.agents = a.agents
      /\ b.ok = a.ok /\ b.others = a.others /\ b.pid = a.pid /\ b.name = a.name
  BY DEF Pick
<1> HIDE DEF b
<1>2. \A p \in T : /\ p \in AliveIn(Q) /\ Q[p].of = a.s /\ Q[p].state # "starting"
                   /\ P[p].place \in Unreachable => Q[p].place \in Unreachable
  BY DEF Knows, Continues
<1>3. a.phase = "kill" => \A p \in T : p = a.pid /\ Q[p].place \in Unreachable
  BY <1>2 DEF Knows
<1>4. Knows(b, Q)
  BY <1>1, <1>2, <1>3 DEF Knows
<1>5. QED
  BY <1>4 DEF b

LEMMA KnowsOn ==
  ASSUME NEW a \in Pick, NEW P, NEW Q, Knows(a, P),
         \A p \in AliveIn(P) : p \in AliveIn(Q) /\ Continues(P[p], Q[p])
  PROVE  Knows(a, Q)
<1>1. \A p \in a.seen : p \in AliveIn(Q) /\ Continues(P[p], Q[p])
  BY DEF Knows
<1>2. Knows([a EXCEPT !.seen = a.seen], Q)
  BY <1>1, KnowsKept
<1>3. [a EXCEPT !.seen = a.seen] = a
  BY DEF Pick
<1>4. QED
  BY <1>2, <1>3

\* A step in which no process starts or ends, and processes and picks go on.
LEMMA GoOn ==
  ASSUME Inv,
         proc' \in [Pid -> Process \cup {NULL}], Alive' = Alive,
         panes' \subseteq Pane, title' \in [Session -> Title],
         \A p \in Alive : Continues(proc[p], proc'[p]) /\ Shows(proc[p], proc'[p]),
         pick' \in [Picker -> Pick],
         \A k \in Picker : /\ pick'[k].phase = "switch" => pick'[k].pane # NULL
                           /\ Knows(pick[k], proc') => Knows(pick'[k], proc')
  PROVE  Inv'
<1>1. TypeOK'
  BY DEF TypeOK, Shows
<1>2. PanesApart' /\ KeptNamed' /\ OnePerWindow'
  BY DEF Inv, PanesApart, KeptNamed, OnePerWindow, Continues, Shows
<1>3. ASSUME NEW k \in Picker PROVE Knows(pick'[k], proc')
  <2>1. pick[k] \in Pick /\ Knows(pick[k], proc) /\ AliveIn(proc) = Alive
    BY InvParts
  <2>2. AliveIn(proc') = Alive
    BY DEF AliveIn, Alive
  <2>3. \A p \in AliveIn(proc) : p \in AliveIn(proc') /\ Continues(proc[p], proc'[p])
    BY <2>1, <2>2
  <2>4. Knows(pick[k], proc')
    BY <2>1, <2>3, KnowsOn
  <2>5. QED
    BY <2>4
<1>4. QED
  BY <1>1, <1>2, <1>3 DEF Inv

\* A step of a pick that leaves the world alone.
LEMMA PickStep ==
  ASSUME Inv, NEW k \in Picker, NEW to \in Pick, Goes(k, to),
         UNCHANGED <<proc, panes, title>>,
         to.phase = "switch" => to.pane # NULL, Knows(to, proc)
  PROVE  Inv'
<1>1. pick' \in [Picker -> Pick] /\ \A j \in Picker : pick'[j] = IF j = k THEN to ELSE pick[j]
  BY DEF Goes, Inv, TypeOK
<1>2. /\ proc' \in [Pid -> Process \cup {NULL}] /\ panes' \subseteq Pane
      /\ title' \in [Session -> Title] /\ Alive' = Alive
  BY InvParts DEF Alive
<1>3. \A p \in Alive : Continues(proc[p], proc'[p]) /\ Shows(proc[p], proc'[p])
  BY DEF Continues, Shows, Inv, TypeOK, KeptNamed
<1>4. \A j \in Picker : /\ pick'[j].phase = "switch" => pick'[j].pane # NULL
                        /\ Knows(pick[j], proc') => Knows(pick'[j], proc')
  BY <1>1 DEF Inv, TypeOK
<1>5. QED
  BY <1>1, <1>2, <1>3, <1>4, GoOn

\* A step of a pick that is over.
LEMMA PickEnds ==
  ASSUME Inv, NEW k \in Picker, Goes(k, NoPick), UNCHANGED <<proc, panes, title>>
  PROVE  Inv'
BY PickStep, NoPickKnows DEF NoPick

\* What is left of the processes when those of S go on as f says.
LEMMA Updated ==
  ASSUME Inv, NEW S \in SUBSET Alive, NEW f \in [S -> Process],
         proc' = [p \in Pid |-> IF p \in S THEN f[p] ELSE proc[p]],
         \A p \in S : Continues(proc[p], f[p]) /\ Shows(proc[p], f[p]),
         \A p \in Alive \ S : /\ proc[p].pane # NULL => proc[p].pane \in panes'
                              /\ title'[proc[p].of] = title[proc[p].of]
  PROVE  /\ proc' \in [Pid -> Process \cup {NULL}] /\ Alive' = Alive
         /\ \A p \in Alive : Continues(proc[p], proc'[p]) /\ Shows(proc[p], proc'[p])
<1>1. \A p \in Pid : proc'[p] = IF p \in S THEN f[p] ELSE proc[p]
  OBVIOUS
<1>2. proc' \in [Pid -> Process \cup {NULL}]
  BY InvParts
<1>3. Alive' = Alive
  BY <1>1, ProcessAssumption DEF Alive
<1>4. ASSUME NEW p \in Alive \ S PROVE Continues(proc[p], proc[p]) /\ Shows(proc[p], proc[p])
  BY <1>4 DEF Continues, Shows, Inv, TypeOK, KeptNamed
<1>5. \A p \in Alive : Continues(proc[p], proc'[p]) /\ Shows(proc[p], proc'[p])
  <2>1. TAKE p \in Alive
  <2>2. proc'[p] = IF p \in S THEN f[p] ELSE proc[p]
    BY <1>1 DEF Alive
  <2>3. QED
    BY <1>4, <2>2
<1>6. QED
  BY <1>2, <1>3, <1>5

LEMMA WorldStep ==
  ASSUME Inv, NEW S \in SUBSET Alive, NEW f \in [S -> Process],
         proc' = [p \in Pid |-> IF p \in S THEN f[p] ELSE proc[p]],
         \A p \in S : Continues(proc[p], f[p]) /\ Shows(proc[p], f[p]),
         \A p \in Alive \ S : /\ proc[p].pane # NULL => proc[p].pane \in panes'
                              /\ title'[proc[p].of] = title[proc[p].of],
         panes' \subseteq Pane, title' \in [Session -> Title], UNCHANGED pick
  PROVE  Inv'
<1>1. /\ proc' \in [Pid -> Process \cup {NULL}] /\ Alive' = Alive
      /\ \A p \in Alive : Continues(proc[p], proc'[p]) /\ Shows(proc[p], proc'[p])
  BY Updated
<1>2. /\ pick' \in [Picker -> Pick]
      /\ \A k \in Picker : /\ pick'[k].phase = "switch" => pick'[k].pane # NULL
                           /\ Knows(pick[k], proc') => Knows(pick'[k], proc')
  BY DEF Inv, TypeOK
<1>3. QED
  BY <1>1, <1>2, GoOn

\* One process goes on as new.
LEMMA OneStep ==
  ASSUME Inv, NEW p \in Alive, NEW new \in Process, proc' = [proc EXCEPT ![p] = new],
         Continues(proc[p], new), Shows(proc[p], new),
         UNCHANGED <<panes, title, pick>>
  PROVE  Inv'
<1> DEFINE f == [q \in {p} |-> new]
<1>1. {p} \in SUBSET Alive /\ f \in [{p} -> Process] /\ f[p] = new
  OBVIOUS
<1>2. proc' = [q \in Pid |-> IF q \in {p} THEN f[q] ELSE proc[q]]
  BY DEF Inv, TypeOK
<1>3. \A q \in {p} : Continues(proc[q], f[q]) /\ Shows(proc[q], f[q])
  BY <1>1
<1> HIDE DEF f
<1>4. \A q \in Alive \ {p} : /\ proc[q].pane # NULL => proc[q].pane \in panes'
                             /\ title'[proc[q].of] = title[proc[q].of]
  BY DEF Inv, TypeOK
<1>5. panes' \subseteq Pane /\ title' \in [Session -> Title]
  BY InvParts
<1>6. QED
  BY <1>1, <1>2, <1>3, <1>4, <1>5, WorldStep

-----------------------------------------------------------------------------
(***************************************************************************)
(* Processes start and end.                                                *)
(***************************************************************************)

\* A process is started under a free pid, and may show in a pane that no process shows
\* in.
LEMMA StartStep ==
  ASSUME Inv, NEW p \in Pid \ Alive, NEW new \in Process,
         proc' = [proc EXCEPT ![p] = new],
         panes' = panes \cup ({new.pane} \ {NULL}),
         UNCHANGED title,
         pick' \in [Picker -> Pick],
         \A k \in Picker : pick'[k] = pick[k] \/ pick'[k] = NoPick,
         new.pane # NULL => new.place = "home" /\ \A q \in Alive : proc[q].pane # new.pane,
         new.kept => /\ new.name = title[new.of]
                     /\ \A q \in Alive : ~(proc[q].of = new.of /\ proc[q].name = new.name)
  PROVE  Inv'
<1>1. /\ \A q \in Pid : proc'[q] = IF q = p THEN new ELSE proc[q]
      /\ proc' \in [Pid -> Process \cup {NULL}]
  BY DEF Inv, TypeOK
<1>2. /\ Alive' = Alive \cup {p} /\ proc'[p] = new /\ p \notin Alive
      /\ \A q \in Alive : q # p /\ proc'[q] = proc[q]
  BY <1>1, ProcessAssumption DEF Alive
<1>3. TypeOK'
  <2>1. panes' \subseteq Pane /\ panes \subseteq panes' /\ title' \in [Session -> Title]
    BY DEF Inv, TypeOK, Process
  <2>2. ASSUME NEW q \in Alive', proc'[q].pane # NULL
        PROVE  proc'[q].place = "home" /\ proc'[q].pane \in panes'
    BY <1>2, <2>1, <2>2 DEF Inv, TypeOK
  <2>3. \A k \in Picker : pick'[k].phase = "switch" => pick'[k].pane # NULL
    BY DEF Inv, TypeOK, NoPick
  <2>4. QED
    BY <1>1, <2>1, <2>2, <2>3 DEF TypeOK
<1>4. PanesApart'
  <2>1. ASSUME NEW q \in Alive', NEW r \in Alive', q # r, proc'[q].pane # NULL
        PROVE  proc'[q].pane # proc'[r].pane
    BY <1>2, <2>1 DEF Inv, PanesApart
  <2>2. QED
    BY <2>1 DEF PanesApart
<1>5. KeptNamed'
  BY <1>2 DEF Inv, KeptNamed
<1>6. OnePerWindow'
  <2>1. \A q \in Alive : ~(proc[q].of = new.of /\ proc[q].kept /\ new.kept)
    BY DEF Inv, KeptNamed
  <2>2. ASSUME NEW q \in Alive', NEW r \in Alive', q # r, proc'[q].of = proc'[r].of
        PROVE  ~(proc'[q].kept /\ proc'[r].kept)
    BY <1>2, <2>1, <2>2 DEF Inv, OnePerWindow
  <2>3. QED
    BY <2>2 DEF OnePerWindow
<1>7. ASSUME NEW k \in Picker PROVE Knows(pick'[k], proc')
  <2>1. pick[k] \in Pick /\ Knows(pick[k], proc) /\ AliveIn(proc) = Alive
    BY InvParts
  <2>2. \A q \in AliveIn(proc) : q \in AliveIn(proc') /\ Continues(proc[q], proc'[q])
    BY <1>2, <2>1 DEF AliveIn, Alive, Continues
  <2>3. Knows(pick[k], proc')
    BY <2>1, <2>2, KnowsOn
  <2>4. QED
    BY <2>3, NoPickKnows
<1>8. QED
  BY <1>3, <1>4, <1>5, <1>6, <1>7 DEF Inv

LEMMA StartKeeps ==
  ASSUME Inv, NEW p \in Pid, NEW s \in Session, NEW place \in Place,
         NEW pane \in Pane \cup {NULL}, NEW name \in Title \cup {NULL},
         Start(p, s, place, pane, name)
  PROVE  Inv'
<1> DEFINE new == [of |-> s, place |-> place, pane |-> pane, name |-> name,
                   kept |-> FALSE, state |-> "starting"]
<1>1. new \in Process /\ ~new.kept
  BY DEF Process, ProcState
<1>2. p \in Pid \ Alive /\ proc' = [proc EXCEPT ![p] = new]
  BY DEF Start
<1>3. new.pane # NULL => new.place = "home" /\ \A q \in Alive : proc[q].pane # new.pane
  BY DEF Start, Free
<1>4. panes' = panes \cup ({new.pane} \ {NULL}) /\ UNCHANGED <<title, pick>>
  BY DEF Start
<1> HIDE DEF new
<1>5. pick' \in [Picker -> Pick] /\ \A k \in Picker : pick'[k] = pick[k] \/ pick'[k] = NoPick
  BY <1>4, InvParts
<1>6. QED
  BY <1>1, <1>2, <1>3, <1>4, <1>5, StartStep

LEMMA ExitsKeeps ==
  ASSUME Inv, NEW p \in Pid, Exits(p)
  PROVE  Inv'
<1>1. p \in Alive /\ \A q \in Pid : proc'[q] = IF q = p THEN NULL ELSE proc[q]
  BY DEF Exits, Inv, TypeOK
<1>2. Alive' = Alive \ {p} /\ \A q \in Alive' : q \in Alive /\ q # p /\ proc'[q] = proc[q]
  BY <1>1 DEF Alive
<1>3. ASSUME NEW k \in Picker
      PROVE  /\ pick'[k] \in Pick /\ Knows(pick'[k], proc')
             /\ pick'[k].phase = pick[k].phase /\ pick'[k].pane = pick[k].pane
  <2>1. pick[k] \in Pick /\ Knows(pick[k], proc) /\ AliveIn(proc) = Alive
    BY InvParts
  <2> DEFINE T == pick[k].seen \ {p}
  <2>2. pick'[k] = [pick[k] EXCEPT !.seen = T]
    BY DEF Exits
  <2>3. T \subseteq pick[k].seen /\ AliveIn(proc') = Alive'
    BY DEF AliveIn, Alive
  <2>4. \A q \in T : q \in AliveIn(proc') /\ Continues(proc[q], proc'[q])
    BY <1>1, <1>2, <2>1, <2>3 DEF Knows, Continues
  <2> HIDE DEF T
  <2>5. Knows([pick[k] EXCEPT !.seen = T], proc')
    BY <2>1, <2>3, <2>4, KnowsKept
  <2>6. QED
    BY <2>1, <2>2, <2>3, <2>5 DEF Pick
<1>4. TypeOK'
  <2>1. proc' \in [Pid -> Process \cup {NULL}]
    BY DEF Exits, Inv, TypeOK
  <2>2. panes' \subseteq panes /\ panes \ {proc[p].pane} \subseteq panes' /\ UNCHANGED title
    BY DEF Exits
  <2>3. pick' \in [Picker -> Pick]
    <3>1. pick' = [k \in Picker |-> pick'[k]]
      BY DEF Exits
    <3>2. QED
      BY <1>3, <3>1
  <2>4. \A q \in Alive' : proc'[q].pane # NULL =>
          proc'[q].place = "home" /\ proc'[q].pane \in panes'
    BY <1>1, <1>2, <2>2 DEF Inv, TypeOK, PanesApart
  <2>5. \A k \in Picker : pick'[k].phase = "switch" => pick'[k].pane # NULL
    BY <1>3 DEF Inv, TypeOK
  <2>6. QED
    BY <2>1, <2>2, <2>3, <2>4, <2>5 DEF Inv, TypeOK
<1>5. PanesApart' /\ KeptNamed' /\ OnePerWindow'
  BY <1>2 DEF Inv, PanesApart, KeptNamed, OnePerWindow, Exits
<1>6. QED
  BY <1>3, <1>4, <1>5 DEF Inv

-----------------------------------------------------------------------------
(***************************************************************************)
(* The rest of the world.                                                  *)
(***************************************************************************)

\* What a living process shows.
LEMMA AliveShows ==
  ASSUME Inv, NEW p \in Alive
  PROVE  /\ proc[p] \in Process /\ p \in Pid /\ proc[p].of \in Session
         /\ proc[p].pane # NULL => proc[p].place = "home" /\ proc[p].pane \in panes
         /\ proc[p].kept => proc[p].name = title[proc[p].of]
         /\ title[proc[p].of] \in Title
BY DEF Inv, TypeOK, KeptNamed, Alive, Process

LEMMA RegistersKeeps ==
  ASSUME Inv, NEW p \in Pid, Registers(p)
  PROVE  Inv'
<1> DEFINE new == [proc[p] EXCEPT !.state = "listed"]
<1>1. /\ p \in Alive
      /\ proc' = [proc EXCEPT ![p] = new] /\ UNCHANGED <<panes, title, pick>>
  BY DEF Registers
<1>2. /\ proc[p] \in Process /\ title[proc[p].of] \in Title
      /\ proc[p].pane # NULL => proc[p].place = "home" /\ proc[p].pane \in panes
      /\ proc[p].kept => proc[p].name = title[proc[p].of]
  BY <1>1, AliveShows
<1>3. new \in Process
  BY <1>2 DEF Process, ProcState
<1>4. /\ new.of = proc[p].of /\ new.place = proc[p].place /\ new.pane = proc[p].pane
      /\ new.name = proc[p].name /\ new.kept = proc[p].kept /\ new.state = "listed"
  BY <1>2 DEF Process
<1> HIDE DEF new
<1>5. Continues(proc[p], new) /\ Shows(proc[p], new)
  BY <1>1, <1>2, <1>4 DEF Continues, Shows, Unreachable
<1>6. QED
  BY <1>1, <1>3, <1>5, OneStep

LEMMA HookNamesKeeps ==
  ASSUME Inv, NEW p \in Pid, HookNames(p)
  PROVE  Inv'
<1> DEFINE new == [proc[p] EXCEPT !.name = title[proc[p].of]]
<1>1. /\ p \in Alive
      /\ proc' = [proc EXCEPT ![p] = new] /\ UNCHANGED <<panes, title, pick>>
  BY DEF HookNames
<1>2. /\ proc[p] \in Process /\ title[proc[p].of] \in Title
      /\ proc[p].pane # NULL => proc[p].place = "home" /\ proc[p].pane \in panes
      /\ proc[p].kept => proc[p].name = title[proc[p].of]
  BY <1>1, AliveShows
<1>3. new \in Process
  BY <1>2 DEF Process
<1>4. /\ new.of = proc[p].of /\ new.place = proc[p].place /\ new.pane = proc[p].pane
      /\ new.name = title[proc[p].of] /\ new.kept = proc[p].kept /\ new.state = proc[p].state
  BY <1>2 DEF Process
<1> HIDE DEF new
<1>5. Continues(proc[p], new) /\ Shows(proc[p], new)
  BY <1>1, <1>2, <1>4 DEF Continues, Shows, Unreachable
<1>6. QED
  BY <1>1, <1>3, <1>5, OneStep

LEMMA WindowTakenKeeps ==
  ASSUME Inv, NEW p \in Pid, WindowTaken(p)
  PROVE  Inv'
<1> DEFINE new == [proc[p] EXCEPT !.name = NULL, !.kept = FALSE]
<1>1. /\ p \in Alive
      /\ proc' = [proc EXCEPT ![p] = new] /\ UNCHANGED <<panes, title, pick>>
  BY DEF WindowTaken
<1>2. /\ proc[p] \in Process /\ title[proc[p].of] \in Title
      /\ proc[p].pane # NULL => proc[p].place = "home" /\ proc[p].pane \in panes
      /\ proc[p].kept => proc[p].name = title[proc[p].of]
  BY <1>1, AliveShows
<1>3. new \in Process
  BY <1>2 DEF Process
<1>4. /\ new.of = proc[p].of /\ new.place = proc[p].place /\ new.pane = proc[p].pane
      /\ new.name = NULL /\ new.kept = FALSE /\ new.state = proc[p].state
  BY <1>2 DEF Process
<1> HIDE DEF new
<1>5. Continues(proc[p], new) /\ Shows(proc[p], new)
  BY <1>1, <1>2, <1>4 DEF Continues, Shows, Unreachable
<1>6. QED
  BY <1>1, <1>3, <1>5, OneStep

LEMMA SocketBackKeeps ==
  ASSUME Inv, NEW p \in Pid, SocketBack(p)
  PROVE  Inv'
<1> DEFINE new == [proc[p] EXCEPT !.place = "back"]
<1>1. /\ p \in Alive /\ proc[p].place = "lost"
      /\ proc' = [proc EXCEPT ![p] = new] /\ UNCHANGED <<panes, title, pick>>
  BY DEF SocketBack
<1>2. /\ proc[p] \in Process /\ title[proc[p].of] \in Title
      /\ proc[p].pane # NULL => proc[p].place = "home" /\ proc[p].pane \in panes
      /\ proc[p].kept => proc[p].name = title[proc[p].of]
  BY <1>1, AliveShows
<1>3. new \in Process
  BY <1>2 DEF Process, Place
<1>4. /\ new.of = proc[p].of /\ new.place = "back" /\ new.pane = proc[p].pane
      /\ new.name = proc[p].name /\ new.kept = proc[p].kept /\ new.state = proc[p].state
  BY <1>2 DEF Process
<1> HIDE DEF new
<1>5. Continues(proc[p], new) /\ Shows(proc[p], new)
  BY <1>1, <1>2, <1>4 DEF Continues, Shows, Unreachable
<1>6. QED
  BY <1>1, <1>3, <1>5, OneStep

LEMMA RetitledKeeps ==
  ASSUME Inv, NEW p \in Pid, NEW t \in Title, Retitled(p, t)
  PROVE  Inv'
<1> DEFINE S == {q \in Alive : proc[q].of = proc[p].of}
           f == [q \in S |-> [proc[q] EXCEPT !.kept = FALSE]]
<1>1. /\ proc[p].of \in Session /\ title' = [title EXCEPT ![proc[p].of] = t]
      /\ UNCHANGED <<panes, pick>>
  BY AliveShows DEF Retitled
<1>2. proc' = [q \in Pid |-> IF q \in S THEN f[q] ELSE proc[q]]
  BY DEF Retitled
<1>3. ASSUME NEW q \in S
      PROVE  /\ f[q] \in Process
             /\ Continues(proc[q], f[q]) /\ Shows(proc[q], f[q])
  <2> DEFINE new == [proc[q] EXCEPT !.kept = FALSE]
  <2>1. /\ proc[q] \in Process /\ q \in Alive /\ f[q] = new
        /\ proc[q].pane # NULL => proc[q].place = "home" /\ proc[q].pane \in panes
    BY AliveShows
  <2>2. new \in Process
    BY <2>1 DEF Process
  <2>3. /\ new.of = proc[q].of /\ new.place = proc[q].place /\ new.pane = proc[q].pane
        /\ new.name = proc[q].name /\ new.kept = FALSE /\ new.state = proc[q].state
    BY <2>1 DEF Process
  <2> HIDE DEF new, f, S
  <2>4. Continues(proc[q], new) /\ Shows(proc[q], new)
    BY <1>1, <2>1, <2>3 DEF Continues, Shows, Unreachable
  <2>5. QED
    BY <2>1, <2>2, <2>4
<1>4. S \in SUBSET Alive /\ f \in [S -> Process]
  BY <1>3
<1>5. \A q \in Alive \ S : /\ proc[q].pane # NULL => proc[q].pane \in panes'
                           /\ title'[proc[q].of] = title[proc[q].of]
  BY <1>1, AliveShows, InvParts
<1>6. panes' \subseteq Pane /\ title' \in [Session -> Title]
  BY <1>1, InvParts
<1> HIDE DEF S, f
<1>7. QED
  BY <1>1, <1>2, <1>3, <1>4, <1>5, <1>6, WorldStep

LEMMA PaneOpensKeeps ==
  ASSUME Inv, NEW pane \in Pane, PaneOpens(pane)
  PROVE  Inv'
<1>1. Alive' = Alive /\ panes \subseteq panes' /\ panes' \subseteq Pane
      /\ UNCHANGED <<proc, title, pick>>
  BY InvParts DEF PaneOpens, Alive
<1>2. \A p \in Alive : Continues(proc[p], proc'[p]) /\ Shows(proc[p], proc'[p])
  BY <1>1, AliveShows DEF Continues, Shows
<1>3. \A k \in Picker : pick[k].phase = "switch" => pick[k].pane # NULL
  BY DEF Inv, TypeOK
<1>4. QED
  BY <1>1, <1>2, <1>3, InvParts, GoOn

LEMMA PaneClosesKeeps ==
  ASSUME Inv, NEW pane \in Pane, PaneCloses(pane)
  PROVE  Inv'
<1> DEFINE S == {p \in Alive : proc[p].pane = pane}
           f == [p \in S |-> [proc[p] EXCEPT !.pane = NULL, !.name = NULL, !.kept = FALSE]]
<1>1. panes' = panes \ {pane} /\ UNCHANGED <<title, pick>>
  BY DEF PaneCloses
<1>2. proc' = [p \in Pid |-> IF p \in S THEN f[p] ELSE proc[p]]
  BY DEF PaneCloses
<1>3. ASSUME NEW p \in S
      PROVE  /\ f[p] \in Process
             /\ Continues(proc[p], f[p]) /\ Shows(proc[p], f[p])
  <2> DEFINE new == [proc[p] EXCEPT !.pane = NULL, !.name = NULL, !.kept = FALSE]
  <2>1. /\ proc[p] \in Process /\ p \in Alive /\ f[p] = new
        /\ proc[p].pane # NULL => proc[p].place = "home" /\ proc[p].pane \in panes
    BY AliveShows
  <2>2. new \in Process
    BY <2>1 DEF Process
  <2>3. /\ new.of = proc[p].of /\ new.place = proc[p].place /\ new.pane = NULL
        /\ new.name = NULL /\ new.kept = FALSE /\ new.state = proc[p].state
    BY <2>1 DEF Process
  <2> HIDE DEF new, f, S
  <2>4. Continues(proc[p], new) /\ Shows(proc[p], new)
    BY <1>1, <2>1, <2>3 DEF Continues, Shows, Unreachable
  <2>5. QED
    BY <2>1, <2>2, <2>4
<1>4. S \in SUBSET Alive /\ f \in [S -> Process]
  BY <1>3
<1>5. \A p \in Alive \ S : /\ proc[p].pane # NULL => proc[p].pane \in panes'
                           /\ title'[proc[p].of] = title[proc[p].of]
  BY <1>1, AliveShows
<1>6. panes' \subseteq Pane /\ title' \in [Session -> Title]
  BY <1>1, InvParts
<1> HIDE DEF S, f
<1>7. QED
  BY <1>1, <1>2, <1>3, <1>4, <1>5, <1>6, WorldStep

LEMMA SocketLostKeeps ==
  ASSUME Inv, NEW place, SocketLost(place)
  PROVE  Inv'
<1> DEFINE S == {p \in Alive : proc[p].place = place}
           f == [p \in S |-> [proc[p] EXCEPT !.place = "lost", !.pane = NULL, !.name = NULL,
                                             !.kept = FALSE]]
<1>1. /\ panes' = IF place = "home" THEN {} ELSE panes
      /\ UNCHANGED <<title, pick>>
  BY DEF SocketLost
<1>2. proc' = [p \in Pid |-> IF p \in S THEN f[p] ELSE proc[p]]
  BY DEF SocketLost
<1>3. ASSUME NEW p \in S
      PROVE  /\ f[p] \in Process
             /\ Continues(proc[p], f[p]) /\ Shows(proc[p], f[p])
  <2> DEFINE new == [proc[p] EXCEPT !.place = "lost", !.pane = NULL, !.name = NULL, !.kept = FALSE]
  <2>1. /\ proc[p] \in Process /\ p \in Alive /\ f[p] = new
        /\ proc[p].pane # NULL => proc[p].place = "home" /\ proc[p].pane \in panes
    BY AliveShows
  <2>2. new \in Process
    BY <2>1 DEF Process, Place
  <2>3. /\ new.of = proc[p].of /\ new.place = "lost" /\ new.pane = NULL
        /\ new.name = NULL /\ new.kept = FALSE /\ new.state = proc[p].state
    BY <2>1 DEF Process
  <2> HIDE DEF new, f, S
  <2>4. Continues(proc[p], new) /\ Shows(proc[p], new)
    BY <1>1, <2>1, <2>3 DEF Continues, Shows, Unreachable
  <2>5. QED
    BY <2>1, <2>2, <2>4
<1>4. S \in SUBSET Alive /\ f \in [S -> Process]
  BY <1>3
<1>5. \A p \in Alive \ S : /\ proc[p].pane # NULL => proc[p].pane \in panes'
                           /\ title'[proc[p].of] = title[proc[p].of]
  BY <1>1, AliveShows
<1>6. panes' \subseteq Pane /\ title' \in [Session -> Title]
  BY <1>1, InvParts
<1> HIDE DEF S, f
<1>7. QED
  BY <1>1, <1>2, <1>3, <1>4, <1>5, <1>6, WorldStep

LEMMA WorldKeeps ==
  ASSUME Inv, World
  PROVE  Inv'
<1>1. ASSUME NEW p \in Pid, NEW s \in Session, NEW place \in Place \ {"back"},
             NEW pane \in Pane \cup {NULL}, NEW name \in Title \cup {NULL},
             Start(p, s, place, pane, name)
      PROVE  Inv'
  BY <1>1, StartKeeps
<1>2. ASSUME NEW p \in Pid, Registers(p) \/ Exits(p)
      PROVE  Inv'
  BY <1>2, RegistersKeeps, ExitsKeeps
<1>3. ASSUME NEW p \in Pid, HookNames(p) \/ WindowTaken(p) \/ SocketBack(p)
      PROVE  Inv'
  BY <1>3, HookNamesKeeps, WindowTakenKeeps, SocketBackKeeps
<1>4. ASSUME NEW p \in Pid, NEW t \in Title, Retitled(p, t)
      PROVE  Inv'
  BY <1>4, RetitledKeeps
<1>5. ASSUME NEW pane \in Pane, PaneOpens(pane) \/ PaneCloses(pane)
      PROVE  Inv'
  BY <1>5, PaneOpensKeeps, PaneClosesKeeps
<1>6. ASSUME NEW place, SocketLost(place)
      PROVE  Inv'
  BY <1>6, SocketLostKeeps
<1>7. QED
  BY <1>1, <1>2, <1>3, <1>4, <1>5, <1>6 DEF World

-----------------------------------------------------------------------------
(***************************************************************************)
(* A pick.                                                                 *)
(***************************************************************************)

LEMMA ListsKeeps ==
  ASSUME Inv, NEW k \in Picker, NEW s \in Session, Lists(k, s)
  PROVE  Inv'
<1> DEFINE to == [NoPick EXCEPT !.phase = "listed", !.s = s]
<1>1. to \in Pick /\ Knows(to, proc) /\ to.phase = "listed"
  BY DEF NoPick, Pick, Knows
<1>2. Goes(k, to) /\ UNCHANGED <<proc, panes, title>>
  BY DEF Lists
<1> HIDE DEF to
<1>3. QED
  BY <1>1, <1>2, PickStep

LEMMA ReadRosterKeeps ==
  ASSUME Inv, NEW k \in Picker, ReadRoster(k)
  PROVE  Inv'
<1> DEFINE listed == Listed(pick[k].s)
           agents == {p \in listed : proc[p].place # "background"}
           others == listed # agents
           read == [pick[k] EXCEPT !.phase = "roster", !.ok = TRUE, !.seen = listed,
                                   !.agents = agents, !.others = others]
           unread == [pick[k] EXCEPT !.phase = "roster", !.seen = listed]
<1>1. /\ pick[k].phase = "listed" /\ (Goes(k, read) \/ Goes(k, unread))
      /\ UNCHANGED <<proc, panes, title>>
  BY DEF ReadRoster
<1>2. pick[k] \in Pick /\ Knows(pick[k], proc)
  BY InvParts
<1>3. /\ listed \subseteq Pid /\ agents \subseteq listed
      /\ others \in BOOLEAN /\ (~others => listed = agents)
      /\ \A p \in listed : /\ p \in AliveIn(proc) /\ proc[p].of = pick[k].s
                           /\ proc[p].state # "starting"
  BY DEF Listed, Alive, AliveIn
<1> HIDE DEF listed, agents, others
<1>4. read \in Pick /\ Knows(read, proc) /\ read.phase = "roster"
  BY <1>1, <1>2, <1>3 DEF Pick, Knows
<1>5. unread \in Pick /\ Knows(unread, proc) /\ unread.phase = "roster"
  BY <1>1, <1>2, <1>3 DEF Pick, Knows
<1> HIDE DEF read, unread
<1>6. CASE Goes(k, read)
  BY <1>1, <1>4, <1>6, PickStep
<1>7. CASE Goes(k, unread)
  BY <1>1, <1>5, <1>7, PickStep
<1>8. QED
  BY <1>1, <1>6, <1>7

\* What the search for a pane may find is a pane.
LEMMA ReachesPanes ==
  ASSUME Inv, NEW a \in Pick
  PROVE  Reaches(a) \subseteq Pane
<1>1. \A p \in Pid : Finds(p) \subseteq Pane \cup {NULL}
  BY InvParts DEF Finds, Process
<1>2. \A p \in a.agents : p \in Pid
  BY DEF Pick
<1>3. ASSUME NEW x \in (UNION {Finds(p) : p \in a.agents}) \ {NULL} PROVE x \in Pane
  <2>1. x # NULL
    BY <1>3
  <2>2. PICK p \in a.agents : x \in Finds(p)
    BY <1>3
  <2>3. Finds(p) \subseteq Pane \cup {NULL}
    BY <1>1, <1>2
  <2>4. QED
    BY <2>1, <2>2, <2>3
<1>4. QED
  BY <1>3, InvParts DEF Reaches

LEMMA SearchesKeeps ==
  ASSUME Inv, NEW k \in Picker, Searches(k)
  PROVE  Inv'
<1> DEFINE a == pick[k]
           switch(pane) == [NoPick EXCEPT !.phase = "switch", !.s = a.s, !.pane = pane]
           unreached == [a EXCEPT !.phase = "unreached"]
<1>1. /\ a \in Pick /\ Knows(a, proc) /\ a.phase = "roster"
      /\ UNCHANGED <<proc, panes, title>>
  BY InvParts DEF Searches
<1>2. ASSUME NEW pane \in Reaches(a), Goes(k, switch(pane))
      PROVE  Inv'
  <2>1. pane \in Pane /\ pane # NULL
    BY <1>1, ReachesPanes, PickerAssumption
  <2> HIDE DEF a
  <2>2. /\ switch(pane) \in Pick /\ switch(pane).phase = "switch" /\ switch(pane).pane = pane
        /\ Knows(switch(pane), proc)
    BY <1>1, <2>1 DEF NoPick, Pick, Knows
  <2> HIDE DEF switch
  <2>3. QED
    BY <1>1, <1>2, <2>1, <2>2, PickStep
<1>3. ASSUME a.ok, ~a.others, Goes(k, unreached)
      PROVE  Inv'
  <2> HIDE DEF a
  <2>1. unreached \in Pick /\ unreached.phase = "unreached" /\ Knows(unreached, proc)
    BY <1>1, <1>3 DEF Pick, Knows
  <2> HIDE DEF unreached
  <2>2. QED
    BY <1>1, <1>3, <2>1, PickStep
<1>4. CASE Goes(k, NoPick)
  BY <1>1, <1>4, PickEnds
<1>5. QED
  BY <1>2, <1>3, <1>4 DEF Searches

LEMMA DecidesKeeps ==
  ASSUME Inv, NEW k \in Picker, Decides(k)
  PROVE  Inv'
<1> DEFINE a == pick[k]
           open == [NoPick EXCEPT !.phase = "open", !.s = a.s, !.seen = a.seen]
           kill(p) == [NoPick EXCEPT !.phase = "kill", !.s = a.s, !.seen = a.seen, !.pid = p]
<1>1. /\ a \in Pick /\ Knows(a, proc) /\ a.phase = "unreached" /\ a.s \in Session
      /\ a.seen \subseteq a.agents /\ a.agents \subseteq Pid /\ a.seen \subseteq Pid
      /\ AliveIn(proc) = Alive
      /\ UNCHANGED <<proc, panes, title>>
  BY InvParts DEF Decides, Knows, Pick
<1>2. ASSUME a.agents = {}, Goes(k, open)
      PROVE  Inv'
  <2> HIDE DEF a
  <2>1. open \in Pick /\ open.phase = "open" /\ Knows(open, proc)
    BY <1>1, <1>2 DEF NoPick, Pick, Knows
  <2> HIDE DEF open
  <2>2. QED
    BY <1>1, <1>2, <2>1, PickStep
<1>3. ASSUME NEW p \in a.agents, NEW origin \in Origins(p), a.agents = {p},
             Displaceable(origin), Goes(k, kill(p))
      PROVE  Inv'
  <2>1. p \in Alive => proc[p].place = "lost"
    BY <1>3 DEF Displaceable, Origins
  <2>2. \A q \in a.seen : q = p /\ proc[q].place \in Unreachable
    BY <1>1, <1>3, <2>1 DEF Knows, Unreachable
  <2> HIDE DEF a
  <2>3. kill(p) \in Pick /\ kill(p).phase = "kill" /\ Knows(kill(p), proc)
    BY <1>1, <1>3, <2>2 DEF NoPick, Pick, Knows
  <2> HIDE DEF kill
  <2>4. QED
    BY <1>1, <1>3, <2>3, PickStep
<1>4. QED
  BY <1>2, <1>3 DEF Decides

LEMMA KillsKeeps ==
  ASSUME Inv, NEW k \in Picker, Kills(k)
  PROVE  Inv'
<1> DEFINE p == pick[k].pid
           new == [proc[p] EXCEPT !.state = "ending"]
           to == [pick[k] EXCEPT !.phase = "waiting", !.pid = NULL]
<1>1. /\ pick[k] \in Pick /\ Knows(pick[k], proc) /\ pick[k].phase = "kill"
      /\ UNCHANGED <<panes, title>>
  BY InvParts DEF Kills
<1>2. to \in Pick /\ to.phase = "waiting" /\ \A P : Knows(pick[k], P) => Knows(to, P)
  BY <1>1 DEF Pick, Knows
<1> HIDE DEF to
<1>3. Goes(k, to) \/ (Goes(k, NoPick) /\ p \notin Alive)
  BY DEF Kills, to
<1>4. CASE ~(p \in Alive /\ proc[p].state = "listed")
  <2>1. UNCHANGED <<proc, panes, title>>
    BY <1>1, <1>4 DEF Kills
  <2>2. QED
    BY <1>1, <1>2, <1>3, <2>1, PickStep, PickEnds
<1>5. CASE p \in Alive /\ proc[p].state = "listed"
  <2>1. proc' = [proc EXCEPT ![p] = new] /\ Goes(k, to)
    BY <1>3, <1>5 DEF Kills
  <2>2. /\ proc[p] \in Process /\ title[proc[p].of] \in Title
        /\ proc[p].pane # NULL => proc[p].place = "home" /\ proc[p].pane \in panes
        /\ proc[p].kept => proc[p].name = title[proc[p].of]
    BY <1>5, AliveShows
  <2> HIDE DEF p
  <2>3. new \in Process
    BY <2>2 DEF Process, ProcState
  <2>4. /\ new.of = proc[p].of /\ new.place = proc[p].place /\ new.pane = proc[p].pane
        /\ new.name = proc[p].name /\ new.kept = proc[p].kept /\ new.state = "ending"
    BY <2>2 DEF Process
  <2> HIDE DEF new
  <2>5. Continues(proc[p], new) /\ Shows(proc[p], new)
    BY <1>1, <2>2, <2>4 DEF Continues, Shows
  <2> DEFINE f == [q \in {p} |-> new]
  <2>6. /\ {p} \in SUBSET Alive /\ f \in [{p} -> Process]
        /\ proc' = [q \in Pid |-> IF q \in {p} THEN f[q] ELSE proc[q]]
        /\ \A q \in {p} : Continues(proc[q], f[q]) /\ Shows(proc[q], f[q])
    BY <1>5, <2>1, <2>3, <2>5 DEF Inv, TypeOK
  <2> HIDE DEF f
  <2>7. \A q \in Alive \ {p} : /\ proc[q].pane # NULL => proc[q].pane \in panes'
                               /\ title'[proc[q].of] = title[proc[q].of]
    BY <1>1 DEF Inv, TypeOK
  <2>8. /\ proc' \in [Pid -> Process \cup {NULL}] /\ Alive' = Alive
        /\ \A q \in Alive : Continues(proc[q], proc'[q]) /\ Shows(proc[q], proc'[q])
    BY <2>6, <2>7, Updated
  <2>9. /\ pick' \in [Picker -> Pick]
        /\ \A j \in Picker : pick'[j] = IF j = k THEN to ELSE pick[j]
    BY <1>2, <2>1 DEF Goes, Inv, TypeOK
  <2>10. \A j \in Picker : /\ pick'[j].phase = "switch" => pick'[j].pane # NULL
                           /\ Knows(pick[j], proc') => Knows(pick'[j], proc')
    BY <1>2, <2>9 DEF Inv, TypeOK
  <2>11. panes' \subseteq Pane /\ title' \in [Session -> Title]
    BY <1>1, InvParts
  <2>12. QED
    BY <2>8, <2>9, <2>10, <2>11, GoOn
<1>6. QED
  BY <1>4, <1>5

LEMMA WaitsKeeps ==
  ASSUME Inv, NEW k \in Picker, Waits(k)
  PROVE  Inv'
<1> DEFINE to == [pick[k] EXCEPT !.phase = "open"]
<1>1. CASE Goes(k, NoPick)
  BY <1>1, PickEnds DEF Waits
<1>2. CASE SeenGone(pick[k].s) /\ Goes(k, to)
  <2>1. pick[k] \in Pick /\ Knows(pick[k], proc) /\ pick[k].phase = "waiting"
    BY InvParts DEF Waits
  <2>2. pick[k].seen = {}
    <3>1. pick[k].seen \subseteq Listed(pick[k].s)
      BY <2>1, InvParts DEF Knows, Listed
    <3>2. QED
      BY <1>2, <3>1 DEF SeenGone
  <2>3. to \in Pick /\ to.phase = "open" /\ Knows(to, proc)
    BY <2>1, <2>2 DEF Pick, Knows
  <2> HIDE DEF to
  <2>4. QED
    BY <1>2, <2>3, PickStep DEF Waits
<1>3. QED
  BY <1>1, <1>2 DEF Waits

LEMMA NamesKeeps ==
  ASSUME Inv, NEW k \in Picker, Names(k)
  PROVE  Inv'
<1> DEFINE to == [pick[k] EXCEPT !.phase = "named", !.name = title[pick[k].s]]
<1>1. /\ pick[k] \in Pick /\ Knows(pick[k], proc) /\ pick[k].phase = "open"
      /\ pick[k].s \in Session /\ title[pick[k].s] \in Title
      /\ Goes(k, to) /\ UNCHANGED <<proc, panes, title>>
  BY InvParts DEF Names, Knows
<1>2. to \in Pick /\ to.phase = "named" /\ Knows(to, proc)
  BY <1>1 DEF Pick, Knows
<1> HIDE DEF to
<1>3. QED
  BY <1>1, <1>2, PickStep

LEMMA OpensKeeps ==
  ASSUME Inv, NEW k \in Picker, Opens(k)
  PROVE  Inv'
<1> DEFINE s == pick[k].s
           name == pick[k].name
           new(pane) == [of |-> s, place |-> "home", pane |-> pane, name |-> name,
                         kept |-> name = title[s], state |-> "starting"]
<1>1. s \in Session /\ name \in Title /\ UNCHANGED title
  BY InvParts DEF Opens, Knows
<1>2. CASE \E p \in Alive : Selects(p, s, name)
  BY <1>2, PickEnds DEF Opens
<1>3. CASE ~ \E p \in Alive : Selects(p, s, name)
  <2>1. PICK p \in Pid \ Alive, pane \in Pane \ panes :
          /\ proc' = [proc EXCEPT ![p] = new(pane)]
          /\ panes' = panes \cup {pane}
    BY <1>3 DEF Opens
  <2>2. /\ pick' \in [Picker -> Pick]
        /\ \A j \in Picker : pick'[j] = pick[j] \/ pick'[j] = NoPick
    BY NoPickKnows, InvParts DEF Opens, Goes
  <2>3. pane # NULL /\ \A q \in Alive : proc[q].pane # pane
    BY PickerAssumption DEF Inv, TypeOK
  <2>4. \A q \in Alive : ~(proc[q].of = s /\ proc[q].name = name)
    BY <1>3 DEF Selects
  <2> HIDE DEF s, name
  <2>5. (name = title[s]) \in BOOLEAN
    OBVIOUS
  <2>6. new(pane) \in Process
    BY <1>1, <2>5 DEF Process, ProcState, Place
  <2>7. /\ new(pane).of = s /\ new(pane).pane = pane /\ new(pane).place = "home"
        /\ new(pane).name = name /\ (new(pane).kept => name = title[s])
    OBVIOUS
  <2>8. panes' = panes \cup ({pane} \ {NULL})
    BY <2>1, <2>3
  <2> HIDE DEF new
  <2>9. QED
    BY <1>1, <2>1, <2>2, <2>3, <2>4, <2>6, <2>7, <2>8, StartStep
<1>4. QED
  BY <1>2, <1>3

-----------------------------------------------------------------------------
(***************************************************************************)
(* The theorems.                                                           *)
(***************************************************************************)

LEMMA InvInit == Init => Inv
<1> SUFFICES ASSUME Init PROVE Inv
  OBVIOUS
<1>1. Alive = {}
  BY DEF Init, Alive
<1>2. TypeOK
  BY <1>1, NoPickKnows DEF Init, TypeOK, NoPick
<1>3. \A k \in Picker : Knows(pick[k], proc)
  BY NoPickKnows DEF Init
<1>4. QED
  BY <1>1, <1>2, <1>3 DEF Inv, PanesApart, KeptNamed, OnePerWindow

LEMMA InvNext == Inv /\ [Next]_vars => Inv'
<1> SUFFICES ASSUME Inv, [Next]_vars PROVE Inv'
  OBVIOUS
<1>1. CASE World
  BY <1>1, WorldKeeps
<1>2. ASSUME NEW k \in Picker, NEW s \in Session, Lists(k, s)
      PROVE  Inv'
  BY <1>2, ListsKeeps
<1>3. ASSUME NEW k \in Picker, Refuses(k) \/ Switches(k) \/ DecidesNot(k) \/ OpenFails(k)
      PROVE  Inv'
  BY <1>3, PickEnds DEF Refuses, Switches, DecidesNot, OpenFails
<1>4. ASSUME NEW k \in Picker, ReadRoster(k) \/ Searches(k) \/ Decides(k)
      PROVE  Inv'
  BY <1>4, ReadRosterKeeps, SearchesKeeps, DecidesKeeps
<1>5. ASSUME NEW k \in Picker, Kills(k) \/ Waits(k) \/ Names(k) \/ Opens(k)
      PROVE  Inv'
  BY <1>5, KillsKeeps, WaitsKeeps, NamesKeeps, OpensKeeps
<1>6. CASE UNCHANGED vars
  <2>1. UNCHANGED <<proc, panes, title, pick>>
    BY <1>6 DEF vars
  <2>2. QED
    BY <2>1 DEF Inv, TypeOK, PanesApart, KeptNamed, OnePerWindow, Alive
<1>7. QED
  BY <1>1, <1>2, <1>3, <1>4, <1>5, <1>6 DEF Next

LEMMA InvHolds == Spec => []Inv
BY InvInit, InvNext, PTL DEF Spec

\* The panes, the processes and what each pick holds keep their types, and what a pick
\* switches to is a pane.
THEOREM PickerTypeCorrect == Spec => []TypeOK
<1>1. Inv => TypeOK
  BY DEF Inv
<1>2. QED
  BY <1>1, InvHolds, PTL

\* However many pickers pick a session at once, and however hooks name its windows, no
\* two living processes of it run in windows that picks opened and that have been named
\* after what the session is about ever since (OpenSession, new-window -S).  It does
\* not exclude a second process after a retitle, or after a person renamed, moved or
\* closed the first one's window.
THEOREM OneProcessPerWindow == Spec => []OnePerWindow
<1>1. Inv => OnePerWindow
  BY DEF Inv
<1>2. QED
  BY <1>1, InvHolds, PTL

\* When a pick signals, no process that a roster had to list is still there but the one
\* it means, and no new client can have been opened onto that one at its socket since
\* before it was asked after, or it has made the socket anew (describeTarget,
\* DecideAction, sessionproc.End).  Whatever has got the pid of a process that has
\* ended, and a client attached all along, can be hit.
THEOREM OnlyUnreachableEnded == Spec => EndsUnreachableOnly
<1>1. ASSUME Inv, [Next]_vars
      PROVE  [\A k \in Picker :
                Kills(k) /\ pick'[k].phase = "waiting" =>
                  \A p \in pick[k].seen :
                    p = pick[k].pid /\ proc[p].place \in {"lost", "back"}]_vars
  <2>1. ASSUME NEW k \in Picker, Kills(k)
        PROVE  \A p \in pick[k].seen : p = pick[k].pid /\ proc[p].place \in {"lost", "back"}
    BY <1>1, <2>1, InvParts DEF Kills, Knows, Unreachable
  <2>2. QED
    BY <2>1
<1>2. QED
  BY <1>1, InvHolds, PTL DEF Spec, EndsUnreachableOnly

\* A pick launches a resume only when every process that a roster had to list when the
\* pick looked has ended (describeTarget, sessionproc.WaitGone).
THEOREM LaunchesAlone == Spec => ResumesAlone
<1>1. ASSUME Inv, [Next]_vars
      PROVE  [\A k \in Picker : Opens(k) /\ proc' # proc => pick[k].seen = {}]_vars
  <2>1. ASSUME NEW k \in Picker, Opens(k) PROVE pick[k].seen = {}
    BY <1>1, <2>1, InvParts DEF Opens, Knows
  <2>2. QED
    BY <2>1
<1>2. QED
  BY <1>1, InvHolds, PTL DEF Spec, ResumesAlone

\* When the roster could be read, a pick switches to a pane that shows the picked
\* session, whatever ids the panes have been given since it was listed (reachablePane),
\* unless a process of the roster has ended since and another has its pid.
THEOREM SwitchesRight == Spec => SwitchesToSession
<1>1. ASSUME Inv, [Next]_vars
      PROVE  [\A k \in Picker :
                Searches(k) /\ pick[k].ok /\ pick'[k].phase = "switch" =>
                  \/ \E p \in pick[k].seen : proc[p].of = pick[k].s
                                             /\ proc[p].pane = pick'[k].pane
                  \/ \E p \in pick[k].agents : p \notin pick[k].seen]_vars
  <2>1. ASSUME NEW k \in Picker, Searches(k), pick[k].ok, pick'[k].phase = "switch"
        PROVE  \/ \E p \in pick[k].seen : proc[p].of = pick[k].s
                                          /\ proc[p].pane = pick'[k].pane
               \/ \E p \in pick[k].agents : p \notin pick[k].seen
    <3> DEFINE a == pick[k]
               switch(pane) == [NoPick EXCEPT !.phase = "switch", !.s = a.s, !.pane = pane]
               unreached == [a EXCEPT !.phase = "unreached"]
    <3>1. a \in Pick /\ Knows(a, proc) /\ AliveIn(proc) = Alive /\ \A to : Goes(k, to) => pick'[k] = to
      BY <1>1, InvParts DEF Goes
    <3>2. unreached.phase = "unreached" /\ NoPick.phase = "none"
          /\ \A pane : switch(pane).pane = pane
      BY <3>1 DEF NoPick, Pick
    <3>3. (\E pane \in Reaches(a) : Goes(k, switch(pane))) \/ Goes(k, unreached) \/ Goes(k, NoPick)
      BY <2>1 DEF Searches
    <3> HIDE DEF unreached, switch
    <3>4. pick'[k].pane \in Reaches(a)
      BY <2>1, <3>1, <3>2, <3>3
    <3>5. PICK p \in a.agents : pick'[k].pane \in Finds(p)
      BY <2>1, <3>4 DEF Reaches
    <3>6. CASE p \in a.seen
      <4>1. p \in Alive /\ proc[p].of = a.s
        BY <3>1, <3>6 DEF Knows
      <4>2. QED
        BY <3>5, <3>6, <4>1 DEF Finds
    <3>7. CASE p \notin a.seen
      BY <3>7
    <3>8. QED
      BY <3>6, <3>7
  <2>2. QED
    BY <2>1
<1>2. QED
  BY <1>1, InvHolds, PTL DEF Spec, SwitchesToSession

=============================================================================
