---------------------------- MODULE SweepProofs ----------------------------
(***************************************************************************)
(* Proofs about Sweep.                                                     *)
(***************************************************************************)
EXTENDS Sweep, TLAPS

\* What a sweep knows of the sessions that have been there all along: each of
\* them is still there, so every roster the sweep has read listed it, and so it
\* is not among the rows to close.
Watched ==
  /\ DOMAIN proc = Session
  /\ DOMAIN sweep = Sweeper
  /\ steady \in [Sweeper -> SUBSET Session]
  /\ \A w \in Sweeper : \A s \in steady[w] : Alive(proc[s])

Heard(local, S) ==
  \A s \in S : DirOf[s] \in DOMAIN local.live => s \in local.live[DirOf[s]]

Spared(local, S) ==
  /\ local.phase = "reading" => Heard(local, S)
  /\ local.phase = "closing" => local.todo \cap S = {}

IInv == Watched /\ \A w \in Sweeper : Spared(sweep[w], steady[w])

LEMMA SparedSubset ==
  ASSUME NEW local, NEW S, NEW T, T \subseteq S, Spared(local, S)
  PROVE  Spared(local, T)
BY DEF Spared, Heard

LEMMA IdleSpared == \A S : Spared(Idle, S)
BY DEF Spared, Idle

\* A step of a process: sweepers do not move, and steady only loses sessions.
LEMMA ProcessStep ==
  ASSUME IInv, UNCHANGED sweep,
         DOMAIN proc' = Session,
         steady' \in [Sweeper -> SUBSET Session],
         \A w \in Sweeper : /\ steady'[w] \subseteq steady[w]
                            /\ \A s \in steady'[w] : Alive(proc'[s])
  PROVE  IInv'
<1>1. Watched'
  BY DEF IInv, Watched
<1>2. ASSUME NEW w \in Sweeper PROVE Spared(sweep'[w], steady'[w])
  BY <1>2, SparedSubset DEF IInv
<1>3. QED
  BY <1>1, <1>2 DEF IInv, Spared, Heard

LEMMA MovesStep ==
  ASSUME IInv, NEW s \in Session, NEW from, NEW to, Moves(s, from, to)
  PROVE  IInv'
<1>1. /\ UNCHANGED sweep
      /\ proc' = [proc EXCEPT ![s].at = to]
      /\ steady' = [w \in Sweeper |-> {x \in steady[w] : Alive(proc'[x])}]
  BY DEF Moves
<1>2. DOMAIN proc' = Session
  BY <1>1 DEF IInv, Watched
<1>3. steady' \in [Sweeper -> SUBSET Session]
  BY <1>1 DEF IInv, Watched
<1>4. QED
  BY <1>1, <1>2, <1>3, ProcessStep

\* A step of sweeper w that leaves the processes alone, but for those it stops.
LEMMA SweeperStep ==
  ASSUME IInv, NEW w \in Sweeper, NEW local, Becomes(w, local), UNCHANGED steady,
         DOMAIN proc' = Session, \A s \in Session : Alive(proc[s]) => Alive(proc'[s]),
         Spared(local, steady[w])
  PROVE  IInv'
<1>1. \A v \in Sweeper : sweep'[v] = IF v = w THEN local ELSE sweep[v]
  BY DEF Becomes, IInv, Watched
<1>2. Watched'
  <2>1. DOMAIN sweep' = Sweeper
    BY DEF Becomes, IInv, Watched
  <2>2. QED
    BY <2>1 DEF IInv, Watched
<1>3. ASSUME NEW v \in Sweeper PROVE Spared(sweep[v], steady[v])'
  BY <1>1 DEF IInv, Spared, Heard
<1>4. QED
  BY <1>2, <1>3 DEF IInv

-----------------------------------------------------------------------------

LEMMA ProcessPreserves ==
  ASSUME IInv, NEW s \in Session, Process(s)
  PROVE  IInv'
<1>1. ASSUME NEW kind \in Kind, Start(s, kind)
      PROVE  IInv'
  <2>1. /\ UNCHANGED <<sweep, steady>>
        /\ proc' = [proc EXCEPT ![s] = [at |-> "starting", kind |-> kind]]
    BY <1>1 DEF Start
  <2>2. DOMAIN proc' = Session /\ \A x \in Session : Alive(proc[x]) => Alive(proc'[x])
    BY <2>1 DEF IInv, Watched, Alive
  <2>3. QED
    BY <2>1, <2>2, ProcessStep DEF IInv, Watched
<1>2. CASE StartHook(s) \/ StartHookLost(s)
  BY <1>2, MovesStep DEF StartHook, StartHookLost
<1>3. ASSUME NEW state, TurnHook(s, state) \/ LateHook(s, state)
      PROVE  IInv'
  BY <1>3, MovesStep DEF TurnHook, LateHook
<1>4. ASSUME NEW reason, EndHook(s, reason)
      PROVE  IInv'
  BY <1>4, MovesStep DEF EndHook
<1>5. CASE Vanish(s)
  BY <1>5, MovesStep DEF Vanish
<1>6. QED
  BY <1>1, <1>2, <1>3, <1>4, <1>5 DEF Process

LEMMA SweepingPreserves ==
  ASSUME IInv, NEW w \in Sweeper, Sweeping(w)
  PROVE  IInv'
<1>a. DOMAIN proc = Session /\ steady[w] \subseteq Session
  BY DEF IInv, Watched
<1>b. Spared(sweep[w], steady[w])
  BY DEF IInv
<1>1. CASE ReadLedger(w)
  <2> DEFINE local == [Idle EXCEPT !.phase = "reading", !.tracked = Tracked,
                                   !.unread = {DirOf[s] : s \in Tracked}]
  <2>1. /\ Becomes(w, local) /\ UNCHANGED proc
        /\ steady' = [steady EXCEPT ![w] = {s \in Session : Alive(proc[s])}]
    BY <1>1 DEF ReadLedger
  <2>2. \A S : Spared(local, S)
    BY DEF Spared, Heard, Idle
  <2> HIDE DEF local
  <2>3. sweep' = [sweep EXCEPT ![w] = local]
    BY <2>1 DEF Becomes
  <2>4. Watched'
    BY <2>1, <2>3 DEF IInv, Watched
  <2>5. ASSUME NEW v \in Sweeper PROVE Spared(sweep'[v], steady'[v])
    <3>1. CASE v = w
      BY <2>2, <2>3, <3>1 DEF IInv, Watched
    <3>2. CASE v # w
      BY <2>1, <2>3, <3>2 DEF IInv, Watched
    <3>3. QED
      BY <3>1, <3>2
  <2>6. QED
    BY <2>4, <2>5 DEF IInv, Spared, Heard
<1>2. ASSUME NEW dir \in Dir, ReadRoster(w, dir)
      PROVE  IInv'
  <2> DEFINE live == [d \in DOMAIN sweep[w].live \cup {dir} |->
                        IF d = dir THEN Roster(dir) ELSE sweep[w].live[d]]
             local == [sweep[w] EXCEPT !.unread = @ \ {dir}, !.live = live]
  <2>1. Becomes(w, local) /\ UNCHANGED <<proc, steady>> /\ sweep[w].phase = "reading"
    BY <1>2 DEF ReadRoster, ProcessesAlone
  <2>2. local.phase = "reading" /\ local.live = live
    BY <2>1
  <2>3. ASSUME NEW s \in steady[w], DirOf[s] \in DOMAIN live PROVE s \in live[DirOf[s]]
    <3>1. s \in Roster(DirOf[s])
      BY <1>a DEF IInv, Watched, Roster
    <3>2. QED
      BY <1>b, <2>1, <2>3, <3>1 DEF Spared, Heard
  <2>4. Spared(local, steady[w])
    BY <2>2, <2>3 DEF Spared, Heard
  <2> HIDE DEF local
  <2>5. QED
    BY <1>a, <2>1, <2>4, SweeperStep
<1>3. ASSUME NEW dir, RosterUnreadable(w, dir)
      PROVE  IInv'
  <2>1. Spared([sweep[w] EXCEPT !.unread = @ \ {dir}], steady[w])
    BY <1>3, <1>b DEF RosterUnreadable, Spared, Heard
  <2>2. QED
    BY <1>a, <1>3, <2>1, SweeperStep DEF RosterUnreadable, ProcessesAlone
<1>4. CASE Decide(w)
  <2> DEFINE toClose == ToClose(sweep[w].tracked, sweep[w].live)
             local == [sweep[w] EXCEPT !.phase = "closing", !.tracked = {}, !.todo = toClose]
  <2>1. toClose \cap steady[w] = {}
    BY <1>4, <1>b DEF Decide, Spared, Heard, ToClose
  <2>2. Spared(local, steady[w])
    BY <1>4, <2>1 DEF Decide, Spared
  <2>3. UNCHANGED <<proc, steady>> /\ (Becomes(w, Idle) \/ Becomes(w, local))
    BY <1>4 DEF Decide, ProcessesAlone
  <2> HIDE DEF local
  <2>4. QED
    BY <1>a, <2>2, <2>3, IdleSpared, SweeperStep
<1>5. ASSUME NEW s \in Session, Close(w, s)
      PROVE  IInv'
  <2>1. Spared([sweep[w] EXCEPT !.todo = @ \ {s}], steady[w])
    BY <1>5, <1>b DEF Close, Spared
  <2>2. QED
    BY <1>a, <1>5, <2>1, SweeperStep DEF Close, ProcessesAlone
<1>6. ASSUME NEW s \in Session, Stop(w, s)
      PROVE  IInv'
  <2>1. Spared([sweep[w] EXCEPT !.todo = @ \ {s}], steady[w])
    BY <1>6 DEF Stop, Spared
  <2>2. /\ Becomes(w, [sweep[w] EXCEPT !.todo = @ \ {s}]) /\ UNCHANGED steady
        /\ proc' = [proc EXCEPT ![s].at = IF @ \in {"starting", "running"} THEN "ending" ELSE @]
    BY <1>6 DEF Stop
  <2>3. DOMAIN proc' = Session /\ \A x \in Session : Alive(proc[x]) => Alive(proc'[x])
    BY <1>a, <2>2 DEF Alive
  <2>4. QED
    BY <2>1, <2>2, <2>3, SweeperStep
<1>7. ASSUME NEW s \in Session, StopFails(w, s)
      PROVE  IInv'
  <2>1. Spared([sweep[w] EXCEPT !.todo = @ \ {s}], steady[w])
    BY <1>7 DEF StopFails, Spared
  <2>2. QED
    BY <1>a, <1>7, <2>1, SweeperStep DEF StopFails, ProcessesAlone
<1>8. CASE ReadLeftovers(w)
  <2> DEFINE local == [sweep[w] EXCEPT !.phase = "stopping",
                                       !.todo = ListedIn(sweep[w].live, Leftovers)]
  <2>1. Spared(local, steady[w])
    BY <1>8 DEF ReadLeftovers, Spared
  <2>2. QED
    BY <1>a, <1>8, <2>1, SweeperStep DEF ReadLeftovers, ProcessesAlone
<1>9. CASE CloseFails(w) \/ ReadLeftoversFails(w) \/ Finish(w) \/ Killed(w)
  BY <1>a, <1>9, IdleSpared, SweeperStep
     DEF CloseFails, ReadLeftoversFails, Finish, Killed, ProcessesAlone
<1>10. QED
  BY <1>1, <1>2, <1>3, <1>4, <1>5, <1>6, <1>7, <1>8, <1>9 DEF Sweeping

\* No sweep closes the row of a session whose process was there all along, for
\* any number of sessions, config dirs and concurrent sweeps (reconcile.sweep).
THEOREM SteadySessionsSpared == Spec => []SteadyNotClosed
<1>1. Init => IInv
  BY IdleSpared DEF Init, IInv, Watched
<1>2. IInv /\ [Next]_vars => IInv'
  <2> SUFFICES ASSUME IInv, [Next]_vars PROVE IInv'
    OBVIOUS
  <2>1. ASSUME NEW s \in Session, Process(s) PROVE IInv'
    BY <2>1, ProcessPreserves
  <2>2. ASSUME NEW w \in Sweeper, Sweeping(w) PROVE IInv'
    BY <2>2, SweepingPreserves
  <2>3. CASE LedgerOnly \/ UNCHANGED vars
    <3>1. UNCHANGED <<proc, sweep, steady>>
      BY <2>3 DEF LedgerOnly, vars
    <3>2. QED
      BY <3>1 DEF IInv, Watched, Spared, Heard, Alive
  <2>4. QED
    BY <2>1, <2>2, <2>3 DEF Next
<1>3. IInv => SteadyNotClosed
  BY DEF IInv, Spared, SteadyNotClosed
<1>4. QED
  BY <1>1, <1>2, <1>3, PTL DEF Spec

-----------------------------------------------------------------------------
(***************************************************************************)
(* Every step is a step of Ledger or leaves it alone, and what Ledger keeps *)
(* is kept here: its invariant is cited from LedgerProofs, for no panes.   *)
(***************************************************************************)
LedgerProofs == INSTANCE LedgerProofs WITH Pane <- {}

\* The two instances of Ledger, here and inside LedgerProofs, are one.
LEMMA SameNext == Ledger!Next <=> LedgerProofs!Next
BY DEF Ledger!Next, Ledger!HookEvent, Ledger!Command, Ledger!SessionStart, Ledger!TurnEvent,
       Ledger!SessionEnd, Ledger!DoneReasons, Ledger!Done, Ledger!Reopen, Ledger!LinkSession,
       Ledger!TerminateSession, Ledger!GC, Ledger!GCFails, Ledger!Tick, Ledger!Upserted,
       Ledger!Siblings, Ledger!Ended, Ledger!Logged, Ledger!MarkedDone, Ledger!Tree,
       Ledger!Delegates, Ledger!ClosedUnderDelegation, Ledger!Collectable, Ledger!Aged,
       LedgerProofs!Next, LedgerProofs!HookEvent, LedgerProofs!Command,
       LedgerProofs!SessionStart, LedgerProofs!TurnEvent, LedgerProofs!SessionEnd,
       LedgerProofs!DoneReasons, LedgerProofs!Done, LedgerProofs!Reopen,
       LedgerProofs!LinkSession, LedgerProofs!TerminateSession, LedgerProofs!GC,
       LedgerProofs!GCFails, LedgerProofs!Tick, LedgerProofs!Upserted, LedgerProofs!Siblings,
       LedgerProofs!Ended, LedgerProofs!Logged, LedgerProofs!MarkedDone, LedgerProofs!Tree,
       LedgerProofs!Delegates, LedgerProofs!ClosedUnderDelegation, LedgerProofs!Collectable,
       LedgerProofs!Aged

LEMMA SameTypes == Ledger!TypeOK <=> LedgerProofs!TypeOK
BY DEF Ledger!TypeOK, Ledger!Row, Ledger!Link, Ledger!State,
       LedgerProofs!TypeOK, LedgerProofs!Row, LedgerProofs!Link, LedgerProofs!State

LedgerInv == LedgerProofs!IInv

Locals == [phase : {"idle", "reading", "closing", "stopping"}, tracked : SUBSET Session,
           unread : SUBSET Dir, live : UNION {[D -> SUBSET Session] : D \in SUBSET Dir},
           todo : SUBSET Session]

\* A process that is there, or was, was started as something.
ProcTyped ==
  /\ proc \in [Session -> [at : ProcState, kind : Kind \cup {NULL}]]
  /\ \A s \in Session : proc[s].at # "off" => proc[s].kind \in Kind

SweepTyped ==
  /\ starts \in 0..MaxStart /\ kills \in 0..MaxKill
  /\ sweep \in [Sweeper -> Locals]
  /\ steady \in [Sweeper -> SUBSET Session]

LEMMA LedgerStep ==
  ASSUME ProcTyped, [Next]_vars
  PROVE  Ledger!Next \/ UNCHANGED ledger
<1>1. ASSUME NEW s \in Session, Process(s) PROVE Ledger!Next \/ UNCHANGED ledger
  <2>1. ASSUME NEW kind \in Kind, Start(s, kind) PROVE UNCHANGED ledger
    BY <2>1 DEF Start, ledger
  <2>2. CASE StartHookLost(s) \/ Vanish(s)
    BY <2>2 DEF StartHookLost, Vanish
  <2>3. CASE StartHook(s)
    <3>1. proc[s].kind \in Kind
      BY <2>3 DEF StartHook, Moves, ProcTyped
    <3>2. Ledger!HookEvent(s, NULL, proc[s].kind)
      BY <2>3 DEF StartHook, Ledger!HookEvent
    <3>3. QED
      BY <3>1, <3>2 DEF Ledger!Next
  <2>4. ASSUME NEW state \in TurnState, TurnHook(s, state) \/ LateHook(s, state)
        PROVE  Ledger!Next
    <3>1. proc[s].kind \in Kind
      BY <2>4 DEF TurnHook, LateHook, Moves, ProcTyped
    <3>2. Ledger!HookEvent(s, NULL, proc[s].kind)
      BY <2>4 DEF TurnHook, LateHook, Ledger!HookEvent
    <3>3. QED
      BY <3>1, <3>2 DEF Ledger!Next
  <2>5. ASSUME NEW reason \in Ledger!DoneReasons \cup {"other"}, EndHook(s, reason)
        PROVE  Ledger!Next
    <3>1. proc[s].kind \in Kind
      BY <2>5 DEF EndHook, Moves, ProcTyped
    <3>2. Ledger!HookEvent(s, NULL, proc[s].kind)
      BY <2>5 DEF EndHook, Ledger!HookEvent
    <3>3. QED
      BY <3>1, <3>2 DEF Ledger!Next
  <2>6. QED
    BY <1>1, <2>1, <2>2, <2>3, <2>4, <2>5 DEF Process
<1>2. ASSUME NEW w \in Sweeper, Sweeping(w) PROVE Ledger!Next \/ UNCHANGED ledger
  <2>1. ASSUME NEW s \in Session, Close(w, s) PROVE Ledger!Next
    BY <2>1 DEF Close, Ledger!Next
  <2>2. ASSUME NEW dir, ReadRoster(w, dir) \/ RosterUnreadable(w, dir) PROVE UNCHANGED ledger
    BY <2>2 DEF ReadRoster, RosterUnreadable
  <2>3. ASSUME NEW s, Stop(w, s) \/ StopFails(w, s) PROVE UNCHANGED ledger
    BY <2>3 DEF Stop, StopFails, ledger
  <2>4. CASE \/ ReadLedger(w) \/ Decide(w) \/ CloseFails(w) \/ ReadLeftovers(w)
             \/ ReadLeftoversFails(w) \/ Finish(w) \/ Killed(w)
    BY <2>4 DEF ReadLedger, Decide, CloseFails, ReadLeftovers, ReadLeftoversFails, Finish,
                Killed, ledger
  <2>5. QED
    BY <1>2, <2>1, <2>2, <2>3, <2>4 DEF Sweeping
<1>3. CASE LedgerOnly
  <2>1. ASSUME NEW s \in Session, NEW child \in Linked, Ledger!LinkSession(child, s)
        PROVE  Ledger!Next
    <3>1. Ledger!Command(s)
      BY <2>1, SweepAssumption DEF Ledger!Command
    <3>2. QED
      BY <3>1 DEF Ledger!Next
  <2>2. ASSUME NEW s \in Session,
               Ledger!Done(s) \/ Ledger!Reopen(s) \/ Ledger!GC(s) \/ Ledger!GCFails(s)
        PROVE  Ledger!Next
    BY <2>2 DEF Ledger!Next, Ledger!Command
  <2>3. CASE Ledger!Tick
    BY <2>3 DEF Ledger!Next
  <2>4. QED
    BY <1>3, <2>1, <2>2, <2>3 DEF LedgerOnly
<1>4. CASE UNCHANGED vars
  BY <1>4 DEF vars, ledger
<1>5. QED
  BY <1>1, <1>2, <1>3, <1>4 DEF Next

LEMMA LedgerInvStep ==
  ASSUME LedgerInv, Ledger!Next \/ UNCHANGED ledger
  PROVE  LedgerInv'
<1>1. [LedgerProofs!Next]_(LedgerProofs!vars)
  BY SameNext DEF ledger, LedgerProofs!vars
<1>2. QED
  BY <1>1, LedgerProofs!IInvInductive, SweepAssumption DEF LedgerInv

LEMMA IdleTyped == Idle \in Locals
<1>1. [d \in {} |-> {}] \in [{} -> SUBSET Session]
  OBVIOUS
<1>2. Idle.live \in UNION {[D -> SUBSET Session] : D \in SUBSET Dir}
  BY <1>1 DEF Idle
<1>3. QED
  BY <1>2 DEF Idle, Locals

\* The steps of a process that has been started.
LEMMA MovesTyped ==
  ASSUME ProcTyped, SweepTyped, NEW s \in Session, NEW from, NEW to \in ProcState,
         Moves(s, from, to), "off" \notin from
  PROVE  ProcTyped' /\ SweepTyped'
<1>1. proc[s].kind \in Kind
  BY DEF Moves, ProcTyped
<1>2. ProcTyped'
  BY <1>1 DEF Moves, ProcTyped
<1>3. steady' \in [Sweeper -> SUBSET Session]
  BY DEF Moves, SweepTyped
<1>4. QED
  BY <1>2, <1>3 DEF Moves, SweepTyped

LEMMA ProcessTyped ==
  ASSUME ProcTyped, SweepTyped, NEW s \in Session, Process(s)
  PROVE  ProcTyped' /\ SweepTyped'
<1>1. ASSUME NEW kind \in Kind, Start(s, kind)
      PROVE  ProcTyped' /\ SweepTyped'
  <2>1. ProcTyped'
    BY <1>1 DEF Start, ProcTyped, ProcState
  <2>2. starts' \in 0..MaxStart
    BY <1>1, SweepAssumption DEF Start, SweepTyped
  <2>3. QED
    BY <1>1, <2>1, <2>2 DEF Start, SweepTyped
<1>2. CASE StartHook(s) \/ StartHookLost(s)
  BY <1>2, MovesTyped DEF StartHook, StartHookLost, ProcState
<1>3. ASSUME NEW state, TurnHook(s, state) \/ LateHook(s, state)
      PROVE  ProcTyped' /\ SweepTyped'
  BY <1>3, MovesTyped DEF TurnHook, LateHook, ProcState
<1>4. ASSUME NEW reason, EndHook(s, reason)
      PROVE  ProcTyped' /\ SweepTyped'
  BY <1>4, MovesTyped DEF EndHook, ProcState
<1>5. CASE Vanish(s)
  BY <1>5, MovesTyped DEF Vanish, ProcState
<1>6. QED
  BY <1>1, <1>2, <1>3, <1>4, <1>5 DEF Process

LEMMA BecomesTyped ==
  ASSUME SweepTyped, NEW w \in Sweeper, NEW local \in Locals, Becomes(w, local)
  PROVE  sweep' \in [Sweeper -> Locals]
BY DEF SweepTyped, Becomes

LEMMA SweepingTyped ==
  ASSUME LedgerProofs!TypeOK, ProcTyped, SweepTyped, NEW w \in Sweeper, Sweeping(w)
  PROVE  ProcTyped' /\ SweepTyped'
<1> DEFINE Live == UNION {[D -> SUBSET Session] : D \in SUBSET Dir}
<1>t. /\ sweep[w] \in Locals
      /\ sweep[w].live \in Live
      /\ DOMAIN sessions \subseteq Session
  BY DEF SweepTyped, Locals, LedgerProofs!TypeOK
\* What most steps leave to be shown.
<1>l. ASSUME NEW local \in Locals, Becomes(w, local), ProcessesAlone
      PROVE  ProcTyped' /\ SweepTyped'
  <2>1. sweep' \in [Sweeper -> Locals]
    BY <1>l, BecomesTyped
  <2>2. QED
    BY <1>l, <2>1 DEF ProcessesAlone, ProcTyped, SweepTyped
<1>1. CASE ReadLedger(w)
  <2> DEFINE local == [Idle EXCEPT !.phase = "reading", !.tracked = Tracked,
                                   !.unread = {DirOf[s] : s \in Tracked}]
  <2>1. Tracked \subseteq Session
    BY <1>t DEF Tracked
  <2>2. {DirOf[s] : s \in Tracked} \subseteq Dir
    BY <2>1, SweepAssumption
  <2>3. local \in Locals
    BY <2>1, <2>2, IdleTyped DEF Locals
  <2>4. /\ Becomes(w, local) /\ UNCHANGED <<proc, starts, kills>>
        /\ steady' = [steady EXCEPT ![w] = {s \in Session : Alive(proc[s])}]
    BY <1>1 DEF ReadLedger
  <2>5. sweep' \in [Sweeper -> Locals]
    BY <2>3, <2>4, BecomesTyped
  <2>6. steady' \in [Sweeper -> SUBSET Session]
    BY <2>4 DEF SweepTyped
  <2>7. QED
    BY <2>4, <2>5, <2>6 DEF ProcTyped, SweepTyped
<1>2. ASSUME NEW dir \in Dir, ReadRoster(w, dir)
      PROVE  ProcTyped' /\ SweepTyped'
  <2> DEFINE live == [d \in DOMAIN sweep[w].live \cup {dir} |->
                        IF d = dir THEN Roster(dir) ELSE sweep[w].live[d]]
             local == [sweep[w] EXCEPT !.unread = @ \ {dir}, !.live = live]
  <2>1. PICK D \in SUBSET Dir : sweep[w].live \in [D -> SUBSET Session]
    BY <1>t
  <2>2. live \in [D \cup {dir} -> SUBSET Session]
    BY <2>1 DEF Roster
  <2>3. live \in Live
    BY <2>2
  <2>4. local \in Locals
    <3> HIDE DEF live
    <3>1. QED
      BY <1>t, <2>3 DEF Locals
  <2>5. Becomes(w, local) /\ ProcessesAlone
    BY <1>2 DEF ReadRoster
  <2> HIDE DEF local
  <2>6. QED
    BY <1>l, <2>4, <2>5
<1>3. ASSUME NEW dir, RosterUnreadable(w, dir)
      PROVE  ProcTyped' /\ SweepTyped'
  <2>1. [sweep[w] EXCEPT !.unread = @ \ {dir}] \in Locals
    BY <1>t DEF Locals
  <2>2. QED
    BY <1>3, <1>l, <2>1 DEF RosterUnreadable
<1>4. CASE Decide(w)
  <2> DEFINE toClose == ToClose(sweep[w].tracked, sweep[w].live)
             local == [sweep[w] EXCEPT !.phase = "closing", !.tracked = {}, !.todo = toClose]
  <2>1. toClose \subseteq Session
    BY <1>t DEF ToClose, Locals
  <2>2. local \in Locals
    <3> HIDE DEF toClose
    <3>1. QED
      BY <1>t, <2>1 DEF Locals
  <2>3. ProcessesAlone /\ (Becomes(w, Idle) \/ Becomes(w, local))
    BY <1>4 DEF Decide
  <2> HIDE DEF local
  <2>4. QED
    BY <1>l, <2>2, <2>3, IdleTyped
<1>5. ASSUME NEW s \in Session, Close(w, s) \/ Stop(w, s) \/ StopFails(w, s)
      PROVE  ProcTyped' /\ SweepTyped'
  <2> DEFINE local == [sweep[w] EXCEPT !.todo = @ \ {s}]
  <2>1. local \in Locals
    BY <1>t DEF Locals
  <2>2. CASE Close(w, s) \/ StopFails(w, s)
    BY <1>l, <2>1, <2>2 DEF Close, StopFails
  <2>3. CASE Stop(w, s)
    <3>1. /\ Becomes(w, local) /\ UNCHANGED <<starts, kills, steady>>
          /\ proc' = [proc EXCEPT ![s].at =
                        IF @ \in {"starting", "running"} THEN "ending" ELSE @]
      BY <2>3 DEF Stop
    <3>2. sweep' \in [Sweeper -> Locals]
      BY <2>1, <3>1, BecomesTyped
    <3>3. ProcTyped'
      BY <3>1 DEF ProcTyped, ProcState
    <3>4. QED
      BY <3>1, <3>2, <3>3 DEF SweepTyped
  <2>4. QED
    BY <1>5, <2>2, <2>3
<1>6. CASE ReadLeftovers(w)
  <2> DEFINE todo == ListedIn(sweep[w].live, Leftovers)
  <2>1. todo \subseteq Session
    BY <1>t DEF ListedIn, Leftovers, Tracked
  <2>2. [sweep[w] EXCEPT !.phase = "stopping", !.todo = todo] \in Locals
    <3> HIDE DEF todo
    <3>1. QED
      BY <1>t, <2>1 DEF Locals
  <2>3. QED
    BY <1>6, <1>l, <2>2 DEF ReadLeftovers
<1>7. CASE CloseFails(w) \/ ReadLeftoversFails(w) \/ Finish(w)
  BY <1>7, <1>l, IdleTyped DEF CloseFails, ReadLeftoversFails, Finish
<1>8. CASE Killed(w)
  <2>1. sweep' \in [Sweeper -> Locals]
    BY <1>8, IdleTyped, BecomesTyped DEF Killed
  <2>2. kills' \in 0..MaxKill
    BY <1>8, SweepAssumption DEF Killed, SweepTyped
  <2>3. QED
    BY <1>8, <2>1, <2>2 DEF Killed, ProcTyped, SweepTyped
<1>9. QED
  BY <1>1, <1>2, <1>3, <1>4, <1>5, <1>6, <1>7, <1>8 DEF Sweeping

-----------------------------------------------------------------------------

Inv == LedgerInv /\ ProcTyped /\ SweepTyped

LEMMA InitInv == Init => Inv
<1> SUFFICES ASSUME Init PROVE Inv
  OBVIOUS
<1>1. Ledger!Init
  BY DEF Init
<1>2. LedgerInv
  <2>1. LedgerProofs!TypeOK
    BY <1>1 DEF Ledger!Init, LedgerProofs!TypeOK
  <2>2. LedgerProofs!GoneIffEnded
    BY <1>1 DEF Ledger!Init, LedgerProofs!GoneIffEnded
  <2>3. QED
    BY <2>1, <2>2 DEF LedgerInv, LedgerProofs!IInv
<1>3. ProcTyped
  BY DEF Init, ProcTyped, ProcState
<1>4. SweepTyped
  BY IdleTyped, SweepAssumption DEF Init, SweepTyped
<1>5. QED
  BY <1>1, <1>2, <1>3, <1>4 DEF Inv

LEMMA InvInductive == Inv /\ [Next]_vars => Inv'
<1> SUFFICES ASSUME Inv, [Next]_vars PROVE Inv'
  OBVIOUS
<1>1. LedgerInv'
  BY LedgerStep, LedgerInvStep DEF Inv
<1>2. ProcTyped' /\ SweepTyped'
  <2>1. LedgerProofs!TypeOK
    BY DEF Inv, LedgerInv, LedgerProofs!IInv
  <2>2. ASSUME NEW s \in Session, Process(s) PROVE ProcTyped' /\ SweepTyped'
    BY <2>2, ProcessTyped DEF Inv
  <2>3. ASSUME NEW w \in Sweeper, Sweeping(w) PROVE ProcTyped' /\ SweepTyped'
    BY <2>1, <2>3, SweepingTyped DEF Inv
  <2>4. CASE LedgerOnly \/ UNCHANGED vars
    BY <2>4 DEF LedgerOnly, vars, Inv, ProcTyped, SweepTyped
  <2>5. QED
    BY <2>2, <2>3, <2>4 DEF Next
<1>3. QED
  BY <1>1, <1>2 DEF Inv

\* Whatever processes, sweeps and commands do to each other, the tables hold
\* well-typed rows and a sweep only handles sessions and dirs that are there.
THEOREM SweepTypeCorrect == Spec => []TypeOK
<1>1. Inv => TypeOK
  <2> SUFFICES ASSUME Inv PROVE TypeOK
    OBVIOUS
  <2>1. Ledger!TypeOK
    BY SameTypes DEF Inv, LedgerInv, LedgerProofs!IInv
  <2>2. ASSUME NEW w \in Sweeper
        PROVE  /\ sweep[w].phase \in {"idle", "reading", "closing", "stopping"}
               /\ sweep[w].tracked \subseteq Session
               /\ sweep[w].unread \subseteq Dir
               /\ DOMAIN sweep[w].live \subseteq Dir
               /\ \A d \in DOMAIN sweep[w].live : sweep[w].live[d] \subseteq Session
               /\ sweep[w].todo \subseteq Session
    <3>1. sweep[w] \in Locals
      BY DEF Inv, SweepTyped
    <3>2. PICK D \in SUBSET Dir : sweep[w].live \in [D -> SUBSET Session]
      BY <3>1 DEF Locals
    <3>3. QED
      BY <3>1, <3>2 DEF Locals
  <2>3. QED
    BY <2>1, <2>2 DEF TypeOK, Inv, ProcTyped, SweepTyped
<1>2. QED
  BY <1>1, InitInv, InvInductive, PTL DEF Spec

=============================================================================
