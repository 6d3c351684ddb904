---------------------------- MODULE LedgerProofs ----------------------------
(***************************************************************************)
(* Theorems about Ledger, for every set of sessions, panes and kinds,      *)
(* every assignment of short ids (collisions included) and every clock.    *)
(* Each transaction is a composition of table functions, so each function  *)
(* gets one lemma and the steps only put them together.                    *)
(***************************************************************************)
EXTENDS Ledger, TLAPS

\* A table of well-typed rows, on each of which the two records of the
\* process axis agree: what every table function preserves.
IsTable(t) == DOMAIN t \subseteq Session /\ t \in [DOMAIN t -> Row]

Agrees(r) == r.terminated <=> r.raw_state = "ended"

Sound(t) == IsTable(t) /\ \A s \in DOMAIN t : Agrees(t[s])

\* The strengthening of the type invariant that is inductive.
IInv == TypeOK /\ GoneIffEnded

-----------------------------------------------------------------------------

LEMMA UpsertedSound ==
  ASSUME NEW t, Sound(t), NEW s \in Session,
         NEW pane \in Pane \cup {NULL}, NEW kind \in Kind
  PROVE  /\ Sound(Upserted(t, s, pane, kind))
         /\ s \in DOMAIN Upserted(t, s, pane, kind)
         /\ ~Upserted(t, s, pane, kind)[s].terminated
<1> DEFINE u == Upserted(t, s, pane, kind)
<1>1. DOMAIN u = DOMAIN t \cup {s}
  BY DEF Upserted
<1>2. ASSUME NEW x \in DOMAIN u
      PROVE  u[x] \in Row /\ Agrees(u[x]) /\ (x = s => ~u[x].terminated)
  <2>1. CASE x # s
    BY <1>2, <2>1 DEF Upserted, Sound, IsTable
  <2>2. CASE x = s
    <3>1. u[x] = [tmux_pane  |-> IF pane = NULL /\ s \in DOMAIN t
                                 THEN t[s].tmux_pane ELSE pane,
                  kind       |-> kind,
                  terminated |-> FALSE,
                  done_at    |-> IF s \in DOMAIN t THEN t[s].done_at ELSE NULL,
                  raw_state  |-> "working"]
      BY <2>2 DEF Upserted
    <3>2. s \in DOMAIN t => t[s] \in Row
      BY DEF Sound, IsTable
    <3>3. QED
      BY <3>1, <3>2 DEF Row, State, Agrees
  <2>3. QED
    BY <2>1, <2>2
<1>3. u = [x \in DOMAIN u |-> u[x]]
  BY DEF Upserted
<1>4. IsTable(u)
  BY <1>1, <1>2, <1>3 DEF IsTable, Sound
<1>5. QED
  BY <1>1, <1>2, <1>4 DEF Sound

LEMMA LoggedSound ==
  ASSUME NEW t, Sound(t), NEW s \in DOMAIN t, ~t[s].terminated,
         NEW state \in TurnState \cup {"working"}
  PROVE  Sound(Logged(t, s, state))
<1>1. state # "ended"
  BY LedgerAssumption
<1>2. ASSUME NEW x \in DOMAIN t
      PROVE  Logged(t, s, state)[x] \in Row /\ Agrees(Logged(t, s, state)[x])
  BY <1>1 DEF Logged, Sound, IsTable, Row, State, Agrees
<1>3. QED
  BY <1>2 DEF Sound, IsTable, Logged

LEMMA EndedSound ==
  ASSUME NEW t, Sound(t), NEW S
  PROVE  Sound(Ended(t, S)) /\ DOMAIN Ended(t, S) = DOMAIN t
<1>1. ASSUME NEW x \in DOMAIN t
      PROVE  Ended(t, S)[x] \in Row /\ Agrees(Ended(t, S)[x])
  BY DEF Ended, Sound, IsTable, Row, State, Agrees
<1>2. QED
  BY <1>1 DEF Sound, IsTable, Ended

LEMMA MarkedDoneSound ==
  ASSUME NEW t, Sound(t), NEW roots, now \in Nat
  PROVE  /\ Sound(MarkedDone(t, roots))
         /\ DOMAIN MarkedDone(t, roots) = DOMAIN t
         /\ \A x \in DOMAIN t :
              MarkedDone(t, roots)[x].terminated = t[x].terminated
<1>1. ASSUME NEW x \in DOMAIN t
      PROVE  /\ MarkedDone(t, roots)[x] \in Row
             /\ Agrees(MarkedDone(t, roots)[x])
             /\ MarkedDone(t, roots)[x].terminated = t[x].terminated
  <2>1. t[x] \in Row /\ Agrees(t[x])
    BY DEF Sound, IsTable
  <2>2. \/ MarkedDone(t, roots)[x] = t[x]
        \/ MarkedDone(t, roots)[x] = [t[x] EXCEPT !.done_at = now]
    BY DEF MarkedDone
  <2>3. QED
    BY <2>1, <2>2 DEF Row, Agrees
<1>2. QED
  BY <1>1 DEF Sound, IsTable, MarkedDone

-----------------------------------------------------------------------------

\* No transaction writes an ill-typed row or leaves a row whose terminated_at
\* and latest event disagree.
LEMMA IInvInductive == IInv /\ [Next]_vars => IInv'
<1> SUFFICES ASSUME IInv, [Next]_vars PROVE IInv'
  OBVIOUS
<1>1. Sound(sessions)
  BY DEF IInv, TypeOK, GoneIffEnded, Sound, IsTable, Agrees
<1>2. /\ now \in Nat /\ collecting \subseteq Session
      /\ DOMAIN links \subseteq Short /\ links \in [DOMAIN links -> Link]
  BY DEF IInv, TypeOK
\* What is left of the goal once the new table is known to be sound.
<1>3. ASSUME Sound(sessions'), now' \in Nat, collecting' \subseteq Session,
             DOMAIN links' \subseteq Short, links' \in [DOMAIN links' -> Link]
      PROVE  IInv'
  BY <1>3 DEF IInv, TypeOK, GoneIffEnded, Sound, IsTable, Agrees
<1>4. ASSUME NEW s \in Session, NEW pane \in Pane \cup {NULL}, NEW kind \in Kind,
             NEW source, SessionStart(s, pane, kind, source)
      PROVE  IInv'
  <2> DEFINE u == Upserted(sessions, s, pane, kind)
             displaced == IF pane = NULL THEN {} ELSE Siblings(u, s, pane)
             e == Ended(u, displaced)
             f == IF source = "clear" THEN MarkedDone(e, displaced) ELSE e
  <2>1. Sound(u) /\ s \in DOMAIN u /\ ~u[s].terminated
    BY <1>1, UpsertedSound
  <2>2. s \notin displaced
    BY DEF Siblings
  <2>3. Sound(e) /\ s \in DOMAIN e
    BY <2>1, EndedSound
  <2>4. ~e[s].terminated
    BY <2>1, <2>2 DEF Ended
  <2>5. Sound(f) /\ s \in DOMAIN f /\ ~f[s].terminated
    BY <1>2, <2>3, <2>4, MarkedDoneSound
  <2>6. sessions' = Logged(f, s, "working") /\ UNCHANGED <<links, now, collecting>>
    BY <1>4 DEF SessionStart
  <2>7. Sound(sessions')
    BY <2>5, <2>6, LoggedSound
  <2>8. QED
    BY <1>2, <1>3, <2>6, <2>7
<1>5. ASSUME NEW s \in Session, NEW pane \in Pane \cup {NULL}, NEW kind \in Kind,
             NEW state \in TurnState, TurnEvent(s, pane, kind, state)
      PROVE  IInv'
  <2>1. Sound(sessions')
    BY <1>1, <1>5, UpsertedSound, LoggedSound DEF TurnEvent
  <2>2. QED
    BY <1>2, <1>3, <1>5, <2>1 DEF TurnEvent
<1>6. ASSUME NEW s \in Session, NEW pane \in Pane \cup {NULL}, NEW kind \in Kind,
             NEW reason, SessionEnd(s, pane, kind, reason)
      PROVE  IInv'
  <2> DEFINE e == Ended(Upserted(sessions, s, pane, kind), {s})
  <2>1. Sound(e)
    BY <1>1, UpsertedSound, EndedSound
  <2>2. Sound(MarkedDone(e, {s}))
    BY <1>2, <2>1, MarkedDoneSound
  <2>3. sessions' = e \/ sessions' = MarkedDone(e, {s})
    BY <1>6 DEF SessionEnd
  <2>4. QED
    BY <1>2, <1>3, <1>6, <2>1, <2>2, <2>3 DEF SessionEnd
<1>7. ASSUME NEW s \in Session, GC(s)
      PROVE  IInv'
  <2> DEFINE kept == {x \in DOMAIN sessions : ~Collectable(x)}
  <2>1. sessions' = [x \in kept |-> sessions[x]]
    BY <1>7 DEF GC
  <2>2. Sound(sessions')
    BY <1>1, <2>1 DEF Sound, IsTable
  <2>3. PICK D \in SUBSET DOMAIN links : links' = [c \in D |-> links[c]]
    BY <1>7 DEF GC
  <2>4. DOMAIN links' \subseteq Short /\ links' \in [DOMAIN links' -> Link]
    BY <1>2, <2>3
  <2>5. QED
    BY <1>2, <1>3, <1>7, <2>2, <2>4 DEF GC
<1>8. ASSUME NEW s \in Session, GCFails(s)
      PROVE  IInv'
  BY <1>1, <1>2, <1>3, <1>8 DEF GCFails
<1>9. ASSUME NEW s \in Session, Done(s)
      PROVE  IInv'
  BY <1>1, <1>2, <1>3, <1>9, MarkedDoneSound DEF Done
<1>10. ASSUME NEW s \in Session, Reopen(s)
       PROVE  IInv'
  <2>1. ASSUME NEW x \in DOMAIN sessions
        PROVE  sessions'[x] \in Row /\ Agrees(sessions'[x])
    <3>1. sessions[x] \in Row /\ Agrees(sessions[x])
      BY <1>1 DEF Sound, IsTable
    <3>2. sessions'[x] = sessions[x] \/ sessions'[x] = [sessions[x] EXCEPT !.done_at = NULL]
      BY <1>10 DEF Reopen
    <3>3. QED
      BY <3>1, <3>2 DEF Row, Agrees
  <2>2. Sound(sessions')
    BY <1>1, <1>10, <2>1 DEF Sound, IsTable, Reopen
  <2>3. QED
    BY <1>2, <1>3, <1>10, <2>2 DEF Reopen
<1>11. ASSUME NEW child \in Short, NEW s \in Session, LinkSession(child, s)
       PROVE  IInv'
  BY <1>1, <1>2, <1>3, <1>11 DEF LinkSession, Link
<1>12. ASSUME NEW s \in Session, TerminateSession(s)
       PROVE  IInv'
  BY <1>1, <1>2, <1>3, <1>12, EndedSound DEF TerminateSession
<1>13. CASE Tick
  BY <1>1, <1>2, <1>3, <1>13 DEF Tick
<1>14. CASE UNCHANGED vars
  BY <1>1, <1>2, <1>3, <1>14 DEF vars
<1>15. QED
  BY <1>4, <1>5, <1>6, <1>7, <1>8, <1>9, <1>10, <1>11, <1>12, <1>13, <1>14
     DEF Next, HookEvent, Command

LEMMA IInvHolds == Spec => []IInv
<1>1. Init => IInv
  BY DEF Init, IInv, TypeOK, GoneIffEnded
<1>2. QED
  BY <1>1, IInvInductive, PTL DEF Spec

\* Every reachable ledger is well typed, whatever the order of hooks, sweeps,
\* collections and commands (Dispatch, TerminateSession, GC, MarkDone, Reopen,
\* LinkSession).
THEOREM LedgerTypeCorrect == Spec => []TypeOK
BY IInvHolds, PTL DEF IInv

\* terminated_at and the latest event never disagree (Dispatch,
\* forcedEndSiblings, TerminateSession), for any number of sessions and panes.
THEOREM ProcessAxisRecordedOnce == Spec => []GoneIffEnded
BY IInvHolds, PTL DEF IInv

-----------------------------------------------------------------------------
(***************************************************************************)
(* The work axis.  Seen through done_at, every step but a reopen, a        *)
(* collection and a tick is one shape: t is the table with the sessions    *)
(* heard of inserted, and the cascade from roots is applied to it.  A      *)
(* transaction that declares nothing is the cascade from no roots.         *)
(***************************************************************************)

Cascades(t, heard, roots) ==
  /\ DOMAIN t = DOMAIN sessions \cup heard
  /\ DOMAIN sessions' = DOMAIN t
  /\ \A x \in DOMAIN t :
       /\ t[x].done_at = IF x \in DOMAIN sessions THEN sessions[x].done_at ELSE NULL
       /\ sessions'[x].done_at =
            IF t[x].done_at = NULL /\ x \in Tree(t, roots) THEN now ELSE t[x].done_at
  /\ UNCHANGED now

\* The walk of MarkDone starts at its roots and cannot be left.
LEMMA TreeIsClosed ==
  ASSUME NEW t, NEW roots
  PROVE  /\ roots \subseteq Tree(t, roots)
         /\ Tree(t, roots) \subseteq roots \cup DOMAIN t
         /\ ClosedUnderDelegation(t, Tree(t, roots))
<1>1. roots \subseteq Tree(t, roots) /\ Tree(t, roots) \subseteq roots \cup DOMAIN t
  BY DEF Tree
<1>2. ASSUME NEW x \in Tree(t, roots), NEW c \in Delegates(t, x)
      PROVE  c \in Tree(t, roots)
  <2>1. c \in DOMAIN t
    BY DEF Delegates
  <2>2. ASSUME NEW W \in SUBSET (roots \cup DOMAIN t), roots \subseteq W,
               ClosedUnderDelegation(t, W)
        PROVE  c \in W
    BY <2>2 DEF Tree, ClosedUnderDelegation
  <2>3. QED
    BY <2>1, <2>2 DEF Tree
<1>3. QED
  BY <1>1, <1>2 DEF ClosedUnderDelegation

LEMMA TreeOfNothing ==
  ASSUME NEW t
  PROVE  Tree(t, {}) = {}
<1>1. ClosedUnderDelegation(t, {})
  BY DEF ClosedUnderDelegation
<1>2. \A x \in Tree(t, {}) : x \in {}
  BY <1>1 DEF Tree
<1>3. QED
  BY <1>2

\* done_at through each table function.
LEMMA LoggedDoneAt ==
  ASSUME NEW t, IsTable(t), NEW s, NEW state
  PROVE  /\ DOMAIN Logged(t, s, state) = DOMAIN t
         /\ \A x \in DOMAIN t : Logged(t, s, state)[x].done_at = t[x].done_at
BY DEF Logged, IsTable, Row

LEMMA EndedDoneAt ==
  ASSUME NEW t, IsTable(t), NEW S
  PROVE  /\ DOMAIN Ended(t, S) = DOMAIN t
         /\ \A x \in DOMAIN t : Ended(t, S)[x].done_at = t[x].done_at
BY DEF Ended, IsTable, Row

LEMMA MarkedDoneAt ==
  ASSUME NEW t, IsTable(t), NEW roots
  PROVE  /\ DOMAIN MarkedDone(t, roots) = DOMAIN t
         /\ \A x \in DOMAIN t :
              MarkedDone(t, roots)[x].done_at =
                IF t[x].done_at = NULL /\ x \in Tree(t, roots) THEN now
                ELSE t[x].done_at
BY DEF MarkedDone, IsTable, Row

\* A step that leaves the table's sessions and their done_at as they are
\* declares nothing.
LEMMA QuietStep ==
  ASSUME IsTable(sessions), DOMAIN sessions' = DOMAIN sessions,
         \A x \in DOMAIN sessions : sessions'[x].done_at = sessions[x].done_at,
         UNCHANGED now
  PROVE  Cascades(sessions, {}, {})
<1>1. DOMAIN sessions = DOMAIN sessions \cup {}
  OBVIOUS
<1>2. QED
  BY <1>1, TreeOfNothing DEF Cascades

Heard == {{}} \cup {{s} : s \in Session}

LEMMA StepShape ==
  IInv /\ [Next]_vars =>
    \/ \E heard \in Heard : \E t, roots : Cascades(t, heard, roots)
    \/ \E s \in Session : Reopen(s) \/ GC(s)
    \/ Tick
<1> DEFINE Shape == \/ \E heard \in Heard : \E t, roots : Cascades(t, heard, roots)
                    \/ \E s \in Session : Reopen(s) \/ GC(s)
                    \/ Tick
<1> SUFFICES ASSUME IInv, [Next]_vars PROVE Shape
  OBVIOUS
<1>1. Sound(sessions) /\ IsTable(sessions)
  BY DEF IInv, TypeOK, GoneIffEnded, Sound, IsTable, Agrees
<1>2. now \in Nat
  BY DEF IInv, TypeOK
<1>3. {} \in Heard /\ \A s \in Session : {s} \in Heard
  BY DEF Heard
<1>4. ASSUME NEW s \in Session, NEW pane \in Pane \cup {NULL}, NEW kind \in Kind,
             NEW source, SessionStart(s, pane, kind, source)
      PROVE  Shape
  <2> DEFINE u == Upserted(sessions, s, pane, kind)
             displaced == IF pane = NULL THEN {} ELSE Siblings(u, s, pane)
             e == Ended(u, displaced)
             roots == IF source = "clear" THEN displaced ELSE {}
             f == IF source = "clear" THEN MarkedDone(e, displaced) ELSE e
  <2>1. IsTable(u)
    BY <1>1, UpsertedSound DEF Sound
  <2>2. IsTable(e)
    BY <1>1, UpsertedSound, EndedSound DEF Sound
  <2>3. IsTable(f)
    <3>1. Sound(e)
      BY <1>1, UpsertedSound, EndedSound
    <3>2. QED
      BY <1>2, <2>2, <3>1, MarkedDoneSound DEF Sound
  <2>4. /\ DOMAIN u = DOMAIN sessions \cup {s}
        /\ \A x \in DOMAIN u :
             u[x].done_at = IF x \in DOMAIN sessions THEN sessions[x].done_at ELSE NULL
    BY DEF Upserted
  <2>5. /\ DOMAIN e = DOMAIN u
        /\ \A x \in DOMAIN u : e[x].done_at = u[x].done_at
    BY <2>1, EndedDoneAt
  <2>6. /\ DOMAIN f = DOMAIN e
        /\ \A x \in DOMAIN e :
             f[x].done_at = IF e[x].done_at = NULL /\ x \in Tree(e, roots)
                            THEN now ELSE e[x].done_at
    BY <2>2, MarkedDoneAt, TreeOfNothing
  <2>7. sessions' = Logged(f, s, "working") /\ UNCHANGED now
    BY <1>4 DEF SessionStart
  <2>8. /\ DOMAIN sessions' = DOMAIN f
        /\ \A x \in DOMAIN f : sessions'[x].done_at = f[x].done_at
    BY <2>3, <2>7, LoggedDoneAt
  <2> HIDE DEF u, e, f, roots
  <2>9. Cascades(e, {s}, roots)
    BY <2>4, <2>5, <2>6, <2>7, <2>8 DEF Cascades
  <2>10. QED
    BY <1>3, <2>9
<1>5. ASSUME NEW s \in Session, NEW pane \in Pane \cup {NULL}, NEW kind \in Kind,
             NEW state \in TurnState, TurnEvent(s, pane, kind, state)
      PROVE  Shape
  <2> DEFINE u == Upserted(sessions, s, pane, kind)
  <2>1. IsTable(u)
    BY <1>1, UpsertedSound DEF Sound
  <2>2. /\ DOMAIN u = DOMAIN sessions \cup {s}
        /\ \A x \in DOMAIN u :
             u[x].done_at = IF x \in DOMAIN sessions THEN sessions[x].done_at ELSE NULL
    BY DEF Upserted
  <2>3. sessions' = Logged(u, s, state) /\ UNCHANGED now
    BY <1>5 DEF TurnEvent
  <2>4. /\ DOMAIN sessions' = DOMAIN u
        /\ \A x \in DOMAIN u : sessions'[x].done_at = u[x].done_at
    BY <2>1, <2>3, LoggedDoneAt
  <2> HIDE DEF u
  <2>5. Cascades(u, {s}, {})
    BY <2>2, <2>3, <2>4, TreeOfNothing DEF Cascades
  <2>6. QED
    BY <1>3, <2>5
<1>6. ASSUME NEW s \in Session, NEW pane \in Pane \cup {NULL}, NEW kind \in Kind,
             NEW reason, SessionEnd(s, pane, kind, reason)
      PROVE  Shape
  <2> DEFINE u == Upserted(sessions, s, pane, kind)
             e == Ended(u, {s})
             roots == IF reason \in DoneReasons \/ kind = "print" THEN {s} ELSE {}
  <2>1. IsTable(u) /\ IsTable(e)
    BY <1>1, UpsertedSound, EndedSound DEF Sound
  <2>2. /\ DOMAIN u = DOMAIN sessions \cup {s}
        /\ \A x \in DOMAIN u :
             u[x].done_at = IF x \in DOMAIN sessions THEN sessions[x].done_at ELSE NULL
    BY DEF Upserted
  <2>3. /\ DOMAIN e = DOMAIN u
        /\ \A x \in DOMAIN u : e[x].done_at = u[x].done_at
    BY <2>1, EndedDoneAt
  <2>4. /\ sessions' = IF reason \in DoneReasons \/ kind = "print"
                       THEN MarkedDone(e, {s}) ELSE e
        /\ UNCHANGED now
    BY <1>6 DEF SessionEnd
  <2>5. /\ DOMAIN sessions' = DOMAIN e
        /\ \A x \in DOMAIN e :
             sessions'[x].done_at = IF e[x].done_at = NULL /\ x \in Tree(e, roots)
                                    THEN now ELSE e[x].done_at
    BY <2>1, <2>4, MarkedDoneAt, TreeOfNothing
  <2> HIDE DEF u, e, roots
  <2>6. Cascades(e, {s}, roots)
    BY <2>2, <2>3, <2>4, <2>5 DEF Cascades
  <2>7. QED
    BY <1>3, <2>6
<1>7. ASSUME NEW s \in Session, Done(s)
      PROVE  Shape
  <2>1. sessions' = MarkedDone(sessions, {s}) /\ UNCHANGED now
    BY <1>7 DEF Done
  <2>2. Cascades(sessions, {}, {s})
    BY <1>1, <2>1, MarkedDoneAt DEF Cascades
  <2>3. QED
    BY <1>3, <2>2
<1>8. ASSUME NEW s \in Session, TerminateSession(s)
      PROVE  Shape
  <2>1. sessions' = Ended(sessions, {s}) /\ UNCHANGED now
    BY <1>8 DEF TerminateSession
  <2>2. Cascades(sessions, {}, {})
    BY <1>1, <2>1, EndedDoneAt, QuietStep
  <2>3. QED
    BY <1>3, <2>2
<1>9. ASSUME UNCHANGED <<sessions, now>>
      PROVE  Shape
  BY <1>1, <1>3, <1>9, QuietStep
<1>10. QED
  BY <1>4, <1>5, <1>6, <1>7, <1>8, <1>9
     DEF Next, HookEvent, Command, LinkSession, GCFails, vars

-----------------------------------------------------------------------------

\* Every session that a step declares done takes all it delegated along
\* (MarkDone), for any delegation graph, cycles and shared short ids included.
THEOREM DoneTakesDelegatesAlong == Spec => CascadeComplete
<1> DEFINE Taken(s) == \E W \in SUBSET DOMAIN sessions :
                         /\ s \in W
                         /\ ClosedUnderDelegation(sessions, W)
                         /\ \A x \in W : IsDone(x)'
<1>1. ASSUME IInv, [Next]_vars, NEW s \in Session, IsOpen(s), IsDone(s)'
      PROVE  Taken(s)
  <2>1. now \in Nat /\ now # NULL
    BY <1>1, LedgerAssumption DEF IInv, TypeOK
  <2>2. ASSUME NEW heard, NEW t, NEW roots, Cascades(t, heard, roots)
        PROVE  Taken(s)
    <3> DEFINE W == Tree(t, roots) \cap DOMAIN sessions
    <3>1. s \in W
      BY <1>1, <2>2 DEF Cascades, IsOpen, IsDone
    <3>2. ClosedUnderDelegation(sessions, W)
      BY <2>2, TreeIsClosed DEF Cascades, ClosedUnderDelegation, Delegates
    <3>3. ASSUME NEW x \in W PROVE IsDone(x)'
      BY <2>1, <2>2 DEF Cascades, IsDone
    <3>4. QED
      BY <3>1, <3>2, <3>3
  <2>3. ASSUME NEW r \in Session, Reopen(r) PROVE FALSE
    BY <1>1, <2>3 DEF Reopen, IsOpen, IsDone
  <2>4. ASSUME NEW r \in Session, GC(r) PROVE FALSE
    BY <1>1, <2>4 DEF GC, IsOpen, IsDone
  <2>5. ASSUME Tick PROVE FALSE
    BY <1>1, <2>5 DEF Tick, IsOpen, IsDone
  <2>6. QED
    BY <1>1, <2>2, <2>3, <2>4, <2>5, StepShape
<1>2. IInv /\ [Next]_vars =>
        [\A s \in Session : IsOpen(s) /\ IsDone(s)' => Taken(s)]_vars
  BY <1>1
<1>3. QED
  BY <1>2, IInvHolds, PTL DEF Spec, CascadeComplete

\* Only a reopen takes a done back, and it does nothing else (Reopen; the
\* upsert of a hook event leaves done_at alone).
THEOREM OnlyReopenTakesBack == Spec => ReopenAlone
<1> DEFINE Alone(s) == /\ sessions' = [sessions EXCEPT ![s].done_at = NULL]
                       /\ UNCHANGED <<links, now, collecting>>
<1>1. ASSUME IInv, [Next]_vars, NEW s \in Session, IsDone(s), IsOpen(s)'
      PROVE  Alone(s)
  <2>1. ASSUME NEW heard, NEW t, NEW roots, Cascades(t, heard, roots)
        PROVE  FALSE
    BY <1>1, <2>1 DEF Cascades, IsOpen, IsDone
  <2>2. ASSUME NEW r \in Session, Reopen(r) PROVE Alone(s)
    <3>1. r = s
      BY <1>1, <2>2 DEF Reopen, IsOpen, IsDone
    <3>2. QED
      BY <2>2, <3>1 DEF Reopen
  <2>3. ASSUME NEW r \in Session, GC(r) PROVE FALSE
    BY <1>1, <2>3 DEF GC, IsOpen, IsDone
  <2>4. ASSUME Tick PROVE FALSE
    BY <1>1, <2>4 DEF Tick, IsOpen, IsDone
  <2>5. QED
    BY <1>1, <2>1, <2>2, <2>3, <2>4, StepShape
<1>2. IInv /\ [Next]_vars =>
        [\A s \in Session : IsDone(s) /\ IsOpen(s)' => Alone(s)]_vars
  BY <1>1
<1>3. QED
  BY <1>2, IInvHolds, PTL DEF Spec, ReopenAlone

\* GC never deletes a delegation with an open session at either end.
THEOREM OpenDelegationsStay == Spec => OpenDelegationKept
<1> DEFINE Needed(c) == \/ IsOpen(links[c].parent)
                        \/ \E s \in Session : ShortOf[s] = c /\ IsOpen(s)
<1>1. ASSUME [Next]_vars, NEW c \in DOMAIN links, Needed(c)
      PROVE  c \in DOMAIN links'
  <2>1. ASSUME NEW s \in Session, GC(s)
        PROVE  c \in DOMAIN links'
    <3> DEFINE kept == {x \in DOMAIN sessions : ~Collectable(x)}
               open == {x \in kept : sessions[x].done_at = NULL}
               gone == {d \in DOMAIN links : /\ Aged(links[d].created_at)
                                             /\ links[d].parent \notin open
                                             /\ d \notin {ShortOf[x] : x \in open}}
    <3>1. \A x : IsOpen(x) => x \in open
      BY DEF IsOpen, Collectable
    <3>2. c \notin gone
      BY <1>1, <3>1
    <3>3. links' = [d \in DOMAIN links \ gone |-> links[d]]
      BY <2>1 DEF GC
    <3> HIDE DEF gone
    <3>4. QED
      BY <3>2, <3>3
  <2>2. ASSUME NEW child \in Short, NEW s, LinkSession(child, s)
        PROVE  c \in DOMAIN links'
    BY <2>2 DEF LinkSession
  <2>3. ASSUME UNCHANGED links
        PROVE  c \in DOMAIN links'
    BY <2>3
  <2>4. ASSUME NEW s, NEW pane, NEW kind, HookEvent(s, pane, kind)
        PROVE  UNCHANGED links
    BY <2>4 DEF HookEvent, SessionStart, TurnEvent, SessionEnd
  <2>5. ASSUME NEW s, Done(s) \/ Reopen(s) \/ TerminateSession(s) \/ GCFails(s)
        PROVE  UNCHANGED links
    BY <2>5 DEF Done, Reopen, TerminateSession, GCFails
  <2>6. Tick \/ UNCHANGED vars => UNCHANGED links
    BY DEF Tick, vars
  <2>7. QED
    BY <1>1, <2>1, <2>2, <2>3, <2>4, <2>5, <2>6 DEF Next, Command
<1>2. [Next]_vars => [\A c \in DOMAIN links : Needed(c) => c \in DOMAIN links']_vars
  BY <1>1
<1>3. QED
  BY <1>2, PTL DEF Spec, OpenDelegationKept

-----------------------------------------------------------------------------

\* Each step of the ledger is a step of WorkAxis or leaves it as it is.
LEMMA WorkStep == IInv /\ [Next]_vars => [Work!WNext]_(Work!wvars)
<1> DEFINE work == [s \in DOMAIN sessions |-> sessions[s].done_at]
<1> SUFFICES ASSUME IInv, [Next]_vars PROVE [Work!WNext]_(Work!wvars)
  OBVIOUS
<1>1. now \in Nat /\ now # NULL /\ IsTable(sessions)
  BY LedgerAssumption DEF IInv, TypeOK, IsTable
<1>2. ASSUME NEW heard \in Heard, NEW t, NEW roots, Cascades(t, heard, roots)
      PROVE  Work!WNext
  <2> PICK declared : declared = Tree(t, roots) \cap DOMAIN t
    OBVIOUS
  <2>1. declared \subseteq DOMAIN sessions \cup heard
    BY <1>2 DEF Cascades
  <2>2. work' = [s \in DOMAIN sessions \cup heard |->
                   LET before == IF s \in DOMAIN sessions THEN work[s] ELSE NULL
                   IN  IF before = NULL /\ s \in declared THEN now ELSE before]
    <3>1. DOMAIN sessions' = DOMAIN sessions \cup heard
      BY <1>2 DEF Cascades
    <3>2. \A x \in DOMAIN sessions \cup heard :
            sessions'[x].done_at =
              (LET before == IF x \in DOMAIN sessions THEN work[x] ELSE NULL
               IN  IF before = NULL /\ x \in declared THEN now ELSE before)
      BY <1>2 DEF Cascades
    <3>3. QED
      BY <3>1, <3>2
  <2>3. UNCHANGED now
    BY <1>2 DEF Cascades
  <2>4. Work!HearAndDeclare(heard, declared)
    BY <2>1, <2>2, <2>3 DEF Work!HearAndDeclare, Work!Known
  <2>5. heard = {} \/ \E s \in Session : heard = {s}
    BY DEF Heard
  <2>6. declared \in SUBSET (Work!Known \cup heard)
    BY <2>1 DEF Work!Known
  <2>7. CASE heard = {}
    BY <2>4, <2>6, <2>7 DEF Work!WNext
  <2>8. CASE \E s \in Session : heard = {s}
    BY <2>4, <2>6, <2>8 DEF Work!WNext
  <2>9. QED
    BY <2>5, <2>7, <2>8
<1>3. ASSUME NEW s \in Session, Reopen(s)
      PROVE  Work!WNext
  <2>1. /\ s \in DOMAIN sessions
        /\ sessions[s].done_at # NULL
        /\ sessions' = [sessions EXCEPT ![s].done_at = NULL]
        /\ UNCHANGED now
    BY <1>3 DEF Reopen
  <2>2. sessions[s] \in Row
    BY <1>1, <2>1 DEF IsTable
  <2>3. sessions'[s].done_at = NULL
    BY <2>1, <2>2 DEF Row
  <2>4. work' = [work EXCEPT ![s] = NULL]
    BY <2>1, <2>3
  <2>5. Work!TakeBack(s)
    BY <2>1, <2>4 DEF Work!TakeBack, Work!Known
  <2>6. QED
    BY <2>5 DEF Work!WNext
<1>4. ASSUME NEW s \in Session, GC(s)
      PROVE  Work!WNext
  <2> PICK old : old = {x \in DOMAIN sessions : Collectable(x)}
    OBVIOUS
  <2>1. /\ sessions' = [x \in DOMAIN sessions \ old |-> sessions[x]]
        /\ UNCHANGED now
    BY <1>4 DEF GC
  <2>2. \A x \in old : work[x] # NULL /\ work[x] < now - Retention
    BY DEF Collectable, Aged
  <2>3. work' = [x \in DOMAIN sessions \ old |-> work[x]]
    BY <2>1
  <2>4. old \in SUBSET Work!Known
    BY DEF Work!Known
  <2>5. Work!Forget(old)
    BY <2>1, <2>2, <2>3 DEF Work!Forget, Work!Known
  <2>6. QED
    BY <2>4, <2>5 DEF Work!WNext
<1>5. CASE Tick
  BY <1>5 DEF Tick, Work!WNext, Work!Pass
<1>6. QED
  BY <1>2, <1>3, <1>4, <1>5, StepShape

\* The ledger implements WorkAxis (WorkStep, and both start empty).
THEOREM LedgerImplementsWorkAxis == Spec => WorkAxisImplemented
<1>1. Init => Work!WInit
  BY DEF Init, Work!WInit
<1>2. QED
  BY <1>1, WorkStep, IInvHolds, PTL DEF Spec, WorkAxisImplemented, Work!WSpec

=============================================================================
