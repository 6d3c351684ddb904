--------------------------- MODULE HibernateProofs ---------------------------
(***************************************************************************)
(* Proofs about Hibernate.                                                 *)
(***************************************************************************)
EXTENDS Hibernate, TLAPS

Ages == UNION {[S -> Age] : S \in SUBSET Session}

PassType == [phase : Phase, took : 0..PassLimit, rows : Ages, orphans : SUBSET Session,
             todo : SUBSET Session, same : SUBSET Session, resumed : SUBSET Session,
             at : Session \cup {NULL}]

Typed ==
  /\ open \subseteq Session /\ gone \subseteq Session
  /\ latest \in [Session -> Event]
  /\ proc \in [Session -> ProcState]
  /\ sent \in [Session -> BOOLEAN]
  /\ pass \in PassType
  /\ since \in [turns : SUBSET Session, open : SUBSET Session,
                running : SUBSET Session, asked : SUBSET Session]

\* The pass has chosen: it knows the delegates; it takes the rows one by one.
Counted == {"delegates", "candidates", "listed", "checked"}
Chosen == {"candidates", "listed", "checked"}

\* What p, the pass, has in hand.
Shaped(p) ==
  /\ p.phase \in {"waking", "listed", "checked"} <=> p.at # NULL
  /\ p.todo \subseteq DOMAIN p.rows /\ p.orphans \subseteq DOMAIN p.rows
  /\ p.phase \in {"none", "watch", "waking"} => DOMAIN p.rows = {}
  /\ p.phase \in {"listed", "checked"} =>
       p.at \in DOMAIN p.rows /\ p.at \notin p.todo /\ p.at \notin p.resumed
  /\ \A s \in DOMAIN p.rows : p.rows[s] >= Idle

\* The latest event e of a row is not the one that p judges it by, and never will be:
\* if it is an idle_done, it came after the pass began.
Newer(e, p, s) == ~e.idle \/ (e.age < p.rows[s] /\ e.age <= p.took)

\* The delegator of s was done when the pass read who is open, or has been since.
Orphaned(s) == ParentOf[s] # NULL /\ ParentOf[s] \notin since.open

\* A row that is no longer to be judged: nobody is to answer it, it has not asked (or
\* not so that anybody heard), or it has asked since, in a turn that is not over or that
\* left a newer event.
Judged(s) ==
  \/ Orphaned(s)
  \/ s \notin since.asked
  \/ proc[s] \in {"busy", "ending", "off", "starting"}
  \/ Newer(latest[s], pass, s)

Recalled ==
  /\ since.turns \subseteq DOMAIN pass.rows
  /\ \A s \in since.turns : Newer(latest[s], pass, s)
  /\ \A s \in since.asked : sent[s]
  /\ \A s \in pass.orphans : Orphaned(s)
  /\ pass.phase \in Chosen => \A s \in DOMAIN pass.rows \ pass.todo : Judged(s)
  /\ pass.phase \in Counted =>
       \A s \in DOMAIN pass.rows : Delegates(s) \cap since.running = {}

Inv == Typed /\ Shaped(pass) /\ Recalled

-----------------------------------------------------------------------------

\* A step of a process or a person: the pass keeps what it has in hand.
LEMMA WorldStep ==
  ASSUME Inv, Typed', NEW S, pass' = [pass EXCEPT !.same = S],
         since'.turns \subseteq DOMAIN pass.rows,
         \A x \in since'.turns : Newer(latest'[x], pass, x),
         \A x \in since'.asked : sent'[x],
         since'.open \subseteq since.open, since'.running \subseteq since.running,
         pass.phase \in Chosen =>
           \A x \in DOMAIN pass.rows \ pass.todo :
             \/ Orphaned(x) \/ x \notin since'.asked
             \/ proc'[x] \in {"busy", "ending", "off", "starting"}
             \/ Newer(latest'[x], pass, x)
  PROVE  Inv'
<1>1. /\ pass'.phase = pass.phase /\ pass'.took = pass.took /\ pass'.rows = pass.rows
      /\ pass'.orphans = pass.orphans /\ pass'.todo = pass.todo
      /\ pass'.resumed = pass.resumed /\ pass'.at = pass.at
  BY DEF Inv, Typed, PassType
<1>2. Shaped(pass')
  BY <1>1 DEF Inv, Shaped
<1>3. \A x : Orphaned(x) => Orphaned(x)'
  BY DEF Orphaned
<1>4. \A e, x : Newer(e, pass, x) <=> Newer(e, pass', x)
  BY <1>1 DEF Newer
<1>5. pass.phase \in Chosen => \A x \in DOMAIN pass.rows \ pass.todo : Judged(x)'
  BY <1>3, <1>4 DEF Judged
<1>6. Recalled'
  BY <1>1, <1>3, <1>4, <1>5 DEF Recalled, Inv
<1>7. QED
  BY <1>2, <1>6 DEF Inv

LEMMA MovesTyped ==
  ASSUME Typed, NEW s \in Session, NEW from, NEW to \in ProcState, Moves(s, from, to)
  PROVE  /\ proc' \in [Session -> ProcState]
         /\ pass' \in PassType
         /\ proc[s] \in from
         /\ \A x \in Session : proc'[x] = IF x = s THEN to ELSE proc[x]
         /\ \E S : pass' = [pass EXCEPT !.same = S]
<1>1. pass = [pass EXCEPT !.same = pass.same]
  BY DEF Typed, PassType
<1>2. pass' \in PassType
  BY DEF Moves, Typed, PassType
<1>3. proc' \in [Session -> ProcState] /\ \A x \in Session : proc'[x] = IF x = s THEN to ELSE proc[x]
  BY DEF Moves, Typed
<1>4. QED
  BY <1>1, <1>2, <1>3 DEF Moves

LEMMA EventTyped == IdleDone \in Event /\ Other \in Event
BY HibernateAssumption DEF IdleDone, Other, Event, Age, MaxAge

\* What comes to a row from now on is newer than what it is judged by.
LEMMA NewEvent ==
  ASSUME Inv, NEW s \in DOMAIN pass.rows
  PROVE  Newer(IdleDone, pass, s) /\ Newer(Other, pass, s)
<1>1. pass.rows[s] \in Int /\ pass.took \in Nat
  BY HibernateAssumption DEF Inv, Typed, PassType, Ages, Age, MaxAge
<1>2. QED
  BY <1>1, HibernateAssumption DEF Inv, Shaped, Newer, IdleDone, Other

LEMMA RecordsTyped ==
  ASSUME Typed, NEW s \in Session, NEW event \in Event, Records(s, event)
  PROVE  /\ open' = open /\ gone' \subseteq gone
         /\ latest' \in [Session -> Event]
         /\ latest'[s] = event /\ \A x \in Session \ {s} : latest'[x] = latest[x]
BY DEF Records, Typed

LEMMA RemembersTyped ==
  ASSUME Typed, NEW turns \in SUBSET Session, NEW asked \in SUBSET Session, Remembers(turns, asked)
  PROVE  /\ since' \in [turns : SUBSET Session, open : SUBSET Session,
                        running : SUBSET Session, asked : SUBSET Session]
         /\ since'.turns = turns /\ since'.asked = asked
         /\ since'.open \subseteq since.open /\ since'.running \subseteq since.running
BY DEF Remembers, Typed

-----------------------------------------------------------------------------

LEMMA StartStep ==
  ASSUME Inv, NEW s \in Session, Start(s)
  PROVE  Inv'
<1>1. Moves(s, {"off"}, "starting") /\ UNCHANGED <<open, gone, latest, sent, since>>
  BY DEF Start, ledger
<1>2. /\ proc' \in [Session -> ProcState] /\ pass' \in PassType
      /\ \A x \in Session : proc'[x] = IF x = s THEN "starting" ELSE proc[x]
      /\ \E S : pass' = [pass EXCEPT !.same = S]
  BY <1>1, MovesTyped DEF ProcState, Inv
<1>3. Typed'
  BY <1>1, <1>2 DEF Inv, Typed
<1>4. DOMAIN pass.rows \subseteq Session
  BY DEF Inv, Typed, PassType, Ages
<1>5. QED
  BY <1>1, <1>2, <1>3, <1>4, WorldStep DEF Inv, Recalled, Judged

LEMMA StartHookStep ==
  ASSUME Inv, NEW s \in Session, StartHook(s)
  PROVE  Inv'
<1> DEFINE asked == Asked(s)
<1>a. asked \in SUBSET Session /\ asked \subseteq since.asked
  BY DEF Asked, Inv, Typed
<1>1. /\ Moves(s, {"starting"}, "idle")
      /\ Records(s, Other) \/ UNCHANGED <<open, gone, latest>>
      /\ UNCHANGED sent /\ Remembers(since.turns, asked)
  BY DEF StartHook, ledger
<1>2. /\ proc' \in [Session -> ProcState] /\ pass' \in PassType
      /\ \A x \in Session : proc'[x] = IF x = s THEN "idle" ELSE proc[x]
      /\ \E S : pass' = [pass EXCEPT !.same = S]
  BY <1>1, MovesTyped DEF ProcState, Inv
<1>3. /\ since' \in [turns : SUBSET Session, open : SUBSET Session,
                     running : SUBSET Session, asked : SUBSET Session]
      /\ since'.turns = since.turns /\ since'.asked = asked
      /\ since'.open \subseteq since.open /\ since'.running \subseteq since.running
  BY <1>1, <1>a, RemembersTyped DEF Inv, Typed
<1>4. /\ open' \subseteq Session /\ gone' \subseteq Session
      /\ latest' \in [Session -> Event]
      /\ latest'[s] = Other \/ UNCHANGED ledger
      /\ \A x \in Session \ {s} : latest'[x] = latest[x]
  BY <1>1, RecordsTyped, EventTyped DEF Inv, Typed, ledger
<1>5. Typed'
  BY <1>1, <1>2, <1>3, <1>4 DEF Inv, Typed
<1>6. DOMAIN pass.rows \subseteq Session
  BY DEF Inv, Typed, PassType, Ages
<1>7. pass.phase \in Chosen /\ s \in DOMAIN pass.rows \ pass.todo =>
        Newer(latest'[s], pass, s) \/ s \notin asked
  BY <1>4 DEF Newer, Other, Asked, Unheard, TranscriptRead, Chosen, ledger
<1>8. \A x \in since.turns : Newer(latest'[x], pass, x)
  BY <1>4, <1>6 DEF Inv, Recalled, Newer, Other, ledger
<1> HIDE DEF asked
<1>9. QED
  BY <1>a, <1>1, <1>2, <1>3, <1>4, <1>5, <1>6, <1>7, <1>8, WorldStep DEF Inv, Recalled, Judged

LEMMA PromptStep ==
  ASSUME Inv, NEW s \in Session, Prompt(s)
  PROVE  Inv'
<1>1. /\ Moves(s, {"idle"}, "prompted") /\ UNCHANGED <<open, gone, latest>>
      /\ sent' = [sent EXCEPT ![s] = FALSE]
      /\ Remembers(since.turns, since.asked \ {s})
  BY DEF Prompt, ledger, AfterEntry
<1>2. /\ proc' \in [Session -> ProcState] /\ pass' \in PassType
      /\ \A x \in Session : proc'[x] = IF x = s THEN "prompted" ELSE proc[x]
      /\ \E S : pass' = [pass EXCEPT !.same = S]
  BY <1>1, MovesTyped DEF ProcState, Inv
<1>3. since.turns \in SUBSET Session /\ since.asked \ {s} \in SUBSET Session
  BY DEF Inv, Typed
<1>4. /\ since' \in [turns : SUBSET Session, open : SUBSET Session,
                     running : SUBSET Session, asked : SUBSET Session]
      /\ since'.turns = since.turns /\ since'.asked = since.asked \ {s}
      /\ since'.open \subseteq since.open /\ since'.running \subseteq since.running
  BY <1>3, <1>1, RemembersTyped DEF Inv
<1>5. /\ sent' \in [Session -> BOOLEAN] /\ ~sent'[s]
      /\ \A x \in Session \ {s} : sent'[x] = sent[x]
  BY <1>1 DEF Inv, Typed
<1>6. Typed'
  BY <1>1, <1>2, <1>4, <1>5 DEF Inv, Typed
<1>7. DOMAIN pass.rows \subseteq Session /\ since.asked \subseteq Session
  BY DEF Inv, Typed, PassType, Ages
<1>8. QED
  BY <1>1, <1>2, <1>4, <1>5, <1>6, <1>7, WorldStep DEF Inv, Recalled, Judged

LEMMA PromptHookStep ==
  ASSUME Inv, NEW s \in Session, PromptHook(s)
  PROVE  Inv'
<1>1. /\ Moves(s, {"prompted"}, "busy")
      /\ Records(s, Other) \/ UNCHANGED <<open, gone, latest>>
      /\ UNCHANGED sent /\ Remembers(since.turns, since.asked)
  BY DEF PromptHook, ledger, RemembersSame
<1>2. /\ proc' \in [Session -> ProcState] /\ pass' \in PassType
      /\ \A x \in Session : proc'[x] = IF x = s THEN "busy" ELSE proc[x]
      /\ \E S : pass' = [pass EXCEPT !.same = S]
  BY <1>1, MovesTyped DEF ProcState, Inv
<1>3. /\ since' \in [turns : SUBSET Session, open : SUBSET Session,
                     running : SUBSET Session, asked : SUBSET Session]
      /\ since'.turns = since.turns /\ since'.asked = since.asked
      /\ since'.open \subseteq since.open /\ since'.running \subseteq since.running
  BY <1>1, RemembersTyped DEF Inv, Typed
<1>4. /\ open' = open /\ gone' \subseteq gone
      /\ latest' \in [Session -> Event]
      /\ latest'[s] = Other \/ latest'[s] = latest[s]
      /\ \A x \in Session \ {s} : latest'[x] = latest[x]
  BY <1>1, RecordsTyped, EventTyped DEF Inv, Typed
<1>5. Typed'
  BY <1>1, <1>2, <1>3, <1>4 DEF Inv, Typed
<1>6. DOMAIN pass.rows \subseteq Session
  BY DEF Inv, Typed, PassType, Ages
<1>7. Newer(Other, pass, s)
  BY DEF Newer, Other
<1>8. QED
  BY <1>1, <1>2, <1>3, <1>4, <1>5, <1>6, <1>7, WorldStep DEF Inv, Recalled, Judged

LEMMA WorksStep ==
  ASSUME Inv, NEW s \in Session, NEW entry \in Entry, Works(s, entry)
  PROVE  Inv'
<1> DEFINE asked == IF entry = "SendMessage" THEN since.asked \cup {s} ELSE since.asked
<1>1. /\ Moves(s, {"busy"}, "busy") /\ UNCHANGED <<open, gone, latest>>
      /\ sent' = [sent EXCEPT ![s] = @ \/ entry = "SendMessage"]
      /\ Remembers(since.turns, asked)
  BY DEF Works, ledger, AfterEntry, Entry
<1>2. /\ proc' \in [Session -> ProcState] /\ pass' \in PassType
      /\ \A x \in Session : proc'[x] = IF x = s THEN "busy" ELSE proc[x]
      /\ \E S : pass' = [pass EXCEPT !.same = S]
  BY <1>1, MovesTyped DEF ProcState, Inv
<1>3. since.turns \in SUBSET Session /\ asked \in SUBSET Session
  BY DEF Inv, Typed
<1>4. /\ since' \in [turns : SUBSET Session, open : SUBSET Session,
                     running : SUBSET Session, asked : SUBSET Session]
      /\ since'.turns = since.turns /\ since'.asked = asked
      /\ since'.open \subseteq since.open /\ since'.running \subseteq since.running
  BY <1>3, <1>1, RemembersTyped DEF Inv
<1>5. /\ sent' \in [Session -> BOOLEAN]
      /\ sent'[s] <=> sent[s] \/ entry = "SendMessage"
      /\ \A x \in Session \ {s} : sent'[x] = sent[x]
  BY <1>1 DEF Inv, Typed
<1>6. Typed'
  BY <1>1, <1>2, <1>4, <1>5 DEF Inv, Typed
<1>7. DOMAIN pass.rows \subseteq Session /\ since.asked \subseteq Session
  BY DEF Inv, Typed, PassType, Ages
<1>8. \A x \in asked : sent'[x] /\ (x = s \/ x \in since.asked)
  BY <1>5, <1>7 DEF Inv, Recalled
<1> HIDE DEF asked
<1>9. QED
  BY <1>1, <1>2, <1>4, <1>5, <1>6, <1>7, <1>8, WorldStep DEF Inv, Recalled, Judged

LEMMA StopHookStep ==
  ASSUME Inv, NEW s \in Session, StopHook(s)
  PROVE  Inv'
<1> DEFINE asked == Asked(s)
           turns == IF Unheard(s) THEN since.turns
                    ELSE since.turns \cup ({s} \cap Followed \cap DOMAIN pass.rows)
<1>a. /\ asked \in SUBSET Session /\ asked \subseteq since.asked
      /\ turns \in SUBSET Session
  BY DEF Asked, Inv, Typed
<1>1. /\ Moves(s, {"busy"}, "idle")
      /\ Records(s, IdleDone) \/ UNCHANGED <<open, gone, latest>>
      /\ UNCHANGED sent /\ Remembers(turns, asked)
  BY DEF StopHook, ledger
<1>2. /\ proc' \in [Session -> ProcState] /\ pass' \in PassType
      /\ \A x \in Session : proc'[x] = IF x = s THEN "idle" ELSE proc[x]
      /\ \E S : pass' = [pass EXCEPT !.same = S]
  BY <1>1, MovesTyped DEF ProcState, Inv
<1>3. /\ since' \in [turns : SUBSET Session, open : SUBSET Session,
                     running : SUBSET Session, asked : SUBSET Session]
      /\ since'.turns = turns /\ since'.asked = asked
      /\ since'.open \subseteq since.open /\ since'.running \subseteq since.running
  BY <1>1, <1>a, RemembersTyped DEF Inv, Typed
<1>4. /\ open' \subseteq Session /\ gone' \subseteq Session
      /\ latest' \in [Session -> Event]
      /\ latest'[s] = IdleDone \/ UNCHANGED ledger
      /\ \A x \in Session \ {s} : latest'[x] = latest[x]
  BY <1>1, RecordsTyped, EventTyped DEF Inv, Typed, ledger
<1>5. Typed'
  BY <1>1, <1>2, <1>3, <1>4 DEF Inv, Typed
<1>6. DOMAIN pass.rows \subseteq Session /\ turns \subseteq DOMAIN pass.rows
  BY DEF Inv, Typed, PassType, Ages, Recalled
<1>7. s \in DOMAIN pass.rows => Newer(latest'[s], pass, s) \/ Unheard(s)
  BY <1>4, NewEvent DEF Newer, Unheard, ledger
<1>8. \A x \in turns : Newer(latest'[x], pass, x)
  BY <1>4, <1>6, <1>7 DEF Inv, Recalled, Unheard, ledger
<1>9. pass.phase \in Chosen /\ s \in DOMAIN pass.rows \ pass.todo =>
        Newer(latest'[s], pass, s) \/ s \notin asked
  BY <1>7 DEF Asked, TranscriptRead, Chosen
<1> HIDE DEF turns, asked
<1>10. QED
  BY <1>a, <1>1, <1>2, <1>3, <1>4, <1>5, <1>6, <1>8, <1>9, WorldStep DEF Inv, Recalled, Judged

LEMMA EndHookStep ==
  ASSUME Inv, NEW s \in Session, EndHook(s)
  PROVE  Inv'
<1>1. /\ Moves(s, {"ending"}, "off")
      /\ latest' = [latest EXCEPT ![s] = Other] /\ gone' = gone \cup {s}
      /\ UNCHANGED <<open, sent>> /\ Remembers(since.turns, since.asked)
  BY DEF EndHook, RemembersSame
<1>2. /\ proc' \in [Session -> ProcState] /\ pass' \in PassType
      /\ \A x \in Session : proc'[x] = IF x = s THEN "off" ELSE proc[x]
      /\ \E S : pass' = [pass EXCEPT !.same = S]
  BY <1>1, MovesTyped DEF ProcState, Inv
<1>3. /\ since' \in [turns : SUBSET Session, open : SUBSET Session,
                     running : SUBSET Session, asked : SUBSET Session]
      /\ since'.turns = since.turns /\ since'.asked = since.asked
      /\ since'.open \subseteq since.open /\ since'.running \subseteq since.running
  BY <1>1, RemembersTyped DEF Inv, Typed
<1>4. /\ latest' \in [Session -> Event]
      /\ latest'[s] = Other /\ \A x \in Session \ {s} : latest'[x] = latest[x]
  BY <1>1, EventTyped DEF Inv, Typed
<1>5. Typed'
  BY <1>1, <1>2, <1>3, <1>4 DEF Inv, Typed
<1>6. DOMAIN pass.rows \subseteq Session
  BY DEF Inv, Typed, PassType, Ages
<1>7. Newer(Other, pass, s)
  BY DEF Newer, Other
<1>8. QED
  BY <1>1, <1>2, <1>3, <1>4, <1>5, <1>6, <1>7, WorldStep DEF Inv, Recalled, Judged

LEMMA VanishStep ==
  ASSUME Inv, NEW s \in Session, Vanish(s)
  PROVE  Inv'
<1>1. Moves(s, ProcState \ {"off"}, "off") /\ UNCHANGED <<open, gone, latest, sent, since>>
  BY DEF Vanish, ledger
<1>2. /\ proc' \in [Session -> ProcState] /\ pass' \in PassType
      /\ \A x \in Session : proc'[x] = IF x = s THEN "off" ELSE proc[x]
      /\ \E S : pass' = [pass EXCEPT !.same = S]
  BY <1>1, MovesTyped DEF ProcState, Inv
<1>3. Typed'
  BY <1>1, <1>2 DEF Inv, Typed
<1>4. DOMAIN pass.rows \subseteq Session
  BY DEF Inv, Typed, PassType, Ages
<1>5. QED
  BY <1>1, <1>2, <1>3, <1>4, WorldStep DEF Inv, Recalled, Judged

\* A step that only takes work off the list of open work, or a row off that of the
\* running ones.
LEMMA LedgerStep ==
  ASSUME Inv, UNCHANGED <<proc, sent, pass>>, open' \subseteq Session, gone' \subseteq Session,
         latest' \in [Session -> Event],
         \A x \in Session : latest'[x] \in {latest[x], Other},
         RemembersSame \/ UNCHANGED since
  PROVE  Inv'
<1> DEFINE Kept == /\ since' \in [turns : SUBSET Session, open : SUBSET Session,
                                 running : SUBSET Session, asked : SUBSET Session]
                  /\ since'.turns = since.turns /\ since'.asked = since.asked
                  /\ since'.open \subseteq since.open /\ since'.running \subseteq since.running
<1>1. Kept
  <2>1. since \in [turns : SUBSET Session, open : SUBSET Session,
                   running : SUBSET Session, asked : SUBSET Session]
    BY DEF Inv, Typed
  <2>2. CASE RemembersSame
    BY <2>1, <2>2, RemembersTyped DEF RemembersSame, Inv
  <2>3. CASE UNCHANGED since
    BY <2>1, <2>3
  <2>4. QED
    BY <2>2, <2>3
<1>2. Typed'
  BY <1>1 DEF Inv, Typed
<1>3. DOMAIN pass.rows \subseteq Session
  BY DEF Inv, Typed, PassType, Ages
<1>4. \A x : Newer(Other, pass, x)
  BY DEF Newer, Other
<1>5. pass' = [pass EXCEPT !.same = pass.same]
  BY DEF Inv, Typed, PassType
<1>6. \A x \in DOMAIN pass.rows :
        Newer(latest[x], pass, x) => Newer(latest'[x], pass, x)
  BY <1>3, <1>4
<1>7. \A x \in since.turns : Newer(latest'[x], pass, x)
  BY <1>6 DEF Inv, Recalled
<1>8. pass.phase \in Chosen =>
        \A x \in DOMAIN pass.rows \ pass.todo :
          \/ Orphaned(x) \/ x \notin since.asked
          \/ proc'[x] \in {"busy", "ending", "off", "starting"}
          \/ Newer(latest'[x], pass, x)
  BY <1>6 DEF Inv, Recalled, Judged
<1>9. \A x \in since.asked : sent'[x]
  BY DEF Inv, Recalled
<1>10. QED
  BY <1>1, <1>2, <1>5, <1>7, <1>8, <1>9, WorldStep DEF Inv, Recalled

LEMMA CommandStep ==
  ASSUME Inv, NEW s \in Session, Done(s) \/ Reopen(s) \/ SweepCloses(s)
  PROVE  Inv'
<1>1. CASE Done(s)
  <2>1. open' \subseteq Session
    BY <1>1 DEF Done, Inv, Typed
  <2>2. QED
    BY <1>1, <2>1, LedgerStep DEF Done, Inv, Typed
<1>2. CASE Reopen(s)
  <2>1. open' \subseteq Session
    BY <1>2 DEF Reopen, Inv, Typed
  <2>2. QED
    BY <1>2, <2>1, LedgerStep DEF Reopen, Inv, Typed
<1>3. CASE SweepCloses(s)
  <2>1. /\ latest' \in [Session -> Event] /\ gone' \subseteq Session
        /\ \A x \in Session : latest'[x] \in {latest[x], Other}
    BY <1>3, EventTyped DEF SweepCloses, Inv, Typed
  <2>2. QED
    BY <1>3, <2>1, LedgerStep DEF SweepCloses, Inv, Typed
<1>4. QED
  BY <1>1, <1>2, <1>3

LEMMA TickStep ==
  ASSUME Inv, Tick
  PROVE  Inv'
<1> DEFINE aged == [pass EXCEPT !.took = @ + 1, !.rows = [s \in DOMAIN @ |-> Older(@[s])]]
<1>1. /\ PassLimit \in Nat /\ Idle \in Nat \ {0}
      /\ \A a \in Age : Older(a) \in Age /\ (a < Older(a) \/ a = MaxAge) /\ a <= Older(a) /\ Older(a) <= a + 1
  BY HibernateAssumption DEF Age, MaxAge, Older
<1>2. pass.rows \in [DOMAIN pass.rows -> Age] /\ DOMAIN pass.rows \subseteq Session
  BY DEF Inv, Typed, PassType, Ages
<1>3. /\ latest' \in [Session -> Event]
      /\ \A s \in Session : /\ latest'[s].idle = latest[s].idle
                            /\ latest[s].idle => latest'[s].age = Older(latest[s].age)
                            /\ latest[s].age \in Age
  BY <1>1 DEF Tick, Inv, Typed, Event
<1>4. UNCHANGED <<open, gone, proc, sent, since>>
  BY DEF Tick
<1>5. CASE pass.phase = "none"
  <2>1. UNCHANGED pass /\ DOMAIN pass.rows = {}
    BY <1>5 DEF Tick, Inv, Shaped
  <2>2. Typed'
    BY <1>3, <1>4, <2>1 DEF Inv, Typed
  <2>3. QED
    BY <1>4, <1>5, <2>1, <2>2 DEF Inv, Recalled, Orphaned, Counted, Chosen
<1>6. CASE pass.phase # "none"
  <2>1. pass' = aged /\ pass.took < PassLimit /\ pass.took \in Nat
    BY <1>6 DEF Tick, Inv, Typed, PassType
  <2>2. /\ pass'.phase = pass.phase /\ pass'.took = pass.took + 1
        /\ DOMAIN pass'.rows = DOMAIN pass.rows
        /\ \A s \in DOMAIN pass.rows : pass'.rows[s] = Older(pass.rows[s])
        /\ pass'.orphans = pass.orphans /\ pass'.todo = pass.todo
        /\ pass'.resumed = pass.resumed /\ pass'.at = pass.at
    BY <2>1 DEF Inv, Typed, PassType
  <2>3. pass' \in PassType
    <3>1. pass'.rows \in [DOMAIN pass.rows -> Age]
      BY <1>1, <1>2, <2>1 DEF Inv, Typed, PassType
    <3>2. pass'.took \in 0..PassLimit
      BY <1>1, <2>1, <2>2
    <3>3. pass'.rows \in Ages
      BY <1>2, <3>1 DEF Ages
    <3>4. QED
      BY <2>1, <3>2, <3>3 DEF Inv, Typed, PassType
  <2>4. Typed'
    BY <1>3, <1>4, <2>3 DEF Inv, Typed
  <2>5. Shaped(pass')
    <3>1. \A s \in DOMAIN pass.rows : pass.rows[s] \in Int /\ Older(pass.rows[s]) \in Int
      BY <1>1, <1>2 DEF Age, MaxAge
    <3>2. \A s \in DOMAIN pass'.rows : pass'.rows[s] >= Idle
      BY <1>1, <1>2, <2>2, <3>1 DEF Inv, Shaped
    <3>3. QED
      BY <2>2, <3>2 DEF Inv, Shaped
  <2>6. ASSUME NEW s \in DOMAIN pass.rows, Newer(latest[s], pass, s)
        PROVE  Newer(latest'[s], pass', s)
    <3>1. CASE ~latest[s].idle
      BY <1>2, <1>3, <3>1 DEF Newer
    <3>2. CASE latest[s].idle
      <4>1. /\ latest[s].age \in Age /\ latest[s].age < pass.rows[s] /\ latest[s].age <= pass.took
            /\ latest'[s].age = Older(latest[s].age) /\ pass.rows[s] \in Age
        BY <1>2, <1>3, <2>6, <3>2 DEF Newer
      <4>2. latest'[s].age <= pass'.took
        BY <1>1, <2>1, <2>2, <4>1 DEF Older, Age, MaxAge
      <4>3. latest'[s].age < pass'.rows[s]
        BY <1>1, <2>1, <2>2, <4>1 DEF Older, Age, MaxAge
      <4>4. QED
        BY <4>2, <4>3 DEF Newer
    <3>3. QED
      BY <3>1, <3>2
  <2>7. \A s \in DOMAIN pass.rows : Judged(s) => Judged(s)'
    BY <1>4, <2>6 DEF Judged, Orphaned
  <2>8. Recalled'
    BY <1>4, <2>2, <2>6, <2>7 DEF Inv, Recalled, Orphaned
  <2>9. QED
    BY <2>4, <2>5, <2>8 DEF Inv
<1>7. QED
  BY <1>5, <1>6

-----------------------------------------------------------------------------

\* A step of the pass, which goes on as p.
LEMMA PassStep ==
  ASSUME Inv, NEW p \in PassType, Shaped(p), GoesOn(p), p.took = pass.took,
         UNCHANGED <<open, gone, latest, sent>>, proc' \in [Session -> ProcState],
         since' \in [turns : SUBSET Session, open : SUBSET Session,
                     running : SUBSET Session, asked : SUBSET Session],
         since'.turns \subseteq since.turns \cap DOMAIN pass'.rows,
         since'.asked = since.asked,
         \A x \in since'.turns : p.rows[x] = pass.rows[x],
         \A x \in p.orphans : Orphaned(x)',
         p.phase \in Chosen =>
           \A x \in DOMAIN p.rows \ p.todo :
             \/ Orphaned(x)' \/ x \notin since.asked
             \/ proc'[x] \in {"busy", "ending", "off", "starting"}
             \/ Newer(latest[x], p, x),
         p.phase \in Counted =>
           \A x \in DOMAIN p.rows : Delegates(x) \cap since'.running = {}
  PROVE  Inv'
<1>1. CASE DOMAIN p.rows = {}
  <2>1. pass' = NoPass
    BY <1>1 DEF GoesOn
  <2>2. DOMAIN NoPass.rows = {} /\ NoPass.rows \in [{} -> Age]
    BY DEF NoPass
  <2>3. NoPass \in PassType
    <3>1. NoPass.rows \in Ages
      BY <2>2 DEF Ages
    <3>2. "none" \in Phase /\ 0 \in 0..PassLimit
      BY HibernateAssumption DEF Phase
    <3>3. QED
      BY <3>1, <3>2 DEF NoPass, PassType
  <2>4. Typed'
    BY <2>1, <2>3 DEF Inv, Typed
  <2>5. Shaped(pass')
    BY <2>1, <2>2 DEF Shaped, NoPass
  <2>6. Recalled'
    BY <2>1, <2>2 DEF Recalled, NoPass, Inv, Chosen, Counted
  <2>7. QED
    BY <2>4, <2>5, <2>6 DEF Inv
<1>2. CASE DOMAIN p.rows # {}
  <2>1. pass' = [p EXCEPT !.resumed = @ \cap DOMAIN p.rows]
    BY <1>2 DEF GoesOn
  <2>2. /\ pass'.phase = p.phase /\ pass'.took = p.took /\ pass'.rows = p.rows
        /\ pass'.orphans = p.orphans /\ pass'.todo = p.todo
        /\ pass'.resumed \subseteq p.resumed /\ pass'.at = p.at
        /\ pass' \in PassType
    BY <2>1 DEF PassType
  <2>3. Typed'
    BY <2>2 DEF Inv, Typed
  <2>4. Shaped(pass')
    BY <2>2 DEF Shaped
  <2>5. \A x \in since'.turns : Newer(latest'[x], pass', x)
    BY <2>2 DEF Inv, Recalled, Newer
  <2>6. pass'.phase \in Chosen => \A x \in DOMAIN pass'.rows \ pass'.todo : Judged(x)'
    BY <2>2 DEF Judged, Newer
  <2>7. Recalled'
    BY <2>2, <2>5, <2>6 DEF Inv, Recalled
  <2>8. QED
    BY <2>3, <2>4, <2>7 DEF Inv
<1>3. QED
  BY <1>1, <1>2

LEMMA RowsRemembered ==
  ASSUME Typed, NEW asOpen \in SUBSET Session, NEW asRunning \in SUBSET Session,
         RemembersRows(asOpen, asRunning)
  PROVE  /\ since' \in [turns : SUBSET Session, open : SUBSET Session,
                        running : SUBSET Session, asked : SUBSET Session]
         /\ since'.turns = since.turns \cap DOMAIN pass'.rows
         /\ since'.open \subseteq asOpen /\ since'.running \subseteq asRunning
         /\ since'.asked = since.asked
BY DEF RemembersRows, Typed

\* What is left of a pass.
LEMMA KeepShaped ==
  ASSUME NEW p \in PassType, Shaped(p), p.at = NULL, NEW S
  PROVE  /\ Keep(p, S) \in PassType /\ Shaped(Keep(p, S))
         /\ Keep(p, S).phase = p.phase /\ Keep(p, S).took = p.took /\ Keep(p, S).at = p.at
         /\ Keep(p, S).resumed = p.resumed
         /\ DOMAIN Keep(p, S).rows = DOMAIN p.rows \cap S
         /\ \A x \in DOMAIN p.rows \cap S : Keep(p, S).rows[x] = p.rows[x]
         /\ Keep(p, S).orphans = p.orphans \cap S /\ Keep(p, S).todo = p.todo \cap S
<1> DEFINE rows == [s \in DOMAIN p.rows \cap S |-> p.rows[s]]
<1>1. DOMAIN p.rows \subseteq Session /\ p.rows \in [DOMAIN p.rows -> Age]
  BY DEF PassType, Ages
<1>2. rows \in [DOMAIN p.rows \cap S -> Age] /\ DOMAIN p.rows \cap S \in SUBSET Session
  BY <1>1
<1>3. rows \in Ages
  BY <1>2 DEF Ages
<1>4. Keep(p, S) = [p EXCEPT !.rows = rows, !.orphans = @ \cap S,
                             !.todo = @ \cap S, !.same = @ \cap S]
  BY DEF Keep
<1>5. DOMAIN rows = DOMAIN p.rows \cap S /\ \A x \in DOMAIN p.rows \cap S : rows[x] = p.rows[x]
  OBVIOUS
<1> HIDE DEF rows
<1>6. Keep(p, S) \in PassType
  BY <1>3, <1>4 DEF PassType
<1>7. /\ Keep(p, S).phase = p.phase /\ Keep(p, S).took = p.took /\ Keep(p, S).at = p.at
      /\ Keep(p, S).resumed = p.resumed /\ Keep(p, S).rows = rows
      /\ Keep(p, S).orphans = p.orphans \cap S /\ Keep(p, S).todo = p.todo \cap S
  BY <1>4 DEF PassType
<1>8. Shaped(Keep(p, S))
  BY <1>5, <1>7 DEF Shaped
<1>9. QED
  BY <1>5, <1>6, <1>7, <1>8

LEMMA WakeStep ==
  ASSUME Inv, NEW s \in Session, WakeStops(s) \/ WakeLaunches(s) \/ WakeFails
  PROVE  Inv'
<1> DEFINE to == IF pass'.phase = "waking" THEN s ELSE NULL
<1>1. /\ UNCHANGED <<open, gone, latest, sent, since>>
      /\ proc' \in [Session -> ProcState]
      /\ pass.phase \in {"none", "watch", "waking"}
      /\ pass'.phase \in {"watch", "waking"} /\ pass'.took = pass.took
      /\ pass'.rows = pass.rows /\ pass'.orphans = pass.orphans /\ pass'.todo = pass.todo
      /\ pass'.at = to /\ pass' \in PassType
  <2>1. "watch" \in Phase /\ "waking" \in Phase /\ "starting" \in ProcState /\ "ending" \in ProcState
    BY DEF Phase, ProcState
  <2>2. CASE WakeStops(s)
    BY <2>1, <2>2 DEF WakeStops, Watching, ledger, Inv, Typed, PassType
  <2>3. CASE WakeLaunches(s)
    BY <2>1, <2>3 DEF WakeLaunches, Watching, ledger, Inv, Typed, PassType
  <2>4. CASE WakeFails
    BY <2>1, <2>4 DEF WakeFails, World, Inv, Typed, PassType
  <2>5. QED
    BY <2>2, <2>3, <2>4
<1>2. DOMAIN pass.rows = {}
  BY <1>1 DEF Inv, Shaped
<1>3. Typed'
  BY <1>1 DEF Inv, Typed
<1>4. Shaped(pass')
  BY <1>1, <1>2, HibernateAssumption DEF Inv, Shaped
<1>5. Recalled'
  BY <1>1, <1>2 DEF Inv, Recalled, Shaped, Chosen, Counted
<1>6. QED
  BY <1>3, <1>4, <1>5 DEF Inv

LEMMA ReadRowsStep ==
  ASSUME Inv, ReadRows
  PROVE  Inv'
<1> DEFINE S == {x \in Running : latest[x].idle /\ latest[x].age >= Idle}
           rows == [x \in S |-> latest[x].age]
           p == [pass EXCEPT !.phase = "rows", !.rows = rows]
<1>1. /\ GoesOn(p) /\ UNCHANGED <<open, gone, latest, proc, sent, since>>
      /\ pass.phase \in {"none", "watch"}
  BY DEF ReadRows, Watching, World
<1>2. S \subseteq Session /\ rows \in [S -> Age] /\ \A x \in S : rows[x] >= Idle
  BY DEF Inv, Typed, Running, Event
<1>3. rows \in Ages /\ DOMAIN rows = S
  BY <1>2 DEF Ages
<1> HIDE DEF S, rows
<1>4. /\ p \in PassType /\ p.phase = "rows" /\ p.took = pass.took /\ p.rows = rows
      /\ p.at = pass.at /\ p.orphans = pass.orphans /\ p.todo = pass.todo
  BY <1>3 DEF Inv, Typed, PassType, Phase
<1>5. /\ DOMAIN pass.rows = {} /\ pass.orphans = {} /\ pass.todo = {} /\ pass.at = NULL
      /\ since.turns = {}
  BY <1>1 DEF Inv, Shaped, Recalled
<1>6. Shaped(p)
  BY <1>2, <1>3, <1>4, <1>5 DEF Shaped
<1> HIDE DEF p
<1>7. QED
  BY <1>1, <1>4, <1>5, <1>6, PassStep DEF Inv, Typed, Chosen, Counted

LEMMA ReadOpenStep ==
  ASSUME Inv, ReadOpen
  PROVE  Inv'
<1>1. /\ UNCHANGED <<open, gone, latest, proc, sent>> /\ pass.phase = "rows"
      /\ pass' = [pass EXCEPT !.phase = "open", !.orphans = {s \in DOMAIN pass.rows : Orphan(s)}]
      /\ RemembersRows(open, {})
  BY DEF ReadOpen, World
<1>2. DOMAIN pass.rows \subseteq Session
  BY DEF Inv, Typed, PassType, Ages
<1>3. /\ pass' \in PassType /\ pass'.phase = "open" /\ pass'.took = pass.took
      /\ pass'.rows = pass.rows /\ pass'.at = pass.at /\ pass'.todo = pass.todo
      /\ pass'.orphans = {s \in DOMAIN pass.rows : Orphan(s)}
  BY <1>1, <1>2 DEF Inv, Typed, PassType, Phase
<1>4. /\ since' \in [turns : SUBSET Session, open : SUBSET Session,
                     running : SUBSET Session, asked : SUBSET Session]
      /\ since'.turns = since.turns \cap DOMAIN pass'.rows
      /\ since'.open \subseteq open /\ since'.asked = since.asked
  BY <1>1, RowsRemembered DEF Inv, Typed
<1>5. Typed'
  BY <1>1, <1>3, <1>4 DEF Inv, Typed
<1>6. Shaped(pass')
  BY <1>1, <1>3 DEF Inv, Shaped
<1>7. Recalled'
  BY <1>1, <1>3, <1>4 DEF Inv, Recalled, Orphaned, Orphan, Newer, Chosen, Counted
<1>8. QED
  BY <1>5, <1>6, <1>7 DEF Inv

LEMMA ReadDelegatesStep ==
  ASSUME Inv, ReadDelegates
  PROVE  Inv'
<1> DEFINE q == [pass EXCEPT !.phase = "delegates"]
           S == {s \in Session : ~HeldByDelegate(s)}
           p == Keep(q, S)
<1>1. /\ UNCHANGED <<open, gone, latest, proc, sent>> /\ pass.phase = "open"
      /\ GoesOn(p) /\ RemembersRows(since.open, Running)
  BY DEF ReadDelegates, World
<1>2. /\ q \in PassType /\ q.phase = "delegates" /\ q.took = pass.took /\ q.rows = pass.rows
      /\ q.at = pass.at /\ q.orphans = pass.orphans /\ q.todo = pass.todo
  BY DEF Inv, Typed, PassType, Phase
<1>3. Shaped(q) /\ q.at = NULL
  BY <1>1, <1>2 DEF Inv, Shaped
<1> HIDE DEF q, S
<1>4. /\ p \in PassType /\ Shaped(p) /\ p.phase = "delegates" /\ p.took = pass.took
      /\ \A x \in DOMAIN p.rows : x \in S /\ x \in DOMAIN pass.rows /\ p.rows[x] = pass.rows[x]
      /\ p.orphans \subseteq pass.orphans
  BY <1>2, <1>3, KeepShaped
<1>5. since.open \in SUBSET Session /\ Running \in SUBSET Session /\ Typed
  BY DEF Inv, Typed, Running
<1>6. /\ since' \in [turns : SUBSET Session, open : SUBSET Session,
                     running : SUBSET Session, asked : SUBSET Session]
      /\ since'.turns = since.turns \cap DOMAIN pass'.rows
      /\ since'.open \subseteq since.open /\ since'.running \subseteq Running
      /\ since'.asked = since.asked
  BY <1>5, <1>1, RowsRemembered
<1> HIDE DEF p
<1>7. \A x \in DOMAIN p.rows : Delegates(x) \cap since'.running = {}
  BY <1>4, <1>6 DEF S, HeldByDelegate
<1>8. DOMAIN pass'.rows \subseteq DOMAIN p.rows
  BY <1>1, <1>4 DEF GoesOn, NoPass, PassType
<1>9. \A x \in p.orphans : Orphaned(x)'
  BY <1>4, <1>6 DEF Inv, Recalled, Orphaned
<1>10. QED
  BY <1>1, <1>4, <1>6, <1>7, <1>8, <1>9, PassStep DEF Inv, Typed, Chosen

LEMMA ReadRosterStep ==
  ASSUME Inv, ReadRoster
  PROVE  Inv'
<1>1. PICK idle \in Listings :
        GoesOn([Keep(pass, idle) EXCEPT
                  !.phase = "candidates", !.orphans = {},
                  !.todo = (DOMAIN pass.rows \cap idle) \ pass.orphans,
                  !.same = {s \in DOMAIN pass.rows \cap idle : KindOf[s] = "interactive"}])
  BY DEF ReadRoster
<1> DEFINE q == Keep(pass, idle)
           rows == DOMAIN pass.rows \cap idle
           p == [q EXCEPT !.phase = "candidates", !.orphans = {},
                          !.todo = rows \ pass.orphans,
                          !.same = {s \in rows : KindOf[s] = "interactive"}]
<1>2. /\ UNCHANGED <<open, gone, latest, proc, sent>> /\ pass.phase = "delegates"
      /\ GoesOn(p) /\ RemembersRows(since.open, since.running)
  BY <1>1 DEF ReadRoster, World
<1>3. pass \in PassType /\ pass.at = NULL /\ Shaped(pass) /\ rows \subseteq Session
  BY <1>2 DEF Inv, Typed, Shaped, PassType, Ages
<1>4. /\ q \in PassType /\ Shaped(q) /\ q.took = pass.took /\ q.at = NULL
      /\ DOMAIN q.rows = rows /\ \A x \in rows : q.rows[x] = pass.rows[x]
  BY <1>3, KeepShaped
<1> HIDE DEF q, rows
<1>5. /\ p \in PassType /\ p.phase = "candidates" /\ p.took = pass.took /\ p.at = NULL
      /\ p.rows = q.rows /\ p.orphans = {} /\ p.todo = rows \ pass.orphans
  BY <1>3, <1>4 DEF PassType, Phase
<1>6. Shaped(p)
  BY <1>4, <1>5 DEF Shaped
<1>7. /\ since' \in [turns : SUBSET Session, open : SUBSET Session,
                     running : SUBSET Session, asked : SUBSET Session]
      /\ since'.turns = since.turns \cap DOMAIN pass'.rows
      /\ since'.open \subseteq since.open /\ since'.running \subseteq since.running
      /\ since'.asked = since.asked
  BY <1>2, RowsRemembered DEF Inv, Typed
<1> HIDE DEF p
<1>8. DOMAIN pass'.rows \subseteq DOMAIN p.rows
  BY <1>2, <1>5 DEF GoesOn, NoPass, PassType
<1>9. \A x \in DOMAIN p.rows \ p.todo : Orphaned(x)'
  BY <1>4, <1>5, <1>7 DEF Inv, Recalled, Orphaned
<1>10. \A x \in DOMAIN p.rows : Delegates(x) \cap since'.running = {}
  BY <1>2, <1>4, <1>5, <1>7 DEF Inv, Recalled, Counted, rows
<1>11. QED
  BY <1>2, <1>4, <1>5, <1>6, <1>7, <1>8, <1>9, <1>10, PassStep DEF Inv, Typed

\* Without s, the pass goes on to the next.
LEMMA WithoutStep ==
  ASSUME Inv, NEW s \in Session, Without(s), UNCHANGED <<open, gone, latest, sent>>,
         proc' \in [Session -> ProcState],
         \A x \in Session \ {s} : proc'[x] = proc[x],
         pass.phase \in Chosen
  PROVE  Inv'
<1> DEFINE q == [pass EXCEPT !.phase = "candidates", !.at = NULL]
           p == Keep(q, Session \ {s})
<1>1. /\ q \in PassType /\ q.phase = "candidates" /\ q.took = pass.took /\ q.rows = pass.rows
      /\ q.at = NULL /\ q.orphans = pass.orphans /\ q.todo = pass.todo
  BY DEF Inv, Typed, PassType, Phase
<1>2. Shaped(q)
  BY <1>1 DEF Inv, Shaped
<1>3. GoesOn(p) /\ RemembersRows(since.open, since.running)
  BY DEF Without
<1> HIDE DEF q
<1>4. /\ p \in PassType /\ Shaped(p) /\ p.phase = "candidates" /\ p.took = pass.took
      /\ \A x \in DOMAIN p.rows : x # s /\ x \in DOMAIN pass.rows /\ p.rows[x] = pass.rows[x]
      /\ \A x \in DOMAIN p.rows : x \in p.todo <=> x \in pass.todo
      /\ p.orphans \subseteq pass.orphans
  BY <1>1, <1>2, KeepShaped
<1> HIDE DEF p
<1>5. /\ since' \in [turns : SUBSET Session, open : SUBSET Session,
                     running : SUBSET Session, asked : SUBSET Session]
      /\ since'.turns = since.turns \cap DOMAIN pass'.rows
      /\ since'.open \subseteq since.open /\ since'.running \subseteq since.running
      /\ since'.asked = since.asked
  BY <1>3, RowsRemembered DEF Inv, Typed
<1>6. DOMAIN pass'.rows \subseteq DOMAIN p.rows
  BY <1>3, <1>4 DEF GoesOn, NoPass, PassType
<1>7. \A x \in p.orphans : Orphaned(x)'
  BY <1>4, <1>5 DEF Inv, Recalled, Orphaned
<1>8. \A x \in DOMAIN p.rows : Delegates(x) \cap since'.running = {}
  BY <1>4, <1>5 DEF Inv, Recalled, Counted, Chosen
<1>9. ASSUME NEW x \in DOMAIN p.rows \ p.todo
      PROVE  \/ Orphaned(x)' \/ x \notin since.asked
             \/ proc'[x] \in {"busy", "ending", "off", "starting"}
             \/ Newer(latest[x], p, x)
  <2>1. Judged(x) /\ x \in Session \ {s} /\ p.rows[x] = pass.rows[x]
    BY <1>4, <1>9 DEF Inv, Recalled, Typed, PassType, Ages
  <2>2. Orphaned(x) => Orphaned(x)'
    BY <1>5 DEF Orphaned
  <2>3. Newer(latest[x], pass, x) => Newer(latest[x], p, x)
    BY <1>4, <2>1 DEF Newer
  <2>4. QED
    BY <2>1, <2>2, <2>3 DEF Judged
<1>10. QED
  BY <1>3, <1>4, <1>5, <1>6, <1>7, <1>8, <1>9, PassStep

\* The pass goes on with all that it has.
LEMMA OnStep ==
  ASSUME Inv, UNCHANGED <<open, gone, latest, proc, sent, since>>,
         NEW phase \in Chosen, NEW at \in Session \cup {NULL}, NEW todo \in SUBSET pass.todo,
         pass' = [pass EXCEPT !.phase = phase, !.at = at, !.todo = todo],
         pass.phase \in Chosen,
         Shaped(pass'),
         \A x \in pass.todo \ todo : ~sent[x]
  PROVE  Inv'
<1>1. /\ pass' \in PassType /\ pass'.phase = phase /\ pass'.took = pass.took
      /\ pass'.rows = pass.rows /\ pass'.orphans = pass.orphans /\ pass'.todo = todo
  BY DEF Inv, Typed, PassType, Phase, Chosen
<1>2. Typed'
  BY <1>1 DEF Inv, Typed
<1>3. \A x \in DOMAIN pass.rows \ todo : Judged(x)'
  BY <1>1 DEF Inv, Recalled, Judged, Newer, Orphaned
<1>4. Recalled'
  BY <1>1, <1>3 DEF Inv, Recalled, Newer, Orphaned, Counted, Chosen
<1>5. QED
  BY <1>2, <1>4 DEF Inv

LEMMA ActStep ==
  ASSUME Inv, NEW s \in Session, Act(s)
  PROVE  Inv'
<1>1. pass \in PassType /\ proc \in [Session -> ProcState] /\ pass.todo \subseteq Session
  BY DEF Inv, Typed, PassType
<1>2. CASE Judge(s)
  <2>1. /\ UNCHANGED <<open, gone, latest, proc, sent>>
        /\ pass.phase = "candidates" /\ s \in pass.todo /\ pass.at = NULL
    BY <1>2 DEF Judge, World, Inv, Shaped
  <2>2. CASE ~sent[s] /\ pass' = [pass EXCEPT !.todo = @ \ {s}] /\ UNCHANGED since
    <3>1. pass' = [pass EXCEPT !.phase = "candidates", !.at = NULL, !.todo = pass.todo \ {s}]
      BY <1>1, <2>1, <2>2 DEF PassType
    <3>2. Shaped(pass')
      BY <1>1, <2>1, <3>1 DEF Inv, Shaped, PassType
    <3>3. \A x \in pass.todo \ (pass.todo \ {s}) : ~sent[x]
      BY <2>2
    <3>4. pass.todo \ {s} \in SUBSET pass.todo /\ NULL \in Session \cup {NULL}
      OBVIOUS
    <3>5. QED
      BY <2>1, <2>2, <3>1, <3>2, <3>3, <3>4, OnStep DEF Chosen
  <2>3. CASE Without(s)
    BY <1>1, <2>1, <2>3, WithoutStep DEF Chosen
  <2>4. QED
    BY <1>2, <2>2, <2>3 DEF Judge
<1>3. CASE Spare(s)
  BY <1>1, <1>3, WithoutStep DEF Spare, Comes, World, Chosen
<1>4. CASE CheckListed(s)
  <2>1. /\ UNCHANGED <<open, gone, latest, proc, sent>> /\ pass.phase = "candidates"
        /\ pass.todo = {} /\ s \in DOMAIN pass.rows /\ s \notin pass.resumed
    BY <1>4 DEF CheckListed, Comes, Spared, World
  <2>2. CASE pass' = [pass EXCEPT !.phase = "listed", !.at = s] /\ UNCHANGED since
    <3>1. pass' = [pass EXCEPT !.phase = "listed", !.at = s, !.todo = pass.todo]
      BY <1>1, <2>2 DEF PassType
    <3>2. Shaped(pass')
      BY <1>1, <2>1, <3>1, HibernateAssumption DEF Inv, Shaped, PassType
    <3>3. QED
      BY <2>1, <2>2, <3>1, <3>2, OnStep DEF Chosen
  <2>3. CASE Without(s)
    BY <1>1, <2>1, <2>3, WithoutStep DEF Chosen
  <2>4. QED
    BY <1>4, <2>2, <2>3 DEF CheckListed
<1>5. CASE CheckEvent(s)
  <2>1. /\ UNCHANGED <<open, gone, latest, proc, sent, since>> /\ pass.phase = "listed"
        /\ s = pass.at /\ pass' = [pass EXCEPT !.phase = "checked", !.at = s, !.todo = pass.todo]
    BY <1>1, <1>5 DEF CheckEvent, World, PassType
  <2>2. Shaped(pass')
    BY <1>1, <2>1 DEF Inv, Shaped, PassType
  <2>3. QED
    BY <2>1, <2>2, OnStep DEF Chosen
<1>6. CASE CheckEventFails(s)
  BY <1>1, <1>6, WithoutStep DEF CheckEventFails, World, Chosen
<1>7. CASE Stops(s)
  <2>1. "ending" \in ProcState
    BY DEF ProcState
  <2>2. /\ proc' \in [Session -> ProcState] /\ \A x \in Session \ {s} : proc'[x] = proc[x]
        /\ Without(s) /\ UNCHANGED <<open, gone, latest, sent>> /\ pass.phase = "checked"
    BY <1>1, <1>7, <2>1 DEF Stops, StopsBackground, EndsInteractive, ledger
  <2>3. QED
    BY <2>2, WithoutStep DEF Chosen
<1>8. CASE Skip(s)
  BY <1>1, <1>8, WithoutStep DEF Skip, World, Chosen
<1>9. QED
  BY <1>2, <1>3, <1>4, <1>5, <1>6, <1>7, <1>8 DEF Act

-----------------------------------------------------------------------------

LEMMA InitInv == Init => Inv
<1> SUFFICES ASSUME Init PROVE Inv
  OBVIOUS
<1>1. NoPass.rows \in [{} -> Age] /\ DOMAIN NoPass.rows = {}
  BY DEF NoPass
<1>2. NoPass \in PassType
  <2>1. NoPass.rows \in Ages
    BY <1>1 DEF Ages
  <2>2. "none" \in Phase /\ 0 \in 0..PassLimit
    BY HibernateAssumption DEF Phase
  <2>3. QED
    BY <2>1, <2>2 DEF NoPass, PassType
<1>3. Typed
  <2>1. "off" \in ProcState
    BY DEF ProcState
  <2>2. QED
    BY <1>2, <2>1, EventTyped DEF Init, Typed
<1>4. Shaped(pass)
  BY <1>1 DEF Init, Shaped, NoPass
<1>5. Recalled
  BY <1>1 DEF Init, Recalled, NoPass, Chosen, Counted
<1>6. QED
  BY <1>3, <1>4, <1>5 DEF Inv

LEMMA NextInv == Inv /\ [Next]_vars => Inv'
<1> SUFFICES ASSUME Inv, [Next]_vars PROVE Inv'
  OBVIOUS
<1>1. CASE UNCHANGED vars
  BY <1>1 DEF vars, Inv, Typed, Shaped, Recalled, Judged, Orphaned, Newer
<1>2. ASSUME NEW s \in Session, Process(s) PROVE Inv'
  BY <1>2, StartStep, StartHookStep, PromptStep, PromptHookStep, WorksStep, StopHookStep,
     EndHookStep, VanishStep DEF Process
<1>3. ASSUME NEW s \in Session, Done(s) \/ Reopen(s) \/ SweepCloses(s) PROVE Inv'
  BY <1>3, CommandStep
<1>4. CASE Tick
  BY <1>4, TickStep
<1>5. CASE Pass
  <2>1. CASE \E s \in Session : WakeStops(s) \/ WakeLaunches(s)
    BY <2>1, WakeStep
  <2>2. CASE \E s \in Session : Act(s)
    BY <2>2, ActStep
  <2>3. CASE WakeFails
    <3>1. PICK s \in Session : TRUE
      BY <2>3 DEF WakeFails, Inv, Typed, PassType, Shaped
    <3>2. QED
      BY <2>3, <3>1, WakeStep
  <2>4. QED
    BY <1>5, <2>1, <2>2, <2>3, ReadRowsStep, ReadOpenStep, ReadDelegatesStep, ReadRosterStep
       DEF Pass
<1>6. QED
  BY <1>1, <1>2, <1>3, <1>4, <1>5 DEF Next

LEMMA InvHolds == Spec => []Inv
BY InitInv, NextInv, PTL DEF Spec

-----------------------------------------------------------------------------

\* Ledger, processes and pass keep their types, and a session is singled out in the
\* phases that work on one (watch.Pass).
THEOREM HibernateTypeCorrect == Spec => []TypeOK
<1>1. Inv => TypeOK
  BY DEF Inv, Typed, Shaped, PassType, Ages, TypeOK
<1>2. QED
  BY <1>1, InvHolds, PTL

\* The re-check lets no session through that has been through a turn since its row was
\* read, provided that at least one of the turn's hooks was recorded (hibernate.check);
\* any others may have been dropped.
THEOREM NoTurnIsMissed == Spec => NoTurnMissed
<1>1. ASSUME Inv, [Next]_vars
      PROVE  [\A s \in Session : CheckEvent(s) => s \notin since.turns]_vars
  <2>1. ASSUME NEW s \in Session, CheckEvent(s), s \in since.turns PROVE FALSE
    <3>1. Newer(latest[s], pass, s) /\ StillJudged(s)
      BY <1>1, <2>1 DEF Inv, Recalled, CheckEvent
    <3>2. latest[s].age \in Int /\ pass.rows[s] \in Int
      BY <1>1, <2>1, HibernateAssumption
         DEF Inv, Typed, Recalled, PassType, Ages, Age, MaxAge, Event
    <3>3. QED
      BY <3>1, <3>2 DEF Newer, StillJudged
  <2>2. QED
    BY <2>1
<1>2. QED
  BY <1>1, InvHolds, PTL DEF Spec, NoTurnMissed

\* Nor one that waits at rest for an answer somebody may give (lastTurnSendsMessage and
\* its exception for orphans), if the transcript was read with the question in it or a
\* hook told the ledger of the turn that asked.
THEOREM QuestionsKeepSessions == Spec => QuestionKeepsSession
<1>1. ASSUME Inv, [Next]_vars
      PROVE  [\A s \in Session :
                CheckEvent(s) /\ proc[s] = "idle" /\ s \in since.asked
                => ParentOf[s] # NULL /\ ParentOf[s] \notin since.open]_vars
  <2>1. ASSUME NEW s \in Session, CheckEvent(s), proc[s] = "idle", s \in since.asked
        PROVE  Orphaned(s)
    <3>1. StillJudged(s) /\ sent[s] /\ s \in DOMAIN pass.rows /\ Judged(s)
      BY <1>1, <2>1 DEF Inv, Shaped, Recalled, CheckEvent, Chosen
    <3>2. latest[s].age \in Int /\ pass.rows[s] \in Int
      BY <1>1, <3>1, HibernateAssumption
         DEF Inv, Typed, PassType, Ages, Age, MaxAge, Event
    <3>3. ~Newer(latest[s], pass, s)
      BY <3>1, <3>2 DEF Newer, StillJudged
    <3>4. QED
      BY <2>1, <3>1, <3>3 DEF Judged
  <2>2. QED
    BY <2>1 DEF Orphaned
<1>2. QED
  BY <1>1, InvHolds, PTL DEF Spec, QuestionKeepsSession

\* No session is stopped over a delegate that has been running since the pass counted
\* delegates (db.RunningDelegateCounts).
THEOREM DelegatesKeepDelegators == Spec => DelegateKeepsDelegator
<1>1. ASSUME Inv, [Next]_vars
      PROVE  [\A s \in Session : Stops(s) => Delegates(s) \cap since.running = {}]_vars
  <2>1. ASSUME NEW s \in Session, Stops(s) PROVE Delegates(s) \cap since.running = {}
    <3>1. pass.phase = "checked" /\ s \in DOMAIN pass.rows
      BY <1>1, <2>1 DEF Stops, StopsBackground, EndsInteractive, Inv, Shaped
    <3>2. QED
      BY <1>1, <3>1 DEF Inv, Recalled, Counted
  <2>2. QED
    BY <2>1
<1>2. QED
  BY <1>1, InvHolds, PTL DEF Spec, DelegateKeepsDelegator

\* What a pass has woken it does not stop (watch.Pass hands what was resumed on).
THEOREM WokenAreSpared == Spec => WokenNotStopped
<1>1. ASSUME Inv, [Next]_vars
      PROVE  [\A s \in Session : Stops(s) => s \notin pass.resumed]_vars
  <2>1. ASSUME NEW s \in Session, Stops(s) PROVE s \notin pass.resumed
    BY <1>1, <2>1 DEF Stops, StopsBackground, EndsInteractive, Inv, Shaped
  <2>2. QED
    BY <2>1
<1>2. QED
  BY <1>1, InvHolds, PTL DEF Spec, WokenNotStopped

=============================================================================
