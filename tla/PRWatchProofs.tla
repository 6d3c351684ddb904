--------------------------- MODULE PRWatchProofs ---------------------------
(***************************************************************************)
(* Proofs about PRWatch.                                                   *)
(***************************************************************************)
EXTENDS PRWatch, FiniteSetTheorems, WellFoundedInduction, TLAPS

\* The phases in which a pass has polled the PR and not yet recorded a delivery.
Polling == {"news", "polled", "due", "stopped", "launched"}

\* What a pass that is under way knows.
Held ==
  /\ pass.phase # "idle" => pass.p.pr \in PR
  /\ pass.events \subseteq DOMAIN posted
  /\ pass.phase \in {"due", "stopped", "launched"} /\ ~pass.closed => News # {}
  /\ pass.phase \in Polling \/ (pass.phase = "read" /\ pass.p.delivered = NULL)
       => pin.delivered = NULL

TypeInv == TypeOK /\ Held

-----------------------------------------------------------------------------
(***************************************************************************)
(* Lemmas on the operators.                                                *)
(***************************************************************************)

\* A bounded set of numbers has a greatest one: the intervals above its members,
\* ordered by inclusion, have a minimal one.
LEMMA MaxOf ==
  ASSUME NEW n \in Nat, NEW S, S \subseteq 0..n, S # {}
  PROVE  \E m \in S : \A t \in S : t <= m
<1> DEFINE Above(t) == (t + 1)..n
           Family == {Above(t) : t \in S}
<1>1. Family \subseteq FiniteSubsetsOf(0..n)
  <2>1. ASSUME NEW t \in S PROVE Above(t) \subseteq 0..n /\ IsFiniteSet(Above(t))
    BY FS_Interval
  <2>2. QED
    BY <2>1 DEF FiniteSubsetsOf
<1>2. Family # {}
  OBVIOUS
<1>3. PICK A \in Family : \A B \in Family : ~(<<B, A>> \in StrictSubsetOrdering(0..n))
  <2> HIDE DEF Family
  <2>1. QED
    BY <1>1, <1>2, FS_StrictSubsetOrderingWellFounded, WFMin, Zenon
<1>4. PICK m \in S : A = Above(m)
  OBVIOUS
<1>5. ASSUME NEW t \in S, m < t PROVE FALSE
  <2>1. /\ Above(t) \subseteq Above(m) /\ Above(t) # Above(m)
    <3>1. t \in Above(m) /\ t \notin Above(t)
      BY <1>5
    <3>2. QED
      BY <3>1, <1>5
  <2>2. Above(t) \subseteq 0..n /\ Above(m) \subseteq 0..n
    BY <1>1 DEF FiniteSubsetsOf
  <2> HIDE DEF Above, Family
  <2>3. <<Above(t), Above(m)>> \in StrictSubsetOrdering(0..n)
    BY <2>1, <2>2 DEF StrictSubsetOrdering
  <2>4. QED
    BY <2>3, <1>3, <1>4 DEF Family
<1>6. QED
  BY <1>4, <1>5

\* The newest event delivered is one of them.
LEMMA NewestType ==
  ASSUME TypeOK, pass.events \subseteq DOMAIN posted, News # {}
  PROVE  Newest \in Time /\ \A e \in News : posted[e].at <= Newest
<1> DEFINE S == {posted[e].at : e \in News}
<1>1. News \subseteq DOMAIN posted
  BY DEF News, NewSince
<1>2. S \subseteq Time /\ S # {}
  BY <1>1 DEF TypeOK
<1>3. MaxTime \in Nat /\ Time \subseteq 0..MaxTime
  BY PRWatchAssumption DEF Time
<1>4. \E t \in S : \A u \in S : u <= t
  <2> HIDE DEF S
  <2>1. QED
    BY <1>2, <1>3, MaxOf
<1>5. \E t \in S : \A e \in News : posted[e].at <= t
  BY <1>4
<1>6. Newest \in S /\ \A e \in News : posted[e].at <= Newest
  BY <1>5 DEF Newest
<1>7. QED
  BY <1>2, <1>6

\* A pin that grows older is the same pin.
LEMMA AgedPin ==
  ASSUME NEW p \in Pin
  PROVE  /\ Aged(p) \in Pin
         /\ Aged(p).pr = p.pr /\ Aged(p).upto = p.upto
         /\ Aged(p).failures = p.failures
         /\ Aged(p).delivered = NULL <=> p.delivered = NULL
<1>1. \A age \in Age \cup {NULL} : /\ Older(age) \in Age \cup {NULL}
                                   /\ Older(age) = NULL <=> age = NULL
  BY PRWatchAssumption DEF Age, Older
<1>2. Aged(p) = [p EXCEPT !.seen = Older(p.seen), !.delivered = Older(p.delivered)]
  BY DEF Aged, Pin
<1> HIDE DEF Older
<1>3. QED
  BY <1>1, <1>2 DEF Pin

LEMMA NoPinType == NoPin \in Pin
BY DEF NoPin, Pin

LEMMA IdleType == Idle \in Local
<1>1. 0 \in Age
  BY PRWatchAssumption DEF Age
<1>2. QED
  BY <1>1, NoPinType DEF Idle, Local

\* Nothing polled, nothing due, or no pass: nothing to know.
LEMMA SettlingType ==
  ASSUME TypeOK, NEW phase \in {"confirmed", "unconfirmed"}
  PROVE  /\ Settling(phase) \in Local
         /\ Settling(phase).phase = phase
         /\ Settling(phase).p.pr = pass.p.pr
         /\ Settling(phase).p.upto = pass.p.upto
         /\ Settling(phase).events = {}
<1> DEFINE q == [NoPin EXCEPT !.pr = pass.p.pr, !.upto = pass.p.upto]
<1>1. pass.p \in Pin
  BY DEF TypeOK, Local
<1>2. q \in Pin /\ q.pr = pass.p.pr /\ q.upto = pass.p.upto
  BY <1>1, NoPinType DEF Pin
<1>3. Settling(phase) = [Idle EXCEPT !.phase = phase, !.p = q]
  BY DEF Settling, Idle
<1> HIDE DEF q
<1>4. Idle.events = {}
  BY DEF Idle
<1>5. QED
  BY <1>2, <1>3, <1>4, IdleType DEF Local

LEMMA PolledType ==
  ASSUME TypeOK, NEW phase \in {"news", "polled"},
         NEW events \in SUBSET Event, NEW closed \in BOOLEAN
  PROVE  /\ Polled(phase, events, closed) \in Local
         /\ Polled(phase, events, closed).phase = phase
         /\ Polled(phase, events, closed).p.pr = pass.p.pr
         /\ Polled(phase, events, closed).p.delivered = pass.p.delivered
         /\ Polled(phase, events, closed).events = events
<1> DEFINE q == [pass.p EXCEPT !.failures = 0, !.halted = NULL]
<1>1. pass \in Local /\ pass.p \in Pin
  BY DEF TypeOK, Local
<1>2. q \in Pin /\ q.pr = pass.p.pr /\ q.delivered = pass.p.delivered
  BY <1>1 DEF Pin
<1>3. Polled(phase, events, closed) =
        [pass EXCEPT !.phase = phase, !.events = events, !.closed = closed, !.p = q]
  BY <1>1 DEF Polled, Local
<1> HIDE DEF q
<1>4. QED
  BY <1>1, <1>2, <1>3 DEF Local

LEMMA WritesType ==
  ASSUME TypeOK, NEW c \in Pin, Writes(c)
  PROVE  pin' \in Pin
BY DEF Writes, TypeOK

-----------------------------------------------------------------------------
(***************************************************************************)
(* Type correctness.                                                       *)
(***************************************************************************)

LEMMA TypeInit == Init => TypeInv
<1> SUFFICES ASSUME Init PROVE TypeInv
  OBVIOUS
<1>1. TypeOK
  <2>1. now \in 1..MaxTime + 1 /\ byHand \in 0..MaxByHand
    BY PRWatchAssumption DEF Init
  <2>2. posted \in [DOMAIN posted -> [pr : PR, at : Time]] /\ DOMAIN posted = {}
    BY DEF Init
  <2>3. prState \in [PR -> PRState]
    BY PRWatchAssumption DEF Init
  <2>4. past \in [since : Time \cup {0}, told : SUBSET (Event \cup PR), tries : Nat,
                  lost : 0..MaxLost]
    BY PRWatchAssumption DEF Init
  <2>5. QED
    BY <2>1, <2>2, <2>3, <2>4, NoPinType, IdleType DEF Init, TypeOK
<1>2. Held
  BY DEF Init, Held, Idle, Polling
<1>3. QED
  BY <1>1, <1>2 DEF TypeInv

\* A step outside a pass: it changes neither where the pass is nor what it read, it
\* keeps every event posted, and it records no delivery.
LEMMA OutsidePass ==
  ASSUME TypeInv, TypeOK',
         UNCHANGED <<pass.phase, pass.p, pass.closed, pass.events>>,
         DOMAIN posted \subseteq DOMAIN posted',
         \A e \in DOMAIN posted : posted'[e] = posted[e],
         pin.delivered = NULL => pin'.delivered = NULL
  PROVE  Held'
<1>1. News' = News
  BY DEF TypeInv, Held, News, NewSince
<1>2. QED
  BY <1>1 DEF TypeInv, Held

LEMMA PostType == ASSUME TypeInv, NEW pr \in PR, NEW e \in Event, Post(pr, e) PROVE TypeInv'
<1>1. /\ DOMAIN posted' = DOMAIN posted \cup {e}
      /\ \A x \in DOMAIN posted : posted'[x] = posted[x]
      /\ posted'[e] = [pr |-> pr, at |-> now]
      /\ UNCHANGED <<now, deleted, prState, open, pin, session, pass, byHand, past>>
  BY DEF Post
<1>2. [pr |-> pr, at |-> now] \in [pr : PR, at : Time]
  BY PRWatchAssumption DEF Post, TypeInv, TypeOK, Time
<1>3. posted' \in [DOMAIN posted' -> [pr : PR, at : Time]]
  BY <1>1, <1>2 DEF Post, TypeInv, TypeOK
<1>4. TypeOK'
  BY <1>1, <1>3 DEF TypeInv, TypeOK
<1>5. Held'
  BY <1>1, <1>4, OutsidePass
<1>6. QED
  BY <1>4, <1>5 DEF TypeInv

LEMMA DeleteType == ASSUME TypeInv, NEW e \in Event, Delete(e) PROVE TypeInv'
<1>1. TypeOK'
  BY DEF Delete, TypeInv, TypeOK
<1>2. QED
  BY <1>1, OutsidePass DEF Delete, TypeInv

LEMMA ChangeStateType ==
  ASSUME TypeInv, NEW pr \in PR, NEW state \in PRState, ChangeState(pr, state)
  PROVE  TypeInv'
<1>1. TypeOK'
  BY DEF ChangeState, TypeInv, TypeOK
<1>2. QED
  BY <1>1, OutsidePass DEF ChangeState, TypeInv

LEMMA TickType == ASSUME TypeInv, Tick PROVE TypeInv'
<1>1. pin' \in Pin /\ (pin.delivered = NULL => pin'.delivered = NULL)
  BY AgedPin DEF Tick, TypeInv, TypeOK
<1>2. now' \in 1..MaxTime + 1
  <2>1. CASE Stamped
    <3>1. now \in Time \cup {0}
      <4>1. \A e \in DOMAIN posted : posted[e].at \in Time
        BY DEF TypeInv, TypeOK
      <4>2. /\ past.since \in Time \cup {0} /\ pin.cursor \in Time \cup {0}
            /\ pin.upto \in Time \cup {NULL} /\ pin.halted \in Time \cup {NULL}
        BY DEF TypeInv, TypeOK, Pin
      <4>3. now # NULL
        BY PRWatchAssumption DEF TypeInv, TypeOK
      <4>4. QED
        BY <2>1, <4>1, <4>2, <4>3 DEF Stamped
    <3>2. QED
      BY <2>1, <3>1, PRWatchAssumption DEF Tick, Time
  <2>2. CASE ~Stamped
    BY <2>2 DEF Tick, TypeInv, TypeOK
  <2>3. QED
    BY <2>1, <2>2
<1>3. /\ pass' \in Local
      /\ UNCHANGED <<pass.phase, pass.p, pass.closed, pass.events>>
  <2>1. \A age \in Age : Older(age) \in Age /\ 0 \in Age
    BY PRWatchAssumption DEF Age, Older
  <2> HIDE DEF Older
  <2>2. QED
    BY <2>1 DEF Tick, TypeInv, TypeOK, Local
<1>4. TypeOK'
  BY <1>1, <1>2, <1>3 DEF Tick, TypeInv, TypeOK
<1>5. QED
  BY <1>1, <1>3, <1>4, OutsidePass DEF Tick, TypeInv

LEMMA PromptedType ==
  ASSUME TypeInv, Prompted
  PROVE  /\ pin' \in Pin /\ pass' \in Local /\ session' = "busy"
         /\ UNCHANGED <<pass.phase, pass.p, pass.closed, pass.events>>
         /\ UNCHANGED <<pin.pr, pin.delivered, pin.upto, pin.failures>>
BY DEF Prompted, TypeInv, TypeOK, Pin, Local

LEMMA SessionType == ASSUME TypeInv, Session PROVE TypeInv'
<1>1. CASE Prompted /\ UNCHANGED <<now, posted, deleted, prState, open, past>>
           /\ byHand' \in 0..MaxByHand
  <2>1. TypeOK'
    BY <1>1, PromptedType DEF TypeInv, TypeOK
  <2>2. QED
    BY <1>1, <2>1, PromptedType, OutsidePass DEF TypeInv
<1>2. CASE /\ session' \in {"gone", "busy", "idle"} /\ byHand' \in 0..MaxByHand
           /\ UNCHANGED <<now, posted, deleted, prState, open, pin, pass, past>>
  <2>1. TypeOK'
    BY <1>2 DEF TypeInv, TypeOK
  <2>2. QED
    BY <1>2, <2>1, OutsidePass DEF TypeInv
<1>3. byHand \in 0..MaxByHand /\ (byHand < MaxByHand => byHand + 1 \in 0..MaxByHand)
  BY PRWatchAssumption DEF TypeInv, TypeOK
<1>4. QED
  BY <1>1, <1>2, <1>3 DEF Session, ResumeTakes, ResumeFails, ByHand, TurnEnds, Ends

LEMMA PersonType == ASSUME TypeInv, Person PROVE TypeInv'
<1>1. ASSUME NEW pr \in PR, SetPinPR(pr) PROVE TypeInv'
  <2>1. now \in Time
    BY <1>1, PRWatchAssumption DEF SetPinPR, TypeInv, TypeOK, Time
  <2>2. pin' \in Pin /\ pin'.delivered = NULL
    BY <1>1, <2>1, NoPinType DEF SetPinPR, Pin, NoPin
  <2>3. TypeOK'
    BY <1>1, <2>1, <2>2 DEF SetPinPR, TypeInv, TypeOK
  <2>4. QED
    BY <1>1, <2>2, <2>3, OutsidePass DEF SetPinPR, TypeInv
<1>2. CASE SetPin
  <2>1. pin' \in Pin /\ pin'.delivered = pin.delivered
    BY <1>2 DEF SetPin, TypeInv, TypeOK, Pin
  <2>2. TypeOK'
    BY <1>2, <2>1 DEF SetPin, TypeInv, TypeOK
  <2>3. QED
    BY <1>2, <2>1, <2>2, OutsidePass DEF SetPin, TypeInv
<1>3. CASE ClearPin
  <2>1. TypeOK'
    BY <1>3, NoPinType DEF ClearPin, TypeInv, TypeOK
  <2>2. QED
    BY <1>3, <2>1, OutsidePass DEF ClearPin, TypeInv, NoPin
<1>4. CASE DoneOrReopen
  <2>1. TypeOK'
    BY <1>4 DEF DoneOrReopen, TypeInv, TypeOK
  <2>2. QED
    BY <1>4, <2>1, OutsidePass DEF DoneOrReopen, TypeInv
<1>5. QED
  BY <1>1, <1>2, <1>3, <1>4 DEF Person

\* A pass that is done with the pin knows nothing any more.
LEMMA LeavesType ==
  ASSUME TypeInv, Leaves, pin' \in Pin, UNCHANGED World,
         session' \in {"gone", "starting", "busy", "idle"},
         past' \in [since : Time \cup {0}, told : SUBSET (Event \cup PR), tries : Nat,
                    lost : 0..MaxLost]
  PROVE  TypeInv'
<1>1. TypeOK'
  BY IdleType DEF Leaves, World, TypeInv, TypeOK
<1>2. Held'
  BY DEF Leaves, Held, Idle, Polling
<1>3. QED
  BY <1>1, <1>2 DEF TypeInv

LEMMA ReadPinType == ASSUME TypeInv, ReadPin PROVE TypeInv'
<1>1. PICK gone \in BOOLEAN :
        pass' = [Idle EXCEPT !.phase = "read", !.p = pin, !.gone = gone]
  BY DEF ReadPin
<1>2. /\ pass' \in Local /\ pass'.phase = "read" /\ pass'.p = pin /\ pass'.events = {}
  <2>1. pin \in Pin /\ Idle.events = {}
    BY DEF TypeInv, TypeOK, Idle
  <2>2. QED
    BY <1>1, <2>1, IdleType DEF Local
<1>3. pin.pr \in PR
  BY DEF ReadPin, Watched, TypeInv, TypeOK, Pin
<1>4. TypeOK'
  BY <1>2 DEF ReadPin, World, TypeInv, TypeOK
<1>5. Held'
  BY <1>2, <1>3 DEF ReadPin, Held, Polling
<1>6. QED
  BY <1>4, <1>5 DEF TypeInv

LEMMA CheckPromptType == ASSUME TypeInv, CheckPrompt PROVE TypeInv'
<1>1. CASE pass' = Idle
  BY <1>1, LeavesType DEF CheckPrompt, Leaves, World, TypeInv, TypeOK
<1>2. ASSUME NEW phase \in {"confirmed", "unconfirmed"}, pass' = Settling(phase)
      PROVE  TypeInv'
  <2>1. /\ pass' \in Local /\ pass'.phase = phase
        /\ pass'.p.pr = pass.p.pr /\ pass'.events = {}
    BY <1>2, SettlingType DEF TypeInv
  <2>2. TypeOK'
    BY <2>1 DEF CheckPrompt, World, TypeInv, TypeOK
  <2>3. pass.p.pr \in PR
    BY DEF CheckPrompt, TypeInv, Held
  <2>4. Held'
    BY <1>2, <2>1, <2>3 DEF CheckPrompt, Held, Polling
  <2>5. QED
    BY <2>2, <2>4 DEF TypeInv
<1>3. QED
  BY <1>1, <1>2 DEF CheckPrompt

LEMMA ConfirmType == ASSUME TypeInv, Confirm PROVE TypeInv'
<1>1. pass.p \in Pin /\ pin \in Pin
  BY DEF TypeInv, TypeOK, Local
<1>2. pass.p.upto # NULL => Advanced \in Pin
  BY <1>1 DEF Advanced, Pin
<1>3. pin' \in Pin
  BY <1>1, <1>2, NoPinType DEF Confirm, Writes
<1>4. past' \in [since : Time \cup {0}, told : SUBSET (Event \cup PR), tries : Nat,
                 lost : 0..MaxLost]
  BY DEF Confirm, TypeInv, TypeOK
<1>5. QED
  BY <1>3, <1>4, LeavesType DEF Confirm, World, TypeInv, TypeOK

LEMMA FailPRDeliveryType == ASSUME TypeInv, FailPRDelivery PROVE TypeInv'
<1>1. pass.p \in Pin /\ pin \in Pin
  BY DEF TypeInv, TypeOK, Local
<1> DEFINE halted == IF pin.failures + 1 >= MaxFailures THEN pass.p.upto ELSE NULL
<1>2. halted \in Time \cup {NULL} /\ pin.failures + 1 \in Nat
  BY <1>1 DEF Pin
<1>3. Writes([pin EXCEPT !.delivered = NULL, !.upto = NULL, !.prompted = FALSE,
                         !.failures = pin.failures + 1, !.halted = halted])
  BY <1>1 DEF FailPRDelivery, Pin
<1> HIDE DEF halted
<1>4. pin' \in Pin
  BY <1>1, <1>2, <1>3 DEF Writes, Pin
<1>5. QED
  BY <1>4, LeavesType DEF FailPRDelivery, World, TypeInv, TypeOK

LEMMA PollType == ASSUME TypeInv, Poll PROVE TypeInv'
<1> DEFINE events == Visible(pass.p.pr)
           closed == Closed(pass.p.pr)
<1>1. CASE pass' = Idle
  BY <1>1, LeavesType DEF Poll, Leaves, World, TypeInv, TypeOK
<1>2. ASSUME NEW phase \in {"polled", "news"}, pass' = Polled(phase, events, closed)
      PROVE  TypeInv'
  <2>1. events \in SUBSET Event /\ events \subseteq DOMAIN posted /\ closed \in BOOLEAN
    BY DEF Visible, Closed, TypeInv, TypeOK
  <2> HIDE DEF events, closed
  <2>2. /\ pass' \in Local /\ pass'.phase = phase /\ pass'.events = events
        /\ pass'.p.pr = pass.p.pr /\ pass'.p.delivered = pass.p.delivered
    BY <1>2, <2>1, PolledType DEF TypeInv
  <2>3. TypeOK'
    BY <2>2 DEF Poll, World, TypeInv, TypeOK
  <2>4. pass.p.pr \in PR /\ pin.delivered = NULL
    BY DEF Poll, TypeInv, Held
  <2>5. Held'
    BY <1>2, <2>1, <2>2, <2>4 DEF Poll, World, Held
  <2>6. QED
    BY <2>3, <2>5 DEF TypeInv
<1>3. QED
  BY <1>1, <1>2 DEF Poll

\* A pass that goes on with what it polled.
LEMMA GoesOn ==
  ASSUME TypeInv, pass.phase \in Polling, UNCHANGED World,
         pass' \in Local, pass'.phase \in Polling,
         pass'.p.pr = pass.p.pr, pass'.p.cursor = pass.p.cursor,
         UNCHANGED <<pass.closed, pass.events>>,
         pass'.phase \in {"due", "stopped", "launched"} /\ ~pass.closed => News # {},
         pin' \in Pin, pin'.delivered = pin.delivered,
         session' \in {"gone", "starting", "busy", "idle"},
         past' \in [since : Time \cup {0}, told : SUBSET (Event \cup PR), tries : Nat,
                    lost : 0..MaxLost]
  PROVE  TypeInv'
<1>1. TypeOK'
  BY DEF World, TypeInv, TypeOK
<1>2. News' = News
  BY DEF World, News, NewSince
<1>3. Held'
  BY <1>2 DEF World, TypeInv, Held, Polling
<1>4. QED
  BY <1>1, <1>3 DEF TypeInv

LEMMA ResumePRDeliveryType == ASSUME TypeInv, ResumePRDelivery PROVE TypeInv'
<1>1. pass \in Local /\ pass.p \in Pin /\ pin \in Pin
  BY DEF TypeInv, TypeOK, Local
<1>2. pin' \in Pin /\ pin'.delivered = pin.delivered
  BY <1>1 DEF ResumePRDelivery, Writes, Pin
<1>3. [pass.p EXCEPT !.seen = NULL] \in Pin
  BY <1>1 DEF Pin
<1>4. pass' = [pass EXCEPT !.phase = "polled", !.p = [pass.p EXCEPT !.seen = NULL]]
  BY <1>1 DEF ResumePRDelivery, Local
<1>5. /\ pass' \in Local /\ pass'.phase = "polled"
      /\ UNCHANGED <<pass.closed, pass.events>>
      /\ pass'.p = [pass.p EXCEPT !.seen = NULL]
  BY <1>1, <1>3, <1>4 DEF Local
<1>6. pass'.p.pr = pass.p.pr /\ pass'.p.cursor = pass.p.cursor
  BY <1>1, <1>5 DEF Pin
<1>7. past' \in [since : Time \cup {0}, told : SUBSET (Event \cup PR), tries : Nat,
                 lost : 0..MaxLost]
  BY DEF ResumePRDelivery, TypeInv, TypeOK
<1>8. QED
  BY <1>2, <1>5, <1>6, <1>7, GoesOn
     DEF ResumePRDelivery, TypeInv, TypeOK, Polling, World

LEMMA NoNewsType == ASSUME TypeInv, NoNews PROVE TypeInv'
<1>1. pin' \in Pin
  BY DEF NoNews, Writes, TypeInv, TypeOK, Pin
<1>2. QED
  BY <1>1, LeavesType DEF NoNews, World, TypeInv, TypeOK

LEMMA SetPRSeenType == ASSUME TypeInv, SetPRSeen PROVE TypeInv'
<1>1. pass.started \in Age /\ pin \in Pin
  BY DEF TypeInv, TypeOK, Local
<1>2. pin' \in Pin
  BY <1>1 DEF SetPRSeen, Writes, Pin
<1>3. QED
  BY <1>2, LeavesType DEF SetPRSeen, World, TypeInv, TypeOK

LEMMA DebouncedType == ASSUME TypeInv, Debounced PROVE TypeInv'
<1>1. CASE pass' = Idle
  BY <1>1, LeavesType DEF Debounced, Leaves, World, TypeInv, TypeOK
<1>2. CASE pass' = [pass EXCEPT !.phase = "due", !.p.seen = NULL]
  <2>1. pass \in Local /\ pass.p \in Pin
    BY DEF TypeInv, TypeOK, Local
  <2>2. [pass.p EXCEPT !.seen = NULL] \in Pin
    BY <2>1 DEF Pin
  <2>3. pass' = [pass EXCEPT !.phase = "due", !.p = [pass.p EXCEPT !.seen = NULL]]
    BY <1>2, <2>1 DEF Local
  <2>4. /\ pass' \in Local /\ pass'.phase = "due"
        /\ UNCHANGED <<pass.closed, pass.events>>
        /\ pass'.p = [pass.p EXCEPT !.seen = NULL]
    BY <2>1, <2>2, <2>3 DEF Local
  <2>5. pass'.p.pr = pass.p.pr /\ pass'.p.cursor = pass.p.cursor
    BY <2>1, <2>4 DEF Pin
  <2>6. QED
    BY <2>4, <2>5, GoesOn DEF Debounced, World, TypeInv, TypeOK, Polling
<1>3. QED
  BY <1>1, <1>2 DEF Debounced

LEMMA StopFirstType == ASSUME TypeInv, StopFirst PROVE TypeInv'
<1>1. /\ pass' \in Local /\ pass'.phase = "stopped"
      /\ UNCHANGED <<pass.p, pass.closed, pass.events>>
  BY DEF StopFirst, Enters, TypeInv, TypeOK, Local
<1>2. QED
  BY <1>1, GoesOn DEF StopFirst, World, TypeInv, TypeOK, Held, Polling

LEMMA LaunchType == ASSUME TypeInv, Launch PROVE TypeInv'
<1>1. /\ pass' \in Local /\ pass'.phase = "launched"
      /\ UNCHANGED <<pass.p, pass.closed, pass.events>>
  BY DEF Launch, Enters, TypeInv, TypeOK, Local
<1>2. /\ pass.p.pr \in PR
      /\ News \subseteq Event
  BY DEF Launch, TypeInv, TypeOK, Held, News, NewSince
<1>3. past' \in [since : Time \cup {0}, told : SUBSET (Event \cup PR), tries : Nat,
                 lost : 0..MaxLost]
  <2> DEFINE told == (past.told \ PR) \cup (IF pass.closed THEN {pass.p.pr} ELSE News)
             tries == IF pin.pr = pass.p.pr THEN past.tries + 1 ELSE past.tries
  <2>1. told \subseteq Event \cup PR
    BY <1>2 DEF TypeInv, TypeOK
  <2>2. tries \in Nat
    BY DEF TypeInv, TypeOK
  <2>3. past' = [past EXCEPT !.told = told, !.tries = tries]
    BY DEF Launch, TypeInv, TypeOK
  <2> HIDE DEF told, tries
  <2>4. QED
    BY <2>1, <2>2, <2>3 DEF TypeInv, TypeOK
<1>4. QED
  BY <1>1, <1>3, GoesOn DEF Launch, World, TypeInv, TypeOK, Held, Polling

LEMMA SetPRDeliveredType == ASSUME TypeInv, SetPRDelivered PROVE TypeInv'
<1>1. pass.started \in Age /\ pass.prompted \in BOOLEAN /\ pin \in Pin
  BY DEF TypeInv, TypeOK, Local
<1>2. ~pass.closed => Newest \in Time
  BY NewestType DEF SetPRDelivered, TypeInv, Held
<1>3. pin' \in Pin
  BY <1>1, <1>2 DEF SetPRDelivered, Writes, Pin
<1>4. QED
  BY <1>3, LeavesType DEF SetPRDelivered, World, TypeInv, TypeOK

LEMMA GivesUpType == ASSUME TypeInv, GivesUp PROVE TypeInv'
<1>1. past' \in [since : Time \cup {0}, told : SUBSET (Event \cup PR), tries : Nat,
                 lost : 0..MaxLost]
  BY PRWatchAssumption DEF GivesUp, TypeInv, TypeOK
<1>2. QED
  BY <1>1, LeavesType DEF GivesUp, World, TypeInv, TypeOK

LEMMA TypeStep == TypeInv /\ [Next]_vars => TypeInv'
<1> SUFFICES ASSUME TypeInv, [Next]_vars PROVE TypeInv'
  OBVIOUS
<1>1. CASE GitHub
  BY <1>1, PostType, DeleteType, ChangeStateType DEF GitHub
<1>2. CASE Tick
  BY <1>2, TickType
<1>3. CASE Session
  BY <1>3, SessionType
<1>4. CASE Person
  BY <1>4, PersonType
<1>5. CASE Pass
  BY <1>5, ReadPinType, CheckPromptType, ConfirmType, FailPRDeliveryType, PollType,
     ResumePRDeliveryType, NoNewsType, SetPRSeenType, DebouncedType, StopFirstType,
     LaunchType, SetPRDeliveredType, GivesUpType DEF Pass
<1>6. CASE UNCHANGED vars
  BY <1>6 DEF vars, TypeInv, TypeOK, Held, News, NewSince
<1>7. QED
  BY <1>1, <1>2, <1>3, <1>4, <1>5, <1>6 DEF Next

\* Every column of the pin and everything a pass holds keeps its type; above all,
\* the cursor is always the time of an event, or of the person's pin: a pass that
\* launches has an event to take the cursor from, whatever is deleted meanwhile.
THEOREM TypeCorrect == Spec => []TypeOK
<1>1. Spec => []TypeInv
  BY TypeInit, TypeStep, PTL DEF Spec
<1>2. TypeInv => TypeOK
  BY DEF TypeInv
<1>3. QED
  BY <1>1, <1>2, PTL

-----------------------------------------------------------------------------
(***************************************************************************)
(* Launches are capped, and a pin comes off only for its own PR's close.   *)
(***************************************************************************)

\* A launch for the pin that has been neither confirmed nor counted as a failure.
InFlight ==
  IF pin.delivered # NULL \/ (pass.phase = "launched" /\ pin.pr = pass.p.pr) THEN 1 ELSE 0

\* Launches are accounted for, and a pass that may launch, or count a failure, has
\* room for it.  The pin may have been put on again since the pass read it, but that
\* only lowers the count.
Capped ==
  /\ past.tries <= pin.failures + past.lost + InFlight
  /\ pin.failures + InFlight <= MaxFailures
  /\ pass.phase = "read" => pin.failures <= pass.p.failures
  /\ pass.phase = "read" /\ pass.p.delivered # NULL => pin.failures < MaxFailures
  /\ pass.phase = "unconfirmed" => pin.failures < MaxFailures
  /\ pass.phase \in {"polled", "due", "stopped"} /\ pin.pr = pass.p.pr
       => pin.failures < MaxFailures

\* A delivery of a close is out only for the PR that the last launch said was closed.
Said ==
  /\ pin.delivered # NULL /\ pin.upto = NULL => pin.pr \in past.told
  /\ pass.phase = "launched" /\ pass.closed => pass.p.pr \in past.told
  /\ pass.phase = "read" /\ pass.p.delivered # NULL /\ pass.p.upto = NULL
       => pass.p.pr \in past.told
  /\ pass.phase = "confirmed" /\ pass.p.upto = NULL => pass.p.pr \in past.told

IInv == TypeInv /\ Capped /\ Said

\* What the arithmetic is about.
LEMMA Numbers ==
  ASSUME TypeInv
  PROVE  /\ pin.failures \in Nat /\ past.tries \in Nat /\ past.lost \in Nat
         /\ pass.p.failures \in Nat /\ InFlight \in {0, 1}
         /\ MaxFailures \in Nat /\ MaxFailures > 0
         /\ pin \in Pin /\ pass \in Local /\ pass.p \in Pin
         /\ past \in [since : Time \cup {0}, told : SUBSET (Event \cup PR), tries : Nat,
                      lost : 0..MaxLost]
BY PRWatchAssumption DEF TypeInv, TypeOK, Local, Pin, InFlight

\* A step that changes neither the pin, nor the pass, nor the history, in what the
\* two are about.
LEMMA Unmoved ==
  ASSUME IInv, UNCHANGED past,
         UNCHANGED <<pass.phase, pass.p, pass.closed>>,
         UNCHANGED <<pin.pr, pin.upto, pin.failures>>,
         pin'.delivered = NULL <=> pin.delivered = NULL
  PROVE  Capped' /\ Said'
<1>1. InFlight' = InFlight
  BY DEF InFlight
<1>2. Capped'
  BY <1>1 DEF IInv, Capped
<1>3. Said'
  BY DEF IInv, Said
<1>4. QED
  BY <1>2, <1>3

LEMMA OutsideStep ==
  ASSUME IInv, GitHub \/ Tick \/ Session \/ UNCHANGED vars
  PROVE  Capped' /\ Said'
<1>1. CASE GitHub
  BY <1>1, Unmoved DEF GitHub, Post, Delete, ChangeState
<1>2. CASE Tick
  <2>1. UNCHANGED <<pass.phase, pass.p, pass.closed>>
    BY <1>2 DEF Tick, IInv, TypeInv, TypeOK, Local
  <2>2. /\ UNCHANGED <<pin.pr, pin.upto, pin.failures>>
        /\ pin'.delivered = NULL <=> pin.delivered = NULL
    BY <1>2, AgedPin DEF Tick, IInv, TypeInv, TypeOK
  <2>3. QED
    BY <1>2, <2>1, <2>2, Unmoved DEF Tick
<1>3. CASE Session
  <2>1. CASE Prompted /\ UNCHANGED past
    BY <2>1, PromptedType, Unmoved DEF IInv
  <2>2. CASE UNCHANGED <<pin, pass, past>>
    BY <2>2, Unmoved
  <2>3. QED
    BY <1>3, <2>1, <2>2 DEF Session, ResumeTakes, ResumeFails, ByHand, TurnEnds, Ends
<1>4. CASE UNCHANGED vars
  BY <1>4, Unmoved DEF vars
<1>5. QED
  BY <1>1, <1>2, <1>3, <1>4

\* A fresh pin, or none: nothing is counted against it.
LEMMA FreshPin ==
  ASSUME IInv, TypeInv', UNCHANGED pass,
         pin'.delivered = NULL, pin'.failures = 0, past'.tries = 0,
         past'.lost = past.lost, past'.told = past.told
  PROVE  Capped' /\ Said'
<1>1. InFlight' \in {0, 1} /\ past'.lost \in Nat /\ pass.p.failures \in Nat
  BY Numbers DEF IInv, InFlight
<1>2. Capped'
  BY <1>1, Numbers DEF IInv, Capped
<1>3. Said'
  BY DEF IInv, Said
<1>4. QED
  BY <1>2, <1>3

LEMMA PersonStep ==
  ASSUME IInv, TypeInv', Person PROVE Capped' /\ Said'
<1>1. ASSUME NEW pr \in PR, SetPinPR(pr) PROVE Capped' /\ Said'
  <2>1. pin'.delivered = NULL /\ pin'.failures = 0
    BY <1>1 DEF SetPinPR, NoPin
  <2>2. past'.tries = 0 /\ past'.lost = past.lost /\ past'.told = past.told
    BY <1>1, Numbers DEF SetPinPR, IInv
  <2>3. QED
    BY <1>1, <2>1, <2>2, FreshPin DEF SetPinPR
<1>2. CASE SetPin
  <2>1. /\ UNCHANGED <<pass, pin.pr, pin.delivered, pin.upto>>
        /\ pin'.failures = 0
    BY <1>2, Numbers DEF SetPin, IInv, Pin
  <2>2. past'.tries = 0 /\ past'.lost = past.lost /\ past'.told = past.told
    BY <1>2, Numbers DEF SetPin, IInv
  <2>3. InFlight' = InFlight
    BY <2>1 DEF InFlight
  <2>4. Capped'
    BY <2>1, <2>2, <2>3, Numbers DEF IInv, Capped
  <2>5. Said'
    BY <2>1, <2>2 DEF IInv, Said
  <2>6. QED
    BY <2>4, <2>5
<1>3. CASE ClearPin
  <2>1. pin'.delivered = NULL /\ pin'.failures = 0
    BY <1>3 DEF ClearPin, NoPin
  <2>2. past'.tries = 0 /\ past'.lost = past.lost /\ past'.told = past.told
    BY <1>3, Numbers DEF ClearPin, IInv
  <2>3. QED
    BY <1>3, <2>1, <2>2, FreshPin DEF ClearPin
<1>4. CASE DoneOrReopen
  BY <1>4, Unmoved DEF DoneOrReopen
<1>5. QED
  BY <1>1, <1>2, <1>3, <1>4 DEF Person

\* A pass that ends without moving the pin.
LEMMA LeavesStep ==
  ASSUME IInv, Leaves, pass.phase # "launched", UNCHANGED past,
         UNCHANGED <<pin.pr, pin.delivered, pin.upto, pin.failures>>
  PROVE  Capped' /\ Said'
<1>1. pass'.phase = "idle"
  BY DEF Leaves, Idle
<1>2. InFlight' = InFlight
  BY <1>1 DEF InFlight
<1>3. Capped'
  BY <1>1, <1>2 DEF IInv, Capped
<1>4. Said'
  BY <1>1 DEF IInv, Said
<1>5. QED
  BY <1>3, <1>4

LEMMA ReadPinStep == ASSUME IInv, ReadPin PROVE Capped' /\ Said'
<1>1. /\ pass'.phase = "read" /\ pass'.p = pin
      /\ UNCHANGED <<pin, past>> /\ pass.phase = "idle"
  <2>1. PICK gone \in BOOLEAN :
          pass' = [Idle EXCEPT !.phase = "read", !.p = pin, !.gone = gone]
    BY DEF ReadPin
  <2>2. QED
    BY <2>1, IdleType DEF ReadPin, Local
<1>2. InFlight' = InFlight
  BY <1>1 DEF InFlight
<1>3. pin.delivered # NULL => InFlight = 1
  BY DEF InFlight
<1>4. Capped'
  BY <1>1, <1>2, <1>3, Numbers DEF IInv, Capped
<1>5. Said'
  BY <1>1 DEF IInv, Said
<1>6. QED
  BY <1>4, <1>5

LEMMA CheckPromptStep == ASSUME IInv, CheckPrompt PROVE Capped' /\ Said'
<1>1. CASE pass' = Idle
  BY <1>1, LeavesStep DEF CheckPrompt, Leaves
<1>2. ASSUME NEW phase \in {"confirmed", "unconfirmed"}, pass' = Settling(phase)
      PROVE  Capped' /\ Said'
  <2>1. /\ pass'.phase = phase
        /\ pass'.p.pr = pass.p.pr /\ pass'.p.upto = pass.p.upto
        /\ UNCHANGED <<pin, past>>
        /\ pass.phase = "read" /\ pass.p.delivered # NULL
    BY <1>2, SettlingType DEF CheckPrompt, IInv, TypeInv
  <2>2. InFlight' = InFlight
    BY <1>2, <2>1 DEF InFlight
  <2>3. Capped'
    BY <1>2, <2>1, <2>2 DEF IInv, Capped
  <2>4. Said'
    BY <1>2, <2>1 DEF IInv, Said
  <2>5. QED
    BY <2>3, <2>4
<1>3. QED
  BY <1>1, <1>2 DEF CheckPrompt

LEMMA ConfirmStep == ASSUME IInv, Confirm PROVE Capped' /\ Said'
<1>1. pass'.phase = "idle" /\ pass.phase = "confirmed"
  BY DEF Confirm, Leaves, Idle
<1>2. CASE pin.pr # pass.p.pr
  BY <1>1, <1>2, LeavesStep DEF Confirm, Writes
<1>3. CASE pin.pr = pass.p.pr
  <2>1. pin'.delivered = NULL /\ pin'.failures = 0
    <3>1. NoPin.delivered = NULL /\ NoPin.failures = 0
      BY DEF NoPin
    <3>2. Advanced.delivered = NULL /\ Advanced.failures = 0
      BY Numbers DEF Advanced, IInv, Pin
    <3>3. QED
      BY <1>3, <3>1, <3>2 DEF Confirm, Writes
  <2>2. past'.tries = 0 /\ past'.lost = past.lost /\ past'.told = past.told
    BY <1>3, Numbers DEF Confirm, IInv
  <2>3. InFlight' = 0
    BY <1>1, <2>1 DEF InFlight
  <2>4. Capped'
    BY <1>1, <2>1, <2>2, <2>3, Numbers DEF IInv, Capped
  <2>5. Said'
    BY <1>1, <2>1 DEF Said
  <2>6. QED
    BY <2>4, <2>5
<1>4. QED
  BY <1>2, <1>3

LEMMA FailPRDeliveryStep == ASSUME IInv, FailPRDelivery PROVE Capped' /\ Said'
<1>1. pass'.phase = "idle" /\ pass.phase = "unconfirmed" /\ UNCHANGED past
  BY DEF FailPRDelivery, Leaves, Idle
<1>2. CASE pin.pr # pass.p.pr
  BY <1>1, <1>2, LeavesStep DEF FailPRDelivery, Writes
<1>3. CASE pin.pr = pass.p.pr
  <2>1. pin'.delivered = NULL /\ pin'.failures = pin.failures + 1
    BY <1>3, Numbers DEF FailPRDelivery, Writes, IInv, Pin
  <2>2. InFlight' = 0
    BY <1>1, <2>1 DEF InFlight
  <2>3. Capped'
    BY <1>1, <2>1, <2>2, Numbers DEF IInv, Capped
  <2>4. Said'
    BY <1>1, <2>1 DEF Said
  <2>5. QED
    BY <2>3, <2>4
<1>4. QED
  BY <1>2, <1>3

LEMMA PollStep == ASSUME IInv, Poll PROVE Capped' /\ Said'
<1> DEFINE events == Visible(pass.p.pr)
           closed == Closed(pass.p.pr)
<1>1. CASE pass' = Idle
  BY <1>1, LeavesStep DEF Poll, Leaves
<1>2. ASSUME NEW phase \in {"polled", "news"}, pass' = Polled(phase, events, closed),
             phase = "polled" => pass.p.failures < MaxFailures
      PROVE  Capped' /\ Said'
  <2>1. events \in SUBSET Event /\ closed \in BOOLEAN
    BY DEF Visible, Closed, IInv, TypeInv, TypeOK
  <2> HIDE DEF events, closed
  <2>2. pass'.phase = phase /\ UNCHANGED <<pin, past>> /\ pass.phase = "read"
    BY <1>2, <2>1, PolledType DEF Poll, IInv, TypeInv
  <2>3. InFlight' = InFlight
    BY <2>2, <1>2 DEF InFlight
  <2>4. Capped'
    BY <1>2, <2>2, <2>3, Numbers DEF IInv, Capped
  <2>5. Said'
    BY <1>2, <2>2 DEF IInv, Said
  <2>6. QED
    BY <2>4, <2>5
<1>3. QED
  BY <1>1, <1>2 DEF Poll

LEMMA ResumePRDeliveryStep == ASSUME IInv, ResumePRDelivery PROVE Capped' /\ Said'
<1>1. /\ pass'.phase = "polled" /\ pass.phase = "news"
      /\ pass'.p.pr = pass.p.pr
  BY Numbers DEF ResumePRDelivery, IInv, Local, Pin
<1>2. CASE pin.pr # pass.p.pr
  <2>1. UNCHANGED <<pin, past>>
    BY <1>2 DEF ResumePRDelivery, Writes
  <2>2. InFlight' = InFlight
    BY <1>1, <2>1 DEF InFlight
  <2>3. Capped'
    BY <1>1, <1>2, <2>1, <2>2 DEF IInv, Capped
  <2>4. Said'
    BY <1>1, <2>1 DEF IInv, Said
  <2>5. QED
    BY <2>3, <2>4
<1>3. CASE pin.pr = pass.p.pr
  <2>1. /\ UNCHANGED <<pin.pr, pin.delivered, pin.upto>>
        /\ pin'.failures = 0
    BY <1>3, Numbers DEF ResumePRDelivery, Writes, IInv, Pin
  <2>2. past'.tries = 0 /\ past'.lost = past.lost /\ past'.told = past.told
    BY <1>3, Numbers DEF ResumePRDelivery, IInv
  <2>3. InFlight' = InFlight
    BY <1>1, <2>1 DEF InFlight
  <2>4. Capped'
    BY <1>1, <2>1, <2>2, <2>3, Numbers DEF IInv, Capped
  <2>5. Said'
    BY <1>1, <2>1, <2>2 DEF IInv, Said
  <2>6. QED
    BY <2>4, <2>5
<1>4. QED
  BY <1>2, <1>3

LEMMA MarkStep == ASSUME IInv, NoNews \/ SetPRSeen PROVE Capped' /\ Said'
<1>1. /\ UNCHANGED <<pin.pr, pin.delivered, pin.upto, pin.failures>>
      /\ pass.phase = "polled" /\ Leaves /\ UNCHANGED past
  BY Numbers DEF NoNews, SetPRSeen, Writes, IInv, Pin
<1>2. QED
  BY <1>1, LeavesStep

LEMMA DebouncedStep == ASSUME IInv, Debounced PROVE Capped' /\ Said'
<1>1. CASE pass' = Idle
  BY <1>1, LeavesStep DEF Debounced, Leaves
<1>2. CASE pass' = [pass EXCEPT !.phase = "due", !.p.seen = NULL]
  <2>1. /\ pass'.phase = "due" /\ pass.phase = "polled" /\ pass'.p.pr = pass.p.pr
        /\ UNCHANGED <<pin, past>>
    <3>1. pass' = [pass EXCEPT !.phase = "due", !.p = [pass.p EXCEPT !.seen = NULL]]
      BY <1>2, Numbers DEF IInv, Local
    <3>2. [pass.p EXCEPT !.seen = NULL].pr = pass.p.pr
      BY Numbers DEF IInv, Pin
    <3>3. QED
      BY <3>1, <3>2, Numbers DEF Debounced, IInv, Local
  <2>2. InFlight' = InFlight
    BY <2>1 DEF InFlight
  <2>3. Capped'
    BY <2>1, <2>2 DEF IInv, Capped
  <2>4. Said'
    BY <2>1 DEF IInv, Said
  <2>5. QED
    BY <2>3, <2>4
<1>3. QED
  BY <1>1, <1>2 DEF Debounced

LEMMA StopFirstStep == ASSUME IInv, StopFirst PROVE Capped' /\ Said'
<1>1. /\ pass'.phase = "stopped" /\ pass.phase = "due" /\ pass'.p = pass.p
      /\ UNCHANGED <<pin, past>>
  BY Numbers DEF StopFirst, Enters, IInv, Local
<1>2. InFlight' = InFlight
  BY <1>1 DEF InFlight
<1>3. Capped'
  BY <1>1, <1>2 DEF IInv, Capped
<1>4. Said'
  BY <1>1 DEF IInv, Said
<1>5. QED
  BY <1>3, <1>4

LEMMA LaunchStep == ASSUME IInv, Launch PROVE Capped' /\ Said'
<1>1. /\ pass'.phase = "launched" /\ pass.phase \in {"due", "stopped"}
      /\ UNCHANGED <<pass.p, pass.closed, pin>>
  BY Numbers DEF Launch, Enters, IInv, Local
<1>2. pin.delivered = NULL /\ pass.p.pr \in PR
  BY <1>1 DEF IInv, TypeInv, Held, Polling
<1>3. /\ past'.tries = IF pin.pr = pass.p.pr THEN past.tries + 1 ELSE past.tries
      /\ past'.lost = past.lost
      /\ pass.closed => pass.p.pr \in past'.told
  BY Numbers DEF Launch, IInv
<1>4. InFlight = 0 /\ InFlight' = IF pin.pr = pass.p.pr THEN 1 ELSE 0
  BY <1>1, <1>2 DEF InFlight
<1>5. Capped'
  <2>1. CASE pin.pr = pass.p.pr
    BY <1>1, <1>3, <1>4, <2>1, Numbers DEF IInv, Capped
  <2>2. CASE pin.pr # pass.p.pr
    BY <1>1, <1>3, <1>4, <2>2, Numbers DEF IInv, Capped
  <2>3. QED
    BY <2>1, <2>2
<1>6. Said'
  BY <1>1, <1>2, <1>3 DEF Said
<1>7. QED
  BY <1>5, <1>6

LEMMA SetPRDeliveredStep == ASSUME IInv, SetPRDelivered PROVE Capped' /\ Said'
<1>1. pass'.phase = "idle" /\ pass.phase = "launched" /\ UNCHANGED past
  BY DEF SetPRDelivered, Leaves, Idle
<1>2. pin.delivered = NULL
  BY <1>1 DEF IInv, TypeInv, Held, Polling
<1>3. CASE pin.pr # pass.p.pr
  <2>1. UNCHANGED pin
    BY <1>3 DEF SetPRDelivered, Writes
  <2>2. InFlight' = InFlight
    BY <1>1, <1>2, <1>3, <2>1 DEF InFlight
  <2>3. Capped'
    BY <1>1, <2>1, <2>2 DEF IInv, Capped
  <2>4. Said'
    BY <1>1, <2>1 DEF IInv, Said
  <2>5. QED
    BY <2>3, <2>4
<1>4. CASE pin.pr = pass.p.pr
  <2>1. /\ pin'.pr = pin.pr /\ pin'.failures = pin.failures
        /\ pin'.delivered = pass.started
        /\ pin'.upto = IF pass.closed THEN NULL ELSE Newest
    BY <1>4, Numbers DEF SetPRDelivered, Writes, IInv, Pin
  <2>2. pass.started # NULL
    BY PRWatchAssumption, Numbers DEF IInv, Local, Age
  <2>3. ~pass.closed => Newest # NULL
    <3>1. ~pass.closed => Newest \in Time
      BY <1>1, NewestType DEF IInv, TypeInv, Held
    <3>2. QED
      BY <3>1, PRWatchAssumption DEF Time
  <2>4. InFlight = 1 /\ InFlight' = 1
    BY <1>1, <1>4, <2>1, <2>2 DEF InFlight
  <2>5. Capped'
    BY <1>1, <2>1, <2>4 DEF IInv, Capped
  <2>6. Said'
    BY <1>1, <1>4, <2>1, <2>3 DEF IInv, Said
  <2>7. QED
    BY <2>5, <2>6
<1>5. QED
  BY <1>3, <1>4

LEMMA GivesUpStep == ASSUME IInv, GivesUp PROVE Capped' /\ Said'
<1>1. pass'.phase = "idle" /\ UNCHANGED pin
  BY DEF GivesUp, Leaves, Idle
<1>2. CASE pass.phase # "launched"
  BY <1>1, <1>2, LeavesStep DEF GivesUp
<1>3. CASE pass.phase = "launched"
  <2>1. /\ past'.tries = past.tries /\ past'.told = past.told
        /\ past'.lost = past.lost + 1
    BY <1>3, Numbers DEF GivesUp, IInv
  <2>2. InFlight' = 0
    BY <1>1, <1>3 DEF InFlight, IInv, TypeInv, Held, Polling
  <2>3. Capped'
    BY <1>1, <2>1, <2>2, Numbers DEF IInv, Capped
  <2>4. Said'
    BY <1>1, <2>1 DEF IInv, Said
  <2>5. QED
    BY <2>3, <2>4
<1>4. QED
  BY <1>2, <1>3

LEMMA IInvInit == Init => IInv
<1> SUFFICES ASSUME Init PROVE IInv
  OBVIOUS
<1>1. Capped
  BY PRWatchAssumption DEF Init, Capped, InFlight, NoPin, Idle
<1>2. Said
  BY DEF Init, Said, NoPin, Idle
<1>3. QED
  BY <1>1, <1>2, TypeInit DEF IInv

LEMMA IInvStep == IInv /\ [Next]_vars => IInv'
<1> SUFFICES ASSUME IInv, [Next]_vars PROVE IInv'
  OBVIOUS
<1>1. TypeInv'
  BY TypeStep DEF IInv
<1>2. CASE GitHub \/ Tick \/ Session \/ UNCHANGED vars
  BY <1>1, <1>2, OutsideStep DEF IInv
<1>3. CASE Person
  BY <1>1, <1>3, PersonStep DEF IInv
<1>4. CASE Pass
  BY <1>1, <1>4, ReadPinStep, CheckPromptStep, ConfirmStep, FailPRDeliveryStep, PollStep,
     ResumePRDeliveryStep, MarkStep, DebouncedStep, StopFirstStep, LaunchStep,
     SetPRDeliveredStep, GivesUpStep DEF Pass, IInv
<1>5. QED
  BY <1>2, <1>3, <1>4 DEF Next

\* However the person re-pins while passes are under way, a pin's launches since its
\* last confirmation or fresh start are at most MaxFailures, and those that left no
\* record.
THEOREM LaunchesAreCapped == Spec => []LaunchesCapped
<1>1. Spec => []IInv
  BY IInvInit, IInvStep, PTL DEF Spec
<1>2. IInv => LaunchesCapped
  BY Numbers DEF IInv, Capped, LaunchesCapped
<1>3. QED
  BY <1>1, <1>2, PTL

\* A pass unpins only a session that was told that its pin's own PR was closed,
\* whichever PR the person pins it on meanwhile.
THEOREM UnpinsAfterClose == Spec => UnpinnedAfterClose
<1>1. Spec => []IInv
  BY IInvInit, IInvStep, PTL DEF Spec
<1>2. ASSUME IInv, Confirm, pin.pr # NULL, pin'.pr = NULL
      PROVE  pin.pr \in past.told
  <2>1. pin.pr = pass.p.pr
    BY <1>2 DEF Confirm, Writes
  <2>2. pass.p.upto = NULL
    <3>1. Advanced.pr = pin.pr
      BY <1>2, Numbers DEF Advanced, IInv, Pin
    <3>2. QED
      BY <1>2, <2>1, <3>1 DEF Confirm, Writes
  <2>3. QED
    BY <1>2, <2>1, <2>2 DEF Confirm, IInv, Said
<1>3. IInv /\ [Next]_vars =>
        [Confirm /\ pin.pr # NULL /\ pin'.pr = NULL => pin.pr \in past.told]_vars
  BY <1>2
<1>4. QED
  BY <1>1, <1>3, PTL DEF Spec, UnpinnedAfterClose

-----------------------------------------------------------------------------
(***************************************************************************)
(* Proofs that the cursor of a PR pin skips no activity, and that a        *)
(* stopped delivery is resumed for news only.                              *)
(*                                                                         *)
(* Wherever the cursor is, or may be put by the pass that is under way or  *)
(* by a delivery that is out, the activity behind it has been in a message *)
(* and so has an event with exactly its time.  The latter is what activity *)
(* posted later in the same second is excused by.                          *)
(***************************************************************************)

\* A cursor at x skips nothing of what came since the pin was put on.
Reached(x) ==
  /\ x <= now
  /\ past.since < x => Told(pin.pr, x)
  /\ \A e \in Visible(pin.pr) :
       past.since < posted[e].at /\ posted[e].at <= x => Told(pin.pr, posted[e].at)

\* Activity that the poll did not find is as new as everything that it did.
Scanned ==
  \A e \in Visible(pin.pr) :
    past.since < posted[e].at =>
      e \in pass.events \/ \A f \in pass.events : posted[f].at <= posted[e].at

InTime ==
  /\ past.since <= now
  /\ \A e \in DOMAIN posted : posted[e].at <= now
  /\ past.told \cap Event \subseteq DOMAIN posted
  /\ pass.phase # "idle" => /\ pass.p.cursor <= now
                            /\ pass.p.upto # NULL => pass.p.upto <= now

PinReached ==
  /\ pin.pr # NULL => Reached(pin.cursor)
  /\ pin.upto # NULL => Reached(pin.upto)

PassReached ==
  /\ pass.phase \in {"read"} \cup Polling /\ pin.pr = pass.p.pr => Reached(pass.p.cursor)
  /\ pass.phase \in {"read", "confirmed"} /\ pin.pr = pass.p.pr /\ pass.p.upto # NULL
       => Reached(pass.p.upto)

PassScanned ==
  /\ pass.phase \in Polling => \A f \in pass.events : posted[f].pr = pass.p.pr
  /\ pass.phase \in Polling /\ pin.pr = pass.p.pr => Scanned
  /\ pass.phase = "launched" /\ ~pass.closed => News \subseteq past.told

CursorInv == InTime /\ PinReached /\ PassReached /\ PassScanned

\* Time passes, events are posted with the current time, and what was in a message
\* stays so.
Grows ==
  /\ now <= now'
  /\ DOMAIN posted \subseteq DOMAIN posted'
  /\ \A e \in DOMAIN posted : posted'[e] = posted[e]
  /\ \A e \in DOMAIN posted' \ DOMAIN posted : posted'[e].at = now
  /\ deleted \subseteq deleted'
  /\ past.told \cap Event \subseteq past'.told

\* The types that the lemmas need.
LEMMA Kinds ==
  ASSUME TypeInv
  PROVE  /\ now \in Nat
         /\ DOMAIN posted \subseteq Event
         /\ \A e \in DOMAIN posted : posted[e] \in [pr : PR, at : Time]
         /\ past.since \in Nat /\ Time \subseteq Nat \ {0} /\ NULL \notin Time \cup {0}
         /\ pin.cursor \in Time \cup {0} /\ pin.upto \in Time \cup {NULL}
         /\ pin.pr \in PR \cup {NULL}
         /\ pass.p.cursor \in Time \cup {0} /\ pass.p.upto \in Time \cup {NULL}
         /\ pass.events \subseteq DOMAIN posted
         /\ News \subseteq DOMAIN posted /\ News \subseteq pass.events
<1>1. pin \in Pin /\ pass.p \in Pin
  BY DEF TypeInv, TypeOK, Local
<1>2. News \subseteq pass.events /\ pass.events \subseteq DOMAIN posted
  BY DEF TypeInv, Held, News, NewSince
<1>3. QED
  BY <1>1, <1>2, PRWatchAssumption DEF TypeInv, TypeOK, Pin, Time

LEMMA ToldKept ==
  ASSUME InTime, Grows, NEW pr, NEW at, Told(pr, at)
  PROVE  Told(pr, at)'
<1>1. PICK e \in past.told \cap Event : posted[e] = [pr |-> pr, at |-> at]
  BY DEF Told
<1>2. QED
  BY <1>1 DEF Told, Grows, InTime

LEMMA ReachedKept ==
  ASSUME TypeInv, TypeInv', InTime, Grows, UNCHANGED <<pin.pr, past.since>>,
         NEW x \in Time \cup {0}, Reached(x)
  PROVE  Reached(x)'
<1>1. now \in Nat /\ now' \in Nat /\ now <= now' /\ x \in Nat /\ past.since \in Nat
  BY Kinds DEF Grows, TypeInv, TypeOK
<1>2. x <= now' /\ x <= now
  BY <1>1 DEF Reached
<1>3. past.since < x => Told(pin.pr, x)'
  BY ToldKept DEF Reached, Told
<1>4. ASSUME NEW e \in Visible(pin.pr)', past.since < posted'[e].at, posted'[e].at <= x
      PROVE  Told(pin.pr, posted[e].at)'
  <2>1. CASE e \in DOMAIN posted
    <3>1. e \in Visible(pin.pr) /\ posted'[e] = posted[e]
      BY <1>4, <2>1 DEF Visible, Grows
    <3>2. Told(pin.pr, posted[e].at)
      BY <1>4, <3>1 DEF Reached
    <3>3. PICK f \in past.told \cap Event :
            posted[f] = [pr |-> pin.pr, at |-> posted[e].at]
      BY <3>2 DEF Told
    <3>4. f \in past'.told \cap Event /\ posted'[f] = posted[f]
      BY <3>3 DEF Grows, InTime
    <3>5. QED
      BY <3>1, <3>3, <3>4 DEF Told
  <2>2. CASE e \notin DOMAIN posted
    <3>1. posted'[e].at = now
      BY <1>4, <2>2 DEF Visible, Grows
    <3>2. now = x
      BY <1>1, <1>2, <1>4, <3>1
    <3>3. Told(pin.pr, x)'
      BY <1>3, <1>4, <3>1, <3>2
    <3>4. QED
      BY <3>1, <3>2, <3>3 DEF Told
  <2>3. QED
    BY <2>1, <2>2
<1>5. QED
  BY <1>2, <1>3, <1>4 DEF Reached

\* A pin put on now has nothing behind it.
LEMMA ReachedFresh ==
  ASSUME TypeInv, InTime, UNCHANGED <<now, posted>>, past'.since = now,
         NEW x \in Time \cup {0}, x <= now
  PROVE  Reached(x)'
<1>1. now \in Nat /\ x \in Nat
  BY Kinds
<1>2. \A e \in Visible(pin.pr)' : posted'[e].at \in Nat /\ posted'[e].at <= now
  BY Kinds DEF Visible, InTime
<1>3. QED
  BY <1>1, <1>2 DEF Reached

LEMMA ScannedKept ==
  ASSUME TypeInv, InTime, Grows, UNCHANGED <<pin.pr, past.since, pass.events>>, Scanned
  PROVE  Scanned'
<1>1. \A f \in pass.events : posted[f].at <= now /\ posted'[f] = posted[f]
  BY Kinds DEF InTime, Grows
<1>2. ASSUME NEW e \in Visible(pin.pr)', past'.since < posted'[e].at
      PROVE  e \in pass'.events \/ \A f \in pass'.events : posted'[f].at <= posted'[e].at
  <2>1. CASE e \in DOMAIN posted
    <3>1. e \in Visible(pin.pr) /\ posted'[e] = posted[e]
      BY <1>2, <2>1 DEF Visible, Grows
    <3>2. QED
      BY <1>1, <1>2, <3>1 DEF Scanned
  <2>2. CASE e \notin DOMAIN posted
    <3>1. posted'[e].at = now
      BY <1>2, <2>2 DEF Visible, Grows
    <3>2. QED
      BY <1>1, <3>1
  <2>3. QED
    BY <2>1, <2>2
<1>3. QED
  BY <1>2 DEF Scanned

\* Where the cursors are after a step.
LEMMA At ==
  ASSUME NEW x, Reached(x)'
  PROVE  /\ pin'.cursor = x => Reached(pin.cursor)'
         /\ pin'.upto = x => Reached(pin.upto)'
         /\ pass'.p.cursor = x => Reached(pass.p.cursor)'
         /\ pass'.p.upto = x => Reached(pass.p.upto)'
BY DEF Reached, Told

LEMMA PinKept ==
  ASSUME TypeInv, TypeInv', InTime, Grows, PinReached, UNCHANGED past.since,
         UNCHANGED <<pin.pr, pin.cursor, pin.upto>>
  PROVE  PinReached'
<1>1. pin.pr # NULL => Reached(pin.cursor)'
  <2>1. PICK x \in Time \cup {0} : x = pin.cursor
    BY Kinds
  <2>2. pin.pr # NULL => Reached(x)
    BY <2>1 DEF PinReached
  <2>3. QED
    BY <2>1, <2>2, ReachedKept, At
<1>2. pin.upto # NULL => Reached(pin.upto)'
  <2>1. SUFFICES ASSUME pin.upto # NULL PROVE Reached(pin.upto)'
    OBVIOUS
  <2>2. PICK x \in Time \cup {0} : x = pin.upto
    BY <2>1, Kinds
  <2>3. Reached(x)
    BY <2>1, <2>2 DEF PinReached
  <2>4. QED
    BY <2>2, <2>3, ReachedKept, At
<1>3. QED
  BY <1>1, <1>2 DEF PinReached

\* The same for what a pass has read, if it goes on with it.
LEMMA CursorKept ==
  ASSUME TypeInv, TypeInv', InTime, Grows, UNCHANGED <<pin.pr, past.since>>,
         UNCHANGED pass.p.cursor, Reached(pass.p.cursor)
  PROVE  Reached(pass.p.cursor)'
<1>1. PICK x \in Time \cup {0} : x = pass.p.cursor
  BY Kinds
<1>2. Reached(x)
  BY <1>1
<1>3. QED
  BY <1>1, <1>2, ReachedKept, At

LEMMA UptoKept ==
  ASSUME TypeInv, TypeInv', InTime, Grows, UNCHANGED <<pin.pr, past.since>>,
         UNCHANGED pass.p.upto, pass.p.upto # NULL, Reached(pass.p.upto)
  PROVE  Reached(pass.p.upto)'
<1>1. PICK x \in Time \cup {0} : x = pass.p.upto
  BY Kinds
<1>2. Reached(x)
  BY <1>1
<1>3. QED
  BY <1>1, <1>2, ReachedKept, At

LEMMA NewsKept ==
  ASSUME TypeInv, Grows, UNCHANGED <<pass.events, pass.p.cursor>>
  PROVE  News' = News
<1>1. \A e \in pass.events : posted'[e] = posted[e]
  BY Kinds DEF Grows
<1>2. QED
  BY <1>1 DEF News, NewSince

-----------------------------------------------------------------------------
(***************************************************************************)
(* Steps outside a pass.                                                   *)
(***************************************************************************)

LEMMA EnvStep ==
  ASSUME CursorInv, TypeInv, TypeInv', Grows, UNCHANGED past,
         UNCHANGED <<pass.phase, pass.p, pass.closed, pass.events>>,
         UNCHANGED <<pin.pr, pin.cursor, pin.upto>>
  PROVE  CursorInv'
<1>1. InTime'
  <2>1. now \in Nat /\ now' \in Nat /\ now <= now' /\ past.since \in Nat
    BY Kinds DEF Grows, TypeInv, TypeOK
  <2>2. \A e \in DOMAIN posted' : posted'[e].at <= now'
    <3>1. ASSUME NEW e \in DOMAIN posted PROVE posted'[e].at <= now'
      <4>1. posted[e].at \in Nat /\ posted[e].at <= now /\ posted'[e] = posted[e]
        BY Kinds DEF CursorInv, InTime, Grows
      <4>2. QED
        BY <2>1, <4>1
    <3>2. QED
      BY <2>1, <3>1 DEF Grows
  <2>3. pass.phase # "idle" => /\ pass.p.cursor <= now'
                               /\ pass.p.upto # NULL => pass.p.upto <= now'
    <3>1. pass.p.cursor \in Nat /\ (pass.p.upto # NULL => pass.p.upto \in Nat)
      BY Kinds
    <3>2. QED
      BY <2>1, <3>1 DEF CursorInv, InTime
  <2>4. past.since <= now'
    BY <2>1 DEF CursorInv, InTime
  <2>5. QED
    BY <2>2, <2>3, <2>4 DEF CursorInv, InTime, Grows
<1>2. PinReached'
  BY PinKept DEF CursorInv
<1>3. PassReached'
  BY CursorKept, UptoKept DEF CursorInv, PassReached
<1>4. PassScanned'
  <2>1. News' = News
    BY NewsKept
  <2>2. \A f \in pass.events : posted'[f] = posted[f]
    BY Kinds DEF Grows
  <2>3. QED
    BY <2>1, <2>2, ScannedKept DEF CursorInv, PassScanned
<1>5. QED
  BY <1>1, <1>2, <1>3, <1>4 DEF CursorInv

LEMMA OutsideCursor ==
  ASSUME CursorInv, TypeInv, TypeInv', GitHub \/ Tick \/ Session \/ UNCHANGED vars
  PROVE  CursorInv'
<1>1. CASE GitHub
  <2>1. ASSUME NEW pr \in PR, NEW e \in Event, Post(pr, e) PROVE CursorInv'
    <3>1. Grows
      BY <2>1, Kinds DEF Post, Grows
    <3>2. QED
      BY <2>1, <3>1, EnvStep DEF Post
  <2>2. ASSUME NEW e \in Event, Delete(e) PROVE CursorInv'
    <3>1. Grows
      BY <2>2, Kinds DEF Delete, Grows
    <3>2. QED
      BY <2>2, <3>1, EnvStep DEF Delete
  <2>3. ASSUME NEW pr \in PR, NEW state \in PRState, ChangeState(pr, state)
        PROVE  CursorInv'
    <3>1. Grows
      BY <2>3, Kinds DEF ChangeState, Grows
    <3>2. QED
      BY <2>3, <3>1, EnvStep DEF ChangeState
  <2>4. QED
    BY <1>1, <2>1, <2>2, <2>3 DEF GitHub
<1>2. CASE Tick
  <2>1. Grows
    BY <1>2, Kinds DEF Tick, Grows
  <2>2. UNCHANGED <<pass.phase, pass.p, pass.closed, pass.events>>
    BY <1>2, Numbers DEF Tick, Local
  <2>3. UNCHANGED <<pin.pr, pin.cursor, pin.upto>>
    BY <1>2, Numbers DEF Tick, Aged, Pin
  <2>4. QED
    BY <1>2, <2>1, <2>2, <2>3, EnvStep DEF Tick
<1>3. CASE Session
  <2>1. Grows /\ UNCHANGED past
    BY <1>3, Kinds DEF Grows, Session, ResumeTakes, ResumeFails, ByHand, TurnEnds, Ends
  <2>2. CASE Prompted
    <3>1. UNCHANGED <<pin.pr, pin.cursor, pin.upto>>
      BY <2>2, Numbers DEF Prompted, Pin
    <3>2. QED
      BY <2>1, <2>2, <3>1, PromptedType, EnvStep
  <2>3. CASE UNCHANGED <<pin, pass>>
    BY <2>1, <2>3, EnvStep
  <2>4. QED
    BY <1>3, <2>2, <2>3 DEF Session, ResumeTakes, ResumeFails, ByHand, TurnEnds, Ends
<1>4. CASE UNCHANGED vars
  <2>1. Grows
    BY <1>4, Kinds DEF vars, Grows
  <2>2. QED
    BY <1>4, <2>1, EnvStep DEF vars
<1>5. QED
  BY <1>1, <1>2, <1>3, <1>4

LEMMA PersonCursor ==
  ASSUME CursorInv, TypeInv, TypeInv', Person
  PROVE  CursorInv'
<1>1. ASSUME NEW pr \in PR, SetPinPR(pr) PROVE CursorInv'
  <2>1. /\ UNCHANGED <<now, posted, deleted, pass>>
        /\ past'.since = now /\ past'.told = past.told
        /\ pin'.cursor = now /\ pin'.upto = NULL
    BY <1>1, Numbers DEF SetPinPR, NoPin
  <2>2. InTime'
    BY <2>1, Kinds DEF CursorInv, InTime
  <2>3. now \in Time \cup {0}
    BY <1>1, Kinds, PRWatchAssumption DEF SetPinPR, Time
  <2>4. PinReached'
    <3>1. PICK x \in Time \cup {0} : x = now
      BY <2>3
    <3>2. Reached(x)'
      BY <2>1, <3>1, Kinds, ReachedFresh DEF CursorInv
    <3>3. QED
      BY <2>1, <3>1, <3>2, At DEF PinReached
  <2>5. PassReached'
    <3>1. pass.phase # "idle" => Reached(pass.p.cursor)'
      <4>1. PICK x \in Time \cup {0} : x = pass.p.cursor
        BY Kinds
      <4>2. QED
        BY <2>1, <4>1, ReachedFresh, At DEF CursorInv, InTime
    <3>2. pass.phase # "idle" /\ pass.p.upto # NULL => Reached(pass.p.upto)'
      <4>1. SUFFICES ASSUME pass.phase # "idle", pass.p.upto # NULL
                     PROVE  Reached(pass.p.upto)'
        OBVIOUS
      <4>2. PICK x \in Time \cup {0} : x = pass.p.upto
        BY <4>1, Kinds
      <4>3. QED
        BY <2>1, <4>1, <4>2, ReachedFresh, At DEF CursorInv, InTime
    <3>3. QED
      BY <2>1, <3>1, <3>2 DEF PassReached, Polling
  <2>6. PassScanned'
    <3>1. News' = News
      BY <2>1 DEF News, NewSince
    <3>2. Scanned'
      BY <2>1, Kinds DEF Scanned, Visible, CursorInv, InTime
    <3>3. QED
      BY <2>1, <3>1, <3>2 DEF CursorInv, PassScanned
  <2>7. QED
    BY <2>2, <2>4, <2>5, <2>6 DEF CursorInv
<1>2. CASE SetPin
  <2>1. /\ UNCHANGED <<now, posted, deleted, pass, past.since, past.told>>
        /\ UNCHANGED <<pin.pr, pin.cursor, pin.upto>>
    BY <1>2, Numbers DEF SetPin, Pin
  <2>2. QED
    BY <2>1 DEF CursorInv, InTime, PinReached, PassReached, PassScanned, Reached, Scanned,
                Told, Visible, News, NewSince
<1>3. CASE ClearPin
  <2>1. /\ UNCHANGED <<now, posted, deleted, pass, past.told>>
        /\ past'.since = 0 /\ pin'.pr = NULL /\ pin'.upto = NULL
    BY <1>3, Numbers DEF ClearPin, NoPin
  <2>2. InTime'
    BY <2>1, Kinds DEF CursorInv, InTime
  <2>3. pass.phase # "idle" => pass.p.pr # NULL
    BY PRWatchAssumption DEF TypeInv, Held
  <2>4. PinReached' /\ PassReached'
    BY <2>1, <2>3 DEF PinReached, PassReached, Polling
  <2>5. PassScanned'
    BY <2>1, <2>3 DEF CursorInv, PassScanned, Polling, News, NewSince
  <2>6. QED
    BY <2>2, <2>4, <2>5 DEF CursorInv
<1>4. CASE DoneOrReopen
  <2>1. Grows
    BY <1>4, Kinds DEF DoneOrReopen, Grows
  <2>2. QED
    BY <1>4, <2>1, EnvStep DEF DoneOrReopen
<1>5. QED
  BY <1>1, <1>2, <1>3, <1>4 DEF Person

-----------------------------------------------------------------------------
(***************************************************************************)
(* The steps of a pass.                                                    *)
(***************************************************************************)

\* No step of a pass moves the clock or the PR, and a launch only adds to what the
\* session was told of activity.
LEMMA PassGrows ==
  ASSUME CursorInv, TypeInv, Pass
  PROVE  /\ Grows
         /\ UNCHANGED <<now, posted, deleted, past.since>>
         /\ past'.told \cap Event \subseteq DOMAIN posted
<1>1. UNCHANGED <<now, posted, deleted>>
  BY DEF Pass, ReadPin, CheckPrompt, Confirm, FailPRDelivery, Poll, ResumePRDelivery, NoNews,
         SetPRSeen, Debounced, StopFirst, Launch, SetPRDelivered, GivesUp, World
<1>2. CASE Launch
  <2>1. /\ past'.since = past.since
        /\ past'.told = (past.told \ PR) \cup (IF pass.closed THEN {pass.p.pr} ELSE News)
    BY <1>2, Numbers DEF Launch
  <2>2. pass.p.pr \in PR
    BY <1>2 DEF Launch, TypeInv, Held
  <2>3. past.told \cap Event \subseteq past'.told
    BY <2>1, PRWatchAssumption
  <2>4. past'.told \cap Event \subseteq DOMAIN posted
    BY <2>1, <2>2, Kinds, PRWatchAssumption DEF CursorInv, InTime
  <2>5. QED
    BY <1>1, <2>1, <2>3, <2>4, Kinds DEF Grows
<1>3. CASE ~Launch
  <2>1. past'.since = past.since /\ past'.told = past.told
    BY <1>3, Numbers
       DEF Pass, ReadPin, CheckPrompt, Confirm, FailPRDelivery, Poll, ResumePRDelivery,
           NoNews, SetPRSeen, Debounced, StopFirst, SetPRDelivered, GivesUp
  <2>2. QED
    BY <1>1, <2>1, Kinds DEF Grows, CursorInv, InTime
<1>4. QED
  BY <1>2, <1>3

\* A pass that ends leaves only the pin to look at.
LEMMA LeavesCursor ==
  ASSUME CursorInv, TypeInv, Pass, Leaves, PinReached'
  PROVE  CursorInv'
<1>1. pass'.phase = "idle"
  BY DEF Leaves, Idle
<1>2. InTime'
  BY <1>1, PassGrows DEF CursorInv, InTime
<1>3. PassReached' /\ PassScanned'
  BY <1>1 DEF PassReached, PassScanned, Polling
<1>4. QED
  BY <1>2, <1>3 DEF CursorInv

LEMMA LeavesPin ==
  ASSUME CursorInv, TypeInv, TypeInv', Pass, Leaves,
         UNCHANGED <<pin.pr, pin.cursor, pin.upto>>
  PROVE  CursorInv'
BY PassGrows, PinKept, LeavesCursor DEF CursorInv

\* A pass that goes on, with what it read and polled, and leaves the cursors alone.
LEMMA GoesOnCursor ==
  ASSUME CursorInv, TypeInv, TypeInv', Pass,
         pass.phase \in Polling, pass'.phase \in Polling,
         UNCHANGED <<pass.p.pr, pass.p.cursor, pass.p.upto, pass.closed, pass.events>>,
         UNCHANGED <<pin.pr, pin.cursor, pin.upto>>,
         pass'.phase = "launched" /\ ~pass.closed => News \subseteq past'.told
  PROVE  CursorInv'
<1>1. Grows /\ UNCHANGED <<now, posted, deleted, past.since>>
  BY PassGrows
<1>2. InTime'
  BY <1>1, PassGrows DEF CursorInv, InTime, Polling
<1>3. PinReached'
  BY <1>1, PinKept DEF CursorInv
<1>4. PassReached'
  BY <1>1, CursorKept DEF CursorInv, PassReached, Polling
<1>5. PassScanned'
  BY <1>1, NewsKept, ScannedKept DEF CursorInv, PassScanned
<1>6. QED
  BY <1>2, <1>3, <1>4, <1>5 DEF CursorInv

LEMMA ReadPinCursor ==
  ASSUME CursorInv, TypeInv, TypeInv', ReadPin PROVE CursorInv'
<1>1. Pass
  BY DEF Pass
<1>2. pass'.phase = "read" /\ pass'.p = pin /\ UNCHANGED <<pin, past>> /\ pin.pr # NULL
  <2>1. PICK gone \in BOOLEAN :
          pass' = [Idle EXCEPT !.phase = "read", !.p = pin, !.gone = gone]
    BY DEF ReadPin
  <2>2. QED
    BY <2>1, IdleType DEF ReadPin, Watched, Local
<1>3. PinReached'
  BY <1>1, <1>2, PassGrows, PinKept DEF CursorInv
<1>4. PassReached'
  BY <1>2, <1>3 DEF PinReached, PassReached, Reached, Told, Polling
<1>5. InTime'
  BY <1>1, <1>2, PassGrows DEF CursorInv, InTime, PinReached, Reached
<1>6. PassScanned'
  BY <1>2 DEF PassScanned, Polling
<1>7. QED
  BY <1>3, <1>4, <1>5, <1>6 DEF CursorInv

LEMMA CheckPromptCursor ==
  ASSUME CursorInv, TypeInv, TypeInv', CheckPrompt PROVE CursorInv'
<1>1. Pass
  BY DEF Pass
<1>2. CASE pass' = Idle
  BY <1>1, <1>2, LeavesPin DEF CheckPrompt, Leaves
<1>3. ASSUME NEW phase \in {"confirmed", "unconfirmed"}, pass' = Settling(phase)
      PROVE  CursorInv'
  <2>1. /\ pass'.phase = phase /\ pass'.p.pr = pass.p.pr /\ pass'.p.upto = pass.p.upto
        /\ pass'.p.cursor = 0
        /\ UNCHANGED <<pin, past>> /\ pass.phase = "read"
    <3>1. pass'.p.cursor = 0
      BY <1>3, IdleType DEF Settling, Idle, NoPin
    <3>2. QED
      BY <1>3, <3>1, SettlingType DEF CheckPrompt, TypeInv
  <2>2. InTime'
    <3>1. 0 <= now
      BY Kinds
    <3>2. QED
      BY <1>1, <2>1, <3>1, PassGrows DEF CursorInv, InTime
  <2>3. PinReached'
    BY <1>1, <2>1, PassGrows, PinKept DEF CursorInv
  <2>4. PassReached'
    BY <1>1, <1>3, <2>1, PassGrows, UptoKept DEF CursorInv, PassReached, Polling
  <2>5. PassScanned'
    BY <1>3, <2>1 DEF PassScanned, Polling
  <2>6. QED
    BY <2>2, <2>3, <2>4, <2>5 DEF CursorInv
<1>4. QED
  BY <1>2, <1>3 DEF CheckPrompt

\* The cursor moves to where the delivery reached.
LEMMA ConfirmCursor ==
  ASSUME CursorInv, TypeInv, TypeInv', Confirm PROVE CursorInv'
<1>1. Pass /\ Leaves
  BY DEF Pass, Confirm
<1>2. CASE pin.pr # pass.p.pr
  BY <1>1, <1>2, LeavesPin DEF Confirm, Writes
<1>3. CASE pin.pr = pass.p.pr /\ pass.p.upto = NULL
  <2>1. pin'.pr = NULL /\ pin'.upto = NULL
    BY <1>3 DEF Confirm, Writes, NoPin
  <2>2. QED
    BY <1>1, <2>1, LeavesCursor DEF PinReached
<1>4. CASE pin.pr = pass.p.pr /\ pass.p.upto # NULL
  <2>1. PICK x \in Time \cup {0} : x = pass.p.upto
    BY <1>4, Kinds
  <2>2. Reached(x)
    BY <1>4, <2>1 DEF Confirm, CursorInv, PassReached
  <2>3. pin'.pr = pin.pr /\ pin'.cursor = x /\ pin'.upto = NULL
    BY <1>4, <2>1, Numbers DEF Confirm, Writes, Advanced, Pin
  <2>4. Reached(x)'
    BY <1>1, <2>2, <2>3, PassGrows, ReachedKept DEF CursorInv
  <2>5. PinReached'
    BY <2>3, <2>4, At DEF PinReached
  <2>6. QED
    BY <1>1, <2>5, LeavesCursor
<1>5. QED
  BY <1>2, <1>3, <1>4

LEMMA FailPRDeliveryCursor ==
  ASSUME CursorInv, TypeInv, TypeInv', FailPRDelivery PROVE CursorInv'
<1>1. Pass /\ Leaves
  BY DEF Pass, FailPRDelivery
<1>2. CASE pin.pr # pass.p.pr
  BY <1>1, <1>2, LeavesPin DEF FailPRDelivery, Writes
<1>3. CASE pin.pr = pass.p.pr
  <2>1. pin'.pr = pin.pr /\ pin'.cursor = pin.cursor /\ pin'.upto = NULL
    BY <1>3, Numbers DEF FailPRDelivery, Writes, Pin
  <2>2. PICK x \in Time \cup {0} : x = pin.cursor
    BY Kinds
  <2>3. pin.pr # NULL => Reached(x)
    BY <2>2 DEF CursorInv, PinReached
  <2>4. PinReached'
    BY <1>1, <2>1, <2>2, <2>3, PassGrows, ReachedKept, At DEF CursorInv, PinReached
  <2>5. QED
    BY <1>1, <2>4, LeavesCursor
<1>4. QED
  BY <1>2, <1>3

\* A poll finds everything there is.
LEMMA PollCursor ==
  ASSUME CursorInv, TypeInv, TypeInv', Poll PROVE CursorInv'
<1> DEFINE events == Visible(pass.p.pr)
           closed == Closed(pass.p.pr)
<1>1. Pass
  BY DEF Pass
<1>2. CASE pass' = Idle
  BY <1>1, <1>2, LeavesPin DEF Poll, Leaves
<1>3. ASSUME NEW phase \in {"polled", "news"}, pass' = Polled(phase, events, closed)
      PROVE  CursorInv'
  <2>1. events \in SUBSET Event /\ closed \in BOOLEAN
    BY DEF Visible, Closed, TypeInv, TypeOK
  <2>2. /\ UNCHANGED <<now, posted, deleted, pin, past>>
        /\ pass.phase = "read"
    BY DEF Poll, World
  <2>3. /\ pass'.phase = phase /\ pass'.events = events
        /\ UNCHANGED <<pass.p.pr, pass.p.cursor, pass.p.upto>>
    <3> HIDE DEF events, closed
    <3> DEFINE q == [pass.p EXCEPT !.failures = 0, !.halted = NULL]
    <3>1. q.pr = pass.p.pr /\ q.cursor = pass.p.cursor /\ q.upto = pass.p.upto
      BY Numbers DEF Pin
    <3>2. pass' = [pass EXCEPT !.phase = phase, !.events = events, !.closed = closed,
                               !.p = q]
      BY <1>3, Numbers DEF Polled, Local
    <3> HIDE DEF q
    <3>3. QED
      BY <3>1, <3>2, Numbers DEF Local
  <2>4. InTime'
    BY <2>2, <2>3 DEF CursorInv, InTime
  <2>5. PinReached'
    BY <1>1, <2>2, PassGrows, PinKept DEF CursorInv
  <2>6. PassReached'
    BY <1>1, <1>3, <2>2, <2>3, PassGrows, CursorKept DEF CursorInv, PassReached
  <2>7. PassScanned'
    <3>1. \A f \in events : posted[f].pr = pass.p.pr
      BY DEF Visible
    <3>2. pin.pr = pass.p.pr => Scanned'
      BY <2>2, <2>3 DEF Scanned, Visible
    <3> HIDE DEF events
    <3>3. QED
      BY <1>3, <2>2, <2>3, <3>1, <3>2 DEF PassScanned
  <2>8. QED
    BY <2>4, <2>5, <2>6, <2>7 DEF CursorInv
<1>4. QED
  BY <1>2, <1>3 DEF Poll

\* Marks, the debounce, the stop and the launch leave the cursors alone.
LEMMA OnTheWayCursor ==
  ASSUME CursorInv, TypeInv, TypeInv',
         ResumePRDelivery \/ NoNews \/ SetPRSeen \/ Debounced \/ StopFirst \/ Launch
  PROVE  CursorInv'
<1>1. Pass
  BY DEF Pass
<1>2. [pass.p EXCEPT !.seen = NULL].pr = pass.p.pr
      /\ [pass.p EXCEPT !.seen = NULL].cursor = pass.p.cursor
      /\ [pass.p EXCEPT !.seen = NULL].upto = pass.p.upto
  BY Numbers DEF Pin
<1>3. CASE ResumePRDelivery
  <2>1. UNCHANGED <<pin.pr, pin.cursor, pin.upto>>
    BY <1>3, Numbers DEF ResumePRDelivery, Writes, Pin
  <2>2. pass' = [pass EXCEPT !.phase = "polled", !.p = [pass.p EXCEPT !.seen = NULL]]
    BY <1>3, Numbers DEF ResumePRDelivery, Local
  <2>3. /\ pass'.phase = "polled" /\ pass.phase = "news"
        /\ UNCHANGED <<pass.p.pr, pass.p.cursor, pass.p.upto, pass.closed, pass.events>>
    BY <1>2, <1>3, <2>2, Numbers DEF ResumePRDelivery, Local
  <2>4. QED
    BY <1>1, <2>1, <2>3, GoesOnCursor DEF Polling
<1>4. CASE NoNews \/ SetPRSeen
  <2>1. UNCHANGED <<pin.pr, pin.cursor, pin.upto>> /\ Leaves
    BY <1>4, Numbers DEF NoNews, SetPRSeen, Writes, Pin
  <2>2. QED
    BY <1>1, <2>1, LeavesPin
<1>5. CASE Debounced
  <2>1. CASE pass' = Idle
    BY <1>1, <1>5, <2>1, LeavesPin DEF Debounced, Leaves
  <2>2. CASE pass' = [pass EXCEPT !.phase = "due", !.p.seen = NULL]
    <3>1. pass' = [pass EXCEPT !.phase = "due", !.p = [pass.p EXCEPT !.seen = NULL]]
      BY <2>2, Numbers DEF Local
    <3>2. /\ pass'.phase = "due" /\ pass.phase = "polled" /\ UNCHANGED pin
          /\ UNCHANGED <<pass.p.pr, pass.p.cursor, pass.p.upto, pass.closed, pass.events>>
      BY <1>2, <1>5, <3>1, Numbers DEF Debounced, Local
    <3>3. QED
      BY <1>1, <3>2, GoesOnCursor DEF Polling
  <2>3. QED
    BY <1>5, <2>1, <2>2 DEF Debounced
<1>6. CASE StopFirst
  <2>1. /\ pass'.phase = "stopped" /\ pass.phase = "due" /\ UNCHANGED pin
        /\ UNCHANGED <<pass.p, pass.closed, pass.events>>
    BY <1>6, Numbers DEF StopFirst, Enters, Local
  <2>2. QED
    BY <1>1, <2>1, GoesOnCursor DEF Polling
<1>7. CASE Launch
  <2>1. /\ pass'.phase = "launched" /\ pass.phase \in {"due", "stopped"} /\ UNCHANGED pin
        /\ UNCHANGED <<pass.p, pass.closed, pass.events>>
    BY <1>7, Numbers DEF Launch, Enters, Local
  <2>2. ~pass.closed => News \subseteq past'.told
    BY <1>7, Numbers DEF Launch
  <2>3. QED
    BY <1>1, <2>1, <2>2, GoesOnCursor DEF Polling
<1>8. QED
  BY <1>3, <1>4, <1>5, <1>6, <1>7

\* The newest event delivered is where the delivery reached: activity up to there is
\* behind the old cursor, or was delivered, or has just that time.
LEMMA NewestReached ==
  ASSUME CursorInv, TypeInv, pass.phase = "launched", ~pass.closed, pin.pr = pass.p.pr
  PROVE  Reached(Newest) /\ Newest \in Time
<1>1. News # {} /\ Newest \in Time /\ \A f \in News : posted[f].at <= Newest
  BY NewestType DEF TypeInv, Held
<1>2. PICK n \in News : posted[n].at = Newest
  <2> DEFINE S == {posted[f].at : f \in News}
  <2>1. \E t \in S : \A f \in News : posted[f].at <= t
    <3>1. S \subseteq 0..MaxTime /\ S # {} /\ MaxTime \in Nat
      BY <1>1, Kinds, PRWatchAssumption DEF Time
    <3>2. \E t \in S : \A u \in S : u <= t
      <4> HIDE DEF S
      <4>1. QED
        BY <3>1, MaxOf
    <3>3. QED
      BY <3>2
  <2>2. Newest \in S
    BY <2>1 DEF Newest
  <2>3. QED
    BY <2>2
<1>3. ASSUME NEW f \in News PROVE Told(pin.pr, posted[f].at)
  <2>1. f \in past.told \cap Event /\ f \in pass.events /\ posted[f] \in [pr : PR, at : Time]
    BY Kinds DEF CursorInv, PassScanned
  <2>2. posted[f].pr = pin.pr
    BY <2>1 DEF CursorInv, PassScanned, Polling
  <2>3. posted[f] = [pr |-> pin.pr, at |-> posted[f].at]
    BY <2>1, <2>2
  <2>4. QED
    BY <2>1, <2>3 DEF Told
<1>4. Newest <= now
  BY <1>2, Kinds DEF CursorInv, InTime
<1>5. Told(pin.pr, Newest)
  BY <1>2, <1>3
<1>6. ASSUME NEW e \in Visible(pin.pr),
             past.since < posted[e].at, posted[e].at <= Newest
      PROVE  Told(pin.pr, posted[e].at)
  <2>1. posted[e].at \in Nat /\ pass.p.cursor \in Nat /\ Newest \in Nat
    BY <1>1, Kinds DEF Visible
  <2>2. CASE posted[e].at <= pass.p.cursor
    BY <1>6, <2>2 DEF CursorInv, PassReached, Reached, Polling
  <2>3. CASE posted[e].at > pass.p.cursor /\ e \in pass.events
    BY <1>3, <2>3 DEF News, NewSince
  <2>4. CASE e \notin pass.events
    <3>1. \A f \in pass.events : posted[f].at <= posted[e].at
      BY <1>6, <2>4 DEF CursorInv, PassScanned, Scanned, Polling
    <3>2. Newest <= posted[e].at
      BY <1>2, <3>1, Kinds
    <3>3. posted[e].at = Newest
      BY <1>6, <2>1, <3>2
    <3>4. QED
      BY <1>5, <3>3
  <2>5. QED
    BY <2>1, <2>2, <2>3, <2>4
<1>7. QED
  BY <1>1, <1>4, <1>5, <1>6 DEF Reached

LEMMA SetPRDeliveredCursor ==
  ASSUME CursorInv, TypeInv, TypeInv', SetPRDelivered PROVE CursorInv'
<1>1. Pass /\ Leaves /\ pass.phase = "launched"
  BY DEF Pass, SetPRDelivered
<1>2. CASE pin.pr # pass.p.pr
  BY <1>1, <1>2, LeavesPin DEF SetPRDelivered, Writes
<1>3. CASE pin.pr = pass.p.pr
  <2>1. /\ pin'.pr = pin.pr /\ pin'.cursor = pin.cursor
        /\ pin'.upto = IF pass.closed THEN NULL ELSE Newest
    BY <1>3, Numbers DEF SetPRDelivered, Writes, Pin
  <2>2. pin.pr # NULL => Reached(pin.cursor)'
    <3>1. PICK x \in Time \cup {0} : x = pin.cursor
      BY Kinds
    <3>2. pin.pr # NULL => Reached(x)
      BY <3>1 DEF CursorInv, PinReached
    <3>3. QED
      BY <1>1, <2>1, <3>1, <3>2, PassGrows, ReachedKept, At DEF CursorInv
  <2>3. ~pass.closed => Reached(pin.upto)'
    <3>1. SUFFICES ASSUME ~pass.closed PROVE Reached(pin.upto)'
      OBVIOUS
    <3>2. PICK x \in Time \cup {0} : x = Newest
      BY <1>1, <1>3, <3>1, NewestReached
    <3>3. Reached(x)
      BY <1>1, <1>3, <3>1, <3>2, NewestReached
    <3>4. QED
      BY <1>1, <2>1, <3>1, <3>2, <3>3, PassGrows, ReachedKept, At DEF CursorInv
  <2>4. PinReached'
    BY <2>1, <2>2, <2>3 DEF PinReached
  <2>5. QED
    BY <1>1, <2>4, LeavesCursor
<1>4. QED
  BY <1>2, <1>3

LEMMA GivesUpCursor ==
  ASSUME CursorInv, TypeInv, TypeInv', GivesUp PROVE CursorInv'
BY LeavesPin DEF Pass, GivesUp

-----------------------------------------------------------------------------

LEMMA CursorInit == Init => CursorInv
<1> SUFFICES ASSUME Init PROVE CursorInv
  OBVIOUS
<1>1. InTime
  BY DEF Init, InTime, Idle
<1>2. PinReached /\ PassReached /\ PassScanned
  BY PRWatchAssumption
     DEF Init, PinReached, PassReached, PassScanned, NoPin, Idle, Polling
<1>3. QED
  BY <1>1, <1>2 DEF CursorInv

LEMMA CursorStep == CursorInv /\ TypeInv /\ [Next]_vars => CursorInv'
<1> SUFFICES ASSUME CursorInv, TypeInv, [Next]_vars PROVE CursorInv'
  OBVIOUS
<1>1. TypeInv'
  BY TypeStep
<1>2. CASE GitHub \/ Tick \/ Session \/ UNCHANGED vars
  BY <1>1, <1>2, OutsideCursor
<1>3. CASE Person
  BY <1>1, <1>3, PersonCursor
<1>4. CASE Pass
  BY <1>1, <1>4, ReadPinCursor, CheckPromptCursor, ConfirmCursor, FailPRDeliveryCursor,
     PollCursor, OnTheWayCursor, SetPRDeliveredCursor, GivesUpCursor DEF Pass
<1>5. QED
  BY <1>2, <1>3, <1>4 DEF Next

\* However posts, deletions, re-pins, deaths of passes and failing resumes fall
\* between the steps of the passes, the cursor of a pin moves past no activity
\* since the pin was put on whose second was not in a message.
THEOREM NothingIsSkipped == Spec => []NothingSkipped
<1>1. Init => CursorInv /\ TypeInv
  BY CursorInit, TypeInit
<1>2. CursorInv /\ TypeInv /\ [Next]_vars => CursorInv' /\ TypeInv'
  BY CursorStep, TypeStep
<1>3. CursorInv => NothingSkipped
  BY DEF CursorInv, PinReached, Reached, NothingSkipped, Watched
<1>4. QED
  BY <1>1, <1>2, <1>3, PTL DEF Spec

-----------------------------------------------------------------------------
(***************************************************************************)
(* The proof that a stopped delivery is resumed for news only.             *)
(*                                                                         *)
(* Whoever holds a delivery (the pin that has it out or has stopped on it, *)
(* the pass that will record it as failed) holds what the session was told *)
(* last, because nothing is launched while a delivery is out, nor by a     *)
(* pass while the pin is stopped.                                          *)
(***************************************************************************)

\* What is left of PR pr in what the session was told is what a delivery up to upto
\* carried: the close if upto is NULL, and otherwise no close and no later activity.
Carried(pr, upto) ==
  IF upto = NULL THEN pr \in past.told
  ELSE /\ pr \notin past.told
       /\ \A e \in Visible(pr) \cap past.told : posted[e].at <= upto

Stopped == pin.failures >= MaxFailures

\* A delivery that is out, one that is to be recorded as failed, and the one that
\* delivery has stopped on.
PinCarried ==
  /\ pin.delivered # NULL => Carried(pin.pr, pin.upto)
  /\ Stopped => Carried(pin.pr, pin.halted)

PassCarried ==
  pass.phase = "unconfirmed" \/ (pass.phase = "read" /\ pass.p.delivered # NULL)
    => Carried(pass.p.pr, pass.p.upto)

\* The news that a pass has for a stopped delivery.
ForNews == pass.closed # (pin.pr \in past.told) \/ pass.events \ past.told # {}

\* A pass that goes on with a stopped delivery has read it as such, and has news.
StopIsKnown ==
  /\ pass.phase \in {"polled", "due", "stopped", "launched"} => ~Stopped
  /\ pass.phase = "read" /\ pass.p.delivered = NULL /\ Stopped
       => pass.p.pr = pin.pr /\ pass.p.failures = pin.failures /\ pass.p.halted = pin.halted
  /\ pass.phase = "news" /\ Stopped => pass.p.pr = pin.pr /\ ForNews

\* A poll finds all that the session was told and is still there.
ToldIsPolled ==
  /\ pass.phase \in Polling => Visible(pass.p.pr) \cap past.told \subseteq pass.events
  /\ pass.phase = "launched" => (pass.closed <=> pass.p.pr \in past.told)

NewsInv == PinCarried /\ PassCarried /\ StopIsKnown /\ ToldIsPolled

-----------------------------------------------------------------------------
(***************************************************************************)
(* Steps that tell the session nothing.                                    *)
(***************************************************************************)

\* Nothing that is posted later was in a message.
LEMMA CarriedKept ==
  ASSUME TypeInv, TypeInv', InTime, Grows, past'.told = past.told,
         NEW pr, NEW upto, Carried(pr, upto)
  PROVE  Carried(pr, upto)'
<1>1. ASSUME NEW e \in Visible(pr)' \cap past'.told
      PROVE  e \in Visible(pr) \cap past.told /\ posted'[e] = posted[e]
  <2>1. e \in DOMAIN posted' \ deleted' /\ e \in Event
    BY Kinds DEF Visible, TypeInv, TypeOK
  <2>2. e \in DOMAIN posted
    BY <1>1, <2>1 DEF InTime
  <2>3. QED
    BY <1>1, <2>1, <2>2 DEF Visible, Grows
<1>2. QED
  BY <1>1 DEF Carried

\* Who holds a delivery after a step.
LEMMA CarriedAt ==
  ASSUME NEW pr, NEW upto, Carried(pr, upto)'
  PROVE  /\ pin'.pr = pr /\ pin'.upto = upto => Carried(pin.pr, pin.upto)'
         /\ pin'.pr = pr /\ pin'.halted = upto => Carried(pin.pr, pin.halted)'
         /\ pass'.p.pr = pr /\ pass'.p.upto = upto => Carried(pass.p.pr, pass.p.upto)'
BY DEF Carried, Visible

\* The pin's two deliveries, and the pass's: kept by who keeps their columns.
LEMMA PinCarriedKept ==
  ASSUME TypeInv, TypeInv', InTime, Grows, past'.told = past.told, PinCarried,
         UNCHANGED <<pin.pr, pin.upto>>, pin'.delivered # NULL => pin.delivered # NULL,
         Stopped' => Stopped /\ pin'.halted = pin.halted
  PROVE  PinCarried'
<1>1. pin'.delivered # NULL => Carried(pin.pr, pin.upto)'
  BY CarriedKept, CarriedAt DEF PinCarried
<1>2. Stopped' => Carried(pin.pr, pin.halted)'
  BY CarriedKept, CarriedAt DEF PinCarried
<1>3. QED
  BY <1>1, <1>2 DEF PinCarried

LEMMA PolledKept ==
  ASSUME TypeInv, TypeInv', InTime, Grows, past'.told = past.told,
         UNCHANGED <<pass.p.pr, pass.events>>,
         Visible(pass.p.pr) \cap past.told \subseteq pass.events
  PROVE  (Visible(pass.p.pr) \cap past.told \subseteq pass.events)'
<1>1. ASSUME NEW e \in Visible(pass.p.pr)' \cap past'.told PROVE e \in pass'.events
  <2>1. e \in DOMAIN posted' \ deleted' /\ posted'[e].pr = pass.p.pr /\ e \in Event
    BY Kinds DEF Visible, TypeInv, TypeOK
  <2>2. e \in DOMAIN posted
    BY <1>1, <2>1 DEF InTime
  <2>3. QED
    BY <1>1, <2>1, <2>2 DEF Visible, Grows
<1>2. QED
  BY <1>1

LEMMA EnvNews ==
  ASSUME CursorInv, NewsInv, TypeInv, TypeInv', Grows, past'.told = past.told,
         UNCHANGED <<pass.phase, pass.p, pass.closed, pass.events>>,
         UNCHANGED <<pin.pr, pin.upto, pin.failures, pin.halted>>,
         pin'.delivered = NULL <=> pin.delivered = NULL
  PROVE  NewsInv'
<1>1. Stopped' <=> Stopped
  BY DEF Stopped
<1>2. PinCarried'
  BY <1>1, PinCarriedKept DEF CursorInv, NewsInv
<1>3. PassCarried'
  BY CarriedKept, CarriedAt DEF CursorInv, NewsInv, PassCarried
<1>4. StopIsKnown'
  BY <1>1 DEF NewsInv, StopIsKnown, ForNews
<1>5. ToldIsPolled'
  BY PolledKept DEF CursorInv, NewsInv, ToldIsPolled
<1>6. QED
  BY <1>2, <1>3, <1>4, <1>5 DEF NewsInv

LEMMA OutsideNews ==
  ASSUME CursorInv, NewsInv, TypeInv, TypeInv', GitHub \/ Tick \/ Session \/ UNCHANGED vars
  PROVE  NewsInv'
<1>1. CASE GitHub
  <2>1. ASSUME NEW pr \in PR, NEW e \in Event, Post(pr, e) PROVE NewsInv'
    <3>1. Grows
      BY <2>1, Kinds DEF Post, Grows
    <3>2. QED
      BY <2>1, <3>1, EnvNews DEF Post
  <2>2. ASSUME NEW e \in Event, Delete(e) PROVE NewsInv'
    <3>1. Grows
      BY <2>2, Kinds DEF Delete, Grows
    <3>2. QED
      BY <2>2, <3>1, EnvNews DEF Delete
  <2>3. ASSUME NEW pr \in PR, NEW state \in PRState, ChangeState(pr, state)
        PROVE  NewsInv'
    <3>1. Grows
      BY <2>3, Kinds DEF ChangeState, Grows
    <3>2. QED
      BY <2>3, <3>1, EnvNews DEF ChangeState
  <2>4. QED
    BY <1>1, <2>1, <2>2, <2>3 DEF GitHub
<1>2. CASE Tick
  <2>1. Grows
    BY <1>2, Kinds DEF Tick, Grows
  <2>2. UNCHANGED <<pass.phase, pass.p, pass.closed, pass.events>>
    BY <1>2, Numbers DEF Tick, Local
  <2>3. /\ UNCHANGED <<pin.pr, pin.upto, pin.failures>>
        /\ pin'.delivered = NULL <=> pin.delivered = NULL
    BY <1>2, AgedPin, Numbers DEF Tick
  <2>4. pin'.halted = pin.halted
    BY <1>2, Numbers DEF Tick, Aged, Pin
  <2>5. QED
    BY <1>2, <2>1, <2>2, <2>3, <2>4, EnvNews DEF Tick
<1>3. CASE Session
  <2>1. Grows /\ UNCHANGED past
    BY <1>3, Kinds DEF Grows, Session, ResumeTakes, ResumeFails, ByHand, TurnEnds, Ends
  <2>2. CASE Prompted
    <3>1. UNCHANGED <<pin.pr, pin.upto, pin.failures, pin.halted, pin.delivered>>
      BY <2>2, Numbers DEF Prompted, Pin
    <3>2. QED
      BY <2>1, <2>2, <3>1, PromptedType, EnvNews
  <2>3. CASE UNCHANGED <<pin, pass>>
    BY <2>1, <2>3, EnvNews
  <2>4. QED
    BY <1>3, <2>2, <2>3 DEF Session, ResumeTakes, ResumeFails, ByHand, TurnEnds, Ends
<1>4. CASE UNCHANGED vars
  <2>1. Grows
    BY <1>4, Kinds DEF vars, Grows
  <2>2. QED
    BY <1>4, <2>1, EnvNews DEF vars
<1>5. QED
  BY <1>1, <1>2, <1>3, <1>4

\* A person's pin has nothing to resume, and what a delivery carried stays.
LEMMA PersonNews ==
  ASSUME CursorInv, NewsInv, TypeInv, TypeInv', Person
  PROVE  NewsInv'
<1>1. CASE DoneOrReopen
  <2>1. Grows
    BY <1>1, Kinds DEF DoneOrReopen, Grows
  <2>2. QED
    BY <1>1, <2>1, EnvNews DEF DoneOrReopen
<1>2. CASE ~DoneOrReopen
  <2> DEFINE Fresh ==
        /\ UNCHANGED <<now, posted, deleted, pass>> /\ past'.told = past.told
        /\ pin'.failures = 0
        /\ pin'.delivered = NULL \/ UNCHANGED <<pin.pr, pin.delivered, pin.upto>>
  <2>1. Fresh
    <3>1. ASSUME NEW pr \in PR, SetPinPR(pr) PROVE Fresh
      BY <3>1, Numbers DEF SetPinPR, NoPin
    <3>2. CASE SetPin
      BY <3>2, Numbers DEF SetPin, Pin
    <3>3. CASE ClearPin
      BY <3>3, Numbers DEF ClearPin, NoPin
    <3>4. QED
      BY <1>2, <3>1, <3>2, <3>3 DEF Person
  <2>2. ~Stopped'
    BY <2>1, Numbers DEF Stopped
  <2>3. Grows
    BY <2>1, Kinds DEF Grows
  <2>4. PinCarried'
    <3>1. pin'.delivered # NULL => Carried(pin.pr, pin.upto)'
      BY <2>1, <2>3, CarriedKept, CarriedAt DEF CursorInv, NewsInv, PinCarried
    <3>2. QED
      BY <2>2, <3>1 DEF PinCarried
  <2>5. PassCarried'
    BY <2>1, <2>3, CarriedKept, CarriedAt DEF CursorInv, NewsInv, PassCarried
  <2>6. StopIsKnown'
    BY <2>1, <2>2 DEF StopIsKnown
  <2>7. ToldIsPolled'
    BY <2>1, <2>3, PolledKept DEF CursorInv, NewsInv, ToldIsPolled
  <2>8. QED
    BY <2>4, <2>5, <2>6, <2>7 DEF NewsInv
<1>3. QED
  BY <1>1, <1>2

-----------------------------------------------------------------------------
(***************************************************************************)
(* The steps of a pass, for the news of a stopped delivery.                *)
(***************************************************************************)

\* Only a launch tells the session anything.
LEMMA OnlyLaunchTells ==
  ASSUME TypeInv, Pass, ~Launch PROVE past'.told = past.told
BY Numbers DEF Pass, ReadPin, CheckPrompt, Confirm, FailPRDelivery, Poll, ResumePRDelivery,
   NoNews, SetPRSeen, Debounced, StopFirst, SetPRDelivered, GivesUp

LEMMA LeavesNews ==
  ASSUME Leaves, PinCarried' PROVE NewsInv'
<1>1. pass'.phase = "idle"
  BY DEF Leaves, Idle
<1>2. QED
  BY <1>1 DEF NewsInv, PassCarried, StopIsKnown, ToldIsPolled, Polling

\* A pass that ends and lifts the stop, or leaves the pin's deliveries alone.
LEMMA LeavesPinNews ==
  ASSUME CursorInv, NewsInv, TypeInv, TypeInv', Pass, ~Launch, Leaves,
         UNCHANGED <<pin.pr, pin.upto, pin.delivered, pin.failures, pin.halted>>
  PROVE  NewsInv'
BY PassGrows, OnlyLaunchTells, PinCarriedKept, LeavesNews DEF CursorInv, NewsInv, Stopped

\* A pass that goes on to launch, with what it polled.
LEMMA GoesOnNews ==
  ASSUME CursorInv, NewsInv, TypeInv, TypeInv', Pass, ~Launch,
         pass.phase \in Polling, pass'.phase \in {"polled", "due", "stopped"},
         UNCHANGED <<pass.p.pr, pass.closed, pass.events>>,
         UNCHANGED <<pin.pr, pin.upto, pin.delivered>>,
         ~Stopped'
  PROVE  NewsInv'
<1>1. Grows /\ past'.told = past.told
  BY PassGrows, OnlyLaunchTells
<1>2. PinCarried'
  BY <1>1, PinCarriedKept DEF CursorInv, NewsInv
<1>3. PassCarried' /\ StopIsKnown'
  BY DEF PassCarried, StopIsKnown
<1>4. ToldIsPolled'
  BY <1>1, PolledKept DEF CursorInv, NewsInv, ToldIsPolled
<1>5. QED
  BY <1>2, <1>3, <1>4 DEF NewsInv

LEMMA ReadPinNews ==
  ASSUME CursorInv, NewsInv, TypeInv, TypeInv', ReadPin PROVE NewsInv'
<1>1. Pass /\ ~Launch
  BY DEF Pass, ReadPin, Launch
<1>2. pass'.phase = "read" /\ pass'.p = pin /\ UNCHANGED pin
  <2>1. PICK gone \in BOOLEAN :
          pass' = [Idle EXCEPT !.phase = "read", !.p = pin, !.gone = gone]
    BY DEF ReadPin
  <2>2. QED
    BY <2>1, IdleType DEF ReadPin, Local
<1>3. Grows /\ past'.told = past.told
  BY <1>1, PassGrows, OnlyLaunchTells
<1>4. PinCarried'
  BY <1>2, <1>3, PinCarriedKept DEF CursorInv, NewsInv, Stopped
<1>5. PassCarried'
  BY <1>2, <1>3, CarriedKept, CarriedAt DEF CursorInv, NewsInv, PinCarried, PassCarried
<1>6. StopIsKnown' /\ ToldIsPolled'
  BY <1>2 DEF StopIsKnown, ToldIsPolled, Polling
<1>7. QED
  BY <1>4, <1>5, <1>6 DEF NewsInv

LEMMA CheckPromptNews ==
  ASSUME CursorInv, NewsInv, TypeInv, TypeInv', CheckPrompt PROVE NewsInv'
<1>1. Pass /\ ~Launch /\ UNCHANGED pin
  BY DEF Pass, CheckPrompt, Launch
<1>2. CASE pass' = Idle
  BY <1>1, <1>2, LeavesPinNews DEF Leaves
<1>3. ASSUME NEW phase \in {"confirmed", "unconfirmed"}, pass' = Settling(phase)
      PROVE  NewsInv'
  <2>1. pass'.phase = phase /\ pass'.p.pr = pass.p.pr /\ pass'.p.upto = pass.p.upto
    BY <1>3, SettlingType DEF TypeInv
  <2>2. Grows /\ past'.told = past.told
    BY <1>1, PassGrows, OnlyLaunchTells
  <2>3. PinCarried'
    BY <1>1, <2>2, PinCarriedKept DEF CursorInv, NewsInv, Stopped
  <2>4. PassCarried'
    BY <1>3, <2>1, <2>2, CarriedKept, CarriedAt
       DEF CheckPrompt, CursorInv, NewsInv, PassCarried
  <2>5. StopIsKnown' /\ ToldIsPolled'
    BY <1>3, <2>1 DEF StopIsKnown, ToldIsPolled, Polling
  <2>6. QED
    BY <2>3, <2>4, <2>5 DEF NewsInv
<1>4. QED
  BY <1>2, <1>3 DEF CheckPrompt

LEMMA ConfirmNews ==
  ASSUME CursorInv, NewsInv, TypeInv, TypeInv', Confirm PROVE NewsInv'
<1>1. Pass /\ ~Launch /\ Leaves
  BY DEF Pass, Confirm, Launch
<1>2. CASE pin.pr # pass.p.pr
  BY <1>1, <1>2, LeavesPinNews DEF Confirm, Writes
<1>3. CASE pin.pr = pass.p.pr
  <2>1. pin'.delivered = NULL /\ pin'.failures = 0
    BY <1>3, Numbers DEF Confirm, Writes, NoPin, Advanced, Pin
  <2>2. PinCarried'
    BY <2>1, Numbers DEF PinCarried, Stopped
  <2>3. QED
    BY <1>1, <2>2, LeavesNews
<1>4. QED
  BY <1>2, <1>3

\* Delivery stops on what the failed delivery carried.
LEMMA FailPRDeliveryNews ==
  ASSUME CursorInv, NewsInv, TypeInv, TypeInv', FailPRDelivery PROVE NewsInv'
<1>1. Pass /\ ~Launch /\ Leaves
  BY DEF Pass, FailPRDelivery, Launch
<1>2. CASE pin.pr # pass.p.pr
  BY <1>1, <1>2, LeavesPinNews DEF FailPRDelivery, Writes
<1>3. CASE pin.pr = pass.p.pr
  <2>1. /\ pin'.pr = pass.p.pr /\ pin'.delivered = NULL
        /\ pin'.failures = pin.failures + 1
        /\ pin'.halted = IF pin.failures + 1 >= MaxFailures THEN pass.p.upto ELSE NULL
    BY <1>3, Numbers DEF FailPRDelivery, Writes, Pin
  <2>2. Stopped' => Carried(pin.pr, pin.halted)'
    BY <1>1, <2>1, PassGrows, OnlyLaunchTells, CarriedKept, CarriedAt
       DEF FailPRDelivery, CursorInv, NewsInv, PassCarried, Stopped
  <2>3. QED
    BY <1>1, <2>1, <2>2, LeavesNews DEF PinCarried
<1>4. QED
  BY <1>2, <1>3

\* What outdoes a stopped delivery is not what it carried.
LEMMA OutdoneIsNews ==
  ASSUME CursorInv, NewsInv, TypeInv, TypeInv', pass.phase = "read",
         pass.p.delivered = NULL, Stopped,
         NEW closed \in BOOLEAN, Outdone(pass.p, Visible(pass.p.pr), closed)
  PROVE  /\ pass.p.pr = pin.pr
         /\ \/ closed # (pin.pr \in past.told)
            \/ Visible(pass.p.pr) \ past.told # {}
<1>1. pass.p.pr = pin.pr /\ pass.p.halted = pin.halted /\ Carried(pin.pr, pin.halted)
  BY DEF NewsInv, StopIsKnown, PinCarried
<1>2. CASE closed
  BY <1>1, <1>2 DEF Outdone, Carried
<1>3. CASE ~closed /\ pin.halted = NULL
  BY <1>1, <1>3 DEF Carried
<1>4. CASE ~closed /\ pin.halted # NULL
  <2>1. PICK e \in Visible(pass.p.pr) : posted[e].at > pin.halted
    BY <1>1, <1>4 DEF Outdone, NewSince
  <2>2. posted[e].at \in Nat /\ pin.halted \in Nat
    BY <1>4, <2>1, Kinds, Numbers DEF Visible, Pin
  <2>3. e \notin past.told
    BY <1>1, <1>4, <2>1, <2>2 DEF Carried
  <2>4. QED
    BY <1>1, <2>1, <2>3
<1>5. QED
  BY <1>2, <1>3, <1>4

LEMMA PollNews ==
  ASSUME CursorInv, NewsInv, TypeInv, TypeInv', Poll PROVE NewsInv'
<1> DEFINE events == Visible(pass.p.pr)
           closed == Closed(pass.p.pr)
<1>1. Pass /\ ~Launch /\ UNCHANGED <<posted, deleted, pin, past>> /\ pass.phase = "read"
  BY DEF Pass, Poll, Launch, World
<1>2. CASE pass' = Idle
  BY <1>1, <1>2, LeavesPinNews DEF Leaves
<1>3. ASSUME NEW phase \in {"polled", "news"}, pass' = Polled(phase, events, closed),
             phase = "polled" => pass.p.failures < MaxFailures,
             phase = "news" => Outdone(pass.p, events, closed)
      PROVE  NewsInv'
  <2>1. events \in SUBSET Event /\ closed \in BOOLEAN
    BY DEF Visible, Closed, TypeInv, TypeOK
  <2>2. /\ pass'.phase = phase /\ pass'.events = events /\ pass'.p.pr = pass.p.pr
        /\ pass'.closed = closed
    <3> HIDE DEF events, closed
    <3>1. pass'.closed = closed
      BY <1>3, Numbers DEF Polled, Local
    <3>2. QED
      BY <1>3, <2>1, <3>1, PolledType DEF TypeInv
  <2>3. PinCarried'
    BY <1>1, PassGrows, PinCarriedKept DEF CursorInv, NewsInv, Stopped
  <2>4. PassCarried'
    BY <1>3, <2>2 DEF PassCarried
  <2>5. StopIsKnown'
    <3>1. phase = "polled" => ~Stopped
      BY <1>1, <1>3, Numbers DEF Poll, NewsInv, StopIsKnown, Stopped
    <3>2. phase = "news" /\ Stopped =>
            /\ pass.p.pr = pin.pr
            /\ closed # (pin.pr \in past.told) \/ events \ past.told # {}
      BY <1>1, <1>3, <2>1, OutdoneIsNews DEF Poll
    <3> HIDE DEF events, closed
    <3>3. QED
      BY <1>1, <1>3, <2>2, <3>1, <3>2 DEF StopIsKnown, ForNews, Stopped
  <2>6. ToldIsPolled'
    <3>1. Visible(pass.p.pr)' = events
      BY <1>1, <2>2 DEF Visible
    <3>2. QED
      BY <1>3, <2>2, <3>1 DEF ToldIsPolled
  <2>7. QED
    BY <2>3, <2>4, <2>5, <2>6 DEF NewsInv
<1>4. QED
  BY <1>2, <1>3 DEF Poll

\* The write lifts the stop, or the pin watches another PR by now and is not stopped.
LEMMA ResumePRDeliveryNews ==
  ASSUME CursorInv, NewsInv, TypeInv, TypeInv', ResumePRDelivery PROVE NewsInv'
<1>1. Pass /\ ~Launch /\ pass.phase = "news"
  BY DEF Pass, ResumePRDelivery, Launch
<1>2. /\ pass'.phase = "polled"
      /\ UNCHANGED <<pass.p.pr, pass.closed, pass.events>>
  <2>1. pass' = [pass EXCEPT !.phase = "polled", !.p = [pass.p EXCEPT !.seen = NULL]]
    BY Numbers DEF ResumePRDelivery, Local
  <2>2. [pass.p EXCEPT !.seen = NULL].pr = pass.p.pr
    BY Numbers DEF Pin
  <2>3. QED
    BY <2>1, <2>2, Numbers DEF Local
<1>3. UNCHANGED <<pin.pr, pin.upto, pin.delivered>>
  BY Numbers DEF ResumePRDelivery, Writes, Pin
<1>4. ~Stopped'
  <2>1. CASE pin.pr = pass.p.pr
    BY <2>1, Numbers DEF ResumePRDelivery, Writes, Pin, Stopped
  <2>2. CASE pin.pr # pass.p.pr
    BY <1>1, <2>2 DEF ResumePRDelivery, Writes, NewsInv, StopIsKnown, Stopped
  <2>3. QED
    BY <2>1, <2>2
<1>5. QED
  BY <1>1, <1>2, <1>3, <1>4, GoesOnNews DEF Polling

LEMMA OnTheWayNews ==
  ASSUME CursorInv, NewsInv, TypeInv, TypeInv', NoNews \/ SetPRSeen \/ Debounced \/ StopFirst
  PROVE  NewsInv'
<1>1. Pass /\ ~Launch /\ UNCHANGED past
  BY DEF Pass, NoNews, SetPRSeen, Debounced, StopFirst, Launch
<1>2. CASE NoNews \/ SetPRSeen
  <2>1. Leaves /\ UNCHANGED <<pin.pr, pin.upto, pin.delivered, pin.failures, pin.halted>>
    BY <1>2, Numbers DEF NoNews, SetPRSeen, Writes, Pin
  <2>2. QED
    BY <1>1, <2>1, LeavesPinNews
<1>3. CASE Debounced
  <2>1. CASE pass' = Idle
    BY <1>1, <1>3, <2>1, LeavesPinNews DEF Debounced, Leaves
  <2>2. CASE pass' = [pass EXCEPT !.phase = "due", !.p.seen = NULL]
    <3>1. pass' = [pass EXCEPT !.phase = "due", !.p = [pass.p EXCEPT !.seen = NULL]]
      BY <2>2, Numbers DEF Local
    <3>2. [pass.p EXCEPT !.seen = NULL].pr = pass.p.pr
      BY Numbers DEF Pin
    <3>3. /\ pass'.phase = "due" /\ pass.phase = "polled" /\ UNCHANGED pin
          /\ UNCHANGED <<pass.p.pr, pass.closed, pass.events>>
      BY <1>3, <3>1, <3>2, Numbers DEF Debounced, Local
    <3>4. ~Stopped'
      BY <3>3 DEF NewsInv, StopIsKnown, Stopped
    <3>5. QED
      BY <1>1, <3>3, <3>4, GoesOnNews DEF Polling
  <2>3. QED
    BY <1>3, <2>1, <2>2 DEF Debounced
<1>4. CASE StopFirst
  <2>1. /\ pass'.phase = "stopped" /\ pass.phase = "due" /\ UNCHANGED pin
        /\ UNCHANGED <<pass.p, pass.closed, pass.events>>
    BY <1>4, Numbers DEF StopFirst, Enters, Local
  <2>2. ~Stopped'
    BY <2>1 DEF NewsInv, StopIsKnown, Stopped
  <2>3. QED
    BY <1>1, <2>1, <2>2, GoesOnNews DEF Polling
<1>5. QED
  BY <1>2, <1>3, <1>4

\* A launch replaces what the session was told, and nothing else is out.
LEMMA LaunchNews ==
  ASSUME CursorInv, NewsInv, TypeInv, TypeInv', Launch PROVE NewsInv'
<1>1. /\ pass'.phase = "launched" /\ pass.phase \in {"due", "stopped"}
      /\ UNCHANGED <<pass.p, pass.closed, pass.events, pin, posted, deleted>>
  BY Numbers DEF Launch, Enters, World, Local
<1>2. past'.told = (past.told \ PR) \cup (IF pass.closed THEN {pass.p.pr} ELSE News)
  BY Numbers DEF Launch
<1>3. pin.delivered = NULL /\ pass.p.pr \in PR
  BY <1>1 DEF TypeInv, Held, Polling
<1>4. PinCarried'
  BY <1>1, <1>3 DEF PinCarried, NewsInv, StopIsKnown, Stopped
<1>5. PassCarried' /\ StopIsKnown'
  BY <1>1 DEF PassCarried, NewsInv, StopIsKnown, Stopped
<1>6. ToldIsPolled'
  <2>1. Visible(pass.p.pr)' = Visible(pass.p.pr)
    BY <1>1 DEF Visible
  <2>2. Visible(pass.p.pr) \cap past'.told \subseteq pass.events
    <3>1. Visible(pass.p.pr) \subseteq Event
      BY Kinds DEF Visible
    <3>2. Visible(pass.p.pr) \cap past.told \subseteq pass.events
      BY <1>1 DEF NewsInv, ToldIsPolled, Polling
    <3>3. QED
      BY <1>2, <1>3, <3>1, <3>2, Kinds, PRWatchAssumption
  <2>3. pass.closed <=> pass.p.pr \in past'.told
    BY <1>2, <1>3, Kinds, PRWatchAssumption
  <2>4. QED
    BY <1>1, <2>1, <2>2, <2>3 DEF ToldIsPolled
<1>7. QED
  BY <1>4, <1>5, <1>6 DEF NewsInv

LEMMA SetPRDeliveredNews ==
  ASSUME CursorInv, NewsInv, TypeInv, TypeInv', SetPRDelivered PROVE NewsInv'
<1>1. Pass /\ ~Launch /\ Leaves /\ pass.phase = "launched" /\ UNCHANGED <<posted, deleted, past>>
  BY DEF Pass, SetPRDelivered, Launch, World
<1>2. CASE pin.pr # pass.p.pr
  BY <1>1, <1>2, LeavesPinNews DEF SetPRDelivered, Writes
<1>3. CASE pin.pr = pass.p.pr
  <2>1. /\ pin'.pr = pass.p.pr /\ pin'.failures = pin.failures
        /\ pin'.upto = IF pass.closed THEN NULL ELSE Newest
    BY <1>3, Numbers DEF SetPRDelivered, Writes, Pin
  <2>2. ~Stopped'
    BY <1>1, <2>1 DEF NewsInv, StopIsKnown, Stopped
  <2>3. pass.closed => Carried(pass.p.pr, NULL)
    BY <1>1 DEF NewsInv, ToldIsPolled, Carried
  <2>4. ~pass.closed => Carried(pass.p.pr, Newest)
    <3>1. SUFFICES ASSUME ~pass.closed PROVE Carried(pass.p.pr, Newest)
      OBVIOUS
    <3>2. /\ News # {} /\ Newest \in Time
          /\ \A e \in News : posted[e].at <= Newest
      BY <1>1, <3>1, NewestType DEF TypeInv, Held
    <3>3. PICK n \in News : TRUE
      BY <3>2
    <3>4. /\ pass.p.cursor \in Nat /\ Newest \in Nat /\ Newest # NULL
          /\ posted[n].at \in Nat /\ posted[n].at > pass.p.cursor
      BY <3>2, <3>3, Kinds DEF News, NewSince
    <3>5. pass.p.cursor < Newest
      BY <3>2, <3>3, <3>4
    <3>6. ASSUME NEW e \in Visible(pass.p.pr) \cap past.told PROVE posted[e].at <= Newest
      <4>1. e \in pass.events /\ posted[e].at \in Nat
        BY <1>1, Kinds DEF NewsInv, ToldIsPolled, Polling
      <4>2. CASE e \in News
        BY <3>2, <4>2
      <4>3. CASE e \notin News
        <5>1. ~(posted[e].at > pass.p.cursor)
          BY <4>1, <4>3 DEF News, NewSince
        <5>2. QED
          BY <3>4, <3>5, <4>1, <5>1
      <4>4. QED
        BY <4>2, <4>3
    <3>7. QED
      BY <1>1, <3>1, <3>4, <3>6 DEF NewsInv, ToldIsPolled, Carried
  <2>5. Carried(pin.pr, pin.upto)'
    BY <1>1, <2>1, <2>3, <2>4 DEF Carried, Visible
  <2>6. QED
    BY <1>1, <2>2, <2>5, LeavesNews DEF PinCarried
<1>4. QED
  BY <1>2, <1>3

LEMMA GivesUpNews ==
  ASSUME CursorInv, NewsInv, TypeInv, TypeInv', GivesUp PROVE NewsInv'
<1>1. Pass /\ past'.told = past.told /\ Leaves /\ UNCHANGED pin
  BY Numbers DEF Pass, GivesUp
<1>2. PinCarried'
  BY <1>1, PassGrows, PinCarriedKept DEF CursorInv, NewsInv, Stopped
<1>3. QED
  BY <1>1, <1>2, LeavesNews

-----------------------------------------------------------------------------

LEMMA NewsInit == Init => NewsInv
<1> SUFFICES ASSUME Init PROVE NewsInv
  OBVIOUS
<1>1. PinCarried
  BY PRWatchAssumption DEF Init, PinCarried, Stopped, NoPin
<1>2. PassCarried /\ StopIsKnown /\ ToldIsPolled
  BY DEF Init, PassCarried, StopIsKnown, ToldIsPolled, Idle, Polling
<1>3. QED
  BY <1>1, <1>2 DEF NewsInv

LEMMA NewsStep == NewsInv /\ CursorInv /\ TypeInv /\ [Next]_vars => NewsInv'
<1> SUFFICES ASSUME NewsInv, CursorInv, TypeInv, [Next]_vars PROVE NewsInv'
  OBVIOUS
<1>1. TypeInv'
  BY TypeStep
<1>2. CASE GitHub \/ Tick \/ Session \/ UNCHANGED vars
  BY <1>1, <1>2, OutsideNews
<1>3. CASE Person
  BY <1>1, <1>3, PersonNews
<1>4. CASE Pass
  BY <1>1, <1>4, ReadPinNews, CheckPromptNews, ConfirmNews, FailPRDeliveryNews, PollNews,
     ResumePRDeliveryNews, OnTheWayNews, LaunchNews, SetPRDeliveredNews, GivesUpNews DEF Pass
<1>5. QED
  BY <1>2, <1>3, <1>4 DEF Next

\* However often the person re-pins, deletes and reopens while passes are under way, a
\* pass resumes a stopped delivery only for activity that the last launch did not carry,
\* or for a PR that has been closed or reopened since.
THEOREM ResumesForNews == Spec => ResumedForNews
<1>1. Init => TypeInv /\ CursorInv /\ NewsInv
  BY TypeInit, CursorInit, NewsInit
<1>2. TypeInv /\ CursorInv /\ NewsInv /\ [Next]_vars => TypeInv' /\ CursorInv' /\ NewsInv'
  BY TypeStep, CursorStep, NewsStep
<1>3. NewsInv /\ ResumePRDelivery /\ pin.pr = pass.p.pr /\ pin.failures >= MaxFailures
        => pass.closed # (pin.pr \in past.told) \/ pass.events \ past.told # {}
  BY DEF ResumePRDelivery, NewsInv, StopIsKnown, Stopped, ForNews
<1>4. QED
  BY <1>1, <1>2, <1>3, PTL DEF Spec, ResumedForNews

-----------------------------------------------------------------------------
(***************************************************************************)
(* The proof that the pin and its passes are an inbox.                     *)
(*                                                                         *)
(* What is settled never comes back because the cursor does not move back, *)
(* except behind the time at which the pin was put on, where nothing is    *)
(* settled.  A pass that reads the pin before a re-pin of the same PR, and *)
(* confirms after it, does move the cursor back that far.                  *)
(***************************************************************************)

\* The cursor at x settles no less than it does where it is.
Ahead(x) == pin.cursor <= x \/ pin.cursor <= past.since

\* Where the cursor may be put, and what the news of a pass is newer than.
Ordered ==
  /\ pin.upto # NULL => Ahead(pin.upto)
  /\ pass.phase \in {"read"} \cup Polling /\ pin.pr = pass.p.pr => Ahead(pass.p.cursor)
  /\ pass.phase \in {"read", "confirmed"} /\ pin.pr = pass.p.pr /\ pass.p.upto # NULL
       => Ahead(pass.p.upto)

\* A step that moves neither the cursor nor the PR, and takes no new position for
\* either of them.
LEMMA OrderedKept ==
  ASSUME Ordered, UNCHANGED <<pin.pr, pin.cursor, past.since>>,
         pin'.upto \in {pin.upto, NULL},
         pass'.phase \in {"read"} \cup Polling =>
           pass.phase \in {"read"} \cup Polling /\ UNCHANGED <<pass.p.pr, pass.p.cursor>>,
         pass'.phase \in {"read", "confirmed"} =>
           pass.phase \in {"read", "confirmed"} /\ UNCHANGED <<pass.p.pr, pass.p.upto>>
  PROVE  Ordered'
<1>1. pin'.upto # NULL => Ahead(pin.upto)'
  BY DEF Ordered, Ahead
<1>2. pass'.phase \in {"read"} \cup Polling /\ pin'.pr = pass'.p.pr => Ahead(pass.p.cursor)'
  BY DEF Ordered, Ahead
<1>3. pass'.phase \in {"read", "confirmed"} /\ pin'.pr = pass'.p.pr /\ pass'.p.upto # NULL
        => Ahead(pass.p.upto)'
  BY DEF Ordered, Ahead
<1>4. QED
  BY <1>1, <1>2, <1>3 DEF Ordered

\* A pass that ends leaves only the pin to look at.
LEMMA LeavesOrdered ==
  ASSUME Leaves, pin'.upto # NULL => Ahead(pin.upto)'
  PROVE  Ordered'
<1>1. pass'.phase = "idle"
  BY DEF Leaves, Idle
<1>2. QED
  BY <1>1 DEF Ordered, Polling

LEMMA OutsideOrdered ==
  ASSUME Ordered, TypeInv, GitHub \/ Tick \/ Session \/ UNCHANGED vars
  PROVE  Ordered'
<1>1. CASE GitHub
  <2>1. UNCHANGED <<pin, pass, past>>
    BY <1>1 DEF GitHub, Post, Delete, ChangeState
  <2>2. QED
    BY <2>1, OrderedKept
<1>2. CASE Tick
  <2>1. UNCHANGED <<pass.phase, pass.p>>
    BY <1>2, Numbers DEF Tick, Local
  <2>2. UNCHANGED <<pin.pr, pin.cursor, pin.upto, past>>
    BY <1>2, Numbers DEF Tick, Aged, Pin
  <2>3. QED
    BY <2>1, <2>2, OrderedKept
<1>3. CASE Session
  <2>1. CASE Prompted
    <3>1. UNCHANGED past
      BY <1>3 DEF Session, ResumeTakes, ResumeFails, ByHand, TurnEnds, Ends
    <3>2. UNCHANGED <<pin.pr, pin.cursor, pin.upto>>
      BY <2>1, Numbers DEF Prompted, Pin
    <3>3. UNCHANGED <<pass.phase, pass.p>>
      BY <2>1, Numbers DEF Prompted, Local
    <3>4. QED
      BY <3>1, <3>2, <3>3, OrderedKept
  <2>2. CASE UNCHANGED <<pin, pass>>
    <3>1. UNCHANGED past
      BY <1>3 DEF Session, ResumeTakes, ResumeFails, ByHand, TurnEnds, Ends
    <3>2. QED
      BY <2>2, <3>1, OrderedKept
  <2>3. QED
    BY <1>3, <2>1, <2>2 DEF Session, ResumeTakes, ResumeFails, ByHand, TurnEnds, Ends
<1>4. CASE UNCHANGED vars
  BY <1>4, OrderedKept DEF vars
<1>5. QED
  BY <1>1, <1>2, <1>3, <1>4

LEMMA PersonOrdered ==
  ASSUME Ordered, TypeInv, Person
  PROVE  Ordered'
<1>1. ASSUME NEW pr \in PR, SetPinPR(pr) PROVE Ordered'
  <2>1. pin'.cursor = past'.since /\ pin'.cursor \in Nat
    BY <1>1, Numbers, Kinds DEF SetPinPR, NoPin
  <2>2. \A x : Ahead(x)'
    BY <2>1 DEF Ahead
  <2>3. QED
    BY <2>2 DEF Ordered, Ahead
<1>2. CASE SetPin
  <2>1. UNCHANGED <<pin.pr, pin.cursor, pin.upto, past.since, pass>>
    BY <1>2, Numbers DEF SetPin, Pin
  <2>2. QED
    BY <2>1, OrderedKept
<1>3. CASE ClearPin
  <2>1. pin'.pr = NULL /\ pin'.upto = NULL /\ UNCHANGED pass
    BY <1>3 DEF ClearPin, NoPin
  <2>2. pass.phase # "idle" => pass.p.pr # NULL
    BY PRWatchAssumption DEF TypeInv, Held
  <2>3. QED
    BY <2>1, <2>2 DEF Ordered, Polling
<1>4. CASE DoneOrReopen
  BY <1>4, OrderedKept DEF DoneOrReopen
<1>5. QED
  BY <1>1, <1>2, <1>3, <1>4 DEF Person

LEMMA ReadPinOrdered ==
  ASSUME Ordered, TypeInv, ReadPin PROVE Ordered'
<1>1. pass'.phase = "read" /\ pass'.p = pin /\ UNCHANGED <<pin, past>>
  <2>1. PICK gone \in BOOLEAN :
          pass' = [Idle EXCEPT !.phase = "read", !.p = pin, !.gone = gone]
    BY DEF ReadPin
  <2>2. QED
    BY <2>1, IdleType DEF ReadPin, Local
<1>2. pin.cursor <= pin.cursor
  BY Kinds DEF Time
<1>3. QED
  BY <1>1, <1>2 DEF Ordered, Ahead, Polling

LEMMA CheckPromptOrdered ==
  ASSUME Ordered, TypeInv, CheckPrompt PROVE Ordered'
<1>1. UNCHANGED <<pin, past>> /\ pass.phase = "read"
  BY DEF CheckPrompt
<1>2. CASE pass' = Idle
  BY <1>1, <1>2, LeavesOrdered DEF Leaves, Ordered, Ahead
<1>3. ASSUME NEW phase \in {"confirmed", "unconfirmed"}, pass' = Settling(phase)
      PROVE  Ordered'
  <2>1. pass'.phase = phase /\ pass'.p.pr = pass.p.pr /\ pass'.p.upto = pass.p.upto
    BY <1>3, SettlingType DEF TypeInv
  <2>2. QED
    BY <1>1, <1>3, <2>1, OrderedKept DEF Polling
<1>4. QED
  BY <1>2, <1>3 DEF CheckPrompt

LEMMA PollOrdered ==
  ASSUME Ordered, TypeInv, Poll PROVE Ordered'
<1> DEFINE events == Visible(pass.p.pr)
           closed == Closed(pass.p.pr)
<1>1. UNCHANGED <<pin, past>> /\ pass.phase = "read"
  BY DEF Poll
<1>2. CASE pass' = Idle
  BY <1>1, <1>2, LeavesOrdered DEF Leaves, Ordered, Ahead
<1>3. ASSUME NEW phase \in {"polled", "news"}, pass' = Polled(phase, events, closed)
      PROVE  Ordered'
  <2> HIDE DEF events, closed
  <2> DEFINE q == [pass.p EXCEPT !.failures = 0, !.halted = NULL]
  <2>1. q.pr = pass.p.pr /\ q.cursor = pass.p.cursor
    BY Numbers DEF Pin
  <2>2. pass' = [pass EXCEPT !.phase = phase, !.events = events, !.closed = closed, !.p = q]
    BY <1>3, Numbers DEF Polled, Local
  <2>3. pass'.phase = phase /\ pass'.p = q
    <3> HIDE DEF q
    <3>1. QED
      BY <2>2, Numbers DEF Local
  <2>4. QED
    BY <1>1, <1>3, <2>1, <2>3, OrderedKept DEF Polling
<1>4. QED
  BY <1>2, <1>3 DEF Poll

\* Marks, the debounce, the stop and the launch leave the cursors alone.
LEMMA OnTheWayOrdered ==
  ASSUME Ordered, TypeInv,
         ResumePRDelivery \/ NoNews \/ SetPRSeen \/ Debounced \/ StopFirst \/ Launch
  PROVE  Ordered'
<1> DEFINE q == [pass.p EXCEPT !.seen = NULL]
<1>1. q.pr = pass.p.pr /\ q.cursor = pass.p.cursor
  BY Numbers DEF Pin
<1>2. UNCHANGED <<pin.pr, pin.cursor, pin.upto, past.since>>
  BY Numbers DEF ResumePRDelivery, NoNews, SetPRSeen, Debounced, StopFirst, Launch,
                 Writes, Pin
<1>3. CASE pass' = Idle
  BY <1>2, <1>3, LeavesOrdered DEF Leaves, Ordered, Ahead
<1>4. CASE /\ pass.phase \in Polling
           /\ \E phase \in Polling : pass' = [pass EXCEPT !.phase = phase, !.p = q]
  <2>1. PICK phase \in Polling : pass' = [pass EXCEPT !.phase = phase, !.p = q]
    BY <1>4
  <2>2. pass'.phase = phase /\ pass'.p = q
    <3> HIDE DEF q
    <3>1. QED
      BY <2>1, Numbers DEF Local
  <2>3. QED
    BY <1>1, <1>2, <1>4, <2>2, OrderedKept DEF Polling
<1>5. CASE /\ pass.phase \in Polling
           /\ \E phase \in Polling : Enters(phase)
  <2>1. PICK phase \in Polling : Enters(phase)
    BY <1>5
  <2>2. pass'.phase = phase /\ pass'.p = pass.p
    BY <2>1, Numbers DEF Enters, Local
  <2>3. QED
    BY <1>2, <1>5, <2>2, OrderedKept DEF Polling
<1>6. CASE ResumePRDelivery
  <2>1. pass' = [pass EXCEPT !.phase = "polled", !.p = q]
    BY <1>6, Numbers DEF ResumePRDelivery, Local
  <2>2. QED
    BY <1>4, <1>6, <2>1 DEF ResumePRDelivery, Polling
<1>7. CASE Debounced /\ pass' # Idle
  <2>1. pass' = [pass EXCEPT !.phase = "due", !.p = q]
    BY <1>7, Numbers DEF Debounced, Local
  <2>2. QED
    BY <1>4, <1>7, <2>1 DEF Debounced, Polling
<1>8. CASE StopFirst \/ Launch
  BY <1>5, <1>8 DEF StopFirst, Launch, Polling
<1>9. QED
  BY <1>3, <1>6, <1>7, <1>8 DEF NoNews, SetPRSeen, Leaves

LEMMA ConfirmOrdered ==
  ASSUME Ordered, TypeInv, Confirm PROVE Ordered'
<1>1. CASE pin' = pin
  BY <1>1, LeavesOrdered DEF Confirm, Ordered, Ahead
<1>2. CASE pin'.upto = NULL
  BY <1>2, LeavesOrdered DEF Confirm
<1>3. NoPin.upto = NULL /\ Advanced.upto = NULL
  BY Numbers DEF NoPin, Advanced, Pin
<1>4. QED
  BY <1>1, <1>2, <1>3 DEF Confirm, Writes

LEMMA FailPRDeliveryOrdered ==
  ASSUME Ordered, TypeInv, FailPRDelivery PROVE Ordered'
<1>1. CASE pin' = pin
  BY <1>1, LeavesOrdered DEF FailPRDelivery, Ordered, Ahead
<1>2. CASE pin' # pin
  <2>1. pin'.upto = NULL
    BY <1>2, Numbers DEF FailPRDelivery, Writes, Pin
  <2>2. QED
    BY <2>1, LeavesOrdered DEF FailPRDelivery
<1>3. QED
  BY <1>1, <1>2

\* What a launch carried is newer than the cursor that the pass has read.
LEMMA SetPRDeliveredOrdered ==
  ASSUME Ordered, CursorInv, TypeInv, SetPRDelivered PROVE Ordered'
<1>1. CASE pin' = pin
  BY <1>1, LeavesOrdered DEF SetPRDelivered, Ordered, Ahead
<1>2. CASE pin.pr = pass.p.pr
  <2>1. /\ pin'.cursor = pin.cursor /\ UNCHANGED past
        /\ pin'.upto = IF pass.closed THEN NULL ELSE Newest
    BY <1>2, Numbers DEF SetPRDelivered, Writes, Pin
  <2>2. ASSUME ~pass.closed PROVE Ahead(Newest)
    <3>1. pass.phase = "launched" /\ Ahead(pass.p.cursor)
      BY <1>2 DEF SetPRDelivered, Ordered, Polling
    <3>2. PICK f \in News : TRUE
      BY <2>2, <3>1 DEF TypeInv, Held
    <3>3. /\ pass.p.cursor < posted[f].at /\ posted[f].at <= Newest
          /\ posted[f].at \in Nat /\ Newest \in Nat
      <4>1. posted[f].at <= Newest /\ Newest \in Nat
        BY <2>2, <3>1, NewestType, Kinds DEF TypeInv, Held
      <4>2. QED
        BY <4>1, Kinds DEF News, NewSince
    <3>4. pin.cursor \in Nat /\ pass.p.cursor \in Nat
      BY Kinds
    <3>5. QED
      BY <3>1, <3>3, <3>4 DEF Ahead
  <2>3. pin'.upto # NULL => Ahead(pin.upto)'
    BY <2>1, <2>2 DEF Ahead
  <2>4. QED
    BY <2>3, LeavesOrdered DEF SetPRDelivered
<1>3. QED
  BY <1>1, <1>2 DEF SetPRDelivered, Writes

LEMMA GivesUpOrdered ==
  ASSUME Ordered, TypeInv, GivesUp PROVE Ordered'
BY LeavesOrdered, Numbers DEF GivesUp, Ordered, Ahead

LEMMA OrderedInit == Init => Ordered
BY PRWatchAssumption DEF Init, Ordered, NoPin, Idle, Polling

LEMMA OrderedStep == Ordered /\ CursorInv /\ TypeInv /\ [Next]_vars => Ordered'
<1> SUFFICES ASSUME Ordered, CursorInv, TypeInv, [Next]_vars PROVE Ordered'
  OBVIOUS
<1>1. CASE GitHub \/ Tick \/ Session \/ UNCHANGED vars
  BY <1>1, OutsideOrdered
<1>2. CASE Person
  BY <1>2, PersonOrdered
<1>3. CASE Pass
  BY <1>3, ReadPinOrdered, CheckPromptOrdered, ConfirmOrdered, FailPRDeliveryOrdered,
     PollOrdered, OnTheWayOrdered, SetPRDeliveredOrdered, GivesUpOrdered DEF Pass
<1>4. QED
  BY <1>1, <1>2, <1>3 DEF Next

-----------------------------------------------------------------------------
(***************************************************************************)
(* Each step is a step of the inbox.                                       *)
(***************************************************************************)

LEMMA SettledKept ==
  ASSUME UNCHANGED <<posted, pin.pr, pin.cursor, past.since>>
  PROVE  Settled' = Settled
BY DEF Settled

\* A step that the inbox does not see.
LEMMA Unseen ==
  ASSUME UNCHANGED <<posted, deleted, pin.pr, pin.cursor, past.since>>,
         past'.told \cap Event = past.told \cap Event
  PROVE  UNCHANGED Inbox!ivars
BY SettledKept DEF Inbox!ivars

\* Activity that was told has a twin among what the inbox has handed over.
LEMMA ToldHasTwin ==
  ASSUME TypeInv, NEW e \in DOMAIN posted, posted[e].pr = pin.pr,
         Told(pin.pr, posted[e].at)
  PROVE  Inbox!HasTwinIn(past.told \cap Event, e)
<1>1. PICK x \in past.told \cap Event : posted[x] = [pr |-> pin.pr, at |-> posted[e].at]
  BY DEF Told
<1>2. posted[e] = [pr |-> pin.pr, at |-> posted[e].at]
  BY Kinds
<1>3. QED
  BY <1>1, <1>2 DEF Inbox!HasTwinIn

LEMMA PostComes ==
  ASSUME CursorInv, TypeInv, NEW pr \in PR, NEW e \in Event, Post(pr, e)
  PROVE  Inbox!Comes(e)
<1>1. /\ e \notin DOMAIN posted
      /\ DOMAIN posted' = DOMAIN posted \cup {e}
      /\ \A x \in DOMAIN posted : posted'[x] = posted[x]
      /\ posted'[e] = [pr |-> pr, at |-> now]
      /\ UNCHANGED <<deleted, pin, past>>
  BY DEF Post
<1>2. CASE ~(pr = pin.pr /\ past.since < now /\ now <= pin.cursor)
  <2>1. Settled' = Settled
    BY <1>1, <1>2 DEF Settled
  <2>2. QED
    BY <1>1, <2>1 DEF Inbox!Comes
<1>3. CASE pr = pin.pr /\ past.since < now /\ now <= pin.cursor
  <2>1. Settled' = Settled \cup {e}
    BY <1>1, <1>3 DEF Settled
  <2>2. now = pin.cursor /\ Told(pin.pr, now)
    <3>1. Reached(pin.cursor)
      BY <1>3, PRWatchAssumption DEF CursorInv, PinReached
    <3>2. pin.cursor \in Nat /\ now \in Nat
      BY Kinds
    <3>3. now = pin.cursor
      BY <1>3, <3>1, <3>2 DEF Reached
    <3>4. QED
      BY <1>3, <3>1, <3>3 DEF Reached
  <2>3. PICK x \in past.told \cap Event : posted[x] = [pr |-> pin.pr, at |-> now]
    BY <2>2 DEF Told
  <2>4. x \in past'.told \cap Event /\ posted'[x] = posted'[e]
    BY <1>1, <1>3, <2>3 DEF CursorInv, InTime
  <2>5. Inbox!HasTwinIn(past.told \cap Event, e)'
    BY <2>4 DEF Inbox!HasTwinIn
  <2>6. posted'[e].pr = pin.pr
    BY <1>1, <1>3
  <2>7. QED
    BY <1>1, <2>1, <2>5, <2>6 DEF Inbox!Comes
<1>4. QED
  BY <1>2, <1>3

LEMMA OutsideInbox ==
  ASSUME CursorInv, TypeInv, GitHub \/ Tick \/ Session \/ UNCHANGED vars
  PROVE  [Inbox!INext]_(Inbox!ivars)
<1>1. CASE GitHub
  <2>1. ASSUME NEW pr \in PR, NEW e \in Event, Post(pr, e) PROVE Inbox!INext
    BY <2>1, PostComes DEF Inbox!INext
  <2>2. ASSUME NEW e \in Event, Delete(e) PROVE Inbox!INext
    <3>1. UNCHANGED <<posted, pin, past>> /\ deleted' = deleted \cup {e} /\ e \in DOMAIN posted
      BY <2>2 DEF Delete
    <3>2. Inbox!Goes(e)
      BY <3>1, SettledKept DEF Inbox!Goes
    <3>3. QED
      BY <3>2 DEF Inbox!INext
  <2>3. ASSUME NEW pr \in PR, NEW state \in PRState, ChangeState(pr, state)
        PROVE  UNCHANGED Inbox!ivars
    BY <2>3, Unseen DEF ChangeState
  <2>4. QED
    BY <1>1, <2>1, <2>2, <2>3 DEF GitHub
<1>2. CASE Tick
  <2>1. UNCHANGED <<pin.pr, pin.cursor>>
    BY <1>2, Numbers DEF Tick, Aged, Pin
  <2>2. QED
    BY <1>2, <2>1, Unseen DEF Tick
<1>3. CASE Session
  <2>1. UNCHANGED <<posted, deleted, past>>
    BY <1>3 DEF Session, ResumeTakes, ResumeFails, ByHand, TurnEnds, Ends
  <2>2. UNCHANGED <<pin.pr, pin.cursor>>
    BY <1>3, Numbers DEF Session, ResumeTakes, ResumeFails, ByHand, TurnEnds, Ends,
                         Prompted, Pin
  <2>3. QED
    BY <2>1, <2>2, Unseen
<1>4. CASE UNCHANGED vars
  BY <1>4, Unseen DEF vars
<1>5. QED
  BY <1>1, <1>2, <1>3, <1>4

\* A pin put on, or taken off, starts with an inbox that has settled nothing.
LEMMA PersonInbox ==
  ASSUME TypeInv, Person
  PROVE  [Inbox!INext]_(Inbox!ivars)
<1>1. ASSUME NEW pr \in PR, SetPinPR(pr) PROVE Inbox!INext
  <2>1. /\ UNCHANGED <<posted, deleted, past.told>>
        /\ pin'.pr = pr /\ pin'.cursor = now /\ past'.since = now
    BY <1>1, Numbers DEF SetPinPR, NoPin
  <2>2. Settled' = {}
    BY <2>1, Kinds DEF Settled, Time
  <2>3. Inbox!Pins(pr)
    BY <2>1, <2>2 DEF Inbox!Pins
  <2>4. QED
    BY <2>3 DEF Inbox!INext
<1>2. CASE SetPin
  <2>1. UNCHANGED <<posted, deleted, pin.pr, pin.cursor, past.since, past.told>>
    BY <1>2, Numbers DEF SetPin, Pin
  <2>2. QED
    BY <2>1, Unseen
<1>3. CASE ClearPin
  <2>1. UNCHANGED <<posted, deleted, past.told>> /\ pin'.pr = NULL
    BY <1>3, Numbers DEF ClearPin, NoPin
  <2>2. Settled' = {}
    BY <2>1, Kinds, PRWatchAssumption DEF Settled
  <2>3. Inbox!Pins(NULL)
    BY <2>1, <2>2 DEF Inbox!Pins
  <2>4. QED
    BY <2>3 DEF Inbox!INext
<1>4. CASE DoneOrReopen
  BY <1>4, Unseen DEF DoneOrReopen
<1>5. QED
  BY <1>1, <1>2, <1>3, <1>4 DEF Person

\* A confirmation settles what its delivery reached.
LEMMA ConfirmSettles ==
  ASSUME Ordered, CursorInv, TypeInv, Confirm
  PROVE  [Inbox!INext]_(Inbox!ivars)
<1>1. UNCHANGED <<posted, deleted, past.since, past.told>>
  BY Numbers DEF Confirm, World
<1>2. CASE pin.pr # pass.p.pr
  BY <1>1, <1>2, Unseen DEF Confirm, Writes
<1>3. CASE pin.pr = pass.p.pr /\ pass.p.upto = NULL
  <2>1. pin'.pr = NULL
    BY <1>3 DEF Confirm, Writes, NoPin
  <2>2. Settled' = {}
    BY <1>1, <2>1, Kinds, PRWatchAssumption DEF Settled
  <2>3. Inbox!Pins(NULL)
    BY <1>1, <2>1, <2>2 DEF Inbox!Pins
  <2>4. QED
    BY <2>3 DEF Inbox!INext
<1>4. CASE pin.pr = pass.p.pr /\ pass.p.upto # NULL
  <2>1. pin'.pr = pin.pr /\ pin'.cursor = pass.p.upto
    BY <1>4, Numbers DEF Confirm, Writes, Advanced, Pin
  <2>2. Ahead(pass.p.upto) /\ Reached(pass.p.upto)
    BY <1>4 DEF Confirm, Ordered, CursorInv, PassReached
  <2>3. Settled \subseteq Settled'
    <3>1. pin.cursor \in Nat /\ pass.p.upto \in Nat /\ past.since \in Nat
      BY <1>4, Kinds
    <3>2. \A e \in DOMAIN posted : posted[e].at \in Nat
      BY Kinds
    <3>3. QED
      BY <1>1, <2>1, <2>2, <3>1, <3>2 DEF Settled, Ahead
  <2>4. ASSUME NEW e \in Settled'
        PROVE  /\ posted[e].pr = pin.pr
               /\ e \in deleted \/ Inbox!HasTwinIn(past.told \cap Event, e)
    <3>1. /\ e \in DOMAIN posted /\ posted[e].pr = pin.pr
          /\ past.since < posted[e].at /\ posted[e].at <= pass.p.upto
      BY <1>1, <2>1, <2>4 DEF Settled
    <3>2. e \notin deleted => Told(pin.pr, posted[e].at)
      BY <2>2, <3>1 DEF Reached, Visible
    <3>3. QED
      BY <3>1, <3>2, ToldHasTwin
  <2>5. Settled' \in SUBSET DOMAIN posted /\ Settled' = Settled \cup Settled'
    BY <1>1, <2>3 DEF Settled
  <2>6. Inbox!Settles(Settled')
    BY <1>1, <2>1, <2>4, <2>5 DEF Inbox!Settles
  <2>7. QED
    BY <2>5, <2>6 DEF Inbox!INext
<1>5. QED
  BY <1>2, <1>3, <1>4

\* The news of a pass is newer than the cursor, wherever that is by now, or older than
\* the pin.
LEMMA LaunchHandsOver ==
  ASSUME Ordered, CursorInv, TypeInv, Launch
  PROVE  [Inbox!INext]_(Inbox!ivars)
<1>1. /\ UNCHANGED <<posted, deleted, pin, past.since>>
      /\ past'.told = (past.told \ PR) \cup (IF pass.closed THEN {pass.p.pr} ELSE News)
  BY Numbers DEF Launch, World
<1>2. CASE pass.closed
  <2>1. pass.p.pr \in PR
    BY DEF Launch, TypeInv, Held
  <2>2. past'.told \cap Event = past.told \cap Event
    BY <1>1, <1>2, <2>1, PRWatchAssumption
  <2>3. QED
    BY <1>1, <2>2, Unseen
<1>3. CASE ~pass.closed
  <2>1. News \in SUBSET DOMAIN posted /\ News \subseteq Event
    BY Kinds
  <2>2. past'.told \cap Event = (past.told \cap Event) \cup News
    BY <1>1, <1>3, <2>1, PRWatchAssumption
  <2>3. ASSUME NEW e \in News, e \in Settled PROVE FALSE
    <3>1. /\ posted[e].pr = pin.pr /\ past.since < posted[e].at
          /\ posted[e].at <= pin.cursor
      BY <2>3 DEF Settled
    <3>2. posted[e].pr = pass.p.pr /\ posted[e].at > pass.p.cursor
      BY Kinds DEF Launch, CursorInv, PassScanned, Polling, News, NewSince
    <3>3. Ahead(pass.p.cursor)
      BY <3>1, <3>2 DEF Launch, Ordered, Polling
    <3>4. /\ posted[e].at \in Nat /\ pin.cursor \in Nat /\ pass.p.cursor \in Nat
          /\ past.since \in Nat
      BY <2>1, Kinds
    <3>5. QED
      BY <3>1, <3>2, <3>3, <3>4 DEF Ahead
  <2>4. News \cap Settled = {}
    BY <2>3
  <2>5. Inbox!HandsOver(News)
    BY <1>1, <2>2, <2>4, SettledKept DEF Inbox!HandsOver
  <2>6. QED
    BY <2>1, <2>5 DEF Inbox!INext
<1>4. QED
  BY <1>2, <1>3

LEMMA PassInbox ==
  ASSUME Ordered, CursorInv, TypeInv, Pass
  PROVE  [Inbox!INext]_(Inbox!ivars)
<1>1. CASE Confirm \/ Launch
  BY <1>1, ConfirmSettles, LaunchHandsOver
<1>2. CASE ~(Confirm \/ Launch)
  <2>1. UNCHANGED <<posted, deleted, past.since>>
    BY PassGrows
  <2>2. past'.told = past.told
    BY <1>2, OnlyLaunchTells
  <2>3. UNCHANGED <<pin.pr, pin.cursor>>
    BY <1>2, Numbers
       DEF Pass, ReadPin, CheckPrompt, FailPRDelivery, Poll, ResumePRDelivery, NoNews,
           SetPRSeen, Debounced, StopFirst, SetPRDelivered, GivesUp, Writes, Pin
  <2>4. QED
    BY <2>1, <2>2, <2>3, Unseen
<1>3. QED
  BY <1>1, <1>2

\* The pin and its passes are an inbox of the PR's activity, for any events, PRs, windows
\* and interleaving of passes with posts, deletions, re-pins and the session's life:
\* activity goes behind the cursor only after a message carried it, or one of its second,
\* or it was deleted, and neither comes back from there nor is in a message again, until
\* the pin is put on anew.
THEOREM WatchIsAnInbox == Spec => InboxImplemented
<1>1. Init => Inbox!IInit
  BY DEF Init, Inbox!IInit, NoPin, Settled
<1>2. Init => Ordered /\ CursorInv /\ TypeInv
  BY OrderedInit, CursorInit, TypeInit
<1>3. Ordered /\ CursorInv /\ TypeInv /\ [Next]_vars => Ordered' /\ CursorInv' /\ TypeInv'
  BY OrderedStep, CursorStep, TypeStep
<1>4. Ordered /\ CursorInv /\ TypeInv /\ [Next]_vars => [Inbox!INext]_(Inbox!ivars)
  BY OutsideInbox, PersonInbox, PassInbox DEF Next
<1>5. QED
  BY <1>1, <1>2, <1>3, <1>4, PTL DEF Spec, InboxImplemented, Inbox!ISpec
=============================================================================
