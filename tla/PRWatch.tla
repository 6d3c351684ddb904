------------------------------ MODULE PRWatch ------------------------------
(***************************************************************************)
(* The PR watch (prwatch.Pass): a pinned session is woken when the PR that *)
(* its pin watches has new activity, or is merged or closed.               *)
(*                                                                         *)
(* One row of the table sessions, with the columns of its PR pin, and one  *)
(* pass at a time over it (the timer's unit never overlaps itself).  A     *)
(* pass reads the pin, polls the PR, and then writes or launches on what   *)
(* it read, while the PR, the session's process and the person who pins    *)
(* go on.  Every write is conditional on the pin still watching the same   *)
(* PR, and on nothing else.                                                *)
(*                                                                         *)
(* Time comes in ticks.  What happens within one tick has the same time    *)
(* stamp.  A tick in which nothing was stamped need not be told from the   *)
(* next one, so the clock only moves when something was.  Times that are   *)
(* only compared with a window are kept as ages, in ticks up to the        *)
(* longest window.                                                         *)
(***************************************************************************)
EXTENDS Integers

CONSTANTS
  Event,          \* reviews and comments
  PR,
  PRState,        \* the states that PRs take
  Debounce,       \* DefaultDebounce, in ticks
  ConfirmWindow,  \* in ticks
  MaxFailures,
  MaxTime,        \* bound: nothing is stamped later
  MaxByHand,      \* bound: how often a person starts a turn in the session
  MaxLost,        \* bound: how often a pass dies between launch and record
  NULL

ASSUME PRWatchAssumption ==
  /\ "OPEN" \in PRState /\ PRState \subseteq {"OPEN", "MERGED", "CLOSED"}
  /\ Debounce \in Nat /\ ConfirmWindow \in Nat /\ Debounce <= ConfirmWindow
  /\ MaxFailures \in Nat \ {0}
  /\ MaxTime \in Nat /\ MaxByHand \in Nat /\ MaxLost \in Nat
  /\ NULL \notin PR /\ NULL \notin Nat /\ Event \cap PR = {}

VARIABLES
  now,       \* the clock
  posted,    \* every event posted so far: its PR and its time
  deleted,   \* those deleted since
  prState,   \* each PR's state
  open,      \* is the session open (done_at IS NULL)
  pin,       \* the columns of the pin
  session,   \* the session's process
  pass,      \* the pass's local state
  byHand,    \* how many turns were started by a person
  past       \* history: what the properties remember (see Init)

vars == <<now, posted, deleted, prState, open, pin, session, pass, byHand, past>>

Age == 0..ConfirmWindow
Older(age) == IF age = NULL \/ age = ConfirmWindow THEN age ELSE age + 1

\* delivered, seen: the ages of pin_delivered_at and pin_seen_at.  prompted: the
\* events have a UserPromptSubmit at or after pin_delivered_at.
NoPin == [pr |-> NULL, cursor |-> 0, seen |-> NULL, delivered |-> NULL, upto |-> NULL,
          failures |-> 0, halted |-> NULL, prompted |-> FALSE]

Time == 1..MaxTime

Pin == [pr : PR \cup {NULL}, cursor : Time \cup {0}, seen : Age \cup {NULL},
        delivered : Age \cup {NULL}, upto : Time \cup {NULL},
        failures : Nat, halted : Time \cup {NULL}, prompted : BOOLEAN]

Watched == open /\ pin.pr # NULL

\* What Poll reads off pr.
Visible(pr) == {e \in DOMAIN posted \ deleted : posted[e].pr = pr}

\* Mutant of Closed: a merge is not taken as a close.
ClosedNotMerged(pr) == prState[pr] = "CLOSED"

Closed(pr) == prState[pr] # "OPEN"

\* started: how long ago the pass read its clock.  prompted: a prompt since then.
Idle == [phase |-> "idle", p |-> NoPin, gone |-> FALSE, started |-> 0, prompted |-> FALSE,
         closed |-> FALSE, events |-> {}]

Local == [phase : {"idle", "read", "confirmed", "unconfirmed", "news", "polled",
                   "due", "stopped", "launched"},
          p : Pin, gone : BOOLEAN, started : Age, prompted : BOOLEAN,
          closed : BOOLEAN, events : SUBSET Event]

TypeOK ==
  /\ now \in 1..MaxTime + 1
  /\ DOMAIN posted \subseteq Event
  /\ posted \in [DOMAIN posted -> [pr : PR, at : Time]]
  /\ deleted \subseteq DOMAIN posted
  /\ prState \in [PR -> PRState]
  /\ open \in BOOLEAN
  /\ pin \in Pin
  /\ session \in {"gone", "starting", "busy", "idle"}
  /\ pass \in Local
  /\ byHand \in 0..MaxByHand
  /\ past \in [since : Time \cup {0}, told : SUBSET (Event \cup PR), tries : Nat, lost : 0..MaxLost]

-----------------------------------------------------------------------------
(***************************************************************************)
(* GitHub, the clock and the session's process.                            *)
(***************************************************************************)

Post(pr, e) ==
  /\ now <= MaxTime
  /\ e \in Event \ DOMAIN posted
  /\ posted' = [x \in DOMAIN posted \cup {e} |->
                  IF x = e THEN [pr |-> pr, at |-> now] ELSE posted[x]]
  /\ UNCHANGED <<now, deleted, prState, open, pin, session, pass, byHand, past>>

Delete(e) ==
  /\ e \in DOMAIN posted \ deleted
  /\ deleted' = deleted \cup {e}
  /\ UNCHANGED <<now, posted, prState, open, pin, session, pass, byHand, past>>

ChangeState(pr, state) ==
  /\ prState[pr] # state /\ prState[pr] # "MERGED"
  /\ prState' = [prState EXCEPT ![pr] = state]
  /\ UNCHANGED <<now, posted, deleted, open, pin, session, pass, byHand, past>>

\* Something that is still there has the current time.
Stamped == \/ \E e \in DOMAIN posted : posted[e].at = now
           \/ now \in {past.since, pin.cursor, pin.upto, pin.halted}

Aged(p) == [p EXCEPT !.seen = Older(@), !.delivered = Older(@)]

Tick ==
  /\ now' = IF Stamped THEN now + 1 ELSE now
  /\ pin' = Aged(pin)
  /\ pass' = [pass EXCEPT !.started = IF pass.phase = "idle" THEN 0 ELSE Older(@)]
  /\ UNCHANGED <<posted, deleted, prState, open, session, byHand, past>>

\* The session's UserPromptSubmit is recorded.
Prompted ==
  /\ session' = "busy"
  /\ pin' = [pin EXCEPT !.prompted = pin.delivered # NULL]
  /\ pass' = [pass EXCEPT !.prompted = pass.phase # "idle"]

\* The resume that was launched takes its message, or fails in its window.
ResumeTakes ==
  /\ session = "starting"
  /\ Prompted
  /\ UNCHANGED <<now, posted, deleted, prState, open, byHand, past>>

ResumeFails ==
  /\ session = "starting"
  /\ session' = "gone"
  /\ UNCHANGED <<now, posted, deleted, prState, open, pin, pass, byHand, past>>

\* A person resumes a gone session, and types into it or does not.
ByHand ==
  /\ byHand < MaxByHand
  /\ byHand' = byHand + 1
  /\ \/ session \in {"gone", "idle", "busy"} /\ Prompted
     \/ session = "gone" /\ session' = "busy" /\ UNCHANGED <<pin, pass>>
  /\ UNCHANGED <<now, posted, deleted, prState, open, past>>

TurnEnds ==
  /\ session = "busy"
  /\ session' = "idle"
  /\ UNCHANGED <<now, posted, deleted, prState, open, pin, pass, byHand, past>>

Ends ==
  /\ session \in {"busy", "idle"}
  /\ session' = "gone"
  /\ UNCHANGED <<now, posted, deleted, prState, open, pin, pass, byHand, past>>

-----------------------------------------------------------------------------
(***************************************************************************)
(* The person's commands.                                                  *)
(***************************************************************************)

\* Mutant of SetPinPR: the cursor starts empty.
SetPinPRNoCursor(pr) ==
  /\ open
  /\ now <= MaxTime
  /\ pin' = [NoPin EXCEPT !.pr = pr, !.cursor = NULL]
  /\ past' = [past EXCEPT !.since = now, !.tries = 0]
  /\ UNCHANGED <<now, posted, deleted, prState, open, session, pass, byHand>>

SetPinPR(pr) ==
  /\ open
  /\ now <= MaxTime
  /\ pin' = [NoPin EXCEPT !.pr = pr, !.cursor = now]
  /\ past' = [past EXCEPT !.since = now, !.tries = 0]
  /\ UNCHANGED <<now, posted, deleted, prState, open, session, pass, byHand>>

\* The pin is put on again, without a PR.
SetPin ==
  /\ open
  /\ pin' = [pin EXCEPT !.failures = 0, !.halted = NULL]
  /\ past' = [past EXCEPT !.tries = 0]
  /\ UNCHANGED <<now, posted, deleted, prState, open, session, pass, byHand>>

ClearPin ==
  /\ open
  /\ pin' = NoPin
  /\ past' = [past EXCEPT !.since = 0, !.tries = 0]
  /\ UNCHANGED <<now, posted, deleted, prState, open, session, pass, byHand>>

\* Done and reopened: the pin stays on its row.
DoneOrReopen ==
  /\ open' = ~open
  /\ UNCHANGED <<now, posted, deleted, prState, pin, session, pass, byHand, past>>

-----------------------------------------------------------------------------
(***************************************************************************)
(* The pass.                                                               *)
(***************************************************************************)

World == <<now, posted, deleted, prState, open, byHand>>

\* The pass is done with the pin, or goes on with it in phase.
Leaves == pass' = Idle
Enters(phase) == pass' = [pass EXCEPT !.phase = phase]

\* What a pass goes on with, of what it has read.
Settling(phase) ==
  [Idle EXCEPT !.phase = phase, !.p.pr = pass.p.pr, !.p.upto = pass.p.upto]
Polled(phase, events, closed) ==
  [pass EXCEPT !.phase = phase, !.events = events, !.closed = closed,
               !.p.failures = 0, !.p.halted = NULL]

\* Mutant of Writes: not conditional.
WritesAnyway(c) == pin' = c

\* The write of columns c applies while the pin watches the same PR.
Writes(c) == pin' = IF pin.pr = pass.p.pr THEN c ELSE pin

\* PRPins.  The ledger has a resumed process as gone until its first hook.
ReadPin ==
  /\ pass.phase = "idle"
  /\ Watched
  /\ \E gone \in BOOLEAN :
       /\ session # "starting" => gone = (session = "gone")
       /\ pass' = [Idle EXCEPT !.phase = "read", !.p = pin, !.gone = gone]
  /\ UNCHANGED <<World, pin, session, past>>

\* confirm: a delivery is out, so nothing else is done about this pin.
CheckPrompt ==
  /\ pass.phase = "read" /\ pass.p.delivered # NULL
  /\ pass' = IF pass.p.prompted \/ pass.prompted THEN Settling("confirmed")
             ELSE IF pass.p.delivered >= ConfirmWindow THEN Settling("unconfirmed")
             ELSE Idle
  /\ UNCHANGED <<World, pin, session, past>>

\* Mutant of Advanced: the cursor moves to when the delivery is confirmed.
AdvancedToNow == [pin EXCEPT !.cursor = IF now <= MaxTime THEN now ELSE MaxTime,
                             !.seen = NULL, !.delivered = NULL, !.upto = NULL,
                             !.failures = 0, !.halted = NULL, !.prompted = FALSE]

\* ClearPRPin after a merge or close, AdvancePRCursor otherwise.
Advanced == [pin EXCEPT !.cursor = pass.p.upto, !.seen = NULL, !.delivered = NULL,
                        !.upto = NULL, !.failures = 0, !.halted = NULL,
                        !.prompted = FALSE]

Confirm ==
  /\ pass.phase = "confirmed"
  /\ Writes(IF pass.p.upto = NULL THEN NoPin ELSE Advanced)
  /\ past' = IF pin.pr = pass.p.pr THEN [past EXCEPT !.tries = 0] ELSE past
  /\ Leaves
  /\ UNCHANGED <<World, session>>

FailPRDelivery ==
  /\ pass.phase = "unconfirmed"
  /\ Writes([pin EXCEPT
               !.delivered = NULL, !.upto = NULL, !.prompted = FALSE,
               !.failures = @ + 1,
               !.halted = IF pin.failures + 1 >= MaxFailures THEN pass.p.upto ELSE NULL])
  /\ Leaves
  /\ UNCHANGED <<World, session, past>>

NewSince(events, cursor) == {e \in events : posted[e].at > cursor}

\* Mutant of Outdone: a close resumes what was stopped on that close.
OutdoneByClose(p, events, closed) ==
  closed \/ NewSince(events, IF p.halted = NULL THEN 0 ELSE p.halted) # {}

\* A stopped delivery has something to resume for.
Outdone(p, events, closed) ==
  IF closed THEN p.halted # NULL
  ELSE NewSince(events, IF p.halted = NULL THEN 0 ELSE p.halted) # {}

\* Mutant of Poll: delivery never stops.
PollUncapped ==
  /\ pass.phase = "read" /\ pass.p.delivered = NULL
  /\ pass' = Polled("polled", Visible(pass.p.pr), Closed(pass.p.pr))
  /\ UNCHANGED <<World, pin, session, past>>

Poll ==
  LET events == Visible(pass.p.pr)
      closed == Closed(pass.p.pr)
  IN  /\ pass.phase = "read" /\ pass.p.delivered = NULL
      /\ pass' = IF pass.p.failures < MaxFailures THEN Polled("polled", events, closed)
                 ELSE IF Outdone(pass.p, events, closed) THEN Polled("news", events, closed)
                 ELSE Idle
      /\ UNCHANGED <<World, pin, session, past>>

ResumePRDelivery ==
  /\ pass.phase = "news"
  /\ Writes([pin EXCEPT !.failures = 0, !.halted = NULL, !.seen = NULL])
  /\ pass' = [pass EXCEPT !.phase = "polled", !.p.seen = NULL]
  /\ past' = IF pin.pr = pass.p.pr THEN [past EXCEPT !.tries = 0] ELSE past
  /\ UNCHANGED <<World, session>>

News == NewSince(pass.events, pass.p.cursor)

NoNews ==
  /\ pass.phase = "polled" /\ ~pass.closed
  /\ News = {}
  /\ Writes(IF pass.p.seen = NULL THEN pin ELSE [pin EXCEPT !.seen = NULL])
  /\ Leaves
  /\ UNCHANGED <<World, session, past>>

\* Mutant of SetPRSeen: every pass that sees activity marks it again.
SetPRSeenAgain ==
  /\ pass.phase = "polled" /\ ~pass.closed
  /\ News # {}
  /\ Writes([pin EXCEPT !.seen = pass.started])
  /\ Leaves
  /\ UNCHANGED <<World, session, past>>

SetPRSeen ==
  /\ pass.phase = "polled" /\ ~pass.closed
  /\ News # {} /\ pass.p.seen = NULL
  /\ Writes([pin EXCEPT !.seen = pass.started])
  /\ Leaves
  /\ UNCHANGED <<World, session, past>>

Debounced ==
  /\ pass.phase = "polled"
  /\ pass.closed \/ (News # {} /\ pass.p.seen # NULL)
  /\ pass' = IF pass.closed \/ pass.p.seen >= Debounce
             THEN [pass EXCEPT !.phase = "due", !.p.seen = NULL]
             ELSE Idle
  /\ UNCHANGED <<World, pin, session, past>>

\* Deliver, for a session that was running: it is stopped first, if it is idle.
StopFirst ==
  /\ pass.phase = "due" /\ ~pass.gone
  /\ session = "idle"
  /\ session' = "gone"
  /\ Enters("stopped")
  /\ UNCHANGED <<World, pin, past>>

\* The rest of it.  Of a session that was gone nothing is checked again.
Launch ==
  /\ \/ pass.phase = "due" /\ pass.gone
     \/ pass.phase = "stopped"
  /\ session' = "starting"
  /\ Enters("launched")
  /\ past' = [past EXCEPT
                !.told = (@ \ PR) \cup (IF pass.closed THEN {pass.p.pr} ELSE News),
                !.tries = IF pin.pr = pass.p.pr THEN @ + 1 ELSE @]
  /\ UNCHANGED <<World, pin>>

\* Mutant of Newest: the cursor moves to when the delivery is recorded.
NewestIsNow == IF now <= MaxTime THEN now ELSE MaxTime

\* The time of the newest event delivered.
Newest == CHOOSE t \in {posted[e].at : e \in News} : \A e \in News : posted[e].at <= t

SetPRDelivered ==
  /\ pass.phase = "launched"
  /\ Writes([pin EXCEPT !.delivered = pass.started, !.prompted = pass.prompted,
                        !.upto = IF pass.closed THEN NULL ELSE Newest])
  /\ Leaves
  /\ UNCHANGED <<World, session, past>>

\* Whatever goes wrong, or is skipped, is left to the next pass: a poll that
\* fails, a write, a launch that is skipped or fails, and the end of the pass
\* itself, which systemd kills when it takes too long.
GivesUp ==
  /\ pass.phase # "idle"
  /\ pass.phase = "launched" => past.lost < MaxLost
  /\ past' = IF pass.phase = "launched" THEN [past EXCEPT !.lost = @ + 1] ELSE past
  /\ Leaves
  /\ UNCHANGED <<World, pin, session>>

-----------------------------------------------------------------------------

\* past.since: when the pin was put on.  told: the events that launches carried,
\* and the PR that the last launch said was closed.  tries: launches for this pin
\* since the last confirmation, or the last fresh start.  lost: launches that left
\* no record.
Init ==
  /\ now = 1
  /\ posted = [e \in {} |-> NULL]
  /\ deleted = {}
  /\ prState = [pr \in PR |-> "OPEN"]
  /\ open = TRUE
  /\ pin = NoPin
  /\ session = "idle"
  /\ pass = Idle
  /\ byHand = 0
  /\ past = [since |-> 0, told |-> {}, tries |-> 0, lost |-> 0]

GitHub ==
  \/ \E pr \in PR, e \in Event : Post(pr, e)
  \/ \E e \in Event : Delete(e)
  \/ \E pr \in PR, state \in PRState : ChangeState(pr, state)

Session == ResumeTakes \/ ResumeFails \/ ByHand \/ TurnEnds \/ Ends

Person == (\E pr \in PR : SetPinPR(pr)) \/ SetPin \/ ClearPin \/ DoneOrReopen

Pass == \/ ReadPin \/ CheckPrompt \/ Confirm \/ FailPRDelivery
        \/ Poll \/ ResumePRDelivery \/ NoNews \/ SetPRSeen \/ Debounced
        \/ StopFirst \/ Launch \/ SetPRDelivered \/ GivesUp

Next == GitHub \/ Tick \/ Session \/ Person \/ Pass

Spec == Init /\ [][Next]_vars

\* Passes keep coming and each ends.  No read, poll, write, stop or launch fails
\* for ever.  A resume takes its message or fails, and a turn ends.  Nothing is
\* assumed of GitHub and of the person, nor that any resume takes its message.
Fairness ==
  /\ WF_vars(Tick) /\ WF_vars(ResumeTakes \/ ResumeFails) /\ WF_vars(TurnEnds)
  /\ WF_vars(ReadPin) /\ WF_vars(Pass)
  /\ SF_vars(CheckPrompt \/ Poll)
  /\ SF_vars(Confirm \/ FailPRDelivery)
  /\ SF_vars(SetPRSeen \/ Debounced)
  /\ SF_vars(StopFirst \/ Launch)
  /\ SF_vars(SetPRDelivered)

FairSpec == Spec /\ Fairness

-----------------------------------------------------------------------------
(***************************************************************************)
(* Properties.                                                             *)
(***************************************************************************)

Told(pr, at) == \E e \in past.told \cap Event : posted[e] = [pr |-> pr, at |-> at]

\* The cursor never moves past activity that was not handed over, except within
\* the second of an event that was: whatever is posted or deleted, and however
\* the pin is changed, between a poll and the confirmation of what it found,
\* activity since the pin was put on and behind the cursor was in a message.
NothingSkipped ==
  Watched => \A e \in Visible(pin.pr) :
    past.since < posted[e].at /\ posted[e].at <= pin.cursor => Told(pin.pr, posted[e].at)

\* Deliveries that nobody takes stop: without a confirmation, news after a stop
\* or a person's pin, no more than MaxFailures resumes are launched for a pin,
\* not counting those whose record was lost.
LaunchesCapped == past.tries <= MaxFailures + past.lost

\* A stopped delivery is resumed by a pass for news only: activity that the last
\* launch did not carry, or a PR that has been closed or reopened since.
ResumedForNews ==
  [][(/\ ResumePRDelivery
      /\ pin.pr = pass.p.pr /\ pin.failures >= MaxFailures)
     => pass.closed # (pin.pr \in past.told) \/ pass.events \ past.told # {}]_vars

\* A pass takes a pin off only after a launch that said of the pin's own PR that
\* it was merged or closed, even when the person re-pins the session on another
\* PR while the pass is under way.
UnpinnedAfterClose ==
  [][Confirm /\ pin.pr # NULL /\ pin'.pr = NULL => pin.pr \in past.told]_vars

\* What is behind the cursor, of the activity since the pin was put on.
Settled == {e \in DOMAIN posted : /\ posted[e].pr = pin.pr
                                  /\ past.since < posted[e].at /\ posted[e].at <= pin.cursor}

Inbox == INSTANCE PRInbox WITH
  pinned <- pin.pr, told <- past.told \cap Event, settled <- Settled

\* The pin and its passes are an inbox: activity goes behind the cursor only after it
\* was handed over or deleted, it does not come back from there, and nothing from there
\* is handed over again, until the pin is put on anew.
InboxImplemented == Inbox!ISpec

Pending(e) == /\ Watched /\ pin.failures < MaxFailures
              /\ e \in Visible(pin.pr) /\ posted[e].at > pin.cursor

\* The person lifts the stop on the delivery again and again.
KeepsLifting == []<><<SetPin>>_vars

\* New activity does not stay pending: in the end it is behind the cursor, or
\* delivery has stopped, the activity is gone or the pin is.  The debounce never
\* starves it, whatever is posted or deleted, and neither does a resume that fails,
\* unless the person lifts the stop again and again.
NewsIsSettled == KeepsLifting \/ \A e \in Event : Pending(e) ~> ~Pending(e)

\* The pin of a PR that was merged comes off in the end, or delivery stops.
MergeUnpins ==
  KeepsLifting \/ \A pr \in PR :
    (Watched /\ pin.pr = pr /\ prState[pr] = "MERGED") ~>
      ~Watched \/ pin.pr # pr \/ pin.failures >= MaxFailures

\* The comment of NewSince: an event at exactly the cursor is already delivered.
\* An event posted in the second of the newest one delivered, but after the poll,
\* disagrees: it is never delivered.
AtCursorDelivered ==
  Watched => \A e \in Visible(pin.pr) :
    posted[e].at = pin.cursor /\ pin.cursor > past.since => e \in past.told

=============================================================================
