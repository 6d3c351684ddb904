------------------------------ MODULE WorkAxis ------------------------------
(***************************************************************************)
(* What the ledger promises about work, with processes, panes, events and  *)
(* delegations left out.  A session's work is open from the moment it is   *)
(* first heard of.  It becomes done by being declared so, keeps the time   *)
(* of the first declaration, and may be taken back while it is remembered. *)
(* Only work that has been done for longer than Retention is forgotten:    *)
(* nothing else ever loses a session.                                      *)
(***************************************************************************)
EXTENDS Integers

CONSTANTS Session, Retention, NULL

VARIABLES
  work,   \* known session -> NULL (open) or the time it was declared done
  clock

wvars == <<work, clock>>

Known == DOMAIN work

\* A session is heard of, for the first time or not; declared, a set of known
\* sessions possibly including it, is declared done in the same transaction.
HearAndDeclare(heard, declared) ==
  /\ declared \subseteq Known \cup heard
  /\ work' = [s \in Known \cup heard |->
                LET before == IF s \in Known THEN work[s] ELSE NULL
                IN  IF before = NULL /\ s \in declared THEN clock ELSE before]
  /\ UNCHANGED clock

\* One session, picked by a person, is taken back; its delegates are not.
TakeBack(s) ==
  /\ s \in Known
  /\ work[s] # NULL
  /\ work' = [work EXCEPT ![s] = NULL]
  /\ UNCHANGED clock

Forget(old) ==
  /\ \A s \in old : work[s] # NULL /\ work[s] < clock - Retention
  /\ work' = [s \in Known \ old |-> work[s]]
  /\ UNCHANGED clock

Pass ==
  /\ clock' = clock + 1
  /\ UNCHANGED work

WInit ==
  /\ work = [s \in {} |-> NULL]
  /\ clock = 0

WNext ==
  \/ \E s \in Session : \E declared \in SUBSET (Known \cup {s}) :
       HearAndDeclare({s}, declared)
  \/ \E declared \in SUBSET Known : HearAndDeclare({}, declared)
  \/ \E s \in Session : TakeBack(s)
  \/ \E old \in SUBSET Known : Forget(old)
  \/ Pass

WSpec == WInit /\ [][WNext]_wvars
=============================================================================
