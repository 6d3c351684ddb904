------------------------------ MODULE PRInbox ------------------------------
(***************************************************************************)
(* What the PR watch promises: the pin of a session is an inbox of the     *)
(* activity on a PR.                                                       *)
(*                                                                         *)
(* Activity comes, and may be taken back.  It is handed over, any number   *)
(* of times, until it is settled, which nothing is that was not handed     *)
(* over or taken back.  What is settled stays so and is not handed over    *)
(* again, until the pin is put on anew, or taken off.  Activity that       *)
(* cannot be told from another, of the same PR and second, shares its      *)
(* fate.                                                                   *)
(***************************************************************************)
CONSTANTS Event, PR, NULL

VARIABLES
  posted,   \* the activity that has come, each with its PR and time
  deleted,  \* what of it was taken back
  pinned,   \* the PR of the pin, or NULL
  told,     \* the activity that was handed over
  settled   \* the activity that the inbox is done with

ivars == <<posted, deleted, pinned, told, settled>>

HasTwinIn(S, e) == \E x \in S : posted[x] = posted[e]

\* Activity that comes in the second of some that was handed over may be taken for it.
Comes(e) ==
  /\ e \notin DOMAIN posted
  /\ DOMAIN posted' = DOMAIN posted \cup {e}
  /\ \A x \in DOMAIN posted : posted'[x] = posted[x]
  /\ \/ UNCHANGED settled
     \/ /\ settled' = settled \cup {e}
        /\ posted'[e].pr = pinned
        /\ HasTwinIn(told, e)'
  /\ UNCHANGED <<deleted, pinned, told>>

Goes(e) ==
  /\ e \in DOMAIN posted
  /\ deleted' = deleted \cup {e}
  /\ UNCHANGED <<posted, pinned, told, settled>>

\* The pin is put on, put on anew or taken off.
Pins(pr) ==
  /\ pinned' = pr
  /\ settled' = {}
  /\ UNCHANGED <<posted, deleted, told>>

\* The session is launched with S in its message.
HandsOver(S) ==
  /\ told' = told \cup S
  /\ S \cap settled = {}
  /\ UNCHANGED <<posted, deleted, pinned, settled>>

Settles(S) ==
  /\ \A e \in S : /\ posted[e].pr = pinned
                  /\ e \in deleted \/ HasTwinIn(told, e)
  /\ settled' = settled \cup S
  /\ UNCHANGED <<posted, deleted, pinned, told>>

IInit ==
  /\ posted = [e \in {} |-> NULL]
  /\ deleted = {}
  /\ pinned = NULL
  /\ told = {}
  /\ settled = {}

INext ==
  \/ \E e \in Event : Comes(e) \/ Goes(e)
  \/ \E S \in SUBSET DOMAIN posted : HandsOver(S)
  \/ \E S \in SUBSET DOMAIN posted : Settles(S)
  \/ \E pr \in PR \cup {NULL} : Pins(pr)

ISpec == IInit /\ [][INext]_ivars
=============================================================================
