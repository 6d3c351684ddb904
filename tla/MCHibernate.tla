---------------------------- MODULE MCHibernate ----------------------------
(***************************************************************************)
(* Hibernate for TLC.                                                      *)
(***************************************************************************)
EXTENDS Hibernate, TLC

CONSTANTS parent, child

\* A delegator at its terminal, with a delegate in the background.
OneDelegation == parent :> NULL @@ child :> parent
TerminalAndBackground == parent :> "interactive" @@ child :> "background"
=============================================================================
