------------------------------ MODULE MCLedger ------------------------------
(***************************************************************************)
(* Ledger for TLC.                                                         *)
(***************************************************************************)
EXTENDS Ledger, TLC

\* Every full id has a short id of its own.
DistinctShorts == [s \in Session |-> s]

SessionSymmetry == Permutations(Session)
=============================================================================
