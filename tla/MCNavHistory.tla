---------------------------- MODULE MCNavHistory ----------------------------
(***************************************************************************)
(* NavHistory for TLC.                                                     *)
(***************************************************************************)
EXTENDS NavHistory, TLC

SessionSymmetry == Permutations(Session) \cup Permutations(Walker)
=============================================================================
