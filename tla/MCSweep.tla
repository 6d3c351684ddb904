------------------------------ MODULE MCSweep ------------------------------
(***************************************************************************)
(* Sweep for TLC.                                                          *)
(***************************************************************************)
EXTENDS Sweep, TLC

CONSTANTS s1, s2, d1, d2

\* Every full id has a short id of its own.
DistinctShorts == [s \in Session |-> s]

\* Two config dirs with a session each.
TwoDirs == s1 :> d1 @@ s2 :> d2

\* The sweeps are alike.
SweeperSymmetry == Permutations(Sweeper)
=============================================================================
