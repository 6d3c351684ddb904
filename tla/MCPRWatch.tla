----------------------------- MODULE MCPRWatch -----------------------------
(***************************************************************************)
(* PRWatch for TLC.                                                        *)
(***************************************************************************)
EXTENDS PRWatch, TLC

ActivitySymmetry == Permutations(Event) \cup Permutations(PR)
=============================================================================
