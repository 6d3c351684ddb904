------------------------------- MODULE MCPicker -------------------------------
(***************************************************************************)
(* Picker for TLC, together with the list that is picked from (Forest).    *)
(*                                                                         *)
(* The two share nothing: a behaviour starts with some rows, which are     *)
(* shown, and goes on with the picks.                                      *)
(***************************************************************************)
EXTENDS Picker, TLC

INSTANCE Forest

CONSTANTS
  Ids,       \* the rows of a list
  Missing,   \* a delegator that has no row
  Activity   \* when they were active

ASSUME ListAssumption ==
  /\ IsFiniteSet(Ids) /\ Ids \subseteq Int /\ NULL \notin Ids
  /\ Activity \subseteq Int

PickerSymmetry ==
  Permutations(Picker) \cup Permutations(Pid) \cup Permutations(Pane) \cup Permutations(Title)

VARIABLE rows   \* the rows to be shown

ListInit ==
  /\ Init
  /\ rows \in [Ids -> [parent : Ids \cup {Missing, NULL}, activity : Activity,
                       keep : BOOLEAN, scoped : BOOLEAN]]

Shown == rows = <<>>

ListShown == ~Shown /\ rows' = <<>> /\ UNCHANGED vars

ListNext == ListShown \/ (Shown /\ Next /\ UNCHANGED rows)

ListSpec == ListInit /\ [][ListNext]_<<vars, rows>>

-----------------------------------------------------------------------------

\* Every row that is asked for is listed once, cycles of links and delegators without
\* a row notwithstanding, and besides them only rows that hold a delegate (buildForest).
EachRowOnce == Shown \/ \A scope \in BOOLEAN : ListsEachOnce(rows, scope)

\* Rows are listed under their delegators (buildForest, its cut of cycles).
UnderDelegator == Shown \/ \A scope \in BOOLEAN : ListsUnderDelegator(rows, scope)

\* The freshest tree is listed first, whoever in it is fresh (buildForest, its measure).
FreshestFirst == Shown \/ \A scope \in BOOLEAN : ListsFreshestFirst(rows, scope)
=============================================================================
