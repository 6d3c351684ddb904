--------------------------- MODULE MigrateProofs ---------------------------
(***************************************************************************)
(* Proofs about Migrate: what holds of it however many processes open the  *)
(* ledger, however many columns there are to add, and whoever is killed,   *)
(* and what the migration makes of the sessions however many there are and *)
(* whatever the old program recorded of them.                              *)
(***************************************************************************)
EXTENDS Migrate, SequenceTheorems, FiniteSetTheorems, WellFoundedInduction, TLAPS

Places == {"out", "asks", "adds", "reads", "begins", "migrates", "drops", "creates", "open"}

\* Where an opener is that has been through the columns, and through the migration.
PastColumns == {"reads", "begins", "migrates", "drops", "creates", "open"}
PastMigration == {"drops", "creates", "open"}

\* What opener l, if it has got as far as it has, may rely on.
Relies(o, l, ncolumns, v, holder) ==
  /\ l.at = "migrates" <=> holder = o
  /\ l.at \in PastColumns => ncolumns = Columns
  /\ l.at \in PastMigration => v = 1
  /\ l.at \in {"asks", "adds"} => l.column \in 1..Columns /\ ncolumns >= l.column - 1

Opened ==
  /\ columns \in 0..Columns
  /\ version \in {0, 1}
  /\ opener \in [Opener -> [at : Places, column : Nat, now : Nat]]
  /\ \A o \in Opener : Relies(o, opener[o], columns, version, lock)

\* The old program is gone before the ledger is opened by the new one.
Replaced == version = 1 \/ (\E o \in Opener : opener[o].at # "out") => upgraded

IsRow(r) == r = [pane |-> r.pane, closed |-> r.closed, done |-> r.done, mark |-> r.mark]

\* A row has the columns of a row, and a session that runs has a row.
Rowed == /\ row = [s \in Session |-> row[s]]
         /\ runs = [s \in Session |-> runs[s]]
         /\ \A s \in Session : /\ row[s] = NULL \/ IsRow(row[s])
                               /\ runs[s] # NULL => IsRow(row[s])

Inv == Opened /\ Replaced /\ Rowed /\ now \in Nat

-----------------------------------------------------------------------------

\* A step of opener o, which goes on as l.
LEMMA OpenerStep ==
  ASSUME Inv, NEW o \in Opener, NEW l \in [at : Places, column : Nat, now : Nat],
         Becomes(o, l), upgraded, UNCHANGED <<upgraded, now>>,
         columns' \in 0..Columns, columns' >= columns, version' \in {0, 1}, version' >= version,
         Relies(o, l, columns', version', lock'),
         \A p \in Opener \ {o} : lock' = p <=> lock = p,
         Rowed'
  PROVE  Inv'
<1>1. opener' \in [Opener -> [at : Places, column : Nat, now : Nat]]
  BY DEF Becomes, Inv, Opened
<1>2. \A p \in Opener : opener'[p] = IF p = o THEN l ELSE opener[p]
  BY DEF Becomes, Inv, Opened
<1>3. ASSUME NEW p \in Opener
      PROVE  Relies(p, opener'[p], columns', version', lock')
  <2>1. CASE p = o
    BY <1>2, <2>1
  <2>2. CASE p # o
    <3>1. Relies(p, opener[p], columns, version, lock) /\ opener'[p] = opener[p]
      BY <1>2, <2>2 DEF Inv, Opened
    <3>2. opener[p].column \in Nat /\ Columns \in Nat
      BY MigrateAssumption DEF Inv, Opened
    <3>3. columns' \in Nat /\ columns \in 0..Columns
      BY <3>2 DEF Inv, Opened
    <3>4. QED
      BY <2>2, <3>1, <3>2, <3>3 DEF Relies, Inv, Opened
  <2>3. QED
    BY <2>1, <2>2
<1>4. QED
  BY <1>1, <1>3 DEF Inv, Opened, Replaced

\* A step of the old program.
LEMMA OldStep ==
  ASSUME Inv, OldHook, UNCHANGED now, Rowed'
  PROVE  Inv'
BY DEF OldHook, Inv, Opened, Replaced

LEMMA RowFields ==
  ASSUME NEW r, IsRow(r), NEW closed, NEW done, NEW mark
  PROVE  /\ IsRow([r EXCEPT !.closed = closed]) /\ [r EXCEPT !.closed = closed].done = r.done
         /\ IsRow([r EXCEPT !.done = done])
         /\ IsRow([r EXCEPT !.mark = mark])
<1>1. r = [pane |-> r.pane, closed |-> r.closed, done |-> r.done, mark |-> r.mark]
  BY DEF IsRow
<1>2. [r EXCEPT !.closed = closed]
        = [pane |-> r.pane, closed |-> closed, done |-> r.done, mark |-> r.mark]
  BY <1>1
<1>3. [r EXCEPT !.done = done]
        = [pane |-> r.pane, closed |-> r.closed, done |-> done, mark |-> r.mark]
  BY <1>1
<1>4. [r EXCEPT !.mark = mark]
        = [pane |-> r.pane, closed |-> r.closed, done |-> r.done, mark |-> mark]
  BY <1>1
<1>5. \A p, c, d, m : IsRow([pane |-> p, closed |-> c, done |-> d, mark |-> m])
  BY DEF IsRow
<1>6. QED
  BY <1>2, <1>3, <1>4, <1>5

\* One row is written.
LEMMA RowWritten ==
  ASSUME Rowed, NEW s \in Session, NEW new, IsRow(new), row' = [row EXCEPT ![s] = new],
         runs' = [x \in Session |-> runs'[x]],
         \A x \in Session : runs'[x] # NULL => runs[x] # NULL
  PROVE  Rowed'
<1>1. \A x \in Session : row'[x] = IF x = s THEN new ELSE row[x]
  BY DEF Rowed
<1>2. row' = [x \in Session |-> row'[x]]
  BY DEF Rowed
<1>3. QED
  BY <1>1, <1>2 DEF Rowed

\* What a SessionStart makes of the rows.
LEMMA StartsInRows ==
  ASSUME NEW s \in Session, NEW pane, NEW source, NEW before, NEW rows,
         \A x \in Session : rows[x] = NULL \/ IsRow(rows[x]),
         StartsIn(s, pane, source, before, rows)
  PROVE  /\ row' = [x \in Session |-> row'[x]]
         /\ IsRow(row'[s])
         /\ \A x \in Session : IsRow(rows[x]) => IsRow(row'[x])
         /\ \A x \in Session : row'[x] = NULL \/ IsRow(row'[x])
<1> DEFINE new == [pane |-> pane, closed |-> NULL, done |-> FALSE,
                   mark |-> IF rows[s] = NULL THEN 0 ELSE rows[s].mark]
           siblings == {x \in Session \ {s} : /\ rows[x] # NULL
                                              /\ rows[x].pane = pane /\ rows[x].closed = NULL}
<1>1. row' = [x \in Session |-> IF x = s THEN new
                                ELSE IF x \in siblings THEN [rows[x] EXCEPT !.closed = now]
                                ELSE rows[x]]
  BY DEF StartsIn
<1>2. IsRow(new)
  BY DEF IsRow
<1>3. \A x \in siblings : x \in Session /\ IsRow([rows[x] EXCEPT !.closed = now])
  BY RowFields
<1> HIDE DEF new, siblings
<1>4. \A x \in Session : row'[x] = IF x = s THEN new
                                   ELSE IF x \in siblings THEN [rows[x] EXCEPT !.closed = now]
                                   ELSE rows[x]
  BY <1>1
<1>5. row' = [x \in Session |-> row'[x]]
  BY <1>1
<1>6. QED
  BY <1>2, <1>3, <1>4, <1>5

LEMMA OldProgramKeeps ==
  ASSUME Inv, OldProgram
  PROVE  Inv'
<1> USE DEF Inv
<1>1. ASSUME NEW s \in Session, NEW pane \in Pane, Starts(s, pane)
      PROVE  Inv'
  <2>1. StartsIn(s, pane, "startup", <<>>, row) /\ OldHook /\ UNCHANGED now
    BY <1>1 DEF Starts, OldHook
  <2>2. /\ row' = [x \in Session |-> row'[x]]
        /\ IsRow(row'[s])
        /\ \A x \in Session : IsRow(row[x]) => IsRow(row'[x])
        /\ \A x \in Session : row'[x] = NULL \/ IsRow(row'[x])
    BY <2>1, StartsInRows DEF Rowed
  <2>3. \A x \in Session : runs'[x] # NULL => x = s \/ runs[x] # NULL
    BY <1>1 DEF Starts, Rowed
  <2>4. runs' = [x \in Session |-> runs'[x]]
    BY <1>1 DEF Starts, Rowed
  <2>5. Rowed'
    BY <2>2, <2>3, <2>4 DEF Rowed
  <2>6. QED
    BY <2>1, <2>5, OldStep
<1>2. ASSUME NEW s \in Session, NEW t \in Session, Clears(s, t)
      PROVE  Inv'
  <2> DEFINE closed == [row EXCEPT ![s].closed = now]
  <2>1. IsRow(row[s]) /\ runs[s] # NULL
    BY <1>2 DEF Clears, Rowed
  <2>2. \A x \in Session : closed[x] = IF x = s THEN [row[s] EXCEPT !.closed = now] ELSE row[x]
    BY DEF Rowed
  <2> HIDE DEF closed
  <2>a. IsRow([row[s] EXCEPT !.closed = now])
    BY <2>1, RowFields
  <2>3. \A x \in Session : closed[x] = NULL \/ IsRow(closed[x])
    BY <2>2, <2>a DEF Rowed
  <2>4. \A x \in Session : IsRow(row[x]) => IsRow(closed[x])
    BY <2>2, <2>a
  <2>5. \/ StartsIn(t, runs[s], "clear", <<>>, row)
        \/ StartsIn(t, runs[s], "clear", <<Happened(s, "SessionEnd", "clear", runs[s])>>, closed)
    BY <1>2 DEF Clears, closed
  <2>6. /\ row' = [x \in Session |-> row'[x]]
        /\ IsRow(row'[t])
        /\ \A x \in Session : IsRow(row[x]) => IsRow(row'[x])
        /\ \A x \in Session : row'[x] = NULL \/ IsRow(row'[x])
    <3>1. CASE StartsIn(t, runs[s], "clear", <<>>, row)
      BY <3>1, StartsInRows DEF Rowed
    <3>2. CASE StartsIn(t, runs[s], "clear",
                        <<Happened(s, "SessionEnd", "clear", runs[s])>>, closed)
      BY <2>3, <2>4, <3>2, StartsInRows
    <3>3. QED
      BY <2>5, <3>1, <3>2
  <2>7. runs' = [x \in Session |-> runs'[x]]
    BY <1>2 DEF Clears, Rowed
  <2>8. \A x \in Session : runs'[x] # NULL => x = t \/ runs[x] # NULL
    BY <1>2 DEF Clears, Rowed
  <2>9. Rowed'
    BY <2>6, <2>7, <2>8 DEF Rowed
  <2>10. QED
    BY <1>2, <2>9, OldStep DEF Clears, OldHook
<1>3. ASSUME NEW s \in Session, Turn(s) \/ Ends(s, "exit") \/ Ends(s, "other") \/ Swept(s)
      PROVE  Inv'
  <2>1. PICK closed : row' = [row EXCEPT ![s].closed = closed]
    BY <1>3 DEF Turn, Ends, Swept
  <2>2. IsRow(row[s])
    BY <1>3 DEF Turn, Ends, Swept, Rowed, Rows
  <2>3. IsRow([row[s] EXCEPT !.closed = closed])
    BY <2>2, RowFields
  <2>4. /\ runs' = [x \in Session |-> runs'[x]]
        /\ \A x \in Session : runs'[x] # NULL => runs[x] # NULL
    BY <1>3 DEF Turn, Ends, Swept, Rowed
  <2>5. row' = [row EXCEPT ![s] = [row[s] EXCEPT !.closed = closed]]
    BY <2>1
  <2>6. Rowed'
    BY <2>3, <2>4, <2>5, RowWritten
  <2>7. QED
    BY <1>3, <2>6, OldStep DEF Turn, Ends, Swept, OldHook
<1>4. ASSUME NEW s \in Session, Marks(s)
      PROVE  Inv'
  <2>1. PICK mark : row' = [row EXCEPT ![s].mark = mark]
    BY <1>4 DEF Marks
  <2>2. IsRow([row[s] EXCEPT !.mark = mark])
    BY <1>4, RowFields DEF Marks, Rowed
  <2>3. row' = [row EXCEPT ![s] = [row[s] EXCEPT !.mark = mark]] /\ UNCHANGED runs
    BY <1>4, <2>1 DEF Marks
  <2>4. Rowed'
    BY <2>2, <2>3, RowWritten DEF Rowed
  <2>5. QED
    BY <1>4, <2>4, OldStep DEF Marks, OldHook
<1>5. ASSUME NEW s \in Session, Vanishes(s)
      PROVE  Inv'
  <2>1. /\ UNCHANGED row /\ runs' = [x \in Session |-> runs'[x]]
        /\ \A x \in Session : runs'[x] # NULL => runs[x] # NULL
    BY <1>5 DEF Vanishes, Rowed
  <2>2. Rowed'
    BY <2>1 DEF Rowed
  <2>3. QED
    BY <1>5, <2>2, OldStep DEF Vanishes, OldHook
<1>6. QED
  BY <1>1, <1>2, <1>3, <1>4, <1>5 DEF OldProgram

LEMMA UpgradeKeeps ==
  ASSUME Inv, Upgrade
  PROVE  Inv'
<1>1. Rowed'
  BY DEF Upgrade, Inv, Rowed
<1>2. QED
  BY <1>1 DEF Upgrade, Inv, Opened, Replaced

LEMMA TickKeeps ==
  ASSUME Inv, Tick
  PROVE  Inv'
<1>1. Rowed' /\ now' \in Nat
  BY DEF Tick, old, Inv, Rowed
<1>2. QED
  BY <1>1 DEF Tick, Inv, Opened, Replaced

-----------------------------------------------------------------------------
(***************************************************************************)
(* An opener.                                                              *)
(***************************************************************************)

\* What the local state of an opener is worked on from.
LEMMA OpenerFields ==
  ASSUME Inv, NEW o \in Opener
  PROVE  /\ opener[o] \in [at : Places, column : Nat, now : Nat]
         /\ Relies(o, opener[o], columns, version, lock)
         /\ \A at \in Places : /\ [opener[o] EXCEPT !.at = at] \in [at : Places, column : Nat, now : Nat]
                               /\ [opener[o] EXCEPT !.at = at].at = at
                               /\ [opener[o] EXCEPT !.at = at].column = opener[o].column
         /\ Out \in [at : Places, column : Nat, now : Nat] /\ Out.at = "out"
         /\ columns \in Nat /\ columns <= Columns /\ Columns \in Nat \ {0}
         /\ version \in {0, 1} /\ now \in Nat
         /\ opener[o].at # "out" => upgraded
<1>1. opener[o] \in [at : Places, column : Nat, now : Nat]
  BY DEF Inv, Opened
<1>2. columns \in Nat /\ columns <= Columns /\ Columns \in Nat \ {0}
  BY MigrateAssumption DEF Inv, Opened
<1>3. Out \in [at : Places, column : Nat, now : Nat] /\ Out.at = "out"
  BY DEF Out, Places
<1>4. QED
  BY <1>1, <1>2, <1>3 DEF Inv, Opened, Replaced

\* A step of an opener that leaves the rows and the lock alone.
LEMMA PlainStep ==
  ASSUME Inv, NEW o \in Opener, NEW l \in [at : Places, column : Nat, now : Nat],
         Becomes(o, l), upgraded, UNCHANGED <<upgraded, now, runs, row, version, lock>>,
         columns' \in 0..Columns, columns' >= columns,
         Relies(o, l, columns', version, lock)
  PROVE  Inv'
<1>1. Rowed'
  BY DEF Inv, Rowed
<1>2. version' \in {0, 1} /\ version' >= version
  BY DEF Inv, Opened
<1>3. QED
  BY <1>1, <1>2, OpenerStep

LEMMA OpensKeeps ==
  ASSUME Inv, NEW o \in Opener, Opens(o)
  PROVE  Inv'
<1> DEFINE Local == [at : Places, column : Nat, now : Nat]
<1>0. /\ opener[o] \in Local
      /\ Relies(o, opener[o], columns, version, lock)
      /\ \A at \in Places : /\ [opener[o] EXCEPT !.at = at] \in Local
                            /\ [opener[o] EXCEPT !.at = at].at = at
                            /\ [opener[o] EXCEPT !.at = at].column = opener[o].column
      /\ Out \in Local /\ Out.at = "out"
      /\ columns \in Nat /\ columns <= Columns /\ Columns \in Nat \ {0}
      /\ version \in {0, 1} /\ now \in Nat
      /\ opener[o].at # "out" => upgraded
  BY OpenerFields
<1>1. CASE Begins(o)
  <2> DEFINE l == [Out EXCEPT !.at = "asks", !.column = 1]
  <2>1. l \in Local /\ l.at = "asks" /\ l.column = 1
    BY DEF Out, Places
  <2>2. Becomes(o, l) /\ upgraded /\ UNCHANGED <<upgraded, now, runs, row, version, lock, columns>>
        /\ opener[o].at = "out"
    BY <1>1 DEF Begins, Opening, Step, old, schema
  <2> HIDE DEF l
  <2>3. Relies(o, l, columns', version, lock)
    BY <1>0, <2>1, <2>2 DEF Relies, PastColumns, PastMigration
  <2>4. QED
    BY <1>0, <2>1, <2>2, <2>3, PlainStep
<1>2. CASE AsksColumn(o)
  <2>1. /\ opener[o].at = "asks" /\ upgraded
        /\ UNCHANGED <<upgraded, now, runs, row, version, lock, columns>>
    BY <1>0, <1>2 DEF AsksColumn, Opening, Step, old, schema
  <2>2. opener[o].column \in 1..Columns /\ columns >= opener[o].column - 1 /\ lock # o
    BY <1>0, <2>1 DEF Relies
  <2>3. CASE columns < opener[o].column
    <3> DEFINE l == [opener[o] EXCEPT !.at = "adds"]
    <3>1. Becomes(o, l) /\ l \in Local /\ l.at = "adds" /\ l.column = opener[o].column
      BY <1>0, <1>2, <2>3 DEF AsksColumn, GoesOn, Places
    <3> HIDE DEF l
    <3>2. Relies(o, l, columns', version, lock)
      BY <2>1, <2>2, <3>1 DEF Relies, PastColumns, PastMigration
    <3>3. QED
      BY <1>0, <2>1, <3>1, <3>2, PlainStep
  <2>4. CASE columns >= opener[o].column /\ opener[o].column < Columns
    <3> DEFINE l == [opener[o] EXCEPT !.column = @ + 1]
    <3>1. Becomes(o, l)
      BY <1>0, <1>2, <2>2, <2>4 DEF AsksColumn
    <3>2. l \in Local /\ l.at = "asks" /\ l.column = opener[o].column + 1
      BY <1>0, <2>1
    <3> HIDE DEF l
    <3>3. Relies(o, l, columns', version, lock)
      BY <1>0, <2>1, <2>2, <2>4, <3>2 DEF Relies, PastColumns, PastMigration
    <3>4. QED
      BY <1>0, <2>1, <3>1, <3>2, <3>3, PlainStep
  <2>5. CASE columns >= opener[o].column /\ ~(opener[o].column < Columns)
    <3> DEFINE l == [opener[o] EXCEPT !.at = "reads"]
    <3>1. Becomes(o, l) /\ l \in Local /\ l.at = "reads"
      BY <1>0, <1>2, <2>2, <2>5 DEF AsksColumn, GoesOn, Places
    <3> HIDE DEF l
    <3>2. columns = Columns
      BY <1>0, <2>2, <2>5
    <3>3. Relies(o, l, columns', version, lock)
      BY <2>1, <2>2, <3>1, <3>2 DEF Relies, PastColumns, PastMigration
    <3>4. QED
      BY <1>0, <2>1, <3>1, <3>3, PlainStep
  <2>6. QED
    BY <1>0, <2>2, <2>3, <2>4, <2>5
<1>3. CASE AddsColumn(o)
  <2>1. /\ opener[o].at = "adds" /\ upgraded
        /\ UNCHANGED <<upgraded, now, runs, row, version, lock>>
    BY <1>0, <1>3 DEF AddsColumn, Opening, Step, old
  <2>2. opener[o].column \in 1..Columns /\ columns >= opener[o].column - 1 /\ lock # o
    BY <1>0, <2>1 DEF Relies
  <2>3. CASE columns < opener[o].column
    <3> DEFINE l == [opener[o] EXCEPT !.at = "asks"]
    <3>1. /\ Becomes(o, l) /\ l \in Local /\ l.at = "asks" /\ l.column = opener[o].column
          /\ columns' = opener[o].column
      BY <1>0, <1>3, <2>3 DEF AddsColumn, GoesOn, Places
    <3> HIDE DEF l
    <3>2. Relies(o, l, columns', version, lock)
      BY <1>0, <2>1, <2>2, <3>1 DEF Relies, PastColumns, PastMigration
    <3>3. columns' \in 0..Columns /\ columns' >= columns
      BY <1>0, <2>2, <2>3, <3>1
    <3>4. QED
      BY <2>1, <3>1, <3>2, <3>3, PlainStep
  <2>4. CASE ~(columns < opener[o].column)
    <3>1. Becomes(o, Out) /\ UNCHANGED columns
      BY <1>3, <2>4 DEF AddsColumn
    <3>2. Relies(o, Out, columns', version, lock)
      BY <1>0, <2>2 DEF Relies, PastColumns, PastMigration
    <3>3. QED
      BY <1>0, <2>1, <3>1, <3>2, PlainStep
  <2>5. QED
    BY <2>3, <2>4
<1>4. CASE ReadsVersion(o)
  <2> DEFINE l == [opener[o] EXCEPT !.at = IF version = 1 THEN "drops" ELSE "begins", !.now = now]
  <2>1. /\ opener[o].at = "reads" /\ upgraded /\ Becomes(o, l)
        /\ UNCHANGED <<upgraded, now, runs, row, version, lock, columns>>
    BY <1>0, <1>4 DEF ReadsVersion, Opening, Step, old, schema
  <2>2. l \in Local /\ l.at \in {"drops", "begins"} /\ (l.at = "drops" => version = 1)
    BY <1>0 DEF Places
  <2> HIDE DEF l
  <2>3. Relies(o, l, columns', version, lock)
    BY <1>0, <2>1, <2>2 DEF Relies, PastColumns, PastMigration
  <2>4. QED
    BY <1>0, <2>1, <2>2, <2>3, PlainStep
<1>5. CASE BeginsWrite(o)
  <2> DEFINE l == [opener[o] EXCEPT !.at = "migrates"]
  <2>1. /\ opener[o].at = "begins" /\ upgraded /\ Becomes(o, l) /\ lock = NULL /\ lock' = o
        /\ UNCHANGED <<upgraded, now, runs, row, version, columns>>
    BY <1>0, <1>5 DEF BeginsWrite, Opening, Step, old, GoesOn, Free
  <2>2. l \in Local /\ l.at = "migrates"
    BY <1>0 DEF Places
  <2> HIDE DEF l
  <2>3. Relies(o, l, columns', version', lock')
    BY <1>0, <2>1, <2>2 DEF Relies, PastColumns, PastMigration
  <2>4. \A p \in Opener \ {o} : lock' = p <=> lock = p
    BY <2>1, MigrateAssumption
  <2>5. Rowed'
    BY <2>1 DEF Inv, Rowed
  <2>6. QED
    BY <1>0, <2>1, <2>2, <2>3, <2>4, <2>5, OpenerStep
<1>6. CASE Migrates(o)
  <2> DEFINE l == [opener[o] EXCEPT !.at = "drops"]
  <2>1. /\ opener[o].at = "migrates" /\ upgraded /\ Becomes(o, l) /\ lock' = NULL
        /\ UNCHANGED <<upgraded, now, columns>>
    BY <1>0, <1>6 DEF Migrates, Step, GoesOn
  <2>2. l \in Local /\ l.at = "drops"
    BY <1>0 DEF Places
  <2> HIDE DEF l
  <2>3. version' = 1 /\ (UNCHANGED <<row, runs>> \/ Sorts(o))
    BY <1>6 DEF Migrates, Sorts, old
  <2>4. lock = o /\ columns = Columns
    BY <1>0, <2>1 DEF Relies, PastColumns
  <2>5. Relies(o, l, columns', version', lock')
    BY <2>1, <2>2, <2>3, <2>4, MigrateAssumption DEF Relies, PastColumns, PastMigration
  <2>6. \A p \in Opener \ {o} : lock' = p <=> lock = p
    BY <2>1, <2>4, MigrateAssumption
  <2>7. Rowed'
    <3>1. CASE UNCHANGED <<row, runs>>
      BY <3>1 DEF Inv, Rowed
    <3>2. CASE Sorts(o)
      <4>1. \A s \in Session : row[s] # NULL => IsRow(row[s])
        BY DEF Inv, Rowed
      <4>2. ASSUME NEW s \in Rows PROVE s \in Session /\ IsRow(Sorted(s, opener[o].now))
        <5>1. s \in Session /\ IsRow(row[s])
          BY <4>1 DEF Rows
        <5> DEFINE q == [row[s] EXCEPT !.done = @ \/ (Closed(s) /\ Finished(s, opener[o].now))]
        <5>2. IsRow(q)
          BY <5>1, RowFields
        <5>3. Sorted(s, opener[o].now) = [q EXCEPT !.mark = IF @ # 0 /\ MarkHolds(s) THEN @ ELSE 0]
          BY DEF Sorted
        <5> DEFINE mark == IF q.mark # 0 /\ MarkHolds(s) THEN q.mark ELSE 0
        <5> HIDE DEF q
        <5>4. Sorted(s, opener[o].now) = [q EXCEPT !.mark = mark]
          BY <5>3
        <5> HIDE DEF mark
        <5>5. IsRow([q EXCEPT !.mark = mark])
          BY <5>2, RowFields
        <5>6. QED
          BY <5>1, <5>4, <5>5
      <4>3. /\ row' = [s \in Session |-> IF s \in Rows THEN Sorted(s, opener[o].now) ELSE NULL]
            /\ UNCHANGED runs
        BY <3>2 DEF Sorts
      <4>4. row' = [s \in Session |-> row'[s]] /\ \A s \in Session : row'[s] = NULL \/ IsRow(row'[s])
        BY <4>2, <4>3
      <4>5. \A s \in Session : IsRow(row[s]) => IsRow(row'[s])
        BY <4>2, <4>3 DEF Rows
      <4>6. QED
        BY <4>3, <4>4, <4>5 DEF Inv, Rowed
    <3>3. QED
      BY <2>3, <3>1, <3>2
  <2>8. QED
    BY <1>0, <2>1, <2>2, <2>3, <2>5, <2>6, <2>7, OpenerStep
<1>7. CASE DropsView(o) \/ CreatesView(o)
  <2>1. /\ opener[o].at \in {"drops", "creates"} /\ upgraded
        /\ UNCHANGED <<upgraded, now, runs, row, version, lock, columns>>
    BY <1>0, <1>7 DEF DropsView, CreatesView, Opening, Step, old
  <2>2. PICK l \in {[opener[o] EXCEPT !.at = "creates"], [opener[o] EXCEPT !.at = "open"], Out} :
          Becomes(o, l)
    BY <1>7 DEF DropsView, CreatesView, GoesOn
  <2>3. l \in Local /\ l.at \in {"creates", "open", "out"}
    BY <1>0, <2>2 DEF Places
  <2>4. Relies(o, l, columns', version, lock)
    BY <1>0, <2>1, <2>3 DEF Relies, PastColumns, PastMigration
  <2>5. QED
    BY <1>0, <2>1, <2>2, <2>3, <2>4, PlainStep
<1>8. CASE GivesUp(o)
  <2>1. /\ opener[o].at \in {"adds", "begins", "drops", "creates"} /\ upgraded /\ Becomes(o, Out)
        /\ UNCHANGED <<upgraded, now, runs, row, version, lock, columns>>
    BY <1>0, <1>8 DEF GivesUp, Opening, Step, old, schema
  <2>2. Relies(o, Out, columns', version, lock)
    BY <1>0, <2>1 DEF Relies, PastColumns, PastMigration
  <2>3. QED
    BY <1>0, <2>1, <2>2, PlainStep
<1>9. CASE Uses(o)
  <2>1. /\ opener[o].at = "open" /\ upgraded /\ Becomes(o, Out)
        /\ UNCHANGED <<upgraded, now, runs, version, lock, columns>>
    BY <1>0, <1>9 DEF Uses, Opening, Step, old, schema
  <2>2. Relies(o, Out, columns', version, lock)
    BY <1>0, <2>1 DEF Relies, PastColumns, PastMigration
  <2>3. Rowed'
    <3>1. CASE UNCHANGED row
      BY <2>1, <3>1 DEF Inv, Rowed
    <3>2. ASSUME NEW s \in Rows, NEW closed, row' = [row EXCEPT ![s].closed = closed]
          PROVE  Rowed'
      <4>1. s \in Session /\ IsRow([row[s] EXCEPT !.closed = closed])
        BY RowFields DEF Rows, Inv, Rowed
      <4>2. row' = [row EXCEPT ![s] = [row[s] EXCEPT !.closed = closed]]
        BY <3>2
      <4>3. QED
        BY <2>1, <4>1, <4>2, RowWritten DEF Inv, Rowed
    <3>3. QED
      BY <1>9, <3>1, <3>2 DEF Uses
  <2>4. QED
    BY <1>0, <2>1, <2>2, <2>3, OpenerStep
<1>10. QED
  BY <1>1, <1>2, <1>3, <1>4, <1>5, <1>6, <1>7, <1>8, <1>9 DEF Opens

LEMMA KilledKeeps ==
  ASSUME Inv, NEW o \in Opener, Killed(o)
  PROVE  Inv'
<1>1. /\ Out \in [at : Places, column : Nat, now : Nat] /\ Out.at = "out"
      /\ columns \in 0..Columns /\ version \in {0, 1} /\ upgraded
  BY OpenerFields DEF Killed, Inv, Opened
<1>2. /\ Becomes(o, Out) /\ UNCHANGED <<upgraded, now, runs, row, version, columns>>
      /\ lock' = IF lock = o THEN NULL ELSE lock
  BY DEF Killed, old
<1>3. Relies(o, Out, columns', version', lock')
  BY <1>1, <1>2, MigrateAssumption DEF Relies, PastColumns, PastMigration
<1>4. \A p \in Opener \ {o} : lock' = p <=> lock = p
  BY <1>2, MigrateAssumption
<1>5. Rowed'
  BY <1>2 DEF Inv, Rowed
<1>6. columns' >= columns /\ version' >= version
  BY <1>1, <1>2, MigrateAssumption
<1>7. QED
  BY <1>1, <1>2, <1>3, <1>4, <1>5, <1>6, OpenerStep

-----------------------------------------------------------------------------
(***************************************************************************)
(* The theorems.                                                           *)
(***************************************************************************)

LEMMA InvInit == Init => Inv
<1> SUFFICES ASSUME Init PROVE Inv
  OBVIOUS
<1>1. Columns \in Nat \ {0} /\ NULL \notin Opener
  BY MigrateAssumption
<1>2. Opened
  <2>1. \A o \in Opener : opener[o] = Out /\ Out.at = "out" /\ lock # o
    BY <1>1 DEF Init, Out
  <2>2. Out \in [at : Places, column : Nat, now : Nat]
    BY DEF Out, Places
  <2>3. \A o \in Opener : Relies(o, opener[o], columns, version, lock)
    BY <2>1 DEF Relies, PastColumns, PastMigration
  <2>4. QED
    BY <1>1, <2>2, <2>3 DEF Init, Opened
<1>3. Replaced /\ Rowed /\ now \in Nat
  BY DEF Init, Replaced, Rowed, Out
<1>4. QED
  BY <1>2, <1>3 DEF Inv

LEMMA InvNext == Inv /\ [Next]_vars => Inv'
<1> SUFFICES ASSUME Inv, [Next]_vars PROVE Inv'
  OBVIOUS
<1>1. CASE OldProgram \/ Upgrade \/ Tick
  BY <1>1, OldProgramKeeps, UpgradeKeeps, TickKeeps
<1>2. ASSUME NEW o \in Opener, Opens(o) \/ Killed(o)
      PROVE  Inv'
  BY <1>2, OpensKeeps, KilledKeeps
<1>3. CASE UNCHANGED vars
  <2>1. UNCHANGED <<runs, row, columns, version, lock, opener, now, upgraded>>
    BY <1>3 DEF vars
  <2>2. QED
    BY <2>1 DEF Inv, Opened, Replaced, Rowed
<1>4. QED
  BY <1>1, <1>2, <1>3 DEF Next

LEMMA InvHolds == Spec => []Inv
BY InvInit, InvNext, PTL DEF Spec

\* However many processes open the ledger, and wherever they are killed or give up: who
\* has it open has it with all its columns, and migrated (Open).
THEOREM WholeWhenOpen == Spec => []OpenedWhole
<1>1. Inv => OpenedWhole
  BY DEF Inv, Opened, Relies, OpenedWhole, PastColumns, PastMigration
<1>2. QED
  BY <1>1, InvHolds, PTL

\* Once the version is stamped nobody sorts the sessions again (migrateLifecycle, its
\* second read of the version).
THEOREM SortsOnce == Spec => SortedOnce
<1> DEFINE Kept == \A s \in Rows : row'[s].done = row[s].done
<1>1. ASSUME Inv, [Next]_vars, version = 1
      PROVE  Kept
  <2>1. upgraded
    BY <1>1 DEF Inv, Replaced
  <2>2. CASE UNCHANGED row
    BY <2>2
  <2>3. ASSUME NEW o \in Opener, Uses(o)
        PROVE  Kept
    <3>1. ASSUME NEW s \in Rows, NEW closed, row' = [row EXCEPT ![s].closed = closed]
          PROVE  Kept
      <4>1. s \in Session /\ IsRow(row[s]) /\ row = [x \in Session |-> row[x]]
        BY <1>1 DEF Rows, Inv, Rowed
      <4>2. [row[s] EXCEPT !.closed = closed].done = row[s].done
        BY <4>1, RowFields
      <4>3. \A x \in Session : row'[x] = IF x = s THEN [row[s] EXCEPT !.closed = closed] ELSE row[x]
        BY <3>1, <4>1
      <4>4. QED
        BY <4>2, <4>3 DEF Rows
    <3>2. QED
      BY <2>2, <2>3, <3>1 DEF Uses
  <2>4. OldProgram => FALSE
    BY <2>1 DEF OldProgram, Starts, Clears, Turn, Marks, Ends, Vanishes, Swept, OldHook
  <2>5. Upgrade \/ Tick => UNCHANGED row
    BY DEF Upgrade, Tick
  <2>6. ASSUME NEW o \in Opener, Opens(o) \/ Killed(o)
        PROVE  Uses(o) \/ UNCHANGED row
    BY <1>1, <2>6 DEF Opens, Killed, Begins, AsksColumn, AddsColumn, ReadsVersion, BeginsWrite,
                      Migrates, DropsView, CreatesView, GivesUp
  <2>7. UNCHANGED vars => UNCHANGED row
    BY DEF vars
  <2>8. QED
    BY <1>1, <2>2, <2>3, <2>4, <2>5, <2>6, <2>7 DEF Next
<1>2. ASSUME Inv, [Next]_vars
      PROVE  [version = 1 => Kept]_vars
  BY <1>1, <1>2
<1>3. QED
  BY <1>2, InvHolds, PTL DEF Spec, SortedOnce

-----------------------------------------------------------------------------
(***************************************************************************)
(* What the events of the old ledger tell.                                 *)
(***************************************************************************)

\* Event i of e is the last one of s.
LastOf(e, s, i) ==
  /\ i \in 1..Len(e) /\ e[i].s = s
  /\ \A j \in (i + 1)..Len(e) : e[j].s # s

IsEnd(ev) == ev.type \in {"SessionEnd", "ForcedEnd"}

\* The SessionStarts in pane after event i.
StartsAfter(e, pane, i) ==
  {n \in (i + 1)..Len(e) : e[n].type = "SessionStart" /\ e[n].pane = pane}

\* A /clear was recorded in one go with event i by the session that came after.
ClearFollows(e, i) ==
  \E n \in StartsAfter(e, e[i].pane, i) :
    /\ e[n].why = "clear" /\ e[n].at = e[i].at
    /\ \A m \in StartsAfter(e, e[i].pane, i) : n <= m

\* The first to start in the pane after event i is not one that came after a /clear.
NoClearFollows(e, i) ==
  \A n \in StartsAfter(e, e[i].pane, i) :
    e[n].why = "clear" => \E m \in StartsAfter(e, e[i].pane, i) : m < n

\* End i tells that the process came to its end in the way that how says.
Tells(e, i, how) ==
  \/ /\ e[i].type = "SessionEnd"
     /\ \/ e[i].why = "exit" /\ how = "typed"
        \/ e[i].why = "clear" /\ how = "clear"
        \/ e[i].why = "other" /\ how = "cut"
  \/ /\ e[i].type = "ForcedEnd" /\ e[i].why = NULL
     /\ \/ how = "clear" /\ ClearFollows(e, i)
        \/ how = "cut" /\ NoClearFollows(e, i)

\* Whoever runs where a session was has started there since.
Succeeded(e, i, where) ==
  (\E x \in Session : where[x] = e[i].pane) => StartsAfter(e, e[i].pane, i) # {}

\* The row is that of a session as it is: the columns are what its last event left.
ClosedAsTold(e, s, how, where) ==
  \E i \in 1..Len(e) : LastOf(e, s, i) /\ IsEnd(e[i]) /\ Tells(e, i, how) /\ Succeeded(e, i, where)

OpenAsTold(e, s) == \E i \in 1..Len(e) : LastOf(e, s, i) /\ ~IsEnd(e[i])

\* A mark in force sits on the latest event that is no end, one that is not has been
\* left behind.
MarkAsHeld(e, s, mark, inForce) ==
  IF inForce
  THEN /\ mark \in 1..Len(e) /\ e[mark].s = s /\ ~IsEnd(e[mark])
       /\ \A j \in (mark + 1)..Len(e) : e[j].s = s => IsEnd(e[j])
  ELSE \/ mark = 0
       \/ \E j \in (mark + 1)..Len(e) : e[j].s = s /\ ~IsEnd(e[j])

InOrder(e, t) ==
  /\ \A i, j \in 1..Len(e) : i <= j => e[i].at <= e[j].at
  /\ \A i \in 1..Len(e) : e[i].at <= t

\* A session that runs is open in the ledger, in its pane.  One that is open and does not
\* run has been cut.  There is one open session in a pane.
Placed ==
  /\ \A s \in Session : runs[s] # NULL =>
       /\ row[s] # NULL /\ row[s].pane = runs[s] /\ row[s].closed = NULL
       /\ OpenAsTold(events, s)
  /\ \A s \in Rows : row[s].closed = NULL /\ runs[s] = NULL /\ ~upgraded => ended[s] = "cut"
  /\ \A s, t \in Rows : row[s].closed = NULL /\ row[t].closed = NULL /\ row[s].pane = row[t].pane
       => s = t
  /\ \A s \in Session : row[s] = NULL => ~held[s]

Recorded ==
  /\ InOrder(events, now)
  /\ Placed
  /\ \A s \in Rows : /\ ~row[s].done
                     /\ MarkAsHeld(events, s, row[s].mark, held[s])
                     /\ row[s].closed # NULL => ClosedAsTold(events, s, ended[s], runs)

OldInv == version = 0 => Recorded

-----------------------------------------------------------------------------
(***************************************************************************)
(* One more event.                                                         *)
(***************************************************************************)

Grown(e, f, ev) ==
  /\ Len(f) = Len(e) + 1 /\ f[Len(f)] = ev
  /\ \A i \in 1..Len(e) : f[i] = e[i]

LEMMA AppendGrows ==
  ASSUME NEW e \in Seq(Event), NEW ev \in Event
  PROVE  /\ e \o <<ev>> \in Seq(Event) /\ Grown(e, e \o <<ev>>, ev)
         /\ <<ev>> \in Seq(Event)
<1>1. /\ e \o <<ev>> \in Seq(Event) /\ Len(e \o <<ev>>) = Len(e) + Len(<<ev>>)
      /\ \A i \in 1..Len(e) + Len(<<ev>>) :
            (e \o <<ev>>)[i] = IF i <= Len(e) THEN e[i] ELSE <<ev>>[i - Len(e)]
  BY ConcatProperties
<1>2. Len(e) \in Nat /\ Len(<<ev>>) = 1 /\ <<ev>>[1] = ev /\ <<ev>> \in Seq(Event)
  BY LenProperties
<1>3. QED
  BY <1>1, <1>2 DEF Grown

LEMMA GrownFacts ==
  ASSUME NEW e \in Seq(Event), NEW f \in Seq(Event), NEW ev \in Event, Grown(e, f, ev)
  PROVE  /\ Len(e) \in Nat /\ Len(f) \in Nat /\ Len(f) = Len(e) + 1 /\ f[Len(f)] = ev
         /\ \A i \in 1..Len(e) : f[i] = e[i] /\ e[i] \in Event
         /\ \A i \in 1..Len(f) : i \in 1..Len(e) \/ i = Len(f)
         /\ \A i \in 1..Len(f) : f[i] \in Event
<1>1. Len(e) \in Nat /\ Len(f) \in Nat /\ \A i \in 1..Len(e) : e[i] \in Event
  BY LenProperties, ElementOfSeq
<1>2. \A i \in 1..Len(f) : f[i] \in Event
  BY ElementOfSeq
<1>3. QED
  BY <1>1, <1>2 DEF Grown

LEMMA LastIsNew ==
  ASSUME NEW e \in Seq(Event), NEW f \in Seq(Event), NEW ev \in Event, Grown(e, f, ev)
  PROVE  /\ LastOf(f, ev.s, Len(f)) /\ Len(f) \in 1..Len(f)
         /\ ~IsEnd(ev) => OpenAsTold(f, ev.s)
<1>1. LastOf(f, ev.s, Len(f)) /\ Len(f) \in 1..Len(f)
  BY GrownFacts DEF LastOf
<1>2. QED
  BY <1>1, GrownFacts DEF OpenAsTold

LEMMA LastIsKept ==
  ASSUME NEW e \in Seq(Event), NEW f \in Seq(Event), NEW ev \in Event, Grown(e, f, ev),
         NEW s, ev.s # s
  PROVE  /\ \A i \in 1..Len(e) : LastOf(e, s, i) => LastOf(f, s, i) /\ i \in 1..Len(f)
         /\ OpenAsTold(e, s) => OpenAsTold(f, s)
<1>1. /\ Len(e) \in Nat /\ Len(f) = Len(e) + 1 /\ f[Len(f)] = ev
      /\ \A i \in 1..Len(e) : f[i] = e[i]
  BY GrownFacts
<1>2. ASSUME NEW i \in 1..Len(e), LastOf(e, s, i)
      PROVE  LastOf(f, s, i) /\ i \in 1..Len(f) /\ f[i] = e[i]
  <2>1. i \in 1..Len(f) /\ f[i].s = s
    BY <1>1, <1>2 DEF LastOf
  <2>2. ASSUME NEW j \in (i + 1)..Len(f)
        PROVE  f[j].s # s
    <3>1. j = Len(f) \/ j \in (i + 1)..Len(e)
      BY <1>1
    <3>2. QED
      BY <1>1, <1>2, <3>1 DEF LastOf
  <2>3. QED
    BY <1>1, <2>1, <2>2 DEF LastOf
<1>3. QED
  BY <1>2 DEF OpenAsTold

LEMMA StartsGrow ==
  ASSUME NEW e \in Seq(Event), NEW f \in Seq(Event), NEW ev \in Event, Grown(e, f, ev),
         NEW pane, NEW i \in 1..Len(e)
  PROVE  /\ StartsAfter(e, pane, i) \subseteq StartsAfter(f, pane, i)
         /\ \A n \in StartsAfter(f, pane, i) :
              \/ n \in StartsAfter(e, pane, i)
              \/ n = Len(f) /\ ev.type = "SessionStart" /\ ev.pane = pane
         /\ ev.type = "SessionStart" /\ ev.pane = pane => Len(f) \in StartsAfter(f, pane, i)
         /\ \A n \in StartsAfter(e, pane, i) : n \in 1..Len(e) /\ n < Len(f)
<1>1. /\ Len(e) \in Nat /\ Len(f) = Len(e) + 1 /\ f[Len(f)] = ev
      /\ \A n \in 1..Len(e) : f[n] = e[n]
  BY GrownFacts
<1>2. \A n \in (i + 1)..Len(f) : n = Len(f) \/ n \in (i + 1)..Len(e)
  BY <1>1
<1>3. \A n \in (i + 1)..Len(e) :
        n \in (i + 1)..Len(f) /\ n \in 1..Len(e) /\ n < Len(f) /\ f[n] = e[n]
  BY <1>1
<1>4. Len(f) \in (i + 1)..Len(f)
  BY <1>1
<1>5. QED
  BY <1>1, <1>2, <1>3, <1>4 DEF StartsAfter

LEMMA ToldIsKept ==
  ASSUME NEW e \in Seq(Event), NEW f \in Seq(Event), NEW ev \in Event, Grown(e, f, ev),
         NEW i \in 1..Len(e), NEW how, Tells(e, i, how),
         \/ StartsAfter(e, e[i].pane, i) # {}
         \/ ~(ev.type = "SessionStart" /\ ev.why = "clear" /\ ev.pane = e[i].pane)
  PROVE  Tells(f, i, how)
<1> DEFINE p == e[i].pane
           before == StartsAfter(e, p, i)
           after == StartsAfter(f, p, i)
<1>1. /\ f[i] = e[i] /\ f[i].pane = p /\ f[Len(f)] = ev
      /\ \A n \in 1..Len(e) : f[n] = e[n]
      /\ Len(f) \in Nat
  BY GrownFacts
<1>2. /\ before \subseteq after
      /\ \A n \in after : \/ n \in before
                          \/ n = Len(f) /\ ev.type = "SessionStart" /\ ev.pane = p
      /\ \A n \in before : n \in 1..Len(e) /\ n < Len(f)
  BY StartsGrow
<1>3. ASSUME ClearFollows(e, i)
      PROVE  ClearFollows(f, i)
  <2>1. PICK n \in before : /\ e[n].why = "clear" /\ e[n].at = e[i].at
                            /\ \A m \in before : n <= m
    BY <1>3 DEF ClearFollows
  <2>2. n \in after /\ f[n] = e[n] /\ n \in 1..Len(e) /\ n < Len(f)
    BY <1>1, <1>2
  <2>3. \A m \in after : n <= m
    BY <1>1, <1>2, <2>1, <2>2
  <2> HIDE DEF p, before
  <2>4. QED
    BY <1>1, <2>1, <2>2, <2>3 DEF ClearFollows
<1>4. ASSUME NoClearFollows(e, i)
      PROVE  NoClearFollows(f, i)
  <2>1. ASSUME NEW n \in after, f[n].why = "clear"
        PROVE  \E m \in after : m < n
    <3>1. CASE n \in before
      <4>1. \E m \in before : m < n
        BY <1>1, <1>2, <1>4, <2>1, <3>1 DEF NoClearFollows
      <4>2. QED
        BY <1>2, <4>1
    <3>2. CASE n \notin before
      <4>1. n = Len(f) /\ before # {}
        BY <1>1, <1>2, <2>1, <3>2
      <4>2. QED
        BY <1>2, <4>1
    <3>3. QED
      BY <3>1, <3>2
  <2> HIDE DEF p, before
  <2>2. QED
    BY <1>1, <2>1 DEF NoClearFollows
<1>5. QED
  BY <1>1, <1>3, <1>4 DEF Tells

\* A session that comes after a /clear comes where one runs, and whoever runs in a pane
\* where nobody did has just started.
Follows(ev, where, after) ==
  /\ ev.type = "SessionStart" /\ ev.why = "clear" => \E x \in Session : where[x] = ev.pane
  /\ \A x \in Session : \/ after[x] = NULL
                        \/ \E y \in Session : where[y] = after[x]
                        \/ ev.type = "SessionStart" /\ ev.pane = after[x]

\* The row of a session that has ended is as told still, if the event is of another.
LEMMA ClosedIsKept ==
  ASSUME NEW e \in Seq(Event), NEW f \in Seq(Event), NEW ev \in Event, Grown(e, f, ev),
         NEW s, ev.s # s, NEW how, NEW where, NEW after, ClosedAsTold(e, s, how, where),
         Follows(ev, where, after)
  PROVE  ClosedAsTold(f, s, how, after)
<1>1. PICK i \in 1..Len(e) : /\ LastOf(e, s, i) /\ IsEnd(e[i]) /\ Tells(e, i, how)
                             /\ Succeeded(e, i, where)
  BY DEF ClosedAsTold
<1>a. f[i] = e[i] /\ e[i] \in Event
  BY GrownFacts
<1>b. e[i].pane \in Pane
  BY <1>a DEF Event
<1>2. LastOf(f, s, i) /\ i \in 1..Len(f) /\ f[i] = e[i] /\ e[i].pane \in Pane
  BY <1>1, <1>a, <1>b, LastIsKept
<1>3. Tells(f, i, how)
  BY <1>1, ToldIsKept DEF Succeeded, Follows
<1>4. Succeeded(f, i, after)
  BY <1>1, <1>2, StartsGrow, MigrateAssumption DEF Succeeded, Follows
<1>5. QED
  BY <1>1, <1>2, <1>3, <1>4 DEF ClosedAsTold

\* An end of another session, or of this one, leaves its mark where it is.
LEMMA MarkIsKept ==
  ASSUME NEW e \in Seq(Event), NEW f \in Seq(Event), NEW ev \in Event, Grown(e, f, ev),
         NEW s, ev.s # s \/ IsEnd(ev), NEW mark \in Nat, NEW inForce,
         MarkAsHeld(e, s, mark, inForce)
  PROVE  MarkAsHeld(f, s, mark, inForce)
BY GrownFacts DEF MarkAsHeld, IsEnd

\* What else a session does takes it off.
LEMMA MarkIsDropped ==
  ASSUME NEW e \in Seq(Event), NEW f \in Seq(Event), NEW ev \in Event, Grown(e, f, ev),
         ~IsEnd(ev), NEW mark \in Nat, NEW inForce, MarkAsHeld(e, ev.s, mark, inForce)
  PROVE  MarkAsHeld(f, ev.s, mark, FALSE)
<1>1. mark <= Len(e)
  BY GrownFacts DEF MarkAsHeld
<1>2. QED
  BY <1>1, GrownFacts DEF MarkAsHeld

LEMMA OrderIsKept ==
  ASSUME NEW e \in Seq(Event), NEW f \in Seq(Event), NEW ev \in Event, Grown(e, f, ev),
         InOrder(e, ev.at)
  PROVE  InOrder(f, ev.at)
<1>1. \A i \in 1..Len(f) : f[i].at \in Nat
  BY GrownFacts DEF Event
<1>2. ev.at \in Nat
  BY DEF Event
<1>3. /\ Len(e) \in Nat /\ Len(f) = Len(e) + 1 /\ f[Len(f)] = ev
      /\ \A i \in 1..Len(e) : f[i] = e[i]
  BY GrownFacts
<1>4. \A i \in 1..Len(f) : f[i].at <= ev.at
  BY <1>2, <1>3 DEF InOrder
<1>5. \A i, j \in 1..Len(f) : i <= j => f[i].at <= f[j].at
  <2>1. SUFFICES ASSUME NEW i \in 1..Len(f), NEW j \in 1..Len(f), i <= j
                 PROVE  f[i].at <= f[j].at
    OBVIOUS
  <2>2. CASE j = Len(f)
    BY <1>3, <1>4, <2>2
  <2>3. CASE j # Len(f)
    BY <1>3, <2>1, <2>3 DEF InOrder
  <2>4. QED
    BY <2>2, <2>3
<1>6. QED
  BY <1>4, <1>5 DEF InOrder

-----------------------------------------------------------------------------
(***************************************************************************)
(* What the old program does keeps its record true.                        *)
(***************************************************************************)

\* What the events tell of a session whose row is r.
Told(e, s, r, how, inForce, where) ==
  /\ ~r.done
  /\ MarkAsHeld(e, s, r.mark, inForce)
  /\ r.closed # NULL => ClosedAsTold(e, s, how, where)

LEMMA ToldOfOthers ==
  ASSUME NEW e \in Seq(Event), NEW f \in Seq(Event), NEW ev \in Event, Grown(e, f, ev),
         NEW s, ev.s # s, NEW r \in Row, NEW how, NEW inForce, NEW where, NEW after,
         Told(e, s, r, how, inForce, where), Follows(ev, where, after)
  PROVE  Told(f, s, r, how, inForce, after)
<1>1. r.mark \in Nat
  BY DEF Row
<1>2. MarkAsHeld(f, s, r.mark, inForce)
  BY <1>1, MarkIsKept DEF Told
<1>3. r.closed # NULL => ClosedAsTold(f, s, how, after)
  BY ClosedIsKept DEF Told
<1>4. QED
  BY <1>2, <1>3 DEF Told

\* An end that no start in its pane has come after yet, and nobody runs there.
LEMMA EndTells ==
  ASSUME NEW e \in Seq(Event), NEW f \in Seq(Event), NEW ev \in Event, Grown(e, f, ev),
         NEW how, NEW where, \A x \in Session : where[x] # ev.pane,
         \/ ev.type = "SessionEnd" /\ ev.why = "exit" /\ how = "typed"
         \/ ev.type = "SessionEnd" /\ ev.why = "other" /\ how = "cut"
         \/ ev.type = "ForcedEnd" /\ ev.why = NULL /\ how = "cut"
  PROVE  ClosedAsTold(f, ev.s, how, where)
<1> DEFINE n == Len(f)
<1>1. n \in 1..Len(f) /\ f[n] = ev /\ LastOf(f, ev.s, n) /\ n \in Nat
  BY LastIsNew, GrownFacts
<1>2. StartsAfter(f, f[n].pane, n) = {}
  BY <1>1 DEF StartsAfter
<1> HIDE DEF n
<1>3. Tells(f, n, how)
  BY <1>1, <1>2 DEF Tells, NoClearFollows
<1>4. Succeeded(f, n, where) /\ IsEnd(f[n])
  BY <1>1 DEF Succeeded, IsEnd
<1>5. QED
  BY <1>1, <1>3, <1>4 DEF ClosedAsTold

\* An end and the start that came after it with a /clear.
LEMMA ClearTells ==
  ASSUME NEW e \in Seq(Event), NEW f \in Seq(Event), NEW g \in Seq(Event),
         NEW ev \in Event, NEW next \in Event, Grown(e, f, ev), Grown(f, g, next),
         next.s # ev.s, next.type = "SessionStart", next.why = "clear",
         next.pane = ev.pane, next.at = ev.at,
         \/ ev.type = "SessionEnd" /\ ev.why = "clear"
         \/ ev.type = "ForcedEnd" /\ ev.why = NULL,
         NEW where
  PROVE  ClosedAsTold(g, ev.s, "clear", where)
<1> DEFINE i == Len(f)
           n == Len(g)
<1>1. i \in 1..Len(f) /\ f[i] = ev /\ LastOf(f, ev.s, i) /\ i \in Nat
  BY LastIsNew, GrownFacts
<1>2. LastOf(g, ev.s, i) /\ i \in 1..Len(g)
  BY <1>1, LastIsKept
<1>3. g[i] = ev /\ g[n] = next /\ n = i + 1 /\ n \in 1..Len(g)
  BY <1>1, GrownFacts
<1>4. StartsAfter(g, ev.pane, i) = {n}
  BY <1>1, <1>3 DEF StartsAfter
<1> HIDE DEF i, n
<1>5. ClearFollows(g, i)
  BY <1>1, <1>3, <1>4 DEF ClearFollows
<1>6. Tells(g, i, "clear")
  BY <1>3, <1>5 DEF Tells
<1>7. Succeeded(g, i, where) /\ IsEnd(g[i])
  BY <1>3, <1>4 DEF Succeeded, IsEnd
<1>8. QED
  BY <1>2, <1>6, <1>7 DEF ClosedAsTold

\* The sessions but s that the ledger has in pane.
Siblings(s, pane, rows) ==
  {x \in Session \ {s} : rows[x] # NULL /\ rows[x].pane = pane /\ rows[x].closed = NULL}

Forced(T, pane) ==
  [i \in 1..Cardinality(T) |-> Happened(SetToSeq(T)[i], "ForcedEnd", NULL, pane)]

LEMMA ForcedFew ==
  ASSUME NEW pane, NEW x
  PROVE  /\ Forced({}, pane) = <<>>
         /\ Forced({x}, pane) = <<Happened(x, "ForcedEnd", NULL, pane)>>
<1>1. Cardinality({}) = 0 /\ Cardinality({x}) = 1
  BY FS_EmptySet, FS_Singleton
<1>2. SetToSeq({x})[1] = x
  <2> DEFINE f == [i \in 1..1 |-> x]
  <2>1. f \in [1..Cardinality({x}) -> {x}] /\ IsInjective(f)
    BY <1>1 DEF IsInjective
  <2> HIDE DEF f
  <2>2. SetToSeq({x}) \in [1..Cardinality({x}) -> {x}]
    BY <2>1 DEF SetToSeq
  <2>3. QED
    BY <1>1, <2>2
<1>3. Forced({}, pane) = <<>>
  BY <1>1 DEF Forced
<1>4. Forced({x}, pane) = <<Happened(x, "ForcedEnd", NULL, pane)>>
  <2> DEFINE h == Happened(x, "ForcedEnd", NULL, pane)
  <2>1. Forced({x}, pane) = [i \in 1..1 |-> Happened(SetToSeq({x})[i], "ForcedEnd", NULL, pane)]
    BY <1>1 DEF Forced
  <2>2. \A i \in 1..1 : i = 1
    OBVIOUS
  <2>3. \A i \in 1..1 : Happened(SetToSeq({x})[i], "ForcedEnd", NULL, pane) = h
    BY <1>2, <2>2
  <2> HIDE DEF h
  <2>4. Forced({x}, pane) = [i \in 1..1 |-> h]
    BY <2>1, <2>3
  <2>5. QED
    BY <2>4 DEF h
<1>5. QED
  BY <1>3, <1>4

LEMMA StartsInRecords ==
  ASSUME NEW s \in Session, NEW pane, NEW source, NEW before, NEW rows,
         StartsIn(s, pane, source, before, rows)
  PROVE  events' = events \o (before \o Forced(Siblings(s, pane, rows), pane)
                             \o <<Happened(s, "SessionStart", source, pane)>>)
BY DEF StartsIn, Siblings, Forced, Records

LEMMA StartsInWrites ==
  ASSUME NEW s \in Session, NEW pane, NEW source, NEW before, NEW rows,
         StartsIn(s, pane, source, before, rows)
  PROVE  /\ row' = [x \in Session |-> row'[x]]
         /\ row'[s] = [pane |-> pane, closed |-> NULL, done |-> FALSE,
                       mark |-> IF rows[s] = NULL THEN 0 ELSE rows[s].mark]
         /\ \A x \in Session \ {s} :
              row'[x] = IF x \in Siblings(s, pane, rows)
                        THEN [rows[x] EXCEPT !.closed = now] ELSE rows[x]
BY DEF StartsIn, Siblings

LEMMA HappenedType ==
  ASSUME now \in Nat, NEW s \in Session, NEW pane \in Pane,
         NEW type \in {"SessionStart", "Turn", "SessionEnd", "ForcedEnd"},
         NEW why \in {"startup", "clear", "exit", "other", NULL}
  PROVE  /\ Happened(s, type, why, pane) \in Event
         /\ Happened(s, type, why, pane).s = s
         /\ Happened(s, type, why, pane).type = type
         /\ Happened(s, type, why, pane).why = why
         /\ Happened(s, type, why, pane).at = now
         /\ Happened(s, type, why, pane).pane = pane
BY DEF Happened, Event

\* The events after a SessionStart, with one end before it at most.
LEMMA StartsInEvents ==
  ASSUME NEW s \in Session, NEW pane \in Pane, NEW source \in {"startup", "clear"},
         now \in Nat, events \in Seq(Event), NEW rows
  PROVE  /\ Siblings(s, pane, rows) = {} /\ StartsIn(s, pane, source, <<>>, rows) =>
              events' = events \o <<Happened(s, "SessionStart", source, pane)>>
         /\ \A x \in Session :
              Siblings(s, pane, rows) = {x} /\ StartsIn(s, pane, source, <<>>, rows) =>
                events' = (events \o <<Happened(x, "ForcedEnd", NULL, pane)>>)
                          \o <<Happened(s, "SessionStart", source, pane)>>
         /\ \A ev \in Event :
              Siblings(s, pane, rows) = {} /\ StartsIn(s, pane, source, <<ev>>, rows) =>
                events' = (events \o <<ev>>) \o <<Happened(s, "SessionStart", source, pane)>>
<1> DEFINE start == Happened(s, "SessionStart", source, pane)
<1>1. start \in Event
  BY HappenedType
<1> HIDE DEF start
<1>2. <<start>> \in Seq(Event)
  BY <1>1, AppendGrows
<1>3. \A ev \in Event : events \o (<<ev>> \o <<start>>) = (events \o <<ev>>) \o <<start>>
  <2>1. ASSUME NEW ev \in Event
        PROVE  events \o (<<ev>> \o <<start>>) = (events \o <<ev>>) \o <<start>>
    <3>1. <<ev>> \in Seq(Event)
      BY AppendGrows
    <3>2. QED
      BY <1>2, <3>1, ConcatAssociative
  <2>2. QED
    BY <2>1
<1>4. /\ <<>> \in Seq(Event) /\ <<>> \o <<>> = <<>> /\ <<>> \o <<start>> = <<start>>
      /\ \A ev \in Event : <<>> \o <<ev>> = <<ev>> /\ <<ev>> \o <<>> = <<ev>>
  BY <1>2, AppendGrows, EmptySeq, ConcatEmptySeq
<1>5. ASSUME Siblings(s, pane, rows) = {}, StartsIn(s, pane, source, <<>>, rows)
      PROVE  events' = events \o <<start>>
  <2>0. events' = events \o (<<>> \o Forced(Siblings(s, pane, rows), pane) \o <<start>>)
    BY <1>5, StartsInRecords DEF start
  <2>1. events' = events \o (<<>> \o Forced({}, pane) \o <<start>>)
    BY <1>5, <2>0
  <2>2. QED
    BY <1>4, <2>1, ForcedFew
<1>6. ASSUME NEW x \in Session, Siblings(s, pane, rows) = {x},
             StartsIn(s, pane, source, <<>>, rows)
      PROVE  events' = (events \o <<Happened(x, "ForcedEnd", NULL, pane)>>) \o <<start>>
  <2> DEFINE forced == Happened(x, "ForcedEnd", NULL, pane)
  <2>1. forced \in Event
    BY HappenedType
  <2>2. events' = events \o (<<>> \o <<forced>> \o <<start>>)
    <3>0. events' = events \o (<<>> \o Forced(Siblings(s, pane, rows), pane) \o <<start>>)
      BY <1>6, StartsInRecords DEF start
    <3>1. events' = events \o (<<>> \o Forced({x}, pane) \o <<start>>)
      BY <1>6, <3>0
    <3>2. QED
      BY <3>1, ForcedFew
  <2> HIDE DEF forced
  <2>3. events' = (events \o <<forced>>) \o <<start>>
    BY <1>3, <1>4, <2>1, <2>2
  <2>4. QED
    BY <2>3 DEF forced
<1>7. ASSUME NEW ev \in Event, Siblings(s, pane, rows) = {},
             StartsIn(s, pane, source, <<ev>>, rows)
      PROVE  events' = (events \o <<ev>>) \o <<start>>
  <2>0. events' = events \o (<<ev>> \o Forced(Siblings(s, pane, rows), pane) \o <<start>>)
    BY <1>7, StartsInRecords DEF start
  <2>1. events' = events \o (<<ev>> \o Forced({}, pane) \o <<start>>)
    BY <1>7, <2>0
  <2>2. QED
    BY <1>3, <1>4, <2>1, ForcedFew
<1>8. QED
  BY <1>5, <1>6, <1>7 DEF start

IInv == TypeOK /\ Inv /\ OldInv

LEMMA RowClosed ==
  ASSUME NEW r \in Row, NEW closed \in {NULL} \cup Nat
  PROVE  /\ [r EXCEPT !.closed = closed] \in Row
         /\ [r EXCEPT !.closed = closed].pane = r.pane
         /\ [r EXCEPT !.closed = closed].closed = closed
         /\ [r EXCEPT !.closed = closed].done = r.done
         /\ [r EXCEPT !.closed = closed].mark = r.mark
BY DEF Row

LEMMA RowMarked ==
  ASSUME NEW r \in Row, NEW mark \in Nat
  PROVE  /\ [r EXCEPT !.mark = mark] \in Row
         /\ [r EXCEPT !.mark = mark].pane = r.pane
         /\ [r EXCEPT !.mark = mark].closed = r.closed
         /\ [r EXCEPT !.mark = mark].done = r.done
         /\ [r EXCEPT !.mark = mark].mark = mark
BY DEF Row

\* What the steps of the old program work on.
LEMMA OldFacts ==
  ASSUME IInv, ~upgraded
  PROVE  /\ InOrder(events, now) /\ Placed
         /\ \A x \in Rows : Told(events, x, row[x], ended[x], held[x], runs)
         /\ runs \in [Session -> Pane \cup {NULL}]
         /\ row \in [Session -> Row \cup {NULL}]
         /\ ended \in [Session -> {"typed", "clear", "cut", NULL}]
         /\ held \in [Session -> BOOLEAN]
         /\ events \in Seq(Event) /\ now \in Nat
         /\ \A x \in Rows : x \in Session /\ row[x] \in Row /\ row[x].pane \in Pane
         /\ NULL \notin Row /\ NULL \notin Pane /\ NULL \notin Nat
<1>1. version = 0
  BY DEF IInv, TypeOK, Inv, Replaced
<1>2. Recorded
  BY <1>1 DEF IInv, OldInv
<1>3. \A x \in Rows : x \in Session /\ row[x] \in Row
  BY DEF IInv, TypeOK, Rows
<1>4. \A x \in Rows : row[x].pane \in Pane
  BY <1>3 DEF Row
<1>5. now \in Nat
  BY DEF IInv, Inv
<1>6. QED
  BY <1>2, <1>3, <1>4, <1>5, MigrateAssumption DEF IInv, TypeOK, Recorded, Told

\* Where a session is open no other one runs.
LEMMA AloneInPane ==
  ASSUME IInv, ~upgraded, NEW s \in Rows, row[s].closed = NULL
  PROVE  \A x \in Session : runs[x] = row[s].pane => x = s
<1>1. \A x \in Session : runs[x] # NULL =>
        x \in Rows /\ row[x].pane = runs[x] /\ row[x].closed = NULL
  BY OldFacts DEF Placed, Rows
<1>2. row[s].pane # NULL
  BY OldFacts
<1>3. QED
  BY <1>1, <1>2, OldFacts DEF Placed

LEMMA OldKept ==
  ASSUME IInv, OldHook, UNCHANGED now,
         runs' \in [Session -> Pane \cup {NULL}], row' \in [Session -> Row \cup {NULL}],
         events' \in Seq(Event), ended' \in [Session -> {"typed", "clear", "cut", NULL}],
         held' \in [Session -> BOOLEAN],
         InOrder(events', now), Placed',
         \A s \in Session : row'[s] # NULL =>
           Told(events', s, row'[s], ended'[s], held'[s], runs')
  PROVE  TypeOK' /\ OldInv'
<1>1. TypeOK'
  BY DEF IInv, TypeOK, OldHook
<1>2. InOrder(events', now')
  BY Zenon
<1>3. \A s \in Rows' : Told(events', s, row'[s], ended'[s], held'[s], runs')
  BY DEF Rows
<1>4. Recorded'
  BY <1>2, <1>3 DEF Recorded, Told
<1>5. QED
  BY <1>1, <1>4 DEF OldInv

LEMMA ClosedElsewhere ==
  ASSUME NEW e \in Seq(Event), NEW s, NEW how, NEW where, NEW after,
         ClosedAsTold(e, s, how, where),
         \A x \in Session : after[x] = NULL \/ \E y \in Session : where[y] = after[x]
  PROVE  ClosedAsTold(e, s, how, after)
<1>1. PICK i \in 1..Len(e) : /\ LastOf(e, s, i) /\ IsEnd(e[i]) /\ Tells(e, i, how)
                             /\ Succeeded(e, i, where)
  BY DEF ClosedAsTold
<1>2. e[i] \in Event
  BY ElementOfSeq
<1>3. e[i].pane # NULL
  BY <1>2, MigrateAssumption DEF Event
<1>4. Succeeded(e, i, after)
  BY <1>1, <1>3 DEF Succeeded
<1>5. QED
  BY <1>1, <1>4 DEF ClosedAsTold

LEMMA TurnTrue ==
  ASSUME IInv, NEW s \in Session, Turn(s)
  PROVE  TypeOK' /\ OldInv'
<1> DEFINE ev == Happened(s, "Turn", NULL, row[s].pane)
<1>0. ~upgraded /\ OldHook /\ UNCHANGED now
  BY DEF Turn, OldHook
<1>1. s \in Rows /\ row[s].closed = NULL /\ row[s].pane = runs[s] /\ held[s]
  BY <1>0, OldFacts DEF Turn, Placed, Rows
<1>2. /\ ev \in Event /\ ev.s = s /\ ev.type = "Turn" /\ ev.at = now
  BY <1>0, <1>1, OldFacts, HappenedType
<1>3. events' = events \o <<ev>>
  BY DEF Turn, Records
<1>4. row' = row /\ UNCHANGED <<runs, ended>> /\ held' = [held EXCEPT ![s] = FALSE]
  <2>1. row[s] = [row[s] EXCEPT !.closed = NULL]
    BY <1>0, <1>1, OldFacts DEF Row
  <2>2. QED
    BY <1>0, <2>1, OldFacts DEF Turn
<1> HIDE DEF ev
<1>5. events' \in Seq(Event) /\ Grown(events, events', ev)
  BY <1>0, <1>2, <1>3, OldFacts, AppendGrows
<1>6. InOrder(events', now)
  BY <1>0, <1>2, <1>5, OldFacts, OrderIsKept
<1>7. ~IsEnd(ev)
  BY <1>2 DEF IsEnd
<1>8. OpenAsTold(events', s)
  BY <1>0, <1>2, <1>5, <1>7, OldFacts, LastIsNew
<1>9. \A x \in Session : OpenAsTold(events, x) => OpenAsTold(events', x)
  BY <1>0, <1>2, <1>5, <1>8, OldFacts, LastIsKept
<1>10. Placed'
  BY <1>0, <1>1, <1>4, <1>9, OldFacts DEF Placed, Rows, OldHook
<1>11. ASSUME NEW x \in Rows
       PROVE  Told(events', x, row[x], ended[x], held'[x], runs)
  <2>1. Told(events, x, row[x], ended[x], held[x], runs) /\ row[x] \in Row /\ x \in Session
    BY <1>0, OldFacts
  <2>2. CASE x # s
    <3>1. held'[x] = held[x]
      BY <1>0, <1>4, <2>1, <2>2, OldFacts
    <3>2. Follows(ev, runs, runs)
      BY <1>2 DEF Follows
    <3>3. QED
      BY <1>0, <1>2, <1>5, <2>1, <2>2, <3>1, <3>2, OldFacts, ToldOfOthers
  <2>3. CASE x = s
    <3>1. row[s].mark \in Nat /\ MarkAsHeld(events, ev.s, row[s].mark, held[s])
      BY <1>2, <2>1, <2>3 DEF Row, Told
    <3>2. MarkAsHeld(events', s, row[s].mark, FALSE)
      BY <1>0, <1>2, <1>5, <1>7, <3>1, OldFacts, MarkIsDropped
    <3>3. held'[s] = FALSE
      BY <1>0, <1>4, OldFacts
    <3>4. QED
      BY <1>1, <2>1, <2>3, <3>2, <3>3 DEF Told
  <2>4. QED
    BY <2>2, <2>3
<1>12. \A x \in Session : row'[x] # NULL => Told(events', x, row'[x], ended'[x], held'[x], runs')
  BY <1>4, <1>11 DEF Rows
<1>13. /\ runs' \in [Session -> Pane \cup {NULL}] /\ row' \in [Session -> Row \cup {NULL}]
       /\ ended' \in [Session -> {"typed", "clear", "cut", NULL}]
       /\ held' \in [Session -> BOOLEAN]
  BY <1>0, <1>4, OldFacts
<1>14. QED
  BY <1>0, <1>5, <1>6, <1>10, <1>12, <1>13, OldKept

\* The end of a session is recorded, which runs no more.
LEMMA EndTrue ==
  ASSUME IInv, OldHook, NEW s \in Rows, row[s].closed = NULL, UNCHANGED <<held, now>>,
         NEW how \in {"typed", "cut"}, NEW ev \in Event,
         ev.s = s, ev.pane = row[s].pane, ev.at = now, IsEnd(ev),
         \/ ev.type = "SessionEnd" /\ ev.why = "exit" /\ how = "typed"
         \/ ev.type = "SessionEnd" /\ ev.why = "other" /\ how = "cut"
         \/ ev.type = "ForcedEnd" /\ ev.why = NULL /\ how = "cut",
         events' = events \o <<ev>>,
         row' = [row EXCEPT ![s].closed = now],
         runs' = [runs EXCEPT ![s] = NULL],
         ended' = [ended EXCEPT ![s] = how]
  PROVE  TypeOK' /\ OldInv'
<1>0. ~upgraded /\ s \in Session /\ now \in {NULL} \cup Nat /\ now # NULL
  BY OldFacts DEF OldHook
<1>1. /\ \A x \in Session : row'[x] = IF x = s THEN [row[s] EXCEPT !.closed = now] ELSE row[x]
      /\ row[s] # NULL
  BY <1>0, OldFacts DEF Rows
<1>2. /\ row'[s] \in Row /\ row'[s].pane = row[s].pane /\ row'[s].closed = now
      /\ row'[s].done = row[s].done /\ row'[s].mark = row[s].mark
  <2>1. row'[s] = [row[s] EXCEPT !.closed = now] /\ row[s] \in Row
    BY <1>0, <1>1, OldFacts
  <2>2. QED
    BY <1>0, <2>1 DEF Row
<1>3. /\ row' \in [Session -> Row \cup {NULL}]
      /\ runs' \in [Session -> Pane \cup {NULL}]
      /\ ended' \in [Session -> {"typed", "clear", "cut", NULL}]
      /\ held' \in [Session -> BOOLEAN]
  BY <1>0, <1>1, <1>2, OldFacts
<1>4. /\ \A x \in Session : runs'[x] = IF x = s THEN NULL ELSE runs[x]
      /\ \A x \in Session : ended'[x] = IF x = s THEN how ELSE ended[x]
  BY <1>0, OldFacts
<1>5. events \in Seq(Event) /\ events' \in Seq(Event) /\ Grown(events, events', ev)
  BY <1>0, OldFacts, AppendGrows
<1>6. InOrder(events', now)
  BY <1>0, <1>5, OldFacts, OrderIsKept
<1>7. \A x \in Session \ {s} : OpenAsTold(events, x) => OpenAsTold(events', x)
  BY <1>0, <1>5, OldFacts, LastIsKept
<1>8. Placed'
  <2>1. \A x \in Session :
          /\ row'[x] = NULL <=> row[x] = NULL
          /\ row[x] # NULL => row'[x].pane = row[x].pane
          /\ row'[x] # NULL /\ row'[x].closed = NULL => row[x].closed = NULL /\ x # s
          /\ x # s => row'[x] = row[x]
    BY <1>0, <1>1, <1>2, OldFacts
  <2>2. Placed /\ UNCHANGED <<held, upgraded>>
    BY <1>0, OldFacts DEF OldHook
  <2>3. QED
    BY <1>4, <1>7, <2>1, <2>2 DEF Placed, Rows
<1>9. ASSUME NEW x \in Rows
      PROVE  Told(events', x, row'[x], ended'[x], held[x], runs')
  <2>1. Told(events, x, row[x], ended[x], held[x], runs) /\ row[x] \in Row /\ x \in Session
    BY <1>0, OldFacts
  <2>2. CASE x # s
    <3>1. row'[x] = row[x] /\ ended'[x] = ended[x]
      BY <1>1, <1>4, <2>1, <2>2
    <3>2. Follows(ev, runs, runs')
      BY <1>4 DEF Follows
    <3>3. Told(events', x, row[x], ended[x], held[x], runs')
      BY <1>5, <2>1, <2>2, <3>2, ToldOfOthers
    <3>4. QED
      BY <3>1, <3>3
  <2>3. CASE x = s
    <3>1. \A y \in Session : runs'[y] # ev.pane
      <4>1. ev.pane # NULL
        BY <1>0, OldFacts
      <4>2. \A y \in Session : runs[y] = row[s].pane => y = s
        BY <1>0, AloneInPane
      <4>3. QED
        BY <1>4, <4>1, <4>2
    <3>2. ClosedAsTold(events', s, how, runs')
      BY <1>0, <1>5, <3>1, OldFacts, EndTells
    <3>3. row[s].mark \in Nat
      BY <2>1, <2>3 DEF Row
    <3>4. MarkAsHeld(events', s, row[s].mark, held[s])
      BY <1>0, <1>5, <2>1, <2>3, <3>3, OldFacts, MarkIsKept DEF Told
    <3>5. QED
      BY <1>0, <1>2, <1>4, <2>1, <2>3, <3>2, <3>4 DEF Told
  <2>4. QED
    BY <2>2, <2>3
<1>10. \A x \in Session : row'[x] # NULL => Told(events', x, row'[x], ended'[x], held'[x], runs')
  BY <1>0, <1>1, <1>9 DEF Rows
<1>11. QED
  BY <1>0, <1>3, <1>5, <1>6, <1>8, <1>10, OldKept

LEMMA EndsTrue ==
  ASSUME IInv, NEW s \in Session, NEW why \in {"exit", "other"}, Ends(s, why)
  PROVE  TypeOK' /\ OldInv'
<1> DEFINE ev == Happened(s, "SessionEnd", why, row[s].pane)
           how == IF why = "exit" THEN "typed" ELSE "cut"
<1>0. ~upgraded /\ OldHook /\ UNCHANGED <<held, now>>
  BY DEF Ends, OldHook
<1>1. s \in Rows /\ row[s].closed = NULL
  BY <1>0, OldFacts DEF Ends, Placed, Rows
<1>2. /\ ev \in Event /\ ev.s = s /\ ev.type = "SessionEnd" /\ ev.why = why /\ ev.at = now
      /\ ev.pane = row[s].pane
  BY <1>0, <1>1, OldFacts, HappenedType
<1>3. /\ events' = events \o <<ev>> /\ row' = [row EXCEPT ![s].closed = now]
      /\ runs' = [runs EXCEPT ![s] = NULL] /\ ended' = [ended EXCEPT ![s] = how]
  BY DEF Ends, Records
<1>4. IsEnd(ev) /\ how \in {"typed", "cut"}
  BY <1>2 DEF IsEnd
<1>5. \/ ev.type = "SessionEnd" /\ ev.why = "exit" /\ how = "typed"
      \/ ev.type = "SessionEnd" /\ ev.why = "other" /\ how = "cut"
  BY <1>2
<1> HIDE DEF ev, how
<1>6. QED
  BY <1>0, <1>1, <1>2, <1>3, <1>4, <1>5, EndTrue

LEMMA SweptTrue ==
  ASSUME IInv, NEW s \in Session, Swept(s)
  PROVE  TypeOK' /\ OldInv'
<1> DEFINE ev == Happened(s, "ForcedEnd", NULL, row[s].pane)
<1>0. ~upgraded /\ OldHook /\ UNCHANGED <<held, now>>
  BY DEF Swept, OldHook
<1>1. s \in Rows /\ row[s].closed = NULL /\ runs[s] = NULL
  BY DEF Swept, Closed
<1>2. ended[s] = "cut"
  BY <1>0, <1>1, OldFacts DEF Placed
<1>3. /\ ev \in Event /\ ev.s = s /\ ev.type = "ForcedEnd" /\ ev.why = NULL /\ ev.at = now
      /\ ev.pane = row[s].pane
  BY <1>0, <1>1, OldFacts, HappenedType
<1>4. events' = events \o <<ev>> /\ row' = [row EXCEPT ![s].closed = now]
  BY DEF Swept, Records
<1>5. runs' = [runs EXCEPT ![s] = NULL] /\ ended' = [ended EXCEPT ![s] = "cut"]
  BY <1>0, <1>1, <1>2, OldFacts DEF Swept
<1>6. IsEnd(ev)
  BY <1>3 DEF IsEnd
<1> HIDE DEF ev
<1>7. QED
  BY <1>0, <1>1, <1>3, <1>4, <1>5, <1>6, EndTrue

\* A session is seen to run no more, or all of them are.
LEMMA VanishesTrue ==
  ASSUME IInv, NEW s \in Session, Vanishes(s)
  PROVE  TypeOK' /\ OldInv'
<1>0. ~upgraded /\ OldHook /\ UNCHANGED now
  BY DEF Vanishes, OldHook
<1>1. /\ UNCHANGED <<row, events, held>>
      /\ \A x \in Session : runs'[x] = IF x = s THEN NULL ELSE runs[x]
      /\ \A x \in Session : ended'[x] = IF x = s THEN "cut" ELSE ended[x]
      /\ row[s] # NULL /\ row[s].closed = NULL
  BY <1>0, OldFacts DEF Vanishes, Placed
<1>2. /\ runs' \in [Session -> Pane \cup {NULL}]
      /\ ended' \in [Session -> {"typed", "clear", "cut", NULL}]
  BY <1>0, OldFacts DEF Vanishes
<1>3. Placed'
  BY <1>0, <1>1, OldFacts DEF Placed, Rows, OldHook
<1>4. ASSUME NEW x \in Rows
      PROVE  Told(events, x, row[x], ended'[x], held[x], runs')
  <2>1. Told(events, x, row[x], ended[x], held[x], runs) /\ x \in Session
    BY <1>0, OldFacts
  <2>2. row[x].closed # NULL => ClosedAsTold(events, x, ended[x], runs') /\ ended'[x] = ended[x]
    BY <1>0, <1>1, <2>1, OldFacts, ClosedElsewhere DEF Told
  <2>3. QED
    BY <2>1, <2>2 DEF Told
<1>5. \A x \in Session : row'[x] # NULL => Told(events', x, row'[x], ended'[x], held'[x], runs')
  BY <1>1, <1>4 DEF Rows
<1>6. /\ row' \in [Session -> Row \cup {NULL}] /\ events' \in Seq(Event)
      /\ held' \in [Session -> BOOLEAN] /\ InOrder(events', now)
  BY <1>0, <1>1, OldFacts
<1>7. QED
  BY <1>0, <1>2, <1>3, <1>5, <1>6, OldKept

\* The last event of a session is the greatest of its events.
LEMMA LastIsMax ==
  ASSUME NEW e \in Seq(Event), NEW s, NEW i \in 1..Len(e), LastOf(e, s, i)
  PROVE  Max({j \in DOMAIN e : e[j].s = s}) = i
<1> DEFINE S == {j \in DOMAIN e : e[j].s = s}
<1>1. Len(e) \in Nat /\ DOMAIN e = 1..Len(e)
  BY LenProperties
<1>2. i \in S /\ \A j \in S : i >= j
  BY <1>1 DEF LastOf
<1>3. \A k \in S : (\A j \in S : k >= j) => k = i
  BY <1>1, <1>2
<1> HIDE DEF S
<1>4. Max(S) = i
  BY <1>2, <1>3 DEF Max
<1>5. QED
  BY <1>4 DEF S

LEMMA MarksTrue ==
  ASSUME IInv, NEW s \in Session, Marks(s)
  PROVE  TypeOK' /\ OldInv'
<1> DEFINE mark == Max({i \in DOMAIN events : events[i].s = s})
<1>0. ~upgraded /\ OldHook /\ UNCHANGED now
  BY DEF Marks, OldHook
<1>1. s \in Rows /\ row[s].closed = NULL /\ OpenAsTold(events, s)
  BY <1>0, OldFacts DEF Marks, Placed, Rows
<1>2. PICK i \in 1..Len(events) : LastOf(events, s, i) /\ ~IsEnd(events[i])
  BY <1>1 DEF OpenAsTold
<1>3. mark = i /\ mark \in Nat
  BY <1>0, <1>2, OldFacts, LastIsMax, LenProperties
<1>4. row' = [row EXCEPT ![s].mark = mark] /\ held' = [held EXCEPT ![s] = TRUE]
      /\ UNCHANGED <<runs, events, ended>>
  BY DEF Marks
<1> HIDE DEF mark
<1>5. /\ \A x \in Session : row'[x] = IF x = s THEN [row[s] EXCEPT !.mark = mark] ELSE row[x]
      /\ row[s] # NULL
  BY <1>0, <1>1, <1>4, OldFacts DEF Rows
<1>6. /\ row'[s] \in Row /\ row'[s].pane = row[s].pane /\ row'[s].closed = row[s].closed
      /\ row'[s].done = row[s].done /\ row'[s].mark = mark
  <2>1. row'[s] = [row[s] EXCEPT !.mark = mark] /\ row[s] \in Row
    BY <1>0, <1>1, <1>5, OldFacts
  <2>2. QED
    BY <1>3, <2>1, RowMarked
<1>7. Placed'
  <2>1. \A x \in Session :
          /\ row'[x] = NULL <=> row[x] = NULL
          /\ row[x] # NULL => row'[x].pane = row[x].pane /\ row'[x].closed = row[x].closed
          /\ row[x] = NULL => held'[x] = held[x]
    BY <1>0, <1>4, <1>5, <1>6, OldFacts
  <2>2. Placed /\ UNCHANGED <<runs, events, ended, upgraded>>
    BY <1>0, <1>4, OldFacts DEF OldHook
  <2>3. QED
    BY <2>1, <2>2 DEF Placed, Rows
<1>8. MarkAsHeld(events, s, mark, TRUE)
  BY <1>2, <1>3 DEF LastOf, MarkAsHeld
<1>9. ASSUME NEW x \in Rows
      PROVE  Told(events, x, row'[x], ended[x], held'[x], runs)
  <2>1. Told(events, x, row[x], ended[x], held[x], runs) /\ x \in Session
    BY <1>0, OldFacts
  <2>2. held'[x] = IF x = s THEN TRUE ELSE held[x]
    BY <1>0, <1>4, <2>1, OldFacts
  <2>3. QED
    BY <1>1, <1>5, <1>6, <1>8, <2>1, <2>2 DEF Told
<1>10. \A x \in Session : row'[x] # NULL => Told(events', x, row'[x], ended'[x], held'[x], runs')
  BY <1>4, <1>5, <1>9 DEF Rows
<1>11. /\ row' \in [Session -> Row \cup {NULL}] /\ events' \in Seq(Event)
       /\ runs' \in [Session -> Pane \cup {NULL}]
       /\ ended' \in [Session -> {"typed", "clear", "cut", NULL}]
       /\ held' \in [Session -> BOOLEAN] /\ InOrder(events', now)
  BY <1>0, <1>4, <1>5, <1>6, OldFacts
<1>12. QED
  BY <1>0, <1>7, <1>10, <1>11, OldKept

\* There is one session in a pane at most.
LEMMA SiblingsFew ==
  ASSUME IInv, ~upgraded, NEW s \in Session, NEW pane \in Pane,
         Siblings(s, pane, row) # {}
  PROVE  \E x \in Session \ {s} :
           /\ Siblings(s, pane, row) = {x}
           /\ x \in Rows /\ row[x].pane = pane /\ row[x].closed = NULL
<1>1. PICK x \in Session \ {s} : x \in Rows /\ row[x].pane = pane /\ row[x].closed = NULL
  BY DEF Siblings, Rows
<1>2. \A y \in Siblings(s, pane, row) : y = x
  BY <1>1, OldFacts DEF Placed, Siblings, Rows
<1>3. x \in Siblings(s, pane, row)
  BY <1>1 DEF Siblings, Rows
<1>4. QED
  BY <1>1, <1>2, <1>3

\* Session s runs in pane now, and the others that were open there are closed.
LEMMA StartPlaced ==
  ASSUME IInv, OldHook, NEW s \in Session, NEW pane \in Pane,
         row'[s] # NULL, row'[s].pane = pane, row'[s].closed = NULL, runs'[s] = pane,
         OpenAsTold(events', s),
         \A x \in Session \ {s} :
           /\ row'[x] = NULL <=> row[x] = NULL
           /\ row[x] # NULL => row'[x].pane = row[x].pane
           /\ row[x] # NULL /\ row'[x].closed = NULL =>
                row[x].closed = NULL /\ row[x].pane # pane /\ ended'[x] = ended[x]
           /\ row[x] # NULL /\ row[x].closed = NULL /\ row[x].pane # pane =>
                row'[x].closed = NULL
           /\ runs'[x] = IF runs[x] = pane THEN NULL ELSE runs[x]
           /\ held'[x] = held[x]
           /\ runs[x] # NULL /\ runs[x] # pane /\ OpenAsTold(events, x) =>
                OpenAsTold(events', x)
  PROVE  Placed'
<1>1. ~upgraded /\ ~upgraded'
  BY DEF OldHook
<1>2. /\ \A x \in Session : runs[x] # NULL =>
            /\ row[x] # NULL /\ row[x].pane = runs[x] /\ row[x].closed = NULL
            /\ OpenAsTold(events, x)
      /\ \A x \in Session : row[x] # NULL /\ row[x].closed = NULL /\ runs[x] = NULL =>
            ended[x] = "cut"
      /\ \A x, y \in Session : /\ row[x] # NULL /\ row[y] # NULL
                              /\ row[x].closed = NULL /\ row[y].closed = NULL
                              /\ row[x].pane = row[y].pane
                              => x = y
      /\ \A x \in Session : row[x] = NULL => ~held[x]
  BY <1>1, OldFacts DEF Placed, Rows
<1>3. pane # NULL
  BY MigrateAssumption
<1>4. \A x \in Session : runs'[x] # NULL =>
        /\ row'[x] # NULL /\ row'[x].pane = runs'[x] /\ row'[x].closed = NULL
        /\ OpenAsTold(events', x)
  BY <1>2, <1>3
<1>5. \A x \in Session : row'[x] # NULL /\ row'[x].closed = NULL /\ runs'[x] = NULL =>
        ended'[x] = "cut"
  BY <1>2, <1>3
<1>6. \A x, y \in Session : /\ row'[x] # NULL /\ row'[y] # NULL
                           /\ row'[x].closed = NULL /\ row'[y].closed = NULL
                           /\ row'[x].pane = row'[y].pane
                           => x = y
  BY <1>2
<1>7. \A x \in Session : row'[x] = NULL => ~held'[x]
  BY <1>2
<1>8. QED
  BY <1>4, <1>5, <1>6, <1>7 DEF Placed, Rows

\* The row that a start leaves, whose mark is that of the row before.
LEMMA StartedRow ==
  ASSUME NEW pane \in Pane, NEW mark \in Nat, NEW r,
         r = [pane |-> pane, closed |-> NULL, done |-> FALSE, mark |-> mark]
  PROVE  r \in Row /\ r.pane = pane /\ r.closed = NULL /\ ~r.done /\ r.mark = mark
BY DEF Row

LEMMA StartedTold ==
  ASSUME NEW f \in Seq(Event), NEW g \in Seq(Event), NEW start \in Event,
         Grown(f, g, start), ~IsEnd(start), NEW r \in Row, ~r.done, r.closed = NULL,
         NEW inForce, r.mark = 0 \/ MarkAsHeld(f, start.s, r.mark, inForce),
         NEW how, NEW where
  PROVE  Told(g, start.s, r, how, FALSE, where)
<1>1. r.mark \in Nat
  BY DEF Row
<1>2. MarkAsHeld(g, start.s, r.mark, FALSE)
  <2>1. CASE r.mark = 0
    BY <2>1 DEF MarkAsHeld
  <2>2. CASE MarkAsHeld(f, start.s, r.mark, inForce)
    BY <1>1, <2>2, MarkIsDropped
  <2>3. QED
    BY <2>1, <2>2
<1>3. QED
  BY <1>2 DEF Told

LEMMA StartsTrue ==
  ASSUME IInv, NEW s \in Session, NEW pane \in Pane, Starts(s, pane)
  PROVE  TypeOK' /\ OldInv'
<1> DEFINE start == Happened(s, "SessionStart", "startup", pane)
           mark == IF row[s] = NULL THEN 0 ELSE row[s].mark
           sib == Siblings(s, pane, row)
<1>0. ~upgraded /\ OldHook /\ UNCHANGED now /\ StartsIn(s, pane, "startup", <<>>, row)
  BY DEF Starts, OldHook
<1>1. /\ start \in Event /\ start.s = s /\ start.type = "SessionStart"
      /\ start.why = "startup" /\ start.at = now /\ start.pane = pane
  BY <1>0, OldFacts, HappenedType
<1>2. ~IsEnd(start)
  BY <1>1 DEF IsEnd
<1>3. /\ \A x \in Session : runs[x] # pane
      /\ \A x \in Session : runs'[x] = IF x = s THEN pane ELSE runs[x]
      /\ \A x \in Session : ended'[x] = IF x = s THEN NULL ELSE ended[x]
      /\ \A x \in Session : held'[x] = IF x = s THEN FALSE ELSE held[x]
      /\ runs' \in [Session -> Pane \cup {NULL}]
      /\ ended' \in [Session -> {"typed", "clear", "cut", NULL}]
      /\ held' \in [Session -> BOOLEAN]
  BY <1>0, OldFacts DEF Starts
<1>4. /\ row' = [x \in Session |-> row'[x]]
      /\ row'[s] = [pane |-> pane, closed |-> NULL, done |-> FALSE, mark |-> mark]
      /\ \A x \in Session \ {s} :
           row'[x] = IF x \in sib THEN [row[x] EXCEPT !.closed = now] ELSE row[x]
  BY <1>0, StartsInWrites
<1>5. mark \in Nat
  <2>1. row[s] # NULL => row[s] \in Row
    BY <1>0, OldFacts DEF Rows
  <2>2. QED
    BY <2>1 DEF Row
<1>6. row'[s] \in Row /\ row'[s].pane = pane /\ row'[s].closed = NULL /\ ~row'[s].done
      /\ row'[s].mark = mark
  BY <1>4, <1>5, StartedRow
<1>7. \A x \in sib : /\ x \in Rows /\ x # s /\ row[x].pane = pane /\ row[x].closed = NULL
                     /\ ended[x] = "cut"
  <2>1. \A x \in sib : x \in Rows /\ x # s /\ row[x].pane = pane /\ row[x].closed = NULL
    BY DEF Siblings, Rows
  <2>2. \A x \in sib : runs[x] = NULL
    BY <1>0, <1>3, <2>1, OldFacts DEF Placed, Rows
  <2>3. QED
    BY <1>0, <2>1, <2>2, OldFacts DEF Placed
<1>8. \A x \in sib : /\ row'[x] \in Row /\ row'[x].pane = pane /\ row'[x].closed = now
                     /\ row'[x].done = row[x].done /\ row'[x].mark = row[x].mark
  <2>1. ASSUME NEW x \in sib
        PROVE  /\ row'[x] \in Row /\ row'[x].pane = pane /\ row'[x].closed = now
               /\ row'[x].done = row[x].done /\ row'[x].mark = row[x].mark
    <3>1. row[x] \in Row /\ now \in Nat /\ row[x].pane = pane
      BY <1>0, <1>7, OldFacts
    <3>2. row'[x] = [row[x] EXCEPT !.closed = now]
      BY <1>4, <1>7 DEF Rows
    <3>3. QED
      BY <3>1, <3>2 DEF Row
  <2>2. QED
    BY <2>1
<1>9. /\ \A x \in Session \ {s} : x \notin sib => row'[x] = row[x]
      /\ \A x \in Session \ {s} :
           row[x] # NULL /\ row[x].pane = pane /\ row[x].closed = NULL => x \in sib
  BY <1>4 DEF Siblings
<1> HIDE DEF sib, start, mark
<1>10. row' \in [Session -> Row \cup {NULL}]
  <2>1. \A x \in Session : row'[x] \in Row \cup {NULL}
    BY <1>0, <1>6, <1>8, <1>9, OldFacts
  <2>2. QED
    BY <1>4, <2>1
<1>11. Follows(start, runs, runs') /\ Follows(start, runs, runs)
  BY <1>1, <1>3 DEF Follows
<1>12. /\ events \in Seq(Event) /\ InOrder(events, now) /\ now \in Nat /\ now # NULL
       /\ \A x \in Rows : /\ Told(events, x, row[x], ended[x], held[x], runs)
                          /\ row[x] \in Row /\ x \in Session
  BY <1>0, OldFacts
<1>13. ASSUME NEW f \in Seq(Event), Grown(f, events', start), events' \in Seq(Event),
              InOrder(f, now),
              \A x \in Rows \ {s} : Told(f, x, row'[x], ended[x], held[x], runs),
              s \in Rows => MarkAsHeld(f, s, row[s].mark, held[s]),
              \A x \in Session \ {s} :
                runs[x] # NULL /\ OpenAsTold(events, x) => OpenAsTold(f, x)
       PROVE  TypeOK' /\ OldInv'
  <2>1. InOrder(events', now)
    BY <1>1, <1>13, OrderIsKept
  <2>2. OpenAsTold(events', s)
    BY <1>1, <1>2, <1>13, LastIsNew
  <2>3. \A x \in Session \ {s} : OpenAsTold(f, x) => OpenAsTold(events', x)
    BY <1>1, <1>13, LastIsKept
  <2>4. Placed'
    <3>1. \A x \in Session \ {s} :
           /\ row'[x] = NULL <=> row[x] = NULL
           /\ row[x] # NULL => row'[x].pane = row[x].pane
           /\ row[x] # NULL /\ row'[x].closed = NULL =>
                row[x].closed = NULL /\ row[x].pane # pane /\ ended'[x] = ended[x]
           /\ row[x] # NULL /\ row[x].closed = NULL /\ row[x].pane # pane =>
                row'[x].closed = NULL
      BY <1>0, <1>3, <1>7, <1>8, <1>9, <1>12, OldFacts DEF Rows
    <3>2. \A x \in Session \ {s} :
           /\ runs'[x] = IF runs[x] = pane THEN NULL ELSE runs[x]
           /\ held'[x] = held[x]
           /\ runs[x] # NULL /\ runs[x] # pane /\ OpenAsTold(events, x) =>
                OpenAsTold(events', x)
      BY <1>3, <1>13, <2>3
    <3>3. row'[s] # NULL /\ row'[s].pane = pane /\ row'[s].closed = NULL /\ runs'[s] = pane
      BY <1>0, <1>3, <1>6, OldFacts
    <3>4. QED
      BY <1>0, <2>2, <3>1, <3>2, <3>3, StartPlaced
  <2>5. ASSUME NEW x \in Session, row'[x] # NULL
        PROVE  Told(events', x, row'[x], ended'[x], held'[x], runs')
    <3>1. CASE x # s
      <4>1. x \in Rows \ {s} /\ row'[x] \in Row
        BY <1>7, <1>9, <1>10, <2>5, <3>1 DEF Rows
      <4>2. Told(f, x, row'[x], ended[x], held[x], runs)
        BY <1>13, <4>1
      <4>3. Told(events', x, row'[x], ended[x], held[x], runs')
        BY <1>1, <1>11, <1>13, <3>1, <4>1, <4>2, ToldOfOthers
      <4>4. QED
        BY <1>3, <3>1, <4>3
    <3>2. CASE x = s
      <4>1. row'[s].mark = 0 \/ MarkAsHeld(f, start.s, row'[s].mark, held[s])
        BY <1>1, <1>6, <1>13 DEF mark, Rows
      <4>2. Told(events', s, row'[s], ended'[s], FALSE, runs')
        BY <1>1, <1>2, <1>6, <1>13, <4>1, StartedTold
      <4>3. QED
        BY <1>3, <3>2, <4>2
    <3>3. QED
      BY <3>1, <3>2
  <2>6. QED
    BY <1>0, <1>3, <1>10, <1>13, <2>1, <2>4, <2>5, OldKept
<1>14. CASE sib = {}
  <2>1. events' = events \o <<start>>
    BY <1>0, <1>12, <1>14, StartsInEvents DEF start, sib
  <2>2. events' \in Seq(Event) /\ Grown(events, events', start)
    BY <1>1, <1>12, <2>1, AppendGrows
  <2>3. \A x \in Rows \ {s} : row'[x] = row[x]
    BY <1>9, <1>14 DEF Rows
  <2>4. \A x \in Rows \ {s} : Told(events, x, row'[x], ended[x], held[x], runs)
    BY <1>12, <2>3
  <2>5. s \in Rows => MarkAsHeld(events, s, row[s].mark, held[s])
    BY <1>12 DEF Told
  <2>6. QED
    BY <1>12, <1>13, <2>2, <2>4, <2>5
<1>15. CASE sib # {}
  <2>1. PICK x \in Session \ {s} : sib = {x}
    BY <1>0, <1>15, SiblingsFew DEF sib
  <2> DEFINE forced == Happened(x, "ForcedEnd", NULL, pane)
             f == events \o <<forced>>
  <2>2. /\ forced \in Event /\ forced.s = x /\ forced.type = "ForcedEnd"
        /\ forced.why = NULL /\ forced.at = now /\ forced.pane = pane
    BY <1>12, HappenedType
  <2>3. events' = f \o <<start>>
    BY <1>0, <1>12, <2>1, StartsInEvents DEF start, sib
  <2> HIDE DEF forced
  <2>4. f \in Seq(Event) /\ Grown(events, f, forced)
    BY <1>12, <2>2, AppendGrows
  <2> HIDE DEF f
  <2>5. events' \in Seq(Event) /\ Grown(f, events', start)
    BY <1>1, <2>3, <2>4, AppendGrows
  <2>6. IsEnd(forced) /\ Follows(forced, runs, runs)
    BY <2>2 DEF IsEnd, Follows
  <2>7. InOrder(f, now)
    BY <1>12, <2>2, <2>4, OrderIsKept
  <2>8. ASSUME NEW y \in Rows \ {s}
        PROVE  Told(f, y, row'[y], ended[y], held[y], runs)
    <3>1. Told(events, y, row[y], ended[y], held[y], runs) /\ row[y] \in Row /\ y \in Session
      BY <1>12
    <3>2. CASE y # x
      <4>1. row'[y] = row[y]
        BY <1>9, <2>1, <3>1, <3>2
      <4>2. Told(f, y, row[y], ended[y], held[y], runs)
        BY <1>12, <2>2, <2>4, <2>6, <3>1, <3>2, ToldOfOthers
      <4>3. QED
        BY <4>1, <4>2
    <3>3. CASE y = x
      <4>1. /\ row'[x].done = row[x].done /\ row'[x].mark = row[x].mark
            /\ row[x].mark \in Nat /\ ended[x] = "cut"
        BY <1>7, <1>8, <2>1, <3>1, <3>3 DEF Row
      <4>2. ClosedAsTold(f, x, "cut", runs)
        <5>1. \A z \in Session : runs[z] # forced.pane
          BY <1>3, <2>2
        <5>2. QED
          BY <1>12, <2>2, <2>4, <5>1, EndTells
      <4>3. MarkAsHeld(f, x, row[x].mark, held[x])
        BY <1>12, <2>2, <2>4, <2>6, <3>1, <3>3, <4>1, MarkIsKept DEF Told
      <4>4. QED
        BY <3>1, <3>3, <4>1, <4>2, <4>3 DEF Told
    <3>4. QED
      BY <3>2, <3>3
  <2>9. s \in Rows => MarkAsHeld(f, s, row[s].mark, held[s])
    <3>1. ASSUME s \in Rows
          PROVE  MarkAsHeld(f, s, row[s].mark, held[s])
      <4>1. MarkAsHeld(events, s, row[s].mark, held[s]) /\ row[s].mark \in Nat
        BY <1>12, <3>1 DEF Told, Row
      <4>2. QED
        BY <1>12, <2>2, <2>4, <2>6, <4>1, MarkIsKept
    <3>2. QED
      BY <3>1
  <2>10. \A y \in Session \ {s} : runs[y] # NULL /\ OpenAsTold(events, y) => OpenAsTold(f, y)
    <3>1. runs[x] = NULL
      BY <1>0, <1>3, <1>7, <2>1, OldFacts DEF Placed
    <3>2. \A y \in Session \ {x} : OpenAsTold(events, y) => OpenAsTold(f, y)
      BY <1>12, <2>2, <2>4, LastIsKept
    <3>3. QED
      BY <3>1, <3>2
  <2>11. QED
    BY <1>13, <2>4, <2>5, <2>7, <2>8, <2>9, <2>10
<1>16. QED
  BY <1>14, <1>15

LEMMA ClearsTrue ==
  ASSUME IInv, NEW s \in Session, NEW t \in Session, Clears(s, t)
  PROVE  TypeOK' /\ OldInv'
<1> DEFINE pane == runs[s]
           start == Happened(t, "SessionStart", "clear", pane)
           closed == [row EXCEPT ![s].closed = now]
<1>0. ~upgraded /\ OldHook /\ UNCHANGED <<now, held>> /\ runs[s] # NULL /\ t \notin Rows
  BY DEF Clears, OldHook
<1>1. /\ s \in Rows /\ row[s].pane = pane /\ row[s].closed = NULL /\ pane \in Pane /\ t # s
      /\ row[t] = NULL /\ ~held[t] /\ row[s] \in Row
  BY <1>0, OldFacts DEF Placed, Rows
<1>2. /\ start \in Event /\ start.s = t /\ start.type = "SessionStart"
      /\ start.why = "clear" /\ start.at = now /\ start.pane = pane
  BY <1>0, <1>1, OldFacts, HappenedType
<1>3. ~IsEnd(start)
  BY <1>2 DEF IsEnd
<1>4. \A x \in Session : runs[x] = pane => x = s
  BY <1>0, <1>1, AloneInPane
<1>5. /\ \A x \in Session : runs'[x] = IF x = t THEN pane ELSE IF x = s THEN NULL ELSE runs[x]
      /\ \A x \in Session : ended'[x] = IF x = s THEN "clear" ELSE ended[x]
      /\ runs' \in [Session -> Pane \cup {NULL}]
      /\ ended' \in [Session -> {"typed", "clear", "cut", NULL}]
  BY <1>0, <1>1, OldFacts DEF Clears
<1>6. \A x \in Session : closed[x] = IF x = s THEN [row[s] EXCEPT !.closed = now] ELSE row[x]
  BY <1>0, OldFacts
<1>7. /\ events \in Seq(Event) /\ InOrder(events, now) /\ now \in Nat /\ now # NULL
      /\ \A x \in Rows : /\ Told(events, x, row[x], ended[x], held[x], runs)
                         /\ row[x] \in Row /\ x \in Session
  BY <1>0, OldFacts
<1>8. [row[s] EXCEPT !.closed = now].closed = now /\ [row[s] EXCEPT !.closed = now] # NULL
  <2>1. [row[s] EXCEPT !.closed = now] \in Row /\ [row[s] EXCEPT !.closed = now].closed = now
    BY <1>1, <1>7 DEF Row
  <2>2. QED
    BY <1>0, <2>1, OldFacts
<1> HIDE DEF closed, start
<1>9. Siblings(t, pane, row) = {s}
  <2>1. \A x \in Session : row[x] # NULL /\ row[x].pane = pane /\ row[x].closed = NULL => x = s
    BY <1>0, <1>1, OldFacts DEF Placed, Rows
  <2>2. QED
    BY <1>1, <2>1 DEF Siblings, Rows
<1>10. Siblings(t, pane, closed) = {}
  <2>1. \A x \in Session : row[x] # NULL /\ row[x].pane = pane /\ row[x].closed = NULL => x = s
    BY <1>0, <1>1, OldFacts DEF Placed, Rows
  <2>2. \A x \in Session : closed[x] # NULL /\ closed[x].pane = pane => closed[x].closed # NULL
    BY <1>6, <1>7, <1>8, <2>1
  <2>3. QED
    BY <2>2 DEF Siblings
\* Either way: the end of s, and the start of t.
<1>11. ASSUME NEW end \in Event, end.s = s, end.pane = pane, end.at = now,
              \/ end.type = "SessionEnd" /\ end.why = "clear"
              \/ end.type = "ForcedEnd" /\ end.why = NULL,
              events' = (events \o <<end>>) \o <<start>>,
              row' = [x \in Session |-> row'[x]],
              row'[t] = [pane |-> pane, closed |-> NULL, done |-> FALSE, mark |-> 0],
              row'[s] = [row[s] EXCEPT !.closed = now],
              \A x \in Session \ {s, t} : row'[x] = row[x]
       PROVE  TypeOK' /\ OldInv'
  <2> DEFINE f == events \o <<end>>
  <2>1. f \in Seq(Event) /\ Grown(events, f, end)
    BY <1>7, <1>11, AppendGrows
  <2>2. events' \in Seq(Event) /\ Grown(f, events', start)
    BY <1>2, <1>11, <2>1, AppendGrows
  <2> HIDE DEF f
  <2>3. IsEnd(end) /\ Follows(end, runs, runs)
    BY <1>11 DEF IsEnd, Follows
  <2>4. Follows(start, runs, runs')
    BY <1>2, <1>5 DEF Follows
  <2>5. InOrder(f, now) /\ InOrder(events', now)
    <3>1. InOrder(f, now)
      BY <1>7, <1>11, <2>1, OrderIsKept
    <3>2. QED
      BY <1>2, <2>1, <2>2, <3>1, OrderIsKept
  <2>6. /\ row'[t] \in Row /\ row'[t].pane = pane /\ row'[t].closed = NULL /\ ~row'[t].done
        /\ row'[t].mark = 0
    BY <1>1, <1>11 DEF Row
  <2>7. /\ row'[s] \in Row /\ row'[s].pane = pane /\ row'[s].closed = now
        /\ row'[s].done = row[s].done /\ row'[s].mark = row[s].mark
    BY <1>1, <1>7, <1>11 DEF Row
  <2>8. row' \in [Session -> Row \cup {NULL}]
    <3>1. \A x \in Session : row'[x] \in Row \cup {NULL}
      BY <1>0, <1>11, <2>6, <2>7, OldFacts
    <3>2. QED
      BY <1>11, <3>1
  <2>9. OpenAsTold(events', t)
    BY <1>2, <1>3, <2>1, <2>2, LastIsNew
  <2>10. \A x \in Session \ {s, t} : OpenAsTold(events, x) => OpenAsTold(events', x)
    <3>1. \A x \in Session \ {s} : OpenAsTold(events, x) => OpenAsTold(f, x)
      BY <1>7, <1>11, <2>1, LastIsKept
    <3>2. \A x \in Session \ {t} : OpenAsTold(f, x) => OpenAsTold(events', x)
      BY <1>2, <2>1, <2>2, LastIsKept
    <3>3. QED
      BY <3>1, <3>2
  <2>11. Placed'
    <3>1. \A x \in Session : row[x] # NULL /\ row[x].pane = pane /\ row[x].closed = NULL => x = s
      BY <1>0, <1>1, OldFacts DEF Placed, Rows
    <3>2. row'[t] # NULL /\ row'[s] # NULL /\ row[s] # NULL
      BY <1>0, <1>1, <2>6, <2>7, OldFacts
    <3>3. \A x \in Session \ {t} :
           /\ row'[x] = NULL <=> row[x] = NULL
           /\ row[x] # NULL => row'[x].pane = row[x].pane
           /\ row[x] # NULL /\ row'[x].closed = NULL =>
                row[x].closed = NULL /\ row[x].pane # pane /\ ended'[x] = ended[x]
           /\ row[x] # NULL /\ row[x].closed = NULL /\ row[x].pane # pane =>
                row'[x].closed = NULL
      <4>1. now # NULL /\ row[s].pane = pane
        BY <1>1, <1>7
      <4>2. \A x \in Session \ {s, t} : row'[x] = row[x] /\ ended'[x] = ended[x]
        BY <1>5, <1>11
      <4>3. \A x \in Session \ {s, t} :
              row[x] # NULL /\ row[x].closed = NULL => row[x].pane # pane
        BY <3>1
      <4>4. QED
        BY <2>7, <3>2, <4>1, <4>2, <4>3
    <3>4. \A x \in Session \ {t} :
           /\ runs'[x] = IF runs[x] = pane THEN NULL ELSE runs[x]
           /\ held'[x] = held[x]
           /\ runs[x] # NULL /\ runs[x] # pane /\ OpenAsTold(events, x) =>
                OpenAsTold(events', x)
      BY <1>0, <1>4, <1>5, <2>10
    <3>5. runs'[t] = pane
      BY <1>5
    <3>6. QED
      BY <1>0, <1>1, <2>6, <2>9, <3>2, <3>3, <3>4, <3>5, StartPlaced
  <2>12. ASSUME NEW x \in Session, row'[x] # NULL
         PROVE  Told(events', x, row'[x], ended'[x], held'[x], runs')
    <3>1. CASE x # s /\ x # t
      <4>1. row'[x] = row[x] /\ x \in Rows
        BY <1>11, <2>12, <3>1 DEF Rows
      <4>2. Told(events, x, row[x], ended[x], held[x], runs) /\ row[x] \in Row
        BY <1>7, <4>1
      <4>3. Told(f, x, row[x], ended[x], held[x], runs)
        BY <1>7, <1>11, <2>1, <2>3, <3>1, <4>2, ToldOfOthers
      <4>4. Told(events', x, row[x], ended[x], held[x], runs')
        BY <1>2, <2>1, <2>2, <2>4, <3>1, <4>2, <4>3, ToldOfOthers
      <4>5. QED
        BY <1>0, <1>5, <3>1, <4>1, <4>4
    <3>2. CASE x = t
      <4>1. Told(events', t, row'[t], ended'[t], FALSE, runs')
        BY <1>2, <1>3, <2>1, <2>2, <2>6, StartedTold
      <4>2. held'[t] = FALSE
        BY <1>0, <1>1, OldFacts
      <4>3. QED
        BY <3>2, <4>1, <4>2
    <3>3. CASE x = s
      <4>1. /\ MarkAsHeld(events, s, row[s].mark, held[s]) /\ row[s].mark \in Nat
            /\ ~row[s].done
        BY <1>1, <1>7 DEF Told, Row
      <4>2. MarkAsHeld(f, s, row[s].mark, held[s])
        BY <1>7, <1>11, <2>1, <2>3, <4>1, MarkIsKept
      <4>3. MarkAsHeld(events', s, row[s].mark, held[s])
        BY <1>1, <1>2, <2>1, <2>2, <4>1, <4>2, MarkIsKept
      <4>4. /\ start.s # end.s /\ start.pane = end.pane /\ start.at = end.at
            /\ start.type = "SessionStart" /\ start.why = "clear"
        BY <1>1, <1>2, <1>11
      <4>5. ClosedAsTold(events', end.s, "clear", runs')
        BY <1>2, <1>7, <1>11, <2>1, <2>2, <4>4, ClearTells
      <4>6. QED
        BY <1>0, <1>5, <1>11, <2>7, <3>3, <4>1, <4>3, <4>5 DEF Told
    <3>4. QED
      BY <3>1, <3>2, <3>3
  <2>13. held' \in [Session -> BOOLEAN]
    BY <1>0, OldFacts
  <2>14. QED
    BY <1>0, <1>5, <2>2, <2>5, <2>8, <2>11, <2>12, <2>13, OldKept
<1>12. CASE StartsIn(t, pane, "clear", <<>>, row)
  <2> DEFINE end == Happened(s, "ForcedEnd", NULL, pane)
  <2>1. /\ end \in Event /\ end.s = s /\ end.type = "ForcedEnd" /\ end.why = NULL
        /\ end.at = now /\ end.pane = pane
    BY <1>1, <1>7, HappenedType
  <2>2. events' = (events \o <<end>>) \o <<start>>
    BY <1>1, <1>7, <1>9, <1>12, StartsInEvents DEF start
  <2> HIDE DEF end
  <2>3. /\ row' = [x \in Session |-> row'[x]]
        /\ row'[t] = [pane |-> pane, closed |-> NULL, done |-> FALSE,
                      mark |-> IF row[t] = NULL THEN 0 ELSE row[t].mark]
        /\ \A x \in Session \ {t} :
             row'[x] = IF x \in Siblings(t, pane, row)
                       THEN [row[x] EXCEPT !.closed = now] ELSE row[x]
    BY <1>12, StartsInWrites
  <2>4. QED
    BY <1>1, <1>9, <1>11, <2>1, <2>2, <2>3
<1>13. CASE StartsIn(t, pane, "clear", <<Happened(s, "SessionEnd", "clear", pane)>>, closed)
  <2> DEFINE end == Happened(s, "SessionEnd", "clear", pane)
  <2>1. /\ end \in Event /\ end.s = s /\ end.type = "SessionEnd" /\ end.why = "clear"
        /\ end.at = now /\ end.pane = pane
    BY <1>1, <1>7, HappenedType
  <2>2. /\ row' = [x \in Session |-> row'[x]]
        /\ row'[t] = [pane |-> pane, closed |-> NULL, done |-> FALSE,
                      mark |-> IF closed[t] = NULL THEN 0 ELSE closed[t].mark]
        /\ \A x \in Session \ {t} :
             row'[x] = IF x \in Siblings(t, pane, closed)
                       THEN [closed[x] EXCEPT !.closed = now] ELSE closed[x]
    BY <1>13, StartsInWrites
  <2> HIDE DEF end
  <2>3. events' = (events \o <<end>>) \o <<start>>
    BY <1>1, <1>7, <1>10, <1>13, <2>1, StartsInEvents DEF start, end
  <2>4. closed[t] = NULL /\ closed[s] = [row[s] EXCEPT !.closed = now]
    BY <1>1, <1>6
  <2>5. \A x \in Session \ {s, t} : closed[x] = row[x]
    BY <1>6
  <2>6. QED
    BY <1>1, <1>10, <1>11, <2>1, <2>2, <2>3, <2>4, <2>5
<1>14. QED
  BY <1>12, <1>13 DEF Clears, closed

LEMMA UpgradeTrue ==
  ASSUME IInv, Upgrade
  PROVE  TypeOK' /\ OldInv'
<1>0. /\ ~upgraded /\ upgraded' /\ \A s \in Session : runs'[s] = NULL
      /\ UNCHANGED <<row, events, ended, held, columns, version, view, lock, opener, now, kills>>
  BY DEF Upgrade
<1>1. TypeOK'
  BY <1>0 DEF Upgrade, IInv, TypeOK
<1>2. Placed'
  BY <1>0, OldFacts DEF Placed, Rows
<1>3. \A x \in Rows : Told(events, x, row[x], ended[x], held[x], runs')
  <2>1. ASSUME NEW x \in Rows, row[x].closed # NULL
        PROVE  ClosedAsTold(events, x, ended[x], runs')
    BY <1>0, <2>1, OldFacts, ClosedElsewhere DEF Told
  <2>2. QED
    BY <1>0, <2>1, OldFacts DEF Told
<1>4. InOrder(events, now)
  BY <1>0, OldFacts
<1>5. Recorded'
  BY <1>0, <1>2, <1>3, <1>4 DEF Recorded, Told, Rows
<1>6. QED
  BY <1>1, <1>5 DEF OldInv

LEMMA TickTrue ==
  ASSUME IInv, Tick
  PROVE  TypeOK' /\ OldInv'
<1>0. /\ now' = now + 1 /\ now \in 0..MaxTime /\ now' \in 0..MaxTime
      /\ UNCHANGED <<runs, row, events, ended, held, columns, version, view, lock, opener, kills,
                     upgraded>>
  BY MigrateAssumption DEF Tick, old, IInv, TypeOK
<1>1. TypeOK'
  BY <1>0 DEF IInv, TypeOK
<1>2. ASSUME InOrder(events, now)
      PROVE  InOrder(events, now')
  <2>1. \A i \in 1..Len(events) : events[i] \in Event
    BY ElementOfSeq DEF IInv, TypeOK
  <2>2. \A i \in 1..Len(events) : events[i].at \in Nat
    BY <2>1 DEF Event
  <2>3. QED
    BY <1>0, <1>2, <2>2 DEF InOrder
<1>3. Recorded => Recorded'
  BY <1>0, <1>2 DEF Recorded, Placed, Rows
<1>4. QED
  BY <1>0, <1>1, <1>3 DEF IInv, OldInv

-----------------------------------------------------------------------------
(***************************************************************************)
(* The openers, once more: the types, and the sessions sorted.             *)
(***************************************************************************)

Local == [at : Places, column : 0..Columns, now : 0..MaxTime]

\* A step of opener o, which goes on as l.
LEMMA OpenerTyped ==
  ASSUME IInv, NEW o \in Opener, NEW l \in Local, Becomes(o, l),
         columns' \in 0..Columns, version' \in {0, 1}, view' \in BOOLEAN,
         lock' \in Opener \cup {NULL}, kills' \in 0..MaxKill, UNCHANGED <<runs, now, upgraded>>,
         row' \in [Session -> Row \cup {NULL}], events' \in Seq(Event),
         ended' \in [Session -> {"typed", "clear", "cut", NULL}],
         held' \in [Session -> BOOLEAN]
  PROVE  TypeOK'
<1>1. opener' \in [Opener -> Local]
  BY DEF IInv, TypeOK, Becomes, Local, Places
<1>2. QED
  BY <1>1 DEF IInv, TypeOK, Local, Places

LEMMA LocalFacts ==
  ASSUME IInv, NEW o \in Opener
  PROVE  /\ opener[o] \in Local
         /\ \A at \in Places : [opener[o] EXCEPT !.at = at] \in Local
         /\ \A c \in 0..Columns : [opener[o] EXCEPT !.column = c] \in Local
         /\ \A at \in Places, t \in 0..MaxTime :
              [opener[o] EXCEPT !.at = at, !.now = t] \in Local
         /\ Out \in Local /\ [Out EXCEPT !.at = "asks", !.column = 1] \in Local
         /\ opener[o].column \in 0..Columns /\ columns \in 0..Columns
         /\ Columns \in Nat \ {0} /\ now \in 0..MaxTime
<1>1. Columns \in Nat \ {0} /\ MaxTime \in Nat
  BY MigrateAssumption
<1>2. opener[o] \in Local /\ columns \in 0..Columns /\ now \in 0..MaxTime
  BY DEF IInv, TypeOK, Local, Places
<1>3. Out \in Local /\ [Out EXCEPT !.at = "asks", !.column = 1] \in Local
  <2>1. 0 \in 0..Columns /\ 1 \in 0..Columns /\ 0 \in 0..MaxTime
    BY <1>1
  <2>2. "out" \in Places /\ "asks" \in Places
    BY DEF Places
  <2>3. [at |-> "out", column |-> 0, now |-> 0] \in Local
    BY <2>1, <2>2 DEF Local
  <2>4. [Out EXCEPT !.at = "asks", !.column = 1] \in Local
    BY <2>1, <2>2 DEF Out, Local
  <2>5. QED
    BY <2>3, <2>4 DEF Out
<1>4. QED
  BY <1>1, <1>2, <1>3 DEF Local

\* A step of an opener that writes none of the sessions' rows.
LEMMA PlainTyped ==
  ASSUME IInv, NEW o \in Opener, NEW l \in Local, Becomes(o, l),
         UNCHANGED <<runs, row, events, ended, held, now, upgraded>>,
         columns' \in 0..Columns, version' \in {0, 1}, version = 1 => version' = 1,
         view' \in BOOLEAN, lock' \in Opener \cup {NULL}, kills' \in 0..MaxKill
  PROVE  TypeOK' /\ OldInv'
<1>1. TypeOK'
  <2>1. /\ row' \in [Session -> Row \cup {NULL}] /\ events' \in Seq(Event)
        /\ ended' \in [Session -> {"typed", "clear", "cut", NULL}]
        /\ held' \in [Session -> BOOLEAN]
    BY DEF IInv, TypeOK
  <2>2. QED
    BY <2>1, OpenerTyped
<1>2. version' = 0 => version = 0
  BY DEF IInv, TypeOK
<1>3. Recorded => Recorded'
  BY DEF Recorded, Placed, Rows
<1>4. QED
  BY <1>1, <1>2, <1>3 DEF IInv, OldInv

\* A row as the migration leaves it.
LEMMA SortedRow ==
  ASSUME NEW s, row[s] \in Row, NEW at
  PROVE  /\ Sorted(s, at) \in Row
         /\ Sorted(s, at).done <=> row[s].done \/ (Closed(s) /\ Finished(s, at))
         /\ Sorted(s, at).mark = IF row[s].mark # 0 /\ MarkHolds(s) THEN row[s].mark ELSE 0
<1> DEFINE done == row[s].done \/ (Closed(s) /\ Finished(s, at))
           mark == IF row[s].mark # 0 /\ MarkHolds(s) THEN row[s].mark ELSE 0
<1>1. row[s] = [pane |-> row[s].pane, closed |-> row[s].closed, done |-> row[s].done,
                mark |-> row[s].mark]
      /\ row[s].pane \in Pane /\ row[s].closed \in {NULL} \cup Nat /\ row[s].done \in BOOLEAN
      /\ row[s].mark \in Nat
  BY DEF Row
<1>2. done \in BOOLEAN
  BY Zenon
<1>3. mark \in Nat
  BY <1>1
<1>4. Sorted(s, at) = [row[s] EXCEPT !.done = done, !.mark = mark]
  <2> DEFINE q == [row[s] EXCEPT !.done = done]
  <2>1. q.mark = row[s].mark
    <3> HIDE DEF done
    <3>1. QED
      BY <1>1
  <2>2. Sorted(s, at) = [q EXCEPT !.mark = IF @ # 0 /\ MarkHolds(s) THEN @ ELSE 0]
    BY DEF Sorted
  <2> HIDE DEF q
  <2>3. Sorted(s, at) = [q EXCEPT !.mark = mark]
    BY <2>1, <2>2
  <2>4. QED
    BY <2>3 DEF q
<1> HIDE DEF done, mark
<1>5. Sorted(s, at) = [pane |-> row[s].pane, closed |-> row[s].closed, done |-> done, mark |-> mark]
  BY <1>1, <1>4
<1>6. Sorted(s, at) \in Row /\ Sorted(s, at).done = done /\ Sorted(s, at).mark = mark
  BY <1>1, <1>2, <1>3, <1>5 DEF Row
<1>7. QED
  BY <1>2, <1>6 DEF done, mark

LEMMA OpensTrue ==
  ASSUME IInv, NEW o \in Opener, Opens(o) \/ Killed(o)
  PROVE  TypeOK' /\ OldInv'
<1>0. /\ columns \in 0..Columns /\ version \in {0, 1} /\ view \in BOOLEAN
      /\ lock \in Opener \cup {NULL} /\ kills \in 0..MaxKill
      /\ Relies(o, opener[o], columns, version, lock)
  BY DEF IInv, TypeOK, Inv, Opened
<1>1. CASE Begins(o) \/ ReadsVersion(o) \/ GivesUp(o)
  <2>1. PICK l \in Local : Becomes(o, l)
    <3>1. CASE Begins(o)
      BY <3>1, LocalFacts DEF Begins
    <3>2. CASE ReadsVersion(o)
      <4> DEFINE at == IF version = 1 THEN "drops" ELSE "begins"
      <4>1. Becomes(o, [opener[o] EXCEPT !.at = at, !.now = now]) /\ at \in Places
        BY <3>2 DEF ReadsVersion, Places
      <4> HIDE DEF at
      <4>2. QED
        BY <4>1, LocalFacts
    <3>3. CASE GivesUp(o)
      BY <3>3, LocalFacts DEF GivesUp
    <3>4. QED
      BY <1>1, <3>1, <3>2, <3>3
  <2>2. UNCHANGED <<runs, row, events, ended, held, now, upgraded, columns, version, view, lock,
                    kills>>
    BY <1>1 DEF Begins, ReadsVersion, GivesUp, Opening, Step, old, schema
  <2>3. QED
    BY <1>0, <2>1, <2>2, PlainTyped
<1>2. CASE AsksColumn(o)
  <2>1. PICK l \in Local : Becomes(o, l)
    <3>1. CASE columns < opener[o].column
      BY <1>2, <3>1, LocalFacts DEF AsksColumn, GoesOn, Places
    <3>2. CASE ~(columns < opener[o].column) /\ opener[o].column < Columns
      <4>1. Becomes(o, [opener[o] EXCEPT !.column = opener[o].column + 1])
        BY <1>2, <3>2 DEF AsksColumn
      <4>2. opener[o].column + 1 \in 0..Columns
        <5>1. opener[o].column \in 0..Columns /\ Columns \in Nat
          BY LocalFacts
        <5>2. QED
          BY <3>2, <5>1
      <4>3. [opener[o] EXCEPT !.column = opener[o].column + 1] \in Local
        BY <4>2, LocalFacts
      <4>4. QED
        BY <4>1, <4>3
    <3>3. CASE ~(columns < opener[o].column) /\ ~(opener[o].column < Columns)
      BY <1>2, <3>3, LocalFacts DEF AsksColumn, GoesOn, Places
    <3>4. QED
      BY <3>1, <3>2, <3>3
  <2>2. UNCHANGED <<runs, row, events, ended, held, now, upgraded, columns, version, view, lock,
                    kills>>
    BY <1>2 DEF AsksColumn, Opening, Step, old, schema
  <2>3. QED
    BY <1>0, <2>1, <2>2, PlainTyped
<1>3. CASE AddsColumn(o)
  <2>1. PICK l \in Local : Becomes(o, l) /\ columns' \in 0..Columns
    <3>1. CASE columns < opener[o].column
      BY <1>3, <3>1, LocalFacts DEF AddsColumn, GoesOn, Places
    <3>2. CASE ~(columns < opener[o].column)
      BY <1>3, <3>2, LocalFacts DEF AddsColumn
    <3>3. QED
      BY <3>1, <3>2
  <2>2. UNCHANGED <<runs, row, events, ended, held, now, upgraded, version, view, lock, kills>>
    BY <1>3 DEF AddsColumn, Opening, Step, old
  <2>3. QED
    BY <1>0, <2>1, <2>2, PlainTyped
<1>4. CASE BeginsWrite(o) \/ DropsView(o) \/ CreatesView(o)
  <2>1. PICK l \in Local : Becomes(o, l)
    BY <1>4, LocalFacts DEF BeginsWrite, DropsView, CreatesView, GoesOn, Places
  <2>2. /\ UNCHANGED <<runs, row, events, ended, held, now, upgraded, version, columns, kills>>
        /\ view' \in BOOLEAN /\ lock' \in Opener \cup {NULL}
    BY <1>0, <1>4 DEF BeginsWrite, DropsView, CreatesView, Opening, Step, old
  <2>3. QED
    BY <1>0, <2>1, <2>2, PlainTyped
<1>5. CASE Migrates(o)
  <2>1. PICK l \in Local : Becomes(o, l)
    BY <1>5, LocalFacts DEF Migrates, GoesOn, Places
  <2>2. UNCHANGED <<now, upgraded, columns, view, kills>> /\ lock' = NULL
    BY <1>5 DEF Migrates, Step
  <2>3. CASE version = 1
    <3>1. UNCHANGED <<runs, row, events, ended, held, version>>
      BY <1>5, <2>3 DEF Migrates, old
    <3>2. QED
      BY <1>0, <2>1, <2>2, <3>1, PlainTyped
  <2>4. CASE version # 1
    <3>1. Sorts(o)
      BY <1>5, <2>4 DEF Migrates
    <3>2. /\ version' = 1 /\ UNCHANGED runs /\ events' \in Seq(Event)
          /\ ended' \in [Session -> {"typed", "clear", "cut", NULL}]
          /\ held' \in [Session -> BOOLEAN]
      BY <3>1, EmptySeq DEF Sorts
    <3>3. row' \in [Session -> Row \cup {NULL}]
      <4>1. ASSUME NEW s \in Session, s \in Rows
            PROVE  Sorted(s, opener[o].now) \in Row
        <5>1. row[s] \in Row
          BY <4>1 DEF Rows, IInv, TypeOK
        <5>2. QED
          BY <5>1, SortedRow
      <4>2. row' = [s \in Session |-> IF s \in Rows THEN Sorted(s, opener[o].now) ELSE NULL]
        BY <3>1 DEF Sorts
      <4>3. QED
        BY <4>1, <4>2
    <3>4. TypeOK'
      BY <1>0, <2>1, <2>2, <3>2, <3>3, OpenerTyped
    <3>5. QED
      BY <3>2, <3>4 DEF OldInv
  <2>5. QED
    BY <2>3, <2>4
<1>6. CASE Uses(o)
  <2>1. /\ Becomes(o, Out) /\ Out \in Local /\ opener[o].at = "open"
        /\ UNCHANGED <<runs, events, ended, held, now, upgraded, version, columns, view, lock,
                       kills>>
    BY <1>6, LocalFacts DEF Uses, Opening, Step, old, schema
  <2>2. version = 1
    BY <1>0, <2>1 DEF Relies, PastMigration
  <2>3. row' \in [Session -> Row \cup {NULL}]
    <3>1. CASE UNCHANGED row
      BY <3>1 DEF IInv, TypeOK
    <3>2. ASSUME NEW s \in Rows, NEW closed \in {NULL, now}, row' = [row EXCEPT ![s].closed = closed]
          PROVE  row' \in [Session -> Row \cup {NULL}]
      <4>1. s \in Session /\ row[s] \in Row /\ row \in [Session -> Row \cup {NULL}]
        BY DEF Rows, IInv, TypeOK
      <4>2. closed \in {NULL} \cup Nat
        BY DEF IInv, Inv
      <4>3. [row[s] EXCEPT !.closed = closed] \in Row
        BY <4>1, <4>2 DEF Row
      <4>4. row' = [row EXCEPT ![s] = [row[s] EXCEPT !.closed = closed]]
        BY <3>2
      <4>5. QED
        BY <4>1, <4>3, <4>4
    <3>3. QED
      BY <1>6, <3>1, <3>2 DEF Uses
  <2>4. TypeOK'
    <3>1. /\ events' \in Seq(Event) /\ ended' \in [Session -> {"typed", "clear", "cut", NULL}]
          /\ held' \in [Session -> BOOLEAN]
      BY <2>1 DEF IInv, TypeOK
    <3>2. QED
      BY <1>0, <2>1, <2>3, <3>1, OpenerTyped
  <2>5. QED
    BY <2>1, <2>2, <2>4 DEF OldInv
<1>7. CASE Killed(o)
  <2>1. /\ Becomes(o, Out) /\ Out \in Local /\ lock' = IF lock = o THEN NULL ELSE lock
        /\ kills < MaxKill /\ kills' = kills + 1
        /\ UNCHANGED <<runs, row, events, ended, held, now, upgraded, version, columns, view>>
    BY <1>7, LocalFacts DEF Killed, old
  <2>2. kills' \in 0..MaxKill
    BY <1>0, <2>1, MigrateAssumption
  <2>3. QED
    BY <1>0, <2>1, <2>2, PlainTyped
<1>8. QED
  BY <1>1, <1>2, <1>3, <1>4, <1>5, <1>6, <1>7 DEF Opens

\* A bounded set of numbers has a greatest one: the least distance from the bound.
LEMMA LeastOfNaturals ==
  ASSUME NEW T \in SUBSET Nat, T # {}
  PROVE  \E m \in T : \A q \in T : m <= q
<1> DEFINE below == OpToRel(<, Nat)
<1>1. below = {ss \in Nat \X Nat : ss[1] < ss[2]}
  BY DEF OpToRel
<1>2. IsWellFoundedOn(below, Nat)
  BY NatLessThanWellFounded
<1> HIDE DEF below
<1>3. PICK m \in T : \A q \in T : ~ (<<q, m>> \in below)
  BY <1>2, WFMin
<1>4. \A q \in T : ~ (q < m)
  BY <1>1, <1>3
<1>5. QED
  BY <1>3, <1>4

LEMMA MaxOfSome ==
  ASSUME NEW n \in Nat, NEW T, T \subseteq 1..n, T # {}
  PROVE  Max(T) \in T /\ \A q \in T : Max(T) >= q
<1> DEFINE Distances == {n - q : q \in T}
<1>1. Distances \in SUBSET Nat /\ Distances # {}
  <2>1. \A q \in T : n - q \in Nat
    OBVIOUS
  <2>2. QED
    BY <2>1
<1>2. PICK d \in Distances : \A c \in Distances : d <= c
  BY <1>1, LeastOfNaturals
<1>3. PICK m \in T : d = n - m
  OBVIOUS
<1>4. \A q \in T : n - m <= n - q
  BY <1>2, <1>3
<1>5. \A q \in T : m >= q
  BY <1>4
<1>6. QED
  BY <1>5 DEF Max

LEMMA MinOfSome ==
  ASSUME NEW T \in SUBSET Nat, T # {}
  PROVE  Min(T) \in T /\ \A q \in T : Min(T) <= q
<1>1. PICK m \in T : \A q \in T : m <= q
  BY LeastOfNaturals
<1>2. QED
  BY <1>1 DEF Min

\* The end that closed the row is the last event of its session.
LEMMA ClosingIsLast ==
  ASSUME events \in Seq(Event), NEW s, NEW i \in 1..Len(events), LastOf(events, s, i),
         IsEnd(events[i])
  PROVE  ClosingEvent(s) = i
<1>1. Len(events) \in Nat /\ DOMAIN events = 1..Len(events)
  BY LenProperties
<1>2. EndsOf(s) \subseteq 1..Len(events) /\ i \in EndsOf(s)
  BY <1>1 DEF EndsOf, LastOf, IsEnd
<1>3. \A j \in EndsOf(s) : j <= i
  BY <1>1 DEF EndsOf, LastOf
<1>4. Max(EndsOf(s)) \in EndsOf(s) /\ Max(EndsOf(s)) >= i
  BY <1>1, <1>2, MaxOfSome
<1>5. QED
  BY <1>1, <1>2, <1>3, <1>4 DEF ClosingEvent, Latest

\* The migration keeps a mark if it is in force, and no other.
LEMMA MarkSorted ==
  ASSUME events \in Seq(Event), NEW s, row[s].mark \in Nat, NEW inForce \in BOOLEAN,
         MarkAsHeld(events, s, row[s].mark, inForce)
  PROVE  row[s].mark # 0 /\ MarkHolds(s) <=> inForce
<1> DEFINE n == Len(events)
           mark == row[s].mark
           T == {i \in DOMAIN events : events[i].s = s} \ EndsOf(s)
<1>1. n \in Nat /\ DOMAIN events = 1..n
  BY LenProperties
<1>2. \A i : i \in T <=> i \in 1..n /\ events[i].s = s /\ ~IsEnd(events[i])
  BY <1>1 DEF EndsOf, IsEnd
<1>3. MarkHolds(s) <=> mark = IF T = {} THEN 0 ELSE Max(T)
  BY DEF MarkHolds, Latest
<1> HIDE DEF T
<1>4. T # {} => Max(T) \in T /\ \A q \in T : Max(T) >= q
  <2>1. T \subseteq 1..n
    BY <1>2
  <2>2. QED
    BY <1>1, <2>1, MaxOfSome
<1>5. CASE inForce
  <2>1. mark \in T /\ \A j \in T : j <= mark
    BY <1>1, <1>2, <1>5 DEF MarkAsHeld
  <2>2. Max(T) = mark
    BY <1>1, <1>2, <1>4, <2>1
  <2>3. QED
    BY <1>2, <1>3, <1>5, <2>1, <2>2
<1>6. CASE ~inForce
  <2>1. mark = 0 \/ \E j \in T : j > mark
    BY <1>1, <1>2, <1>6 DEF MarkAsHeld
  <2>2. mark # 0 => T # {} /\ Max(T) > mark
    BY <1>1, <1>2, <1>4, <2>1
  <2>3. QED
    BY <1>1, <1>2, <1>3, <1>6, <2>2
<1>7. QED
  BY <1>5, <1>6

\* If nobody moved, the successors of s after event i are the starts in its pane within the
\* window.
LEMMA SuccessorsStart ==
  ASSUME events \in Seq(Event), NobodyMoved, NEW s, NEW i \in 1..Len(events),
         LastOf(events, s, i)
  PROVE  \A n : n \in Successors(s, i) <=>
                  /\ n \in StartsAfter(events, events[i].pane, i)
                  /\ events[n].at - events[i].at <= Window
<1>1. Len(events) \in Nat /\ DOMAIN events = 1..Len(events)
  BY LenProperties
<1>2. \A n \in (i + 1)..Len(events) : /\ events[n].s # s
                                       /\ events[n].pane = row[events[n].s].pane
  BY <1>1 DEF LastOf, NobodyMoved
<1>3. events[i].pane = row[s].pane
  BY <1>1 DEF LastOf, NobodyMoved
<1>4. QED
  BY <1>2, <1>3 DEF Successors, StartsAfter

\* A /clear that only the session that came after it has told of is found.
LEMMA ForcedSorted ==
  ASSUME events \in Seq(Event), NEW t, InOrder(events, t), NobodyMoved, NEW s,
         NEW i \in 1..Len(events), LastOf(events, s, i), IsEnd(events[i]),
         events[i].type = "ForcedEnd"
  PROVE  /\ ClearFollows(events, i) => ForcedByClear(s)
         /\ NoClearFollows(events, i) => ~ForcedByClear(s)
<1> DEFINE starts == StartsAfter(events, events[i].pane, i)
           next == Successors(s, i)
<1>1. ClosingEvent(s) = i /\ i # 0
  BY ClosingIsLast
<1>2. /\ Len(events) \in Nat /\ Window \in Nat
      /\ \A j \in 1..Len(events) : events[j] \in Event
  BY LenProperties, ElementOfSeq, MigrateAssumption
<1>3. \A j \in 1..Len(events) : events[j].at \in Nat
  BY <1>2 DEF Event
<1>4. \A n \in starts : n \in 1..Len(events) /\ n \in Nat
  <2>1. i \in Nat
    BY <1>2
  <2>2. starts \subseteq (i + 1)..Len(events)
    BY DEF StartsAfter
  <2> HIDE DEF starts
  <2>3. QED
    BY <1>2, <2>1, <2>2
<1>5. \A n : n \in next <=> n \in starts /\ events[n].at - events[i].at <= Window
  BY SuccessorsStart
<1>6. ForcedByClear(s) <=> next # {} /\ events[Min(next)].why = "clear"
  BY <1>1 DEF ForcedByClear
<1>7. ClearFollows(events, i) <=> \E n \in starts : /\ events[n].why = "clear"
                                                   /\ events[n].at = events[i].at
                                                   /\ \A m \in starts : n <= m
  BY DEF ClearFollows
<1>8. NoClearFollows(events, i) <=>
        \A n \in starts : events[n].why = "clear" => \E m \in starts : m < n
  BY DEF NoClearFollows
<1> HIDE DEF starts, next
<1>9. next # {} => Min(next) \in next /\ \A q \in next : Min(next) <= q
  <2>1. next \in SUBSET Nat
    BY <1>2, <1>4, <1>5
  <2>2. QED
    BY <2>1, MinOfSome
<1>10. ASSUME NEW n \in starts, events[n].why = "clear", events[n].at = events[i].at,
              \A m \in starts : n <= m
       PROVE  ForcedByClear(s)
  <2>1. n \in next
    BY <1>2, <1>3, <1>5, <1>10
  <2>2. Min(next) = n
    BY <1>2, <1>4, <1>5, <1>9, <1>10, <2>1
  <2>3. QED
    BY <1>6, <1>10, <2>1, <2>2
<1>11. ASSUME next # {}, events[Min(next)].why = "clear",
              \A n \in starts : events[n].why = "clear" => \E m \in starts : m < n
       PROVE  FALSE
  <2>1. Min(next) \in starts /\ events[Min(next)].at - events[i].at <= Window
    BY <1>5, <1>9, <1>11
  <2>2. PICK m \in starts : m < Min(next)
    BY <1>11, <2>1
  <2>3. events[m].at <= events[Min(next)].at
    BY <1>2, <1>4, <2>1, <2>2 DEF InOrder
  <2>4. events[m].at - events[i].at <= Window
    BY <1>2, <1>3, <1>4, <2>1, <2>2, <2>3
  <2>5. m \in next /\ m \in Nat /\ Min(next) \in Nat
    BY <1>2, <1>4, <1>5, <2>1, <2>2, <2>4
  <2>6. QED
    BY <1>9, <1>11, <2>2, <2>5
<1>12. QED
  BY <1>6, <1>7, <1>8, <1>10, <1>11

\* The work of a session that ended within the horizon is found to be what it was.
LEMMA WorkSorted ==
  ASSUME events \in Seq(Event), NEW t, InOrder(events, t), NobodyMoved, NEW s,
         NEW how, NEW where, ClosedAsTold(events, s, how, where),
         NEW at, ~(row[s].closed < at - Horizon)
  PROVE  Finished(s, at) <=> how # "cut"
<1>1. PICK i \in 1..Len(events) : /\ LastOf(events, s, i) /\ IsEnd(events[i])
                                  /\ Tells(events, i, how)
  BY DEF ClosedAsTold
<1>2. ClosingEvent(s) = i /\ i # 0
  BY <1>1, ClosingIsLast
<1>3. Finished(s, at) <=> events[i].why \in {"exit", "clear"} \/ ForcedByClear(s)
  BY <1>2 DEF Finished
<1>4. CASE events[i].type = "SessionEnd"
  <2>1. ~ForcedByClear(s)
    BY <1>2, <1>4 DEF ForcedByClear
  <2>2. QED
    BY <1>1, <1>3, <1>4, <2>1 DEF Tells
<1>5. CASE events[i].type = "ForcedEnd"
  <2>1. events[i].why \notin {"exit", "clear"}
    BY <1>1, <1>5, MigrateAssumption DEF Tells
  <2>2. /\ ClearFollows(events, i) => ForcedByClear(s)
        /\ NoClearFollows(events, i) => ~ForcedByClear(s)
    BY <1>1, <1>5, ForcedSorted
  <2>3. QED
    BY <1>1, <1>3, <1>5, <2>1, <2>2 DEF Tells
<1>6. QED
  BY <1>1, <1>4, <1>5 DEF IsEnd

-----------------------------------------------------------------------------

LEMMA IInvInit == Init => IInv
<1> SUFFICES ASSUME Init PROVE IInv
  OBVIOUS
<1>1. Inv
  BY InvInit
<1>2. Out \in Local /\ 0 \in 0..Columns /\ 0 \in 0..MaxTime /\ 0 \in 0..MaxKill
  BY MigrateAssumption DEF Out, Local, Places
<1>3. TypeOK
  BY <1>2, EmptySeq DEF Init, TypeOK, Local, Places
<1>4. Recorded
  <2>1. Len(events) = 0
    BY EmptySeq DEF Init
  <2>2. InOrder(events, now)
    BY <2>1 DEF InOrder
  <2>3. QED
    BY <2>2 DEF Init, Recorded, Placed, Rows
<1>5. QED
  BY <1>1, <1>3, <1>4 DEF IInv, OldInv

LEMMA IInvNext == IInv /\ [Next]_vars => IInv'
<1> SUFFICES ASSUME IInv, [Next]_vars PROVE TypeOK' /\ OldInv'
  BY InvNext DEF IInv
<1>1. CASE OldProgram
  BY <1>1, StartsTrue, ClearsTrue, TurnTrue, MarksTrue, EndsTrue, VanishesTrue, SweptTrue
  DEF OldProgram
<1>2. CASE Upgrade \/ Tick
  BY <1>2, UpgradeTrue, TickTrue
<1>3. ASSUME NEW o \in Opener, Opens(o) \/ Killed(o)
      PROVE  TypeOK' /\ OldInv'
  BY <1>3, OpensTrue
<1>4. CASE UNCHANGED vars
  <2>1. UNCHANGED <<runs, row, events, ended, held, columns, version, view, lock, opener, now,
                   kills, upgraded>>
    BY <1>4 DEF vars
  <2>2. TypeOK'
    BY <2>1 DEF IInv, TypeOK
  <2>3. Recorded => Recorded'
    BY <2>1 DEF Recorded, Placed, Rows
  <2>4. QED
    BY <2>1, <2>2, <2>3 DEF IInv, OldInv
<1>5. QED
  BY <1>1, <1>2, <1>3, <1>4 DEF Next

LEMMA IInvHolds == Spec => []IInv
BY IInvInit, IInvNext, PTL DEF Spec

\* The types of the state, the old program's rows and events among it (initSchema).
THEOREM MigrateTypeCorrect == Spec => []TypeOK
<1>1. IInv => TypeOK
  BY DEF IInv
<1>2. QED
  BY <1>1, IInvHolds, PTL

\* What the migration makes of the sessions is how they were left, whatever the old
\* program recorded of them and however many there are (migrateLifecycle).
THEOREM SortsAsEnded == Spec => SortedAsEnded
<1> DEFINE AsEnded(o, s) ==
             /\ row'[s].mark # 0 <=> held[s]
             /\ NobodyMoved /\ ~Closed(s) => ~row'[s].done
             /\ NobodyMoved /\ Closed(s) /\ row[s].closed >= opener[o].now - Horizon =>
                  (row'[s].done <=> ended[s] # "cut")
<1>1. ASSUME IInv, [Next]_vars, version' # version, NEW o \in Opener, lock = o, NEW s \in Rows
      PROVE  AsEnded(o, s)
  <2>1. PICK p \in Opener : Migrates(p)
    BY <1>1 DEF Next, vars, OldProgram, Starts, Clears, Turn, Marks, Ends, Vanishes, Swept, OldHook,
                Upgrade, Tick, Opens, Begins, AsksColumn, AddsColumn, ReadsVersion, BeginsWrite,
                DropsView, CreatesView, GivesUp, Uses, Killed, schema
  <2>2. p = o
    <3>1. lock = p
      BY <1>1, <2>1 DEF Migrates, Step, IInv, Inv, Opened, Relies
    <3>2. QED
      BY <1>1, <3>1
  <2>3. version = 0 /\ Sorts(o)
    BY <1>1, <2>1, <2>2 DEF Migrates, IInv, TypeOK
  <2>4. Recorded /\ events \in Seq(Event) /\ row[s] \in Row /\ s \in Session /\ held[s] \in BOOLEAN
    BY <1>1, <2>3 DEF IInv, OldInv, TypeOK, Rows
  <2>5. row'[s] = Sorted(s, opener[o].now)
    BY <1>1, <2>3, <2>4 DEF Sorts
  <2>6. /\ row'[s].done <=> row[s].done \/ (Closed(s) /\ Finished(s, opener[o].now))
        /\ row'[s].mark = IF row[s].mark # 0 /\ MarkHolds(s) THEN row[s].mark ELSE 0
    BY <2>4, <2>5, SortedRow
  <2>7. /\ InOrder(events, now) /\ ~row[s].done
        /\ MarkAsHeld(events, s, row[s].mark, held[s])
        /\ Closed(s) => ClosedAsTold(events, s, ended[s], runs)
    BY <1>1, <2>4 DEF Recorded, Closed
  <2>8. row'[s].mark # 0 <=> held[s]
    <3>1. row[s].mark \in Nat
      BY <2>4 DEF Row
    <3>2. row[s].mark # 0 /\ MarkHolds(s) <=> held[s]
      BY <2>4, <2>7, <3>1, MarkSorted
    <3>3. QED
      BY <2>6, <3>2
  <2>9. ASSUME NobodyMoved, Closed(s), row[s].closed >= opener[o].now - Horizon
        PROVE  row'[s].done <=> ended[s] # "cut"
    <3>1. ~(row[s].closed < opener[o].now - Horizon)
      <4>1. row[s].closed \in Nat /\ opener[o].now \in Nat /\ Horizon \in Nat
        BY <2>4, <2>9, MigrateAssumption, <1>1 DEF Row, Closed, IInv, Inv, Opened
      <4>2. QED
        BY <2>9, <4>1
    <3>2. Finished(s, opener[o].now) <=> ended[s] # "cut"
      BY <2>4, <2>7, <2>9, <3>1, WorkSorted
    <3>3. QED
      BY <2>6, <2>7, <2>9, <3>2
  <2>10. QED
    BY <2>6, <2>7, <2>8, <2>9
<1>2. ASSUME IInv, [Next]_vars
      PROVE  [version' # version => \A o \in Opener : lock = o => \A s \in Rows : AsEnded(o, s)]_vars
  BY <1>1, <1>2
<1>3. QED
  BY <1>2, IInvHolds, PTL DEF Spec, SortedAsEnded
=============================================================================
