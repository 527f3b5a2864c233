------------------------------ MODULE Database ------------------------------
(***************************************************************************)
(* The games' database adapter (GvrSqlite.cs: GvrDataAdapter, GvrCommand)  *)
(* in two programs that have one SQLite file.  A program fills a table in  *)
(* memory, changes rows there, and has Update save them row by row.        *)
(*                                                                         *)
(* SQLite is external: a statement is atomic, a SELECT keeps writers out   *)
(* from its first row to its last, and a statement that meets one of the   *)
(* other program is refused at once, since the adapter sets no busy        *)
(* timeout.  Of a row only the key and one content are kept.  A Fill finds *)
(* its table by the name that the adapter maps: one without a mapping,     *)
(* which throws at its second time and leaves the old rows, is left out.   *)
(***************************************************************************)
CONSTANTS
  Procs, Rows, Contents,
  None         \* no such row

ASSUME DatabaseAssumption == None \notin Contents

VARIABLES
  db,          \* the file: each row's content
  table,       \* each program's table: of each row its DataRowState and content
  op,          \* each program: "idle", "fill" or "update"
  todo,        \* the rows that its Update has before it
  touched      \* history: rows where it is not bound to hold what the file does:
               \* changed by it, saved by the other since it filled, or not read

vars == <<db, table, op, todo, touched>>

Absent == [state |-> "absent", content |-> None]
Row(s, c) == [state |-> s, content |-> c]
Empty == [r \in Rows |-> Absent]

TypeOK ==
  /\ db \in [Rows -> Contents \cup {None}]
  /\ table \in [Procs -> [Rows -> {Absent} \cup
        [state : {"added", "modified", "unchanged", "deleted"}, content : Contents]]]
  /\ op \in [Procs -> {"idle", "fill", "update"}]
  /\ todo \in [Procs -> SUBSET Rows]
  /\ touched \in [Procs -> SUBSET Rows]

Init ==
  /\ db \in [Rows -> Contents \cup {None}]
  /\ table = [p \in Procs |-> Empty]
  /\ op = [p \in Procs |-> "idle"]
  /\ todo = [p \in Procs |-> {}]
  /\ touched = [p \in Procs |-> Rows]

\* A statement of the other program's is under way, or may be.
Meets(p) == \E q \in Procs \ {p} : op[q] # "idle"
ReadBy(q) == op[q] = "fill"

-----------------------------------------------------------------------------
(* Fill.                                                                   *)

\* Faulty variant: the rows are added to those of the last time.
FillOnto(p) ==
  /\ op[p] = "idle" /\ op' = [op EXCEPT ![p] = "fill"]
  /\ touched' = [touched EXCEPT ![p] = Rows]
  /\ UNCHANGED <<db, table, todo>>

\* The table is emptied, and the SELECT begins...
FillBegins(p) ==
  /\ op[p] = "idle" /\ op' = [op EXCEPT ![p] = "fill"]
  /\ table' = [table EXCEPT ![p] = Empty]
  /\ touched' = [touched EXCEPT ![p] = Rows]
  /\ UNCHANGED <<db, todo>>

\* ... or is refused: no rows, with an exception or without.
FillRefused(p) ==
  /\ op[p] = "idle" /\ Meets(p)
  /\ table' = [table EXCEPT ![p] = Empty]
  /\ touched' = [touched EXCEPT ![p] = Rows]
  /\ UNCHANGED <<db, op, todo>>

\* Every row is added to the table, and its changes are not accepted.
Loaded(p) == [r \in Rows |-> IF db[r] = None THEN table[p][r] ELSE Row("added", db[r])]

FillEnds(p) ==
  /\ op[p] = "fill" /\ op' = [op EXCEPT ![p] = "idle"]
  /\ table' = [table EXCEPT ![p] = Loaded(p)]
  /\ touched' = [touched EXCEPT ![p] = {}]
  /\ UNCHANGED <<db, todo>>

-----------------------------------------------------------------------------
(* The program's own changes of its table.                                 *)

Change(p, r, row) ==
  /\ op[p] = "idle"
  /\ table' = [table EXCEPT ![p][r] = row]
  /\ touched' = [touched EXCEPT ![p] = @ \cup {r}]
  /\ UNCHANGED <<db, op, todo>>

Edit(p, r, c) ==
  LET old == table[p][r].state IN
  /\ old # "deleted"
  /\ Change(p, r, Row(IF old \in {"absent", "added"} THEN "added" ELSE "modified", c))

\* A row that was only ever added goes without a trace.
Delete(p, r) ==
  LET old == table[p][r] IN
  /\ old.state \notin {"absent", "deleted"}
  /\ Change(p, r, IF old.state = "added" THEN Absent ELSE Row("deleted", old.content))

-----------------------------------------------------------------------------
(* Update, and commands of their own.                                      *)

Pending(p, r) == table[p][r].state \in {"added", "modified", "deleted"}
Wanted(p, r) == IF table[p][r].state = "deleted" THEN None ELSE table[p][r].content

UpdateBegins(p) ==
  /\ op[p] = "idle" /\ op' = [op EXCEPT ![p] = "update"]
  /\ todo' = [todo EXCEPT ![p] = {r \in Rows : Pending(p, r)}]
  /\ UNCHANGED <<db, table, touched>>

\* The other program no longer holds what the file does.
Written(p, r, c) ==
  /\ \A q \in Procs \ {p} : ~ReadBy(q)
  /\ db' = [db EXCEPT ![r] = c]

TouchOthers(p, r) == [q \in Procs |-> IF q = p THEN touched[q] \ {r} ELSE touched[q] \cup {r}]

\* AcceptChanges
Accepted(p, r) ==
  [table EXCEPT ![p][r] = IF @.state = "deleted" THEN Absent ELSE Row("unchanged", @.content)]

\* INSERT OR REPLACE of the whole row, or DELETE.
SaveRow(p, r) ==
  /\ op[p] = "update" /\ r \in todo[p]
  /\ Written(p, r, Wanted(p, r))
  /\ todo' = [todo EXCEPT ![p] = @ \ {r}]
  /\ table' = Accepted(p, r)
  /\ touched' = TouchOthers(p, r)
  /\ UNCHANGED op

\* Faulty variant: the row's changes are accepted, saved or not.
RowAccepted(p, r) ==
  /\ op[p] = "update" /\ r \in todo[p] /\ Meets(p)
  /\ todo' \in {[todo EXCEPT ![p] = @ \ {r}], [todo EXCEPT ![p] = {}]}
  /\ table' = Accepted(p, r)
  /\ UNCHANGED <<db, op, touched>>

\* SQLITE_BUSY: the row stays as it is; with ContinueUpdateOnError the next one
\* follows, without it the rest is not tried.
RowRefused(p, r) ==
  /\ op[p] = "update" /\ r \in todo[p] /\ Meets(p)
  /\ todo' \in {[todo EXCEPT ![p] = @ \ {r}], [todo EXCEPT ![p] = {}]}
  /\ UNCHANGED <<db, table, op, touched>>

\* A row for which the adapter has no command (DeleteCommand for a deleted one,
\* InsertCommand for the others) is passed over.
RowPassed(p, r) ==
  /\ op[p] = "update" /\ r \in todo[p]
  /\ todo' = [todo EXCEPT ![p] = @ \ {r}]
  /\ UNCHANGED <<db, table, op, touched>>

UpdateEnds(p) ==
  /\ op[p] = "update" /\ todo[p] = {} /\ op' = [op EXCEPT ![p] = "idle"]
  /\ UNCHANGED <<db, table, todo, touched>>

\* ExecuteNonQuery, beside the table.
Command(p, r, c) ==
  /\ op[p] = "idle" /\ Written(p, r, c)
  /\ touched' = [q \in Procs |-> touched[q] \cup {r}]
  /\ UNCHANGED <<table, op, todo>>

\* A program ends or is killed; a row is in the file or is not.
Exit(p) ==
  /\ table' = [table EXCEPT ![p] = Empty] /\ op' = [op EXCEPT ![p] = "idle"]
  /\ todo' = [todo EXCEPT ![p] = {}] /\ touched' = [touched EXCEPT ![p] = Rows]
  /\ UNCHANGED db

Next == \E p \in Procs :
  \/ FillBegins(p) \/ FillRefused(p) \/ FillEnds(p) \/ UpdateBegins(p) \/ UpdateEnds(p)
  \/ Exit(p)
  \/ \E r \in Rows :
       \/ Delete(p, r) \/ SaveRow(p, r) \/ RowRefused(p, r) \/ RowPassed(p, r)
       \/ \E c \in Contents : Edit(p, r, c)
       \/ \E c \in Contents \cup {None} : Command(p, r, c)

Spec == Init /\ [][Next]_vars

-----------------------------------------------------------------------------
(* Properties.                                                             *)

\* What a program holds of a row is what the file holds, unless it has changed
\* the row itself or the other has saved it since: the table of a Fill is no
\* mixture of two moments, and a saved row is not older than the file.
Coherent ==
  \A p \in Procs : op[p] # "fill" => \A r \in Rows \ touched[p] : Wanted(p, r) = db[r]

\* A change that Update no longer holds pending is in the file: a row that was
\* refused, passed over or not reached is there for the next Update, if the
\* program does not fill the table anew before it (the AcceptChanges behind
\* Exec).
SavedOrPending ==
  [][\A p \in Procs, r \in Rows :
       op[p] = "update" /\ Pending(p, r) /\ ~Pending(p, r)' /\ table'[p] # Empty
       => db'[r] = Wanted(p, r)]_vars
=============================================================================
