--------------------------- MODULE DatabaseProofs ---------------------------
(***************************************************************************)
(* Database's theorems, for every set of programs, rows and contents.      *)
(***************************************************************************)
EXTENDS Database, TLAPS

\* An Update has pending rows before it, and a Fill an empty table.
Held ==
  \A p \in Procs :
    /\ \A r \in todo[p] : Pending(p, r)
    /\ todo[p] # {} => op[p] = "update"
    /\ op[p] = "fill" => table[p] = Empty /\ touched[p] = Rows

Inv == TypeOK /\ Held /\ Coherent

States == {"added", "modified", "unchanged", "deleted"}
RowType == {Absent} \cup [state : States, content : Contents]

LEMMA RowTyped ==
  ASSUME NEW s \in States, NEW c \in Contents
  PROVE  /\ Row(s, c) \in RowType
         /\ Row(s, c).state = s /\ Row(s, c).content = c /\ Row(s, c) # Absent
  BY DEF Row, RowType, Absent, States

LEMMA AbsentFields == Absent.state = "absent" /\ Absent.content = None
  BY DEF Absent

LEMMA InvInit == Init => Inv
  BY AbsentFields DEF Init, Inv, TypeOK, Held, Coherent, Empty, Absent

\* The steps in which a program empties its table.
LEMMA EmptyStep ==
  ASSUME Inv, NEW p \in Procs, FillBegins(p) \/ FillRefused(p) \/ Exit(p)
  PROVE  Inv'
<1>1. TypeOK'
  <2>1. Empty \in [Rows -> {Absent} \cup [state : States, content : Contents]]
    BY DEF Empty
  <2>2. CASE FillBegins(p)
    BY <2>1, <2>2 DEF Inv, TypeOK, FillBegins, States
  <2>3. CASE FillRefused(p)
    BY <2>1, <2>3 DEF Inv, TypeOK, FillRefused, States
  <2>4. CASE Exit(p)
    BY <2>1, <2>4 DEF Inv, TypeOK, Exit, States
  <2>5. QED
    BY <2>2, <2>3, <2>4
<1>2. table' = [table EXCEPT ![p] = Empty] /\ touched' = [touched EXCEPT ![p] = Rows]
      /\ db' = db /\ todo'[p] = {}
  BY DEF Inv, TypeOK, Held, FillBegins, FillRefused, Exit
<1>3. \A q \in Procs \ {p} : op'[q] = op[q] /\ todo'[q] = todo[q] /\ table'[q] = table[q]
                             /\ touched'[q] = touched[q]
  BY DEF Inv, TypeOK, FillBegins, FillRefused, Exit
<1>4. table'[p] = Empty /\ touched'[p] = Rows
  BY <1>2 DEF Inv, TypeOK
<1>5. Held'
  BY <1>2, <1>3, <1>4 DEF Inv, Held, Pending
<1>6. Coherent'
  BY <1>2, <1>3, <1>4 DEF Inv, Coherent, Wanted
<1>7. QED
  BY <1>1, <1>5, <1>6 DEF Inv

\* A Fill brings what the file holds.
LEMMA FillStep ==
  ASSUME Inv, NEW p \in Procs, FillEnds(p)
  PROVE  Inv'
<1>1. table[p] = Empty /\ todo[p] = {} /\ db' = db /\ todo' = todo
  BY DEF Inv, Held, FillEnds
<1>2. \A r \in Rows : /\ Loaded(p)[r] \in RowType
                      /\ Loaded(p)[r].content = db[r] /\ Loaded(p)[r].state # "deleted"
  <2> TAKE r \in Rows
  <2>1. CASE db[r] = None
    BY <1>1, <2>1, AbsentFields DEF Loaded, Empty, RowType
  <2>2. CASE db[r] # None
    <3>1. db[r] \in Contents
      BY <2>2 DEF Inv, TypeOK
    <3>2. Loaded(p)[r] = Row("added", db[r])
      BY <2>2 DEF Loaded
    <3>3. QED
      BY <3>1, <3>2, RowTyped DEF States
  <2>3. QED
    BY <2>1, <2>2
<1>3. Loaded(p) \in [Rows -> RowType]
  BY <1>2 DEF Loaded
<1>4. TypeOK'
  BY <1>3 DEF Inv, TypeOK, FillEnds, RowType, States
<1>5. /\ op'[p] = "idle" /\ table'[p] = Loaded(p) /\ touched'[p] = {}
      /\ \A q \in Procs \ {p} : op'[q] = op[q] /\ table'[q] = table[q]
                                /\ touched'[q] = touched[q]
  BY DEF Inv, TypeOK, FillEnds
<1>6. Held'
  BY <1>1, <1>5 DEF Inv, Held, Pending
<1>7. Coherent'
  BY <1>1, <1>2, <1>5 DEF Inv, Coherent, Wanted
<1>8. QED
  BY <1>4, <1>6, <1>7 DEF Inv

\* A program's change of a row of its own.
LEMMA ChangeStep ==
  ASSUME Inv, NEW p \in Procs, NEW r \in Rows, NEW row \in RowType, Change(p, r, row)
  PROVE  Inv'
<1>1. TypeOK'
  BY DEF Inv, TypeOK, Change, RowType, States
<1>2. /\ op[p] = "idle" /\ op' = op /\ todo' = todo /\ db' = db
      /\ touched'[p] = touched[p] \cup {r}
      /\ \A s \in Rows \ {r} : table'[p][s] = table[p][s]
      /\ \A q \in Procs \ {p} : table'[q] = table[q] /\ touched'[q] = touched[q]
  BY DEF Inv, TypeOK, Change
<1>3. todo[p] = {}
  BY <1>2 DEF Inv, Held
<1>4. Held'
  BY <1>2, <1>3 DEF Inv, Held, Pending
<1>5. Coherent'
  BY <1>2 DEF Inv, Coherent, Wanted
<1>6. QED
  BY <1>1, <1>4, <1>5 DEF Inv

\* A pending row has a content, and a saved one holds what was wanted.
LEMMA AcceptedRow ==
  ASSUME TypeOK, NEW p \in Procs, NEW r \in Rows, Pending(p, r)
  PROVE  /\ Wanted(p, r) \in Contents \cup {None}
         /\ Accepted(p, r)[p][r] \in RowType
         /\ Accepted(p, r)[p][r].state \notin {"added", "modified", "deleted"}
         /\ Accepted(p, r)[p][r].content = Wanted(p, r)
         /\ Accepted(p, r) = [table EXCEPT ![p][r] = Accepted(p, r)[p][r]]
<1>1. table[p][r] \in [state : States, content : Contents]
  BY AbsentFields DEF TypeOK, Pending, States
<1>2. CASE table[p][r].state = "deleted"
  <2>1. Accepted(p, r) = [table EXCEPT ![p][r] = Absent] /\ Wanted(p, r) = None
    BY <1>2 DEF Accepted, Wanted, TypeOK
  <2>2. Accepted(p, r)[p][r] = Absent
    BY <2>1 DEF TypeOK
  <2>3. Absent \in RowType /\ Absent.state = "absent" /\ Absent.content = None
    BY AbsentFields DEF RowType
  <2>4. /\ Accepted(p, r)[p][r].state \notin {"added", "modified", "deleted"}
        /\ Accepted(p, r)[p][r].content = Wanted(p, r)
    BY <2>1, <2>2, <2>3
  <2>5. Accepted(p, r) = [table EXCEPT ![p][r] = Accepted(p, r)[p][r]]
    <3> DEFINE new == Accepted(p, r)[p][r]
    <3>1. new = Absent
      BY <2>2
    <3> HIDE DEF new
    <3>2. Accepted(p, r) = [table EXCEPT ![p][r] = new]
      BY <3>1, <2>1
    <3>3. QED
      BY <3>2 DEF new
  <2>6. /\ Wanted(p, r) \in Contents \cup {None}
        /\ Accepted(p, r)[p][r] \in RowType
    BY <2>1, <2>2, <2>3
  <2>7. QED
    BY <2>4, <2>5, <2>6
<1>3. CASE table[p][r].state # "deleted"
  <2>1. /\ Accepted(p, r) = [table EXCEPT ![p][r] = Row("unchanged", table[p][r].content)]
        /\ Wanted(p, r) = table[p][r].content
    BY <1>3 DEF Accepted, Wanted, TypeOK
  <2>2. Accepted(p, r)[p][r] = Row("unchanged", table[p][r].content)
    BY <2>1 DEF TypeOK
  <2>3. Accepted(p, r) = [table EXCEPT ![p][r] = Accepted(p, r)[p][r]]
    <3> DEFINE new == Accepted(p, r)[p][r]
    <3>1. new = Row("unchanged", table[p][r].content)
      BY <2>2
    <3> HIDE DEF new
    <3>2. Accepted(p, r) = [table EXCEPT ![p][r] = new]
      BY <3>1, <2>1
    <3>3. QED
      BY <3>2 DEF new
  <2>4. table[p][r].content \in Contents
    BY <1>1
  <2>5. /\ Wanted(p, r) \in Contents \cup {None}
        /\ Accepted(p, r)[p][r] \in RowType
    BY <2>1, <2>2, <2>4, RowTyped DEF States
  <2>6. /\ Accepted(p, r)[p][r].state \notin {"added", "modified", "deleted"}
        /\ Accepted(p, r)[p][r].content = Wanted(p, r)
    BY <2>1, <2>2, <2>4, RowTyped DEF States
  <2>7. QED
    BY <2>3, <2>5, <2>6
<1>4. QED
  BY <1>2, <1>3

\* A row that is saved is as in the file, and the other program is told so
\* by nobody.
LEMMA SaveStep ==
  ASSUME Inv, NEW p \in Procs, NEW r \in Rows, SaveRow(p, r)
  PROVE  Inv'
<1>1. Pending(p, r)
  BY DEF Inv, Held, SaveRow
<1>2. /\ op' = op /\ op[p] = "update" /\ db' = [db EXCEPT ![r] = Wanted(p, r)]
      /\ \A q \in Procs \ {p} : op[q] # "fill"
      /\ todo' = [todo EXCEPT ![p] = @ \ {r}]
      /\ table' = [table EXCEPT ![p][r] = Accepted(p, r)[p][r]]
      /\ touched' = TouchOthers(p, r)
      /\ Wanted(p, r) \in Contents \cup {None}
      /\ Accepted(p, r)[p][r] \in RowType
      /\ table'[p][r].content = Wanted(p, r)
      /\ table'[p][r].state \notin {"added", "modified", "deleted"}
  BY <1>1, AcceptedRow DEF Inv, SaveRow, Written, ReadBy
<1>3. TypeOK'
  BY <1>2 DEF Inv, TypeOK, TouchOthers, RowType, States
<1>4. /\ \A s \in Rows \ {r} : table'[p][s] = table[p][s] /\ db'[s] = db[s]
      /\ \A q \in Procs \ {p} : table'[q] = table[q] /\ todo'[q] = todo[q]
                                /\ touched'[q] = touched[q] \cup {r}
      /\ touched'[p] = touched[p] \ {r} /\ todo'[p] = todo[p] \ {r}
      /\ db'[r] = Wanted(p, r) /\ todo[p] \subseteq Rows
  BY <1>2 DEF Inv, TypeOK, TouchOthers
<1>5. Held'
  BY <1>2, <1>4 DEF Inv, Held, Pending
<1>6. Coherent'
  BY <1>2, <1>4 DEF Inv, Coherent, Wanted
<1>7. QED
  BY <1>3, <1>5, <1>6 DEF Inv

LEMMA InvStep ==
  ASSUME Inv, [Next]_vars
  PROVE  Inv'
<1>1. ASSUME NEW p \in Procs, UpdateBegins(p) \/ UpdateEnds(p)
      PROVE  Inv'
  <2>1. TypeOK'
    BY <1>1 DEF Inv, TypeOK, UpdateBegins, UpdateEnds
  <2>2. Held'
    BY <1>1 DEF Inv, TypeOK, Held, UpdateBegins, UpdateEnds, Pending
  <2>3. Coherent'
    BY <1>1 DEF Inv, TypeOK, Coherent, UpdateBegins, UpdateEnds, Wanted
  <2>4. QED
    BY <2>1, <2>2, <2>3 DEF Inv
<1>2. ASSUME NEW p \in Procs, NEW r \in Rows, Delete(p, r)
      PROVE  Inv'
  <2>1. \E row \in RowType : Change(p, r, row)
    <3>1. CASE table[p][r].state = "added"
      BY <1>2, <3>1 DEF Delete, RowType
    <3>2. CASE table[p][r].state # "added"
      <4>1. table[p][r].content \in Contents
        BY <1>2, AbsentFields DEF Delete, Inv, TypeOK
      <4>2. Row("deleted", table[p][r].content) \in RowType
        BY <4>1, RowTyped DEF States
      <4>3. QED
        BY <1>2, <3>2, <4>2 DEF Delete
    <3>3. QED
      BY <3>1, <3>2
  <2>2. QED
    BY <2>1, ChangeStep
<1>3. ASSUME NEW p \in Procs, NEW r \in Rows, NEW c \in Contents, Edit(p, r, c)
      PROVE  Inv'
  BY <1>3, RowTyped, ChangeStep DEF Edit, States
<1>4. ASSUME NEW p \in Procs, NEW r \in Rows, RowRefused(p, r) \/ RowPassed(p, r)
      PROVE  Inv'
  <2>1. TypeOK'
    BY <1>4 DEF Inv, TypeOK, RowRefused, RowPassed
  <2>2. Held'
    BY <1>4 DEF Inv, TypeOK, Held, RowRefused, RowPassed, Pending
  <2>3. Coherent'
    BY <1>4 DEF Inv, Coherent, RowRefused, RowPassed, Wanted
  <2>4. QED
    BY <2>1, <2>2, <2>3 DEF Inv
<1>5. ASSUME NEW p \in Procs, NEW r \in Rows, NEW c \in Contents \cup {None},
             Command(p, r, c)
      PROVE  Inv'
  <2>1. TypeOK'
    BY <1>5 DEF Inv, TypeOK, Command, Written
  <2>2. Held'
    BY <1>5 DEF Inv, TypeOK, Held, Command, Written, Pending, ReadBy
  <2>3. Coherent'
    BY <1>5 DEF Inv, TypeOK, Coherent, Command, Written, Wanted
  <2>4. QED
    BY <2>1, <2>2, <2>3 DEF Inv
<1>6. CASE UNCHANGED vars
  BY <1>6 DEF Inv, vars, TypeOK, Held, Coherent, Pending, Wanted
<1>7. QED
  BY <1>1, <1>2, <1>3, <1>4, <1>5, <1>6, EmptyStep, FillStep, SaveStep DEF Next

\* The types hold.
THEOREM TypeCorrect == Spec => []TypeOK
<1>1. Inv => TypeOK
  BY DEF Inv
<1>2. QED
  BY <1>1, InvInit, InvStep, PTL DEF Spec

\* Every program's untouched rows are as in the file.
THEOREM TablesCohere == Spec => []Coherent
<1>1. Inv => Coherent
  BY DEF Inv
<1>2. QED
  BY <1>1, InvInit, InvStep, PTL DEF Spec

\* A change leaves Update's care for the file only.
THEOREM ChangesAreSaved == Spec => SavedOrPending
<1> DEFINE Saved(p, r) ==
      op[p] = "update" /\ Pending(p, r) /\ ~Pending(p, r)' /\ table'[p] # Empty
      => db'[r] = Wanted(p, r)
<1>1. ASSUME Inv, Next, NEW p \in Procs, NEW r \in Rows
      PROVE  Saved(p, r)
  <2>1. CASE table'[p] = table[p]
    BY <2>1 DEF Pending
  <2>2. ASSUME NEW q \in Procs, NEW s \in Rows, SaveRow(q, s)
        PROVE  Saved(p, r)
    <3>1. Pending(q, s)
      BY <1>1, <2>2 DEF Inv, Held, SaveRow
    <3>2. /\ table' = [table EXCEPT ![q][s] = Accepted(q, s)[q][s]]
          /\ db' = [db EXCEPT ![s] = Wanted(q, s)]
      BY <1>1, <2>2, <3>1, AcceptedRow DEF Inv, SaveRow, Written
    <3>3. CASE q = p /\ s = r
      BY <1>1, <3>2, <3>3 DEF Inv, TypeOK
    <3>4. CASE q # p \/ s # r
      <4>1. table'[p][r] = table[p][r]
        BY <1>1, <3>2, <3>4 DEF Inv, TypeOK
      <4>2. QED
        BY <4>1 DEF Pending
    <3>5. QED
      BY <3>3, <3>4
  <2>3. ASSUME NEW q \in Procs,
               \/ FillBegins(q) \/ FillRefused(q) \/ FillEnds(q) \/ Exit(q)
               \/ \E s \in Rows : Delete(q, s) \/ \E c \in Contents : Edit(q, s, c)
        PROVE  Saved(p, r)
    <3>1. CASE q = p
      BY <1>1, <2>3, <3>1
      DEF FillBegins, FillRefused, FillEnds, Exit, Delete, Edit, Change, Inv, TypeOK
    <3>2. CASE q # p
      <4>1. table'[p] = table[p]
        BY <1>1, <2>3, <3>2
        DEF FillBegins, FillRefused, FillEnds, Exit, Delete, Edit, Change, Inv, TypeOK
      <4>2. QED
        BY <4>1 DEF Pending
    <3>3. QED
      BY <3>1, <3>2
  <2>4. ASSUME NEW q \in Procs,
               \/ UpdateBegins(q) \/ UpdateEnds(q)
               \/ \E s \in Rows : \/ RowRefused(q, s) \/ RowPassed(q, s)
                                  \/ \E c \in Contents \cup {None} : Command(q, s, c)
        PROVE  Saved(p, r)
    BY <2>1, <2>4 DEF UpdateBegins, UpdateEnds, RowRefused, RowPassed, Command
  <2>5. QED
    BY <1>1, <2>2, <2>3, <2>4 DEF Next
<1>2. ASSUME UNCHANGED vars, NEW p \in Procs, NEW r \in Rows
      PROVE  Saved(p, r)
  BY <1>2 DEF vars, Pending
<1>3. Inv /\ [Next]_vars => \A p \in Procs, r \in Rows : Saved(p, r)
  BY <1>1, <1>2
<1>4. QED
  BY <1>3, InvInit, InvStep, PTL DEF Spec, SavedOrPending
=============================================================================
