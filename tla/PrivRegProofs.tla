--------------------------- MODULE PrivRegProofs ---------------------------
(***************************************************************************)
(* Proofs about PrivReg, for any keys, names, defaults and programs: the   *)
(* types, that an open key exists, and that the file and its defaults act  *)
(* as the one registry of module Registry.                                 *)
(***************************************************************************)
EXTENDS PrivReg, TLAPS

\* Writing a line of a key that exists makes no key and loses none: its
\* section adds nothing that was not there (KeyExists, for WriteLine).
LEMMA SectionOfKey ==
  ASSUME NEW k \in Keys, KeyExists(k),
         sections' \in {sections, sections \cup {k}}, NEW a \in Keys
  PROVE  KeyExists(a)' <=> KeyExists(a)
<1>1. CASE AllKeysExist
  BY <1>1 DEF KeyExists
<1>2. CASE ~AllKeysExist
  <2>1. PICK s \in sections \cup DefaultKeys : s \in Under[k]
    BY <1>2 DEF KeyExists
  <2>2. ASSUME k \in Under[a] PROVE s \in Under[a]
    BY <2>1, <2>2, RegAssumption
  <2> QED
    BY <1>2, <2>1, <2>2 DEF KeyExists
<1> QED
  BY <1>1, <1>2

\* Keys never go: no call removes a section.
LEMMA KeysStay ==
  ASSUME sections \subseteq sections', NEW a \in Keys, KeyExists(a)
  PROVE  KeyExists(a)'
BY DEF KeyExists

\* A key that has been created exists (key_create).
LEMMA CreatedExists ==
  ASSUME NEW k \in Keys, sections' = IF KeyExists(k) THEN sections ELSE sections \cup {k}
  PROVE  KeyExists(k)'
<1>1. k \in Under[k]
  BY RegAssumption
<1> QED
  BY <1>1 DEF KeyExists

-----------------------------------------------------------------------------
\* The inductive invariant: a deletion writes to the key that its program
\* has open, so its type needs the second half of OpenKeysExist.
IInv == TypeOK /\ OpenKeysExist

\* A new install satisfies the invariant.
LEMMA InitHolds == Init => IInv
BY DEF Init, IInv, TypeOK, OpenKeysExist, Idle

\* Each call keeps the types.
LEMMA StepKeepsTypes == IInv /\ [Next]_vars => TypeOK'
<1> SUFFICES ASSUME IInv, [Next]_vars PROVE TypeOK'
  OBVIOUS
<1> USE DEF IInv, TypeOK, store
<1>1. ASSUME NEW p \in Procs, NEW k \in Keys, Open(p, k) PROVE TypeOK'
  BY <1>1 DEF Open
<1>2. ASSUME NEW p \in Procs, NEW k \in Keys, CreateLooks(p, k) PROVE TypeOK'
  BY <1>2 DEF CreateLooks
<1>3. ASSUME NEW p \in Procs, CreateMakes(p) PROVE TypeOK'
  <2>1. pc[p].key \in Keys
    BY <1>3 DEF CreateMakes, Idle
  <2> QED
    BY <1>3, <2>1 DEF CreateMakes
<1>4. ASSUME NEW p \in Procs, Close(p) PROVE TypeOK'
  BY <1>4 DEF Close
<1>5. ASSUME NEW p \in Procs, NEW n \in Names, NEW t \in Texts, SetValue(p, n, t)
      PROVE  TypeOK'
  <2>1. handle[p] \in Keys /\ <<handle[p], n>> \in Values
    BY <1>5 DEF SetValue, Values
  <2> QED
    BY <1>5, <2>1 DEF SetValue, WriteLine
<1>6. ASSUME NEW p \in Procs, NEW n \in Names, DeleteLooks(p, n) PROVE TypeOK'
  BY <1>6 DEF DeleteLooks
<1>7. ASSUME NEW p \in Procs, DeleteMarks(p) PROVE TypeOK'
  <2> DEFINE t == IF \/ Defaults[<<handle[p], pc[p].name>>] # None
                     \/ <<handle[p], pc[p].name>> \in FolderNames
                  THEN Deleted ELSE Missing
  <2>1. pc[p].name \in Names /\ handle[p] \in Keys
    BY <1>7 DEF DeleteMarks, Idle, OpenKeysExist
  <2>2. WriteLine(handle[p], pc[p].name, t)
    BY <1>7 DEF DeleteMarks
  <2>3. t \in {Deleted, Missing}
    OBVIOUS
  <2>4. sections' \subseteq Keys
    BY <2>1, <2>2 DEF WriteLine
  <2>5. line' \in [Values -> Texts \cup {Deleted, Missing}]
    BY <2>1, <2>2, <2>3 DEF WriteLine
  <2> QED
    BY <1>7, <2>4, <2>5 DEF DeleteMarks
<1>8. ASSUME NEW p \in Procs, Exit(p) PROVE TypeOK'
  BY <1>8 DEF Exit
<1>9. ASSUME NEW f \in Texts, MoveInstall(f) PROVE TypeOK'
  BY <1>9 DEF MoveInstall
<1>10. CASE UNCHANGED vars
  BY <1>10 DEF vars
<1> QED
  BY <1>1, <1>2, <1>3, <1>4, <1>5, <1>6, <1>7, <1>8, <1>9, <1>10 DEF Next

\* No call takes a section away.
LEMMA SectionsGrow == Next \/ UNCHANGED vars => sections \subseteq sections'
BY DEF Next, vars, store, Open, CreateLooks, CreateMakes, Close, SetValue, WriteLine,
       DeleteLooks, DeleteMarks, Exit, MoveInstall

\* Each call keeps the open keys there.
LEMMA StepKeepsHandles == IInv /\ [Next]_vars => OpenKeysExist'
<1> SUFFICES ASSUME IInv, [Next]_vars, NEW q \in Procs
             PROVE  /\ handle'[q] # Closed => KeyExists(handle[q])'
                    /\ pc'[q].op = "delete" => handle'[q] # Closed
  BY DEF OpenKeysExist
<1> DEFINE Good(k) == AllKeysExist \/ \E s \in sections' \cup DefaultKeys : s \in Under[k]
           Held == /\ handle'[q] \in {handle[q], Closed} \/ Good(handle'[q])
                   /\ pc'[q].op = "delete" => handle'[q] # Closed
<1>1. handle[q] # Closed => Good(handle[q])
  BY SectionsGrow DEF IInv, OpenKeysExist, KeyExists
<1>2. Held
  <2> USE DEF IInv, TypeOK, OpenKeysExist, store
  <2>1. ASSUME NEW p \in Procs, NEW k \in Keys, Open(p, k) PROVE Held
    <3>1. Good(k)
      BY <2>1 DEF Open, KeyExists
    <3> QED
      BY <2>1, <3>1 DEF Open, Idle
  <2>2. ASSUME NEW p \in Procs, NEW k \in Keys, CreateLooks(p, k) PROVE Held
    BY <2>2 DEF CreateLooks
  <2>3. ASSUME NEW p \in Procs, CreateMakes(p) PROVE Held
    <3>1. pc[p].key \in Keys
      BY <2>3 DEF CreateMakes, Idle
    <3>2. Good(pc[p].key)
      BY <2>3, <3>1, CreatedExists DEF CreateMakes, KeyExists
    <3> QED
      BY <2>3, <3>2 DEF CreateMakes, Idle
  <2>4. ASSUME NEW p \in Procs, Close(p) PROVE Held
    BY <2>4 DEF Close, Idle
  <2>5. ASSUME NEW p \in Procs, NEW n \in Names, NEW t \in Texts, SetValue(p, n, t)
        PROVE  Held
    BY <2>5 DEF SetValue
  <2>6. ASSUME NEW p \in Procs, NEW n \in Names, DeleteLooks(p, n) PROVE Held
    BY <2>6 DEF DeleteLooks
  <2>7. ASSUME NEW p \in Procs, DeleteMarks(p) PROVE Held
    BY <2>7 DEF DeleteMarks, Idle
  <2>8. ASSUME NEW p \in Procs, Exit(p) PROVE Held
    BY <2>8 DEF Exit, Idle
  <2>9. ASSUME NEW f \in Texts, MoveInstall(f) PROVE Held
    BY <2>9 DEF MoveInstall
  <2>10. CASE UNCHANGED vars
    BY <2>10 DEF vars
  <2> QED
    BY <2>1, <2>2, <2>3, <2>4, <2>5, <2>6, <2>7, <2>8, <2>9, <2>10 DEF Next
<1> QED
  BY <1>1, <1>2 DEF KeyExists

\* The invariant holds throughout.
LEMMA InvariantHolds == Spec => []IInv
<1>1. IInv /\ [Next]_vars => IInv'
  BY StepKeepsTypes, StepKeepsHandles DEF IInv
<1> QED
  BY <1>1, InitHolds, PTL DEF Spec

\* The state has its type in every reachable state.
THEOREM TypeCorrect == Spec => []TypeOK
<1>1. IInv => TypeOK
  BY DEF IInv
<1> QED
  BY <1>1, InvariantHolds, PTL

\* A key that a program has open exists, whatever the other programs do
\* between its look at the file and its write (open_private).
THEOREM HandlesAreLive == Spec => []OpenKeysExist
<1>1. IInv => OpenKeysExist
  BY DEF IInv
<1> QED
  BY <1>1, InvariantHolds, PTL

-----------------------------------------------------------------------------
\* What an enumeration lists a query finds, and the other way round, whatever
\* mixture of lines, marks and defaults the file has come to hold (valuenames
\* and subkeys, value_get and key_exists).
THEOREM EnumerationsAgree == Spec => []EnumMatchesQuery
<1>1. TypeOK => EnumMatchesQuery
  <2> SUFFICES ASSUME TypeOK PROVE EnumMatchesQuery
    OBVIOUS
  <2>1. ASSUME ~AllKeysExist, NEW k \in Keys
        PROVE  SubKeys(k) = {c \in Under[k] \ {k} : KeyExists(c)}
    BY <2>1 DEF SubKeys, KeyExists
  <2>2. ASSUME NEW k \in Keys, NEW n \in Names, <<k, n>> \notin FolderNames
        PROVE  n \in ValueNames(k) <=> ValueGet(<<k, n>>) # None
    <3>1. line[<<k, n>>] \in Texts \cup {Deleted, Missing}
      BY DEF TypeOK, Values
    <3> QED
      BY <2>2, <3>1, RegAssumption DEF ValueNames, ValueGet
  <2>3. \A k \in Keys : ValueNames(k) \subseteq Names
    BY DEF ValueNames
  <2> QED
    BY <2>1, <2>2, <2>3 DEF EnumMatchesQuery
<1> QED
  BY <1>1, TypeCorrect, PTL

-----------------------------------------------------------------------------
\* A deletion that has succeeded leaves nothing to be found, though another
\* program may have set or deleted the value since it was looked at.
THEOREM DeletionsHold == Spec => DeletedIsGone
<1> DEFINE Step == \A p \in Procs, k \in Keys, n \in Names :
       /\ pc[p] = [op |-> "delete", name |-> n] /\ pc'[p] = Idle
       /\ handle[p] = k /\ handle'[p] = k
       /\ <<k, n>> \notin FolderNames
       => ValueGet(<<k, n>>)' = None
<1>1. IInv /\ [Next]_vars => [Step]_vars
  <2> SUFFICES ASSUME IInv, Next,
                      NEW p \in Procs, NEW k \in Keys, NEW n \in Names,
                      pc[p] = [op |-> "delete", name |-> n], pc'[p] = Idle,
                      handle[p] = k, handle'[p] = k, <<k, n>> \notin FolderNames
               PROVE  ValueGet(<<k, n>>)' = None
    BY DEF Step
  <2>1. pc'[p] # pc[p] /\ k # Closed
    BY RegAssumption DEF Idle
  <2>2. DeleteMarks(p)
    <3> USE <2>1 DEF IInv, TypeOK, Idle
    <3>1. ~UNCHANGED vars
      BY DEF vars
    <3>2. ~ \E q \in Procs, j \in Keys : Open(q, j) \/ CreateLooks(q, j)
      BY DEF Open, CreateLooks
    <3>3. ~ \E q \in Procs, m \in Names : DeleteLooks(q, m) \/ \E t \in Texts : SetValue(q, m, t)
      BY DEF DeleteLooks, SetValue
    <3>4. ~ \E q \in Procs : CreateMakes(q) \/ Close(q) \/ Exit(q)
      BY DEF CreateMakes, Close, Exit
    <3>5. ~ \E q \in Procs : q # p /\ DeleteMarks(q)
      BY DEF DeleteMarks
    <3>6. ~ \E f \in Texts : MoveInstall(f)
      BY DEF MoveInstall
    <3> QED
      BY <3>1, <3>2, <3>3, <3>4, <3>5, <3>6 DEF Next
  <2>3. line' = [line EXCEPT ![<<k, n>>] =
                   IF Defaults[<<k, n>>] # None THEN Deleted ELSE Missing]
    <3>1. pc[p].name = n
      OBVIOUS
    <3>2. WriteLine(k, n, IF Defaults[<<k, n>>] # None \/ <<k, n>> \in FolderNames
                          THEN Deleted ELSE Missing)
      BY ONLY <2>2, <3>1, handle[p] = k DEF DeleteMarks
    <3> QED
      BY <3>2 DEF WriteLine
  <2>4. line'[<<k, n>>] = IF Defaults[<<k, n>>] # None THEN Deleted ELSE Missing
    BY <2>3 DEF IInv, TypeOK, Values
  <2> QED
    BY <2>4, RegAssumption DEF ValueGet
<1> QED
  BY <1>1, InvariantHolds, PTL DEF Spec, DeletedIsGone

-----------------------------------------------------------------------------
\* A write to an open key adds no key (WriteLine).
LEMMA WriteAddsNoKey ==
  ASSUME NEW k \in Keys, KeyExists(k), NEW n, NEW t, WriteLine(k, n, t)
  PROVE  {a \in Keys : KeyExists(a)}' = {a \in Keys : KeyExists(a)}
<1>1. sections' \in {sections, sections \cup {k}}
  BY DEF WriteLine
<1>2. \A a \in Keys : KeyExists(a)' <=> KeyExists(a)
  BY <1>1, SectionOfKey
<1> QED
  BY <1>2

\* ... and changes what is found of that value alone, unless it is a folder
\* value, of which nothing changes (WriteLine and value_get).
LEMMA WriteSetsOne ==
  ASSUME TypeOK, NEW k \in Keys, NEW n \in Names, folder' = folder,
         NEW t \in Texts \cup {Deleted, Missing}, WriteLine(k, n, t),
         NEW v, v = IF t = Deleted THEN None ELSE IF t = Missing THEN Defaults[<<k, n>>] ELSE t
  PROVE  [x \in Values |-> ValueGet(x)]'
           = IF <<k, n>> \in FolderNames THEN [x \in Values |-> ValueGet(x)]
             ELSE [[x \in Values |-> ValueGet(x)] EXCEPT ![<<k, n>>] = v]
<1>1. <<k, n>> \in Values
  BY DEF Values
<1>2. \A x \in Values : line'[x] = IF x = <<k, n>> THEN t ELSE line[x]
  BY <1>1 DEF WriteLine, TypeOK
<1>3. \A x \in Values :
        ValueGet(x)' = IF x = <<k, n>> /\ x \notin FolderNames THEN v ELSE ValueGet(x)
  BY <1>2 DEF ValueGet
<1> QED
  BY <1>1, <1>3

\* The file and the defaults implement one registry that keeps its keys and
\* its values, for all programs and across their ends (module Registry).
THEOREM StoreIsARegistry == Spec => ActsAsRegistry
<1> DEFINE ks == {k \in Keys : KeyExists(k)}
           vs == [x \in Values |-> ValueGet(x)]
<1>1. Init => Real!Init
  BY RegAssumption DEF Init, Real!Init, ValueGet
<1>2. IInv /\ [Next]_vars => [Real!Next]_(Real!vars)
  <2> SUFFICES ASSUME IInv, [Next]_vars PROVE Real!Next \/ UNCHANGED Real!vars
    OBVIOUS
  <2>1. ASSUME UNCHANGED <<store, folder>> PROVE UNCHANGED Real!vars
    <3>1. ks' = ks
      BY <2>1 DEF store, KeyExists
    <3>2. vs' = vs
      BY <2>1 DEF store, ValueGet
    <3> QED
      BY <2>1, <3>1, <3>2 DEF Real!vars
  <2>2. ASSUME NEW p \in Procs, CreateMakes(p) PROVE Real!Next
    <3> DEFINE k == pc[p].key
    <3>1. k \in Keys
      BY <2>2 DEF CreateMakes, Idle, IInv, TypeOK
    <3>2. ks' = ks \cup {a \in Keys : k \in Under[a]}
      <4>1. CASE KeyExists(k)
        <5>1. \A a \in Keys : k \in Under[a] => KeyExists(a)
          BY <3>1, <4>1, RegAssumption DEF KeyExists
        <5>2. sections' = sections
          BY <2>2, <4>1 DEF CreateMakes
        <5> QED
          BY <5>1, <5>2 DEF KeyExists
      <4>2. CASE ~KeyExists(k)
        <5>1. sections' = sections \cup {k}
          BY <2>2, <4>2 DEF CreateMakes
        <5> QED
          BY <5>1 DEF KeyExists
      <4> QED
        BY <4>1, <4>2
    <3>3. vs' = vs /\ folder' = folder
      BY <2>2 DEF CreateMakes, ValueGet
    <3>4. Real!CreateKey(k)
      BY <3>2, <3>3 DEF Real!CreateKey
    <3> QED
      BY <3>1, <3>4 DEF Real!Next
  <2>3. ASSUME NEW p \in Procs, NEW n \in Names, NEW t \in Texts, SetValue(p, n, t)
        PROVE  Real!Next \/ UNCHANGED Real!vars
    <3> DEFINE k == handle[p]
    <3>1. k \in Keys /\ k \in ks
      BY <2>3 DEF SetValue, IInv, TypeOK, OpenKeysExist
    <3>2. WriteLine(k, n, t) /\ folder' = folder
      BY <2>3 DEF SetValue
    <3>3. ks' = ks
      BY <3>1, <3>2, WriteAddsNoKey
    <3>4. t = IF t = Deleted THEN None ELSE IF t = Missing THEN Defaults[<<k, n>>] ELSE t
      BY RegAssumption
    <3>5. vs' = IF <<k, n>> \in FolderNames THEN vs ELSE [vs EXCEPT ![<<k, n>>] = t]
      BY <3>1, <3>2, <3>4, WriteSetsOne DEF IInv
    <3> QED
      BY <3>1, <3>2, <3>3, <3>5 DEF Real!Next, Real!SetValue, Real!vars
  <2>4. ASSUME NEW p \in Procs, DeleteMarks(p)
        PROVE  Real!Next \/ UNCHANGED Real!vars
    <3> DEFINE k == handle[p]
               n == pc[p].name
               t == IF Defaults[<<k, n>>] # None \/ <<k, n>> \in FolderNames
                    THEN Deleted ELSE Missing
    <3>1. k \in Keys /\ k \in ks /\ n \in Names
      BY <2>4 DEF DeleteMarks, Idle, IInv, TypeOK, OpenKeysExist
    <3>2. WriteLine(k, n, t) /\ folder' = folder
      BY <2>4 DEF DeleteMarks
    <3>3. ks' = ks
      BY <3>1, <3>2, WriteAddsNoKey
    <3>4. None = IF t = Deleted THEN None ELSE IF t = Missing THEN Defaults[<<k, n>>] ELSE t
      BY RegAssumption
    <3>5. vs' = IF <<k, n>> \in FolderNames THEN vs ELSE [vs EXCEPT ![<<k, n>>] = None]
      BY <3>1, <3>2, <3>4, WriteSetsOne DEF IInv
    <3> QED
      BY <3>1, <3>2, <3>3, <3>5 DEF Real!Next, Real!DeleteValue, Real!SetValue, Real!vars
  <2>5. ASSUME NEW f \in Texts, MoveInstall(f) PROVE Real!Next
    <3>1. folder' = f /\ UNCHANGED store
      BY <2>5 DEF MoveInstall
    <3>2. ks' = ks
      BY <3>1 DEF store, KeyExists
    <3>3. vs' = [x \in Keys \X Names |-> IF x \in FolderNames THEN f ELSE vs[x]]
      BY <3>1 DEF store, ValueGet, Values
    <3> QED
      BY <3>1, <3>2, <3>3 DEF Real!Next, Real!Move
  <2>6. ASSUME NEW p \in Procs, NEW k \in Keys, Open(p, k) \/ CreateLooks(p, k)
        PROVE  UNCHANGED <<store, folder>>
    BY <2>6 DEF Open, CreateLooks
  <2>7. ASSUME NEW p \in Procs, NEW n \in Names, DeleteLooks(p, n)
        PROVE  UNCHANGED <<store, folder>>
    BY <2>7 DEF DeleteLooks
  <2>8. ASSUME NEW p \in Procs, Close(p) \/ Exit(p) PROVE UNCHANGED <<store, folder>>
    BY <2>8 DEF Close, Exit
  <2>9. ASSUME UNCHANGED vars PROVE UNCHANGED <<store, folder>>
    BY <2>9 DEF vars
  <2> QED
    BY <2>1, <2>2, <2>3, <2>4, <2>5, <2>6, <2>7, <2>8, <2>9 DEF Next
<1> QED
  BY <1>1, <1>2, InvariantHolds, PTL DEF Spec, ActsAsRegistry, Real!Spec
=============================================================================
