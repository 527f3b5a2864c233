------------------------------ MODULE PrivReg ------------------------------
(***************************************************************************)
(* The private registry (GvrPrivReg.cpp, with NfsuPrivReg.cpp's settings): *)
(* calls on the game's own keys are answered from one file in the install  *)
(* folder and a table of defaults.  The file has a section per key with a  *)
(* line per value; <deleted> marks a default that was deleted, and a key   *)
(* without values has a line of its own.  A default with %ROOT% is         *)
(* computed from the install folder each time.                             *)
(*                                                                         *)
(* Every program that has the hooks works on the file itself; each read or *)
(* write of it is one step (Windows' profile functions lock the file), and *)
(* a call that looks before it writes is two.  A program keeps one key     *)
(* open at a time and its threads do not overlap in here.  Texts of a      *)
(* program's own do not spell <deleted>.                                   *)
(***************************************************************************)
CONSTANTS
  Procs,         \* the programs with the hooks
  Keys, Names, Under,
  Texts,
  Defaults,      \* kDefaults with a name: <<key, name>> -> text, None if not there
  DefaultKeys,   \* the keys that kDefaults names
  FolderNames,   \* the defaults with %ROOT%
  AllKeysExist,  \* as in PrivRegConfig
  None, Missing, Deleted, Closed

Values == Keys \X Names

ASSUME RegAssumption ==
  /\ Under \in [Keys -> SUBSET Keys]
  /\ \A k \in Keys : k \in Under[k]
  /\ \A a, k \in Keys : k \in Under[a] => Under[k] \subseteq Under[a]
  /\ Defaults \in [Values -> Texts \cup {None}]
  /\ DefaultKeys \subseteq Keys /\ FolderNames \subseteq Values
  /\ \A k \in Keys, n \in Names :
       Defaults[<<k, n>>] # None \/ <<k, n>> \in FolderNames => k \in DefaultKeys
  /\ AllKeysExist \in BOOLEAN
  /\ None \notin Texts /\ Missing \notin Texts \cup {None}
  /\ Deleted \notin Texts \cup {None, Missing} /\ Closed \notin Keys

VARIABLES
  sections,   \* the sections of the file
  line,       \* of each value: its text in the file, Deleted or Missing
  folder,     \* g_root
  handle,     \* the key each program has open
  pc          \* a call between its look at the file and its write

store == <<sections, line>>
vars == <<store, folder, handle, pc>>

Idle == [op |-> "none"]

TypeOK ==
  /\ sections \subseteq Keys
  /\ line \in [Values -> Texts \cup {Deleted, Missing}]
  /\ folder \in Texts
  /\ handle \in [Procs -> Keys \cup {Closed}]
  /\ pc \in [Procs -> {Idle} \cup [op : {"create"}, key : Keys] \cup
                      [op : {"delete"}, name : Names]]

\* A new install: the file holds nothing of the game's.
Init ==
  /\ sections = {} /\ line = [x \in Values |-> Missing]
  /\ folder \in Texts
  /\ handle = [p \in Procs |-> Closed]
  /\ pc = [p \in Procs |-> Idle]

-----------------------------------------------------------------------------
(* What the file and the defaults say.                                     *)

KeyExists(k) == AllKeysExist \/ \E s \in sections \cup DefaultKeys : s \in Under[k]

\* Faulty variant: the file comes first.
ValueStored(x) ==
  IF line[x] = Deleted THEN None
  ELSE IF line[x] # Missing THEN line[x]
  ELSE IF x \in FolderNames THEN folder ELSE Defaults[x]

\* value_get
ValueGet(x) ==
  IF x \in FolderNames THEN folder
  ELSE IF line[x] = Deleted THEN None
  ELSE IF line[x] = Missing THEN Defaults[x] ELSE line[x]

\* Faulty variant: the deleted defaults are listed again.
NamesAgain(k) ==
  {n \in Names : line[<<k, n>>] \in Texts \/ Defaults[<<k, n>>] # None
                 \/ <<k, n>> \in FolderNames}

\* valuenames: what an enumeration of the values finds.
ValueNames(k) ==
  {n \in Names :
     \/ line[<<k, n>>] \in Texts
     \/ line[<<k, n>>] = Missing /\ (Defaults[<<k, n>>] # None \/ <<k, n>> \in FolderNames)}

\* subkeys: what an enumeration of the keys at or below k finds.
SubKeys(k) == {c \in Under[k] \ {k} : \E s \in sections \cup DefaultKeys : s \in Under[c]}

-----------------------------------------------------------------------------
(* The calls.                                                              *)

\* A key that is there is opened, by RegOpenKey or RegCreateKey.
Open(p, k) ==
  /\ pc[p] = Idle /\ handle[p] = Closed /\ KeyExists(k)
  /\ handle' = [handle EXCEPT ![p] = k]
  /\ UNCHANGED <<store, folder, pc>>

\* RegCreateKey finds that it is not there...
CreateLooks(p, k) ==
  /\ pc[p] = Idle /\ handle[p] = Closed /\ ~KeyExists(k)
  /\ pc' = [pc EXCEPT ![p] = [op |-> "create", key |-> k]]
  /\ UNCHANGED <<store, folder, handle>>

\* Faulty variant: the key is not written down.
CreateForgets(p) ==
  /\ pc[p].op = "create"
  /\ handle' = [handle EXCEPT ![p] = pc[p].key]
  /\ pc' = [pc EXCEPT ![p] = Idle]
  /\ UNCHANGED <<store, folder>>

\* ... and makes it, unless it has come up since.
CreateMakes(p) ==
  /\ pc[p].op = "create"
  /\ sections' = IF KeyExists(pc[p].key) THEN sections ELSE sections \cup {pc[p].key}
  /\ handle' = [handle EXCEPT ![p] = pc[p].key]
  /\ pc' = [pc EXCEPT ![p] = Idle]
  /\ UNCHANGED <<line, folder>>

Close(p) ==
  /\ pc[p] = Idle /\ handle[p] # Closed
  /\ handle' = [handle EXCEPT ![p] = Closed]
  /\ UNCHANGED <<store, folder, pc>>

WriteLine(k, n, t) ==
  /\ line' = [line EXCEPT ![<<k, n>>] = t]
  /\ sections' = IF t = Missing THEN sections ELSE sections \cup {k}

SetValue(p, n, t) ==
  /\ pc[p] = Idle /\ handle[p] # Closed
  /\ WriteLine(handle[p], n, t)
  /\ UNCHANGED <<folder, handle, pc>>

\* RegDeleteValue of a value that is there...
DeleteLooks(p, n) ==
  /\ pc[p] = Idle /\ handle[p] # Closed
  /\ ValueGet(<<handle[p], n>>) # None
  /\ pc' = [pc EXCEPT ![p] = [op |-> "delete", name |-> n]]
  /\ UNCHANGED <<store, folder, handle>>

\* Faulty variant: the line of a default is removed like any other.
DeleteRemoves(p) ==
  /\ pc[p].op = "delete"
  /\ WriteLine(handle[p], pc[p].name, Missing)
  /\ pc' = [pc EXCEPT ![p] = Idle]
  /\ UNCHANGED <<folder, handle>>

\* ... marks a default as deleted, and removes the line of any other.
DeleteMarks(p) ==
  LET x == <<handle[p], pc[p].name>> IN
  /\ pc[p].op = "delete"
  /\ WriteLine(handle[p], pc[p].name,
               IF Defaults[x] # None \/ x \in FolderNames THEN Deleted ELSE Missing)
  /\ pc' = [pc EXCEPT ![p] = Idle]
  /\ UNCHANGED <<folder, handle>>

\* The program ends, or is killed inside a call; the file stays.
Exit(p) ==
  /\ handle' = [handle EXCEPT ![p] = Closed]
  /\ pc' = [pc EXCEPT ![p] = Idle]
  /\ UNCHANGED <<store, folder>>

\* The install folder is moved, with the file in it, while nothing runs.
MoveInstall(f) ==
  /\ \A p \in Procs : pc[p] = Idle /\ handle[p] = Closed
  /\ folder' = f
  /\ UNCHANGED <<store, handle, pc>>

Next ==
  \/ \E p \in Procs :
       \/ \E k \in Keys : Open(p, k) \/ CreateLooks(p, k)
       \/ \E n \in Names : DeleteLooks(p, n) \/ \E t \in Texts : SetValue(p, n, t)
       \/ CreateMakes(p) \/ DeleteMarks(p) \/ Close(p) \/ Exit(p)
  \/ \E f \in Texts : MoveInstall(f)

Spec == Init /\ [][Next]_vars

-----------------------------------------------------------------------------
(* Properties.                                                             *)

\* A key that a program has open exists for every program (open_private,
\* with the key made or found by the other one in between).
OpenKeysExist ==
  \A p \in Procs :
    /\ handle[p] # Closed => KeyExists(handle[p])
    /\ pc[p].op = "delete" => handle[p] # Closed

\* An enumeration lists exactly the keys that can be opened, unless all can,
\* and exactly the values that a query finds, unless they are computed
\* (subkeys and key_exists, and valuenames and value_get, read the file each
\* in its own way).
EnumMatchesQuery ==
  /\ AllKeysExist \/ \A k \in Keys : SubKeys(k) = {c \in Under[k] \ {k} : KeyExists(c)}
  /\ \A k \in Keys :
       \A n \in ValueNames(k) \cup {m \in Names : ValueGet(<<k, m>>) # None} :
         <<k, n>> \notin FolderNames => n \in ValueNames(k) /\ ValueGet(<<k, n>>) # None

\* A value whose deletion has succeeded is not found, default or not, even
\* though the value was looked at before it was deleted (delete_value).
DeletedIsGone ==
  [][\A p \in Procs, k \in Keys, n \in Names :
       /\ pc[p] = [op |-> "delete", name |-> n] /\ pc'[p] = Idle
       /\ handle[p] = k /\ handle'[p] = k
       /\ <<k, n>> \notin FolderNames
       => ValueGet(<<k, n>>)' = None]_vars

\* The file and the defaults behave like one registry under both programs
\* and across their ends: the contract of Registry.
Real == INSTANCE Registry WITH
          keys <- {k \in Keys : KeyExists(k)},
          value <- [x \in Values |-> ValueGet(x)]
ActsAsRegistry == Real!Spec
=============================================================================
