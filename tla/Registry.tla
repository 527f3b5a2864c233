------------------------------ MODULE Registry ------------------------------
(***************************************************************************)
(* What the games may expect of the registry keys that GvrPrivReg makes    *)
(* private: keys that are created with those above them and never go, and  *)
(* values that stay as they were last set or deleted, by whichever program *)
(* and across restarts - except for the folder values, which are those of  *)
(* the install folder whatever a program stores in them.                   *)
(***************************************************************************)
CONSTANTS
  Keys, Names,
  Under,       \* Under[k]: the keys at or below k
  Texts,       \* what a program may store
  None,        \* no value
  FolderNames  \* <<key, name>> of the values computed from the install folder

VARIABLES
  keys,        \* keys there are
  value,       \* of each <<key, name>>
  folder       \* the install folder

vars == <<keys, value, folder>>

CreateKey(k) ==
  /\ keys' = keys \cup {a \in Keys : k \in Under[a]}
  /\ UNCHANGED <<value, folder>>

SetValue(k, n, t) ==
  /\ k \in keys /\ <<k, n>> \notin FolderNames
  /\ value' = [value EXCEPT ![<<k, n>>] = t]
  /\ UNCHANGED <<keys, folder>>

DeleteValue(k, n) == SetValue(k, n, None)

\* The install is moved: the folder values follow.
Move(f) ==
  /\ folder' = f
  /\ value' = [x \in Keys \X Names |-> IF x \in FolderNames THEN f ELSE value[x]]
  /\ UNCHANGED keys

Next ==
  \/ \E k \in Keys : CreateKey(k)
  \/ \E k \in Keys, n \in Names, t \in Texts : SetValue(k, n, t)
  \/ \E k \in Keys, n \in Names : DeleteValue(k, n)
  \/ \E f \in Texts : Move(f)

\* Whatever the keys and values of a new install are.
Init == \A x \in FolderNames : value[x] = folder

Spec == Init /\ [][Next]_vars
=============================================================================
