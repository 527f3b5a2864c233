----------------------------- MODULE SlotUsers -----------------------------
(***************************************************************************)
(* What the card slot's two kinds of users may do to each other: the       *)
(* programs, each with the card DLL, and the watcher (GvrCardKey.exe).     *)
(* All they share is the named event, and that it lives as long as one of  *)
(* them has a handle.  CardSlot is about the programs and takes the        *)
(* watcher as it is here; CardKey is about the watcher and takes the       *)
(* programs as they are here.  Each is shown to keep to its own half.      *)
(***************************************************************************)
CONSTANT Programs

VARIABLES
  slot,      \* the named event: signalled = the card is in
  up,        \* the programs running
  watcher    \* "down", "idle", or the change it is about to make

vars == <<slot, up, watcher>>

Init == slot = FALSE /\ up = {} /\ watcher = "down"

-----------------------------------------------------------------------------
(* The programs.                                                           *)

Start(p) == p \notin up /\ up' = up \cup {p} /\ UNCHANGED <<slot, watcher>>

\* The event goes with its last handle, and the card with it.
Exit(p) ==
  /\ p \in up /\ up' = up \ {p}
  /\ slot' = (slot /\ (up' # {} \/ watcher # "down"))
  /\ UNCHANGED watcher

\* A card DLL puts the card in or pulls it out, by its own rules.
Flip == up # {} /\ slot' = ~slot /\ UNCHANGED <<up, watcher>>

ProgramStep == Flip \/ \E p \in Programs : Start(p) \/ Exit(p)

-----------------------------------------------------------------------------
(* The watcher.                                                            *)

Come == watcher = "down" /\ watcher' = "idle" /\ UNCHANGED <<slot, up>>

\* It decides on the slot as it finds it...
Decide ==
  /\ watcher = "idle" /\ watcher' = (IF slot THEN "reset" ELSE "set")
  /\ UNCHANGED <<slot, up>>

\* ... and moves the card some time later, as decided.
Move ==
  /\ watcher \in {"set", "reset"} /\ watcher' = "idle"
  /\ slot' = (watcher = "set")
  /\ UNCHANGED up

Go ==
  /\ watcher # "down" /\ watcher' = "down"
  /\ slot' = (slot /\ up # {})
  /\ UNCHANGED up

WatcherStep == Come \/ Decide \/ Move \/ Go

-----------------------------------------------------------------------------
Next == ProgramStep \/ WatcherStep

Spec == Init /\ [][Next]_vars
=============================================================================
