----------------------------- MODULE CardImage -----------------------------
(***************************************************************************)
(* The 8 KB card of the emulated reader and the file that keeps it.  Each  *)
(* program holds the whole card in its own device object (m_card) and      *)
(* saves it whole: a Write copies into m_card, truncates the shared file   *)
(* and writes all of it.  Windows' share modes decide who may have the     *)
(* file open together: a save shares with nobody, a load with loads.       *)
(*                                                                         *)
(* The card is abstracted to a few fields, the ranges of offsets the       *)
(* programs read and write; a program uses one device at a time, from one  *)
(* thread.  Absent is a card file that does not exist, Empty one that was  *)
(* truncated and not written.  Device calls come in the facade's order:    *)
(* none before Initialize.                                                 *)
(***************************************************************************)
EXTENDS Integers

CONSTANTS
  Procs,      \* programs with a device
  Fields,     \* parts of the card
  Vals,       \* contents of a field; Zero is that of a blank card
  Zero,
  Absent, Empty

ASSUME ImageAssumption ==
  /\ Fields # {} /\ Zero \in Vals
  /\ Absent # Empty /\ {Absent, Empty} \cap [Fields -> Vals] = {}

VARIABLES
  file,     \* the card file
  device,   \* "none", "made" (constructed or shut down), "ready" (m_init)
  mem,      \* m_card
  dirty,    \* m_dirty
  pc,       \* the file operation a program is in
  then,     \* the device state that follows the save in progress
  changing, \* the fields the call in progress has changed
  acked,    \* history: what each field was last given by a Write or Format
            \* that has returned RC_OK
  writers,  \* history: the programs that have written
  calm      \* history: no two sessions have overlapped, and no program was
            \* killed inside a save

history == <<acked, writers, calm>>
vars == <<file, device, mem, dirty, pc, then, changing, history>>

Images == [Fields -> Vals]
Blank == [f \in Fields |-> Zero]

TypeOK ==
  /\ file \in Images \cup {Absent, Empty}
  /\ device \in [Procs -> {"none", "made", "ready"}]
  /\ mem \in [Procs -> Images]
  /\ dirty \in [Procs -> BOOLEAN]
  /\ pc \in [Procs -> {"idle", "load", "save", "saving"}]
  /\ then \in [Procs -> {"none", "made", "ready"}]
  /\ changing \in [Procs -> SUBSET Fields]
  /\ acked \in Images /\ writers \subseteq Procs /\ calm \in BOOLEAN

Init ==
  /\ file = Absent
  /\ device = [p \in Procs |-> "none"]
  /\ mem = [p \in Procs |-> Blank]
  /\ dirty = [p \in Procs |-> FALSE]
  /\ pc = [p \in Procs |-> "idle"]
  /\ then = [p \in Procs |-> "none"]
  /\ changing = [p \in Procs |-> {}]
  /\ acked = Blank /\ writers = {} /\ calm = TRUE

Saving(p) == \E q \in Procs \ {p} : pc[q] = "saving"
Loading(p) == \E q \in Procs \ {p} : pc[q] = "load"

OpenSession(p) ==
  /\ calm' = (calm /\ \A q \in Procs \ {p} : device[q] # "ready" /\ pc[q] = "idle")
  /\ UNCHANGED <<acked, writers>>

-----------------------------------------------------------------------------
\* CreateGVRStorageDeviceImp: the constructor blanks the card.
Create(p) ==
  /\ device[p] = "none" /\ pc[p] = "idle"
  /\ device' = [device EXCEPT ![p] = "made"]
  /\ mem' = [mem EXCEPT ![p] = Blank]
  /\ dirty' = [dirty EXCEPT ![p] = FALSE]
  /\ UNCHANGED <<file, pc, then, changing, history>>

\* Initialize, when the file cannot be opened - it is not there, or another
\* program is saving: the card stays as the object has it.
InitializeBlind(p) ==
  /\ device[p] = "made" /\ pc[p] = "idle"
  /\ file = Absent \/ Saving(p)
  /\ device' = [device EXCEPT ![p] = "ready"]
  /\ OpenSession(p)
  /\ UNCHANGED <<file, mem, dirty, pc, then, changing>>

\* Initialize opens the file for the load.
Initialize(p) ==
  /\ device[p] = "made" /\ pc[p] = "idle"
  /\ file # Absent /\ ~Saving(p)
  /\ pc' = [pc EXCEPT ![p] = "load"]
  /\ OpenSession(p)
  /\ UNCHANGED <<file, device, mem, dirty, then, changing>>

\* Faulty variant: a card once loaded is taken to be current.
LoadOnce(p) ==
  /\ pc[p] = "load"
  /\ mem' = [mem EXCEPT ![p] = IF file = Empty \/ @ # Blank THEN @ ELSE file]
  /\ device' = [device EXCEPT ![p] = "ready"]
  /\ pc' = [pc EXCEPT ![p] = "idle"]
  /\ UNCHANGED <<file, dirty, then, changing, history>>

\* The read of LoadImage: an empty file overwrites nothing of m_card.
Load(p) ==
  /\ pc[p] = "load"
  /\ mem' = [mem EXCEPT ![p] = IF file = Empty THEN @ ELSE file]
  /\ device' = [device EXCEPT ![p] = "ready"]
  /\ pc' = [pc EXCEPT ![p] = "idle"]
  /\ UNCHANGED <<file, dirty, then, changing, history>>

\* A device call that ends in SaveImage, leaving the device as s says; it
\* has changed the fields fs of m_card.
BeginSave(p, s, fs) ==
  /\ pc[p] = "idle"
  /\ changing' = [changing EXCEPT ![p] = fs]
  /\ pc' = [pc EXCEPT ![p] = "save"]
  /\ then' = [then EXCEPT ![p] = s]
  /\ writers' = (IF fs = {} THEN writers ELSE writers \cup {p})
  /\ UNCHANGED <<file, device, acked, calm>>

Write(p, f, v) ==
  /\ device[p] = "ready"
  /\ BeginSave(p, "ready", {f})
  /\ mem' = [mem EXCEPT ![p][f] = v]
  /\ dirty' = [dirty EXCEPT ![p] = TRUE]

\* Faulty variant: only Write marks the card as changed.
FormatClean(p) ==
  /\ device[p] = "ready"
  /\ BeginSave(p, "ready", Fields)
  /\ mem' = [mem EXCEPT ![p] = Blank]
  /\ UNCHANGED dirty

Format(p) ==
  /\ device[p] = "ready"
  /\ BeginSave(p, "ready", Fields)
  /\ mem' = [mem EXCEPT ![p] = Blank]
  /\ dirty' = [dirty EXCEPT ![p] = TRUE]

\* Shutdown clears m_init after its save.
Shutdown(p) ==
  /\ device[p] = "ready"
  /\ BeginSave(p, "made", {})
  /\ UNCHANGED <<mem, dirty>>

\* ReleaseGVRStorageDeviceImp: the destructor saves first.
Release(p) ==
  /\ device[p] # "none"
  /\ BeginSave(p, "none", {})
  /\ UNCHANGED <<mem, dirty>>

\* The end of a call that saved: it returns RC_OK, saved or not.
EndSave(p) ==
  /\ pc' = [pc EXCEPT ![p] = "idle"]
  /\ device' = [device EXCEPT ![p] = then[p]]
  /\ changing' = [changing EXCEPT ![p] = {}]
  /\ acked' = [f \in Fields |-> IF f \in changing[p] THEN mem[p][f] ELSE acked[f]]
  /\ UNCHANGED <<mem, then, writers, calm>>

\* SaveImage returns at once with nothing to save.
SaveNothing(p) ==
  /\ pc[p] = "save" /\ ~dirty[p]
  /\ EndSave(p)
  /\ UNCHANGED <<file, dirty>>

\* Faulty variant: a refused save clears m_dirty like a successful one.
SaveForgotten(p) ==
  /\ pc[p] = "save" /\ dirty[p] /\ (Saving(p) \/ Loading(p))
  /\ EndSave(p)
  /\ dirty' = [dirty EXCEPT ![p] = FALSE]
  /\ UNCHANGED file

\* The open is refused while another program has the file open.  The call
\* still succeeds; only m_dirty remembers.
SaveRefused(p) ==
  /\ pc[p] = "save" /\ dirty[p] /\ (Saving(p) \/ Loading(p))
  /\ EndSave(p)
  /\ UNCHANGED <<file, dirty>>

\* Faulty variant: the save lets readers in.
TruncateShared(p) ==
  /\ pc[p] = "save" /\ dirty[p] /\ ~Saving(p)
  /\ file' = Empty
  /\ pc' = [pc EXCEPT ![p] = "saving"]
  /\ UNCHANGED <<device, mem, dirty, then, changing, history>>

\* CREATE_ALWAYS truncates the file...
Truncate(p) ==
  /\ pc[p] = "save" /\ dirty[p] /\ ~Saving(p) /\ ~Loading(p)
  /\ file' = Empty
  /\ pc' = [pc EXCEPT ![p] = "saving"]
  /\ UNCHANGED <<device, mem, dirty, then, changing, history>>

\* ... and the whole card is written to it.
WriteOut(p) ==
  /\ pc[p] = "saving"
  /\ file' = mem[p]
  /\ dirty' = [dirty EXCEPT ![p] = FALSE]
  /\ EndSave(p)

\* The program is ended from outside, or crashes.
Kill(p) ==
  /\ device[p] # "none"
  /\ device' = [device EXCEPT ![p] = "none"]
  /\ pc' = [pc EXCEPT ![p] = "idle"]
  /\ dirty' = [dirty EXCEPT ![p] = FALSE]
  /\ changing' = [changing EXCEPT ![p] = {}]
  /\ calm' = (calm /\ pc[p] # "saving")
  /\ UNCHANGED <<file, mem, then, acked, writers>>

Next ==
  \E p \in Procs :
    \/ Create(p) \/ InitializeBlind(p) \/ Initialize(p) \/ Load(p)
    \/ \E f \in Fields, v \in Vals : Write(p, f, v)
    \/ Format(p) \/ Shutdown(p) \/ Release(p)
    \/ SaveNothing(p) \/ SaveRefused(p) \/ Truncate(p) \/ WriteOut(p)
    \/ Kill(p)

Spec == Init /\ [][Next]_vars

-----------------------------------------------------------------------------
(* Properties.                                                             *)

\* What a fresh load would find in a field.
OnDisk(f) == IF file \in {Absent, Empty} THEN Zero ELSE file[f]

\* As long as sessions have not overlapped, a program in a session reads what
\* was last written by either program: progress carries from the frontend
\* into a race and back (GvrCardEmu.cpp, DllMain, on the shared image).
SessionReadsLatest ==
  calm => \A p \in Procs : device[p] = "ready" /\ pc[p] = "idle" => mem[p] = acked

\* ... and between calls the file holds every acknowledged write, whoever
\* made it (GvrCardEmu.cpp, Write: "persist eagerly").
NothingLost ==
  calm /\ (\A p \in Procs : pc[p] = "idle") => \A f \in Fields : OnDisk(f) = acked[f]

\* m_dirty is honest: as long as one program has done all the writing, its
\* card and the file differ only while it knows that it has something to
\* save, whatever refused its saves or killed it before.
CleanMeansSaved ==
  \A p \in Procs :
    writers \subseteq {p} /\ device[p] = "ready" /\ pc[p] = "idle" /\ ~dirty[p]
      => \A f \in Fields : OnDisk(f) = mem[p][f]

\* However sessions overlap, no program has the file open between another's
\* truncation and its write: the share modes of LoadImage and SaveImage make
\* a save atomic for those that live.
SavesAlone ==
  \A p, q \in Procs : p # q /\ pc[p] = "saving" => pc[q] \notin {"load", "saving"}

=============================================================================
