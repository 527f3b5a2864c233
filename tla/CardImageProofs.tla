-------------------------- MODULE CardImageProofs --------------------------
(***************************************************************************)
(* Proofs about CardImage, for any programs, fields and values: the types, *)
(* that a save is never open to another program, that nothing acknowledged *)
(* is lost as long as sessions do not overlap, and that m_dirty does not   *)
(* lie for a lone writer.                                                  *)
(***************************************************************************)
EXTENDS CardImage, TLAPS

\* Where a call is in the file says something of the device.
CallsOpen ==
  \A p \in Procs :
    /\ pc[p] = "load" => file # Absent /\ device[p] # "none"
    /\ pc[p] \in {"save", "saving"} =>
         device[p] # "none" /\ (then[p] = "ready" => device[p] = "ready")

\* The program has the card in hand: its session is open or being opened,
\* or it has something to save.
Busy(p) == device[p] = "ready" \/ pc[p] = "load" \/ dirty[p]

\* Sessions exclude each other.
OneBusy == \A p, q \in Procs : Busy(p) /\ Busy(q) => p = q

\* Something to save is being saved, by the program whose session it is.
DirtySaves ==
  \A p \in Procs :
    /\ dirty[p] => device[p] = "ready" /\ pc[p] \in {"save", "saving"}
    /\ pc[p] = "saving" => dirty[p]

\* The card differs from what was reported only in what the call in progress
\* is about to report.
CallsTell ==
  \A p \in Procs :
    /\ pc[p] = "save" /\ ~dirty[p] => changing[p] = {}
    /\ device[p] = "ready" =>
         \A f \in Fields : mem[p][f] = acked[f] \/ (pc[p] # "idle" /\ f \in changing[p])

NoneSaving == \A p \in Procs : pc[p] # "saving"

\* Outside a save the file is what has been reported; before the first save
\* of all there is only the blank card.
FileTells ==
  /\ NoneSaving => file # Empty /\ \A f \in Fields : OnDisk(f) = acked[f]
  /\ file = Absent => \A p \in Procs : device[p] = "made" => mem[p] = Blank

Calm == OneBusy /\ DirtySaves /\ CallsTell /\ FileTells

\* The inductive invariant.
IInv == TypeOK /\ CallsOpen /\ SavesAlone /\ (calm => Calm)

-----------------------------------------------------------------------------
\* A blank card is a card.
LEMMA BlankTyped == Blank \in Images
BY ImageAssumption DEF Blank, Images

\* The end of a call keeps the types (EndSave, in three actions).
LEMMA EndTyped ==
  ASSUME TypeOK, NEW p \in Procs, EndSave(p)
  PROVE  /\ device' \in [Procs -> {"none", "made", "ready"}]
         /\ mem' \in [Procs -> Images]
         /\ pc' \in [Procs -> {"idle", "load", "save", "saving"}]
         /\ then' \in [Procs -> {"none", "made", "ready"}]
         /\ changing' \in [Procs -> SUBSET Fields]
         /\ acked' \in Images /\ writers' \subseteq Procs /\ calm' \in BOOLEAN
<1>1. acked' \in Images
  BY DEF TypeOK, EndSave, Images
<1> QED
  BY <1>1 DEF TypeOK, EndSave

\* Each step keeps the types; a load that is under way has found the file.
LEMMA StepKeepsTypes ==
  ASSUME TypeOK, CallsOpen, [Next]_vars
  PROVE  TypeOK'
<1> USE DEF TypeOK
<1>1. ASSUME NEW p \in Procs, Create(p) PROVE TypeOK'
  BY <1>1, BlankTyped DEF Create, history
<1>2. ASSUME NEW p \in Procs, InitializeBlind(p) \/ Initialize(p) PROVE TypeOK'
  BY <1>2 DEF InitializeBlind, Initialize, OpenSession
<1>3. ASSUME NEW p \in Procs, Load(p) PROVE TypeOK'
  BY <1>3 DEF Load, CallsOpen, history
<1>4. ASSUME NEW p \in Procs, NEW f \in Fields, NEW v \in Vals, Write(p, f, v)
      PROVE  TypeOK'
  <2>1. mem' \in [Procs -> Images]
    BY <1>4 DEF Write, Images
  <2> QED
    BY <1>4, <2>1 DEF Write, BeginSave
<1>5. ASSUME NEW p \in Procs, Format(p) PROVE TypeOK'
  BY <1>5, BlankTyped DEF Format, BeginSave
<1>6. ASSUME NEW p \in Procs, Shutdown(p) \/ Release(p) PROVE TypeOK'
  BY <1>6 DEF Shutdown, Release, BeginSave
<1>7. ASSUME NEW p \in Procs, SaveNothing(p) \/ SaveRefused(p) PROVE TypeOK'
  BY <1>7, EndTyped DEF SaveNothing, SaveRefused
<1>8. ASSUME NEW p \in Procs, Truncate(p) PROVE TypeOK'
  BY <1>8 DEF Truncate, history
<1>9. ASSUME NEW p \in Procs, WriteOut(p) PROVE TypeOK'
  BY <1>9, EndTyped DEF WriteOut
<1>10. ASSUME NEW p \in Procs, Kill(p) PROVE TypeOK'
  BY <1>10 DEF Kill
<1>11. CASE UNCHANGED vars
  BY <1>11 DEF vars, history
<1> QED
  BY <1>1, <1>2, <1>3, <1>4, <1>5, <1>6, <1>7, <1>8, <1>9, <1>10, <1>11 DEF Next

\* Each step keeps what a call in the file says of the device.
LEMMA StepKeepsOpen ==
  ASSUME TypeOK, CallsOpen, [Next]_vars
  PROVE  CallsOpen'
<1> USE DEF TypeOK, CallsOpen
<1>1. ASSUME NEW p \in Procs, Create(p) \/ Kill(p) PROVE CallsOpen'
  BY <1>1 DEF Create, Kill, history
<1>2. ASSUME NEW p \in Procs, InitializeBlind(p) \/ Initialize(p) \/ Load(p)
      PROVE  CallsOpen'
  BY <1>2 DEF InitializeBlind, Initialize, Load, OpenSession, history
<1>3. ASSUME NEW p \in Procs, NEW s \in {"none", "made", "ready"}, NEW fs, BeginSave(p, s, fs),
             device[p] # "none", s = "ready" => device[p] = "ready"
      PROVE  CallsOpen'
  BY <1>3 DEF BeginSave
<1>4. ASSUME NEW p \in Procs, SaveNothing(p) \/ SaveRefused(p) PROVE CallsOpen'
  BY <1>4 DEF SaveNothing, SaveRefused, EndSave
<1>5. ASSUME NEW p \in Procs, Truncate(p) PROVE CallsOpen'
  BY <1>5, ImageAssumption DEF Truncate, history
<1>6. ASSUME NEW p \in Procs, WriteOut(p) PROVE CallsOpen'
  BY <1>6, ImageAssumption DEF WriteOut, EndSave, Images
<1>7. CASE UNCHANGED vars
  BY <1>7 DEF vars, history
<1> QED
  BY <1>1, <1>2, <1>3, <1>4, <1>5, <1>6, <1>7
  DEF Next, Write, Format, Shutdown, Release

\* Each step keeps a save to its program: the share modes refuse the others.
LEMMA StepKeepsAlone ==
  ASSUME TypeOK, SavesAlone, [Next]_vars
  PROVE  SavesAlone'
<1> USE DEF TypeOK, SavesAlone
<1>1. ASSUME NEW p \in Procs, Initialize(p) PROVE SavesAlone'
  BY <1>1 DEF Initialize, Saving
<1>2. ASSUME NEW p \in Procs, Truncate(p) PROVE SavesAlone'
  BY <1>2 DEF Truncate, Saving, Loading
<1>3. ASSUME NEW p \in Procs, Create(p) \/ InitializeBlind(p) \/ Load(p) \/ Kill(p)
      PROVE  SavesAlone'
  BY <1>3 DEF Create, InitializeBlind, Load, Kill
<1>4. ASSUME NEW p \in Procs, NEW s, NEW fs, BeginSave(p, s, fs) PROVE SavesAlone'
  BY <1>4 DEF BeginSave
<1>5. ASSUME NEW p \in Procs, EndSave(p) PROVE SavesAlone'
  BY <1>5 DEF EndSave
<1>6. CASE UNCHANGED vars
  BY <1>6 DEF vars
<1> QED
  BY <1>1, <1>2, <1>3, <1>4, <1>5, <1>6
  DEF Next, Write, Format, Shutdown, Release, SaveNothing, SaveRefused, WriteOut

-----------------------------------------------------------------------------
(* What holds as long as the history is calm, step by step.                *)

\* While a program has the card in hand no other saves.
LEMMA NoOther ==
  ASSUME TypeOK, Calm, NEW p \in Procs, Busy(p), NEW q \in Procs \ {p}
  PROVE  ~Busy(q) /\ pc[q] # "saving"
BY DEF Calm, OneBusy, DirtySaves, Busy

\* The constructor's blank card (Create).
LEMMA CalmCreate ==
  ASSUME TypeOK, Calm, NEW p \in Procs, Create(p)
  PROVE  Calm'
<1> USE DEF TypeOK, Create, history
<1>1. OneBusy'
  BY DEF Calm, OneBusy, Busy
<1>2. DirtySaves' /\ CallsTell'
  BY DEF Calm, DirtySaves, CallsTell
<1>3. FileTells'
  BY DEF Calm, FileTells, NoneSaving, OnDisk
<1> QED
  BY <1>1, <1>2, <1>3 DEF Calm

\* A session opens with no file, or opens the file: nobody else has one.
LEMMA CalmInitialize ==
  ASSUME TypeOK, Calm, NEW p \in Procs, InitializeBlind(p) \/ Initialize(p), calm'
  PROVE  Calm'
<1> USE DEF TypeOK
<1>1. \A q \in Procs : ~Busy(q) /\ pc[q] = "idle"
  BY DEF InitializeBlind, Initialize, OpenSession, Busy, Calm, DirtySaves
<1>2. NoneSaving /\ (\A f \in Fields : OnDisk(f) = acked[f])
  BY <1>1 DEF NoneSaving, Calm, FileTells
<1>3. OneBusy' /\ DirtySaves'
  BY <1>1 DEF InitializeBlind, Initialize, OneBusy, DirtySaves, Busy
<1>4. CallsTell'
  <2>1. CASE InitializeBlind(p)
    <3>1. file = Absent /\ mem[p] = Blank
      BY <1>1, <2>1 DEF InitializeBlind, Saving, Calm, FileTells
    <3>2. \A f \in Fields : mem[p][f] = acked[f]
      BY <1>2, <3>1 DEF Blank, OnDisk
    <3> QED
      BY <1>1, <2>1, <3>2 DEF InitializeBlind, OpenSession, CallsTell, Calm, Busy
  <2>2. CASE Initialize(p)
    BY <1>1, <2>2 DEF Initialize, OpenSession, CallsTell, Calm, Busy
  <2> QED
    BY <2>1, <2>2
<1>5. FileTells'
  BY DEF InitializeBlind, Initialize, OpenSession, Calm, FileTells, NoneSaving, OnDisk
<1> QED
  BY <1>3, <1>4, <1>5 DEF Calm

\* The load finds what was reported, and no file half saved.
LEMMA CalmLoad ==
  ASSUME TypeOK, CallsOpen, Calm, NEW p \in Procs, Load(p)
  PROVE  Calm'
<1> USE DEF TypeOK, Load, history
<1>1. Busy(p)
  BY DEF Busy
<1>2. \A q \in Procs \ {p} : ~Busy(q) /\ pc[q] # "saving"
  BY <1>1, NoOther
<1>3. file \in Images /\ file # Empty /\ \A f \in Fields : file[f] = acked[f]
  BY <1>2 DEF NoneSaving, Calm, FileTells, OnDisk, CallsOpen
<1>4. OneBusy' /\ DirtySaves'
  <2>1. \A q \in Procs \ {p} : ~Busy(q)'
    BY <1>2 DEF Busy
  <2>2. DirtySaves'
    BY DEF Calm, DirtySaves
  <2> QED
    BY <2>1, <2>2 DEF OneBusy
<1>5. CallsTell'
  <2>1. mem' = [mem EXCEPT ![p] = file] /\ UNCHANGED <<dirty, changing, acked>>
    BY <1>3
  <2>2. \A q \in Procs \ {p} : device'[q] # "ready" /\ pc'[q] = pc[q]
    BY <1>2 DEF Busy
  <2> QED
    BY <1>3, <2>1, <2>2 DEF Calm, CallsTell
<1>6. FileTells'
  BY <1>2, <1>3, ImageAssumption DEF Calm, FileTells, NoneSaving, OnDisk, Images
<1> QED
  BY <1>4, <1>5, <1>6 DEF Calm

\* A write or a format changes what it is about to report, and will save it.
LEMMA CalmChange ==
  ASSUME TypeOK, Calm, NEW p \in Procs, NEW fs \in SUBSET Fields,
         device[p] = "ready", BeginSave(p, "ready", fs), mem' \in [Procs -> Images],
         \A q \in Procs \ {p} : mem'[q] = mem[q],
         \A f \in Fields \ fs : mem'[p][f] = mem[p][f],
         dirty' = [dirty EXCEPT ![p] = TRUE]
  PROVE  Calm'
<1> USE DEF TypeOK, BeginSave
<1>1. Busy(p)
  BY DEF Busy
<1>2. \A q \in Procs \ {p} : ~Busy(q) /\ pc[q] # "saving"
  BY <1>1, NoOther
<1>3. OneBusy' /\ DirtySaves'
  BY <1>1, <1>2 DEF Calm, OneBusy, DirtySaves, Busy
<1>4. CallsTell'
  BY <1>2 DEF Calm, CallsTell, Busy
<1>5. FileTells'
  BY <1>2 DEF Calm, FileTells, NoneSaving, OnDisk
<1> QED
  BY <1>3, <1>4, <1>5 DEF Calm

\* A shutdown or a release has nothing to save (SaveImage: "if (!m_dirty)").
LEMMA CalmClose ==
  ASSUME TypeOK, Calm, NEW p \in Procs, NEW s, BeginSave(p, s, {}), UNCHANGED <<mem, dirty>>
  PROVE  Calm'
<1> USE DEF TypeOK, BeginSave
<1>1. OneBusy' /\ DirtySaves'
  BY DEF Calm, OneBusy, DirtySaves, Busy
<1>2. CallsTell'
  BY DEF Calm, CallsTell
<1>3. FileTells'
  BY DEF Calm, FileTells, NoneSaving, OnDisk
<1> QED
  BY <1>1, <1>2, <1>3 DEF Calm

\* A call with nothing to save reports nothing new.
LEMMA CalmSaveNothing ==
  ASSUME TypeOK, CallsOpen, Calm, NEW p \in Procs, SaveNothing(p)
  PROVE  Calm'
<1> USE DEF TypeOK, SaveNothing, EndSave
<1>1. changing[p] = {} /\ acked' = acked
  BY DEF Calm, CallsTell, Images
<1>2. OneBusy' /\ DirtySaves'
  BY DEF Calm, OneBusy, DirtySaves, Busy, CallsOpen
<1>3. CallsTell'
  BY <1>1 DEF Calm, CallsTell, CallsOpen
<1>4. ASSUME file = Absent, device[p] = "ready" PROVE mem[p] = Blank
  <2>1. \A q \in Procs : pc[q] # "saving"
    BY <1>4, NoOther DEF Busy
  <2>2. \A f \in Fields : mem[p][f] = Zero
    BY <1>1, <1>4, <2>1 DEF Calm, CallsTell, FileTells, NoneSaving, OnDisk
  <2> QED
    BY <2>2 DEF Blank, Images
<1>5. FileTells'
  BY <1>1, <1>4 DEF Calm, FileTells, NoneSaving, OnDisk, CallsOpen
<1> QED
  BY <1>2, <1>3, <1>5 DEF Calm

\* Nobody refuses a save: whoever could is in a session, too.
LEMMA CalmNoRefusal ==
  ASSUME TypeOK, Calm, NEW p \in Procs, SaveRefused(p)
  PROVE  FALSE
BY NoOther DEF SaveRefused, Saving, Loading, Busy

\* The file is truncated ...
LEMMA CalmTruncate ==
  ASSUME TypeOK, Calm, NEW p \in Procs, Truncate(p)
  PROVE  Calm'
<1> USE DEF TypeOK, Truncate, history
<1>1. OneBusy' /\ DirtySaves'
  BY DEF Calm, OneBusy, DirtySaves, Busy
<1>2. CallsTell'
  BY DEF Calm, CallsTell
<1>3. FileTells'
  BY ImageAssumption DEF FileTells, NoneSaving
<1> QED
  BY <1>1, <1>2, <1>3 DEF Calm

\* ... and written with the whole card, of which the call then reports.
LEMMA CalmWriteOut ==
  ASSUME TypeOK, CallsOpen, Calm, NEW p \in Procs, WriteOut(p)
  PROVE  Calm'
<1> USE DEF TypeOK, WriteOut, EndSave
<1>1. dirty[p] /\ device[p] = "ready" /\ Busy(p)
  BY DEF Calm, DirtySaves, Busy
<1>2. \A q \in Procs \ {p} : ~Busy(q) /\ pc[q] # "saving"
  BY <1>1, NoOther
<1>3. \A f \in Fields : acked'[f] = mem[p][f]
  BY <1>1 DEF Calm, CallsTell
<1>4. file' \in Images /\ file' # Empty /\ file' # Absent
  BY ImageAssumption DEF Images
<1>5. OneBusy' /\ DirtySaves'
  BY <1>1, <1>2 DEF Calm, OneBusy, DirtySaves, Busy, CallsOpen
<1>6. CallsTell'
  BY <1>2, <1>3 DEF Calm, CallsTell, Busy
<1>7. FileTells'
  BY <1>3, <1>4 DEF FileTells, OnDisk
<1> QED
  BY <1>5, <1>6, <1>7 DEF Calm

\* A program killed outside a save takes only unreported changes with it.
LEMMA CalmKill ==
  ASSUME TypeOK, Calm, NEW p \in Procs, Kill(p), calm'
  PROVE  Calm'
<1> USE DEF TypeOK, Kill
<1>1. pc[p] # "saving"
  OBVIOUS
<1>2. OneBusy' /\ DirtySaves'
  BY DEF Calm, OneBusy, DirtySaves, Busy
<1>3. CallsTell'
  BY DEF Calm, CallsTell
<1>4. FileTells'
  BY <1>1 DEF Calm, FileTells, NoneSaving, OnDisk
<1> QED
  BY <1>2, <1>3, <1>4 DEF Calm

-----------------------------------------------------------------------------
\* Each step keeps the invariant.
LEMMA StepKeeps == IInv /\ [Next]_vars => IInv'
<1> SUFFICES ASSUME IInv, [Next]_vars PROVE IInv'
  OBVIOUS
<1>1. TypeOK' /\ CallsOpen' /\ SavesAlone'
  BY StepKeepsTypes, StepKeepsOpen, StepKeepsAlone DEF IInv
<1>2. ASSUME calm' PROVE Calm'
  <2>1. calm /\ Calm
    BY <1>2 DEF IInv, TypeOK, Next, Create, InitializeBlind, Initialize, OpenSession, Load,
                Write, Format, Shutdown, Release, BeginSave, SaveNothing, SaveRefused,
                Truncate, WriteOut, EndSave, Kill, history, vars
  <2> USE <2>1 DEF IInv
  <2>2. ASSUME NEW p \in Procs, Create(p) PROVE Calm'
    BY <2>2, CalmCreate
  <2>3. ASSUME NEW p \in Procs, InitializeBlind(p) \/ Initialize(p) PROVE Calm'
    BY <1>2, <2>3, CalmInitialize
  <2>4. ASSUME NEW p \in Procs, Load(p) PROVE Calm'
    BY <2>4, CalmLoad
  <2>5. ASSUME NEW p \in Procs, NEW f \in Fields, NEW v \in Vals, Write(p, f, v) PROVE Calm'
    <3>1. mem' \in [Procs -> Images]
      BY <1>1 DEF TypeOK
    <3>2. /\ \A q \in Procs \ {p} : mem'[q] = mem[q]
          /\ \A g \in Fields \ {f} : mem'[p][g] = mem[p][g]
      BY <2>5 DEF Write, TypeOK, Images
    <3>3. /\ device[p] = "ready" /\ BeginSave(p, "ready", {f})
          /\ dirty' = [dirty EXCEPT ![p] = TRUE] /\ {f} \in SUBSET Fields
      BY <2>5 DEF Write
    <3> QED
      BY <3>1, <3>2, <3>3, CalmChange
  <2>6. ASSUME NEW p \in Procs, Format(p) PROVE Calm'
    <3>1. mem' \in [Procs -> Images]
      BY <1>1 DEF TypeOK
    <3>2. \A q \in Procs \ {p} : mem'[q] = mem[q]
      BY <2>6 DEF Format, TypeOK
    <3> QED
      BY <2>6, <3>1, <3>2, CalmChange DEF Format
  <2>7. ASSUME NEW p \in Procs, Shutdown(p) \/ Release(p) PROVE Calm'
    BY <2>7, CalmClose DEF Shutdown, Release
  <2>8. ASSUME NEW p \in Procs, SaveNothing(p) \/ SaveRefused(p) PROVE Calm'
    BY <2>8, CalmSaveNothing, CalmNoRefusal
  <2>9. ASSUME NEW p \in Procs, Truncate(p) \/ WriteOut(p) PROVE Calm'
    BY <2>9, CalmTruncate, CalmWriteOut
  <2>10. ASSUME NEW p \in Procs, Kill(p) PROVE Calm'
    BY <1>2, <2>10, CalmKill
  <2>11. CASE UNCHANGED vars
    BY <2>11 DEF vars, history, Calm, OneBusy, Busy, DirtySaves, CallsTell, FileTells,
                 NoneSaving, OnDisk
  <2> QED
    BY <2>2, <2>3, <2>4, <2>5, <2>6, <2>7, <2>8, <2>9, <2>10, <2>11 DEF Next
<1> QED
  BY <1>1, <1>2 DEF IInv

\* With no card file and no program the invariant holds.
LEMMA InitHolds == Init => IInv
<1> SUFFICES ASSUME Init PROVE IInv
  OBVIOUS
<1>1. TypeOK
  BY BlankTyped DEF Init, TypeOK
<1>2. CallsOpen /\ SavesAlone
  BY DEF Init, CallsOpen, SavesAlone
<1>3. OneBusy /\ DirtySaves /\ CallsTell
  BY DEF Init, OneBusy, Busy, DirtySaves, CallsTell
<1>4. FileTells
  BY ImageAssumption DEF Init, FileTells, NoneSaving, OnDisk, Blank
<1> QED
  BY <1>1, <1>2, <1>3, <1>4 DEF IInv, Calm

\* The invariant holds throughout.
LEMMA InvariantHolds == Spec => []IInv
<1> QED
  BY InitHolds, StepKeeps, PTL DEF Spec

\* Every variable keeps its type: no load ever reads a file that is not there.
THEOREM TypeCorrect == Spec => []TypeOK
<1>1. IInv => TypeOK
  BY DEF IInv
<1> QED
  BY <1>1, InvariantHolds, PTL

\* However sessions overlap, no program has the file open between another's
\* truncation and its write (LoadImage, SaveImage: share modes).
THEOREM SavesAreAlone == Spec => []SavesAlone
<1>1. IInv => SavesAlone
  BY DEF IInv
<1> QED
  BY <1>1, InvariantHolds, PTL

\* As long as sessions have not overlapped, and no program was killed inside
\* a save, every acknowledged write is in the file between the calls.
THEOREM NothingIsLost == Spec => []NothingLost
<1>1. IInv => NothingLost
  BY DEF IInv, Calm, FileTells, NoneSaving, NothingLost
<1> QED
  BY <1>1, InvariantHolds, PTL

\* ... and an open session has in hand what was last written by any program.
THEOREM SessionsReadLatest == Spec => []SessionReadsLatest
<1>1. IInv => SessionReadsLatest
  <2> SUFFICES ASSUME IInv, calm, NEW p \in Procs, device[p] = "ready", pc[p] = "idle"
               PROVE  mem[p] = acked
    BY DEF SessionReadsLatest
  <2>1. \A f \in Fields : mem[p][f] = acked[f]
    BY DEF IInv, Calm, CallsTell
  <2> QED
    BY <2>1 DEF IInv, TypeOK, Images
<1> QED
  BY <1>1, InvariantHolds, PTL

-----------------------------------------------------------------------------
(* The lone writer, whose saves may be refused and who may be killed.      *)

\* Only a program that has written has something to save.
DirtyWrote ==
  \A p \in Procs :
    /\ dirty[p] => p \in writers
    /\ pc[p] = "saving" => dirty[p]

\* With nothing to save, the writer's card is the file's.
WriterTells ==
  \A p \in Procs :
    writers \subseteq {p} /\ device[p] # "none" /\ ~dirty[p] =>
      /\ device[p] = "ready" => \A f \in Fields : OnDisk(f) = mem[p][f]
      /\ file \in {Absent, Empty} => mem[p] = Blank

\* The inductive invariant of CleanMeansSaved: sessions may overlap.
WInv == TypeOK /\ CallsOpen /\ DirtyWrote /\ WriterTells

\* Only writers have something to save, after each step too.
LEMMA StepKeepsWrote ==
  ASSUME TypeOK, DirtyWrote, [Next]_vars
  PROVE  DirtyWrote'
<1> USE DEF TypeOK, DirtyWrote
<1>1. ASSUME NEW p \in Procs, Create(p) \/ InitializeBlind(p) \/ Initialize(p) \/ Load(p)
      PROVE  DirtyWrote'
  BY <1>1 DEF Create, InitializeBlind, Initialize, OpenSession, Load, history
<1>2. ASSUME NEW p \in Procs, NEW s, NEW fs, BeginSave(p, s, fs),
             dirty' = dirty \/ (dirty' = [dirty EXCEPT ![p] = TRUE] /\ fs # {})
      PROVE  DirtyWrote'
  BY <1>2 DEF BeginSave
<1>3. ASSUME NEW p \in Procs, Format(p) PROVE DirtyWrote'
  BY <1>2, <1>3, ImageAssumption DEF Format
<1>4. ASSUME NEW p \in Procs, SaveNothing(p) \/ SaveRefused(p) \/ WriteOut(p)
      PROVE  DirtyWrote'
  BY <1>4 DEF SaveNothing, SaveRefused, WriteOut, EndSave
<1>5. ASSUME NEW p \in Procs, Truncate(p) \/ Kill(p) PROVE DirtyWrote'
  BY <1>5 DEF Truncate, Kill, history
<1>6. CASE UNCHANGED vars
  BY <1>6 DEF vars, history
<1> QED
  BY <1>1, <1>2, <1>3, <1>4, <1>5, <1>6 DEF Next, Write, Shutdown, Release

\* While the writer's card is the only one that is ever saved, it is the
\* file's whenever it has nothing to save.
LEMMA StepKeepsWriter ==
  ASSUME TypeOK, CallsOpen, DirtyWrote, WriterTells, [Next]_vars
  PROVE  WriterTells'
<1> USE DEF TypeOK, WriterTells
<1>1. ASSUME NEW p \in Procs, Create(p) \/ Kill(p) PROVE WriterTells'
  BY <1>1 DEF Create, Kill, history, OnDisk
<1>2. ASSUME NEW p \in Procs, InitializeBlind(p) PROVE WriterTells'
  <2>1. writers \subseteq {p} => file = Absent
    BY <1>2 DEF InitializeBlind, Saving, DirtyWrote
  <2>2. \A f \in Fields : Blank[f] = Zero
    BY DEF Blank
  <2> QED
    BY <1>2, <2>1, <2>2 DEF InitializeBlind, OpenSession, OnDisk
<1>3. ASSUME NEW p \in Procs, Initialize(p) PROVE WriterTells'
  BY <1>3 DEF Initialize, OpenSession, OnDisk
<1>4. ASSUME NEW p \in Procs, Load(p) PROVE WriterTells'
  <2>1. \A f \in Fields : Blank[f] = Zero
    BY DEF Blank
  <2>2. file # Absent /\ device[p] # "none"
    BY <1>4 DEF Load, CallsOpen
  <2>3. /\ device' = [device EXCEPT ![p] = "ready"]
        /\ UNCHANGED <<file, dirty, writers>>
    BY <1>4 DEF Load, history
  <2>4. CASE file = Empty
    <3>1. mem' = mem
      BY <1>4, <2>4 DEF Load
    <3>2. \A f \in Fields : OnDisk(f)' = Zero /\ OnDisk(f) = Zero
      BY <2>3, <2>4 DEF OnDisk
    <3> QED
      BY <2>1, <2>2, <2>3, <2>4, <3>1, <3>2
  <2>5. CASE file # Empty
    <3>1. mem' = [mem EXCEPT ![p] = file] /\ file' \notin {Absent, Empty}
      BY <1>4, <2>2, <2>3, <2>5 DEF Load
    <3>2. \A f \in Fields : OnDisk(f)' = file[f] /\ OnDisk(f) = file[f]
      BY <2>2, <2>3, <2>5 DEF OnDisk
    <3> QED
      BY <2>3, <3>1, <3>2
  <2> QED
    BY <2>4, <2>5
<1>5. ASSUME NEW p \in Procs, NEW f \in Fields, NEW v \in Vals, Write(p, f, v)
      PROVE  WriterTells'
  BY <1>5 DEF Write, BeginSave, OnDisk
<1>6. ASSUME NEW p \in Procs, Format(p) PROVE WriterTells'
  BY <1>6, ImageAssumption DEF Format, BeginSave, OnDisk
<1>7. ASSUME NEW p \in Procs, Shutdown(p) \/ Release(p) PROVE WriterTells'
  BY <1>7 DEF Shutdown, Release, BeginSave, OnDisk
<1>8. ASSUME NEW p \in Procs, SaveNothing(p) \/ SaveRefused(p) PROVE WriterTells'
  BY <1>8 DEF SaveNothing, SaveRefused, EndSave, OnDisk, CallsOpen
<1>9. ASSUME NEW p \in Procs, Truncate(p) PROVE WriterTells'
  BY <1>9 DEF Truncate, history, DirtyWrote
<1>10. ASSUME NEW p \in Procs, WriteOut(p) PROVE WriterTells'
  <2>1. p \in writers /\ file' \notin {Absent, Empty}
    BY <1>10, ImageAssumption DEF WriteOut, DirtyWrote, Images
  <2> QED
    BY <1>10, <2>1 DEF WriteOut, EndSave, OnDisk
<1>11. CASE UNCHANGED vars
  BY <1>11 DEF vars, history, OnDisk
<1> QED
  BY <1>1, <1>2, <1>3, <1>4, <1>5, <1>6, <1>7, <1>8, <1>9, <1>10, <1>11 DEF Next

\* m_dirty is honest for a lone writer, whatever refused its saves or killed
\* it, and however the other program's sessions overlap with its own.
THEOREM DirtyIsHonest == Spec => []CleanMeansSaved
<1>1. Init => WInv
  <2> SUFFICES ASSUME Init PROVE WInv
    OBVIOUS
  <2>1. IInv
    BY InitHolds
  <2> QED
    BY <2>1 DEF Init, WInv, IInv, DirtyWrote, WriterTells
<1>2. WInv /\ [Next]_vars => WInv'
  BY StepKeepsTypes, StepKeepsOpen, StepKeepsWrote, StepKeepsWriter DEF WInv
<1>3. WInv => CleanMeansSaved
  BY DEF WInv, WriterTells, CleanMeansSaved
<1> QED
  BY <1>1, <1>2, <1>3, PTL DEF Spec
=============================================================================
