----------------------------- MODULE PadProofs -----------------------------
(***************************************************************************)
(* Proofs about Pad, for any controls, settings and times: a press acts    *)
(* once, on whatever copy of the DLL and through whatever pad.             *)
(***************************************************************************)
EXTENDS Pad, TLAPS

Views == [ub : SUBSET Buttons, stick : Sticks]

-----------------------------------------------------------------------------
(* Types.                                                                  *)

LEMMA ReadingsTyped ==
  ASSUME TypeOK, NEW view \in Readings
  PROVE  view \in Views
BY PadAssumption DEF TypeOK, Readings, Live, Rest, Views

\* The cut-off bucket is within the wheel's range.
LEMMA LastBucket == QUANT * (End \div QUANT) \in 0..End
BY PadAssumption DEF PadAssumption

LEMMA TowardTyped ==
  ASSUME NEW n \in Int, NEW limit \in 0..End
  PROVE  Toward(n, limit) \in -End..End
BY PadAssumption DEF PadAssumption, Toward

LEMMA WheelTyped ==
  ASSUME TypeOK, NEW s \in Sticks
  PROVE  OwnWheel(s) \in -End..End /\ OemWheel(s) \in -End..End
<1> USE PadAssumption DEF PadAssumption
<1>1. /\ wheel \in -End..End /\ s \in Int /\ End \in Nat /\ QUANT \in Nat /\ STEP \in Nat
  BY DEF TypeOK
<1>2. Bucket(s) \in -End..End
  <2>1. (IF s < 0 THEN -1 ELSE 1) * QUANT * (Abs(s) \div QUANT) \in Int
    BY <1>1 DEF Abs
  <2> QED
    BY <2>1, LastBucket, TowardTyped DEF Bucket
<1>3. Quantised(s) \in -End..End
  BY <1>1, <1>2 DEF Quantised
<1>4. \A by \in {STEP, -STEP} : Ramped(by) \in -End..End
  BY <1>1 DEF Ramped, Toward
<1>5. Spring \in -End..End
  BY <1>1 DEF Spring, Abs
<1> QED
  BY <1>1, <1>3, <1>4, <1>5 DEF OwnWheel, OemWheel

LEMMA AsksTyped ==
  ASSUME NEW cs \in SUBSET (Buttons \cup Keys)
  PROVE  Asks(cs) \subseteq [by : Buttons \cup Keys, for : Actions]
BY DEF Asks

\* What the frame's edges are made of.
LEMMA EdgesTyped ==
  ASSUME NEW view \in Views
  PROVE  EdgesOf(view) \subseteq {"camera", "shiftup", "shiftdown", "viewkey"}
BY DEF EdgesOf

LEMMA RaceTyped ==
  ASSUME TypeOK, NEW view \in Readings, RaceFrame(view), rested' \in BOOLEAN
  PROVE  TypeOK'
<1> USE PadAssumption DEF PadAssumption
<1>1. view \in Views
  BY ReadingsTyped
<1>2. UNCHANGED <<host, kind, held, stick, linked, focused, dialog, raceAge, wheel>>
  BY DEF RaceFrame, outside, hands
<1>3. latch' \in Views /\ backoff' \in 0..Backoff /\ lastUb' \subseteq Buttons
  BY <1>1 DEF RaceFrame, Read, LookForPad, TypeOK, Views
<1>4. prevEdges' \subseteq Actions
  BY <1>1, EdgesTyped DEF RaceFrame, Actions
<1>5. gear' \in 1..Gears
  <2>1. gear' = Shifted(NewEdges(view))
    BY DEF RaceFrame
  <2>2. gear \in 1..Gears /\ Gears \in Nat
    BY DEF TypeOK
  <2> QED
    BY ONLY <2>1, <2>2 DEF Shifted
<1>6. bits' \subseteq {"ebrake", "start"}
  BY DEF RaceFrame, Bits
<1>7. cmd' \in BOOLEAN /\ quitFrames' \in 0..QuitFrames
  <2> DEFINE frames == IF QuitPressed THEN QuitFrames ELSE quitFrames
  <2>1. cmd' = (frames > 0) /\ quitFrames' = (IF frames > 0 THEN frames - 1 ELSE 0)
    BY DEF RaceFrame
  <2>2. frames \in 0..QuitFrames /\ QuitFrames \in Nat
    BY DEF TypeOK
  <2> HIDE DEF frames
  <2> QED
    BY ONLY <2>1, <2>2
<1>8. quitPrev' \in BOOLEAN /\ prevYes' \in BOOLEAN
  <2>1. quitPrev' = QuitDown /\ prevYes' = (IF dialog THEN Yes(view) ELSE prevYes)
    BY DEF RaceFrame, QuitLook
  <2>2. QuitDown \in BOOLEAN /\ Yes(view) \in BOOLEAN
    BY DEF QuitDown, Yes
  <2>3. prevYes \in BOOLEAN
    BY DEF TypeOK
  <2> QED
    BY ONLY <2>1, <2>2, <2>3
<1>9. done' \subseteq Once
  BY DEF RaceFrame, Once
<1>10. owed' \subseteq owed
  BY DEF RaceFrame
<1> QED
  BY <1>2, <1>3, <1>4, <1>5, <1>6, <1>7, <1>8, <1>9, <1>10 DEF TypeOK, Views

LEMMA MenuTyped ==
  ASSUME TypeOK, NEW view \in Readings, MenuFrame(view), rested' \in BOOLEAN
  PROVE  TypeOK'
<1> USE PadAssumption DEF PadAssumption
<1>1. view \in Views
  BY ReadingsTyped
<1>2. UNCHANGED <<host, kind, held, stick, linked, focused, dialog, lastUb, prevEdges, gear,
                  raceAge, prevYes, bits, cmd, quitFrames>>
  BY DEF MenuFrame, outside, hands, raceVars
<1>3. latch' \in Views /\ backoff' \in 0..Backoff
  BY <1>1 DEF MenuFrame, Read, LookForPad, TypeOK, Views
<1>4. wheel' \in -End..End
  BY <1>1, WheelTyped DEF MenuFrame, Views
<1>5. quitPrev' \in BOOLEAN
  BY DEF MenuFrame, QuitLook, QuitDown
<1>6. done' \subseteq Once
  BY DEF MenuFrame, Once
<1>7. owed' \subseteq owed
  BY DEF MenuFrame
<1> QED
  BY <1>2, <1>3, <1>4, <1>5, <1>6, <1>7 DEF TypeOK, Views

LEMMA WorldTyped ==
  ASSUME TypeOK, World
  PROVE  TypeOK'
<1> USE PadAssumption DEF PadAssumption, hands, statics, raceVars, outside
<1>1. done' \subseteq Once
  BY DEF World
<1>2. CASE MoveStick
  BY <1>1, <1>2 DEF MoveStick, TypeOK
<1>3. CASE Unlink \/ SwitchWindow
  BY <1>1, <1>3 DEF Unlink, SwitchWindow, TypeOK
<1>4. CASE Link
  <2>1. held \cap Buttons \in SUBSET (Buttons \cup Keys)
    OBVIOUS
  <2>2. owed' \subseteq [by : Buttons \cup Keys, for : Actions]
    BY <1>4, <2>1, AsksTyped DEF Link, TypeOK
  <2> QED
    BY <1>1, <1>4, <2>2 DEF Link, TypeOK
<1>5. CASE Prompt \/ PromptEnds
  BY <1>1, <1>5 DEF Prompt, PromptEnds, TypeOK
<1>6. CASE Tick
  <2>1. backoff' \in 0..Backoff /\ raceAge' \in 0..Intro
    BY <1>6 DEF Tick, TypeOK
  <2> QED
    BY <1>1, <1>6, <2>1 DEF Tick, TypeOK
<1>7. ASSUME NEW c \in Buttons \cup Keys, Press(c) PROVE TypeOK'
  <2>1. owed' \subseteq [by : Buttons \cup Keys, for : Actions]
    BY <1>7, AsksTyped DEF Press, TypeOK
  <2> QED
    BY <1>1, <1>7, <2>1 DEF Press, TypeOK
<1>8. ASSUME NEW c \in Buttons \cup Keys, Release(c) PROVE TypeOK'
  BY <1>1, <1>8 DEF Release, TypeOK
<1> QED
  BY <1>2, <1>3, <1>4, <1>5, <1>6, <1>7, <1>8 DEF World

LEMMA TypeStep == TypeOK /\ [Next]_vars => TypeOK'
<1> SUFFICES ASSUME TypeOK, [Next]_vars PROVE TypeOK'
  OBVIOUS
<1>1. ASSUME NEW view \in Readings, RaceFrame(view) \/ MenuFrame(view), rested' = ~QuitDown
      PROVE  TypeOK'
  BY <1>1, RaceTyped, MenuTyped
<1>2. CASE UNCHANGED vars
  BY <1>2 DEF vars, outside, hands, statics, raceVars, TypeOK
<1> QED
  BY <1>1, <1>2, WorldTyped DEF Next, Frame

LEMMA TypesInit ==
  ASSUME Init
  PROVE  TypeOK
<1> USE PadAssumption DEF Init, PadAssumption
<1>1. backoff \in 0..Backoff /\ quitFrames \in 0..QuitFrames /\ gear \in 1..Gears
      /\ raceAge \in 0..Intro /\ wheel \in -End..End
  OBVIOUS
<1>2. latch \in Views
  BY DEF Rest, Views
<1>3. /\ lastUb \subseteq Buttons /\ prevEdges \subseteq Actions
      /\ bits \subseteq {"ebrake", "start"} /\ done \subseteq Once
      /\ owed \subseteq [by : Buttons \cup Keys, for : Actions]
  OBVIOUS
<1>4. {linked, focused, dialog, quitPrev, prevYes, cmd} \subseteq BOOLEAN /\ rested \in BOOLEAN
  OBVIOUS
<1> QED
  BY <1>1, <1>2, <1>3, <1>4 DEF TypeOK, Views

\* The state has its type: gears, wheel, the quit command's frames and the
\* back-off stay in their ranges, with any settings (Update, shell_update).
THEOREM TypeCorrect == Spec => []TypeOK
<1>1. Init => TypeOK
  BY TypesInit
<1> QED
  BY <1>1, TypeStep, PTL DEF Spec

-----------------------------------------------------------------------------
(* A press acts once.                                                      *)

EdgeActs == {"camera", "shiftup", "shiftdown"}

\* The buttons that the next frame may read as down.
Reach ==
  IF kind = "xinput" THEN (IF linked THEN held \cap Buttons ELSE {})
  ELSE latch.ub \cup (IF linked THEN held \cap Buttons ELSE {})

Owes(c, a) == [by |-> c, for |-> a] \in owed

\* What the race's last frame has seen of the pad.
SeenByRace ==
  /\ kind = "ds4" => lastUb = latch.ub
  /\ kind = "xinput" /\ backoff > 0 => lastUb = {}
  /\ DoneBy(lastUb) \cap EdgeActs \subseteq prevEdges

\* A button that the last frame has not seen, and the next may, is owed all it does.
NewIsOwed == \A c \in Reach \ lastUb : \A a \in Does[c] \cap (EdgeActs \cup {"quit"}) : Owes(c, a)

\* A quit control that is down has been looked at, or is owed a quit.
QuitIsOwed ==
  \A c \in lastUb \cup (held \cap Keys) : "quit" \in Does[c] => quitPrev \/ Owes(c, "quit")

\* A view key that is down is in the last frame's edges, or is owed a change.
ViewIsOwed ==
  \A c \in held \cap Keys : "viewkey" \in Does[c] => "viewkey" \in prevEdges \/ Owes(c, "viewkey")

PInv ==
  /\ TypeOK
  /\ IF host = "race" THEN SeenByRace /\ NewIsOwed /\ ViewIsOwed ELSE lastUb = {}
  /\ QuitIsOwed

LEMMA PInvInit == Init => PInv
<1> SUFFICES ASSUME Init PROVE PInv
  OBVIOUS
<1>1. TypeOK
  BY TypesInit
<1> QED
  BY <1>1 DEF PInv, Init, SeenByRace, NewIsOwed, ViewIsOwed, QuitIsOwed, Reach, Rest, DoneBy

\* What a frame may read has been seen by the last one, or is owed.
LEMMA ViewInReach ==
  ASSUME TypeOK, NEW view \in Readings
  PROVE  view.ub \subseteq Reach
BY DEF TypeOK, Readings, Live, Rest, Reach

\* The edge a frame finds new is owed to a control that it is not owed for
\* any more afterwards; so is the quit.
LEMMA FrameAnswers ==
  ASSUME PInv, NEW view \in Readings
  PROVE  /\ QuitPressed => \E o \in owed : o.for = "quit"
         /\ host = "race" => \A a \in NewEdges(view) : \E o \in owed : o.for = a
<1>1. TypeOK
  BY DEF PInv
<1>2. ASSUME QuitPressed PROVE \E o \in owed : o.for = "quit"
  <2>1. PICK c \in lastUb \cup (held \cap Keys) : "quit" \in Does[c]
    BY <1>2 DEF QuitPressed, QuitDown, KeysDo, DoneBy
  <2>2. Owes(c, "quit")
    BY <1>2, <2>1 DEF PInv, QuitIsOwed, QuitPressed
  <2> QED
    BY <2>2 DEF Owes
<1>3. ASSUME host = "race", NEW a \in NewEdges(view) PROVE \E o \in owed : o.for = a
  <2>1. a \in EdgesOf(view) /\ a \notin prevEdges
    BY <1>3 DEF NewEdges
  <2>2. CASE a \in EdgeActs /\ a \in DoneBy(view.ub)
    <3>1. PICK c \in view.ub : a \in Does[c]
      BY <2>2 DEF DoneBy
    <3>2. c \notin lastUb
      BY <1>3, <2>1, <2>2, <3>1 DEF PInv, SeenByRace, DoneBy
    <3>3. Owes(c, a)
      BY <1>1, <1>3, <2>2, <3>1, <3>2, ViewInReach DEF PInv, NewIsOwed
    <3> QED
      BY <3>3 DEF Owes
  <2>3. CASE a = "viewkey" /\ a \in KeysDo
    <3>1. PICK c \in held \cap Keys : a \in Does[c]
      BY <2>3 DEF KeysDo, DoneBy
    <3>2. Owes(c, a)
      BY <1>3, <2>1, <2>3, <3>1 DEF PInv, ViewIsOwed
    <3> QED
      BY <3>2 DEF Owes
  <2> QED
    BY <2>1, <2>2, <2>3 DEF EdgesOf, EdgeActs
<1> QED
  BY <1>2, <1>3

LEMMA RaceOwes ==
  ASSUME PInv, NEW view \in Readings, RaceFrame(view), TypeOK'
  PROVE  PInv'
<1> USE DEF outside, hands
<1>1. /\ TypeOK /\ host = "race" /\ host' = "race" /\ UNCHANGED <<kind, linked, held>>
      /\ lastUb' = view.ub /\ latch' = (IF kind = "ds4" THEN view ELSE latch)
      /\ quitPrev' = QuitDown /\ prevEdges' = EdgesOf(view)
  BY DEF PInv, RaceFrame, Read, QuitLook
<1>2. SeenByRace /\ NewIsOwed /\ ViewIsOwed /\ QuitIsOwed
  BY <1>1 DEF PInv
<1>3. kind \in {"xinput", "ds4"} /\ backoff \in Nat /\ Buttons \cap Keys = {} /\ view \in Views
      /\ Live.ub = held \cap Buttons /\ Rest.ub = {}
  BY <1>1, PadAssumption, ReadingsTyped DEF PadAssumption, TypeOK, Live, Rest
<1>4. SeenByRace'
  <2>1. kind = "ds4" => lastUb' = latch'.ub
    BY <1>1
  <2>2. ASSUME kind = "xinput", backoff' > 0 PROVE lastUb' = {}
    <3>1. ~linked \/ backoff > 0
      BY <1>3, <2>2 DEF RaceFrame, Read, LookForPad
    <3>2. view = Rest
      BY <1>3, <2>2, <3>1 DEF Readings
    <3> QED
      BY <1>1, <1>3, <3>2
  <2>3. DoneBy(view.ub) \cap EdgeActs \subseteq EdgesOf(view)
    BY DEF EdgesOf, EdgeActs
  <2> QED
    BY <1>1, <2>1, <2>2, <2>3 DEF SeenByRace, DoneBy
<1>5. NewIsOwed'
  <2> SUFFICES ASSUME NEW c \in Reach' \ lastUb', NEW a \in Does[c] \cap (EdgeActs \cup {"quit"})
               PROVE  Owes(c, a)'
    BY DEF NewIsOwed
  <2>1. linked /\ c \in held \cap Buttons /\ c \notin view.ub
    BY <1>1, <1>3 DEF Reach
  <2>2. c \notin lastUb
    <3>1. CASE kind = "xinput"
      <4>1. view # Live
        BY <1>3, <2>1
      <4>2. backoff > 0
        BY <1>3, <2>1, <3>1, <4>1 DEF Readings
      <4> QED
        BY <1>2, <3>1, <4>2 DEF SeenByRace
    <3>2. CASE kind = "ds4"
      <4>1. view = latch
        BY <1>3, <2>1, <3>2 DEF Readings
      <4> QED
        BY <1>2, <2>1, <3>2, <4>1 DEF SeenByRace
    <3> QED
      BY <1>3, <3>1, <3>2
  <2>3. Owes(c, a)
    BY <1>2, <2>1, <2>2 DEF NewIsOwed, Reach
  <2>4. c \notin Down(view) /\ c \notin lastUb \cup Keys
    BY <1>3, <2>1, <2>2 DEF Down
  <2> QED
    BY <2>1, <2>3, <2>4 DEF RaceFrame, Owes
<1>6. ViewIsOwed'
  <2>1. \A c \in held \cap Keys : "viewkey" \in Does[c] => "viewkey" \in EdgesOf(view)
    BY DEF EdgesOf, KeysDo, DoneBy
  <2> QED
    BY <1>1, <2>1 DEF ViewIsOwed
<1>7. QuitIsOwed'
  <2> SUFFICES ASSUME NEW c \in view.ub \cup (held \cap Keys), "quit" \in Does[c], ~QuitDown
               PROVE  Owes(c, "quit")'
    BY <1>1 DEF QuitIsOwed
  <2>1. c \in view.ub /\ c \notin lastUb /\ ~QuitPressed
    BY DEF QuitDown, KeysDo, DoneBy, QuitPressed
  <2>2. Owes(c, "quit")
    BY <1>1, <1>2, <2>1, ViewInReach DEF NewIsOwed
  <2>3. "quit" \notin EdgesOf(view)
    BY <1>3, EdgesTyped
  <2> QED
    BY <2>1, <2>2, <2>3 DEF RaceFrame, Owes
<1> QED
  BY <1>1, <1>4, <1>5, <1>6, <1>7 DEF PInv

LEMMA MenuOwes ==
  ASSUME PInv, NEW view \in Readings, MenuFrame(view), TypeOK'
  PROVE  PInv'
<1>1. /\ host # "race" /\ host' = host /\ lastUb = {} /\ lastUb' = {} /\ held' = held
      /\ quitPrev' = QuitDown
  BY DEF PInv, MenuFrame, QuitLook, outside, hands, raceVars
<1>2. \A c \in held \cap Keys : "quit" \in Does[c] => QuitDown
  BY DEF QuitDown, KeysDo, DoneBy
<1>3. QuitIsOwed'
  BY <1>1, <1>2 DEF QuitIsOwed
<1> QED
  BY <1>1, <1>3 DEF PInv

LEMMA WorldOwes ==
  ASSUME PInv, World, TypeOK'
  PROVE  PInv'
<1> USE DEF hands, statics, raceVars, outside
<1> DEFINE Same == /\ UNCHANGED <<host, kind, lastUb, quitPrev, prevEdges, latch>>
                   /\ backoff' = backoff \/ backoff' = 0 \/ backoff' = backoff - 1
<1>1. TypeOK /\ backoff \in Nat
  BY PadAssumption DEF PInv, TypeOK, PadAssumption
<1>2. ASSUME Same PROVE SeenByRace => SeenByRace'
  BY <1>1, <1>2 DEF SeenByRace, DoneBy
\* Nothing is taken from what is owed but answers to the prompt.
<1>3. ASSUME Same, held' = held, Reach' \subseteq Reach,
             \A o \in owed : o.for # "confirm" => o \in owed'
      PROVE  PInv'
  <2>1. \A c, a : Owes(c, a) /\ a # "confirm" => Owes(c, a)'
    BY <1>3 DEF Owes
  <2>2. NewIsOwed => NewIsOwed'
    BY <1>3, <2>1 DEF NewIsOwed, EdgeActs
  <2>3. (ViewIsOwed => ViewIsOwed') /\ (QuitIsOwed => QuitIsOwed')
    BY <1>3, <2>1 DEF ViewIsOwed, QuitIsOwed
  <2> QED
    BY <1>2, <1>3, <2>2, <2>3 DEF PInv
<1>4. CASE MoveStick \/ SwitchWindow \/ Prompt \/ PromptEnds
  BY <1>3, <1>4 DEF MoveStick, SwitchWindow, Prompt, PromptEnds, Reach
<1>5. CASE Tick
  BY <1>3, <1>5 DEF Tick, Reach
<1>6. CASE Unlink
  BY <1>3, <1>6 DEF Unlink, Reach
<1>7. CASE Link
  <2>1. Same /\ held' = held /\ owed' = owed \cup Asks(held \cap Buttons)
    BY <1>7 DEF Link
  <2>2. \A c, a : Owes(c, a) => Owes(c, a)'
    BY <2>1 DEF Owes
  <2>3. NewIsOwed'
    <3> SUFFICES ASSUME NEW c \in held \cap Buttons, NEW a \in Does[c] \cap (EdgeActs \cup {"quit"})
                 PROVE  Owes(c, a)'
      BY <1>7, <2>1 DEF Link, NewIsOwed, Reach
    <3>1. [by |-> c, for |-> a] \in Asks(held \cap Buttons)
      BY DEF Asks, EdgeActs, Actions
    <3> QED
      BY <2>1, <3>1 DEF Owes
  <2>4. (ViewIsOwed => ViewIsOwed') /\ (QuitIsOwed => QuitIsOwed')
    BY <2>1, <2>2 DEF ViewIsOwed, QuitIsOwed
  <2> QED
    BY <1>2, <2>1, <2>3, <2>4 DEF PInv
<1>8. ASSUME NEW c \in Buttons \cup Keys, Press(c) PROVE PInv'
  <2>1. Same /\ held' = held \cup {c} /\ owed' = owed \cup Asks({c}) /\ UNCHANGED linked
    BY <1>8 DEF Press
  <2>2. \A d, a : Owes(d, a) => Owes(d, a)'
    BY <2>1 DEF Owes
  <2>3. \A a \in Does[c] \cap (EdgeActs \cup {"quit", "viewkey"}) : Owes(c, a)'
    <3> SUFFICES ASSUME NEW a \in Does[c] \cap (EdgeActs \cup {"quit", "viewkey"})
                 PROVE  Owes(c, a)'
      OBVIOUS
    <3>1. [by |-> c, for |-> a] \in Asks({c})
      BY DEF Asks, EdgeActs, Actions
    <3> QED
      BY <2>1, <3>1 DEF Owes
  <2>4. Reach' \subseteq Reach \cup {c}
    BY <2>1 DEF Reach
  <2>5. NewIsOwed => NewIsOwed'
    BY <2>1, <2>2, <2>3, <2>4 DEF NewIsOwed
  <2>6. (ViewIsOwed => ViewIsOwed') /\ (QuitIsOwed => QuitIsOwed')
    BY <2>1, <2>2, <2>3 DEF ViewIsOwed, QuitIsOwed
  <2> QED
    BY <1>2, <2>1, <2>5, <2>6 DEF PInv
<1>9. ASSUME NEW c \in Buttons \cup Keys, Release(c) PROVE PInv'
  <2>1. /\ Same /\ UNCHANGED linked /\ held' = held \ {c}
        /\ owed' = {o \in owed : o.by = c => c \in lastUb /\ o.for = "quit"}
    BY <1>9 DEF Release
  <2>2. \A d, a : Owes(d, a) /\ d # c => Owes(d, a)'
    BY <2>1 DEF Owes
  <2>3. c \in lastUb /\ Owes(c, "quit") => Owes(c, "quit")'
    BY <2>1 DEF Owes
  <2>4. ASSUME SeenByRace, NewIsOwed PROVE NewIsOwed'
    <3>1. Reach' \subseteq Reach /\ c \notin Reach' \ lastUb
      BY <1>1, <2>1, <2>4 DEF Reach, SeenByRace, TypeOK
    <3> QED
      BY <2>1, <2>2, <2>4, <3>1 DEF NewIsOwed
  <2>5. ViewIsOwed => ViewIsOwed'
    BY <2>1, <2>2 DEF ViewIsOwed
  <2>6. QuitIsOwed => QuitIsOwed'
    BY <2>1, <2>2, <2>3 DEF QuitIsOwed
  <2> QED
    BY <1>2, <2>1, <2>4, <2>5, <2>6 DEF PInv
<1> QED
  BY <1>4, <1>5, <1>6, <1>7, <1>8, <1>9 DEF World

LEMMA PInvStep == PInv /\ [Next]_vars => PInv'
<1> SUFFICES ASSUME PInv, [Next]_vars PROVE PInv'
  OBVIOUS
<1>1. TypeOK'
  BY TypeStep DEF PInv
<1>2. ASSUME NEW view \in Readings, RaceFrame(view) \/ MenuFrame(view) PROVE PInv'
  BY <1>1, <1>2, RaceOwes, MenuOwes
<1>3. CASE UNCHANGED vars
  BY <1>1, <1>3 DEF vars, outside, hands, statics, raceVars, PInv, SeenByRace, NewIsOwed,
     ViewIsOwed, QuitIsOwed, Reach, Owes, DoneBy
<1> QED
  BY <1>1, <1>2, <1>3, WorldOwes DEF Next, Frame

\* Each press acts once, whichever pad it is made on, however late its reports
\* come and whatever else its control does: a gear, a camera and a quit have a
\* press of their own that has had none (Update and handle_quit_key).
THEOREM PressesActOnce == Spec => OncePerPress
<1>1. PInv /\ [Next]_vars
        => [Frame => \A a \in done' \ {"confirm"} :
              \E o \in owed : o.for = a \/ (a = "camera" /\ o.for = "viewkey")]_vars
  <2> SUFFICES ASSUME PInv, NEW view \in Readings, RaceFrame(view) \/ MenuFrame(view),
                      NEW a \in done' \ {"confirm"}
               PROVE  \E o \in owed : o.for = a \/ (a = "camera" /\ o.for = "viewkey")
    BY DEF Frame
  <2>1. CASE a = "quit"
    <3>1. QuitPressed
      BY <2>1 DEF RaceFrame, MenuFrame
    <3> QED
      BY <2>1, <3>1, FrameAnswers
  <2>2. CASE a # "quit"
    <3>1. RaceFrame(view) /\ host = "race"
      BY <2>2 DEF RaceFrame, MenuFrame
    <3>2. a \in NewEdges(view) \/ (a = "camera" /\ "viewkey" \in NewEdges(view))
      <4>1. gear' = Shifted(NewEdges(view)) /\ gear \in Int
        BY <3>1, PadAssumption DEF RaceFrame, PInv, TypeOK, PadAssumption
      <4>2. gear' > gear => "shiftup" \in NewEdges(view)
        BY ONLY <4>1 DEF Shifted
      <4>3. gear' < gear => "shiftdown" \in NewEdges(view)
        BY ONLY <4>1 DEF Shifted
      <4> QED
        BY <2>2, <3>1, <4>2, <4>3 DEF RaceFrame
    <3> QED
      BY <3>1, <3>2, FrameAnswers
  <2> QED
    BY <2>1, <2>2
<1> QED
  BY <1>1, PInvInit, PInvStep, PTL DEF Spec, OncePerPress

-----------------------------------------------------------------------------
(* A quit is answered.                                                     *)

\* What the last frame found of the quit controls is what prev remembers.
RestIsKnown == rested <=> ~quitPrev

\* A quit key that is down after a rest is answered by the very next frame,
\* in the race and in the menus, if the host then has the foreground: nothing
\* between two frames loses it (handle_quit_key; the safety of QuitRaises).
THEOREM QuitAtNextFrame ==
  Spec => [][Frame /\ rested /\ focused /\ held \cap Keys \cap ByWhich("quit") # {}
               => "quit" \in done']_vars
<1>1. Init => RestIsKnown
  BY DEF Init, RestIsKnown
<1>2. RestIsKnown /\ [Next]_vars => RestIsKnown'
  <2> SUFFICES ASSUME RestIsKnown, [Next]_vars PROVE RestIsKnown'
    OBVIOUS
  <2> USE DEF RestIsKnown
  <2>1. CASE Frame
    <3>1. quitPrev' = QuitDown
      BY <2>1 DEF Frame, RaceFrame, MenuFrame, QuitLook
    <3> QED
      BY <2>1, <3>1, Zenon DEF Frame
  <2>2. CASE World
    <3> USE DEF statics
    <3>1. CASE Tick
      BY <3>1 DEF Tick
    <3>2. ASSUME NEW c \in Buttons \cup Keys, Press(c) \/ Release(c) PROVE RestIsKnown'
      BY <3>2 DEF Press, Release
    <3>3. CASE MoveStick \/ Unlink \/ Link \/ SwitchWindow \/ Prompt \/ PromptEnds
      BY <3>3 DEF MoveStick, Unlink, Link, SwitchWindow, Prompt, PromptEnds
    <3> QED
      BY <2>2, <3>1, <3>2, <3>3 DEF World
  <2>3. CASE UNCHANGED vars
    BY <2>3 DEF vars, statics
  <2> QED
    BY <2>1, <2>2, <2>3 DEF Next
<1>3. RestIsKnown => [Frame /\ rested /\ focused /\ held \cap Keys \cap ByWhich("quit") # {}
                        => "quit" \in done']_vars
  <2> SUFFICES ASSUME RestIsKnown, Frame, rested, focused,
                      NEW c \in held \cap Keys \cap ByWhich("quit")
               PROVE  "quit" \in done'
    OBVIOUS
  <2>1. QuitDown
    BY DEF ByWhich, QuitDown, KeysDo, DoneBy
  <2>2. QuitPressed
    BY <2>1 DEF QuitPressed, RestIsKnown
  <2> QED
    BY <2>2 DEF Frame, RaceFrame, MenuFrame
<1> QED
  BY <1>1, <1>2, <1>3, PTL DEF Spec

-----------------------------------------------------------------------------
(* The wheel of the menus.                                                 *)

\* Where the hands ask the wheel to be.
Goal(s) ==
  LET left == "left" \in KeysDo   right == "right" \in KeysDo IN
  IF Active(s) THEN Bucket(s)
  ELSE IF host = "oem" \/ (left <=> right) THEN 0
  ELSE IF right THEN End ELSE -End

Gap(at, goal) == Abs(at - goal)

\* One frame's way from wheel w towards a goal.
LEMMA RampNears ==
  ASSUME NEW w \in -End..End
  PROVE  /\ LET to == Toward(w + STEP, End) IN to = w \/ Gap(to, End) < Gap(w, End)
         /\ LET to == Toward(w - STEP, End) IN to = w \/ Gap(to, -End) < Gap(w, -End)
         /\ LET to == IF Abs(w) <= STEP THEN 0 ELSE IF w > 0 THEN w - STEP ELSE w + STEP
            IN  to = w \/ Gap(to, 0) < Gap(w, 0)
<1>1. STEP \in Nat \ {0} /\ End \in Nat /\ w \in Int
  BY PadAssumption DEF PadAssumption
<1>2. LET to == Toward(w + STEP, End) IN to = w \/ Gap(to, End) < Gap(w, End)
  BY <1>1 DEF Toward, Gap, Abs
<1>3. LET to == Toward(w - STEP, End) IN to = w \/ Gap(to, -End) < Gap(w, -End)
  BY <1>1 DEF Toward, Gap, Abs
<1>4. LET to == IF Abs(w) <= STEP THEN 0 ELSE IF w > 0 THEN w - STEP ELSE w + STEP
      IN  to = w \/ Gap(to, 0) < Gap(w, 0)
  BY <1>1 DEF Gap, Abs
<1> QED
  BY <1>2, <1>3, <1>4

LEMMA BucketNears ==
  ASSUME wheel \in Int, NEW s, Bucket(s) \in Int
  PROVE  Quantised(s) = wheel \/ Gap(Quantised(s), Bucket(s)) < Gap(wheel, Bucket(s))
BY PadAssumption DEF PadAssumption, Quantised, Gap, Abs

\* A frame of the menus leaves the wheel where it is or brings it nearer to
\* where the hands have it, and never past: while the hands are still it cannot
\* swing, whatever keys are held with the stick (shell_update: "THE VALUE
\* MUST BE STABLE FRAME-TO-FRAME").
THEOREM WheelNears ==
  Spec => [][\A view \in Readings : MenuFrame(view) =>
               wheel' = wheel \/ Gap(wheel', Goal(view.stick)) < Gap(wheel, Goal(view.stick))]_vars
<1>1. ASSUME TypeOK, NEW view \in Readings, MenuFrame(view)
      PROVE  wheel' = wheel \/ Gap(wheel', Goal(view.stick)) < Gap(wheel, Goal(view.stick))
  <2> DEFINE s == view.stick
  <2>1. wheel \in -End..End /\ host \in {"shell", "oem"} /\ s \in Int /\ End \in Nat
    <3>1. End \in Nat /\ Sticks \subseteq Int /\ view \in Views
      BY <1>1, PadAssumption, ReadingsTyped DEF PadAssumption
    <3> QED
      BY <1>1, <3>1 DEF TypeOK, MenuFrame, Views
  <2>2. wheel' = IF host = "oem" THEN OemWheel(s) ELSE OwnWheel(s)
    BY <1>1 DEF MenuFrame
  <2>3. Bucket(s) \in Int
    <3>1. (IF s < 0 THEN -1 ELSE 1) * QUANT * (Abs(s) \div QUANT) \in Int
      BY <2>1, PadAssumption DEF PadAssumption, Abs
    <3> QED
      BY <3>1, LastBucket, TowardTyped, <2>1 DEF Bucket
  <2> HIDE DEF s
  <2>4. CASE Active(s)
    <3>1. wheel' = Quantised(s) /\ Goal(s) = Bucket(s)
      BY <2>2, <2>4 DEF OemWheel, OwnWheel, Goal
    <3> QED
      BY <2>1, <2>3, <3>1, BucketNears DEF s
  <2>5. CASE ~Active(s) /\ host = "oem"
    <3>1. wheel' = 0 /\ Goal(s) = 0
      BY <2>2, <2>5 DEF OemWheel, Goal
    <3>2. wheel = 0 \/ Gap(0, 0) < Gap(wheel, 0)
      BY <2>1 DEF Gap, Abs
    <3> QED
      BY <3>1, <3>2 DEF s
  <2>6. CASE ~Active(s) /\ host # "oem"
    <3>1. \/ wheel' = Ramped(STEP) /\ Goal(s) = End
          \/ wheel' = Ramped(-STEP) /\ Goal(s) = -End
          \/ wheel' = Spring /\ Goal(s) = 0
      BY <2>2, <2>6 DEF OwnWheel, Goal
    <3>2. wheel + (-STEP) = wheel - STEP
      BY <2>1, PadAssumption DEF PadAssumption
    <3> QED
      BY <2>1, <3>1, <3>2, RampNears DEF Ramped, Spring, s
  <2> QED
    BY <2>1, <2>4, <2>5, <2>6
<1>2. TypeOK /\ [Next]_vars
        => [\A view \in Readings : MenuFrame(view) =>
              wheel' = wheel \/ Gap(wheel', Goal(view.stick)) < Gap(wheel, Goal(view.stick))]_vars
  BY <1>1
<1> QED
  BY <1>2, TypeCorrect, PTL DEF Spec
=============================================================================
