-------------------------------- MODULE Pad --------------------------------
(***************************************************************************)
(* One copy of GVRInputRaw.dll (GvrInputEmu.cpp): in the race it turns the *)
(* pad and the keyboard into the game's buttons, gears and commands, and   *)
(* in the menus into the wheel that selects an item, by itself or on top   *)
(* of the original DLL.  The host calls Update once per frame; between     *)
(* frames the player's hands move, the pad comes and goes, and the race's  *)
(* own code puts up and takes down its QUIT GAME? prompt.                  *)
(*                                                                         *)
(* The pad's buttons count in the race and its stick in the menus: what    *)
(* the other of each does is a plain map from one value to another.        *)
(***************************************************************************)
EXTENDS Integers, FiniteSets

CONSTANTS
  Buttons, Keys,  \* of the pad, of the keyboard
  Does,           \* the actions of each, as the settings and the code give them
  Sticks,         \* positions of the stick, -128 .. 127
  STEP, DEAD, QUANT, End, \* of the menu's wheel: 4, 24, 8 and 127
  Gears,          \* gears of the shifter (6)
  QuitFrames,     \* frames for which the quit command is held (6)
  Intro,          \* ticks in which a button skips the intro (30 s)
  Backoff,        \* ticks between looks for an XInput pad that is not there (3 s)
  Fingers         \* controls that the player holds at a time

Actions == {"ebrake", "start", "skipintro", "confirm", "quit", "camera", "viewkey",
            "shiftup", "shiftdown", "left", "right"}

ASSUME PadAssumption ==
  /\ Buttons \cap Keys = {}
  /\ Does \in [Buttons \cup Keys -> SUBSET Actions]
  /\ Sticks \subseteq -(End + 1)..End /\ 0 \in Sticks
  /\ {STEP, DEAD, QUANT, End, Gears, QuitFrames, Intro, Backoff, Fingers} \subseteq Nat \ {0}

VARIABLES
  host,        \* "race", "shell" (on its own) or "oem" (the original DLL found)
  kind,        \* the player's pad: "xinput" or "ds4"
  linked,      \* it is connected
  held, stick, \* what the hands do: controls held, and the stick
  focused,     \* the host has the foreground
  dialog,      \* the race's prompt is up
  latch,       \* g_ds4_btn and g_ds4_steer
  backoff,     \* ticks until s_xiNextTry
  lastUb,      \* g_last_ub
  quitPrev,    \* prev in handle_quit_key
  quitFrames,  \* g_quit_combo_frames
  prevEdges,   \* prevR1, prevV, prevUp, prevDn
  gear,        \* g_gear
  raceAge,     \* ticks since started, at most Intro
  prevYes,     \* as in Update
  bits,        \* the buttons given to the game
  cmd,         \* buf+0xEC is 0x10
  wheel,       \* wheel, or owheel
  done,        \* history: what the frame just made carried out
  owed,        \* history: what presses are owed
  rested       \* history: the last frame found no quit control down

hands == <<held, stick>>
outside == <<host, kind, linked, hands, focused, dialog>>
raceVars == <<lastUb, prevEdges, gear, raceAge, prevYes, bits, cmd, quitFrames>>
statics == <<latch, backoff, quitPrev, raceVars, wheel>>
vars == <<outside, statics, done, owed, rested>>

Rest == [ub |-> {}, stick |-> 0]
Once == {"quit", "confirm", "camera", "shiftup", "shiftdown"}

TypeOK ==
  /\ host \in {"race", "shell", "oem"} /\ kind \in {"xinput", "ds4"}
  /\ held \subseteq Buttons \cup Keys /\ stick \in Sticks
  /\ {linked, focused, dialog, quitPrev, prevYes, cmd} \subseteq BOOLEAN
  /\ latch \in [ub : SUBSET Buttons, stick : Sticks] /\ backoff \in 0..Backoff
  /\ lastUb \subseteq Buttons /\ quitFrames \in 0..QuitFrames
  /\ prevEdges \subseteq Actions /\ gear \in 1..Gears /\ raceAge \in 0..Intro
  /\ bits \subseteq {"ebrake", "start"} /\ wheel \in -End..End
  /\ done \subseteq Once /\ owed \subseteq [by : Buttons \cup Keys, for : Actions] /\ rested \in BOOLEAN

\* The DLL is loaded and GVRInputRawInit has run, with a pad connected.
Init ==
  /\ host \in {"race", "shell", "oem"} /\ kind \in {"xinput", "ds4"} /\ linked = TRUE
  /\ held = {} /\ stick = 0 /\ focused = TRUE /\ dialog = FALSE
  /\ latch = Rest /\ backoff = 0
  /\ lastUb = {} /\ quitPrev = FALSE /\ quitFrames = 0 /\ prevEdges = {} /\ gear = 1
  /\ raceAge = 0 /\ prevYes = FALSE /\ bits = {} /\ cmd = FALSE
  /\ wheel = 0 /\ done = {} /\ owed = {} /\ rested = TRUE

-----------------------------------------------------------------------------
(* read_pad.                                                               *)

Live == [ub |-> held \cap Buttons, stick |-> stick]

\* Faulty variant: an XInput pad that is lost keeps its last state too.
ReadingsKept ==
  IF kind = "xinput" THEN {IF linked /\ backoff = 0 THEN Live ELSE [ub |-> lastUb, stick |-> 0]}
  ELSE IF linked THEN {latch, Live} ELSE {latch}

\* An XInput pad is asked for its state; one that does not answer is left
\* alone for Backoff.  A DS4 gives its last report: the present one, or one
\* of before, and for ever its last when it is unplugged.
Readings ==
  IF kind = "xinput" THEN {IF linked /\ backoff = 0 THEN Live ELSE Rest}
  ELSE IF linked THEN {latch, Live} ELSE {latch}

LookForPad ==
  backoff' = IF kind = "xinput" /\ backoff = 0 /\ ~linked THEN Backoff ELSE backoff

Read(view) ==
  /\ LookForPad
  /\ latch' = IF kind = "ds4" THEN view ELSE latch

Down(view) == view.ub \cup (held \cap Keys)
ByWhich(action) == {c \in Buttons \cup Keys : action \in Does[c]}
DoneBy(controls) == UNION {Does[c] : c \in controls}
KeysDo == DoneBy(held \cap Keys)

-----------------------------------------------------------------------------
(* handle_quit_key: Q, or the pad as the race's last frame has seen it.    *)

QuitDown == "quit" \in DoneBy(lastUb) \cup KeysDo

\* Faulty variant: a release is not noticed.
QuitLookStuck == quitPrev' = (quitPrev \/ QuitDown)

QuitPressed == QuitDown /\ ~quitPrev /\ focused
QuitLook == quitPrev' = QuitDown

-----------------------------------------------------------------------------
(* A frame of the race.                                                    *)

\* Up first, then down, within the gears.
Shifted(new) ==
  LET up == IF "shiftup" \in new /\ gear < Gears THEN gear + 1 ELSE gear
  IN  IF "shiftdown" \in new /\ up > 1 THEN up - 1 ELSE up

EdgesOf(view) ==
  (DoneBy(view.ub) \cap {"camera", "shiftup", "shiftdown"}) \cup (KeysDo \cap {"viewkey"})

\* Faulty variant: the shift and the camera act on the level.
NewEdgesLevel(view) == EdgesOf(view)

NewEdges(view) == EdgesOf(view) \ prevEdges

\* S starts and resets; in the intro the skip button does too.
Bits(view) ==
  (DoneBy(Down(view)) \cap {"ebrake", "start"})
    \cup (IF raceAge < Intro /\ "skipintro" \in DoneBy(view.ub) THEN {"start"} ELSE {})

Yes(view) == "confirm" \in DoneBy(Down(view))
Confirmed(view) == dialog /\ Yes(view) /\ ~prevYes

RaceFrame(view) ==
  LET frames == IF QuitPressed THEN QuitFrames ELSE quitFrames IN
  /\ host = "race"
  /\ QuitLook /\ Read(view) /\ lastUb' = view.ub
  /\ prevEdges' = EdgesOf(view) /\ gear' = Shifted(NewEdges(view))
  /\ bits' = Bits(view)
  /\ cmd' = (frames > 0) /\ quitFrames' = IF frames > 0 THEN frames - 1 ELSE 0
  /\ prevYes' = IF dialog THEN Yes(view) ELSE prevYes
  /\ done' = (IF QuitPressed THEN {"quit"} ELSE {})
       \cup (IF Confirmed(view) THEN {"confirm"} ELSE {})
       \cup (IF NewEdges(view) \cap {"camera", "viewkey"} # {} THEN {"camera"} ELSE {})
       \cup (IF gear' > gear THEN {"shiftup"} ELSE {})
       \cup (IF gear' < gear THEN {"shiftdown"} ELSE {})
  /\ owed' = {o \in owed : /\ o.by \in held \cup view.ub
                           /\ ~(o.by \in Down(view) /\ o.for \in EdgesOf(view) \ prevEdges)
                           /\ ~(QuitPressed /\ o.for = "quit" /\ o.by \in lastUb \cup Keys)}
  /\ UNCHANGED <<outside, raceAge, wheel>>

-----------------------------------------------------------------------------
(* A frame of the menus: shell_update.                                     *)

Abs(n) == IF n < 0 THEN -n ELSE n
Toward(n, limit) == IF n > limit THEN limit ELSE IF n < -limit THEN -limit ELSE n

Active(s) == Abs(s) > DEAD

\* The stick's bucket, the last one (120) cut off; / rounds towards 0.
Bucket(s) == Toward((IF s < 0 THEN -1 ELSE 1) * QUANT * (Abs(s) \div QUANT), QUANT * (End \div QUANT))

\* A new bucket is taken when it is a full one away.
Quantised(s) == IF Abs(Bucket(s) - wheel) >= QUANT THEN Bucket(s) ELSE wheel

\* Faulty variants: the ramp goes on past the end; the wheel springs back
\* past the centre.
RampedPast(by) == wheel + by
SpringPast == IF wheel > 0 THEN wheel - STEP ELSE IF wheel < 0 THEN wheel + STEP ELSE 0

Ramped(by) == Toward(wheel + by, End)
Spring == IF Abs(wheel) <= STEP THEN 0 ELSE IF wheel > 0 THEN wheel - STEP ELSE wheel + STEP

OwnWheel(s) ==
  LET left == "left" \in KeysDo   right == "right" \in KeysDo IN
  IF Active(s) THEN Quantised(s)
  ELSE IF right /\ ~left THEN Ramped(STEP)
  ELSE IF left /\ ~right THEN Ramped(-STEP)
  ELSE Spring

\* On top of the original DLL: a stick at rest leaves it the axis.
OemWheel(s) == IF Active(s) THEN Quantised(s) ELSE 0

MenuFrame(view) ==
  /\ host \in {"shell", "oem"}
  /\ QuitLook /\ Read(view)
  /\ wheel' = IF host = "oem" THEN OemWheel(view.stick) ELSE OwnWheel(view.stick)
  /\ done' = IF QuitPressed THEN {"quit"} ELSE {}
  /\ owed' = {o \in owed : ~QuitPressed}
  /\ UNCHANGED <<outside, raceVars>>

Frame ==
  /\ rested' = ~QuitDown
  /\ \E view \in Readings : RaceFrame(view) \/ MenuFrame(view)

-----------------------------------------------------------------------------
(* The player, the pad's link, the race's own code, and time.              *)

\* Buttons in the race, the stick and its keys in the menus.
Used ==
  IF host = "race" THEN (Buttons \cup Keys) \ (ByWhich("left") \cup ByWhich("right"))
  ELSE Keys \cap (ByWhich("left") \cup ByWhich("right") \cup ByWhich("quit"))

\* A press is owed its actions; an answer only while the prompt is up.
Asks(controls) ==
  [by : controls, for : {"quit", "camera", "viewkey", "shiftup", "shiftdown"}
                          \cup IF dialog THEN {"confirm"} ELSE {}]
    \cap {o \in [by : controls, for : Actions] : o.for \in Does[o.by]}

Press(c) ==
  /\ c \in Used \ held /\ Cardinality(held) < Fingers
  /\ held' = held \cup {c} /\ owed' = owed \cup Asks({c})
  /\ UNCHANGED <<host, kind, linked, stick, focused, dialog, statics, rested>>

Release(c) ==
  /\ c \in held /\ held' = held \ {c}
  /\ owed' = {o \in owed : o.by = c => c \in lastUb /\ o.for = "quit"}
  /\ UNCHANGED <<host, kind, linked, stick, focused, dialog, statics, rested>>

MoveStick ==
  /\ host # "race" /\ stick' \in Sticks
  /\ UNCHANGED <<host, kind, linked, held, focused, dialog, statics, owed, rested>>

\* The link is lost, and for XInput comes back.  A button held meanwhile is
\* a new press.
Unlink ==
  /\ linked /\ linked' = FALSE
  /\ UNCHANGED <<host, kind, hands, focused, dialog, statics, owed, rested>>

Link ==
  /\ ~linked /\ kind = "xinput" /\ linked' = TRUE
  /\ owed' = owed \cup Asks(held \cap Buttons)
  /\ UNCHANGED <<host, kind, hands, focused, dialog, statics, rested>>

SwitchWindow ==
  /\ focused' = ~focused
  /\ UNCHANGED <<host, kind, linked, hands, dialog, statics, owed, rested>>

\* The race samples the command; its prompt ends by itself, or by the
\* accelerator.
Prompt ==
  /\ host = "race" /\ cmd /\ ~dialog /\ dialog' = TRUE
  /\ owed' = {o \in owed : o.for # "confirm"}
  /\ UNCHANGED <<host, kind, linked, hands, focused, statics, rested>>

PromptEnds ==
  /\ dialog /\ dialog' = FALSE
  /\ UNCHANGED <<host, kind, linked, hands, focused, statics, owed, rested>>

Tick ==
  /\ backoff' = IF backoff > 0 THEN backoff - 1 ELSE 0
  /\ raceAge' = IF host = "race" /\ raceAge < Intro THEN raceAge + 1 ELSE raceAge
  /\ UNCHANGED <<outside, latch, quitPrev, lastUb, prevEdges, gear, prevYes, bits, cmd,
                 quitFrames, wheel, owed, rested>>

World ==
  /\ done' = {}
  /\ \/ MoveStick \/ Unlink \/ Link \/ SwitchWindow \/ Prompt \/ PromptEnds \/ Tick
     \/ \E c \in Buttons \cup Keys : Press(c) \/ Release(c)

Next == Frame \/ World

Spec == Init /\ [][Next]_vars

\* The host calls Update in every frame, a connected DS4 keeps reporting, and
\* time passes.  Nothing is owed by the player.
Fresh == kind = "ds4" /\ linked => latch' = Live
FairSpec == Spec /\ WF_vars(Frame /\ Fresh) /\ WF_vars(done' = {} /\ Tick)

-----------------------------------------------------------------------------
(* Properties.                                                             *)

\* Each press acts once: a gear, a change of camera and a quit are owed to a
\* press that has not had one, however long the control is held and though
\* the DS4's reports come late and the quit is looked for one frame later
\* (Update, handle_quit_key: rising edges).
OncePerPress ==
  [][Frame => \A a \in done' \ {"confirm"} :
       \E o \in owed : o.for = a \/ (a = "camera" /\ o.for = "viewkey")]_vars

\* A quit key pressed after a rest, and held with the foreground, is
\* answered: by the prompt or by the shell's end (handle_quit_key).  The pad's
\* quit button, which counts by the frame before, is not in here.
QuitRaises ==
  rested /\ focused /\ held \cap Keys \cap ByWhich("quit") # {}
    ~> "quit" \in done \/ ~focused \/ held \cap Keys \cap ByWhich("quit") = {}

\* The player's hands and the pad's link have come to rest.
Still == <>[][UNCHANGED <<linked, hands>>]_vars

\* The race comes to get what the hands do, and of an XInput pad that is lost
\* nothing; one that comes back is found again, for all the Backoff (read_pad).
\* A DS4 that is lost is another matter: its last report stands.
InputsFollow ==
  Still => <>[](\/ host # "race" \/ (kind = "ds4" /\ ~linked)
                \/ bits = DoneBy(IF linked THEN held ELSE held \cap Keys)
                             \cap {"ebrake", "start"})

\* While the hands are still the menu's wheel comes to rest, wherever keys, ramp
\* and spring have left it (shell_update: "THE VALUE MUST BE STABLE
\* FRAME-TO-FRAME").  Hands that tremble across the edge of a bucket move it at
\* every frame (Quantised).
WheelRests == Still => <>[][wheel' = wheel]_vars

-----------------------------------------------------------------------------
(* What the comments say, and the code does not do.                        *)

\* The prompt is answered by a press made while it is up (handle_quit_key raises
\* a prompt so as not to "kill the race instantly, skipping the confirmation").
AnswerIsMeant ==
  [][Frame /\ "confirm" \in done' => \E o \in owed : o.for = "confirm"]_vars
=============================================================================
