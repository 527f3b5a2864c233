------------------------------ MODULE Desktop ------------------------------
(***************************************************************************)
(* Who is in front and who is on top.  The launcher's window (GvrLaunch's  *)
(* backdrop_proc) covers the desktop between the frontend and the race,    *)
(* hands the foreground to whichever is live, and ends after both; the     *)
(* shim in each of them (keep_not_topmost) puts its window in the topmost  *)
(* band while the game has the foreground, and again and again, since in   *)
(* the band the window raised last is the highest and the taskbar is in it *)
(* too.  The shell's own code starts the race and pins its window on top;  *)
(* the player minimises and alt-tabs.                                      *)
(*                                                                         *)
(* A tick is about a second.  The launcher's timer looks at the programs,  *)
(* and acts on what it saw in a step of its own.  A race takes seconds to  *)
(* load and the timer fires every 120 ms: the launcher has noticed a race  *)
(* before its window shows.                                                *)
(***************************************************************************)
EXTENDS Integers

CONSTANTS
  Modes,    \* of the launcher: "keep" (KeepShell), "swap", "merge"
  OnTop,    \* [Display] OnTop
  Gone,     \* ticks without a program before the launcher ends (6 s)
  Scan,     \* ticks between the frontend's looks for a race (1 s)
  Grace     \* ticks in which the race takes a foreground nobody has (20 s)

Programs == {"shell", "race"}
Nobody == "nobody"
Ours == Programs \cup {"launcher"}  \* foreground_is_our_app

ASSUME DesktopAssumption ==
  /\ Modes \subseteq {"keep", "swap", "merge"} /\ OnTop \in BOOLEAN
  /\ {Gone, Scan, Grace} \subseteq Nat \ {0}

VARIABLES
  mode,        \* g_keepShell, g_merge
  keeps,       \* the frontend is patched to keep its window behind the race
  up,          \* each program: "off", "hidden" (no window yet), "min", "shown"
  front,       \* whose window has the foreground; "desk": explorer or nobody
  band,        \* the windows in the topmost band, where the taskbar is as well
  over,        \* what of the band is above the race, which may be out of it
  launcher,    \* "rest" or "looked" within its timer, "ended"
  saw,         \* what the timer has read: app, the window found; game: a race runs
  lastTarget,  \* as in the launcher
  unseen,      \* ticks since g_lastSeen, at most Gone + 1
  cover,       \* the backdrop: "top", "bottom" or "hidden"
  adopted,     \* the windows that Merge has made children
  raceUp,      \* the frontend's cached look
  scanAge,     \* ticks since that look, at most Scan
  graceAge,    \* ticks since firstSeen, at most Grace; -1: not set
  grabbed,     \* the race took the foreground in this tick (lastGrab)
  noticed,     \* the launcher has seen this race run
  settled      \* history: handed over, and no window has come or gone since

launchVars == <<launcher, saw, lastTarget, unseen, cover, adopted, noticed, settled>>
zorder == <<band, over>>
shimVars == <<zorder, raceUp, scanAge, graceAge, grabbed>>
vars == <<mode, keeps, up, front, launchVars, shimVars>>

NotLooked == [app |-> Nobody, game |-> FALSE]

TypeOK ==
  /\ mode \in Modes /\ up \in [Programs -> {"off", "hidden", "min", "shown"}]
  /\ front \in Ours \cup {"desk", "other"}
  /\ band \subseteq Programs /\ over \subseteq {"taskbar", "shell"}
  /\ launcher \in {"rest", "looked", "ended"}
  /\ saw \in [app : Programs \cup {Nobody}, game : BOOLEAN]
  /\ lastTarget \in Programs \cup {Nobody}
  /\ unseen \in 0..Gone + 1 /\ cover \in {"top", "bottom", "hidden"}
  /\ adopted \subseteq Programs
  /\ raceUp \in BOOLEAN /\ scanAge \in 0..Scan /\ graceAge \in -1..Grace
  /\ {keeps, grabbed, noticed, settled} \subseteq BOOLEAN

\* The taskbar is in the band, and so may the shell be: all of it is above a race
\* that is out of it, and nothing above one raised just now.
AboveRace(raised) == IF raised THEN {} ELSE {"taskbar"} \cup (band \cap {"shell"})

\* WinMain has resumed the shell, with the backdrop up; with KeepShell and
\* Backdrop=false (g_splash) it is not shown.  Both agree on KeepShell, unless
\* Merge overrides it in the launcher (Launch's KeepIsWhole).
\* A race may be left over from an earlier session, with its window or before
\* it; one with its window is there for the launcher's first look.
Init ==
  /\ mode \in Modes /\ keeps \in BOOLEAN /\ (mode = "merge" \/ keeps = (mode = "keep"))
  /\ up \in [Programs -> {"off", "hidden", "min", "shown"}] /\ up["shell"] = "hidden"
  /\ noticed = (up["race"] \in {"min", "shown"})
  /\ front \in {"launcher", "desk", "other"} \cup (IF up["race"] = "shown" THEN {"race"} ELSE {})
  /\ band \in SUBSET (IF noticed THEN {"race"} ELSE {})
  /\ over \in (IF band = {} THEN {{"taskbar"}} ELSE SUBSET {"taskbar"})
  /\ graceAge \in (IF noticed THEN -1..Grace ELSE {-1})
  /\ launcher = "rest" /\ saw = NotLooked
  /\ lastTarget = Nobody /\ unseen = 0 /\ adopted = {}
  /\ cover \in (IF mode = "keep" THEN {"top", "hidden"} ELSE {"top"})
  /\ raceUp = FALSE /\ scanAge = Scan /\ grabbed = FALSE /\ settled = FALSE

Running(p) == up[p] # "off"
Shown == {p \in Programs : up[p] = "shown"} \* find_cb: visible, and large enough
TopLevel == Shown \ adopted                 \* EnumWindows passes over children

-----------------------------------------------------------------------------
(* The launcher's timer.                                                   *)

Look ==
  /\ launcher = "rest" /\ launcher' = "looked"
  /\ \E w \in IF TopLevel = {} THEN {Nobody} ELSE TopLevel :
       saw' = [app |-> w, game |-> Running("race")]
  /\ UNCHANGED <<mode, keeps, up, front, lastTarget, unseen, cover, adopted, noticed,
                 settled, shimVars>>

Live(game) == IF game THEN "race" ELSE "shell"
Target == IF Live(saw.game) \in TopLevel THEN Live(saw.game) ELSE Nobody

\* A window of the band that gets the foreground comes up in it.
OverOnce(w) ==
  IF w \notin band THEN over ELSE IF w = "race" THEN {} ELSE over \cup {w}

\* Faulty variants: the foreground is given at every tick; to the frontend only.
GivenAlways == Target # Nobody
GivenShell == Target \notin {Nobody, lastTarget, "race"}

\* The hand-over: to a target that is not the last one.
Given == Target \notin {Nobody, lastTarget}

\* Faulty variant: KeepShell goes by the windows, as the backdrop does.
KeepSeesWindows ==
  /\ cover' = IF saw.app # Nobody THEN "hidden" ELSE cover
  /\ unseen' = IF saw.app # Nobody THEN 0 ELSE unseen
  /\ launcher' = IF saw.app = Nobody /\ unseen > Gone THEN "ended" ELSE "rest"

\* KeepShell: a focus watcher, which goes by the processes.
KeepTurn ==
  /\ cover' = IF saw.app # Nobody THEN "hidden" ELSE cover
  /\ unseen' = IF \E p \in Programs : Running(p) THEN 0 ELSE unseen
  /\ launcher' = IF unseen' > Gone THEN "ended" ELSE "rest"

\* Faulty variants: a cover that never rises again; a launcher that never ends.
CoverStays ==
  /\ cover' = IF saw.app # Nobody THEN "bottom" ELSE cover
  /\ unseen' = IF saw.app # Nobody THEN 0 ELSE unseen
  /\ launcher' = IF saw.app = Nobody /\ unseen > Gone THEN "ended" ELSE "rest"

CoverForever ==
  /\ cover' = IF saw.app # Nobody THEN "bottom" ELSE "top"
  /\ unseen' = 0 /\ launcher' = "rest"

\* The backdrop covers the desktop when no window is seen, and sinks otherwise.
CoverTurn ==
  /\ cover' = IF saw.app # Nobody THEN "bottom" ELSE "top"
  /\ unseen' = IF saw.app # Nobody THEN 0 ELSE unseen
  /\ launcher' = IF saw.app = Nobody /\ unseen > Gone THEN "ended" ELSE "rest"

\* Merge: the window becomes a child of the launcher's.
Adopting == mode = "merge" /\ saw.app # Nobody /\ saw.app \in Shown \ adopted

\* The window to give the foreground to is looked for right before it is given
\* (find_window_of, then give_focus, which asks again whether it is there).
Act ==
  /\ launcher = "looked"
  /\ lastTarget' = Target /\ saw' = NotLooked
  /\ front' = IF Adopting THEN "launcher" ELSE IF Given THEN Target ELSE front
  /\ over' = IF Given THEN OverOnce(Target) ELSE over
  /\ adopted' = IF Adopting THEN adopted \cup {saw.app} ELSE adopted
  /\ settled' = (settled \/ Given)
  /\ noticed' = (noticed \/ (saw.game /\ Running("race")))
  /\ \/ mode = "keep" /\ KeepTurn
     \/ (mode = "swap" \/ (mode = "merge" /\ saw.app = Nobody)) /\ CoverTurn
     \/ /\ mode = "merge" /\ saw.app # Nobody
        /\ unseen' = 0 /\ launcher' = "rest" /\ cover' = cover
  /\ UNCHANGED <<mode, keeps, up, band, raceUp, scanAge, graceAge, grabbed>>

-----------------------------------------------------------------------------
(* keep_not_topmost, in the frontend and in a windowed race.               *)

\* foreground_is_our_app
Focused == front \in Ours

\* Faulty variant: the first look is kept.
RaceLookOnce == raceUp

\* The look for a race, cached for Scan.
RaceLook == IF scanAge = Scan THEN Running("race") ELSE raceUp

ShellPoll ==
  /\ "shell" \in TopLevel
  /\ raceUp' = RaceLook /\ scanAge' = IF scanAge = Scan THEN 0 ELSE scanAge
  /\ IF Focused /\ ~raceUp' /\ OnTop
     THEN band' = band \cup {"shell"} /\ over' = over \cup {"shell"}
     ELSE band' = band \ {"shell"} /\ over' = over \ {"shell"}
  /\ UNCHANGED <<mode, keeps, up, front, launchVars, graceAge, grabbed>>

\* Faulty variants: the window stays in the band; one that is in it already is
\* not raised again.
RaceBandKept(want) ==
  /\ band' = IF want THEN band \cup {"race"} ELSE band
  /\ over' = IF want THEN {} ELSE over

RaceBandOnce(want) ==
  /\ band' = IF want THEN band \cup {"race"} ELSE band \ {"race"}
  /\ over' = IF want /\ "race" \in band THEN over ELSE AboveRace(want)

\* SetWindowPos raises the window each time, or drops it out of the band.
RaceBand(want) ==
  /\ band' = IF want THEN band \cup {"race"} ELSE band \ {"race"}
  /\ over' = AboveRace(want)

\* The foreground is nobody's and the grace not over.
InGrace == graceAge' < Grace /\ front = "desk"

\* With the foreground the race goes on top...
RacePollFocused ==
  /\ "race" \in TopLevel /\ Focused
  /\ RaceBand(OnTop)
  /\ UNCHANGED <<mode, keeps, up, front, launchVars, raceUp, scanAge, graceAge, grabbed>>

\* ... without it takes one that nobody has, or drops back.
RacePollUnfocused ==
  /\ "race" \in TopLevel /\ ~Focused
  /\ graceAge' = IF graceAge = -1 THEN 0 ELSE graceAge
  /\ front' = IF InGrace /\ ~grabbed THEN "race" ELSE front
  /\ grabbed' = (grabbed \/ InGrace)
  /\ RaceBand(InGrace /\ OnTop)
  /\ UNCHANGED <<mode, keeps, up, launchVars, raceUp, scanAge>>

-----------------------------------------------------------------------------
(* The shell's and the race's own code, the player, and time.              *)

Becomes(p, state) ==
  /\ up' = [up EXCEPT ![p] = state]
  /\ settled' = FALSE

\* The window appears and may take the foreground.
Show(p) ==
  /\ up[p] = "hidden"
  /\ p = "race" => noticed \/ launcher = "ended"
  /\ p = "shell" => keeps \/ ~Running("race")
  /\ Becomes(p, "shown") /\ front' \in {front, p}
  /\ over' = OverOnce(p)
  /\ UNCHANGED <<mode, keeps, launcher, saw, lastTarget, unseen, cover, adopted, noticed,
                 band, raceUp, scanAge, graceAge, grabbed>>

\* RUN: without KeepShell the frontend tears its window down.
StartRace ==
  /\ up["shell"] = "shown" /\ ~Running("race")
  /\ up' = [shell |-> IF keeps THEN "shown" ELSE "hidden", race |-> "hidden"]
  /\ front' \in {IF keeps THEN front ELSE "desk", "desk"}
  /\ settled' = FALSE
  /\ UNCHANGED <<mode, keeps, launcher, saw, lastTarget, unseen, cover, adopted, noticed,
                 shimVars>>

\* A program ends, with its window and its statics.
End(p) ==
  /\ Running(p) /\ Becomes(p, "off")
  /\ band' = band \ {p} /\ adopted' = adopted \ {p}
  /\ front' = IF front = p THEN "desk" ELSE front
  /\ IF p = "shell"
     THEN /\ raceUp' = FALSE /\ scanAge' = Scan /\ over' = over \ {"shell"}
          /\ UNCHANGED <<graceAge, grabbed, noticed>>
     ELSE /\ over' = AboveRace(FALSE)
          /\ graceAge' = -1 /\ grabbed' = FALSE /\ noticed' = FALSE
          /\ UNCHANGED <<raceUp, scanAge>>
  /\ UNCHANGED <<mode, keeps, launcher, saw, lastTarget, unseen, cover>>

Minimise(p) ==
  /\ p \in TopLevel /\ Becomes(p, "min")
  /\ front' = IF front = p THEN "desk" ELSE front
  /\ UNCHANGED <<mode, keeps, launcher, saw, lastTarget, unseen, cover, adopted, noticed,
                 shimVars>>

Restore(p) ==
  /\ up[p] = "min" /\ Becomes(p, "shown") /\ front' = p
  /\ over' = OverOnce(p)
  /\ UNCHANGED <<mode, keeps, launcher, saw, lastTarget, unseen, cover, adopted, noticed,
                 band, raceUp, scanAge, graceAge, grabbed>>

AltTab ==
  /\ front' \in {"desk", "other"} \cup TopLevel
  /\ over' = OverOnce(front')
  /\ UNCHANGED <<mode, keeps, up, launchVars, band, raceUp, scanAge, graceAge, grabbed>>

\* The shell pins its window, as it did in the cabinet.
Pin ==
  /\ "shell" \in Shown
  /\ band' = band \cup {"shell"} /\ over' = over \cup {"shell"}
  /\ UNCHANGED <<mode, keeps, up, front, launchVars, raceUp, scanAge, graceAge, grabbed>>

\* Explorer brings its taskbar up, for a notification or a pointer at the edge.
TaskbarRises ==
  /\ over' = over \cup {"taskbar"}
  /\ UNCHANGED <<mode, keeps, up, front, launchVars, band, raceUp, scanAge, graceAge,
                 grabbed>>

UpTo(cap, age) == IF age < cap THEN age + 1 ELSE age

\* The race polls every 120 ms: no tick goes by before it has seen that it is
\* without the foreground.
Tick ==
  /\ "race" \in TopLevel /\ ~Focused => graceAge # -1
  /\ unseen' = IF launcher = "ended" THEN unseen ELSE UpTo(Gone + 1, unseen)
  /\ scanAge' = UpTo(Scan, scanAge)
  /\ graceAge' = IF graceAge = -1 THEN -1 ELSE UpTo(Grace, graceAge)
  /\ grabbed' = FALSE
  /\ UNCHANGED <<mode, keeps, up, front, launcher, saw, lastTarget, cover, adopted,
                 noticed, settled, zorder, raceUp>>

RacePoll == RacePollFocused \/ RacePollUnfocused

Next ==
  \/ Look \/ Act \/ ShellPoll \/ RacePoll \/ StartRace \/ AltTab \/ Pin \/ TaskbarRises
  \/ Tick
  \/ \E p \in Programs : Show(p) \/ End(p) \/ Minimise(p) \/ Restore(p)

Spec == Init /\ [][Next]_vars

\* The timers fire and the frames come.
FairSpec ==
  /\ Spec /\ WF_vars(Look) /\ WF_vars(Act) /\ WF_vars(ShellPoll)
  /\ WF_vars(RacePoll) /\ WF_vars(Tick)

-----------------------------------------------------------------------------
(* Properties.                                                             *)

\* With KeepShell the launcher outlives both programs, whatever happens to
\* their windows (backdrop_proc: "a minimised window must not end the
\* watcher").
KeepOutlives == mode = "keep" /\ launcher = "ended" => \A p \in Programs : ~Running(p)

\* After the last program the launcher ends, in every mode.
LauncherEnds == []( [](\A p \in Programs : ~Running(p)) => <>(launcher = "ended") )

\* A race whose window has come gets the foreground, while the launcher is there
\* and though the programs move on between its look and its act.
RaceGetsFocus ==
  "race" \in TopLevel /\ lastTarget # "race"
    ~> front \in {"race", "launcher"} \/ "race" \notin TopLevel \/ launcher = "ended"

\* The launcher does not fight the player: once it has handed the foreground
\* over it takes it no more until a window comes or goes.
AltTabStands ==
  [][mode # "merge" /\ launcher = "looked" /\ launcher' # "looked" /\ settled
     => front' = front]_vars

\* A race that keeps the foreground comes on top of the taskbar and of the shell
\* again and again, whatever else of the band is brought up ("being *in* the
\* topmost band is not enough").
RaceHasFront == "race" \in TopLevel /\ front \in Ours /\ OnTop
RaceOnTop == <>[]RaceHasFront => []<>(over = {})

\* ... and comes to stay on top if they leave it alone, though the frontend's
\* look for a race is an old one ("yield the z-order to the race").
Intrudes == TaskbarRises \/ Pin \/ Restore("shell")
RaceKeepsTop == <>[]RaceHasFront /\ <>[][~Intrudes]_vars => <>[](over = {})

\* One that has lost the foreground for good, to a window or to nobody, stays
\* in the topmost band for no longer than its grace.
RaceLeavesTop ==
  <>[]("race" \in TopLevel /\ front \notin Ours) => <>[]("race" \notin band)

\* The desktop does not show between the programs: with both windows gone the
\* backdrop comes up, or a window does; and it does not stay over one that
\* has come.
DesktopCovered ==
  /\ mode = "swap" /\ Shown = {} /\ launcher # "ended" ~> cover = "top" \/ Shown # {}
  /\ <>[](mode # "merge" /\ TopLevel # {} /\ launcher # "ended") => <>[](cover # "top")
=============================================================================
