--------------------------- MODULE DesktopProofs ---------------------------
(***************************************************************************)
(* Proofs about Desktop, for all thresholds and modes: the types, that a   *)
(* KeepShell launcher outlives both programs, and that the launcher leaves *)
(* the foreground to the player once it has handed it over.                *)
(***************************************************************************)
EXTENDS Desktop, TLAPS

\* The launcher has just resumed the shell: the types hold.
LEMMA TypesHold == Init => TypeOK
<1> SUFFICES ASSUME Init PROVE TypeOK
  OBVIOUS
<1> USE DesktopAssumption DEF Init, Programs, Nobody, Ours
<1>1. Gone \in Nat /\ Scan \in Nat /\ Grace \in Nat
  OBVIOUS
<1>2. /\ up \in [Programs -> {"off", "hidden", "min", "shown"}]
      /\ front \in Ours \cup {"desk", "other"} /\ band \subseteq Programs
      /\ noticed \in BOOLEAN /\ over \subseteq {"taskbar", "shell"}
      /\ cover \in {"top", "bottom", "hidden"}
  OBVIOUS
<1>3. unseen \in 0..Gone + 1 /\ scanAge \in 0..Scan /\ graceAge \in -1..Grace
  BY <1>1
<1>4. saw \in [app : Programs \cup {Nobody}, game : BOOLEAN]
  BY DEF NotLooked
<1> QED
  BY <1>2, <1>3, <1>4 DEF TypeOK

\* A count towards a cap stays below it (ages and g_lastSeen).
LEMMA UpToTyped ==
  ASSUME NEW cap \in Nat, NEW age \in 0..cap
  PROVE  UpTo(cap, age) \in 0..cap
BY DEF UpTo

LEMMA TypesStep ==
  ASSUME TypeOK, [Next]_vars
  PROVE  TypeOK'
<1> USE DesktopAssumption DEF TypeOK, Programs, Nobody, Ours, launchVars, shimVars, zorder
<1>0. /\ \A raised : AboveRace(raised) \subseteq {"taskbar", "shell"}
      /\ \A w : OverOnce(w) \subseteq {"taskbar", "shell"}
  BY DEF AboveRace, OverOnce
<1>1. CASE Look
  BY <1>1 DEF Look, TopLevel, Shown, Running
<1>2. CASE Act
  <2>1. Target \in Programs \cup {Nobody}
    BY DEF Target, Live
  <2>2. /\ unseen' \in 0..Gone + 1 /\ launcher' \in {"rest", "ended"}
        /\ cover' \in {"top", "bottom", "hidden"}
    <3>1. CASE KeepTurn
      BY <3>1 DEF KeepTurn
    <3>2. CASE CoverTurn
      BY <3>2 DEF CoverTurn
    <3>3. CASE unseen' = 0 /\ launcher' = "rest" /\ cover' = cover
      BY <3>3
    <3> QED
      BY <1>2, <3>1, <3>2, <3>3 DEF Act
  <2>3. front' \in Ours \cup {"desk", "other"} /\ adopted' \subseteq Programs
    BY <1>2, <2>1 DEF Act, Adopting, Given, Shown
  <2>4. settled' \in BOOLEAN /\ noticed' \in BOOLEAN
    BY <1>2 DEF Act
  <2>5. over' \subseteq {"taskbar", "shell"}
    BY <1>0, <1>2 DEF Act
  <2> QED
    BY <1>2, <2>1, <2>2, <2>3, <2>4, <2>5 DEF Act, NotLooked
<1>3. CASE ShellPoll
  <2>1. scanAge' \in 0..Scan
    BY <1>3 DEF ShellPoll
  <2>2. raceUp' \in BOOLEAN
    BY <1>3 DEF ShellPoll, RaceLook, Running
  <2>3. band' \subseteq Programs /\ over' \subseteq {"taskbar", "shell"}
    BY <1>3 DEF ShellPoll
  <2> QED
    BY <1>3, <2>1, <2>2, <2>3 DEF ShellPoll
<1>4. CASE RacePollFocused
  BY <1>0, <1>4 DEF RacePollFocused, RaceBand
<1>5. CASE RacePollUnfocused
  <2>1. graceAge' \in -1..Grace
    BY <1>5 DEF RacePollUnfocused
  <2>2. band' \subseteq Programs /\ over' \subseteq {"taskbar", "shell"}
    BY <1>0, <1>5 DEF RacePollUnfocused, RaceBand
  <2>3. front' \in Ours \cup {"desk", "other"} /\ grabbed' \in BOOLEAN
    BY <1>5 DEF RacePollUnfocused, InGrace
  <2> QED
    BY <1>5, <2>1, <2>2, <2>3 DEF RacePollUnfocused
<1>6. CASE StartRace
  <2>1. up' \in [Programs -> {"off", "hidden", "min", "shown"}]
    BY <1>6 DEF StartRace
  <2>2. front' \in Ours \cup {"desk", "other"} /\ settled' \in BOOLEAN
    BY <1>6 DEF StartRace
  <2> QED
    BY <1>6, <2>1, <2>2 DEF StartRace
<1>7. CASE AltTab
  BY <1>0, <1>7 DEF AltTab, TopLevel, Shown
<1>8. CASE Pin
  BY <1>8 DEF Pin
<1>9. CASE Tick
  <2>1. unseen' \in 0..Gone + 1
    BY <1>9, UpToTyped DEF Tick
  <2>2. scanAge' \in 0..Scan
    BY <1>9, UpToTyped DEF Tick
  <2>3. graceAge' \in -1..Grace
    <3>1. CASE graceAge = -1
      BY <1>9, <3>1 DEF Tick
    <3>2. CASE graceAge \in 0..Grace
      BY <1>9, <3>2, UpToTyped DEF Tick
    <3> QED
      BY <3>1, <3>2
  <2> QED
    BY <1>9, <2>1, <2>2, <2>3 DEF Tick
<1>10. ASSUME NEW p \in Programs, Show(p) PROVE TypeOK'
  <2>1. up' \in [Programs -> {"off", "hidden", "min", "shown"}] /\ settled' \in BOOLEAN
    BY <1>10 DEF Show, Becomes
  <2>2. front' \in Ours \cup {"desk", "other"} /\ over' \subseteq {"taskbar", "shell"}
    BY <1>0, <1>10 DEF Show
  <2> QED
    BY <1>10, <2>1, <2>2 DEF Show
<1>11. ASSUME NEW p \in Programs, End(p) PROVE TypeOK'
  <2>1. up' \in [Programs -> {"off", "hidden", "min", "shown"}] /\ settled' \in BOOLEAN
    BY <1>11 DEF End, Becomes
  <2>2. /\ band' \subseteq Programs /\ adopted' \subseteq Programs
        /\ front' \in Ours \cup {"desk", "other"}
    BY <1>11 DEF End
  <2>3. scanAge' \in 0..Scan /\ graceAge' \in -1..Grace
    <3>1. (scanAge' = Scan /\ graceAge' = graceAge) \/ (scanAge' = scanAge /\ graceAge' = -1)
      BY <1>11 DEF End
    <3> QED
      BY <3>1
  <2>4. over' \subseteq {"taskbar", "shell"}
    <3>1. over' = over \ {"shell"} \/ over' = AboveRace(FALSE)
      BY <1>11 DEF End
    <3>2. over \ {"shell"} \subseteq {"taskbar", "shell"}
      OBVIOUS
    <3> QED
      BY ONLY <1>0, <3>1, <3>2
  <2>5. raceUp' \in BOOLEAN /\ grabbed' \in BOOLEAN /\ noticed' \in BOOLEAN
    <3>1. raceUp \in BOOLEAN /\ grabbed \in BOOLEAN /\ noticed \in BOOLEAN
      OBVIOUS
    <3>2. \/ raceUp' = FALSE /\ grabbed' = grabbed /\ noticed' = noticed
          \/ raceUp' = raceUp /\ grabbed' = FALSE /\ noticed' = FALSE
      BY <1>11 DEF End
    <3> QED
      BY ONLY <3>1, <3>2
  <2> QED
    BY <1>11, <2>1, <2>2, <2>3, <2>4, <2>5 DEF End
<1>12. ASSUME NEW p \in Programs, Minimise(p) PROVE TypeOK'
  BY <1>12 DEF Minimise, Becomes
<1>13. ASSUME NEW p \in Programs, Restore(p) PROVE TypeOK'
  <2>1. up' \in [Programs -> {"off", "hidden", "min", "shown"}] /\ settled' \in BOOLEAN
    BY <1>13 DEF Restore, Becomes
  <2>2. front' \in Ours /\ over' \subseteq {"taskbar", "shell"}
    BY <1>0, <1>13 DEF Restore
  <2> QED
    BY <1>13, <2>1, <2>2 DEF Restore
<1>14. CASE UNCHANGED vars
  BY <1>14 DEF vars
<1>15. CASE TaskbarRises
  BY <1>15 DEF TaskbarRises
<1> QED
  BY <1>1, <1>2, <1>3, <1>4, <1>5, <1>6, <1>7, <1>8, <1>9, <1>10, <1>11, <1>12, <1>13,
     <1>14, <1>15 DEF Next, RacePoll

\* The state has its type in every reachable state.
THEOREM TypeCorrect == Spec => []TypeOK
<1>1. TypeOK /\ [Next]_vars => TypeOK'
  BY TypesStep
<1> QED
  BY <1>1, TypesHold, PTL DEF Spec

-----------------------------------------------------------------------------
\* With KeepShell the launcher ends only after both programs, whatever becomes
\* of their windows (KeepTurn of backdrop_proc goes by the processes).
THEOREM LauncherOutlives == Spec => []KeepOutlives
<1>1. Init => KeepOutlives
  BY DEF Init, KeepOutlives
<1>2. TypeOK /\ KeepOutlives /\ [Next]_vars => KeepOutlives'
  <2> SUFFICES ASSUME TypeOK, KeepOutlives, [Next]_vars, mode' = "keep", launcher' = "ended",
                      NEW q \in Programs
               PROVE  ~Running(q)'
    BY DEF KeepOutlives
  <2> USE DEF KeepOutlives, Running, launchVars, shimVars, zorder
  <2>1. CASE Act
    <3>1. mode = "keep" /\ up' = up /\ KeepTurn
      BY <2>1 DEF Act
    <3>2. ASSUME Running(q) PROVE FALSE
      <4>1. unseen' = 0 /\ unseen' > Gone
        BY <3>1, <3>2 DEF KeepTurn
      <4> QED
        BY <4>1, DesktopAssumption
    <3> QED
      BY <3>1, <3>2
  <2>2. ASSUME NEW p \in Programs, Show(p) \/ Minimise(p) \/ Restore(p) PROVE ~Running(q)'
    <3>1. Running(p) /\ launcher = "ended" /\ mode = "keep"
      BY <2>2 DEF Show, Minimise, Restore, TopLevel, Shown
    <3> QED
      BY <3>1
  <2>3. ASSUME NEW p \in Programs, End(p) PROVE ~Running(q)'
    <3>1. up' = [up EXCEPT ![p] = "off"] /\ launcher = "ended" /\ mode = "keep"
      BY <2>3 DEF End, Becomes
    <3> QED
      BY <3>1 DEF TypeOK
  <2>4. CASE StartRace
    <3>1. Running("shell") /\ launcher = "ended" /\ mode = "keep"
      BY <2>4 DEF StartRace
    <3> QED
      BY <3>1 DEF Programs
  <2>5. CASE Look
    BY <2>5 DEF Look
  <2>6. CASE ShellPoll \/ RacePoll \/ AltTab \/ Pin \/ TaskbarRises \/ Tick
    BY <2>6 DEF ShellPoll, RacePoll, RacePollFocused, RacePollUnfocused, AltTab, Pin,
                TaskbarRises, Tick
  <2>7. CASE UNCHANGED vars
    BY <2>7 DEF vars
  <2> QED
    BY <2>1, <2>2, <2>3, <2>4, <2>5, <2>6, <2>7 DEF Next
<1> QED
  BY <1>1, <1>2, TypeCorrect, PTL DEF Spec

-----------------------------------------------------------------------------
(* The hand-over.                                                          *)

\* The window that a look at this moment would find for the live program.
Present == IF Live(Running("race")) \in TopLevel THEN Live(Running("race")) ELSE Nobody

\* What holds of a launcher that adopts no windows.  A race is noticed before
\* its window shows, and a look that comes after has seen it; so the target of
\* a hand-over is the one that a fresh look would find, and nothing else becomes
\* the target until a window comes or goes.
HandedOver ==
  mode # "merge" /\ launcher # "ended" =>
    /\ adopted = {}
    /\ noticed => Running("race")
    /\ noticed /\ launcher = "looked" => saw.game
    /\ up["race"] \in {"min", "shown"} => noticed
    /\ settled /\ launcher = "looked" => saw.game = Running("race")
    /\ settled => Present \in {Nobody, lastTarget}

\* The timer's turn keeps it, however old its look is.
LEMMA ActHandsOver ==
  ASSUME TypeOK, HandedOver, Act
  PROVE  HandedOver'
<1> USE DEF Programs, Nobody
<1>1. SUFFICES ASSUME mode' # "merge", launcher' # "ended"
               PROVE  /\ adopted' = {}
                      /\ noticed' => Running("race")'
                      /\ up'["race"] \in {"min", "shown"} => noticed'
                      /\ settled' => Present' \in {Nobody, lastTarget'}
                      /\ launcher' # "looked"
  BY DEF HandedOver
<1>2. /\ mode # "merge" /\ launcher = "looked" /\ up' = up /\ mode' = mode
      /\ adopted' = adopted /\ lastTarget' = Target
      /\ noticed' <=> noticed \/ (saw.game /\ Running("race"))
      /\ settled' <=> settled \/ Given
  BY <1>1 DEF Act, Adopting
<1>3. /\ adopted = {}
      /\ noticed => Running("race")
      /\ noticed => saw.game
      /\ up["race"] \in {"min", "shown"} => noticed
      /\ settled => saw.game = Running("race")
      /\ settled => Present \in {Nobody, lastTarget}
  BY <1>2 DEF HandedOver
<1>4. launcher' # "looked"
  BY <1>2 DEF Act, KeepTurn, CoverTurn
<1>5. Present' = Present
  BY <1>2 DEF Present, TopLevel, Shown, Live, Running
<1>6. "race" \in TopLevel => noticed /\ Running("race")
  BY <1>3 DEF TopLevel, Shown, Running
<1>7. ASSUME settled' PROVE Present \in {Nobody, Target}
  <2>1. CASE settled
    BY <1>3, <2>1 DEF Present, Target
  <2>2. CASE Given
    <3>1. Target = Live(saw.game) /\ Target \in TopLevel
      BY <2>2 DEF Given, Target
    <3>2. CASE Running("race")
      BY <1>3, <1>6, <3>1, <3>2 DEF Present, Live
    <3>3. CASE ~Running("race")
      BY <1>3, <1>6, <3>1, <3>3 DEF Present, Live
    <3> QED
      BY <3>2, <3>3
  <2> QED
    BY <1>2, <1>7, <2>1, <2>2
<1>8. noticed' => Running("race")'
  <2>1. noticed' => Running("race")
    BY ONLY <1>2, <1>3
  <2>2. Running("race")' <=> Running("race")
    BY <1>2 DEF Running
  <2> QED
    BY ONLY <2>1, <2>2
<1>9. up'["race"] \in {"min", "shown"} => noticed'
  BY <1>2, <1>3
<1>10. settled' => Present' \in {Nobody, lastTarget'}
  BY <1>2, <1>5, <1>7
<1>11. adopted' = {}
  BY <1>2, <1>3
<1> QED
  BY ONLY <1>4, <1>8, <1>9, <1>10, <1>11

\* The other steps keep it: a window that comes or goes takes the hand-over
\* back, and a race that ends is no longer noticed.
LEMMA HandedOverStep ==
  ASSUME TypeOK, HandedOver, [Next]_vars
  PROVE  HandedOver'
<1> USE DEF Programs, Nobody, launchVars, shimVars, zorder
<1> DEFINE Same == UNCHANGED <<mode, up, adopted, noticed, settled, lastTarget, launcher, saw>>
<1>1. ASSUME Same PROVE HandedOver'
  BY <1>1 DEF HandedOver, Present, TopLevel, Shown, Live, Running
<1>2. CASE ShellPoll \/ RacePoll \/ AltTab \/ Pin \/ TaskbarRises \/ Tick \/ UNCHANGED vars
  <2>1. Same
    BY <1>2 DEF ShellPoll, RacePoll, RacePollFocused, RacePollUnfocused, AltTab, Pin,
                TaskbarRises, Tick, vars
  <2> QED
    BY <1>1, <2>1
<1>3. CASE Act
  BY <1>3, ActHandsOver
<1>4. CASE Look
  <2>1. /\ UNCHANGED <<mode, up, adopted, noticed, settled, lastTarget>>
        /\ launcher = "rest" /\ launcher' = "looked" /\ saw'.game = Running("race")
    BY <1>4 DEF Look
  <2>2. Present' = Present /\ Running("race")' = Running("race")
    BY <2>1 DEF Present, TopLevel, Shown, Live, Running
  <2> QED
    BY <2>1, <2>2 DEF HandedOver
<1>5. ASSUME NEW p \in Programs, Show(p) PROVE HandedOver'
  BY <1>5 DEF Show, Becomes, HandedOver, Running, TypeOK
<1>6. ASSUME NEW p \in Programs, Minimise(p) PROVE HandedOver'
  BY <1>6 DEF Minimise, Becomes, HandedOver, Running, TopLevel, Shown, TypeOK
<1>7. ASSUME NEW p \in Programs, Restore(p) PROVE HandedOver'
  BY <1>7 DEF Restore, Becomes, HandedOver, Running, TypeOK
<1>8. CASE StartRace
  BY <1>8 DEF StartRace, HandedOver, Running
<1>9. ASSUME NEW p \in Programs, End(p) PROVE HandedOver'
  <2>1. CASE p = "shell"
    BY <1>9, <2>1 DEF End, Becomes, HandedOver, Running, TypeOK
  <2>2. CASE p = "race"
    BY <1>9, <2>2 DEF End, Becomes, HandedOver, Running, TypeOK
  <2> QED
    BY <2>1, <2>2
<1> QED
  BY <1>2, <1>3, <1>4, <1>5, <1>6, <1>7, <1>8, <1>9 DEF Next

\* Once it has handed the foreground over the launcher leaves it to the player
\* until a window comes or goes, though its looks are old when it acts
\* (lastTarget of backdrop_proc).
THEOREM PlayerIsLeftAlone == Spec => AltTabStands
<1>1. Init => HandedOver
  <2> SUFFICES ASSUME Init PROVE HandedOver
    OBVIOUS
  <2>1. launcher = "rest" /\ adopted = {} /\ settled = FALSE
    BY DEF Init
  <2>2. noticed <=> up["race"] \in {"min", "shown"}
    BY DEF Init
  <2> QED
    BY <2>1, <2>2 DEF HandedOver, Running
<1>2. TypeOK /\ HandedOver /\ [Next]_vars => HandedOver'
  BY HandedOverStep
<1>3. TypeOK /\ HandedOver /\ [Next]_vars
        => [mode # "merge" /\ launcher = "looked" /\ launcher' # "looked" /\ settled
              => front' = front]_vars
  <2> SUFFICES ASSUME HandedOver, Next, mode # "merge", launcher = "looked",
                      launcher' # "looked", settled
               PROVE  front' = front
    OBVIOUS
  <2>1. Act
    BY DEF Next, Look, ShellPoll, RacePoll, RacePollFocused, RacePollUnfocused, StartRace,
           AltTab, Pin, TaskbarRises, Tick, Show, End, Minimise, Restore, Becomes, launchVars
  <2>2. saw.game = Running("race") /\ Present \in {Nobody, lastTarget}
    BY DEF HandedOver
  <2>3. Target = Present
    BY <2>2 DEF Target, Present
  <2> QED
    BY <2>1, <2>2, <2>3 DEF Act, Adopting, Given
<1> QED
  BY <1>1, <1>2, <1>3, TypeCorrect, PTL DEF Spec, AltTabStands
=============================================================================
