----------------------------- MODULE StartProofs -----------------------------
(***************************************************************************)
(* What is settled while a session starts.  Launch's invariants, for every *)
(* set of builds; and the maps that Settings reads from the file, for      *)
(* every file, however long, and every set of built-in maps.               *)
(***************************************************************************)
EXTENDS Launch, Settings, SequenceTheorems, FiniteSetTheorems, TLAPS

-----------------------------------------------------------------------------
(* Launch.                                                                 *)

\* How far the launcher has come with the frontend it has started.
Before == {"guard", "create", "sizes", "keep", "window", "resume"}
Patched == {"window", "resume", "watch"}

Progress ==
  /\ keepShell \in BOOLEAN
  /\ pc \in Before => shell # "runs"
  /\ pc \in {"sizes", "keep", "window", "resume"} => shell = "suspended"
  /\ pc \in {"sizes", "keep"} => written \cap KeepSites = {} /\ ~botched
  /\ pc \in {"guard", "create", "sizes", "keep"} => ~keepShell
  /\ pc = "resume" /\ keepShell => window

Whole ==
  /\ shell # Off /\ ~botched => written \cap KeepSites \in {{}, KeepSites}
  /\ pc \in Patched /\ shell # Off /\ ~botched => keepShell = (KeepSites \subseteq written)
  /\ pc \in Patched /\ shell # Off /\ KeepSites \subseteq written => keepShell

Inv == Progress /\ Whole /\ KeepHasWatcher

LEMMA InvInit == Init => Inv
  BY DEF Init, Inv, Progress, Whole, KeepHasWatcher, Before, Patched, Off

LEMMA InvStep ==
  ASSUME Inv, Next
  PROVE  Inv'
<1> USE DEF Off, Before, Patched
<1>1. CASE Start
  BY <1>1 DEF Start, Inv, Progress, Whole, KeepHasWatcher, machine
<1>2. CASE Guard
  BY <1>2 DEF Guard, Inv, Progress, Whole, KeepHasWatcher, machine, launcher
<1>3. CASE Create
  BY <1>3 DEF Create, Inv, Progress, Whole, KeepHasWatcher, machine, launcher, KeepSites
<1>4. CASE PatchSizes
  BY <1>4 DEF PatchSizes, Patchable, Inv, Progress, Whole, KeepHasWatcher, machine,
              launcher, KeepSites, SizeSites
<1>5. CASE PatchKeep
  <2>1. /\ pc = "keep" /\ pc' = "window" /\ shell = "suspended" /\ ~keepShell /\ ~botched
        /\ written \cap KeepSites = {} /\ shell' = shell
    BY <1>5 DEF PatchKeep, Inv, Progress
  <2>2. CASE Says("keep") /\ \E refused \in SUBSET KeepSites : KeepAll(refused)
    <3>1. PICK refused \in SUBSET KeepSites : KeepAll(refused)
      BY <2>2
    <3>2. CASE KeepSites \subseteq sites
      <4>1. keepShell' /\ written' = written \cup (KeepSites \ refused)
            /\ botched' = (refused # {})
        BY <3>1, <3>2 DEF KeepAll
      <4>2. ~botched' => KeepSites \subseteq written'
        BY <4>1
      <4>3. QED
        BY <2>1, <4>1, <4>2 DEF Inv, Progress, Whole, KeepHasWatcher
    <3>3. CASE ~(KeepSites \subseteq sites)
      <4>1. keepShell' = FALSE /\ written' = written /\ ~botched'
        BY <3>1, <3>3 DEF KeepAll
      <4>2. ~(KeepSites \subseteq written')
        BY <2>1, <4>1 DEF KeepSites
      <4>3. QED
        BY <2>1, <4>1, <4>2 DEF Inv, Progress, Whole, KeepHasWatcher
    <3>4. QED
      BY <3>2, <3>3
  <2>3. CASE UNCHANGED <<keepShell, written, botched>>
    <3>1. ~(KeepSites \subseteq written') /\ keepShell' = FALSE
      BY <2>1, <2>3 DEF KeepSites, Inv, Progress
    <3>2. QED
      BY <2>1, <2>3, <3>1 DEF Inv, Progress, Whole, KeepHasWatcher
  <2>4. QED
    BY <1>5, <2>2, <2>3 DEF PatchKeep
<1>6. CASE MakeWindow
  BY <1>6 DEF MakeWindow, NeedsWindow, Inv, Progress, Whole, KeepHasWatcher, machine
<1>7. CASE Resume
  BY <1>7 DEF Resume, Inv, Progress, Whole, KeepHasWatcher, machine, launcher
<1>8. CASE Leave
  BY <1>8 DEF Leave, Inv, Progress, Whole, KeepHasWatcher, machine, launcher
<1>9. CASE Kill
  BY <1>9 DEF Kill, Steps, Inv, Progress, Whole, KeepHasWatcher, machine, launcher
<1>10. CASE ShellEnds
  BY <1>10 DEF ShellEnds, Inv, Progress, Whole, KeepHasWatcher, machine, launcher
<1>11. CASE RunRace \/ RaceEnds \/ \E key \in Keys : Edit(key)
  BY <1>11 DEF RunRace, RaceEnds, Edit, Inv, Progress, Whole, KeepHasWatcher, machine,
               launcher
<1>12. QED
  BY <1>1, <1>2, <1>3, <1>4, <1>5, <1>6, <1>7, <1>8, <1>9, <1>10, <1>11 DEF Next

\* A frontend is patched whole, and its launcher knows, for every set of builds.
THEOREM ShellKeptWhole == Spec => []KeepIsWhole
<1>1. Inv => KeepIsWhole
  BY DEF Inv, Whole, KeepIsWhole, Patched, Off
<1>2. Inv /\ [Next]_vars => Inv'
  <2>1. CASE UNCHANGED vars
    BY <2>1 DEF Inv, Progress, Whole, KeepHasWatcher, vars, launcher
  <2>2. QED
    BY <2>1, InvStep
<1>3. QED
  BY <1>1, <1>2, InvInit, PTL DEF Spec

\* A frontend that stays behind the race has its watcher, for every set of
\* builds: Leave waits for it because the launcher knows (Whole).
THEOREM KeptShellIsWatched == Spec => []KeepHasWatcher
<1>1. Inv => KeepHasWatcher
  BY DEF Inv
<1>2. Inv /\ [Next]_vars => Inv'
  <2>1. CASE UNCHANGED vars
    BY <2>1 DEF Inv, Progress, Whole, KeepHasWatcher, vars, launcher
  <2>2. QED
    BY <2>1, InvStep
<1>3. QED
  BY <1>1, <1>2, InvInit, PTL DEF Spec

\* The token in the file is the one asked for, so the race's mode is.
THEOREM RaceModeAsAsked == Spec => ModeAsAsked
<1> DEFINE Synced == asked = "none" \/ args = asked
<1>1. Init => Synced
  BY DEF Init
<1>2. Synced /\ [Next]_vars => Synced'
  BY DEF Next, vars, machine, launcher, Start, Sync, Guard, Create, PatchSizes, PatchKeep,
     MakeWindow, Resume, Leave, Kill, ShellEnds, Edit, RunRace, RaceEnds
<1>3. Synced /\ [Next]_vars => [RunRace => asked = "none" \/ race' = asked]_vars
  BY DEF RunRace
<1>4. QED
  BY <1>1, <1>2, <1>3, PTL DEF Spec, ModeAsAsked

\* The frontend's environment leads to this install's database.
THEOREM DatabaseIsOwn == Spec => []OwnDatabase
<1> DEFINE Begun == shell = "runs" \/ pc \in {"create", "sizes", "keep", "window", "resume"}
           Led == Begun => (ownDb => Opens = "own")
<1>1. Init => Led
  BY DEF Init, Off
<1>2. Led /\ [Next]_vars => Led'
  <2> SUFFICES ASSUME Led, [Next]_vars
               PROVE  Led'
    OBVIOUS
  <2>1. CASE Guard
    <3>1. CASE pc' = Off /\ UNCHANGED env
      BY <2>1, <3>1 DEF Guard, machine, Opens, Off
    <3>2. CASE env' = OwnEnv
      BY <2>1, <3>2 DEF Guard, machine, Opens, OwnEnv
    <3>3. QED
      BY <2>1, <3>1, <3>2 DEF Guard
  <2>2. CASE UNCHANGED <<env, ownDb>> /\ (Begun' => Begun)
    BY <2>2 DEF Opens
  <2>3. CASE Start \/ Create \/ PatchSizes \/ PatchKeep \/ MakeWindow \/ Resume \/ Leave
             \/ Kill
    <3>0. CASE Start
      BY <3>0 DEF Start
    <3>1. CASE Create
      BY <2>2, <3>1 DEF machine, Create, Off
    <3>2. CASE PatchSizes \/ PatchKeep \/ MakeWindow
      BY <2>2, <3>2 DEF machine, PatchSizes, PatchKeep, MakeWindow
    <3>3. CASE Resume \/ Leave \/ Kill
      BY <2>2, <3>3 DEF machine, Resume, Leave, Kill, Off
    <3>4. QED
      BY <2>3, <3>0, <3>1, <3>2, <3>3
  <2>4. CASE RunRace \/ RaceEnds \/ ShellEnds \/ (\E key \in Keys : Edit(key))
             \/ UNCHANGED vars
    BY <2>2, <2>4 DEF machine, vars, ShellEnds, Edit, RunRace, RaceEnds
  <2>5. QED
    BY <2>1, <2>3, <2>4 DEF Next
<1>3. Led => OwnDatabase
  BY DEF OwnDatabase
<1>4. QED
  BY <1>1, <1>2, <1>3, PTL DEF Spec

\* A value keeps its type (settings, machine, launcher, programs).
THEOREM StartIsTyped == Spec => []TypeOK
<1>1. Init => TypeOK
  BY LaunchAssumption DEF Init, TypeOK, Inherited, Modes, Steps, Off
<1>2. TypeOK /\ [Next]_vars => TypeOK'
  <2> SUFFICES ASSUME TypeOK, [Next]_vars
               PROVE  TypeOK'
    OBVIOUS
  <2> USE LaunchAssumption DEF TypeOK, Modes, Steps, Off, machine, launcher
  <2>1. CASE Start
    BY <2>1 DEF Start, Sync, Says, Inherited
  <2>2. CASE Guard
    <3>1. OwnEnv \in [db : {"own", "other", "unset"}, nas1 : BOOLEAN]
      BY DEF OwnEnv
    <3>2. env' \in [db : {"own", "other", "unset"}, nas1 : BOOLEAN] /\ pc' \in {"create", "off"}
      BY <2>2, <3>1 DEF Guard
    <3>3. QED
      BY <2>2, <3>2 DEF Guard
  <2>3. CASE Create
    <3>1. /\ shell' \in {"off", "suspended", "runs"} /\ written' \subseteq KeepSites \cup SizeSites
          /\ botched' \in BOOLEAN /\ pc' \in {"sizes", "off"}
      BY <2>3 DEF Create
    <3>2. QED
      BY <2>3, <3>1 DEF Create
  <2>4. CASE PatchSizes
    BY <2>4 DEF PatchSizes, Patchable
  <2>5. CASE PatchKeep
    <3>1. /\ written' \subseteq KeepSites \cup SizeSites
          /\ keepShell' \in BOOLEAN /\ botched' \in BOOLEAN
      <4>1. CASE UNCHANGED <<keepShell, written, botched>>
        BY <4>1
      <4>2. ASSUME NEW refused \in SUBSET KeepSites, KeepAll(refused)
            PROVE  /\ written' \subseteq KeepSites \cup SizeSites
                   /\ keepShell' \in BOOLEAN /\ botched' \in BOOLEAN
        <5>1. keepShell' \in BOOLEAN /\ botched' \in BOOLEAN
          BY ONLY <4>2 DEF KeepAll
        <5>2. written' \subseteq KeepSites \cup SizeSites
          BY <4>2 DEF KeepAll
        <5>3. QED
          BY <5>1, <5>2
      <4>3. QED
        BY <2>5, <4>1, <4>2 DEF PatchKeep
    <3>2. QED
      BY <2>5, <3>1 DEF PatchKeep
  <2>6. CASE MakeWindow
    BY <2>6 DEF MakeWindow, Says, NeedsWindow, Backdrop
  <2>7. CASE Resume \/ Leave \/ Kill
    BY <2>7 DEF Resume, Leave, Kill
  <2>8. CASE RunRace
    BY <2>8 DEF RunRace
  <2>9. CASE RaceEnds \/ ShellEnds
    BY <2>9 DEF RaceEnds, ShellEnds
  <2>10. ASSUME NEW key \in Keys, Edit(key)
         PROVE  TypeOK'
    BY <2>10 DEF Edit
  <2>11. CASE UNCHANGED vars
    BY <2>11 DEF vars
  <2>12. QED
    BY <2>1, <2>2, <2>3, <2>4, <2>5, <2>6, <2>7, <2>8, <2>9, <2>10, <2>11 DEF Next
<1>3. QED
  BY <1>1, <1>2, PTL DEF Spec

-----------------------------------------------------------------------------
(* The operators on maps.  A is the set of a map's actions.                *)

MapsOf(A) == [1..Cap -> (Buttons \X A) \cup {Free}]

\* A button that is taken out has nothing, and the others keep theirs.
LEMMA WithoutTakesOut ==
  ASSUME NEW A, NEW m \in MapsOf(A), NEW b \in Buttons
  PROVE  /\ Without(m, b) \in MapsOf(A)
         /\ On(Without(m, b), b) = {}
         /\ \A c \in Buttons \ {b} : On(Without(m, b), c) = On(m, c)
<1>1. DOMAIN m = 1..Cap /\ \A i \in 1..Cap : m[i] \in (Buttons \X A) \cup {Free}
  BY DEF MapsOf
<1>2. Free[1] \notin Buttons
  BY SettingsAssumption DEF Free
<1>3. \A i \in 1..Cap : Without(m, b)[i] = IF m[i][1] = b THEN Free ELSE m[i]
  BY <1>1 DEF Without
<1>4. DOMAIN Without(m, b) = 1..Cap
  BY <1>1 DEF Without
<1>5. Without(m, b) \in MapsOf(A)
  BY <1>1 DEF Without, MapsOf
<1>6. On(Without(m, b), b) = {}
  BY <1>2, <1>3, <1>4 DEF On
<1>7. ASSUME NEW c \in Buttons \ {b}
      PROVE  On(Without(m, b), c) = On(m, c)
  <2>1. \A i \in 1..Cap : Without(m, b)[i][1] = c <=> m[i][1] = c
    BY <1>2, <1>3, <1>7
  <2>2. \A i \in 1..Cap : m[i][1] = c => Without(m, b)[i] = m[i]
    BY <1>3, <1>7
  <2>3. QED
    BY <1>1, <1>4, <2>1, <2>2 DEF On
<1>8. QED
  BY <1>5, <1>6, <1>7

\* An action that is put in is there, unless the map is full.
LEMMA PlusAdds ==
  ASSUME NEW A, NEW m \in MapsOf(A), NEW b \in Buttons, NEW a \in A
  PROVE  /\ Plus(m, b, a) \in MapsOf(A)
         /\ Full(m) => Plus(m, b, a) = m
         /\ ~Full(m) => On(Plus(m, b, a), b) = On(m, b) \cup {a}
         /\ \A c \in Buttons \ {b} : On(Plus(m, b, a), c) = On(m, c)
<1>1. DOMAIN m = 1..Cap /\ \A i \in 1..Cap : m[i] \in (Buttons \X A) \cup {Free}
  BY DEF MapsOf
<1>2. Free[1] \notin Buttons
  BY SettingsAssumption DEF Free
<1>3. CASE Full(m)
  BY <1>3 DEF Plus
<1>4. CASE ~Full(m)
  <2>1. PICK k \in 1..Cap : m[k] = Free /\ Plus(m, b, a) = [m EXCEPT ![k] = <<b, a>>]
    BY <1>1, <1>4 DEF Full, Plus
  <2> DEFINE n == Plus(m, b, a)
  <2>2. n \in MapsOf(A)
    BY <1>1, <2>1 DEF MapsOf
  <2>3. /\ DOMAIN n = 1..Cap
        /\ n[k] = <<b, a>>
        /\ \A i \in 1..Cap \ {k} : n[i] = m[i]
    BY <1>1, <2>1
  <2>4. m[k][1] \notin Buttons /\ n[k][1] = b /\ n[k][2] = a
    BY <1>2, <2>1, <2>3
  <2> HIDE DEF n
  <2>5. On(n, b) = On(m, b) \cup {a}
    <3>1. On(n, b) \subseteq On(m, b) \cup {a}
      BY <1>1, <2>3, <2>4 DEF On
    <3>2. On(m, b) \subseteq On(n, b)
      BY <1>1, <2>3, <2>4 DEF On
    <3>3. a \in On(n, b)
      BY <2>3, <2>4 DEF On
    <3>4. QED
      BY <3>1, <3>2, <3>3
  <2>6. ASSUME NEW c \in Buttons \ {b}
        PROVE  On(n, c) = On(m, c)
    BY <1>1, <2>3, <2>4, <2>6 DEF On
  <2>7. QED
    BY <1>4, <2>2, <2>5, <2>6 DEF n
<1>5. QED
  BY <1>3, <1>4

\* A map is empty when no button has anything.
LEMMA EmptyHasNone ==
  ASSUME NEW A, NEW m \in MapsOf(A)
  PROVE  Empty(m) <=> \A b \in Buttons : On(m, b) = {}
<1>1. DOMAIN m = 1..Cap /\ \A i \in 1..Cap : m[i] \in (Buttons \X A) \cup {Free}
  BY DEF MapsOf
<1>2. Free[1] \notin Buttons
  BY SettingsAssumption DEF Free
<1>3. ASSUME Empty(m), NEW b \in Buttons
      PROVE  On(m, b) = {}
  BY <1>1, <1>2, <1>3 DEF Empty, On
<1>4. ASSUME ~Empty(m)
      PROVE  \E b \in Buttons : On(m, b) # {}
  <2>1. PICK i \in 1..Cap : m[i] \in Buttons \X A
    BY <1>1, <1>4 DEF Empty
  <2>2. m[i][2] \in On(m, m[i][1]) /\ m[i][1] \in Buttons
    BY <1>1, <2>1 DEF On
  <2>3. QED
    BY <2>2
<1>5. QED
  BY <1>3, <1>4

LEMMA PlacedTyped ==
  ASSUME NEW A, NEW s \in Seq(Buttons \X A), Len(s) <= Cap
  PROVE  Placed(s) \in MapsOf(A)
<1>1. \A i \in 1..Len(s) : s[i] \in Buttons \X A
  OBVIOUS
<1>2. Len(s) \in Nat
  OBVIOUS
<1>3. \A i \in 1..Cap : i <= Len(s) => i \in 1..Len(s)
  BY <1>2, SettingsAssumption
<1>4. QED
  BY <1>1, <1>3 DEF Placed, MapsOf

\* Of some positions in a sequence one is the last: what follows it is the
\* least of the sets of what follows one of them.
LEMMA HasLast ==
  ASSUME NEW n \in Nat, NEW S \in SUBSET (1..n), S # {}
  PROVE  \E i \in S : \A j \in S : j <= i
<1> DEFINE After == {i..n : i \in S}
           Smaller == StrictSubsetOrdering(1..n)
<1>1. IsFiniteSet(1..n) /\ SUBSET (1..n) = FiniteSubsetsOf(1..n)
  BY FS_Interval, FS_FiniteSubsetsOfFinite
<1>2. IsWellFoundedOn(Smaller, SUBSET (1..n))
  BY <1>1, FS_StrictSubsetOrderingWellFounded
<1>3. After \subseteq SUBSET (1..n) /\ After # {}
  <2>1. \A i \in S : i..n \subseteq 1..n
    OBVIOUS
  <2>2. \A i \in S : i..n \in SUBSET (1..n)
    BY <2>1
  <2>3. QED
    BY <2>2, Zenon
<1>4. \E x \in After : \A y \in After : <<y, x>> \notin Smaller
  <2> HIDE DEF After, Smaller
  <2>1. QED
    BY <1>2, <1>3, WFMin
<1>5. PICK i \in S : \A j \in S : <<j..n, i..n>> \notin Smaller
  BY <1>4
<1>6. ASSUME NEW j \in S, i < j
      PROVE  FALSE
  <2>1. j..n \subseteq i..n /\ i \in i..n /\ i \notin j..n
    BY <1>6
  <2>2. <<j..n, i..n>> \in Smaller
    BY <2>1 DEF StrictSubsetOrdering
  <2>3. QED
    BY <1>5, <2>2
<1>7. QED
  BY <1>6

-----------------------------------------------------------------------------
(* The invariant.                                                          *)

Typed ==
  /\ MapsTyped
  /\ map \in MapsOf(BitActions) /\ fmap \in MapsOf(FrontActions)

\* The words of the line that is being read are the last ones; with a place
\* left in the map, none of its words has been dropped.
RaceLineKnown ==
  /\ \A i \in DOMAIN raceRead : raceRead[i].line <= applied
  /\ stage \in RaceSections /\ button # NoButton =>
       /\ \A i \in DOMAIN raceRead : raceRead[i].line = applied => raceRead[i].button = button
       /\ cleared <=> \E i \in DOMAIN raceRead :
                        raceRead[i].line = applied /\ raceRead[i].word \in Clearing
       /\ cleared /\ ~Full(map) => \A a \in BitActions : <<button, a>> \notin lost

FrontLineKnown ==
  /\ \A i \in DOMAIN frontRead : frontRead[i].line <= applied
  /\ stage = "frontend" /\ button # NoButton =>
       /\ \A i \in DOMAIN frontRead : frontRead[i].line = applied => frontRead[i].button = button
       /\ \E i \in DOMAIN frontRead : frontRead[i].line = applied
       /\ ~Full(fmap) => \A a \in FrontActions : <<button, a>> \notin lost

\* ... and where the code's own rules have it: a special action goes with the bits
\* that are taken from its button, if it is of that sort, and stays else.
SaidButton(s) == IF TakenAway(s) THEN NoButton ELSE GivenTo(s)

RaceTold == \A b \in Buttons : On(map, b) = Kept(b, SaidBits(b))
FrontTold == \A b \in Buttons : On(fmap, b) = Kept(b, SaidFront(b))
SpecialTold == \A s \in Special : special[s] = SaidButton(s)

\* AsWritten with the code's own rules for every special action, so that it does not
\* leave out the ones code and documents disagree about.
ByTheRules ==
  IF (stage = "race" /\ NoBits) \/ (stage = "menus" /\ NoFront) THEN AtDefaults
  ELSE RaceTold /\ FrontTold /\ SpecialTold

NoLineYet == stage = "start" => button = NoButton

MapsInv == Typed /\ NoLineYet /\ RaceLineKnown /\ FrontLineKnown /\ ByTheRules

LEMMA ToldBefore ==
  stage \notin {"race", "menus"} => (ByTheRules <=> RaceTold /\ FrontTold /\ SpecialTold)
  BY DEF ByTheRules, RaceTold, FrontTold, SpecialTold

-----------------------------------------------------------------------------
(* What a word of a line changes in what the file says.                    *)

RaceEntry == [line : Nat, button : Buttons, word : RaceWords]
FrontEntry == [line : Nat, button : Buttons, word : FrontActions \cup {"="}]

LEMMA OneMore ==
  ASSUME NEW S, NEW s \in Seq(S), NEW e \in S
  PROVE  LET t == Append(s, e)
             n == Len(s) + 1
         IN /\ t \in Seq(S) /\ n \in Nat /\ n \notin DOMAIN s
            /\ DOMAIN s = 1..Len(s) /\ DOMAIN t = DOMAIN s \cup {n}
            /\ \A i \in DOMAIN s : t[i] = s[i] /\ i < n
            /\ t[n] = e
  OBVIOUS

LEMMA ReadTyped ==
  ASSUME Typed
  PROVE  /\ raceRead \in Seq(RaceEntry) /\ frontRead \in Seq(FrontEntry)
         /\ \A i \in DOMAIN raceRead : /\ raceRead[i].line \in Nat
                                       /\ raceRead[i].button \in Buttons
                                       /\ raceRead[i].word \in RaceWords
         /\ \A i \in DOMAIN frontRead : /\ frontRead[i].line \in Nat
                                        /\ frontRead[i].word \in FrontActions \cup {"="}
<1>1. raceRead \in Seq(RaceEntry) /\ frontRead \in Seq(FrontEntry)
  BY DEF Typed, MapsTyped, RaceEntry, FrontEntry
<1>2. \A S : \A s \in Seq(S) : \A i \in DOMAIN s : s[i] \in S
  OBVIOUS
<1>3. \A i \in DOMAIN raceRead : raceRead[i] \in RaceEntry
  BY <1>1, <1>2
<1>4. \A i \in DOMAIN frontRead : frontRead[i] \in FrontEntry
  BY <1>1, <1>2
<1>5. QED
  BY <1>1, <1>3, <1>4 DEF RaceEntry, FrontEntry

\* A word that is not about the bits of b leaves what is said of them.
LEMMA OthersBits ==
  ASSUME Typed, NEW e \in RaceEntry, raceRead' = Append(raceRead, e),
         NEW b \in Buttons, e.button # b \/ e.word \notin Clearing
  PROVE  SaidBits(b)' = SaidBits(b) /\ Clears(b)' = Clears(b)
<1> DEFINE n == Len(raceRead) + 1
<1>1. raceRead \in Seq(RaceEntry)
  BY DEF Typed, MapsTyped, RaceEntry
<1>2. /\ n \notin DOMAIN raceRead /\ DOMAIN raceRead' = DOMAIN raceRead \cup {n}
      /\ \A i \in DOMAIN raceRead : raceRead'[i] = raceRead[i]
      /\ raceRead'[n] = e
  BY <1>1, OneMore
<1> HIDE DEF n
<1>3. BitWords(b)' = BitWords(b)
  BY <1>2 DEF BitWords
<1>4. \A i \in BitWords(b) : raceRead'[i] = raceRead[i]
  BY <1>2 DEF BitWords
<1>5. LastBitWords(b)' = LastBitWords(b) /\ Clears(b)' = Clears(b)
  BY <1>3, <1>4 DEF LastBitWords, Clears
<1>6. \A i \in LastBitWords(b) : raceRead'[i] = raceRead[i]
  BY <1>4 DEF LastBitWords
<1>7. QED
  BY <1>3, <1>5, <1>6 DEF SaidBits

\* The first bit of a line, or none, makes all that was said before obsolete;
\* a further one adds to it.
LEMMA LinesBits ==
  ASSUME Typed, RaceLineKnown, InRaceLine, NEW b \in Buttons, button = b,
         NEW w \in Clearing, raceRead' = Append(raceRead, Entry(w))
  PROVE  /\ SaidBits(b)' =
              (IF cleared THEN SaidBits(b) ELSE {}) \cup ({w} \ {"none"})
         /\ Clears(b)' =
              Clears(b) \cup (IF cleared THEN {} ELSE {Len(raceRead) + 1})
<1> DEFINE n == Len(raceRead) + 1
<1>1. raceRead \in Seq(RaceEntry) /\ Entry(w) \in RaceEntry /\ button \in Buttons
      /\ applied \in Nat
  BY DEF Typed, MapsTyped, RaceEntry, Entry, InRaceLine, RaceWords
<1>2. /\ n \notin DOMAIN raceRead /\ DOMAIN raceRead' = DOMAIN raceRead \cup {n}
      /\ \A i \in DOMAIN raceRead : raceRead'[i] = raceRead[i] /\ i < n
      /\ raceRead'[n] = Entry(w)
      /\ DOMAIN raceRead = 1..Len(raceRead) /\ n \in Nat
  BY <1>1, OneMore
<1>3. Entry(w).button = b /\ Entry(w).word = w /\ Entry(w).line = applied
  BY DEF Entry
<1>4. \A i \in DOMAIN raceRead : raceRead[i].line \in Nat
  BY ReadTyped
<1> HIDE DEF n
<1>5. BitWords(b)' = BitWords(b) \cup {n} /\ n \notin BitWords(b)
      /\ BitWords(b) \subseteq DOMAIN raceRead
  BY <1>2, <1>3 DEF BitWords
<1>6. \A i \in BitWords(b) : raceRead'[i] = raceRead[i] /\ i < n /\ raceRead[i].line \in Nat
      /\ raceRead[i].line <= applied /\ i \in Nat
  BY <1>2, <1>4, <1>5 DEF RaceLineKnown
<1>7. cleared <=> \E i \in BitWords(b) : raceRead[i].line = applied
  BY <1>2 DEF RaceLineKnown, InRaceLine, BitWords
<1>8. CASE ~cleared
  <2>1. \A i \in BitWords(b) : raceRead[i].line < applied
    BY <1>1, <1>6, <1>7, <1>8
  <2>2. LastBitWords(b)' = {n}
    BY <1>1, <1>2, <1>3, <1>5, <1>6, <2>1 DEF LastBitWords
  <2>3. SaidBits(b)' = {w} \ {"none"}
    BY <1>2, <1>3, <1>5, <2>2 DEF SaidBits
  <2>4. Clears(b)' = Clears(b) \cup {n}
    BY <1>1, <1>2, <1>3, <1>5, <1>6, <2>1 DEF Clears
  <2>5. QED
    BY <1>8, <2>3, <2>4 DEF n
<1>9. CASE cleared
  <2>1. LastBitWords(b) = {i \in BitWords(b) : raceRead[i].line = applied}
    BY <1>1, <1>6, <1>7, <1>9 DEF LastBitWords
  <2>2. LastBitWords(b)' = LastBitWords(b) \cup {n}
    BY <1>1, <1>2, <1>3, <1>5, <1>6, <2>1 DEF LastBitWords
  <2>3. \A i \in LastBitWords(b) : raceRead'[i] = raceRead[i]
    BY <1>6 DEF LastBitWords
  <2>4. SaidBits(b)' = SaidBits(b) \cup ({w} \ {"none"})
    <3>1. BitWords(b) # {} /\ BitWords(b)' # {}
      BY <1>5, <1>7, <1>9
    <3>2. {raceRead'[i].word : i \in LastBitWords(b)'}
            = {raceRead[i].word : i \in LastBitWords(b)} \cup {w}
      <4>1. raceRead'[n].word = w
        BY <1>2, <1>3
      <4>2. \A i \in LastBitWords(b) : raceRead'[i].word = raceRead[i].word
        BY <2>3
      <4> DEFINE L == LastBitWords(b)
                 M == LastBitWords(b)'
      <4> HIDE DEF L, M
      <4>3. {raceRead'[i].word : i \in M} = {raceRead[i].word : i \in L} \cup {w}
        BY ONLY <2>2, <4>1, <4>2 DEF L, M
      <4>4. QED
        BY <4>3 DEF L, M
    <3>3. QED
      BY <3>1, <3>2 DEF SaidBits
  <2>5. Clears(b)' = Clears(b)
    BY <1>1, <1>2, <1>3, <1>5, <1>6, <1>7, <1>9 DEF Clears
  <2>6. QED
    BY <1>9, <2>4, <2>5 DEF n
<1>10. QED
  BY <1>8, <1>9

\* The last word that names a special action decides whose it is.
LEMMA NamedLast ==
  ASSUME Typed, NEW e \in RaceEntry, raceRead' = Append(raceRead, e), NEW s \in Special
  PROVE  /\ LastNaming(s) \in 0..Len(raceRead)
         /\ GivenTo(s) \in Buttons
         /\ LastNaming(s)' = IF e.word = s THEN Len(raceRead) + 1 ELSE LastNaming(s)
         /\ GivenTo(s)' = IF e.word = s THEN e.button ELSE GivenTo(s)
<1> DEFINE n == Len(raceRead) + 1
<1>1. raceRead \in Seq(RaceEntry)
  BY DEF Typed, MapsTyped, RaceEntry
<1>2. /\ n \notin DOMAIN raceRead /\ DOMAIN raceRead' = DOMAIN raceRead \cup {n}
      /\ \A i \in DOMAIN raceRead : raceRead'[i] = raceRead[i] /\ i < n
      /\ raceRead'[n] = e
      /\ DOMAIN raceRead = 1..Len(raceRead) /\ n \in Nat
  BY <1>1, OneMore
<1>3. \A i \in DOMAIN raceRead : raceRead[i].button \in Buttons
  BY ReadTyped
<1>4. Namings(s) # {} =>
        /\ LastNaming(s) \in Namings(s)
        /\ \A j \in Namings(s) : j <= LastNaming(s)
  <2>1. Namings(s) \in SUBSET (1..Len(raceRead)) /\ Len(raceRead) \in Nat
    BY <1>1, <1>2 DEF Namings
  <2>2. ASSUME Namings(s) # {}
        PROVE  \E i \in Namings(s) : \A j \in Namings(s) : j <= i
    BY <2>1, <2>2, HasLast
  <2>3. QED
    BY <2>2 DEF LastNaming
<1>5. LastNaming(s) \in 0..Len(raceRead) /\ GivenTo(s) \in Buttons
  <2>1. Namings(s) \subseteq 1..Len(raceRead)
    BY <1>2 DEF Namings
  <2>2. CASE Namings(s) = {}
    BY <1>1, <2>2, SettingsAssumption DEF LastNaming, GivenTo
  <2>3. CASE Namings(s) # {}
    BY <1>2, <1>3, <1>4, <2>1, <2>3 DEF GivenTo
  <2>4. QED
    BY <2>2, <2>3
<1> HIDE DEF n
<1>6. CASE e.word = s
  <2>1. n \in Namings(s)' /\ \A j \in Namings(s)' : j <= n
    BY <1>2, <1>6 DEF Namings
  <2>2. Namings(s)' \subseteq Nat
    BY <1>2 DEF Namings
  <2>3. LastNaming(s)' = n
    BY <2>1, <2>2 DEF LastNaming
  <2>4. GivenTo(s)' = e.button
    BY <1>2, <2>1, <2>3 DEF GivenTo
  <2>5. QED
    BY <1>5, <1>6, <2>3, <2>4 DEF n
<1>7. CASE e.word # s
  <2>1. Namings(s)' = Namings(s)
    BY <1>2, <1>7 DEF Namings
  <2>2. LastNaming(s)' = LastNaming(s)
    BY <2>1 DEF LastNaming
  <2>3. GivenTo(s)' = GivenTo(s)
    BY <1>2, <1>4, <2>1, <2>2 DEF GivenTo, Namings
  <2>4. QED
    BY <1>5, <1>7, <2>2, <2>3
<1>8. QED
  BY <1>6, <1>7

-----------------------------------------------------------------------------
(* The steps.                                                              *)

\* A word that is added is there, or else among the lost ones.
LEMMA AddedOrLost ==
  ASSUME NEW A, NEW m \in MapsOf(A), NEW b \in Buttons, NEW a \in A, NEW said, NEW L,
         On(m, b) = {x \in said : <<b, x>> \notin L},
         ~Full(m) => <<b, a>> \notin L
  PROVE  /\ On(Plus(m, b, a), b)
              = {x \in said \cup {a} : <<b, x>> \notin L \cup DroppedBy(m, b, a)}
         /\ \A c, x : c # b => <<c, x>> \notin DroppedBy(m, b, a)
<1>1. CASE ~Full(m)
  <2>1. DroppedBy(m, b, a) = {}
    BY <1>1 DEF DroppedBy
  <2>2. On(Plus(m, b, a), b) = On(m, b) \cup {a}
    BY <1>1, PlusAdds
  <2>3. QED
    BY <1>1, <2>1, <2>2
<1>2. CASE Full(m) /\ a \in On(m, b)
  <2>1. DroppedBy(m, b, a) = {} /\ Plus(m, b, a) = m
    BY <1>2 DEF DroppedBy, Plus
  <2>2. QED
    BY <1>2, <2>1
<1>3. CASE Full(m) /\ a \notin On(m, b)
  <2>1. DroppedBy(m, b, a) = {<<b, a>>} /\ Plus(m, b, a) = m
    BY <1>3 DEF DroppedBy, Plus
  <2>2. QED
    BY <1>3, <2>1
<1>4. QED
  BY <1>1, <1>2, <1>3

LEMMA LoadStart == LoadInit => MapsInv
<1> SUFFICES ASSUME LoadInit
             PROVE  MapsInv
  OBVIOUS
<1>1. Placed(RaceDefault) \in MapsOf(BitActions) /\ Placed(FrontDefault) \in MapsOf(FrontActions)
  BY PlacedTyped, SettingsAssumption
<1>2. Typed
  <2>1. special \in [Special -> Buttons \cup {NoButton}]
    BY SettingsAssumption DEF LoadInit
  <2>2. map \in [1..Cap -> RaceEntries] /\ fmap \in [1..Cap -> FrontEntries]
    BY <1>1 DEF LoadInit, MapsOf, RaceEntries, FrontEntries
  <2>3. \A S : <<>> \in Seq(S)
    OBVIOUS
  <2>4. QED
    BY <1>1, <2>1, <2>2, <2>3 DEF LoadInit, Typed, MapsTyped, RaceSections
<1>3. NoLineYet /\ RaceLineKnown /\ FrontLineKnown
  BY DEF LoadInit, NoLineYet, RaceLineKnown, FrontLineKnown
<1>4. RaceTold
  <2>1. \A b : BitWords(b) = {}
    BY DEF LoadInit, BitWords
  <2>2. QED
    BY <2>1 DEF LoadInit, RaceTold, SaidBits, Kept
<1>5. FrontTold
  <2>1. \A b : FrontWords(b) = {}
    BY DEF LoadInit, FrontWords
  <2>2. QED
    BY <2>1 DEF LoadInit, FrontTold, SaidFront, Kept
<1>6. SpecialTold
  <2>1. \A b : Clears(b) = {}
    BY DEF LoadInit, BitWords, Clears
  <2>2. \A s : Namings(s) = {}
    BY DEF LoadInit, Namings
  <2>3. \A s \in Special : SaidButton(s) = SpecialDefault[s]
    BY <2>1, <2>2 DEF SaidButton, TakenAway, GivenTo
  <2>4. QED
    BY <2>3 DEF LoadInit, SpecialTold
<1>7. stage = "start"
  BY DEF LoadInit
<1>8. QED
  BY <1>2, <1>3, <1>4, <1>5, <1>6, <1>7, ToldBefore DEF MapsInv

\* What a file says depends on the words that have been read, and on nothing else.
LEMMA RaceSaysSame ==
  ASSUME UNCHANGED raceRead
  PROVE  /\ \A b \in Buttons : SaidBits(b)' = SaidBits(b)
         /\ \A s \in Special : SaidButton(s)' = SaidButton(s)
  BY DEF SaidBits, LastBitWords, BitWords, SaidButton, TakenAway, GivenTo, LastNaming,
         Namings, Clears

LEMMA FrontSaysSame ==
  ASSUME UNCHANGED frontRead
  PROVE  \A b \in Buttons : SaidFront(b)' = SaidFront(b)
  BY DEF SaidFront, LastFrontWords, FrontWords

LEMMA SameMaps ==
  ASSUME Typed, ByTheRules, stage \notin {"race", "menus"}, stage' \notin {"race", "menus"},
         UNCHANGED <<map, special, fmap, history>>
  PROVE  ByTheRules'
<1>1. RaceTold /\ FrontTold /\ SpecialTold
  BY ToldBefore
<1>2. RaceTold' /\ FrontTold' /\ SpecialTold'
  BY <1>1, RaceSaysSame, FrontSaysSame
     DEF RaceTold, FrontTold, SpecialTold, history, Kept
<1>3. QED
  BY <1>2 DEF ByTheRules, RaceTold, FrontTold, SpecialTold

\* Outside the lines nothing is applied.
LEMMA BetweenLines ==
  ASSUME MapsInv, FindFile \/ EndPass
  PROVE  MapsInv'
<1>1. /\ stage \notin {"race", "menus"} /\ stage' \notin {"race", "menus"}
      /\ stage' \in RaceSections \cup {"frontend", "loaded"}
      /\ UNCHANGED <<map, special, fmap, applied, history>>
      /\ button' = NoButton /\ cleared' \in BOOLEAN
  BY DEF FindFile, EndPass, RaceSections, MapsInv, NoLineYet, Typed, MapsTyped
<1>2. Typed'
  BY <1>1 DEF MapsInv, Typed, MapsTyped, MapsOf, history
<1>3. ByTheRules'
  BY <1>1, SameMaps DEF MapsInv
<1>4. NoLineYet' /\ RaceLineKnown' /\ FrontLineKnown'
  BY <1>1 DEF MapsInv, NoLineYet, RaceLineKnown, FrontLineKnown, history
<1>5. QED
  BY <1>2, <1>3, <1>4 DEF MapsInv

LEMMA FirstFrame ==
  ASSUME MapsInv, RaceFrame \/ MenuFrame
  PROVE  MapsInv'
<1>1. /\ stage = "loaded" /\ stage' \in {"race", "menus"}
      /\ UNCHANGED <<button, cleared, applied, history>>
  BY DEF RaceFrame, MenuFrame
<1>2. RaceTold /\ FrontTold /\ SpecialTold
  BY <1>1, ToldBefore DEF MapsInv
<1>3. /\ Empty(map) <=> NoBits
      /\ Empty(fmap) <=> NoFront
  BY <1>2, EmptyHasNone DEF MapsInv, Typed, RaceTold, FrontTold, NoBits, NoFront
<1>4. NoBits' = NoBits /\ NoFront' = NoFront
  BY <1>1, RaceSaysSame, FrontSaysSame DEF NoBits, NoFront, Kept, history
<1>5. Typed'
  <2>1. /\ Placed(RaceDefault) \in MapsOf(BitActions)
        /\ Placed(FrontDefault) \in MapsOf(FrontActions)
        /\ SpecialDefault \in [Special -> Buttons \cup {NoButton}]
    BY PlacedTyped, SettingsAssumption
  <2>2. Defaults \/ UNCHANGED <<map, special, fmap>>
    BY DEF RaceFrame, MenuFrame
  <2>3. QED
    BY <1>1, <2>1, <2>2
       DEF MapsInv, Typed, MapsTyped, MapsOf, Defaults, history, RaceEntries, FrontEntries
<1>6. ByTheRules'
  <2>1. CASE (stage' = "race" /\ Empty(map)) \/ (stage' = "menus" /\ Empty(fmap))
    <3>1. AtDefaults'
      BY <1>1, <2>1 DEF Defaults, AtDefaults, RaceFrame, MenuFrame
    <3>2. QED
      BY <1>1, <1>3, <1>4, <2>1, <3>1 DEF ByTheRules
  <2>2. CASE ~((stage' = "race" /\ Empty(map)) \/ (stage' = "menus" /\ Empty(fmap)))
    <3>1. UNCHANGED <<map, special, fmap>>
      BY <1>1, <2>2 DEF RaceFrame, MenuFrame
    <3>2. RaceTold' /\ FrontTold' /\ SpecialTold'
      BY <1>1, <1>2, <3>1, RaceSaysSame, FrontSaysSame
         DEF RaceTold, FrontTold, SpecialTold, history, Kept
    <3>3. QED
      BY <1>1, <1>3, <1>4, <2>2, <3>2 DEF ByTheRules, RaceTold, FrontTold, SpecialTold
  <2>3. QED
    BY <2>1, <2>2
<1>7. NoLineYet' /\ RaceLineKnown' /\ FrontLineKnown'
  BY <1>1 DEF MapsInv, NoLineYet, RaceLineKnown, FrontLineKnown, history, RaceSections
<1>8. QED
  BY <1>5, <1>6, <1>7 DEF MapsInv

LEMMA SaidTyped ==
  ASSUME Typed, NEW b \in Buttons
  PROVE  SaidBits(b) \subseteq BitActions /\ SaidFront(b) \subseteq FrontActions
<1>1. ASSUME NEW A, NEW m \in MapsOf(A)
      PROVE  On(m, b) \subseteq A
  BY <1>1, SettingsAssumption DEF MapsOf, On, Free
<1>2. On(Placed(RaceDefault), b) \subseteq BitActions
      /\ On(Placed(FrontDefault), b) \subseteq FrontActions
  BY <1>1, PlacedTyped, SettingsAssumption
<1>3. /\ \A i \in LastBitWords(b) : raceRead[i].word \in Clearing
      /\ \A i \in LastFrontWords(b) : frontRead[i].word \in FrontActions \cup {"="}
  BY ReadTyped DEF LastBitWords, BitWords, LastFrontWords, FrontWords
<1>4. SaidBits(b) \subseteq BitActions
  BY <1>2, <1>3 DEF SaidBits, Clearing
<1>5. SaidFront(b) \subseteq FrontActions
  <2>1. {frontRead[i].word : i \in LastFrontWords(b)} \ {"="} \subseteq FrontActions
    BY <1>3
  <2>2. QED
    BY <1>2, <2>1 DEF SaidFront
<1>6. QED
  BY <1>4, <1>5

LEMMA NewRaceLine ==
  ASSUME MapsInv, NEW b \in Buttons, RaceLine(b)
  PROVE  MapsInv'
<1>1. /\ stage \notin {"race", "menus"} /\ stage' = stage /\ stage' \in RaceSections
      /\ UNCHANGED <<map, special, fmap, history>>
      /\ button' = b /\ cleared' = FALSE /\ applied' = applied + 1 /\ applied \in Nat
  <2>1. applied \in Nat
    BY DEF MapsInv, Typed, MapsTyped
  <2>2. QED
    BY <2>1 DEF RaceLine, RaceSections
<1>2. Typed'
  <2>1. /\ stage' \in RaceSections \cup {"start", "frontend", "loaded", "race", "menus"}
        /\ button' \in Buttons \cup {NoButton} /\ cleared' \in BOOLEAN
    BY <1>1
  <2>2. applied' \in Nat
    BY <1>1
  <2>3. QED
    BY <1>1, <2>1, <2>2 DEF MapsInv, Typed, MapsTyped, MapsOf, history
<1>3. ByTheRules'
  BY <1>1, SameMaps DEF MapsInv
<1>4. /\ \A i \in DOMAIN raceRead : raceRead[i].line \in Nat
      /\ \A i \in DOMAIN frontRead : frontRead[i].line \in Nat
  BY ReadTyped DEF MapsInv
<1>5. NoLineYet'
  BY <1>1 DEF NoLineYet, RaceSections
<1>6. RaceLineKnown'
  <2>1. \A i \in DOMAIN raceRead : raceRead[i].line <= applied' /\ raceRead[i].line # applied'
    BY <1>1, <1>4 DEF MapsInv, RaceLineKnown
  <2>2. QED
    BY <1>1, <2>1 DEF RaceLineKnown, history
<1>7. FrontLineKnown'
  <2>1. \A i \in DOMAIN frontRead : frontRead[i].line <= applied'
    BY <1>1, <1>4 DEF MapsInv, FrontLineKnown
  <2>2. QED
    BY <1>1, <2>1 DEF FrontLineKnown, history, RaceSections
<1>8. QED
  BY <1>2, <1>3, <1>5, <1>6, <1>7 DEF MapsInv

\* camera, quit...: the last line that names one decides.
LEMMA NewSpecialWord ==
  ASSUME MapsInv, NEW s \in Special, SpecialWord(s)
  PROVE  MapsInv'
<1> DEFINE e == [line |-> applied, button |-> button, word |-> s]
<1>1. /\ stage \notin {"race", "menus", "start", "frontend"} /\ stage' = stage
      /\ stage \in RaceSections /\ button \in Buttons
      /\ UNCHANGED <<map, fmap, button, cleared, applied, frontRead, lost>>
      /\ special' = [special EXCEPT ![s] = button] /\ raceRead' = Append(raceRead, e)
      /\ special \in [Special -> Buttons \cup {NoButton}]
  BY DEF SpecialWord, InRaceLine, RaceSections, MapsInv, Typed, MapsTyped, Entry
<1>2. e \in RaceEntry /\ raceRead \in Seq(RaceEntry)
  BY <1>1 DEF MapsInv, Typed, MapsTyped, RaceEntry, RaceWords
<1>3. s \notin Clearing
  BY SettingsAssumption DEF Clearing
<1>4. /\ DOMAIN raceRead' = DOMAIN raceRead \cup {Len(raceRead) + 1}
      /\ DOMAIN raceRead = 1..Len(raceRead)
      /\ \A i \in DOMAIN raceRead : raceRead'[i] = raceRead[i]
      /\ raceRead'[Len(raceRead) + 1] = e /\ Len(raceRead) \in Nat
  BY <1>1, <1>2, OneMore
<1>5. e.word = s /\ e.button = button /\ e.line = applied
  OBVIOUS
<1> HIDE DEF e
<1>6. \A b \in Buttons : SaidBits(b)' = SaidBits(b) /\ Clears(b)' = Clears(b)
  BY <1>1, <1>2, <1>3, <1>5, OthersBits DEF MapsInv
<1>7. RaceTold /\ FrontTold /\ SpecialTold
  BY <1>1, ToldBefore DEF MapsInv
<1>8. Typed'
  <2>1. raceRead' \in Seq(RaceEntry)
    BY <1>1, <1>2, OneMore
  <2>2. special' \in [Special -> Buttons \cup {NoButton}]
    BY <1>1
  <2>3. QED
    BY <1>1, <2>1, <2>2 DEF MapsInv, Typed, MapsTyped, MapsOf, RaceEntry
<1>9. RaceTold' /\ FrontTold'
  BY <1>1, <1>6, <1>7, FrontSaysSame DEF RaceTold, FrontTold, Kept
<1>10. ASSUME NEW t \in Special
       PROVE  special'[t] = SaidButton(t)'
  <2>1. /\ LastNaming(t) \in 0..Len(raceRead) /\ GivenTo(t) \in Buttons
        /\ LastNaming(t)' = IF e.word = t THEN Len(raceRead) + 1 ELSE LastNaming(t)
        /\ GivenTo(t)' = IF e.word = t THEN e.button ELSE GivenTo(t)
    BY <1>1, <1>2, NamedLast DEF MapsInv
  <2>2. CASE t = s
    <3>1. GivenTo(t)' = button /\ LastNaming(t)' = Len(raceRead) + 1
      BY <1>5, <2>1, <2>2
    <3>2. Clears(button) \subseteq 1..Len(raceRead)
      BY <1>4 DEF Clears, BitWords
    <3>3. ~TakenAway(t)'
      <4>1. Clears(GivenTo(t))' = Clears(button)
        <5>1. \A b \in Buttons : b = GivenTo(t)' => Clears(GivenTo(t))' = Clears(b)'
          BY DEF Clears, BitWords
        <5>2. QED
          BY <1>1, <1>6, <3>1, <5>1
      <4>2. QED
        BY <1>4, <3>1, <3>2, <4>1 DEF TakenAway
    <3>4. QED
      BY <1>1, <2>2, <3>1, <3>3 DEF SaidButton
  <2>3. CASE t # s
    <3>1. GivenTo(t)' = GivenTo(t) /\ LastNaming(t)' = LastNaming(t)
      BY <1>5, <2>1, <2>3
    <3>2. Clears(GivenTo(t))' = Clears(GivenTo(t))
      <4>1. \A b \in Buttons : b = GivenTo(t)' => Clears(GivenTo(t))' = Clears(b)'
        BY DEF Clears, BitWords
      <4>2. QED
        BY <1>6, <2>1, <3>1, <4>1
    <3>3. SaidButton(t)' = SaidButton(t)
      BY <3>1, <3>2 DEF SaidButton, TakenAway
    <3>4. QED
      BY <1>1, <1>7, <2>3, <3>3 DEF SpecialTold
  <2>4. QED
    BY <2>2, <2>3
<1>11. ByTheRules'
  BY <1>1, <1>9, <1>10 DEF ByTheRules, RaceTold, FrontTold, SpecialTold
<1>12. RaceLineKnown'
  BY <1>1, <1>3, <1>4, <1>5 DEF MapsInv, RaceLineKnown, Typed, MapsTyped
<1>13. NoLineYet' /\ FrontLineKnown'
  BY <1>1 DEF MapsInv, NoLineYet, FrontLineKnown
<1>14. QED
  BY <1>8, <1>11, <1>12, <1>13 DEF MapsInv

\* A bit or none: what it adds to the bits of its button, and what it takes.
LEMMA NewClearingWord ==
  ASSUME MapsInv, NEW b \in Buttons, button = b, NEW w \in Clearing, ClearingWord(w)
  PROVE  MapsInv'
<1> DEFINE e == [line |-> applied, button |-> b, word |-> w]
           fresh == IF cleared THEN map ELSE Without(map, b)
           kept == IF cleared THEN lost ELSE lost \ ({b} \X BitActions)
           said == IF cleared THEN SaidBits(b) ELSE {}
<1>1. /\ stage \notin {"race", "menus", "start", "frontend"} /\ stage' = stage
      /\ stage \in RaceSections
      /\ UNCHANGED <<fmap, button, applied, frontRead>>
      /\ special' = IF cleared THEN special ELSE SpecialWithout(b)
      /\ IF w = "none" THEN map' = fresh /\ lost' = kept
         ELSE map' = Plus(fresh, b, w) /\ lost' = kept \cup DroppedBy(fresh, b, w)
      /\ cleared' = TRUE /\ raceRead' = Append(raceRead, e) /\ e = Entry(w) /\ InRaceLine
  BY DEF ClearingWord, InRaceLine, RaceSections, Entry
<1>2. /\ cleared \in BOOLEAN /\ special \in [Special -> Buttons \cup {NoButton}]
      /\ map \in MapsOf(BitActions) /\ NoButton \notin Buttons
      /\ lost \subseteq Buttons \X (BitActions \cup FrontActions)
      /\ w # "none" => w \in BitActions
      /\ \A a \in BitActions : a # "none" /\ a \notin FrontActions
      /\ w \notin Special
  BY SettingsAssumption DEF MapsInv, Typed, MapsTyped, Clearing
<1>3. e \in RaceEntry /\ raceRead \in Seq(RaceEntry)
  BY ReadTyped DEF MapsInv, Typed, MapsTyped, RaceEntry, RaceWords
<1>4. /\ DOMAIN raceRead' = DOMAIN raceRead \cup {Len(raceRead) + 1}
      /\ DOMAIN raceRead = 1..Len(raceRead)
      /\ \A i \in DOMAIN raceRead : raceRead'[i] = raceRead[i]
      /\ raceRead'[Len(raceRead) + 1] = e /\ Len(raceRead) \in Nat
      /\ raceRead' \in Seq(RaceEntry)
  BY <1>1, <1>3, OneMore
<1>5. e.word = w /\ e.button = b /\ e.line = applied
  OBVIOUS
<1>6. RaceTold /\ FrontTold /\ SpecialTold
  BY <1>1, ToldBefore DEF MapsInv
<1> HIDE DEF e
<1>7. /\ SaidBits(b)' = said \cup ({w} \ {"none"})
      /\ Clears(b)' = Clears(b) \cup (IF cleared THEN {} ELSE {Len(raceRead) + 1})
  BY <1>1, LinesBits DEF MapsInv
<1>8. ASSUME NEW c \in Buttons \ {b}
      PROVE  SaidBits(c)' = SaidBits(c) /\ Clears(c)' = Clears(c)
  BY <1>1, <1>3, <1>5, OthersBits DEF MapsInv
<1>9. /\ fresh \in MapsOf(BitActions)
      /\ On(fresh, b) = {x \in said : <<b, x>> \notin kept}
      /\ \A c \in Buttons \ {b} : On(fresh, c) = On(map, c)
  <2>1. CASE cleared
    BY <1>2, <1>6, <2>1 DEF RaceTold, Kept
  <2>2. CASE ~cleared
    BY <1>2, <2>2, WithoutTakesOut
  <2>3. QED
    BY <2>1, <2>2
<1>10. ASSUME ~Full(fresh), NEW a \in BitActions
       PROVE  <<b, a>> \notin kept
  <2>1. CASE cleared
    BY <1>1, <1>2, <1>10, <2>1 DEF MapsInv, RaceLineKnown, InRaceLine
  <2>2. CASE ~cleared
    BY <2>2, <1>10
  <2>3. QED
    BY <2>1, <2>2
<1>11. /\ map' \in MapsOf(BitActions)
       /\ On(map', b) = {x \in said \cup ({w} \ {"none"}) : <<b, x>> \notin lost'}
       /\ \A c \in Buttons \ {b} : On(map', c) = On(fresh, c)
       /\ \A c, x : c # b => (<<c, x>> \in lost' <=> <<c, x>> \in lost)
       /\ \A c, x : x \in FrontActions => (<<c, x>> \in lost' <=> <<c, x>> \in lost)
       /\ lost' \subseteq Buttons \X (BitActions \cup FrontActions)
       /\ ~Full(map') => \A a \in BitActions : <<b, a>> \notin lost'
  <2>1. /\ \A c, x : c # b => (<<c, x>> \in kept <=> <<c, x>> \in lost)
        /\ \A c, x : x \in FrontActions => (<<c, x>> \in kept <=> <<c, x>> \in lost)
        /\ kept \subseteq lost
    BY <1>2
  <2> HIDE DEF fresh, kept, said
  <2>2. CASE w = "none"
    <3>1. map' = fresh /\ lost' = kept /\ {w} \ {"none"} = {}
      BY <1>1, <2>2
    <3>2. QED
      BY <1>2, <1>9, <1>10, <2>1, <3>1
  <2>3. CASE w # "none"
    <3>1. /\ map' = Plus(fresh, b, w) /\ lost' = kept \cup DroppedBy(fresh, b, w)
          /\ {w} \ {"none"} = {w} /\ w \in BitActions
      BY <1>1, <1>2, <2>3
    <3>2. /\ On(map', b) = {x \in said \cup {w} : <<b, x>> \notin lost'}
          /\ \A c, x : c # b => <<c, x>> \notin DroppedBy(fresh, b, w)
      <4>1. ~Full(fresh) => <<b, w>> \notin kept
        BY <1>10, <3>1
      <4>2. /\ On(Plus(fresh, b, w), b)
                 = {x \in said \cup {w} : <<b, x>> \notin kept \cup DroppedBy(fresh, b, w)}
            /\ \A c, x : c # b => <<c, x>> \notin DroppedBy(fresh, b, w)
        BY <1>9, <3>1, <4>1, AddedOrLost
      <4>3. QED
        BY <3>1, <4>2
    <3>3. /\ map' \in MapsOf(BitActions)
          /\ Full(fresh) => map' = fresh
          /\ \A c \in Buttons \ {b} : On(map', c) = On(fresh, c)
      BY <1>9, <3>1, PlusAdds
    <3>4. DroppedBy(fresh, b, w) \subseteq {<<b, w>>} /\ (~Full(fresh) => DroppedBy(fresh, b, w) = {})
      BY DEF DroppedBy
    <3>5. ~Full(map') => \A a \in BitActions : <<b, a>> \notin lost'
      BY <1>10, <3>1, <3>3, <3>4
    <3>6. \A c, x : x \in FrontActions => (<<c, x>> \in lost' <=> <<c, x>> \in lost)
      BY <1>2, <2>1, <3>1, <3>4
    <3>7. lost' \subseteq Buttons \X (BitActions \cup FrontActions)
      BY <1>2, <2>1, <3>1, <3>4
    <3>8. \A c, x : c # b => (<<c, x>> \in lost' <=> <<c, x>> \in lost)
      BY <2>1, <3>1, <3>2
    <3>9. QED
      BY <3>1, <3>2, <3>3, <3>5, <3>6, <3>7, <3>8
  <2>4. QED
    BY <2>2, <2>3
<1> HIDE DEF fresh, kept
<1>12. RaceTold'
  <2>1. On(map', b) = Kept(b, SaidBits(b))'
    BY <1>7, <1>11 DEF Kept
  <2>2. ASSUME NEW c \in Buttons \ {b}
        PROVE  On(map', c) = Kept(c, SaidBits(c))'
    BY <1>6, <1>8, <1>9, <1>11, <2>2 DEF Kept, RaceTold
  <2>3. QED
    BY <2>1, <2>2 DEF RaceTold
<1>13. FrontTold'
  <2>1. ASSUME NEW c \in Buttons
        PROVE  Kept(c, SaidFront(c))' = Kept(c, SaidFront(c))
    BY <1>1, <1>11, <2>1, FrontSaysSame, SaidTyped DEF Kept, MapsInv
  <2>2. QED
    BY <1>1, <1>6, <2>1 DEF FrontTold
<1>14. ASSUME NEW s \in Special
       PROVE  special'[s] = SaidButton(s)'
  <2>1. /\ LastNaming(s) \in 0..Len(raceRead) /\ GivenTo(s) \in Buttons
        /\ LastNaming(s)' = LastNaming(s) /\ GivenTo(s)' = GivenTo(s)
    BY <1>1, <1>2, <1>3, <1>5, NamedLast DEF MapsInv
  <2>2. \A g \in Buttons : g = GivenTo(s)' => Clears(GivenTo(s))' = Clears(g)'
    BY DEF Clears, BitWords
  <2>3. special[s] = SaidButton(s)
    BY <1>6 DEF SpecialTold
  <2>4. CASE GivenTo(s) # b \/ cleared
    <3>1. Clears(GivenTo(s))' = Clears(GivenTo(s))
      BY <1>7, <1>8, <2>1, <2>2, <2>4
    <3>2. SaidButton(s)' = SaidButton(s)
      BY <2>1, <3>1 DEF SaidButton, TakenAway
    <3>3. special'[s] = special[s]
      <4>1. special[s] \in {NoButton, GivenTo(s)}
        BY <2>3 DEF SaidButton
      <4>2. QED
        BY <1>1, <1>2, <2>4, <4>1 DEF SpecialWithout
    <3>4. QED
      BY <2>3, <3>2, <3>3
  <2>5. CASE GivenTo(s) = b /\ ~cleared
    <3>1. Clears(GivenTo(s))' = Clears(b) \cup {Len(raceRead) + 1}
      BY <1>7, <2>1, <2>2, <2>5
    <3>2. Len(raceRead) + 1 > LastNaming(s)
      BY <1>4, <2>1
    <3>3. SaidButton(s)' = IF s \in GoWithBits THEN NoButton ELSE b
      BY <2>1, <2>5, <3>1, <3>2 DEF SaidButton, TakenAway
    <3>4. special'[s] = IF s \in GoWithBits /\ special[s] = b THEN NoButton ELSE special[s]
      BY <1>1, <2>5 DEF SpecialWithout
    <3>5. special[s] \in {NoButton, b} /\ (s \notin GoWithBits => special[s] = b)
      BY <2>3, <2>5 DEF SaidButton, TakenAway
    <3>6. QED
      BY <3>3, <3>4, <3>5
  <2>6. QED
    BY <2>4, <2>5
<1>15. ByTheRules'
  BY <1>1, <1>12, <1>13, <1>14 DEF ByTheRules, RaceTold, FrontTold, SpecialTold
<1>16. RaceLineKnown'
  <2>1. w \in Clearing
    OBVIOUS
  <2>2. QED
    BY <1>1, <1>4, <1>5, <1>11, <2>1 DEF MapsInv, RaceLineKnown, Typed, MapsTyped
<1>17. NoLineYet' /\ FrontLineKnown'
  BY <1>1, <1>11 DEF MapsInv, NoLineYet, FrontLineKnown, RaceSections
<1>18. Typed'
  <2>1. special' \in [Special -> Buttons \cup {NoButton}]
    BY <1>1, <1>2 DEF SpecialWithout
  <2>2. QED
    BY <1>1, <1>4, <1>11, <2>1
       DEF MapsInv, Typed, MapsTyped, MapsOf, RaceEntry, RaceEntries
<1>19. QED
  BY <1>15, <1>16, <1>17, <1>18 DEF MapsInv

-----------------------------------------------------------------------------
(* The menus' lines.                                                       *)

\* A line that is begun makes what was said of its button before obsolete.
LEMMA FrontLineSays ==
  ASSUME Typed, FrontLineKnown, NEW b \in Buttons,
         frontRead' = Append(frontRead, [line |-> applied + 1, button |-> b, word |-> "="])
  PROVE  SaidFront(b)' = {}
<1> DEFINE n == Len(frontRead) + 1
           e == [line |-> applied + 1, button |-> b, word |-> "="]
<1>1. e \in FrontEntry /\ frontRead \in Seq(FrontEntry) /\ applied \in Nat
  BY ReadTyped DEF Typed, MapsTyped, FrontEntry
<1>2. /\ n \notin DOMAIN frontRead /\ DOMAIN frontRead' = DOMAIN frontRead \cup {n}
      /\ \A i \in DOMAIN frontRead : frontRead'[i] = frontRead[i]
      /\ frontRead'[n] = e
  BY <1>1, OneMore
<1>3. \A i \in DOMAIN frontRead : frontRead[i].line \in Nat /\ frontRead[i].line <= applied
  BY ReadTyped DEF FrontLineKnown
<1>4. e.line = applied + 1 /\ e.button = b /\ e.word = "="
  OBVIOUS
<1> HIDE DEF n, e
<1>5. n \in FrontWords(b)' /\ FrontWords(b)' \subseteq DOMAIN frontRead \cup {n}
  BY <1>2, <1>4 DEF FrontWords
<1>6. LastFrontWords(b)' = {n}
  BY <1>1, <1>2, <1>3, <1>4, <1>5 DEF LastFrontWords
<1>7. QED
  BY <1>2, <1>4, <1>5, <1>6 DEF SaidFront

\* A further word of the line adds to it.
LEMMA FrontWordSays ==
  ASSUME Typed, FrontLineKnown, stage = "frontend", NEW b \in Buttons, button = b,
         NEW a \in FrontActions,
         frontRead' = Append(frontRead, [line |-> applied, button |-> b, word |-> a])
  PROVE  SaidFront(b)' = SaidFront(b) \cup {a}
<1> DEFINE n == Len(frontRead) + 1
           e == [line |-> applied, button |-> b, word |-> a]
<1>1. e \in FrontEntry /\ frontRead \in Seq(FrontEntry) /\ applied \in Nat
      /\ NoButton \notin Buttons /\ a # "="
  BY ReadTyped, SettingsAssumption DEF Typed, MapsTyped, FrontEntry
<1>2. /\ n \notin DOMAIN frontRead /\ DOMAIN frontRead' = DOMAIN frontRead \cup {n}
      /\ \A i \in DOMAIN frontRead : frontRead'[i] = frontRead[i]
      /\ frontRead'[n] = e
  BY <1>1, OneMore
<1>3. \A i \in DOMAIN frontRead : frontRead[i].line \in Nat /\ frontRead[i].line <= applied
  BY ReadTyped DEF FrontLineKnown
<1>4. e.line = applied /\ e.button = b /\ e.word = a
  OBVIOUS
<1> HIDE DEF n, e
<1>5. FrontWords(b)' = FrontWords(b) \cup {n} /\ FrontWords(b) \subseteq DOMAIN frontRead
  BY <1>2, <1>4 DEF FrontWords
<1>6. \E i \in FrontWords(b) : frontRead[i].line = applied
  BY <1>1 DEF FrontLineKnown, FrontWords
<1>7. LastFrontWords(b) = {i \in FrontWords(b) : frontRead[i].line = applied}
  BY <1>1, <1>3, <1>5, <1>6 DEF LastFrontWords
<1>8. LastFrontWords(b)' = LastFrontWords(b) \cup {n}
  BY <1>1, <1>2, <1>3, <1>4, <1>5, <1>6, <1>7 DEF LastFrontWords
<1>9. \A i \in LastFrontWords(b) : frontRead'[i].word = frontRead[i].word
  BY <1>2, <1>5 DEF LastFrontWords
<1> DEFINE L == LastFrontWords(b)
           M == LastFrontWords(b)'
<1>10. {frontRead'[i].word : i \in M} = {frontRead[i].word : i \in L} \cup {a}
  <2>1. frontRead'[n].word = a
    BY <1>2, <1>4
  <2> HIDE DEF L, M
  <2>2. QED
    BY ONLY <1>8, <1>9, <2>1 DEF L, M
<1>11. QED
  BY <1>1, <1>5, <1>6, <1>10 DEF SaidFront

LEMMA OthersFront ==
  ASSUME Typed, NEW e \in FrontEntry, frontRead' = Append(frontRead, e),
         NEW c \in Buttons, e.button # c
  PROVE  SaidFront(c)' = SaidFront(c)
<1> DEFINE n == Len(frontRead) + 1
<1>1. frontRead \in Seq(FrontEntry)
  BY ReadTyped
<1>2. /\ DOMAIN frontRead' = DOMAIN frontRead \cup {n}
      /\ \A i \in DOMAIN frontRead : frontRead'[i] = frontRead[i]
      /\ frontRead'[n] = e
  BY <1>1, OneMore
<1> HIDE DEF n
<1>3. FrontWords(c)' = FrontWords(c) /\ \A i \in FrontWords(c) : frontRead'[i] = frontRead[i]
  BY <1>2 DEF FrontWords
<1>4. LastFrontWords(c)' = LastFrontWords(c)
  BY <1>3 DEF LastFrontWords
<1>5. \A i \in LastFrontWords(c) : frontRead'[i] = frontRead[i]
  BY <1>3 DEF LastFrontWords
<1>6. QED
  BY <1>3, <1>4, <1>5 DEF SaidFront

LEMMA NewFrontLine ==
  ASSUME MapsInv, NEW b \in Buttons, FrontLine(b)
  PROVE  MapsInv'
<1> DEFINE e == [line |-> applied + 1, button |-> b, word |-> "="]
<1>1. /\ stage = "frontend" /\ stage' = stage
      /\ fmap' = Without(fmap, b) /\ lost' = lost \ ({b} \X FrontActions)
      /\ button' = b /\ applied' = applied + 1
      /\ frontRead' = Append(frontRead, e)
      /\ UNCHANGED <<map, special, cleared, raceRead>>
  BY DEF FrontLine
<1>2. /\ applied \in Nat /\ fmap \in MapsOf(FrontActions)
      /\ \A a \in BitActions : a \notin FrontActions
  BY SettingsAssumption DEF MapsInv, Typed, MapsTyped
<1>3. e \in FrontEntry /\ frontRead \in Seq(FrontEntry)
  BY <1>2, ReadTyped DEF MapsInv, FrontEntry
<1>4. /\ DOMAIN frontRead' = DOMAIN frontRead \cup {Len(frontRead) + 1}
      /\ \A i \in DOMAIN frontRead : frontRead'[i] = frontRead[i]
      /\ frontRead'[Len(frontRead) + 1] = e /\ frontRead' \in Seq(FrontEntry)
  BY <1>1, <1>3, OneMore
<1>5. e.line = applied + 1 /\ e.button = b /\ e.word = "="
  OBVIOUS
<1>6. RaceTold /\ FrontTold /\ SpecialTold
  BY <1>1, ToldBefore DEF MapsInv
<1>7. SaidFront(b)' = {}
  BY <1>1, FrontLineSays DEF MapsInv
<1> HIDE DEF e
<1>8. \A c \in Buttons \ {b} : SaidFront(c)' = SaidFront(c)
  BY <1>1, <1>3, <1>5, OthersFront DEF MapsInv
<1>9. /\ fmap' \in MapsOf(FrontActions) /\ On(fmap', b) = {}
      /\ \A c \in Buttons \ {b} : On(fmap', c) = On(fmap, c)
  BY <1>1, <1>2, WithoutTakesOut
<1>10. RaceTold' /\ SpecialTold'
  <2>1. ASSUME NEW c \in Buttons
        PROVE  Kept(c, SaidBits(c))' = Kept(c, SaidBits(c))
    BY <1>1, <1>2, RaceSaysSame, SaidTyped DEF Kept, MapsInv
  <2>2. QED
    BY <1>1, <1>6, <2>1, RaceSaysSame DEF RaceTold, SpecialTold
<1>11. FrontTold'
  BY <1>1, <1>6, <1>7, <1>8, <1>9 DEF FrontTold, Kept
<1>12. ByTheRules'
  BY <1>1, <1>10, <1>11 DEF ByTheRules, RaceTold, FrontTold, SpecialTold
<1>13. FrontLineKnown'
  <2>1. \A i \in DOMAIN frontRead : frontRead[i].line \in Nat /\ frontRead[i].line <= applied
    BY ReadTyped DEF MapsInv, FrontLineKnown
  <2>2. \A i \in DOMAIN frontRead' : /\ frontRead'[i].line <= applied'
                                     /\ frontRead'[i].line = applied' => frontRead'[i].button = b
    BY <1>1, <1>2, <1>4, <1>5, <2>1
  <2>3. \E i \in DOMAIN frontRead' : frontRead'[i].line = applied'
    BY <1>1, <1>4, <1>5
  <2>4. \A a \in FrontActions : <<b, a>> \notin lost'
    BY <1>1
  <2>5. QED
    BY <1>1, <2>2, <2>3, <2>4 DEF FrontLineKnown
<1>14. RaceLineKnown' /\ NoLineYet'
  <2>1. \A i \in DOMAIN raceRead : raceRead[i].line <= applied'
    BY <1>1, <1>2, ReadTyped DEF MapsInv, RaceLineKnown
  <2>2. QED
    BY <1>1, <2>1 DEF RaceLineKnown, NoLineYet, RaceSections
<1>15. Typed'
  BY <1>1, <1>2, <1>4, <1>9 DEF MapsInv, Typed, MapsTyped, MapsOf, FrontEntry, FrontEntries
<1>16. QED
  BY <1>12, <1>13, <1>14, <1>15 DEF MapsInv

LEMMA NewFrontWord ==
  ASSUME MapsInv, NEW b \in Buttons, button = b, NEW a \in FrontActions, FrontWord(a)
  PROVE  MapsInv'
<1> DEFINE e == [line |-> applied, button |-> b, word |-> a]
<1>1. /\ stage = "frontend" /\ stage' = stage
      /\ fmap' = Plus(fmap, b, a) /\ lost' = lost \cup DroppedBy(fmap, b, a)
      /\ frontRead' = Append(frontRead, e)
      /\ UNCHANGED <<map, special, button, cleared, applied, raceRead>>
  BY DEF FrontWord, Entry
<1>2. /\ applied \in Nat /\ fmap \in MapsOf(FrontActions) /\ NoButton \notin Buttons
      /\ lost \subseteq Buttons \X (BitActions \cup FrontActions)
      /\ \A x \in BitActions : x \notin FrontActions
  BY SettingsAssumption DEF MapsInv, Typed, MapsTyped
<1>3. e \in FrontEntry /\ frontRead \in Seq(FrontEntry)
  BY <1>2, ReadTyped DEF MapsInv, FrontEntry
<1>4. /\ DOMAIN frontRead' = DOMAIN frontRead \cup {Len(frontRead) + 1}
      /\ \A i \in DOMAIN frontRead : frontRead'[i] = frontRead[i]
      /\ frontRead'[Len(frontRead) + 1] = e /\ frontRead' \in Seq(FrontEntry)
  BY <1>1, <1>3, OneMore
<1>5. e.line = applied /\ e.button = b /\ e.word = a
  OBVIOUS
<1>6. RaceTold /\ FrontTold /\ SpecialTold
  BY <1>1, ToldBefore DEF MapsInv
<1>7. SaidFront(b)' = SaidFront(b) \cup {a}
  BY <1>1, FrontWordSays DEF MapsInv
<1> HIDE DEF e
<1>8. \A c \in Buttons \ {b} : SaidFront(c)' = SaidFront(c)
  BY <1>1, <1>3, <1>5, OthersFront DEF MapsInv
<1>9. ~Full(fmap) => \A x \in FrontActions : <<b, x>> \notin lost
  BY <1>1, <1>2 DEF MapsInv, FrontLineKnown
<1>10. /\ fmap' \in MapsOf(FrontActions)
       /\ Full(fmap) => fmap' = fmap
       /\ \A c \in Buttons \ {b} : On(fmap', c) = On(fmap, c)
  BY <1>1, <1>2, PlusAdds
<1>11. /\ On(fmap', b) = {x \in SaidFront(b) \cup {a} : <<b, x>> \notin lost'}
       /\ \A c, x : c # b => <<c, x>> \notin DroppedBy(fmap, b, a)
  <2>1. On(fmap, b) = {x \in SaidFront(b) : <<b, x>> \notin lost}
    BY <1>6 DEF FrontTold, Kept
  <2>2. ~Full(fmap) => <<b, a>> \notin lost
    BY <1>9
  <2> DEFINE said == SaidFront(b)
  <2> HIDE DEF said
  <2>3. /\ On(Plus(fmap, b, a), b)
             = {x \in said \cup {a} : <<b, x>> \notin lost \cup DroppedBy(fmap, b, a)}
        /\ \A c, x : c # b => <<c, x>> \notin DroppedBy(fmap, b, a)
    BY <1>2, <2>1, <2>2, AddedOrLost DEF said
  <2>4. QED
    BY <1>1, <2>3 DEF said
<1>12. /\ DroppedBy(fmap, b, a) \subseteq {<<b, a>>}
       /\ ~Full(fmap) => DroppedBy(fmap, b, a) = {}
  BY DEF DroppedBy
<1>13. /\ \A c, x : x \in BitActions => (<<c, x>> \in lost' <=> <<c, x>> \in lost)
       /\ lost' \subseteq Buttons \X (BitActions \cup FrontActions)
       /\ ~Full(fmap') => \A x \in FrontActions : <<b, x>> \notin lost'
  BY <1>1, <1>2, <1>9, <1>10, <1>12
<1>14. RaceTold' /\ SpecialTold'
  <2>1. ASSUME NEW c \in Buttons
        PROVE  Kept(c, SaidBits(c))' = Kept(c, SaidBits(c))
    BY <1>1, <1>13, RaceSaysSame, SaidTyped DEF Kept, MapsInv
  <2>2. QED
    BY <1>1, <1>6, <2>1, RaceSaysSame DEF RaceTold, SpecialTold
<1>15. FrontTold'
  BY <1>1, <1>6, <1>7, <1>8, <1>10, <1>11 DEF FrontTold, Kept
<1>16. ByTheRules'
  BY <1>1, <1>14, <1>15 DEF ByTheRules, RaceTold, FrontTold, SpecialTold
<1>17. FrontLineKnown'
  <2>1. \A i \in DOMAIN frontRead' : /\ frontRead'[i].line <= applied'
                                     /\ frontRead'[i].line = applied' => frontRead'[i].button = b
    BY <1>1, <1>2, <1>4, <1>5 DEF MapsInv, FrontLineKnown
  <2>2. QED
    BY <1>1, <1>4, <1>5, <1>13, <2>1 DEF FrontLineKnown
<1>18. RaceLineKnown' /\ NoLineYet'
  BY <1>1 DEF MapsInv, RaceLineKnown, NoLineYet, RaceSections
<1>19. Typed'
  BY <1>1, <1>2, <1>4, <1>10, <1>13
     DEF MapsInv, Typed, MapsTyped, MapsOf, FrontEntry, FrontEntries
<1>20. QED
  BY <1>16, <1>17, <1>18, <1>19 DEF MapsInv

-----------------------------------------------------------------------------

LEMMA LoadStep == MapsInv /\ [LoadNext]_loadVars => MapsInv'
<1> SUFFICES ASSUME MapsInv, [LoadNext]_loadVars
             PROVE  MapsInv'
  OBVIOUS
<1>1. CASE FindFile \/ EndPass
  BY <1>1, BetweenLines
<1>2. CASE RaceFrame \/ MenuFrame
  BY <1>2, FirstFrame
<1>3. ASSUME NEW b \in Buttons, RaceLine(b)
      PROVE  MapsInv'
  BY <1>3, NewRaceLine
<1>4. ASSUME NEW b \in Buttons, FrontLine(b)
      PROVE  MapsInv'
  BY <1>4, NewFrontLine
<1>5. ASSUME NEW s \in Special, SpecialWord(s)
      PROVE  MapsInv'
  BY <1>5, NewSpecialWord
<1>6. ASSUME NEW w \in Clearing, ClearingWord(w)
      PROVE  MapsInv'
  <2>1. button \in Buttons
    BY <1>6 DEF ClearingWord, InRaceLine, MapsInv, Typed, MapsTyped
  <2>2. QED
    BY <1>6, <2>1, NewClearingWord
<1>7. ASSUME NEW a \in FrontActions, FrontWord(a)
      PROVE  MapsInv'
  <2>1. button \in Buttons
    BY <1>7 DEF FrontWord, MapsInv, Typed, MapsTyped
  <2>2. QED
    BY <1>7, <2>1, NewFrontWord
<1>8. CASE UNCHANGED loadVars
  <2>1. UNCHANGED <<stage, map, special, fmap, button, cleared, applied, raceRead, frontRead,
                    lost>>
    BY <1>8 DEF loadVars, history
  <2>2. Typed' /\ NoLineYet' /\ RaceLineKnown' /\ FrontLineKnown'
    BY <2>1 DEF MapsInv, Typed, MapsTyped, MapsOf, NoLineYet, RaceLineKnown, FrontLineKnown
  <2>3. ByTheRules'
    BY <2>1, RaceSaysSame, FrontSaysSame
       DEF MapsInv, ByTheRules, RaceTold, FrontTold, SpecialTold, AtDefaults, NoBits, NoFront, Kept
  <2>4. QED
    BY <2>2, <2>3 DEF MapsInv
<1>9. QED
  BY <1>1, <1>2, <1>3, <1>4, <1>5, <1>6, <1>7, <1>8 DEF LoadNext

\* The maps have the right types, whatever lines a file has.
THEOREM MapsAreTyped == LoadSpec => []MapsTyped
<1>1. MapsInv => MapsTyped
  BY DEF MapsInv, Typed
<1>2. QED
  BY <1>1, LoadStart, LoadStep, PTL DEF LoadSpec

\* Code and documents agree about a special action that is not disputed.
LEMMA RulesAreWritten == ByTheRules => AsWritten
<1>1. SUFFICES ASSUME SpecialTold, NEW s \in Special
               PROVE  special[s] = DocumentedButton(s) \/ Disputed(s)
  BY DEF ByTheRules, AsWritten, RaceTold, FrontTold
<1>2. special[s] = SaidButton(s)
  BY <1>1 DEF SpecialTold
<1>3. Unbound(s) /\ s \in GoWithBits => TakenAway(s)
  BY DEF Unbound, TakenAway
<1>4. TakenAway(s) => s \in GoWithBits
  BY DEF TakenAway
<1>5. QED
  BY <1>2, <1>3, <1>4 DEF SaidButton, DocumentedButton, Disputed

\* At every word of every file, however long, the maps are what the documents say
\* of the lines as a whole, whatever the order of lines and words, but for the special
\* actions that Disputed names; and the first frame finds those maps, or the
\* defaults where no bit is left (map_set, front_set, map_buttons, front_bits).
THEOREM MapsAreAsWritten == LoadSpec => []AsWritten
<1>1. MapsInv => AsWritten
  BY RulesAreWritten DEF MapsInv
<1>2. QED
  BY <1>1, LoadStart, LoadStep, PTL DEF LoadSpec
=============================================================================
