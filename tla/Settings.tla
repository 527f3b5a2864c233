------------------------------ MODULE Settings ------------------------------
(***************************************************************************)
(* The button settings of GvrInputEmu.cpp.  load_button_config starts from *)
(* the built-in maps and applies the lines of gvr_settings.ini one by one, *)
(* and word by word, [Controller] for the race and [Frontend] for the      *)
(* menus; only if neither has a line, those of the older GvrInput.ini.     *)
(* The DLL of a race and the one of the menus then look their buttons up   *)
(* at every frame.                                                         *)
(*                                                                         *)
(* A line puts one button on several actions.  Most actions are bits of    *)
(* the game's buffer; the special ones are a global each, which names the  *)
(* one button that has it.  A line that cannot be read or names an unknown *)
(* button, and a word that is no action, are passed over and do not appear *)
(* in here.  Nobody looks at the order of a map's entries, so that a place *)
(* that is freed just stays free, where the code closes the gap.           *)
(***************************************************************************)
EXTENDS Integers, Sequences

CONSTANTS
  Buttons,
  BitActions,      \* the race's actions with a bit of the buffer
  GoWithBits,      \* camera, shiftup, shiftdown: lost when the bits are replaced
  Stay,            \* quit, skipintro, confirm: kept
  FrontActions,    \* the menus' actions with a bit; card has none
  RaceDefault, SpecialDefault, FrontDefault,   \* the built-in maps
  Cap,             \* places of g_map and of g_fmap (24)
  MaxLines, MaxWords,  \* lines and words that a file has for TLC
  NoButton

Special == GoWithBits \cup Stay

ASSUME SettingsAssumption ==
  /\ Cap \in Nat /\ MaxLines \in Nat /\ MaxWords \in Nat /\ NoButton \notin Buttons
  /\ RaceDefault \in Seq(Buttons \X BitActions) /\ Len(RaceDefault) <= Cap
  /\ FrontDefault \in Seq(Buttons \X FrontActions) /\ Len(FrontDefault) <= Cap
  /\ SpecialDefault \in [Special -> Buttons]
  /\ GoWithBits \cap Stay = {} /\ BitActions \cap FrontActions = {}
  /\ Special \cap BitActions = {}
  /\ \A w \in {"none", "="} : w \notin Special \cup BitActions \cup FrontActions

VARIABLES
  stage,     \* the section being read, then the program whose frames came
  map,       \* g_map: the button and the action of each place
  special,   \* g_ub_camera, g_ub_quit...: the button of each special action
  fmap,      \* g_fmap
  button,    \* ub, of the line being read
  cleared,   \* clearedBits, of that line
  applied,   \* n + nf, the lines applied
  raceRead, frontRead, \* history: the words applied, each with its line
  lost       \* history: <<button, action>> that a map had no place for

history == <<raceRead, frontRead, lost>>
loadVars == <<stage, map, special, fmap, button, cleared, applied, history>>

Free == <<NoButton, "none">>
Clearing == BitActions \cup {"none"}   \* the words that map_clear_ub is for
RaceWords == Special \cup Clearing
RaceSections == {"controller", "legacy"}

RaceEntries == (Buttons \X BitActions) \cup {Free}
FrontEntries == (Buttons \X FrontActions) \cup {Free}

MapsTyped ==
  /\ stage \in RaceSections \cup {"start", "frontend", "loaded", "race", "menus"}
  /\ map \in [1..Cap -> RaceEntries]
  /\ special \in [Special -> Buttons \cup {NoButton}]
  /\ fmap \in [1..Cap -> FrontEntries]
  /\ button \in Buttons \cup {NoButton} /\ cleared \in BOOLEAN /\ applied \in Nat
  /\ raceRead \in Seq([line : Nat, button : Buttons, word : RaceWords])
  /\ frontRead \in Seq([line : Nat, button : Buttons, word : FrontActions \cup {"="}])
  /\ lost \subseteq Buttons \X (BitActions \cup FrontActions)

-----------------------------------------------------------------------------
(* The maps.                                                               *)

On(m, b) == {m[i][2] : i \in {j \in DOMAIN m : m[j][1] = b}}
Full(m) == \A i \in DOMAIN m : m[i] # Free
Empty(m) == \A i \in DOMAIN m : m[i] = Free

Without(m, b) == [i \in DOMAIN m |-> IF m[i][1] = b THEN Free ELSE m[i]]
Plus(m, b, a) ==
  IF Full(m) THEN m ELSE [m EXCEPT ![CHOOSE i \in DOMAIN m : m[i] = Free] = <<b, a>>]
DroppedBy(m, b, a) == IF Full(m) /\ a \notin On(m, b) THEN {<<b, a>>} ELSE {}

\* A built-in map in its places.
Placed(s) == [i \in 1..Cap |-> IF i <= Len(s) THEN s[i] ELSE Free]

\* Faulty variant: the special actions go with any button's bits.
ClearAny(b) == [s \in Special |-> IF s \in GoWithBits THEN NoButton ELSE special[s]]

\* map_clear_ub, as to the special actions.
SpecialWithout(b) ==
  [s \in Special |-> IF s \in GoWithBits /\ special[s] = b THEN NoButton ELSE special[s]]

Defaults ==
  /\ map' = Placed(RaceDefault) /\ special' = SpecialDefault /\ fmap' = Placed(FrontDefault)

-----------------------------------------------------------------------------
(* load_button_config.                                                     *)

LoadInit ==
  /\ stage = "start"
  /\ map = Placed(RaceDefault) /\ special = SpecialDefault /\ fmap = Placed(FrontDefault)
  /\ button = NoButton /\ cleared = FALSE /\ applied = 0
  /\ raceRead = <<>> /\ frontRead = <<>> /\ lost = {}

\* gvr_settings.ini is found on the way up from the DLL's folder, or is not.
FindFile ==
  /\ stage = "start" /\ stage' \in {"controller", "legacy"}
  /\ UNCHANGED <<map, special, fmap, button, cleared, applied, history>>

Words == Len(raceRead) + Len(frontRead)
Entry(w) == [line |-> applied, button |-> button, word |-> w]

\* A line of a known button.
RaceLine(b) ==
  /\ stage \in RaceSections /\ applied < MaxLines
  /\ button' = b /\ cleared' = FALSE /\ applied' = applied + 1
  /\ UNCHANGED <<stage, map, special, fmap, history>>

InRaceLine == stage \in RaceSections /\ button # NoButton /\ Words < MaxWords

\* map_set_one: a special action moves to the line's button...
SpecialWord(s) ==
  /\ InRaceLine
  /\ special' = [special EXCEPT ![s] = button]
  /\ raceRead' = Append(raceRead, Entry(s))
  /\ UNCHANGED <<stage, map, fmap, button, cleared, applied, frontRead, lost>>

\* ... and the first bit of a line, or none, replaces what the button had.
ClearingWord(w) ==
  LET fresh == IF cleared THEN map ELSE Without(map, button)
      kept == IF cleared THEN lost ELSE lost \ ({button} \X BitActions)
  IN
  /\ InRaceLine
  /\ special' = IF cleared THEN special ELSE SpecialWithout(button)
  /\ IF w = "none" THEN map' = fresh /\ lost' = kept
     ELSE map' = Plus(fresh, button, w) /\ lost' = kept \cup DroppedBy(fresh, button, w)
  /\ cleared' = TRUE
  /\ raceRead' = Append(raceRead, Entry(w))
  /\ UNCHANGED <<stage, fmap, button, applied, frontRead>>

\* Faulty variant: as in the race, a line alone takes nothing away.
FrontLineKeeps(b) ==
  /\ stage = "frontend" /\ applied < MaxLines
  /\ button' = b /\ applied' = applied + 1
  /\ frontRead' = Append(frontRead, [line |-> applied', button |-> b, word |-> "="])
  /\ UNCHANGED <<stage, map, special, fmap, cleared, raceRead, lost>>

\* front_set: a line always replaces, also one without a word that is known.
FrontLine(b) ==
  /\ stage = "frontend" /\ applied < MaxLines
  /\ fmap' = Without(fmap, b) /\ lost' = lost \ ({b} \X FrontActions)
  /\ button' = b /\ applied' = applied + 1
  /\ frontRead' = Append(frontRead, [line |-> applied', button |-> b, word |-> "="])
  /\ UNCHANGED <<stage, map, special, cleared, raceRead>>

FrontWord(a) ==
  /\ stage = "frontend" /\ button # NoButton /\ Words < MaxWords
  /\ fmap' = Plus(fmap, button, a) /\ lost' = lost \cup DroppedBy(fmap, button, a)
  /\ frontRead' = Append(frontRead, Entry(a))
  /\ UNCHANGED <<stage, map, special, button, cleared, applied, raceRead>>

\* The second pass over the file, and GvrInput.ini after two empty ones.
EndPass ==
  /\ \/ stage = "controller" /\ stage' = "frontend"
     \/ stage = "frontend" /\ stage' = IF applied = 0 THEN "legacy" ELSE "loaded"
     \/ stage = "legacy" /\ stage' = "loaded"
  /\ button' = NoButton /\ cleared' = FALSE
  /\ UNCHANGED <<map, special, fmap, applied, history>>

-----------------------------------------------------------------------------
(* The first frame.                                                        *)

\* map_buttons: an empty map is replaced, by all of the defaults.
RaceFrame ==
  /\ stage = "loaded" /\ stage' = "race"
  /\ IF Empty(map) THEN Defaults ELSE UNCHANGED <<map, special, fmap>>
  /\ UNCHANGED <<button, cleared, applied, history>>

\* front_bits
MenuFrame ==
  /\ stage = "loaded" /\ stage' = "menus"
  /\ IF Empty(fmap) THEN Defaults ELSE UNCHANGED <<map, special, fmap>>
  /\ UNCHANGED <<button, cleared, applied, history>>

LoadNext ==
  \/ FindFile \/ EndPass \/ RaceFrame \/ MenuFrame
  \/ \E b \in Buttons : RaceLine(b) \/ FrontLine(b)
  \/ \E s \in Special : SpecialWord(s)
  \/ \E w \in Clearing : ClearingWord(w)
  \/ \E a \in FrontActions : FrontWord(a)

LoadSpec == LoadInit /\ [][LoadNext]_loadVars

-----------------------------------------------------------------------------
(* What a file says, when it is not carried out word by word.              *)

\* What was said about the bits of b, and what its last line with any said.
BitWords(b) == {i \in DOMAIN raceRead : raceRead[i].button = b /\ raceRead[i].word \in Clearing}
LastBitWords(b) ==
  {i \in BitWords(b) : \A j \in BitWords(b) : raceRead[j].line <= raceRead[i].line}
SaidBits(b) ==
  IF BitWords(b) = {} THEN On(Placed(RaceDefault), b)
  ELSE {raceRead[i].word : i \in LastBitWords(b)} \ {"none"}

\* A line takes the bits of its button away where it says the first of its own.
Clears(b) ==
  {i \in BitWords(b) : \A j \in BitWords(b) : j < i => raceRead[j].line # raceRead[i].line}

\* The last line that names s gives it to its button; one that goes with the
\* bits goes when they are taken away after that.
Namings(s) == {i \in DOMAIN raceRead : raceRead[i].word = s}
LastNaming(s) ==
  IF Namings(s) = {} THEN 0 ELSE CHOOSE i \in Namings(s) : \A j \in Namings(s) : j <= i
GivenTo(s) == IF Namings(s) = {} THEN SpecialDefault[s] ELSE raceRead[LastNaming(s)].button
TakenAway(s) == s \in GoWithBits /\ \E i \in Clears(GivenTo(s)) : i > LastNaming(s)

\* The documents have it so: a special action stays on its button when the
\* button's bits change, and none unbinds it (the comment over SPEC_CAMERA, and
\* gvr_settings.ini: "= none unbinds it").
Unbound(s) ==
  \E i \in Clears(GivenTo(s)) : i > LastNaming(s) /\ raceRead[i].word = "none"
DocumentedButton(s) == IF Unbound(s) THEN NoButton ELSE GivenTo(s)

\* Where the code does otherwise: a new bit takes camera and the shifts off its
\* button, and none leaves it quit, skipintro and confirm (map_clear_ub).
Disputed(s) == IF s \in GoWithBits THEN TakenAway(s) /\ ~Unbound(s) ELSE Unbound(s)

FrontWords(b) == {i \in DOMAIN frontRead : frontRead[i].button = b}
LastFrontWords(b) ==
  {i \in FrontWords(b) : \A j \in FrontWords(b) : frontRead[j].line <= frontRead[i].line}
SaidFront(b) ==
  IF FrontWords(b) = {} THEN On(Placed(FrontDefault), b)
  ELSE {frontRead[i].word : i \in LastFrontWords(b)} \ {"="}

-----------------------------------------------------------------------------
(* Properties.                                                             *)

Kept(b, said) == {a \in said : <<b, a>> \notin lost}
NoBits == \A b \in Buttons : Kept(b, SaidBits(b)) = {}
NoFront == \A b \in Buttons : Kept(b, SaidFront(b)) = {}

AtDefaults ==
  map = Placed(RaceDefault) /\ special = SpecialDefault /\ fmap = Placed(FrontDefault)

\* What the code leaves in the maps word by word is what the documents say of the
\* lines as a whole, in whatever order they come: the last line of a button stands
\* for its bits, the last one that names a special action for its button until none
\* unbinds it, and a button without a line keeps its default (map_set, front_set).
\* It says nothing of a special action that code and documents disagree about
\* (Disputed).  A full map drops additions, and a file that leaves a program no bit at all
\* counts for nothing, its special actions included (map_buttons, front_bits).
AsWritten ==
  IF (stage = "race" /\ NoBits) \/ (stage = "menus" /\ NoFront) THEN AtDefaults
  ELSE /\ \A b \in Buttons : On(map, b) = Kept(b, SaidBits(b))
       /\ \A b \in Buttons : On(fmap, b) = Kept(b, SaidFront(b))
       /\ \A s \in Special : special[s] = DocumentedButton(s) \/ Disputed(s)
=============================================================================
