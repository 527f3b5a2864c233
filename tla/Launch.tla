------------------------------- MODULE Launch -------------------------------
(***************************************************************************)
(* How a session starts: GvrLaunch's WinMain up to the message loop, and   *)
(* the race that the frontend starts.  The launcher syncs the race's       *)
(* window mode into the frontend's argument file, starts the frontend      *)
(* suspended, patches it in memory, puts up its window and lets it run; it *)
(* can be killed between any two of these.  The settings are read again at *)
(* every place that needs them, and the player edits them at any time.     *)
(*                                                                         *)
(* What the launcher does from then on is Desktop, whose initial states    *)
(* take from here that the launcher knows whether its frontend is patched  *)
(* (KeepIsWhole).  The player does not start the game again while a        *)
(* frontend runs.  The picture, the log, the early load of the input DLL   *)
(* and the race's choice of a size are left out.                           *)
(***************************************************************************)
CONSTANTS
  Builds     \* frontends that may be installed: the sites that look as expected

KeepSites == {"renderer", "window", "rebuild"}   \* KEEP_SHELL
SizeSites == {"form", "panel"}                   \* SITE_FORM_*, SITE_PANEL_*
Keys == {"sized", "full", "keep", "backdrop", "merge"}
Off == "off"

ASSUME LaunchAssumption ==
  Builds \subseteq SUBSET (KeepSites \cup SizeSites)

VARIABLES
  found, ini,   \* whether gvr_settings.ini is there; what is true in it
  args,         \* the token in CommandlineArgs_data.gvr: "full" or "wind"
  sites, ownDb, \* the machine: a build, whether game.db is there
  env,          \* the last launcher's: GVRSQLITE_DB ("own", "other", "unset") and
                \* GVRSQLITE_DB_NAS1
  pc,           \* of the launcher: what it does next; "killed"
  sized,        \* w, h > 0
  keepShell, merge, window, \* g_keepShell, g_merge, useBackdrop
  shell,        \* "off", "suspended" or "runs"
  written,      \* the sites of this frontend that have been patched
  race,         \* "off", or its window mode
  asked,        \* history: the mode synced for this session, "none" if that failed
  botched       \* history: Windows refused to write some of the keep sites

machine == <<found, sites, ownDb>>
launcher == <<sized, keepShell, merge, window>>
vars == <<ini, args, env, pc, shell, written, race, asked, botched, machine, launcher>>

Modes == {"full", "wind"}
Steps == {"guard", "create", "sizes", "keep", "window", "resume", "watch"}

TypeOK ==
  /\ found \in BOOLEAN /\ ini \subseteq Keys /\ args \in Modes
  /\ sites \in Builds /\ ownDb \in BOOLEAN
  /\ env \in [db : {"own", "other", "unset"}, nas1 : BOOLEAN]
  /\ pc \in Steps \cup {Off, "killed"}
  /\ {sized, keepShell, merge, window, botched} \subseteq BOOLEAN
  /\ shell \in {Off, "suspended", "runs"}
  /\ written \subseteq KeepSites \cup SizeSites
  /\ race \in Modes \cup {Off}
  /\ asked \in Modes \cup {"none"}

\* What a launcher may find: another title, or an older installer, has set it.
Inherited == [db : {"other", "unset"}, nas1 : BOOLEAN]

Init ==
  /\ found \in BOOLEAN /\ ini \in SUBSET Keys /\ (~found => ini = {}) /\ args \in Modes
  /\ sites \in Builds /\ ownDb \in BOOLEAN
  /\ env \in Inherited
  /\ pc = Off /\ sized = FALSE /\ keepShell = FALSE /\ merge = FALSE /\ window = FALSE
  /\ shell = Off /\ written = {} /\ race = Off /\ asked = "none" /\ botched = FALSE

\* ini_int, ini_bool, GetPrivateProfileString
Says(key) == found /\ key \in ini

-----------------------------------------------------------------------------
(* The launcher.                                                           *)

\* Faulty variant: the token is put in one way only.
SyncFull(opened) ==
  LET want == IF Says("full") THEN "full" ELSE "wind" IN
  /\ args' = IF opened /\ want = "full" THEN want ELSE args
  /\ asked' = IF opened THEN want ELSE "none"

\* sync_race_fullscreen; the file is not opened when another program has it.
Sync(opened) ==
  LET want == IF Says("full") THEN "full" ELSE "wind" IN
  /\ args' = IF opened THEN want ELSE args
  /\ asked' = IF opened THEN want ELSE "none"

Start ==
  /\ pc \in {Off, "killed"} /\ shell # "runs" /\ pc' = "guard"
  /\ sized' = Says("sized") /\ keepShell' = FALSE /\ merge' = FALSE /\ window' = FALSE
  /\ \E opened \in BOOLEAN : Sync(opened /\ found)
  /\ env' \in Inherited
  /\ UNCHANGED <<machine, ini, shell, written, race, botched>>

\* Faulty variant: the override of the other title is passed on.
OwnEnvKept == [env EXCEPT !.db = IF ownDb THEN "own" ELSE @]

\* The environment that the programs inherit.
OwnEnv == [db |-> IF ownDb THEN "own" ELSE env.db, nas1 |-> FALSE]

\* Nothing is started without .NET 1.1.
Guard ==
  /\ pc = "guard"
  /\ \/ pc' = Off /\ UNCHANGED env
     \/ pc' = "create" /\ env' = OwnEnv
  /\ UNCHANGED <<machine, launcher, ini, args, shell, written, race, asked, botched>>

Create ==
  /\ pc = "create"
  /\ \/ pc' = Off /\ UNCHANGED <<shell, written, botched>>
     \/ pc' = "sizes" /\ shell' = "suspended" /\ written' = {} /\ botched' = FALSE
  /\ UNCHANGED <<machine, launcher, ini, args, env, race, asked>>

\* The sites that are in the file's sections and look as expected.
Patchable(S) == sites \cap S

\* Each site by itself, and some may be refused; none without an image base.
PatchSizes ==
  /\ pc = "sizes" /\ pc' = "keep"
  /\ \E done \in SUBSET Patchable(SizeSites) :
       written' = IF sized THEN written \cup done ELSE written
  /\ UNCHANGED <<machine, launcher, ini, args, env, shell, race, asked, botched>>

\* Faulty variant: each site is written as soon as it has been looked at.
KeepEach(refused) ==
  /\ keepShell' = (KeepSites \subseteq sites)
  /\ written' = written \cup (Patchable(KeepSites) \ refused)
  /\ botched' = (refused # {})

\* patch_keep_shell: every site is looked at before the first is written, and
\* what was refused then goes unnoticed.
KeepAll(refused) ==
  /\ keepShell' = (KeepSites \subseteq sites)
  /\ written' = IF keepShell' THEN written \cup (KeepSites \ refused) ELSE written
  /\ botched' = (keepShell' /\ refused # {})

\* With an image base, which may not be had.
PatchKeep ==
  /\ pc = "keep" /\ pc' = "window"
  /\ \/ Says("keep") /\ \E refused \in SUBSET KeepSites : KeepAll(refused)
     \/ UNCHANGED <<keepShell, written, botched>>
  /\ UNCHANGED <<machine, ini, args, env, sized, merge, window, shell, race, asked>>

Backdrop == found => "backdrop" \in ini

\* Faulty variant: KeepShell does not ask for the window.
NeedsWindowLess == Backdrop \/ Says("merge")

\* The window is the host of Merge and the watcher of KeepShell.
NeedsWindow == Backdrop \/ Says("merge") \/ keepShell

MakeWindow ==
  /\ pc = "window" /\ pc' = "resume"
  /\ merge' = Says("merge") /\ window' = NeedsWindow
  /\ UNCHANGED <<machine, ini, args, env, sized, keepShell, shell, written, race, asked,
                 botched>>

Resume ==
  /\ pc = "resume" /\ shell' = "runs"
  /\ pc' = IF window THEN "watch" ELSE Off
  /\ UNCHANGED <<machine, launcher, ini, args, env, written, race, asked, botched>>

\* The message loop ends as in Desktop: KeepShell's watcher after both programs
\* (KeepOutlives), another launcher when it has seen no window for a while.
Leave ==
  /\ pc = "watch" /\ pc' = Off
  /\ keepShell /\ ~merge => shell = Off /\ race = Off
  /\ UNCHANGED <<machine, launcher, ini, args, env, shell, written, race, asked, botched>>

Kill ==
  /\ pc \in Steps /\ pc' = "killed"
  /\ UNCHANGED <<machine, launcher, ini, args, env, shell, written, race, asked, botched>>

-----------------------------------------------------------------------------
(* The frontend, the race and the player.                                  *)

\* The frontend passes the token on, and the shim in the race goes by it.
RunRace ==
  /\ shell = "runs" /\ race = Off /\ race' = args
  /\ UNCHANGED <<machine, launcher, ini, args, env, pc, shell, written, asked, botched>>

RaceEnds ==
  /\ race # Off /\ race' = Off
  /\ UNCHANGED <<machine, launcher, ini, args, env, pc, shell, written, asked, botched>>

ShellEnds ==
  /\ shell = "runs" /\ shell' = Off /\ written' = {} /\ botched' = FALSE
  /\ UNCHANGED <<machine, launcher, ini, args, env, pc, race, asked>>

Edit(key) ==
  /\ found
  /\ ini' = IF key \in ini THEN ini \ {key} ELSE ini \cup {key}
  /\ UNCHANGED <<machine, launcher, args, env, pc, shell, written, race, asked, botched>>

Next ==
  \/ Start \/ Guard \/ Create \/ PatchSizes \/ PatchKeep \/ MakeWindow \/ Resume
  \/ Leave \/ Kill \/ RunRace \/ RaceEnds \/ ShellEnds
  \/ \E key \in Keys : Edit(key)

Spec == Init /\ [][Next]_vars

-----------------------------------------------------------------------------
(* Properties.                                                             *)

\* A frontend of another build is never half patched, and the launcher that
\* watches knows what its frontend does ("all-or-nothing", patch_keep_shell),
\* as Desktop's initial states have it, unless Windows has refused a write.
KeepIsWhole ==
  shell = "runs" /\ ~botched =>
    /\ written \cap KeepSites \in {{}, KeepSites}
    /\ pc = "watch" => keepShell = (KeepSites \subseteq written)

\* A frontend that stays behind the race has the launcher to hand the focus
\* over, whatever the Backdrop setting and however the settings change during
\* the start ("the window is also the focus watcher: always needed", WinMain).
\* With Merge the launcher goes by the windows, and may leave before it.
KeepHasWatcher ==
  shell = "runs" /\ KeepSites \subseteq written => pc \in {"watch", "killed"} \/ merge

\* The race runs in the mode that was asked for when the game was started,
\* whichever the file held before and whatever is edited later.
ModeAsAsked == [][RunRace => asked = "none" \/ race' = asked]_vars

\* Where the provider looks for the database (ResolveDbPath).
Opens == IF env.nas1 THEN "nascar" ELSE env.db

\* The frontend works on this install's database, if it has one, though another
\* title or an older installer has set the variables ("two installs never share
\* a database", WinMain).
OwnDatabase == shell = "runs" /\ ownDb => Opens = "own"
=============================================================================
