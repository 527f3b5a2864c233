# NFS Underground GVR: a TLA+ model of the cabinet shims

Need for Speed Underground GVR is an arcade cabinet of the 2000s: a frontend
(`UniverShell2.exe`, "the shell") that shows attract movies and menus, and the
race itself (`UndergroundGVR.exe`). The shell starts the race and takes over
again when it ends. This repository lets both run on a home PC. It replaces the
cabinet's hardware by small Windows programs and DLLs, and those are what the
modules here describe: the smart card reader, the controls, the registry, the
database adapter, and the launcher that starts the two programs and keeps their
windows in order.

What makes them hard to test is that they are loaded into two closed-source
programs that come and go, share state through Windows (a named event, files,
mutexes, the foreground window), poll each other at different rates, and are
killed at any time.

## 1. Inventory

Paths are relative to `src/src/` unless they say otherwise.

### 1.1 The card slot: `GvrCardEmu/GvrCardEmu.cpp` (CardSlot)

*State.* A named event, `Local\GvrCardEmuInserted`, is signalled while the card
is in; it exists as long as some process has a handle. Each program with the DLL
keeps a cache of it (`g_inserted`) and timers: `g_lastIo`, `g_insertedAt`,
`g_armed` (a write has happened), `g_reinsertAt`.

*Operations.* `Ejected()` is the heart: sample the event, take a change over
and restart the timers, decide (timed re-insert, auto-eject after a write, idle
eject), carry it out, read the event again. `GetStatus` and `Connect` call it,
`Read` and `Write` touch the timers. DLL load and process end.

*Hard.* Three processes move the card with no lock; the look and the move are
separate system calls; a pulse of the event between two polls is not noticed;
timers are per program while the card is shared.

*Correct when* a program pulls the card only for a reason that concerns this
stay of the card, an abandoned card does come out, no program puts it in unless
told to, and all programs come to agree.

### 1.2 The card's contents: `GvrCardEmu.cpp`, `LoadImage`/`SaveImage` (CardImage)

*State.* The card file next to the DLL; in each program the device object with
the whole card (`m_card`), `m_init` and `m_dirty`.

*Operations.* Create, `Initialize` (loads), `Write`, `Format`, `Shutdown`,
release; each of the last four saves the whole card.

*Hard.* Two programs save whole copies over each other; Windows' share modes
refuse an open while the other program has the file; calls succeed although
the save did not; a program is killed between truncating and writing.

*Correct when* what was acknowledged is found by the next session, and `m_dirty`
knows when it is not yet in the file.

### 1.3 The card key watcher: `GvrCardEmu/GvrCardKey.cpp` (CardKey)

*State.* A process of its own, made single by a named mutex. Flags for three
requests (insert, toggle, pad toggle), a debounce, the time a game was last seen.

*Operations.* A low-level keyboard hook, raw input, XInput and DS4 polls; a loop
that carries requests out, ends itself 8 s after the last program.

*Hard.* Each program launches one, an earlier one may still be ending; one key
press is seen by the hook and by raw input, and comes again with the keyboard's
repetition; the attract demo presses START too; pad buttons bounce at the press and
at the release; the foreground is asked at handling and not at the press.

*Correct when* there is one watcher as long as there is a game and none later,
and each key-down message and each click of the pad button moves the card once at
most. (The release of a button held for long may move it again; see section 4.)

### 1.4 The private registry: `GvrPrivReg/GvrPrivReg.cpp`, `GvrInputEmu/NfsuPrivReg.cpp` (PrivReg)

*State.* One ini file per install, a table of defaults, some of them computed
from the install folder (`%ROOT%`); open handles per program.

*Operations.* The hooked advapi32 calls: open, create, close, query, set,
delete, enumerate keys and values.

*Hard.* Two programs work on the file; create and delete look first and write
then; deletion of a default has to be remembered; enumeration and query each
read the file in their own way; the install can be moved.

*Correct when* the games cannot tell it from one registry.

### 1.5 Pad and keyboard: `GvrInputEmu/GvrInputEmu.cpp` (Pad)

*State.* Per program: the last pad report of a DS4, a back-off for XInput, the
previous frame's buttons and edges, gear, quit command counter, the menu's wheel.

*Operations.* `GVRInputRawUpdate` once a frame: quit key, `read_pad`, and either
the race's buttons or `shell_update`.

*Hard.* Pads disappear and return, DS4 reports are late, each action wants a
rising edge of its own, the quit control is looked at one frame late, the prompt
appears and goes by itself, and the menus hang if the wheel does not rest.

*Correct when* each press acts once, none is lost, and the outputs follow the
hands.

### 1.6 Windows and focus: `GvrLaunch/GvrLaunch.cpp` and `keep_not_topmost` (Desktop)

*State.* The launcher's window (backdrop), its mode, last target, time since a
window was seen; in each program whether its window is topmost, a cached look
for the race, a grace period.

*Operations.* A 120 ms timer in the launcher; `keep_not_topmost` in each
program; windows come, go, are minimised; the player alt-tabs.

*Hard.* Three processes and a player write the same thing (foreground, z-order)
with no lock; looks are cached; programs change between look and act.

*Correct when* the race gets the foreground and comes above shell and taskbar,
gives both back when the player leaves, the desktop is covered between the programs, and the launcher
lives as long as the game and no longer.

### 1.7 Button settings: `GvrInputEmu.cpp`, `map_set` to `load_button_config` (Settings)

*State.* The maps from buttons to the race's actions (`g_map`) and the menus'
(`g_fmap`), 24 entries each, and one global per special action (`g_ub_quit`...).

*Operations.* `load_button_config` applies the file's lines one by one to the
built-in maps; at a frame an empty map is replaced by the defaults.

*Hard.* What a button does depends on the order of the words of a line and of
the lines, on special actions that go with a button's bits and others that stay,
and on how full the map is.

*Correct when* the maps are those that the documents say of the lines as a whole,
whatever their order. (In two cases they are not; see section 4.)

### 1.8 The start of a session: `GvrLaunch.cpp`, `WinMain`, and the race's window mode (Launch)

*State.* The settings file and the frontend's argument file; the launcher's
switches, the environment it hands on, the suspended frontend and its patches;
the race's window mode.

*Operations.* Sync the window mode, set the environment, start the frontend
suspended, patch its size and its KeepShell sites, put up the window, resume.

*Hard.* The settings are read again at every place, and edited in between; the
patches are written one by one; any write may be refused, the build be another,
the launcher be killed between two steps.

*Correct when* a running frontend has all of the KeepShell patches or none, one
that stays up is watched, the race gets the window mode asked for, and the
database is this install's.

### 1.9 The database adapter: `NFSU_GVR_Portable/SQLite/GvrSqlite.cs` (Database)

*State.* One SQLite file; in each program a table in memory with each row's
`DataRowState`.

*Operations.* `Fill`, the program's changes of rows, `Update` row by row,
commands of their own.

*Hard.* Two programs with no transaction around an Update and no busy timeout:
any statement may be refused, and a program be killed between two rows.

*Correct when* a table says of an untouched row what the file does, and no
change is dropped that was not written.

### 1.10 Other parts, not modelled

| part | why |
|---|---|
| `GvrCardEmu/GvrPcscEmu.cpp` | keeps no state: one reader, always there |
| forwarding to the original input DLL (`GvrInputEmu.cpp`) | Pad has its wheel; what that DLL returns is not in the repository |
| the race's size and centring (`apply_race_resolution`, `GvrInputEmu.cpp`) | one function of the settings and the adapter's mode list, called once per race; no other part reads its state |
| early load of the input DLL, boot picture, session log of `GvrLaunch.cpp` | nothing depends on their outcome |
| hot-patching of `GvrPrivReg.cpp` | code bytes of advapi32, written once before the program's own code; its first-run copy is off for this game (`kNfsu`) |
| `GvrSound/dsound.cpp` | one pointer of state; it swallows the shell's topmost and foreground calls, and Desktop allows a shell with and without them |
| installers (`*.ps1`) | file copies, registry imports and external installers over the whole machine |
| verification and release scripts, `*.py` | batch tools, nothing runs beside them |
| game data, drivers, vendored binaries, generated SQL | no logic of this project |

### 1.11 How the parts interact

    player keys, pad --> GvrCardKey --SetEvent/ResetEvent--> [event] <--> GvrCardEmu (shell)
                                                                   <--> GvrCardEmu (race)
    GvrCardEmu (shell) <--> [card file] <--> GvrCardEmu (race)      both launch GvrCardKey
    GvrPrivReg (shell) <--> [registry file] <--> GvrPrivReg (race)
    GvrSqlite (shell) <--> [game.db] <--> GvrSqlite (race)
    [gvr_settings.ini] --> GvrLaunch, GvrInputEmu
    pad, keyboard --> GvrInputEmu (one copy per program) --> the program's frame
    GvrLaunch --> [argument file] --> shell --> race
    GvrLaunch --> starts and patches the shell; watches both programs' windows and processes
    GvrInputEmu.keep_not_topmost (each program) <--> [foreground, z-order] <--> GvrLaunch

## 2. Plan

The order is by what hurts the player most: first the card (career progress
lives on it), then what both programs share, then what each shows and hears, and
last how the session comes to be.

| # | module | about | abstract specification | status |
|---|---|---|---|---|
| 1 | `SlotPromise`, `SlotUsers`, `CardSlot`, `CardActivity` | the slot | `SlotPromise`, implemented by `CardSlot`; `SlotUsers`, implemented by `CardSlot` and by `CardKey` | done |
| 2 | `CardSlotProofs` | theorems on 1 | | done |
| 3 | `CardImage`, `CardImageProofs` | the card file | | done |
| 4 | `CardKey`, `CardKeyProofs` | the watcher | | done |
| 5 | `Registry`, `PrivReg`, `MCPrivReg`, `PrivRegProofs` | the registry | `Registry`, implemented by `PrivReg` | done |
| 6 | `Desktop`, `DesktopProofs` | windows, focus | | done |
| 7 | `Pad`, `MCPad`, `PadProofs` | the controls | | done |
| 8 | `Database`, `MCDatabase`, `DatabaseProofs` | Fill and Update of two programs | | done |
| 9 | `Settings`, `MCSettings`, `StartProofs` | settings to maps | `AsWritten` states what the documents say of a file as a whole | done |
| 10 | `Launch`, `StartProofs` | start of a session | | done |

Left: what a DS4's report does when a second pad is there, the menus' button
bits, the choice of the race's size, and a launcher started while a suspended
frontend is left over.

Composition:

* `CardActivity` extends `CardSlot` with the player's keys.
* `CardSlot` has the watcher as far as the slot can tell, and `CardKey` the
  programs as far as the watcher can tell. `SlotUsers` is what each takes the other
  for: programs that start, end and flip the card, a watcher that comes and goes,
  decides on a sample of the event and moves the card later as decided. Each
  implements it (`SharesSlot`), that is, keeps to its own half; and each takes any
  step of the other's half (`WatcherIsFree`, `ProgramsAreFree`), so that neither
  model leaves out something the other does.
* `Launch` ends where `Desktop` begins. Desktop's `Init` takes one fact from it,
  that launcher and frontend agree on KeepShell unless Merge overrides it
  (`KeepIsWhole`); all else of that `Init` is any start the code can make, a race
  that an earlier session has left over included. `Launch`'s `Leave` ends the watch
  as Desktop's `KeepOutlives` says.
* `Settings` makes the maps that `Pad` has as the constant `Does`; `Pad` is
  proved about for every `Does`.
* `Pad` takes from `Desktop` only whether its host has the foreground.

## 3. Modules

How state and actions correspond to the code; `PROJECT.json` maps every
definition to its lines.

**CardSlot.** One thread per program calls the device. A time stamp `t` is kept
as its age (now - t), saturating at `Cap`, which is above every threshold; 0,
"never", is `Never`. `Poll` is `Ejected()` up to its decision on one sample of
the event: `Notice` is the take-over of a change, `Verdict` the three rules in
their order. `DoInsert` and `DoEject` are the calls of those names, `Answer` the
second read of the event with `Connect`'s touch. Between any two of them the
other program, the watcher or the clock may step. `Press` and `Move` are the
watcher's sample and its call. `Exit` happens anywhere, and takes the event with
it when it was the last handle. `dwell` and `wrote` are history variables: how
long the card has been in, and whether it was written in this stay.

The watcher comes and goes at any time: it may be slower than the program that
launched it, end at once when it gets no hook, or be killed.

**SlotUsers.** The programs and the watcher at the event they share, and nothing
else. The event goes with its last handle, and the card with it.

**SlotPromise.** The contract: the card goes in by the player's hand only, and
is pulled only after it has been in for longer than the idle period, or than the
auto-eject period with a write made in this very stay. That the time since the last
write counts, and not only the stay, is `VerdictsHold`. Apart from that the slot
is emptied by the player's hand, or when the last holder of the event goes:
`held` says that there is one, and `Forget`, which ends it, is no way to pull the
card while anybody is there. CardSlot's running programs and its watcher are the
holders.

**CardActivity.** CardSlot with an observer that times the player's menu keys.

**CardImage.** One device per program. A card is a function from a few fields
(ranges of offsets) to values. Each open and each write of the file is a step;
`Saving` and `Loading` say who has the file open, and refuse as the share modes
of `CreateFile` do. `then` and `changing` are the locals of the call in progress.
`acked` (what Write or Format has last reported as done), `writers` and `calm`
(no two sessions have overlapped and no save was cut short) are history. A
program killed between the truncation and the write leaves an empty file: the
card is lost, and `calm` is over.

**CardKey.** Watcher processes are `new`, in their `loop`, or `leaving` (out of
the loop but still holding mutex and event). `Hook`, `Raw` and `Pumped` are the
message pump; `Pad`, `Insert`, `Toggle`, `PadToggle`, `Act`, `Seen` and `Leave`
the turn of the loop, in the code's order. `Key` is one WM_KEYDOWN message: a key
held down sends one after the other, and hook and raw input act on each, so that a
held F9 toggles many times in the code as in the model. `Button` is a press or a
release of the pad button, and the contact flickers for some ticks after either.
`owed` counts what is not yet answered by a move: messages, presses, and releases
that come later than the tick of the last request, since those fire again in the code. `Hand` is the watcher as the programs can tell: not there,
idle, or about to set or reset the event.

**PrivReg, Registry.** `line` is what the file has for a value, `sections` the
sections it has. `CreateLooks`/`CreateMakes` and `DeleteLooks`/`DeleteMarks` are
the calls that look first. `ValueGet`, `ValueNames`, `KeyExists` and `SubKeys`
are the four ways the code reads the file. `Registry` is what a game may expect;
the refinement maps its keys to those that exist and its values to what a
query finds.

**Desktop.** A tick is about a second. `Look` and `Act` are the launcher's timer;
`KeepTurn`, `CoverTurn` and `Adopting` its three modes (KeepShell, swap, merge).
`ShellPoll`, `RacePollFocused` and `RacePollUnfocused` are `keep_not_topmost` in
the two programs. `band` is the topmost band, and `over` is what of it lies above the race:
whoever was raised last is on top, the taskbar is in the band at all times
(`TaskbarRises`), and each `SetWindowPos` of the race raises it again (`RaceBand`). `keeps` says that the frontend is patched to stay up behind the
race: with KeepShell it is, with swap it is not, and under merge, which the
launcher reads for itself, it may be either. `Init` has the frontend just resumed,
and perhaps a race that an earlier session has left over. The programs' own code and
the player are the rest.

**Pad.** One copy of the DLL. `Frame` is one Update: the race's (`RaceFrame`) or
the menus' (`MenuFrame`, with or without the original DLL). `Readings` is the
set of results `read_pad` may have: for a DS4 the present report or the last.
`done` is what the frame just made carried out and `owed` what presses are still
owed, both history. As in the code, the hysteresis of `Quantised` compares two
multiples of the bucket, so that a stick trembling at a bucket's edge moves the
wheel at every frame, against the comments at `GvrInputEmu.cpp:1426` and 1432; and a DS4 that is gone leaves its last report
for good. `QuitRaises` is about the quit keys: a pad's quit button is looked for on
the last frame's buttons, and is in `OncePerPress` only.

**Settings.** `stage` is where `load_button_config` is. `RaceLine` and `FrontLine`
begin a line; `SpecialWord`, `ClearingWord` and `FrontWord` are one word each of
`map_set_one` and `front_set`, and the file may go on with any. `AsWritten` looks at
the words read so far as a whole; `RaceFrame` and
`MenuFrame` are the look at an empty map (`map_buttons`, `front_bits`). What the
module shows of the code, and a reader of the settings file would not expect:
`camera, ebrake` on one line loses the camera, for the first bit clears the
button's camera and shifts, although the comment at `GvrInputEmu.cpp:410-413` says that they stay;
`none` does not unbind quit, skipintro or confirm, although `gvr_settings.ini:79`
says that it unbinds (both are `Disputed`); a file that leaves the race no
bit resets the special actions and the menus' map too; and a full map drops
additions in silence.

**Launch.** `pc` is where WinMain is; each of its steps is an action, and `Kill`
may follow any. `Says` reads the settings as they are now; `Edit` changes them at
any time. `KeepAll` is `patch_keep_shell`: all sites are looked at before the
first is written, and what Windows refuses then goes unnoticed (`botched`). A
killed launcher leaves a suspended frontend behind. `RunRace` is the race with the
window mode that its command line gives it.

**Database.** `FillBegins` and `FillEnds` are the two ends of a SELECT;
`UpdateBegins`, `SaveRow`, `RowRefused`, `RowPassed`, `UpdateEnds` the row-by-row
Update, with and without `ContinueUpdateOnError`; `Command` is ExecuteNonQuery.
As in the code, `Fill` never accepts its rows: Update writes every row it has
loaded, although the comment at `GvrSqlite.cs:664` speaks of changed ones, and
deleting a loaded row never reaches the DeleteCommand. A Fill whose table has no
mapping throws and is left out. SQLite itself is external:
a statement is atomic, a SELECT keeps writers out, and nobody waits.

## 4. Runs: what is checked

Each passing run checks every state of its instance. "States" are distinct ones.

| run | configuration | checks | states |
|---|---|---|---|
| `slot` | 2 programs, auto-eject 1, idle 2, `Cap` 3 | `TimersHonest`, `VerdictsHold`, `KeepsPromise`, `StaysOut`, `AttractResumes` | 260,674 |
| `slot_reinsert` | 2 programs, auto-eject and re-insert, START=in | `NeverStuckArmed`, `Reappears` | 574,850 |
| `image` | 2 programs, 2 fields, 2 values | `SessionReadsLatest`, `NothingLost`, `CleanMeansSaved`, `SavesAlone` | 175,642 |
| `key` | 2 programs, 2 watchers, 1 press, debounce 1 | `OneWatcher`, `MovesAreOwed`, `GameHasWatcher`, `WatcherEnds`, `SharesSlot` | 382,888 |
| `privreg` | 2 programs, 4 keys (one below another, one with a default, one with a folder value), 2 texts | `OpenKeysExist`, `EnumMatchesQuery`, `DeletedIsGone`, `ActsAsRegistry` | 27,080 |
| `desktop` | 3 modes, every threshold 1 tick | `KeepOutlives`, `LauncherEnds`, `RaceGetsFocus`, `AltTabStands`, `RaceOnTop`, `RaceKeepsTop`, `RaceLeavesTop`, `DesktopCovered` | 214,495 |
| `pad` | 3 hosts, 2 kinds of pad, 3 buttons, 3 keys, 4 stick positions, 2 gears | `TypeOK`, `OncePerPress`, `QuitRaises`, `InputsFollow`, `WheelRests` | 201,552 |
| `settings` | every file of up to 3 lines and 4 words | `AsWritten` | 526,695 |
| `launch` | every settings file, 2 builds | `KeepIsWhole`, `KeepHasWatcher`, `OwnDatabase`, `ModeAsAsked` | 1,572,056 |
| `database` | 2 programs, 2 rows, 2 contents, symmetry | `Coherent`, `SavedOrPending` | 194,365 |

Two more runs show where the code does not do what its comments say. Each is
listed with the comment under "findings" in `PROJECT.json`.

| run | shows |
|---|---|
| `activity_keys` | the idle rule pulls the card from a player who is pressing keys: `g_lastUserKey` is never assigned |
| `pad_answer` | a button held since before the quit prompt answers it in its first frame |

Three more disagreements have no run of their own. The properties nearest to them
say what the code does keep, and their comments name what it does not.

| code | document | where it is in the models |
|---|---|---|
| `GvrCardKey.cpp:462` asks how long ago the last request was, not how long the button has read released: the bounce of a late release moves the card again | the comment at 455-457: "Require the button to read released for a moment before the next press counts" | `CardKey`: `Button` owes a late release a move, so that `MovesAreOwed` allows it that one |
| `GvrInputEmu.cpp:466-468`, `map_clear_ub`: `none` keeps quit, skipintro and confirm, and a new bit takes camera and the shifts away | `gvr_settings.ini:79`: "`= none` unbinds it"; the comment at 410-413: a button keeps its special actions "even when its bit-action is reassigned" | `Settings`: `Disputed`, which `AsWritten` leaves out |
| `GvrInputEmu.cpp:1436` compares two multiples of the bucket with the bucket: a stick that trembles at a bucket's edge moves the menu's wheel each time | the comments at 1426 ("noise below this cannot move the index") and 1432 | `Pad`: `Quantised`; `WheelRests` is about hands that are still |

What the properties say, in words:

* `TimersHonest`, `VerdictsHold`, `KeepsPromise`: with a player who waits for
  the programs to notice each move of the card, no quiet time of an earlier stay is
  held against the present one, a pull that was due when decided is due when
  made, and the slot implements its contract.
* `AttractResumes`, `NeverStuckArmed`, `Reappears`, `StaysOut`: once the player
  leaves, the card comes out, or comes back where the settings say so; and no
  program inserts by itself.
* `SessionReadsLatest`, `NothingLost`: while sessions do not overlap, career
  progress is carried from program to program. `CleanMeansSaved`: even with refused
  saves and kills, a lone writer's `m_dirty` does not lie. `SavesAlone`: nobody
  reads or writes a truncated file that is being saved.
* `OneWatcher`, `GameHasWatcher`, `WatcherEnds`, `MovesAreOwed`: the watcher is
  one, is there with the game, goes after it, and answers each key-down message and
  each click of the pad button once at most.
  `SharesSlot`: it does to the event only what the programs' model lets it.
* `OpenKeysExist`, `EnumMatchesQuery`, `DeletedIsGone`, `ActsAsRegistry`: the
  file with its defaults is one registry for both programs.
* `KeepOutlives`, `LauncherEnds`: the launcher ends after the game, and does.
  `RaceGetsFocus`, `AltTabStands`: the race gets the foreground, and the player
  who leaves it is left alone. `RaceOnTop`: a race that keeps the foreground comes
  above taskbar and shell again and again, whatever is raised over it;
  `RaceKeepsTop`: if they leave it alone it stays there, whatever the frontend's
  cached look says; `RaceLeavesTop`: without the foreground it leaves the band.
  `DesktopCovered`: the backdrop rises between the programs, and sinks.
* `OncePerPress`, `QuitRaises`, `InputsFollow`, `WheelRests`: no press acts
  twice, a quit key is answered, the outputs come to follow the hands, and the menu's wheel
  comes to rest.
* `AsWritten`: after each word the maps are what the documents say of the file so far,
  read as a whole.
* `KeepIsWhole`, `KeepHasWatcher`: a frontend is patched wholly or not at all, and
  one that stays up has its watcher. `ModeAsAsked`: the race gets the window mode
  asked for at the start.
  `OwnDatabase`: two installs never share one.
* `Coherent`, `SavedOrPending`: a table is no mixture of two moments, and Update
  drops no change unwritten. (The next Fill may: it clears the table first.)

The type invariant is checked in one run, where it says something about the
code's arithmetic (`pad`: gears, wheel, counters); every component has it as a
theorem.

### Why the bounds are enough

Two programs are all there are (the shell and the race). Times matter only by
their order: each threshold is one or two ticks, ages run to one tick above the
largest, where nothing can tell them from older ones, and every order of two thresholds
and events occurs. One card field would not show one program's write lost under
another's; two do. Two watchers let one end while the next begins. One press in
`key` is enough for a double answer, which is what its history variable looks for:
the message passes hook and raw input, the button flickers at its press and its
release, and the demo adds keys; more messages, as a key's repetition sends, are
the theorem's. Its `Linger` of 0 still makes the watcher wait for a tick without a game. Keys of the
registry cover each case of its tables: default, folder value, none, and one
key below another. The wheel's constants are scaled (step 2, dead zone 6,
bucket 4, end 15, for 4, 24, 8 and 127) keeping their order and remainders: the
dead zone ends within a bucket, and the last bucket is cut off before the end.

In `settings` three lines let a button be named, taken away and named again by
another; two bit actions, one special action that goes with the bits and one that
stays are one of each sort, and a map of three places is full with a word more than
the two buttons have by default. In `launch` the builds are one with every site and one that lacks a
KeepShell site and a size site. In `database` two rows let an Update stop half way, and two
contents tell an older row from a newer.

### Fairness, and why the code justifies it

* `CardSlot`: a running program evaluates the slot again and again (the shell
  polls `GetStatus` some sixty times a second, the comment at
  `GvrCardEmu.cpp:546`), and time passes. Player, launch and exit owe nothing.
* `CardKey`: the loop runs (strong fairness for time, since the loop only lets it
  pass while it sleeps), processes started or ended get there, and a
  program that stays creates its device some time.
* `Desktop`: the launcher's timer and the programs' frames come, and time passes.
* `Pad`: the host calls Update every frame, a connected DS4 goes on reporting,
  time passes.

Properties about a player who has gone or whose hands are still have that as
a premise (`LeftAlone`, `Still`), never as fairness. The other modules state
safety only.

### Assumptions of the models

* `PatientPlayer` (in both slot runs): the watcher moves the
  card only when every running program has noticed the last move. Without it a
  pull and a push between two polls go unseen, and an old quiet time is charged
  to the new stay; TLC finds that in a few steps. It is an assumption on people
  (polls come every 16 ms). A player who is not patient is covered by the
  theorems `CardStaysOut` and `ProgramsShareSlot`.
* CardKey's watcher gets its hook; one that does not ends at once, which
  CardSlot's and SlotUsers' watcher may do at any time.
* `QuickExit` (in `key` and `WatcherIsThere`): a watcher that has left its loop is gone before a
  program that was not there then has created its first device. A program takes
  seconds to do so; without it a new program can be left without a watcher.
* One thread per program calls the card DLL and the registry hooks of one
  key; a program has one key open at a time, and no text of its own spells
  `<deleted>`.
* In Desktop a race loads for longer than the launcher's 120 ms, and polls that
  come eight times a second are not overtaken by ticks of a second.
* In Launch the player does not start the game again while a frontend runs, and a
  patch that Windows refuses to write is excused (`botched`): the code does not
  look at that result.
* In Database a SELECT reads the whole table, and of a row only its key and one
  content are told apart.
* The tick counter does not wrap. `GvrCardKey.cpp:244` and
  `GvrInputEmu.cpp:1119` start with a stamp of 0 that is "in the future" on a
  machine up for more than 24.9 days; see the hazards.
* A save is written whole, if at all: a full disk is not modelled.

`CHECK_DEADLOCK FALSE` is used for `desktop`, where after the launcher and both
programs have ended nothing is left to happen but the player's alt-tab, and for
`settings`, where a file has been read and its maps looked at.

## 5. Proofs: what is proved

TLC checks the instances above. The following hold for every value of the
constants allowed by the named assumptions (`SlotAssumption`, `RegAssumption`,
`ImageAssumption`, `KeyAssumption`, `DesktopAssumption`, `PadAssumption`,
`LaunchAssumption`, `SettingsAssumption`, `DatabaseAssumption`), checked by TLAPS (SMT, Zenon, and LS4
for the temporal steps). The assumptions give the constants their types; the
only ones that say more are that ages run beyond every threshold (slot), that
"below" is a reflexive and transitive relation of keys and that a key with a
default exists by default (registry), that zero is a value and no
file, an empty file and a card are told apart (image), that a pad's button
is not a key (pad), and that the built-in maps fit in their places and the sorts of
actions are apart (settings).

`CardSlotProofs`:

* `TypeCorrect`: `Spec => []TypeOK`. It is inductive by itself.
* `CardStaysOut`: with `Reinsert = 0`, `Spec => StaysOut`. Inductive invariant
  `NoReinsert`: no program has a re-insert timer, and none is about to insert. It is
  needed because the step that inserts does not look at the setting; only the absence of a
  timer stops it.
* `TimersStayHonest`, `VerdictsStayDue`: with a patient player and `Reinsert = 0`,
  `Spec => []TimersHonest` and `Spec => []VerdictsHold`. The invariant is `Honest`: the two
  properties, `NoReinsert`, that programs that are down are as freshly loaded
  (`DownClean`), and that while the card is out no history is left (`OutClean`).
  Without the last two a program that starts, or a card that goes in, could
  bring an old age along. The argument for `VerdictsHold`: a pull can only be
  overtaken by a removal and a new insertion; the latter is the player's, who
  waits until no program is inside `Ejected()`.
* `SlotKeepsPromise`: under the same conditions `Spec => KeepsPromise`: each
  action of CardSlot is a step of `SlotPromise` or a stutter. The interesting
  case is `DoEject`, whose abstract `Pull` demands the time that `VerdictsHold`
  provides. An exit or a watcher's end is `Forget` only if it was the last holder.
* `ProgramsShareSlot`: `Spec => SharesSlot`, for every setting. A program inside
  `Ejected()` is running, so that the event it flips has a holder.
* `WatcherIsFree`: without the patient player, each step that `SlotUsers` lets the
  watcher take is a step of CardSlot. `OutClean` is needed: a move that leaves the
  card out must leave no history.

`PrivRegProofs`:

* `TypeCorrect`, `HandlesAreLive`: the invariant is `TypeOK` with
  `OpenKeysExist`; neither is inductive alone, since a deletion writes to the key its
  program has open. Keys stay because no call removes a section.
* `EnumerationsAgree`: `Spec => []EnumMatchesQuery`: the two ways to read the file
  agree in every state of the right type.
* `DeletionsHold`: `Spec => DeletedIsGone`.
* `StoreIsARegistry`: `Spec => ActsAsRegistry`. The lemmas `WriteAddsNoKey` and
  `WriteSetsOne` say what one write does to the key set and to the values as
  the games see them; the first rests on `Under` being transitive.

`CardImageProofs` has two invariants, one for each premise.

* `IInv` is for programs that do not overlap: `TypeOK`, `CallsOpen` (a call that
  is in the file has a device, and a load has found the file), `SavesAlone`, and,
  as long as `calm` holds, `Calm`: one program at most has the card in hand
  (`OneBusy`), what it has to save it is saving (`DirtySaves`), its card is
  what was reported but for the fields of the call in progress (`CallsTell`), and
  outside a save the file is what was reported (`FileTells`). From it follow
  `TypeCorrect`, `SavesAreAlone`, `NothingIsLost` and `SessionsReadLatest`. None of
  the properties is inductive alone: that a save is not refused (`CalmNoRefusal`)
  follows from `OneBusy`, and that a load finds the last write from `FileTells`.
* `WInv` is for a lone writer, and needs no calm: only a writer has something to
  save (`DirtyWrote`), and with nothing to save its card is the file's
  (`WriterTells`, which also covers a device not yet initialised, whose card is
  blank if there is nothing to load). From it follows `DirtyIsHonest`.

`CardKeyProofs`:

* `OneWatcherActs`: `Spec => []OneWatcher`, inductive with the type of `life`:
  it rests on `Enter`'s look at the mutex alone.
* `TypeCorrect`, `MovesAnswerPresses`: `Spec => MovesAreOwed`. The invariant
  `KInv` is an account. For S and F9, `PendingKey` counts what may yet become a
  move: the key before the hook, the key as raw input, the demo's key where raw
  input does not sort it out, the request and the move about to be made; there
  are never more of them than messages owed (`KeysPaid`). For the pad, the press or
  the release itself counts until it is `Spent`: the button is up and still, or its
  flicker will end before the debounce does, or the loop's last sample has it down or
  takes one before the debounce is over (`PadPaid`). A button that is down has its
  release still to come (`Pressed`), which bounds `owed` by two a press. `TypeOK` needs this too: nothing else keeps `owed` from going
  below zero.
* `WatcherIsThere`: under `QuickExit`, a program that has launched a watcher has
  one in its loop or on its way there. The invariant says besides that none is
  leaving: a new watcher that turns away does so for one that stays. `GameHasWatcher`
  adds that it gets there, under fairness.
* `WatcherSharesSlot`: `Spec => SharesSlot`, with `Hand` as the watcher. What was
  decided in a turn is decided on the slot as it is (`ConsiderDecides`), and with one
  watcher the last to go is the one there was. `ProgramsAreFree` is the converse for
  the programs. `CardGoesWithTheLast` is proved of `SlotUsers` and had for
  CardKey by the refinement.

`DesktopProofs`:

* `TypeCorrect` and `LauncherOutlives` (`Spec => []KeepOutlives`): the types,
  and one look at the processes in the turn that ends the watch.
* `PlayerIsLeftAlone`: `Spec => AltTabStands`. The invariant `HandedOver` ties what
  the timer has read to what is there: a race has been noticed before its window
  shows, and once the focus is handed over the last target is the one that any
  later look, whenever it was made, gives. Without it an old look could
  hand over to a program of before.

`PadProofs`:

* `TypeCorrect`: `Spec => []TypeOK`; `WheelTyped` bounds the wheel through ramp,
  bucket and spring, for any step, dead zone and bucket.
* `PressesActOnce`: `Spec => OncePerPress`. The invariant `PInv` says what the
  next frame can find new: `Reach` are the buttons a reading may have, and one
  that the race's last frame has not seen is owed all it does (`NewIsOwed`); a
  quit control that is down has been looked at or is owed a quit (`QuitIsOwed`),
  a view key likewise; and the race's last frame agrees with the DS4's last
  report and with the lost XInput pad's rest (`SeenByRace`). The delicate case
  is the quit, which is looked for on the last frame's buttons: a button that
  comes down in this frame must still be owed in the next.
* `QuitAtNextFrame`: a quit key that is down after a rest is answered by the next
  frame, if the host then has the foreground. The invariant is that `quitPrev`
  remembers what the last frame found, whatever came between; `QuitRaises` adds, under
  fairness, that the frame comes.
* `WheelNears`: a frame of the menus leaves the wheel or brings it nearer to `Goal`,
  which depends on stick, keys and host alone. With `WheelTyped` it says that the wheel
  moves finitely often while the hands are still; that it then rests, under
  fairness, is `WheelRests`.

`StartProofs`, Launch: the invariant `Inv` is `Progress` (how far the start has come,
and what a frontend at that point has), `Whole` (all sites or none, known to the
launcher, in each state and not only once the frontend runs) and
`KeepHasWatcher`. `ShellKeptWhole` and `KeptShellIsWatched` follow from it;
`RaceModeAsAsked` and `DatabaseIsOwn` have smaller ones of their own.
`StartIsTyped` gives every variable its type.

`StartProofs`, Settings: `MapsAreTyped` (`LoadSpec => []MapsTyped`) and
`MapsAreAsWritten` (`LoadSpec => []AsWritten`), for files of whatever length. The
algorithm goes word by word. The invariant `ByTheRules` is about the file as a whole; it
also gives the code's own rule for the special actions that `AsWritten` leaves out as
disputed, and `AsWritten` follows from it (`RulesAreWritten`). It holds at every word,
so that the proof is a step of one word more and not an induction over the file. `MapsInv` adds to it what the algorithm remembers of
the line it is in: there is none before the file (`NoLineYet`), and the flag and
the button of a line are what its words so far tell (`RaceLineKnown`,
`FrontLineKnown`). The lemmas are about the maps (`WithoutTakesOut`, `PlusAdds`)
and about the last word of a sequence with some quality (`HasLast`, `NamedLast`).

`DatabaseProofs`: the invariant is `TypeOK`, `Held` (an Update has pending rows
before it, and a Fill an empty table) and `Coherent`. From it follow
`TypeCorrect`, `TablesCohere` and `ChangesAreSaved`.

Every safety property that a passing run checks is also a theorem. Only
model-checked: liveness. Liveness under fairness and `ENABLED` are beyond this prover,
and so is induction over data; no module that is proved about uses a RECURSIVE
operator.

## 6. Faulty variants

Beside a definition that models code there may be a variant that a plausible
mistake would have made ("Faulty variant: ..."). They are not part of any
specification. `PROJECT.json` lists, for each property of a passing run, the
variant that makes TLC refute it: it shows that the property can fail.

## 7. Use

    tlc -workers 2 -config CardSlot.cfg CardSlot
    tlapm CardSlotProofs.tla

The longest run (`pad`) takes some four minutes on two cores.
