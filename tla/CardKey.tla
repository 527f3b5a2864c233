------------------------------ MODULE CardKey ------------------------------
(***************************************************************************)
(* GvrCardKey.exe, the watcher that turns the player's keys and pad button *)
(* into insertions and removals of the card (GvrCardKey.cpp), and the part *)
(* of GvrCardEmu.cpp that launches it.                                     *)
(*                                                                         *)
(* A key passes the low-level hook first and reaches the watcher's message *)
(* queue as raw input afterwards; either records a request, which the loop *)
(* carries out later in the same or the next turn, on a sample of the      *)
(* event the card DLLs share.  The loop sleeps between turns; time passes  *)
(* while it does (a turn takes less than a tick).  The watcher of an       *)
(* earlier session may still be about when a program launches a new one.   *)
(***************************************************************************)
EXTENDS Integers

CONSTANTS
  Games,       \* the programs that launch a watcher
  Watchers,    \* identities of watcher processes
  Debounce,    \* 400 ms, in ticks
  Linger,      \* 8000 ms, in ticks
  Presses,     \* bound: key-down messages, and presses of the pad button
  QuickExit    \* TRUE: a watcher that has left its loop is gone before a
               \* program that was not there then has created its device

ASSUME KeyAssumption ==
  Debounce \in Nat /\ Linger \in Nat /\ Presses \in Nat /\ QuickExit \in BOOLEAN

Kinds == {"insert", "toggle", "pad"}   \* g_wantInsert, -Toggle, -PadToggle
Turn == {"pump", "pad", "insert", "toggle", "padToggle", "seen", "sleep"}
NoAct == [kind |-> "none", in |-> FALSE]

VARIABLES
  running, started,  \* programs there are, and their StartKeyThread's static
  front,             \* a window of the game or the launcher is in front
  slot,              \* the named event
  rawOk,             \* raw input can be registered on this machine
  life,              \* of each watcher: "none", "new", "loop", "leaving"
  pc,                \* where the loop is
  keys,              \* keys on their way: [kind, demo, raw]
  want,              \* requests recorded
  act,               \* SetEvent or ResetEvent about to be called, and for whom
  held,              \* the pad button, as the player has it
  bounce,            \* ticks for which its reports flicker after a press or a release
  prevR3, fired,     \* the debounce: last sample, ticks since the last request
  unseen,            \* ticks since GameRunning() was last true
  presses,           \* key-downs and presses of the button so far
  owed               \* history: key-downs of each kind, and moves of the button,
                     \* not answered by a move of the card

machine == <<rawOk, presses>>
pad == <<held, bounce>>
loop == <<pc, want, act, prevR3, fired, unseen>>
vars == <<running, started, front, slot, life, keys, pad, owed, machine, loop>>

Keys == [kind : {"insert", "toggle"}, demo : BOOLEAN, raw : BOOLEAN]
InLoop == {w \in Watchers : life[w] = "loop"}

TypeOK ==
  /\ running \subseteq Games /\ started \subseteq running
  /\ front \in BOOLEAN /\ slot \in BOOLEAN /\ rawOk \in BOOLEAN
  /\ life \in [Watchers -> {"none", "new", "loop", "leaving"}]
  /\ pc \in Turn /\ keys \subseteq Keys /\ want \subseteq Kinds
  /\ act \in {NoAct} \cup [kind : Kinds, in : BOOLEAN]
  /\ held \in BOOLEAN /\ bounce \in 0 .. Debounce /\ prevR3 \in BOOLEAN
  /\ fired \in 0 .. Debounce + 1 /\ unseen \in 0 .. Linger + 1
  /\ presses \in 0 .. Presses /\ owed \in [Kinds -> 0 .. 2 * Presses]

Init ==
  /\ running = {} /\ started = {} /\ front = FALSE /\ slot = FALSE
  /\ rawOk \in BOOLEAN
  /\ life = [w \in Watchers |-> "none"]
  /\ pc = "sleep" /\ want = {} /\ act = NoAct
  /\ prevR3 = FALSE /\ fired = Debounce + 1 /\ unseen = 0
  /\ keys = {} /\ held = FALSE /\ bounce = 0
  /\ presses = 0 /\ owed = [k \in Kinds |-> 0]

-----------------------------------------------------------------------------
(* Programs and watcher processes.                                         *)

Start(p) ==
  /\ p \notin running
  /\ running' = running \cup {p}
  /\ UNCHANGED <<started, front, slot, life, keys, pad, owed, machine, loop>>

\* The event lives as long as a program or a watcher holds a handle.
EventHeld(ps, l) == ps # {} \/ \E w \in Watchers : l[w] \in {"loop", "leaving"}

Exit(p) ==
  /\ p \in running
  /\ running' = running \ {p} /\ started' = started \ {p}
  /\ slot' = (slot /\ EventHeld(running', life))
  /\ UNCHANGED <<front, life, keys, pad, owed, machine, loop>>

\* A program's first device launches a watcher.
Launch(p, w) ==
  /\ p \in running \ started /\ life[w] = "none"
  /\ QuickExit => \A v \in Watchers : life[v] # "leaving"
  /\ started' = started \cup {p}
  /\ life' = [life EXCEPT ![w] = "new"]
  /\ UNCHANGED <<running, front, slot, keys, pad, owed, machine, loop>>

\* Faulty variant: only a watcher that is still in its loop is looked for.
MutexOwned(w) == \E v \in Watchers \ {w} : life[v] = "loop"

MutexExists(w) == \E v \in Watchers \ {w} : life[v] \in {"loop", "leaving"}

\* One watcher only: a second one ends at once, the first enters its loop.
\* To a new watcher a button that is down, or flickers, is a press.
Enter(w) ==
  /\ life[w] = "new" /\ ~MutexExists(w)
  /\ life' = [life EXCEPT ![w] = "loop"]
  /\ pc' = "pump" /\ want' = {} /\ act' = NoAct
  /\ prevR3' = FALSE /\ fired' = Debounce + 1 /\ unseen' = 0
  /\ owed' = (IF held \/ bounce > 0 THEN [owed EXCEPT !["pad"] = 1] ELSE owed)
  /\ UNCHANGED <<running, started, front, slot, keys, pad, machine>>

TurnAway(w) ==
  /\ life[w] = "new" /\ MutexExists(w)
  /\ life' = [life EXCEPT ![w] = "none"]
  /\ UNCHANGED <<running, started, front, slot, keys, pad, owed, machine, loop>>

\* The process is gone, and with it its mutex, its event handle and the keys
\* that were queued for it.
Gone(w) ==
  /\ life[w] = "leaving"
  /\ life' = [life EXCEPT ![w] = "none"]
  /\ keys' = {}
  /\ slot' = (slot /\ EventHeld(running, life'))
  /\ UNCHANGED <<running, started, front, pad, owed, machine, loop>>

-----------------------------------------------------------------------------
(* The player, the attract demo and the desktop.                           *)

Press == presses < Presses /\ presses' = presses + 1 /\ UNCHANGED rawOk

Owe(k) == owed' = [owed EXCEPT ![k] = @ + 1]

\* A key-down message, in whatever window: S inserts, F9 toggles.  A key that
\* stays down sends one after the other (the keyboard's repetition).
Key(k) ==
  /\ InLoop # {}
  /\ Press /\ Owe(k)
  /\ keys' = keys \cup {[kind |-> k, demo |-> FALSE, raw |-> FALSE]}
  /\ UNCHANGED <<running, started, front, slot, life, pad, loop>>

\* The attract demo presses START, from no device and without the injected
\* flag.  Without raw input nothing tells it from the player.
DemoKey ==
  /\ InLoop # {} /\ running # {}
  /\ IF rawOk THEN UNCHANGED <<owed, machine>> ELSE Press /\ Owe("insert")
  /\ keys' = keys \cup {[kind |-> "insert", demo |-> TRUE, raw |-> FALSE]}
  /\ UNCHANGED <<running, started, front, slot, life, pad, loop>>

\* The pad button is pressed or released; its contact bounces either way, as long
\* as the debounce at most.  A release in the very tick of the request is within it.
Button ==
  /\ held' = ~held /\ bounce' = Debounce
  /\ IF held THEN UNCHANGED machine ELSE Press
  /\ IF held /\ fired = 0 THEN UNCHANGED owed ELSE Owe("pad")
  /\ UNCHANGED <<running, started, front, slot, life, keys, loop>>

ChangeFront ==
  /\ front' = ~front
  /\ UNCHANGED <<running, started, slot, life, keys, pad, owed, machine, loop>>

\* A card DLL inserts or ejects on its own rules.
DllMoves ==
  /\ running # {} /\ slot' = ~slot
  /\ UNCHANGED <<running, started, front, life, keys, pad, owed, machine, loop>>

-----------------------------------------------------------------------------
(* The watcher's loop.                                                     *)

\* Faulty variants: the wrong image names are looked for; the process list
\* is never found wanting.
NoGame == FALSE
AnyGame == TRUE

GameRunning == running # {}

Desk == <<running, started, front, life, machine>>
Stays == <<Desk, pad>>

\* Faulty variant: the hook records the key whether raw input works or not.
HookAlways(r) == TRUE

\* The hook records a key only where raw input cannot.
HookRecords(r) == ~rawOk

\* The callback of the low-level hook; the key travels on as raw input.
Hook(r) ==
  /\ InLoop # {} /\ pc = "pump" /\ r \in keys /\ ~r.raw
  /\ want' = IF HookRecords(r) THEN want \cup {r.kind} ELSE want
  /\ keys' = (keys \ {r}) \cup (IF rawOk THEN {[r EXCEPT !.raw = TRUE]} ELSE {})
  /\ UNCHANGED <<slot, owed, pc, act, prevR3, fired, unseen, Stays>>

\* RawProc: a key from no device is not the player's.
Raw(r) ==
  /\ InLoop # {} /\ pc = "pump" /\ r \in keys /\ r.raw
  /\ want' = IF r.demo THEN want ELSE want \cup {r.kind}
  /\ keys' = keys \ {r}
  /\ UNCHANGED <<slot, owed, pc, act, prevR3, fired, unseen, Stays>>

Go(from, to) == InLoop # {} /\ pc = from /\ act = NoAct /\ pc' = to

\* The message queue is empty for now.
Pumped ==
  /\ Go("pump", "pad")
  /\ UNCHANGED <<slot, keys, owed, want, act, prevR3, fired, unseen, Stays>>

\* (now - lastFire) > 400
Quiet(age) == age > Debounce

\* The pad button, debounced: it counts if the last sample was released and the
\* last request is more than 400 ms old, be it pressed or still bouncing.
Pad ==
  \E r3 \in IF bounce > 0 THEN BOOLEAN ELSE {held} :
    /\ Go("pad", "insert")
    /\ prevR3' = r3
    /\ IF r3 /\ ~prevR3 /\ Quiet(fired)
       THEN fired' = 0 /\ want' = want \cup {"pad"}
       ELSE UNCHANGED <<fired, want>>
    /\ UNCHANGED <<slot, keys, owed, act, unseen, Stays>>

\* InterlockedExchange takes the request.
TakeWanted(k) == want' = want \ {k}

\* A request is looked at, and dropped or decided on a sample of the event.
Consider(k, allowed, to) ==
  /\ TakeWanted(k)
  /\ act' = IF k \in want /\ allowed THEN [kind |-> k, in |-> to] ELSE NoAct
  /\ UNCHANGED <<slot, keys, owed, prevR3, fired, unseen, Stays>>

Insert == Go("insert", "toggle") /\ Consider("insert", front /\ ~slot, TRUE)
Toggle == Go("toggle", "padToggle") /\ Consider("toggle", front, ~slot)
PadToggle == Go("padToggle", "seen") /\ Consider("pad", GameRunning, ~slot)

\* Faulty variant: the slot is looked at again, and moved the other way.
ActToggles ==
  /\ InLoop # {} /\ act # NoAct
  /\ slot' = ~slot
  /\ owed' = [owed EXCEPT ![act.kind] = @ - 1]
  /\ act' = NoAct
  /\ UNCHANGED <<keys, pc, want, prevR3, fired, unseen, Stays>>

\* SetEvent or ResetEvent; a call that moves the card answers a key or the button.
Act ==
  /\ InLoop # {} /\ act # NoAct
  /\ slot' = act.in
  /\ owed' = IF slot = slot' THEN owed ELSE [owed EXCEPT ![act.kind] = @ - 1]
  /\ act' = NoAct
  /\ UNCHANGED <<keys, pc, want, prevR3, fired, unseen, Stays>>

\* GameRunning() keeps the loop going.
Seen ==
  /\ Go("seen", "sleep")
  /\ GameRunning \/ unseen <= Linger
  /\ unseen' = (IF GameRunning THEN 0 ELSE unseen)
  /\ UNCHANGED <<slot, keys, owed, want, act, prevR3, fired, Stays>>

\* ... and when none has been seen for 8000 ms, ends it.
Leave(w) ==
  /\ life[w] = "loop" /\ pc = "seen" /\ act = NoAct
  /\ ~GameRunning /\ unseen > Linger
  /\ life' = [life EXCEPT ![w] = "leaving"]
  /\ pc' = "sleep" /\ want' = {}
  /\ UNCHANGED <<running, started, front, slot, keys, pad, owed, machine,
                 act, prevR3, fired, unseen>>

Wake ==
  /\ InLoop # {} /\ pc = "sleep" /\ pc' = "pump"
  /\ UNCHANGED <<slot, keys, owed, want, act, prevR3, fired, unseen, Stays>>

Tick ==
  /\ pc = "sleep"
  /\ pc' = (IF InLoop # {} THEN "pump" ELSE "sleep")
  /\ fired' = (IF fired > Debounce THEN fired ELSE fired + 1)
  /\ unseen' = (IF unseen > Linger THEN unseen ELSE unseen + 1)
  /\ bounce' = (IF bounce > 0 THEN bounce - 1 ELSE 0)
  /\ UNCHANGED <<slot, keys, owed, want, act, prevR3, held, Desk>>

-----------------------------------------------------------------------------
Turns ==
  \/ \E r \in Keys : Hook(r) \/ Raw(r)
  \/ Pumped \/ Pad \/ Insert \/ Toggle \/ PadToggle \/ Act \/ Seen
  \/ \E w \in Watchers : Leave(w)

Processes == \E w \in Watchers : Enter(w) \/ TurnAway(w) \/ Gone(w)

Next ==
  \/ \E p \in Games : Start(p) \/ Exit(p) \/ \E w \in Watchers : Launch(p, w)
  \/ \E k \in {"insert", "toggle"} : Key(k)
  \/ DemoKey \/ Button \/ ChangeFront \/ DllMoves
  \/ Turns \/ Processes \/ Wake \/ Tick

Spec == Init /\ [][Next]_vars

\* The watcher runs, time passes in its sleeps, processes started or ending get there, and
\* a program creates its device some time.
FairSpec ==
  /\ Spec
  /\ WF_vars(Turns) /\ SF_vars(Tick) /\ WF_vars(Processes)
  /\ \A p \in Games : WF_vars(\E w \in Watchers : Launch(p, w))

-----------------------------------------------------------------------------
(* Properties.                                                             *)

\* However many programs launch one, one watcher acts (the mutex in WinMain).
OneWatcher ==
  \A v, w \in Watchers :
    {life[v], life[w]} \subseteq {"loop", "leaving"} => v = w

\* The watcher moves the card only to answer the player: once for each key-down
\* message (a key that repeats sends several) and once for a click of the pad
\* button; not for the demo's keys, not both for the hook and for raw input, and not
\* twice for one bounce (comments in Proc and on the debounce in GvrCardKey.cpp).
\* The release of a button held beyond the tick of its request may move the card
\* once more, and is owed that (Button): the code asks how long ago the last request
\* was, and not, as its comment has it, that the button read released for a moment.
MovesAreOwed ==
  [][\A k \in Kinds : act # NoAct /\ act' = NoAct /\ act.kind = k /\ slot' # slot
       => owed[k] > 0]_vars

\* A program that stays comes to have a watcher for as long as it stays
\* (GvrCardEmu.cpp, StartKeyWatcher), even where one of an earlier session
\* was still about.
GameHasWatcher == \A p \in Games : <>[](p \in running) => <>[](InLoop # {})

\* With the last program gone for good the watcher ends, and the card is out
\* with it ("exits when the game does").
WatcherEnds ==
  <>[](running = {}) => <>[](~slot /\ \A w \in Watchers : life[w] = "none")

\* The watcher as the programs can tell.
Hand ==
  IF \A w \in Watchers : life[w] \in {"none", "new"} THEN "down"
  ELSE IF act = NoAct THEN "idle"
  ELSE IF act.in THEN "set" ELSE "reset"

\* It comes and goes, decides on what it sees of the slot, moves the card a
\* moment later as it decided, and leaves the slot alone otherwise (WinMain:
\* CardIn, then SetEvent or ResetEvent).
Users == INSTANCE SlotUsers WITH Programs <- Games, up <- running, watcher <- Hand
SharesSlot == Users!Spec
=============================================================================
