------------------------------ MODULE CardSlot ------------------------------
(***************************************************************************)
(* The card slot of the emulated smart card reader.  Two programs, the     *)
(* shell (UniverShell2.exe) and the race (UndergroundGVR.exe), each load a *)
(* copy of GVRSCR28.dll (GvrCardEmu.cpp).  Whether the card is in is a     *)
(* named event they share with GvrCardKey.exe, the watcher that turns the  *)
(* player's keys into SetEvent and ResetEvent.  Each copy caches the slot, *)
(* keeps its own idle timers, and pulls the card out by itself when its    *)
(* timers say so: the evaluation is Ejected(), run by GetStatus and        *)
(* Connect, which samples the event, acts, and reads the event again.      *)
(*                                                                         *)
(* Ticks abstract GetTickCount: a stored time stamp t is kept as the age   *)
(* now - t, saturating at Cap, and a stamp of 0 ("never") as Never.  One   *)
(* thread per program calls the device.  The event is destroyed, and the   *)
(* card with it, when the last program holding a handle is gone.           *)
(***************************************************************************)
EXTENDS Integers

CONSTANTS
  Procs,           \* the programs that load the card DLL
  AutoEject,       \* GVRCARD_AUTOEJECT: quiet ticks after a write, 0 = off
  IdleEject,       \* GVRCARD_IDLEEJECT: quiet ticks, 0 = off
  Reinsert,        \* GVRCARD_REINSERT: ticks an ejected card stays out, 0 = stays
  StartIn,         \* GVRCARD_START=in
  Cap,             \* age at which clocks stop growing
  PatientPlayer    \* TRUE: the player waits until every program has noticed
                   \* the last move of the card before moving it again

ASSUME SlotAssumption ==
  /\ AutoEject \in Nat /\ IdleEject \in Nat /\ Reinsert \in Nat
  /\ Cap \in Nat
  /\ Cap > AutoEject /\ Cap > IdleEject
  /\ StartIn \in BOOLEAN /\ PatientPlayer \in BOOLEAN

Never == -1

VARIABLES
  slot,        \* the named event: signalled = the card is in
  up,          \* the programs running
  watcher,     \* "down", "idle", or the change it is about to make
  pc,          \* where each program is in Ejected()
  call,        \* the device call that program is making
  inserted,    \* g_inserted, the cached slot
  lastIo,      \* age of g_lastIo
  insertedAt,  \* age of g_insertedAt
  armed,       \* g_armed, a write has happened since the last eject
  reinsertIn,  \* ticks until g_reinsertAt
  dwell,       \* history: how long the card has been in
  wrote        \* history: a write was made during this stay of the card

timers == <<lastIo, insertedAt, armed, reinsertIn>>
history == <<dwell, wrote>>
vars == <<slot, up, watcher, pc, call, inserted, timers, history>>

Older(age) == IF age < 0 \/ age >= Cap THEN age ELSE age + 1
Sooner(wait) == IF wait > 0 THEN wait - 1 ELSE wait

Ages == Never .. Cap
Ejecting == {"autoEject", "idleEject"}

TypeOK ==
  /\ slot \in BOOLEAN
  /\ up \subseteq Procs
  /\ watcher \in {"down", "idle", "set", "reset"}
  /\ pc \in [Procs -> {"ready", "insert", "return"} \cup Ejecting]
  /\ call \in [Procs -> {"GetStatus", "Connect"}]
  /\ inserted \in [Procs -> BOOLEAN]
  /\ lastIo \in [Procs -> Ages]
  /\ insertedAt \in [Procs -> Ages]
  /\ armed \in [Procs -> BOOLEAN]
  /\ reinsertIn \in [Procs -> Never .. Reinsert]
  /\ dwell \in 0 .. Cap
  /\ wrote \in BOOLEAN

Init ==
  /\ slot = FALSE /\ up = {} /\ watcher = "down"
  /\ pc = [p \in Procs |-> "ready"]
  /\ call = [p \in Procs |-> "GetStatus"]
  /\ inserted = [p \in Procs |-> StartIn]
  /\ lastIo = [p \in Procs |-> Never]
  /\ insertedAt = [p \in Procs |-> Never]
  /\ armed = [p \in Procs |-> FALSE]
  /\ reinsertIn = [p \in Procs |-> Never]
  /\ dwell = 0 /\ wrote = FALSE

-----------------------------------------------------------------------------
(* Changes of the event, with the history they make.                       *)

PutIn ==
  /\ slot' = TRUE
  /\ dwell' = (IF slot THEN dwell ELSE 0)
  /\ wrote' = (slot /\ wrote)

PullOut == slot' = FALSE /\ dwell' = 0 /\ wrote' = FALSE

-----------------------------------------------------------------------------
(* The programs.                                                           *)

\* The DLL is loaded: its statics are as the linker left them (a program
\* that is down keeps them so) and the event is opened or created.
Start(p) ==
  /\ p \notin up
  /\ up' = up \cup {p}
  /\ UNCHANGED <<slot, watcher, pc, call, inserted, timers, history>>

\* The program ends or is killed, anywhere in a call.
Exit(p) ==
  /\ p \in up
  /\ up' = up \ {p}
  /\ pc' = [pc EXCEPT ![p] = "ready"]
  /\ call' = [call EXCEPT ![p] = "GetStatus"]
  /\ inserted' = [inserted EXCEPT ![p] = StartIn]
  /\ lastIo' = [lastIo EXCEPT ![p] = Never]
  /\ insertedAt' = [insertedAt EXCEPT ![p] = Never]
  /\ armed' = [armed EXCEPT ![p] = FALSE]
  /\ reinsertIn' = [reinsertIn EXCEPT ![p] = Never]
  /\ IF up' = {} /\ watcher = "down" THEN PullOut ELSE UNCHANGED <<slot, history>>
  /\ UNCHANGED watcher

\* Faulty variants of the head of Ejected(): it keeps the old timers, or
\* restarts only g_insertedAt.
NoticeOnly(p) ==
  /\ inserted' = [inserted EXCEPT ![p] = slot]
  /\ UNCHANGED <<lastIo, insertedAt, armed>>

NoticeHalf(p) ==
  /\ inserted' = [inserted EXCEPT ![p] = slot]
  /\ insertedAt' = [insertedAt EXCEPT ![p] = IF slot # inserted[p] THEN 0 ELSE @]
  /\ UNCHANGED <<lastIo, armed>>

\* The head of Ejected(): a slot that is not as cached was changed by
\* somebody else, so take it over and restart this program's own timers.
Notice(p) ==
  LET changed == slot # inserted[p] IN
  /\ inserted' = [inserted EXCEPT ![p] = slot]
  /\ lastIo' = [lastIo EXCEPT ![p] = IF changed THEN 0 ELSE @]
  /\ insertedAt' = [insertedAt EXCEPT ![p] = IF changed THEN 0 ELSE @]
  /\ armed' = [armed EXCEPT ![p] = @ /\ ~changed]

\* The rules of Ejected(), on the timers as Notice leaves them.
\* (Faulty variants: the re-insert looks at the cached slot of before, the
\* auto-eject at the timers of before.)
ReinsertDueCached(p) == ~slot /\ inserted[p] /\ reinsertIn[p] = 0
AutoDueStale(p) ==
  slot /\ AutoEject > 0 /\ armed[p] /\ lastIo[p] # Never /\ lastIo[p] > AutoEject

ReinsertDue(p) == ~slot /\ reinsertIn[p] = 0
AutoDue(p) ==
  slot /\ AutoEject > 0 /\ armed'[p] /\ lastIo'[p] # Never /\ lastIo'[p] > AutoEject
IdleDue(p) ==
  /\ slot /\ IdleEject > 0 /\ lastIo'[p] # Never /\ lastIo'[p] > IdleEject
  /\ insertedAt'[p] = Never \/ insertedAt'[p] > IdleEject

Verdict(p) ==
  IF ReinsertDue(p) THEN "insert"
  ELSE IF AutoDue(p) THEN "autoEject"
  ELSE IF IdleDue(p) THEN "idleEject"
  ELSE "return"

\* Ejected() up to its decision, on one sample of the event.
Poll(p, c) ==
  /\ p \in up /\ pc[p] = "ready"
  /\ Notice(p)
  /\ pc' = [pc EXCEPT ![p] = Verdict(p)]
  /\ call' = [call EXCEPT ![p] = c]
  /\ UNCHANGED <<slot, up, watcher, reinsertIn, history>>

DoInsert(p) ==
  /\ pc[p] = "insert"
  /\ PutIn
  /\ inserted' = [inserted EXCEPT ![p] = TRUE]
  /\ reinsertIn' = [reinsertIn EXCEPT ![p] = Never]
  /\ lastIo' = [lastIo EXCEPT ![p] = 0]
  /\ insertedAt' = [insertedAt EXCEPT ![p] = 0]
  /\ armed' = [armed EXCEPT ![p] = FALSE]
  /\ pc' = [pc EXCEPT ![p] = "return"]
  /\ UNCHANGED <<up, watcher, call>>

\* Faulty variant: the re-insert is scheduled even when it is off.
DoEjectReinserts(p) ==
  /\ pc[p] \in Ejecting
  /\ PullOut
  /\ inserted' = [inserted EXCEPT ![p] = FALSE]
  /\ armed' = [armed EXCEPT ![p] = FALSE]
  /\ reinsertIn' = [reinsertIn EXCEPT ![p] = Reinsert]
  /\ pc' = [pc EXCEPT ![p] = "return"]
  /\ UNCHANGED <<up, watcher, call, lastIo, insertedAt>>

DoEject(p) ==
  /\ pc[p] \in Ejecting
  /\ PullOut
  /\ inserted' = [inserted EXCEPT ![p] = FALSE]
  /\ armed' = [armed EXCEPT ![p] = FALSE]
  /\ reinsertIn' = [reinsertIn EXCEPT ![p] = IF Reinsert > 0 THEN Reinsert ELSE Never]
  /\ pc' = [pc EXCEPT ![p] = "return"]
  /\ UNCHANGED <<up, watcher, call, lastIo, insertedAt>>

\* Faulty variant: GetStatus counts as card activity too.
AnswerTouches(p) ==
  /\ pc[p] = "return"
  /\ pc' = [pc EXCEPT ![p] = "ready"]
  /\ lastIo' = [lastIo EXCEPT ![p] = IF slot THEN 0 ELSE @]
  /\ UNCHANGED <<slot, up, watcher, call, inserted, insertedAt, armed,
                 reinsertIn, history>>

\* Ejected() reads the event again for its result; Connect touches the card
\* when it is in.
Answer(p) ==
  /\ pc[p] = "return"
  /\ pc' = [pc EXCEPT ![p] = "ready"]
  /\ lastIo' = [lastIo EXCEPT ![p] = IF call[p] = "Connect" /\ slot THEN 0 ELSE @]
  /\ UNCHANGED <<slot, up, watcher, call, inserted, insertedAt, armed,
                 reinsertIn, history>>

\* Read and Write touch the card without asking whether it is in.
ReadCard(p) ==
  /\ p \in up /\ pc[p] = "ready"
  /\ lastIo' = [lastIo EXCEPT ![p] = 0]
  /\ UNCHANGED <<slot, up, watcher, pc, call, inserted, insertedAt, armed,
                 reinsertIn, history>>

WriteCard(p) ==
  /\ p \in up /\ pc[p] = "ready"
  /\ lastIo' = [lastIo EXCEPT ![p] = 0]
  /\ armed' = [armed EXCEPT ![p] = TRUE]
  /\ wrote' = (wrote \/ slot)
  /\ UNCHANGED <<slot, up, watcher, pc, call, inserted, insertedAt,
                 reinsertIn, dwell>>

-----------------------------------------------------------------------------
(* The watcher and the player.                                             *)

\* A program's first CreateGVRStorageDeviceImp launches the watcher, which may
\* be slower than that program's end.
LaunchWatcher ==
  /\ watcher = "down"
  /\ watcher' = "idle"
  /\ UNCHANGED <<slot, up, pc, call, inserted, timers, history>>

\* A request is carried out on a sample of the event: S inserts an absent
\* card, F9 and the pad move it the other way.  The launcher's own window
\* counts as the game's, so a request may come while no program runs.
Press ==
  /\ watcher = "idle"
  /\ watcher' = (IF slot THEN "reset" ELSE "set")
  /\ UNCHANGED <<slot, up, pc, call, inserted, timers, history>>

\* Every program has seen the slot as it is and is not inside Ejected().
Settled == \A p \in up : pc[p] = "ready" /\ inserted[p] = slot

Move ==
  /\ watcher \in {"set", "reset"}
  /\ PatientPlayer => Settled
  /\ IF watcher = "set" THEN PutIn ELSE PullOut
  /\ watcher' = "idle"
  /\ UNCHANGED <<up, pc, call, inserted, timers>>

\* The watcher ends some time after the last program, or a new one may have
\* started meanwhile; it ends at once if it gets no hook, and may be killed.
\* The event is destroyed with its last handle.
WatcherExit ==
  /\ watcher # "down" /\ watcher' = "down"
  /\ IF up = {} THEN PullOut ELSE UNCHANGED <<slot, history>>
  /\ UNCHANGED <<up, pc, call, inserted, timers>>

Tick ==
  /\ lastIo' = [p \in Procs |-> Older(lastIo[p])]
  /\ insertedAt' = [p \in Procs |-> Older(insertedAt[p])]
  /\ reinsertIn' = [p \in Procs |-> Sooner(reinsertIn[p])]
  /\ dwell' = (IF slot THEN Older(dwell) ELSE dwell)
  /\ UNCHANGED <<slot, up, watcher, pc, call, inserted, armed, wrote>>

-----------------------------------------------------------------------------
Evaluate(p) == Poll(p, "GetStatus") \/ DoInsert(p) \/ DoEject(p) \/ Answer(p)

Next ==
  \/ \E p \in Procs :
       \/ Start(p) \/ Exit(p)
       \/ Evaluate(p) \/ Poll(p, "Connect")
       \/ ReadCard(p) \/ WriteCard(p)
  \/ LaunchWatcher \/ Press \/ Move \/ WatcherExit
  \/ Tick

Spec == Init /\ [][Next]_vars

\* Time passes, and a running program keeps polling GetStatus (the shell
\* does some sixty times a second).  Nothing is owed by the player.
Fairness == WF_vars(Tick) /\ \A p \in Procs : WF_vars(Evaluate(p))

FairSpec == Spec /\ Fairness

-----------------------------------------------------------------------------
(* Properties.                                                             *)

\* With a patient player and no timed re-insert, a program's timers never
\* claim more than the card's present stay: Notice has restarted them since
\* the card went in, and a write they remember was made in this stay
\* (GvrCardEmu.cpp, "RESTART OUR TIMERS" in Ejected()).
TimersHonest ==
  \A p \in up : slot /\ inserted[p] =>
    /\ lastIo[p] <= dwell /\ insertedAt[p] <= dwell
    /\ armed[p] => wrote

\* A decision to pull the card taken inside Ejected() is still right when
\* ResetEvent is reached, whatever the other program did in between.
VerdictsHold ==
  \A p \in up : slot =>
    /\ pc[p] = "autoEject" => AutoEject > 0 /\ wrote /\ dwell > AutoEject
    /\ pc[p] = "idleEject" => IdleEject > 0 /\ dwell > IdleEject

\* With the timed re-insert off, nothing but the player's hand puts the card
\* in (GvrCardEmu.cpp, g_reinsertMs: "0 = stay out after an eject").
StaysOut == [][~slot /\ slot' => watcher = "set"]_vars

\* The contract of SlotPromise: while anybody holds the event, the card goes in
\* by the player's hand only, and the cabinet pulls it only when this very stay
\* has lasted for the period of one of the rules of Ejected().
Promise == INSTANCE SlotPromise WITH
             held <- up # {} \/ watcher # "down",
             hand <- IF watcher = "down" THEN "idle" ELSE watcher
KeepsPromise == Promise!Spec

\* What the watcher's side may count on, and what it may do (SlotUsers).
Users == INSTANCE SlotUsers WITH Programs <- Procs
SharesSlot == Users!Spec

\* The player has gone and no program touches the card any more.
QuietStep == Tick \/ \E p \in Procs : Evaluate(p)
LeftAlone == <>[][QuietStep]_vars
StaysUp == <>[](up # {})

\* Left alone with a program running, the cabinet gets the card out and
\* keeps it out, so that attract can play (the idle rule of Ejected()).
AttractResumes == LeftAlone /\ StaysUp => <>[]~slot

\* Left alone, no program waits for ever with a written card in the slot
\* ("PLEASE REMOVE PLAYER'S CARD", the auto-eject rule of Ejected()).
NeverStuckArmed ==
  LeftAlone => []<>~(slot /\ \E p \in up : inserted[p] /\ armed[p])

\* With the timed re-insert on, a card a program pulled comes back as long
\* as that program runs (comment over Ejected(): "reappears").
Reappears ==
  LeftAlone => \A p \in Procs : []<>(slot \/ reinsertIn[p] = Never)
=============================================================================
