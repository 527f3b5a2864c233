---------------------------- MODULE CardActivity ----------------------------
(***************************************************************************)
(* CardSlot with an observer that times the player's keys, of which the    *)
(* comment over the idle rule of Ejected() speaks.                         *)
(***************************************************************************)
EXTENDS CardSlot

VARIABLE keyAge   \* ticks since the player last pressed a key

ActivityInit == Init /\ keyAge = Cap

\* A key that moves in a menu: no program's card DLL hears of it, and
\* g_lastUserKey is never assigned.
MenuKey == up # {} /\ keyAge' = 0 /\ UNCHANGED vars

CardKey == Press /\ keyAge' = 0

Time == Tick /\ keyAge' = Older(keyAge)

Others(p) ==
  /\ \/ Start(p) \/ Exit(p) \/ Evaluate(p) \/ ReadCard(p) \/ WriteCard(p)
     \/ LaunchWatcher \/ Move \/ WatcherExit
  /\ UNCHANGED keyAge

ActivityNext == MenuKey \/ CardKey \/ Time \/ \E p \in Procs : Others(p)

ActivitySpec == ActivityInit /\ [][ActivityNext]_<<vars, keyAge>>

\* The card is not pulled on idle while the player has pressed a key within
\* the idle time (GvrCardEmu.cpp, "no card activity AND no user input").
PlayerKeepsCard ==
  [][\A p \in Procs :
       pc[p] = "ready" /\ pc'[p] = "idleEject" => keyAge > IdleEject]_<<vars, keyAge>>
=============================================================================
