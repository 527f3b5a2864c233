--------------------------- MODULE CardKeyProofs ---------------------------
(***************************************************************************)
(* Proofs about CardKey, for any programs, watchers, times and presses:    *)
(* one watcher acts, and each of its moves answers a key-down message, or  *)
(* a press or a release of the pad button, of its own.                     *)
(***************************************************************************)
EXTENDS CardKey, TLAPS

Lives == {"none", "new", "loop", "leaving"}

\* The mutex alone keeps a second watcher out of the loop (WinMain).
Single == life \in [Watchers -> Lives] /\ OneWatcher

LEMMA SingleStep == Single /\ [Next]_vars => Single'
<1> SUFFICES ASSUME Single, [Next]_vars PROVE Single'
  OBVIOUS
<1> USE DEF Single, OneWatcher, Lives
<1>1. ASSUME NEW w \in Watchers, Enter(w) PROVE Single'
  <2>1. \A v \in Watchers \ {w} : life[v] \notin {"loop", "leaving"}
    BY <1>1 DEF Enter, MutexExists
  <2>2. life' = [life EXCEPT ![w] = "loop"]
    BY <1>1 DEF Enter
  <2> QED
    BY <2>1, <2>2
<1>2. ASSUME NEW w \in Watchers, TurnAway(w) \/ Gone(w) PROVE Single'
  <2>1. life' = [life EXCEPT ![w] = "none"]
    BY <1>2 DEF TurnAway, Gone
  <2> QED
    BY <2>1
<1>3. ASSUME NEW p \in Games, NEW w \in Watchers, Launch(p, w) PROVE Single'
  BY <1>3 DEF Launch
<1>4. ASSUME NEW w \in Watchers, Leave(w) PROVE Single'
  BY <1>4 DEF Leave
<1>5. ASSUME UNCHANGED life PROVE Single'
  BY <1>5
<1>6. ASSUME NEW p \in Games, Start(p) \/ Exit(p) PROVE UNCHANGED life
  BY <1>6 DEF Start, Exit
<1>7. CASE (\E k \in {"insert", "toggle"} : Key(k)) \/ DemoKey \/ Button \/ ChangeFront \/ DllMoves
  BY <1>5, <1>7 DEF Key, DemoKey, Button, ChangeFront, DllMoves
<1>8. ASSUME NEW r \in Keys, Hook(r) \/ Raw(r) PROVE UNCHANGED life
  BY <1>8 DEF Hook, Raw, Stays, Desk
<1>9. CASE Pumped \/ Pad \/ Insert \/ Toggle \/ PadToggle \/ Act \/ Seen
  BY <1>5, <1>9 DEF Pumped, Pad, Insert, Toggle, PadToggle, Consider, Act, Seen, Stays, Desk
<1>10. CASE Wake \/ Tick \/ UNCHANGED vars
  BY <1>5, <1>10 DEF Wake, Tick, Stays, Desk, vars
<1> QED
  BY <1>1, <1>2, <1>3, <1>4, <1>5, <1>6, <1>7, <1>8, <1>9, <1>10 DEF Next, Turns, Processes

\* However many programs launch a watcher, and however late an old one goes,
\* one acts (the named mutex in WinMain).
THEOREM OneWatcherActs == Spec => []OneWatcher
<1>1. Init => Single
  BY DEF Init, Single, OneWatcher, Lives
<1>2. Single => OneWatcher
  BY DEF Single
<1> QED
  BY <1>1, <1>2, SingleStep, PTL DEF Spec

-----------------------------------------------------------------------------
(* Each move answers the player.                                           *)

Count(b) == IF b THEN 1 ELSE 0

Waits(k, demo, raw) == [kind |-> k, demo |-> demo, raw |-> raw] \in keys

\* The requests that the keys on their way, the flag and the move about to be
\* made may yet cost.  The demo's key counts where raw input does not sort it out.
PendingKey(k) ==
  Count(Waits(k, FALSE, FALSE)) + Count(Waits(k, FALSE, TRUE))
    + Count(~rawOk /\ Waits(k, TRUE, FALSE)) + Count(k \in want) + Count(act.kind = k)

\* The press or the release of the pad button that is under way makes no request
\* any more: the button is up, or its flicker ends before the debounce does and the loop's
\* last sample has it down, or takes one before time passes.
Spent ==
  \/ ~held /\ bounce = 0
  \/ bounce > 0 /\ fired + bounce <= Debounce
  \/ bounce = 0 /\ prevR3
  \/ bounce = 0 /\ fired <= Debounce /\ pc \in {"pump", "pad"}

PendingPad == Count("pad" \in want) + Count(act.kind = "pad") + Count(~Spent)

KeysPaid == \A k \in {"insert", "toggle"} : PendingKey(k) <= owed[k]
PadPaid == InLoop # {} => PendingPad <= owed["pad"]

\* Nothing is owed that has not been pressed; a button that is down has a release
\* to come.
Pressed ==
  /\ held \/ bounce > 0 => presses > 0
  /\ \A k \in Kinds : owed[k] + Count(held) <= 2 * presses

KInv == TypeOK /\ KeysPaid /\ PadPaid /\ Pressed

\* A move about to be made has a press to answer.
LEMMA ActIsPaid ==
  ASSUME KInv, InLoop # {}, act # NoAct
  PROVE  act.kind \in Kinds /\ owed[act.kind] > 0
<1> USE KeyAssumption DEF KInv, TypeOK, Kinds
<1>1. act.kind \in Kinds /\ act \in [kind : Kinds, in : BOOLEAN]
  OBVIOUS
<1>2. \A k \in Kinds : owed[k] \in Nat
  OBVIOUS
<1>3. CASE act.kind = "pad"
  BY <1>2, <1>3 DEF PadPaid, PendingPad, Count
<1>4. CASE act.kind \in {"insert", "toggle"}
  <2> DEFINE k == act.kind
  <2>1. PendingKey(k) <= owed[k]
    BY <1>4 DEF KeysPaid
  <2>2. PendingKey(k) \in Int /\ PendingKey(k) >= 1
    <3> DEFINE a == Count(Waits(k, FALSE, FALSE))
               b == Count(Waits(k, FALSE, TRUE))
               c == Count(~rawOk /\ Waits(k, TRUE, FALSE))
               d == Count(k \in want)
               e == Count(act.kind = k)
    <3>1. a \in {0, 1} /\ b \in {0, 1} /\ c \in {0, 1} /\ d \in {0, 1} /\ e = 1
      BY ONLY DEF Count
    <3>2. PendingKey(k) = a + b + c + d + e
      BY ONLY DEF PendingKey
    <3> HIDE DEF a, b, c, d, e
    <3> QED
      BY ONLY <3>1, <3>2
  <2> HIDE DEF k
  <2>3. owed[k] \in Nat
    BY <1>1, <1>2 DEF k
  <2>4. owed[k] > 0
    BY ONLY <2>1, <2>2, <2>3
  <2> QED
    BY <1>1, <2>4 DEF k
<1> QED
  BY <1>1, <1>3, <1>4

\* Types.
LEMMA KeyTypesInit == Init => KInv
<1> SUFFICES ASSUME Init PROVE KInv
  OBVIOUS
<1> USE KeyAssumption DEF Init, Kinds
<1>1. TypeOK
  <2>1. fired \in 0..Debounce + 1 /\ unseen \in 0..Linger + 1 /\ bounce \in 0..Debounce
    OBVIOUS
  <2>2. presses \in 0..Presses /\ owed \in [Kinds -> 0..2 * Presses]
    OBVIOUS
  <2>3. life \in [Watchers -> {"none", "new", "loop", "leaving"}]
    OBVIOUS
  <2>4. pc \in Turn /\ keys \subseteq Keys /\ want \subseteq Kinds
    BY DEF Turn
  <2> QED
    BY <2>1, <2>2, <2>3, <2>4 DEF TypeOK
<1>2. KeysPaid
  BY DEF KeysPaid, PendingKey, Count, Waits, NoAct
<1>3. PadPaid
  BY DEF PadPaid, InLoop
<1>4. Pressed
  BY DEF Pressed, Count
<1> QED
  BY <1>1, <1>2, <1>3, <1>4 DEF KInv

\* What a press leaves: one more of the presses there may be.
LEMMA PressTyped ==
  ASSUME TypeOK, Press
  PROVE  presses' = presses + 1 /\ presses' \in 0..Presses /\ rawOk' = rawOk
BY KeyAssumption DEF Press, TypeOK

LEMMA PressedStep ==
  ASSUME KInv, [Next]_vars
  PROVE  Pressed' /\ owed' \in [Kinds -> 0..2 * Presses]
<1> USE KeyAssumption DEF Kinds
<1> DEFINE h == Count(held)
           Goal == Pressed' /\ owed' \in [Kinds -> 0..2 * Presses]
<1>0. /\ presses \in 0..Presses /\ bounce \in 0..Debounce
      /\ owed \in [Kinds -> 0..2 * Presses] /\ Pressed
      /\ h \in {0, 1} /\ h' \in {0, 1}
  BY DEF KInv, TypeOK, Count
<1>a. ASSUME presses' \in 0..Presses, owed' \in [Kinds -> Nat],
             held' \/ bounce' > 0 => presses' > 0,
             \A k \in Kinds : owed'[k] + h' <= 2 * presses'
      PROVE  Goal
  <2>1. Pressed'
    BY <1>a DEF Pressed
  <2>2. \A k \in Kinds : owed'[k] \in Nat
    BY ONLY <1>a
  <2>3. ASSUME NEW k \in Kinds PROVE owed'[k] \in 0..2 * Presses
    <3>1. owed'[k] \in Nat /\ owed'[k] + h' <= 2 * presses'
      BY <1>a, <2>2
    <3> HIDE DEF h
    <3> QED
      BY <1>0, <1>a, <3>1
  <2> QED
    BY <1>a, <2>1, <2>3
<1>b. \A k \in Kinds : owed[k] \in Nat /\ owed[k] + h <= 2 * presses
  <2>1. \A k \in Kinds : owed[k] + h <= 2 * presses
    BY <1>0 DEF Pressed
  <2> QED
    BY <1>0, <2>1
<1> HIDE DEF h
<1>1. ASSUME UNCHANGED <<presses, owed, held>>, bounce' > 0 => held \/ bounce > 0
      PROVE  Goal
  <2>1. h' = h
    BY <1>1 DEF h, Count
  <2> QED
    BY <1>0, <1>1, <1>a, <1>b, <2>1 DEF Pressed
<1>2. ASSUME NEW k \in Kinds, Press, Owe(k), held' = held, bounce' = bounce PROVE Goal
  <2>1. presses' = presses + 1 /\ presses' \in 0..Presses
    BY <1>2, PressTyped DEF KInv
  <2>2. owed' = [owed EXCEPT ![k] = owed[k] + 1]
    BY <1>2 DEF Owe
  <2>3. h' = h
    BY <1>2 DEF h, Count
  <2>4. \A j \in Kinds : owed'[j] \in Nat /\ owed'[j] + h' <= 2 * presses'
    BY <1>0, <1>b, <2>1, <2>2, <2>3
  <2> QED
    BY <1>0, <1>a, <2>1, <2>2, <2>4
<1>3. CASE Act
  <2>1. CASE owed' = owed
    BY <1>1, <1>3, <2>1 DEF Act, Stays, Desk, pad, machine
  <2>2. CASE owed' # owed
    <3>1. act.kind \in Kinds /\ owed[act.kind] > 0
      BY <1>3, ActIsPaid DEF Act
    <3>2. owed' = [owed EXCEPT ![act.kind] = owed[act.kind] - 1]
      BY <1>3, <2>2 DEF Act
    <3>3. presses' = presses /\ held' = held /\ bounce' = bounce
      BY <1>3 DEF Act, Stays, Desk, pad, machine
    <3>4. h' = h
      BY <3>3 DEF h, Count
    <3>5. \A j \in Kinds : owed'[j] \in Nat /\ owed'[j] + h' <= 2 * presses'
      BY <1>0, <1>b, <3>1, <3>2, <3>3, <3>4
    <3> QED
      BY <1>0, <1>a, <3>2, <3>3, <3>5 DEF Pressed
  <2> QED
    BY <2>1, <2>2
<1>4. ASSUME NEW w \in Watchers, Enter(w) PROVE Goal
  <2>1. presses' = presses /\ held' = held /\ bounce' = bounce
    BY <1>4 DEF Enter, pad, machine
  <2>2. CASE held \/ bounce > 0
    <3>1. owed' = [owed EXCEPT !["pad"] = 1]
      BY <1>4, <2>2 DEF Enter
    <3>2. h' = h
      BY <2>1 DEF h, Count
    <3>3. presses > 0
      BY <1>0, <2>2 DEF Pressed
    <3>4. \A j \in Kinds : owed'[j] \in Nat /\ owed'[j] + h' <= 2 * presses'
      BY <1>0, <1>b, <2>1, <3>1, <3>2, <3>3
    <3> QED
      BY <1>0, <1>a, <2>1, <3>1, <3>3, <3>4
  <2>3. CASE ~(held \/ bounce > 0)
    <3>1. owed' = owed
      BY <1>4, <2>3 DEF Enter
    <3> QED
      BY <1>1, <2>1, <3>1
  <2> QED
    BY <2>2, <2>3
<1>5. CASE Button
  <2>0. /\ held' = ~held
        /\ owed' = [owed EXCEPT !["pad"] = owed["pad"] + 1] \/ (held /\ owed' = owed)
    BY <1>5 DEF Button, Owe
  <2>2. CASE held
    <3>1. presses' = presses /\ h = 1 /\ h' = 0
      BY <1>5, <2>0, <2>2 DEF Button, machine, h, Count
    <3>2. presses > 0
      BY <1>0, <2>2 DEF Pressed
    <3>3. CASE owed' = owed
      <4>1. \A j \in Kinds : owed'[j] \in Nat /\ owed'[j] + h' <= 2 * presses'
        BY <1>0, <1>b, <3>1, <3>3
      <4> QED
        BY <1>0, <1>a, <2>0, <3>1, <3>2, <3>3, <4>1
    <3>4. CASE owed' = [owed EXCEPT !["pad"] = owed["pad"] + 1]
      <4>1. \A j \in Kinds : owed'[j] \in Nat /\ owed'[j] + h' <= 2 * presses'
        BY <1>0, <1>b, <3>1, <3>4
      <4> QED
        BY <1>0, <1>a, <2>0, <3>1, <3>2, <3>4, <4>1
    <3> QED
      BY <2>0, <3>3, <3>4
  <2>3. CASE ~held
    <3>0. owed' = [owed EXCEPT !["pad"] = owed["pad"] + 1]
      BY <2>0, <2>3
    <3>1. presses' = presses + 1 /\ presses' \in 0..Presses
      BY <1>5, <2>3, PressTyped DEF Button, KInv
    <3>2. h = 0 /\ h' = 1
      BY <2>0, <2>3 DEF h, Count
    <3>3. \A j \in Kinds : owed'[j] \in Nat /\ owed'[j] + h' <= 2 * presses'
      BY <1>0, <1>b, <3>0, <3>1, <3>2
    <3> QED
      BY <1>0, <1>a, <2>0, <3>0, <3>1, <3>3
  <2> QED
    BY <2>2, <2>3
<1>6. CASE DemoKey
  <2>1. CASE rawOk
    BY <1>1, <1>6, <2>1 DEF DemoKey, machine, pad
  <2>2. CASE ~rawOk
    BY <1>2, <1>6, <2>2 DEF DemoKey, pad
  <2> QED
    BY <2>1, <2>2
<1>7. ASSUME NEW k \in {"insert", "toggle"}, Key(k) PROVE Goal
  BY <1>2, <1>7 DEF Key, pad
<1>8. CASE Tick
  BY <1>0, <1>1, <1>8 DEF Tick, Desk, machine
<1> USE <1>1 DEF machine, pad, Desk, Stays
<1>9. ASSUME NEW p \in Games, NEW w \in Watchers, Start(p) \/ Exit(p) \/ Launch(p, w)
      PROVE  Goal
  BY <1>9 DEF Start, Exit, Launch
<1>10. ASSUME NEW w \in Watchers, TurnAway(w) \/ Gone(w) \/ Leave(w) PROVE Goal
  BY <1>10 DEF TurnAway, Gone, Leave
<1>11. ASSUME NEW r \in Keys, Hook(r) \/ Raw(r) PROVE Goal
  BY <1>11 DEF Hook, Raw
<1>12. CASE ChangeFront \/ DllMoves
  BY <1>12 DEF ChangeFront, DllMoves
<1>13. CASE Pumped \/ Pad \/ Insert \/ Toggle \/ PadToggle \/ Seen \/ Wake
  BY <1>13 DEF Pumped, Pad, Insert, Toggle, PadToggle, Consider, Seen, Wake
<1>14. CASE UNCHANGED vars
  BY <1>14 DEF vars
<1> QED
  <2>1. ASSUME NEW p \in Games, Start(p) \/ Exit(p) PROVE Goal
    BY <2>1 DEF Start, Exit
  <2> QED
    BY <2>1, <1>3, <1>4, <1>5, <1>6, <1>7, <1>8, <1>9, <1>10, <1>11, <1>12, <1>13, <1>14
    DEF Next, Turns, Processes

\* The other variables keep their types.
LEMMA KeyTypesStep ==
  ASSUME KInv, [Next]_vars
  PROVE  TypeOK'
<1> USE KeyAssumption DEF TypeOK, Kinds, NoAct, Turn, machine, pad, loop, Desk, Stays
<1>0. TypeOK /\ owed' \in [Kinds -> 0..2 * Presses]
  BY PressedStep DEF KInv
<1>1. ASSUME Press PROVE presses' \in 0..Presses /\ rawOk' = rawOk
  BY <1>0, <1>1, PressTyped
<1>2. ASSUME NEW p \in Games, Start(p) \/ Exit(p) PROVE TypeOK'
  BY <1>0, <1>2 DEF Start, Exit
<1>3. ASSUME NEW p \in Games, NEW w \in Watchers, Launch(p, w) PROVE TypeOK'
  BY <1>0, <1>3 DEF Launch
<1>4. ASSUME NEW w \in Watchers, Enter(w) PROVE TypeOK'
  <2>1. /\ life' = [life EXCEPT ![w] = "loop"]
        /\ pc' = "pump" /\ want' = {} /\ act' = NoAct
        /\ prevR3' = FALSE /\ fired' = Debounce + 1 /\ unseen' = 0
        /\ UNCHANGED <<running, started, front, slot, keys, held, bounce, rawOk, presses>>
    BY <1>4 DEF Enter
  <2>2. life' \in [Watchers -> {"none", "new", "loop", "leaving"}]
    BY <1>0, <2>1
  <2>3. fired' \in 0..Debounce + 1 /\ unseen' \in 0..Linger + 1
    BY <2>1
  <2>4. pc' \in Turn /\ want' \subseteq Kinds /\ prevR3' \in BOOLEAN /\ act' = NoAct
    BY <2>1
  <2> HIDE DEF NoAct, Turn, Kinds
  <2> QED
    BY <1>0, <2>1, <2>2, <2>3, <2>4
<1>5. ASSUME NEW w \in Watchers, TurnAway(w) PROVE TypeOK'
  BY <1>0, <1>5 DEF TurnAway
<1>6. ASSUME NEW w \in Watchers, Gone(w) PROVE TypeOK'
  BY <1>0, <1>6 DEF Gone
<1>7. ASSUME NEW w \in Watchers, Leave(w) PROVE TypeOK'
  BY <1>0, <1>7 DEF Leave
<1>8. ASSUME NEW k \in {"insert", "toggle"}, Key(k) PROVE TypeOK'
  <2>1. presses' \in 0..Presses /\ rawOk' = rawOk
    BY <1>1, <1>8 DEF Key
  <2>2. keys' \subseteq Keys
    <3>1. [kind |-> k, demo |-> FALSE, raw |-> FALSE] \in Keys
      BY ONLY k \in {"insert", "toggle"} DEF Keys
    <3> QED
      BY ONLY <1>0, <1>8, <3>1 DEF Key, TypeOK
  <2> QED
    BY <1>0, <1>8, <2>1, <2>2 DEF Key
<1>9. CASE DemoKey
  <2>1. presses' \in 0..Presses /\ rawOk' = rawOk
    BY <1>0, <1>1, <1>9 DEF DemoKey
  <2>2. keys' \subseteq Keys
    <3>1. [kind |-> "insert", demo |-> TRUE, raw |-> FALSE] \in Keys
      BY ONLY DEF Keys
    <3> QED
      BY ONLY <1>0, <1>9, <3>1 DEF DemoKey, TypeOK
  <2> QED
    BY <1>0, <1>9, <2>1, <2>2 DEF DemoKey
<1>10. CASE Button
  <2>1. presses' \in 0..Presses /\ rawOk' = rawOk /\ bounce' \in 0..Debounce
    BY <1>0, <1>1, <1>10 DEF Button
  <2> QED
    BY <1>0, <1>10, <2>1 DEF Button
<1>11. CASE ChangeFront \/ DllMoves
  BY <1>0, <1>11 DEF ChangeFront, DllMoves
<1>12. ASSUME NEW r \in Keys, Hook(r) PROVE TypeOK'
  <2>1. keys' \subseteq Keys /\ want' \subseteq Kinds
    <3>1. [r EXCEPT !.raw = TRUE] \in Keys /\ r.kind \in Kinds
      BY ONLY r \in Keys DEF Keys, Kinds
    <3> QED
      BY ONLY <1>0, <1>12, <3>1 DEF Hook, TypeOK
  <2> QED
    BY <1>0, <1>12, <2>1 DEF Hook
<1>13. ASSUME NEW r \in Keys, Raw(r) PROVE TypeOK'
  <2>1. keys' \subseteq Keys /\ want' \subseteq Kinds
    <3>1. r.kind \in Kinds
      BY ONLY r \in Keys DEF Keys, Kinds
    <3> QED
      BY ONLY <1>0, <1>13, <3>1 DEF Raw, TypeOK
  <2> QED
    BY <1>0, <1>13, <2>1 DEF Raw
<1>14. CASE Pumped \/ Wake
  BY <1>0, <1>14 DEF Pumped, Wake, Go
<1>15. CASE Pad
  <2>1. fired' \in 0..Debounce + 1 /\ want' \subseteq Kinds /\ prevR3' \in BOOLEAN
    <3>1. PICK r3 \in IF bounce > 0 THEN BOOLEAN ELSE {held} :
            /\ prevR3' = r3
            /\ \/ fired' = 0 /\ want' = want \cup {"pad"}
               \/ UNCHANGED <<fired, want>>
      BY <1>15 DEF Pad
    <3>2. r3 \in BOOLEAN
      BY <1>0, <3>1
    <3>3. prevR3' \in BOOLEAN
      BY ONLY <3>1, <3>2
    <3>4. fired' \in 0..Debounce + 1
      <4>1. fired' \in {0, fired} /\ fired \in 0..Debounce + 1
        BY ONLY <1>0, <3>1 DEF TypeOK
      <4> QED
        BY ONLY <4>1, KeyAssumption DEF KeyAssumption
    <3>5. want' \subseteq Kinds
      BY ONLY <1>0, <3>1 DEF TypeOK, Kinds
    <3> QED
      BY ONLY <3>3, <3>4, <3>5
  <2> QED
    BY <1>0, <1>15, <2>1 DEF Pad, Go
<1>16. ASSUME NEW k \in Kinds, NEW ok, NEW to \in BOOLEAN, Consider(k, ok, to), pc' \in Turn
       PROVE  TypeOK'
  <2>1. act' \in {NoAct} \cup [kind : Kinds, in : BOOLEAN]
    BY <1>16 DEF Consider
  <2> QED
    BY <1>0, <1>16, <2>1 DEF Consider, TakeWanted
<1>17. CASE Insert \/ Toggle \/ PadToggle
  <2>1. (~slot) \in BOOLEAN /\ TRUE \in BOOLEAN
    OBVIOUS
  <2>2. CASE Insert
    BY <1>16, <2>1, <2>2 DEF Insert, Go
  <2>3. CASE Toggle
    BY <1>16, <2>1, <2>3 DEF Toggle, Go
  <2>4. CASE PadToggle
    BY <1>16, <2>1, <2>4 DEF PadToggle, Go
  <2> QED
    BY <1>17, <2>2, <2>3, <2>4
<1>18. CASE Act
  <2>1. slot' \in BOOLEAN
    BY <1>0, <1>18 DEF Act
  <2> QED
    BY <1>0, <1>18, <2>1 DEF Act
<1>19. CASE Seen
  BY <1>0, <1>19 DEF Seen, Go
<1>20. CASE Tick
  <2>1. /\ fired' \in 0..Debounce + 1 /\ unseen' \in 0..Linger + 1
        /\ bounce' \in 0..Debounce
    BY <1>0, <1>20 DEF Tick
  <2> QED
    BY <1>0, <1>20, <2>1 DEF Tick
<1>21. CASE UNCHANGED vars
  BY <1>0, <1>21 DEF vars
<1> QED
  BY <1>2, <1>3, <1>4, <1>5, <1>6, <1>7, <1>8, <1>9, <1>10, <1>11, <1>12, <1>13, <1>14,
     <1>15, <1>17, <1>18, <1>19, <1>20, <1>21 DEF Next, Turns, Processes

\* A key's way through hook and raw input costs one request at most, and what
\* is requested moves the card once at most.
LEMMA KeysPaidStep ==
  ASSUME KInv, [Next]_vars
  PROVE  KeysPaid'
<1> SUFFICES ASSUME NEW k \in {"insert", "toggle"} PROVE PendingKey(k)' <= owed'[k]
  BY DEF KeysPaid
<1> DEFINE A == Waits(k, FALSE, FALSE)
           B == Waits(k, FALSE, TRUE)
           C == ~rawOk /\ Waits(k, TRUE, FALSE)
           D == k \in want
           E == act.kind = k
           Sum == Count(A) + Count(B) + Count(C) + Count(D) + Count(E)
           Goal == PendingKey(k)' <= owed'[k]
<1>1. /\ Sum <= owed[k] /\ owed[k] \in Nat /\ owed'[k] \in Nat
      /\ TypeOK /\ KeyAssumption
  <2>1. owed \in [Kinds -> 0..2 * Presses] /\ owed' \in [Kinds -> 0..2 * Presses] /\ k \in Kinds
    BY PressedStep DEF KInv, TypeOK, Kinds
  <2>2. owed[k] \in 0..2 * Presses /\ owed'[k] \in 0..2 * Presses
    BY ONLY <2>1
  <2>3. PendingKey(k) <= owed[k] /\ TypeOK
    BY DEF KInv, KeysPaid
  <2>4. PendingKey(k) = Sum
    BY DEF PendingKey
  <2> HIDE DEF Sum
  <2> QED
    BY ONLY <2>2, <2>3, <2>4, KeyAssumption DEF KeyAssumption
<1>2. ASSUME Sum' <= Sum + (owed'[k] - owed[k]) PROVE Goal
  <2>1. PendingKey(k)' = Sum'
    BY DEF PendingKey
  <2>2. Sum \in Int /\ Sum' \in Int
    BY ONLY DEF Count
  <2> HIDE DEF Sum
  <2> QED
    BY ONLY <1>1, <1>2, <2>1, <2>2
<1>3. ASSUME A' => A, B' => B, C' => C, D' => D, E' => E, owed'[k] = owed[k]
      PROVE  Goal
  <2> HIDE DEF A, B, C, D, E, Goal
  <2>1. Sum' <= Sum
    BY ONLY <1>3 DEF Count
  <2>2. Sum \in Int /\ Sum' \in Int
    BY ONLY DEF Count
  <2> HIDE DEF Sum
  <2> QED
    BY ONLY <1>1, <1>2, <1>3, <2>1, <2>2
<1>4. ASSUME UNCHANGED <<keys, want, act, rawOk, owed>> PROVE Goal
  BY <1>3, <1>4 DEF Waits
<1> USE DEF machine, pad, loop, Desk, Stays, Waits
<1>5. ASSUME NEW p \in Games, NEW w \in Watchers, Launch(p, w) PROVE Goal
  BY <1>4, <1>5 DEF Launch
<1>6. ASSUME NEW p \in Games, Start(p) \/ Exit(p) PROVE Goal
  BY <1>4, <1>6 DEF Start, Exit
<1>7. ASSUME NEW w \in Watchers, TurnAway(w) PROVE Goal
  BY <1>4, <1>7 DEF TurnAway
<1>8. ASSUME NEW w \in Watchers, Enter(w) PROVE Goal
  <2>1. owed'[k] = owed[k]
    BY <1>1, <1>8 DEF Enter, TypeOK
  <2>2. keys' = keys /\ rawOk' = rawOk /\ want' = {} /\ act'.kind = "none"
    BY <1>8 DEF Enter, NoAct
  <2> QED
    BY <1>3, <2>1, <2>2
<1>9. ASSUME NEW w \in Watchers, Gone(w) \/ Leave(w) PROVE Goal
  <2>1. /\ owed' = owed /\ rawOk' = rawOk /\ act' = act /\ keys' \in {keys, {}}
        /\ want' \in {want, {}}
    BY <1>9 DEF Gone, Leave
  <2> QED
    BY <1>3, <2>1
<1>10. CASE Button \/ ChangeFront \/ DllMoves
  <2>1. rawOk' = rawOk /\ act' = act /\ keys' = keys /\ want' = want
    BY <1>10 DEF Button, ChangeFront, DllMoves, Owe, Press
  <2>2. owed'[k] = owed[k]
    <3>1. owed' = owed \/ owed' = [owed EXCEPT !["pad"] = @ + 1]
      BY <1>10 DEF Button, ChangeFront, DllMoves, Owe, Press
    <3> QED
      BY <1>1, <3>1 DEF TypeOK, Kinds
  <2> QED
    BY <1>3, <2>1, <2>2
<1>11. CASE Pumped \/ Seen \/ Wake \/ Tick \/ UNCHANGED vars
  BY <1>4, <1>11 DEF Pumped, Seen, Wake, Tick, vars
<1>12. CASE Pad
  <2>1. /\ owed' = owed /\ rawOk' = rawOk /\ act' = act /\ keys' = keys
        /\ want' \subseteq want \cup {"pad"}
    BY <1>12 DEF Pad
  <2> QED
    BY <1>3, <2>1
<1>13. ASSUME NEW j \in {"insert", "toggle"}, Key(j) PROVE Goal
  <2>1. /\ rawOk' = rawOk /\ act' = act /\ want' = want
        /\ keys' = keys \cup {[kind |-> j, demo |-> FALSE, raw |-> FALSE]}
        /\ owed' = [owed EXCEPT ![j] = owed[j] + 1]
    BY <1>13 DEF Key, Owe, Press
  <2>2. B' <=> B
    BY ONLY <2>1 DEF Waits
  <2>3. C' <=> C
    BY ONLY <2>1 DEF Waits
  <2>4. CASE j # k
    <3>1. A' <=> A
      BY ONLY <2>1, <2>4 DEF Waits
    <3>2. owed'[k] = owed[k]
      BY <1>1, <2>1, <2>4 DEF TypeOK
    <3> QED
      BY <1>3, <2>1, <2>2, <2>3, <3>1, <3>2
  <2>5. CASE j = k
    <3>1. owed'[k] = owed[k] + 1
      BY <1>1, <2>1, <2>5 DEF TypeOK, Kinds
    <3>2. (D' <=> D) /\ (E' <=> E)
      BY ONLY <2>1
    <3> HIDE DEF A, B, C, D, E
    <3>3. Sum' <= Sum + 1
      BY ONLY <2>2, <2>3, <3>2 DEF Count
    <3> HIDE DEF Sum, Goal
    <3> QED
      BY ONLY <1>1, <1>2, <3>1, <3>3
  <2> QED
    BY <2>4, <2>5
<1>14. CASE DemoKey
  <2> DEFINE key == [kind |-> "insert", demo |-> TRUE, raw |-> FALSE]
  <2>1. act' = act /\ want' = want /\ keys' = keys \cup {key}
    BY <1>14 DEF DemoKey
  <2>2. (A' <=> A) /\ (B' <=> B) /\ (D' <=> D) /\ (E' <=> E)
    BY ONLY <2>1 DEF Waits
  <2>3. CASE rawOk
    <3>1. owed' = owed /\ rawOk' = rawOk
      BY <1>14, <2>3 DEF DemoKey
    <3>2. ~C'
      BY <2>3, <3>1
    <3> QED
      BY <1>3, <2>2, <3>1, <3>2
  <2>4. CASE ~rawOk
    <3>1. owed' = [owed EXCEPT !["insert"] = owed["insert"] + 1] /\ rawOk' = rawOk
      BY <1>14, <2>4 DEF DemoKey, Owe, Press
    <3>2. CASE k # "insert"
      <4>1. C' <=> C
        BY ONLY <2>1, <3>1, <3>2 DEF Waits
      <4>2. owed'[k] = owed[k]
        BY <1>1, <3>1, <3>2 DEF TypeOK
      <4> QED
        BY <1>3, <2>2, <4>1, <4>2
    <3>3. CASE k = "insert"
      <4>1. owed'[k] = owed[k] + 1
        BY <1>1, <3>1, <3>3 DEF TypeOK, Kinds
      <4> HIDE DEF A, B, C, D, E
      <4>2. Sum' <= Sum + 1
        BY ONLY <2>2 DEF Count
      <4>3. Sum \in Int /\ Sum' \in Int
        BY ONLY DEF Count
      <4> HIDE DEF Sum
      <4>4. Sum' <= Sum + (owed'[k] - owed[k])
        BY ONLY <1>1, <4>1, <4>2, <4>3
      <4> QED
        BY ONLY <1>2, <4>4
    <3> QED
      BY <3>2, <3>3
  <2> QED
    BY <2>3, <2>4
<1>15. ASSUME NEW j \in Kinds, NEW ok, NEW to, Consider(j, ok, to), act = NoAct PROVE Goal
  <2>1. keys' = keys /\ owed' = owed /\ rawOk' = rawOk /\ want' = want \ {j}
    BY <1>15 DEF Consider, TakeWanted
  <2>2. act'.kind = IF j \in want /\ ok THEN j ELSE "none"
    BY <1>15 DEF Consider, NoAct
  <2>3. (A' <=> A) /\ (B' <=> B) /\ (C' <=> C)
    BY ONLY <2>1 DEF Waits
  <2>4. CASE j # k
    <3>1. ~E' /\ (D' => D)
      BY <2>1, <2>2, <2>4
    <3> QED
      BY <1>3, <2>1, <2>3, <3>1
  <2>5. CASE j = k
    <3>1. ~D' /\ (E' => D) /\ ~E
      BY <1>15, <2>1, <2>2, <2>5 DEF NoAct
    <3>2. owed'[k] = owed[k]
      BY <2>1
    <3> HIDE DEF A, B, C, D, E
    <3>3. Sum' <= Sum
      BY ONLY <2>3, <3>1 DEF Count
    <3>4. Sum \in Int /\ Sum' \in Int
      BY ONLY DEF Count
    <3> HIDE DEF Sum, Goal
    <3> QED
      BY ONLY <1>1, <1>2, <3>2, <3>3, <3>4
  <2> QED
    BY <2>4, <2>5
<1>16. CASE Insert \/ Toggle \/ PadToggle
  BY <1>15, <1>16 DEF Insert, Toggle, PadToggle, Go, Kinds
<1>17. CASE Act
  <2>1. /\ keys' = keys /\ rawOk' = rawOk /\ want' = want /\ act' = NoAct
        /\ owed' \in {owed, [owed EXCEPT ![act.kind] = owed[act.kind] - 1]}
    BY <1>17 DEF Act
  <2>2. (A' <=> A) /\ (B' <=> B) /\ (C' <=> C) /\ (D' <=> D)
    BY ONLY <2>1 DEF Waits
  <2>3. ~E'
    BY <2>1 DEF NoAct
  <2>4. CASE owed'[k] = owed[k]
    BY <1>3, <2>2, <2>3, <2>4
  <2>5. CASE owed'[k] # owed[k]
    <3>1. act.kind = k /\ owed'[k] = owed[k] - 1
      BY <1>1, <2>1, <2>5 DEF TypeOK, Kinds
    <3>2. E
      BY <3>1
    <3> HIDE DEF A, B, C, D, E
    <3>3. Sum' = Sum - 1
      BY ONLY <2>2, <2>3, <3>2 DEF Count
    <3>4. Sum \in Int /\ Sum' \in Int
      BY ONLY DEF Count
    <3> HIDE DEF Sum
    <3>5. Sum' <= Sum + (owed'[k] - owed[k])
      BY ONLY <1>1, <3>1, <3>3, <3>4
    <3> QED
      BY ONLY <1>2, <3>5
  <2> QED
    BY <2>4, <2>5
<1> DEFINE kff == [kind |-> k, demo |-> FALSE, raw |-> FALSE]
           kft == [kind |-> k, demo |-> FALSE, raw |-> TRUE]
           ktf == [kind |-> k, demo |-> TRUE, raw |-> FALSE]
<1>18. (A <=> kff \in keys) /\ (B <=> kft \in keys) /\ (C <=> ~rawOk /\ ktf \in keys)
  BY ONLY DEF Waits
<1>19. (A' <=> kff \in keys') /\ (B' <=> kft \in keys') /\ (C' <=> ~rawOk' /\ ktf \in keys')
  BY ONLY DEF Waits
<1>20. ASSUME NEW x \in Keys
       PROVE  /\ x.demo \in {TRUE, FALSE} /\ x.raw \in {TRUE, FALSE}
              /\ kff = x <=> x.kind = k /\ x.demo = FALSE /\ x.raw = FALSE
              /\ kft = x <=> x.kind = k /\ x.demo = FALSE /\ x.raw = TRUE
              /\ ktf = x <=> x.kind = k /\ x.demo = TRUE /\ x.raw = FALSE
  <2>1. /\ x.demo \in {TRUE, FALSE} /\ x.raw \in {TRUE, FALSE}
        /\ x = [kind |-> x.kind, demo |-> x.demo, raw |-> x.raw]
    BY ONLY x \in Keys DEF Keys
  <2>2. kff = x <=> x.kind = k /\ x.demo = FALSE /\ x.raw = FALSE
    BY ONLY <2>1
  <2>3. kft = x <=> x.kind = k /\ x.demo = FALSE /\ x.raw = TRUE
    BY ONLY <2>1
  <2>4. ktf = x <=> x.kind = k /\ x.demo = TRUE /\ x.raw = FALSE
    BY ONLY <2>1
  <2> QED
    BY ONLY <2>1, <2>2, <2>3, <2>4
<1>21. ASSUME NEW r \in Keys, Hook(r) PROVE Goal
  <2>1. /\ r \in keys /\ ~r.raw /\ act' = act /\ rawOk' = rawOk /\ owed' = owed
        /\ keys' = (keys \ {r}) \cup (IF rawOk THEN {[r EXCEPT !.raw = TRUE]} ELSE {})
        /\ want' = IF ~rawOk THEN want \cup {r.kind} ELSE want
    BY <1>21 DEF Hook, HookRecords
  <2> DEFINE s == [r EXCEPT !.raw = TRUE]
  <2>2. /\ s \in Keys /\ s.kind = r.kind /\ s.demo = r.demo /\ s.raw = TRUE
        /\ r.raw = FALSE
    BY ONLY <2>1, r \in Keys DEF Keys
  <2>3. \A x : x \in keys' <=> (x \in keys /\ x # r) \/ (rawOk /\ x = s)
    BY ONLY <2>1
  <2>4. /\ kff = r <=> r.kind = k /\ r.demo = FALSE
        /\ kft # r
        /\ ktf = r <=> r.kind = k /\ r.demo = TRUE
        /\ kff # s /\ ktf # s
        /\ kft = s <=> r.kind = k /\ r.demo = FALSE
    <3> HIDE DEF kff, kft, ktf, s
    <3> QED
      BY ONLY <1>20, <2>2, r \in Keys
  <2>5. /\ A' <=> A /\ kff # r
        /\ B' <=> B \/ (rawOk /\ kft = s)
        /\ C' <=> C /\ ktf # r
    <3> HIDE DEF kff, kft, ktf, s
    <3> QED
      BY ONLY <1>18, <1>19, <2>1, <2>3, <2>4
  <2>6. /\ E' <=> E
        /\ rawOk \/ r.kind # k => (D' <=> D)
        /\ owed'[k] = owed[k]
    BY ONLY <2>1
  <2>7. CASE r.kind # k \/ (rawOk /\ r.demo = TRUE)
    <3>1. (A' => A) /\ (B' => B) /\ (C' => C) /\ (D' => D) /\ (E' => E)
      BY ONLY <2>4, <2>5, <2>6, <2>7
    <3> QED
      BY ONLY <1>3, <2>6, <3>1
  <2>8. CASE r.kind = k /\ (rawOk => r.demo = FALSE)
    <3>1. \/ A /\ ~A' /\ ~C' /\ (D' <=> D)
          \/ A /\ ~A' /\ (B' <=> B) /\ (C' => C)
          \/ C /\ ~C' /\ (A' => A) /\ (B' <=> B)
      <4> HIDE DEF kff, kft, ktf, s
      <4>1. r.demo = FALSE => A
        BY ONLY <1>18, <2>1, <2>4, <2>8
      <4>2. r.demo = TRUE => C
        BY ONLY <1>18, <2>1, <2>4, <2>8
      <4>3. rawOk => ~C
        BY ONLY <1>18
      <4> QED
        BY ONLY <1>20, <2>4, <2>5, <2>6, <2>8, <4>1, <4>2, <4>3, r \in Keys
    <3>2. Sum \in Int /\ Sum' \in Int
      BY ONLY DEF Count
    <3>3. Sum' <= Sum
      <4> HIDE DEF A, B, C, D, E
      <4> QED
        BY ONLY <2>6, <3>1 DEF Count
    <3> HIDE DEF Sum
    <3>4. Sum' <= Sum + (owed'[k] - owed[k])
      BY ONLY <1>1, <2>6, <3>2, <3>3
    <3> QED
      BY ONLY <1>2, <3>4
  <2> QED
    BY ONLY <1>20, <2>7, <2>8, r \in Keys
<1>22. ASSUME NEW r \in Keys, Raw(r) PROVE Goal
  <2>1. /\ r \in keys /\ r.raw /\ act' = act /\ rawOk' = rawOk /\ owed' = owed
        /\ keys' = keys \ {r}
        /\ want' = IF r.demo THEN want ELSE want \cup {r.kind}
    BY <1>22 DEF Raw
  <2>2. r.raw = TRUE
    BY ONLY <2>1, r \in Keys DEF Keys
  <2>3. kff # r /\ ktf # r /\ (kft = r <=> r.kind = k /\ r.demo = FALSE)
    <3> HIDE DEF kff, kft, ktf
    <3> QED
      BY ONLY <1>20, <2>2, r \in Keys
  <2>4. (A' <=> A) /\ (B' <=> B /\ kft # r) /\ (C' <=> C)
    <3> HIDE DEF kff, kft, ktf
    <3> QED
      BY ONLY <1>18, <1>19, <2>1, <2>3
  <2>5. (E' <=> E) /\ owed'[k] = owed[k]
    BY ONLY <2>1
  <2>6. CASE r.kind # k \/ r.demo = TRUE
    <3>1. D' <=> D
      BY ONLY <2>1, <2>6
    <3> QED
      BY ONLY <1>3, <2>3, <2>4, <2>5, <2>6, <3>1
  <2>7. CASE r.kind = k /\ r.demo = FALSE
    <3>1. B /\ ~B'
      <4> HIDE DEF kff, kft, ktf
      <4> QED
        BY ONLY <1>18, <2>1, <2>3, <2>4, <2>7
    <3>2. Sum \in Int /\ Sum' \in Int
      BY ONLY DEF Count
    <3>3. Sum' <= Sum
      <4> HIDE DEF A, B, C, D, E
      <4> QED
        BY ONLY <2>4, <2>5, <3>1 DEF Count
    <3> HIDE DEF Sum
    <3>4. Sum' <= Sum + (owed'[k] - owed[k])
      BY ONLY <1>1, <2>5, <3>2, <3>3
    <3> QED
      BY ONLY <1>2, <3>4
  <2> QED
    BY ONLY <1>20, <2>6, <2>7, r \in Keys
<1> QED
  BY <1>5, <1>6, <1>7, <1>8, <1>9, <1>10, <1>11, <1>12, <1>13, <1>14, <1>16, <1>17, <1>21,
     <1>22 DEF Next, Turns, Processes

\* A press or a release of the pad button makes one request at most, however its
\* reports flicker, and that request moves the card once at most.
LEMMA PadPaidStep ==
  ASSUME KInv, [Next]_vars
  PROVE  PadPaid'
<1> DEFINE A == "pad" \in want
           B == act.kind = "pad"
           C == ~Spent
           Sum == Count(A) + Count(B) + Count(C)
           o == owed["pad"]
           Goal == InLoop' # {} => Sum' <= o'
<1>0. SUFFICES Goal
  BY DEF PadPaid, PendingPad
<1>1. /\ o \in Nat /\ o' \in Nat
      /\ InLoop # {} => Sum <= o
      /\ TypeOK /\ KeyAssumption
  <2>1. owed \in [Kinds -> 0..2 * Presses] /\ owed' \in [Kinds -> 0..2 * Presses]
    BY PressedStep DEF KInv, TypeOK
  <2>2. o \in 0..2 * Presses /\ o' \in 0..2 * Presses
    BY ONLY <2>1 DEF Kinds
  <2>3. InLoop # {} => Sum <= o
    <3>1. PendingPad = Sum
      BY DEF PendingPad
    <3> QED
      BY ONLY KInv, <3>1 DEF KInv, PadPaid
  <2>4. o \in Nat /\ o' \in Nat
    <3> HIDE DEF o
    <3> QED
      BY ONLY <2>2, KeyAssumption DEF KeyAssumption
  <2>5. TypeOK
    BY DEF KInv
  <2> QED
    BY ONLY <2>3, <2>4, <2>5, KeyAssumption
<1>2. Sum \in Int /\ Sum' \in Int
  BY ONLY DEF Count
<1>3. ASSUME InLoop' # {} => InLoop # {}, Sum' <= Sum + (o' - o) PROVE Goal
  <2> SUFFICES ASSUME InLoop' # {} PROVE Sum' <= o'
    OBVIOUS
  <2>1. Sum <= o
    BY <1>1, <1>3
  <2>2. Sum \in Int /\ Sum' \in Int /\ o \in Int /\ o' \in Int
    BY ONLY <1>1, <1>2
  <2>3. Sum' <= Sum + (o' - o)
    BY <1>3
  <2>4. \A s, t, a, b \in Int : s <= a /\ t <= s + (b - a) => t <= b
    BY ONLY SMT
  <2> QED
    BY ONLY <2>1, <2>2, <2>3, <2>4
<1>4. ASSUME InLoop' # {} => InLoop # {}, A' => A, B' => B, C' => C, o' = o PROVE Goal
  <2>1. Sum' <= Sum
    <3> HIDE DEF A, B, C
    <3> QED
      BY ONLY <1>4 DEF Count
  <2> HIDE DEF Sum, o
  <2> QED
    BY ONLY <1>1, <1>2, <1>3, <1>4, <2>1
<1> USE DEF machine, pad, loop, Desk, Stays
<1>5. ASSUME UNCHANGED <<want, act, pad, prevR3, fired, pc>>, o' = o,
             InLoop' # {} => InLoop # {}
      PROVE  Goal
  BY <1>4, <1>5 DEF Spent
<1>6. ASSUME NEW p \in Games, Start(p) \/ Exit(p) PROVE Goal
  BY <1>5, <1>6 DEF Start, Exit, InLoop
<1>7. ASSUME NEW p \in Games, NEW w \in Watchers, Launch(p, w) PROVE Goal
  <2>1. life' = [life EXCEPT ![w] = "new"]
    BY <1>7 DEF Launch
  <2>2. InLoop' # {} => InLoop # {}
    BY <1>1, <2>1 DEF InLoop, TypeOK
  <2> QED
    BY <1>5, <1>7, <2>2 DEF Launch
<1>8. ASSUME NEW w \in Watchers, TurnAway(w) \/ Gone(w) PROVE Goal
  <2>1. life' = [life EXCEPT ![w] = "none"]
    BY <1>8 DEF TurnAway, Gone
  <2>2. InLoop' # {} => InLoop # {}
    BY <1>1, <2>1 DEF InLoop, TypeOK
  <2> QED
    BY <1>5, <1>8, <2>2 DEF TurnAway, Gone
<1>9. ASSUME NEW j \in {"insert", "toggle"}, Key(j) PROVE Goal
  <2>1. o' = o
    BY <1>1, <1>9 DEF Key, Owe, TypeOK, Kinds
  <2> QED
    BY <1>5, <1>9, <2>1 DEF Key, InLoop
<1>10. CASE DemoKey
  <2>1. o' = o
    BY <1>1, <1>10 DEF DemoKey, Owe, TypeOK, Kinds
  <2> QED
    BY <1>5, <1>10, <2>1 DEF DemoKey, InLoop
<1>11. CASE ChangeFront \/ DllMoves \/ UNCHANGED vars
  BY <1>5, <1>11 DEF ChangeFront, DllMoves, vars, InLoop
<1>12. ASSUME NEW r \in Keys, Hook(r) \/ Raw(r) PROVE Goal
  <2>1. r.kind # "pad"
    BY DEF Keys
  <2>2. /\ UNCHANGED <<act, held, bounce, prevR3, fired, pc, owed, life>>
        /\ want' \subseteq want \cup {r.kind}
    BY <1>12 DEF Hook, Raw
  <2>3. InLoop' = InLoop /\ (C' <=> C)
    BY ONLY <2>2 DEF InLoop, Spent
  <2> QED
    BY <1>4, <2>1, <2>2, <2>3
<1>13. CASE Pumped \/ Seen \/ Wake
  <2>1. /\ UNCHANGED <<want, act, held, bounce, prevR3, fired, owed, life>>
        /\ <<pc, pc'>> \in {<<"pump", "pad">>, <<"seen", "sleep">>, <<"sleep", "pump">>}
    BY <1>13 DEF Pumped, Seen, Wake, Go
  <2>2. InLoop' = InLoop /\ (C' => C)
    BY ONLY <2>1 DEF InLoop, Spent
  <2> QED
    BY <1>4, <2>1, <2>2
<1>14. ASSUME NEW w \in Watchers, Leave(w) PROVE Goal
  <2>1. /\ UNCHANGED <<act, held, bounce, prevR3, fired, owed>>
        /\ pc = "seen" /\ pc' = "sleep" /\ want' = {} /\ life[w] = "loop"
    BY <1>14 DEF Leave
  <2>2. InLoop # {} /\ (C' <=> C)
    BY <2>1 DEF InLoop, Spent
  <2> QED
    BY <1>4, <2>1, <2>2
<1>15. ASSUME NEW j \in Kinds, NEW ok, NEW to, Consider(j, ok, to), act = NoAct,
              {pc, pc'} \cap {"pump", "pad"} = {}
       PROVE  Goal
  <2>1. /\ UNCHANGED <<held, bounce, prevR3, fired, owed, life>> /\ want' = want \ {j}
        /\ act'.kind = IF j \in want /\ ok THEN j ELSE "none"
    BY <1>15 DEF Consider, TakeWanted, NoAct
  <2>2. InLoop' = InLoop /\ (C' <=> C)
    BY ONLY <1>15, <2>1 DEF InLoop, Spent
  <2>3. ~B
    BY <1>15 DEF NoAct
  <2>4. CASE j # "pad"
    BY <1>4, <2>1, <2>2, <2>4
  <2>5. CASE j = "pad"
    <3>1. ~A' /\ (B' => A)
      BY <2>1, <2>5
    <3>2. Sum' <= Sum
      <4> HIDE DEF A, B, C
      <4> QED
        BY ONLY <2>2, <2>3, <3>1 DEF Count
    <3>3. o' = o
      BY <2>1
    <3> HIDE DEF Sum, o
    <3> QED
      BY ONLY <1>1, <1>2, <1>3, <2>2, <3>2, <3>3
  <2> QED
    BY <2>4, <2>5
<1>16. CASE Insert \/ Toggle \/ PadToggle
  BY <1>15, <1>16 DEF Insert, Toggle, PadToggle, Go, Kinds
<1>17. CASE Act
  <2>1. /\ UNCHANGED <<want, held, bounce, prevR3, fired, pc, life>> /\ act' = NoAct
        /\ owed' \in {owed, [owed EXCEPT ![act.kind] = owed[act.kind] - 1]}
    BY <1>17 DEF Act
  <2>2. (A' <=> A) /\ (C' <=> C) /\ ~B' /\ InLoop' = InLoop
    BY ONLY <2>1 DEF Spent, InLoop, NoAct
  <2>3. CASE o' = o
    BY ONLY <1>4, <2>2, <2>3
  <2>4. CASE o' # o
    <3>1. B /\ o' = o - 1
      BY <1>1, <2>1, <2>4 DEF TypeOK, Kinds
    <3>2. Sum' = Sum - 1
      <4> HIDE DEF A, B, C
      <4> QED
        BY ONLY <2>2, <3>1 DEF Count
    <3> HIDE DEF Sum, o
    <3> QED
      BY ONLY <1>1, <1>2, <1>3, <2>2, <3>1, <3>2
  <2> QED
    BY ONLY <2>3, <2>4
<1>18. ASSUME NEW w \in Watchers, Enter(w) PROVE Goal
  <2>1. /\ held' = held /\ bounce' = bounce /\ want' = {} /\ act' = NoAct
        /\ owed' = (IF held \/ bounce > 0 THEN [owed EXCEPT !["pad"] = 1] ELSE owed)
    BY <1>18 DEF Enter
  <2>2. ~A' /\ ~B'
    BY ONLY <2>1 DEF NoAct
  <2>3. CASE held \/ bounce > 0
    <3>1. o' = 1
      BY <1>1, <2>1, <2>3 DEF TypeOK, Kinds
    <3>2. Sum' <= 1
      <4> HIDE DEF A, B, C
      <4> QED
        BY ONLY <2>2 DEF Count
    <3> HIDE DEF Sum, o
    <3> QED
      BY ONLY <3>1, <3>2
  <2>4. CASE ~(held \/ bounce > 0)
    <3>1. ~C'
      BY <1>1, <2>1, <2>4 DEF Spent, TypeOK
    <3>2. Sum' = 0
      <4> HIDE DEF A, B, C
      <4> QED
        BY ONLY <2>2, <3>1 DEF Count
    <3> HIDE DEF Sum, o
    <3> QED
      BY ONLY <1>1, <3>2
  <2> QED
    BY ONLY <2>3, <2>4
<1>19. CASE Button
  <2>1. /\ UNCHANGED <<want, act, prevR3, fired, pc, life>> /\ held' = ~held
    BY <1>19 DEF Button
  <2>2. (A' <=> A) /\ (B' <=> B) /\ InLoop' = InLoop
    BY ONLY <2>1 DEF InLoop
  <2>5. CASE held /\ fired = 0
    <3>1. o' = o /\ ~held' /\ bounce' = Debounce
      BY <1>19, <2>5 DEF Button
    <3>2. ~C'
      BY <1>1, <2>1, <2>5, <3>1 DEF Spent, KeyAssumption
    <3>3. Sum' <= Sum
      <4> HIDE DEF A, B, C
      <4> QED
        BY ONLY <2>2, <3>2 DEF Count
    <3> HIDE DEF Sum, o
    <3> QED
      BY ONLY <1>1, <1>2, <1>3, <2>2, <3>1, <3>3
  <2>6. SUFFICES ASSUME ~(held /\ fired = 0) PROVE Goal
    BY <2>5
  <2>3. o' = o + 1
    BY <1>1, <1>19, <2>6 DEF Button, Owe, TypeOK, Kinds
  <2>4. Sum' <= Sum + 1
    <3> HIDE DEF A, B, C
    <3> QED
      BY ONLY <2>2 DEF Count
  <2> HIDE DEF Sum, o
  <2> QED
    BY ONLY <1>1, <1>2, <1>3, <2>2, <2>3, <2>4
<1>20. CASE Tick
  <2>1. /\ UNCHANGED <<want, act, prevR3, held, owed, life>> /\ pc = "sleep"
        /\ pc' = (IF InLoop # {} THEN "pump" ELSE "sleep")
        /\ fired' = (IF fired > Debounce THEN fired ELSE fired + 1)
        /\ bounce' = (IF bounce > 0 THEN bounce - 1 ELSE 0)
    BY <1>20 DEF Tick
  <2>2. InLoop' = InLoop
    BY ONLY <2>1 DEF InLoop
  <2>3. CASE InLoop # {}
    <3>1. /\ bounce \in Nat /\ fired \in Nat /\ bounce <= Debounce /\ Debounce \in Nat
          /\ held' = held /\ prevR3' = prevR3 /\ pc = "sleep" /\ pc' = "pump"
      BY <1>1, <2>1, <2>3 DEF TypeOK
    <3>2. C' => C
      <4>1. CASE ~held /\ bounce = 0
        BY ONLY <2>1, <3>1, <4>1 DEF Spent
      <4>2. CASE bounce > 0 /\ fired + bounce <= Debounce
        <5>1. fired' = fired + 1 /\ bounce' = bounce - 1
          BY ONLY <2>1, <3>1, <4>2
        <5> QED
          BY ONLY <3>1, <4>2, <5>1 DEF Spent
      <4>3. CASE bounce = 0 /\ prevR3
        BY ONLY <2>1, <3>1, <4>3 DEF Spent
      <4> QED
        BY ONLY <3>1, <4>1, <4>2, <4>3 DEF Spent
    <3> QED
      BY <1>4, <2>1, <2>2, <3>2
  <2> QED
    BY <2>2, <2>3
<1>21. CASE Pad
  <2>1. PICK r3 \in IF bounce > 0 THEN BOOLEAN ELSE {held} :
          /\ prevR3' = r3
          /\ IF r3 /\ ~prevR3 /\ Quiet(fired)
             THEN fired' = 0 /\ want' = want \cup {"pad"}
             ELSE UNCHANGED <<fired, want>>
          /\ pc = "pad" /\ pc' = "insert" /\ InLoop # {}
          /\ UNCHANGED <<act, held, bounce, owed, life>>
    BY <1>21 DEF Pad, Go
  <2>2. InLoop' = InLoop /\ (B' <=> B) /\ o' = o
    BY ONLY <2>1 DEF InLoop
  <2>3. bounce \in Nat /\ fired \in Nat /\ bounce <= Debounce /\ Debounce \in Nat
    BY <1>1 DEF TypeOK
  <2>4. CASE r3 /\ ~prevR3 /\ Quiet(fired)
    <3>1. fired' = 0 /\ want' = want \cup {"pad"}
      BY ONLY <2>1, <2>4
    <3>2. C
      <4>1. fired > Debounce /\ ~prevR3
        BY ONLY <2>4 DEF Quiet
      <4>2. ~(fired <= Debounce) /\ ~(bounce > 0 /\ fired + bounce <= Debounce)
        BY ONLY <2>3, <4>1
      <4>3. CASE bounce > 0
        BY ONLY <2>3, <4>1, <4>2, <4>3 DEF Spent
      <4>4. CASE ~(bounce > 0)
        <5>1. held
          BY ONLY <2>1, <2>4, <4>4
        <5> QED
          BY ONLY <4>1, <4>2, <4>4, <5>1 DEF Spent
      <4> QED
        BY ONLY <4>3, <4>4
    <3>3. ~C'
      BY ONLY <2>1, <2>3, <2>4, <3>1 DEF Spent
    <3>4. Sum' <= Sum
      <4> HIDE DEF A, B, C
      <4> QED
        BY ONLY <2>2, <3>2, <3>3 DEF Count
    <3> HIDE DEF Sum, o
    <3> QED
      BY ONLY <1>1, <1>2, <1>3, <2>2, <3>4
  <2>5. CASE ~(r3 /\ ~prevR3 /\ Quiet(fired))
    <3>1. fired' = fired /\ want' = want
      BY ONLY <2>1, <2>5
    <3>2. C' => C
      BY ONLY <2>1, <2>3, <2>5, <3>1 DEF Spent, Quiet
    <3> QED
      BY <1>4, <2>2, <3>1, <3>2
  <2> QED
    BY ONLY <2>4, <2>5
<1> QED
  BY <1>6, <1>7, <1>8, <1>9, <1>10, <1>11, <1>12, <1>13, <1>14, <1>16, <1>17, <1>18, <1>19,
     <1>20, <1>21 DEF Next, Turns, Processes

-----------------------------------------------------------------------------
\* The invariant holds throughout.
LEMMA KInvHolds == Spec => []KInv
<1>1. KInv /\ [Next]_vars => KInv'
  BY KeyTypesStep, KeysPaidStep, PadPaidStep, PressedStep DEF KInv
<1> QED
  BY <1>1, KeyTypesInit, PTL DEF Spec

\* The state has its type in every reachable state: nothing is answered that is
\* not owed.
THEOREM TypeCorrect == Spec => []TypeOK
<1>1. KInv => TypeOK
  BY DEF KInv
<1> QED
  BY <1>1, KInvHolds, PTL

\* Every move of the watcher answers a key-down message, or a press or a release
\* of the pad button, of its own: none the demo's keys where raw input works, none
\* the same message once in the hook and once as raw input, none one bounce of the
\* contact twice (Proc, RawProc and the debounce of GvrCardKey.cpp).
THEOREM MovesAnswerPresses == Spec => MovesAreOwed
<1>1. KInv /\ [Next]_vars
        => [\A k \in Kinds : act # NoAct /\ act' = NoAct /\ act.kind = k /\ slot' # slot
              => owed[k] > 0]_vars
  <2> SUFFICES ASSUME KInv, Next, act # NoAct, act' = NoAct, slot' # slot
               PROVE  owed[act.kind] > 0
    OBVIOUS
  <2> USE DEF machine, pad, loop, Desk, Stays
  <2>1. ASSUME NEW p \in Games, Start(p) \/ Exit(p) PROVE FALSE
    BY <2>1 DEF Start, Exit
  <2>2. ASSUME NEW p \in Games, NEW w \in Watchers, Launch(p, w) PROVE FALSE
    BY <2>2 DEF Launch
  <2>3. ASSUME NEW w \in Watchers, Enter(w) \/ TurnAway(w) \/ Gone(w) \/ Leave(w) PROVE FALSE
    BY <2>3 DEF Enter, TurnAway, Gone, Leave
  <2>4. ASSUME NEW k \in {"insert", "toggle"}, Key(k) PROVE FALSE
    BY <2>4 DEF Key
  <2>5. ASSUME NEW r \in Keys, Hook(r) \/ Raw(r) PROVE FALSE
    BY <2>5 DEF Hook, Raw
  <2>6. ~(DemoKey \/ Button \/ ChangeFront \/ DllMoves)
    BY DEF DemoKey, Button, ChangeFront, DllMoves
  <2>7. ~(Pumped \/ Pad \/ Insert \/ Toggle \/ PadToggle \/ Seen \/ Wake \/ Tick)
    BY DEF Pumped, Pad, Insert, Toggle, PadToggle, Consider, Seen, Wake, Tick
  <2>8. Act
    BY <2>1, <2>2, <2>3, <2>4, <2>5, <2>6, <2>7 DEF Next, Turns, Processes
  <2> QED
    BY <2>8, ActIsPaid DEF Act
<1> QED
  BY <1>1, KInvHolds, PTL DEF Spec, MovesAreOwed

-----------------------------------------------------------------------------
(* A program that has launched a watcher has one.                          *)

\* Some watcher is in its loop or on its way there, and none is past it.
Served ==
  /\ \E w \in Watchers : life[w] \in {"new", "loop"}
  /\ \A w \in Watchers : life[w] # "leaving"

LEMMA ServedStep ==
  ASSUME QuickExit, TypeOK, started # {} => Served, [Next]_vars
  PROVE  (started # {} => Served)'
<1> SUFFICES ASSUME started' # {} PROVE Served'
  OBVIOUS
<1> USE DEF Lives
<1>1. started \subseteq running /\ life \in [Watchers -> Lives]
  BY DEF TypeOK
<1>2. ASSUME UNCHANGED life, started' \subseteq started PROVE Served'
  BY <1>2 DEF Served
<1>3. ASSUME NEW p \in Games, NEW w \in Watchers, Launch(p, w) PROVE Served'
  <2>1. life' = [life EXCEPT ![w] = "new"] /\ \A v \in Watchers : life[v] # "leaving"
    BY <1>3 DEF Launch
  <2> QED
    BY <1>1, <2>1 DEF Served
<1>4. ASSUME NEW w \in Watchers, Enter(w) PROVE Served'
  <2>1. life' = [life EXCEPT ![w] = "loop"] /\ started' = started
    BY <1>4 DEF Enter
  <2> QED
    BY <1>1, <2>1 DEF Served
\* The watcher that turned it away is in its loop, not past it.
<1>5. ASSUME NEW w \in Watchers, TurnAway(w) PROVE Served'
  <2>1. life' = [life EXCEPT ![w] = "none"] /\ started' = started
    BY <1>5 DEF TurnAway
  <2>2. PICK v \in Watchers \ {w} : life[v] \in {"loop", "leaving"}
    BY <1>5 DEF TurnAway, MutexExists
  <2>3. life'[v] = "loop"
    BY <1>1, <2>1, <2>2 DEF Served
  <2> QED
    BY <1>1, <2>1, <2>3 DEF Served
<1>6. ASSUME NEW w \in Watchers, Gone(w) PROVE FALSE
  BY <1>6 DEF Gone, Served
<1>7. ASSUME NEW w \in Watchers, Leave(w) PROVE FALSE
  BY <1>1, <1>7 DEF Leave, GameRunning
<1>8. ASSUME NEW p \in Games, Start(p) \/ Exit(p) PROVE Served'
  BY <1>2, <1>8 DEF Start, Exit
<1>9. CASE (\E k \in {"insert", "toggle"} : Key(k)) \/ DemoKey \/ Button \/ ChangeFront \/ DllMoves
  BY <1>2, <1>9 DEF Key, DemoKey, Button, ChangeFront, DllMoves
<1>10. ASSUME NEW r \in Keys, Hook(r) \/ Raw(r) PROVE Served'
  BY <1>2, <1>10 DEF Hook, Raw, Stays, Desk
<1>11. CASE Pumped \/ Pad \/ Insert \/ Toggle \/ PadToggle \/ Act \/ Seen \/ Wake \/ Tick
  BY <1>2, <1>11 DEF Pumped, Pad, Insert, Toggle, PadToggle, Consider, Act, Seen, Wake, Tick,
     Stays, Desk
<1>12. CASE UNCHANGED vars
  BY <1>2, <1>12 DEF vars
<1> QED
  BY <1>3, <1>4, <1>5, <1>6, <1>7, <1>8, <1>9, <1>10, <1>11, <1>12 DEF Next, Turns, Processes

\* From the time a program has launched one, a watcher is in its loop or on
\* its way there for as long as that program runs: the one it finds in its way
\* stays (StartKeyWatcher, and the mutex and GameRunning in WinMain).  It is
\* what GameHasWatcher rests on, and what a watcher that is slow to go breaks.
THEOREM WatcherIsThere ==
  ASSUME QuickExit
  PROVE  Spec => [](started # {} => Served)
<1>1. Init => (started # {} => Served)
  BY DEF Init
<1>2. TypeOK /\ (started # {} => Served) /\ [Next]_vars => (started # {} => Served)'
  BY ServedStep
<1> QED
  BY <1>1, <1>2, TypeCorrect, PTL DEF Spec

-----------------------------------------------------------------------------
(* The watcher's half of what SlotUsers says, and the programs'.           *)

LEMMA HandTells ==
  /\ Hand = "down" <=> ~\E w \in Watchers : life[w] \notin {"none", "new"}
  /\ Hand # "down" /\ act = NoAct => Hand = "idle"
  /\ Hand # "down" /\ act # NoAct => Hand = IF act.in THEN "set" ELSE "reset"
BY DEF Hand

\* A turn of the loop, between the look at the slot and the move.
LEMMA ConsiderDecides ==
  ASSUME TypeOK, InLoop # {}, act = NoAct, NEW k \in Kinds, NEW allowed, NEW to,
         Consider(k, allowed, to), k \in want /\ allowed => to = ~slot
  PROVE  Users!Decide \/ UNCHANGED <<slot, running, Hand>>
<1>1. UNCHANGED <<slot, running, life>>
  BY DEF Consider, Stays, Desk
<1>2. Hand # "down" /\ Hand = "idle" /\ Hand' # "down"
  BY <1>1, HandTells DEF InLoop, Hand
<1>3. CASE k \in want /\ allowed
  <2>1. act' = [kind |-> k, in |-> ~slot]
    BY <1>3 DEF Consider
  <2>2. act' # NoAct /\ act'.in = ~slot
    BY <2>1, Zenon DEF NoAct, Kinds
  <2>3. Hand' = IF slot THEN "reset" ELSE "set"
    BY <1>2, <2>2 DEF Hand
  <2>4. QED
    BY <1>1, <1>2, <2>3 DEF Users!Decide
<1>4. CASE ~(k \in want /\ allowed)
  <2>1. act' = NoAct
    BY <1>4 DEF Consider
  <2>2. Hand' = "idle"
    BY <1>2, <2>1 DEF Hand
  <2>3. QED
    BY <1>1, <1>2, <2>2
<1>5. QED
  BY <1>3, <1>4

LEMMA UsersStep ==
  ASSUME TypeOK, Single, [Next]_vars
  PROVE  [Users!Next]_(Users!vars)
<1> USE DEF Users!vars, Users!Next
<1>1. ASSUME UNCHANGED <<slot, running, life, act>>
      PROVE  UNCHANGED Users!vars
  BY <1>1 DEF Hand
<1>2. ASSUME NEW p \in Games, Start(p)
      PROVE  Users!ProgramStep
  <2>1. UNCHANGED <<slot, Hand>>
    BY <1>2 DEF Start, Hand, loop
  <2>2. QED
    BY <1>2, <2>1 DEF Start, Users!ProgramStep, Users!Start
<1>3. ASSUME NEW p \in Games, Exit(p)
      PROVE  Users!ProgramStep
  <2>1. Hand' = Hand /\ p \in running /\ running' = running \ {p}
    BY <1>3 DEF Exit, Hand, loop
  <2>2. slot' = (slot /\ (running' # {} \/ Hand # "down"))
    <3>1. (Hand # "down") = \E w \in Watchers : life[w] \in {"loop", "leaving"}
      BY HandTells DEF Single, Lives
    <3>2. QED
      BY <1>3, <3>1, Zenon DEF Exit, EventHeld
  <2>3. Users!Exit(p)
    BY <2>1, <2>2, Zenon DEF Users!Exit
  <2>4. QED
    BY <2>3 DEF Users!ProgramStep
<1>4. ASSUME NEW w \in Watchers, TurnAway(w) \/ Leave(w) \/ \E p \in Games : Launch(p, w)
      PROVE  UNCHANGED Users!vars
  <2>1. UNCHANGED <<slot, running, act>>
    BY <1>4 DEF Launch, TurnAway, Leave, loop
  <2>2. (\A v \in Watchers : life'[v] \in {"none", "new"})
          <=> (\A v \in Watchers : life[v] \in {"none", "new"})
    BY <1>4 DEF Launch, TurnAway, Leave, Single
  <2>3. QED
    BY <2>1, <2>2 DEF Hand
<1>5. ASSUME NEW w \in Watchers, Enter(w)
      PROVE  Users!WatcherStep
  <2>1. \A v \in Watchers : life[v] \in {"none", "new"}
    BY <1>5 DEF Enter, MutexExists, Single, Lives
  <2>2. Hand = "down" /\ life'[w] = "loop" /\ act' = NoAct /\ UNCHANGED <<slot, running>>
    BY <1>5, <2>1 DEF Enter, Hand, Single
  <2>3. Hand' = "idle"
    BY <2>2 DEF Hand
  <2>4. QED
    BY <2>2, <2>3 DEF Users!WatcherStep, Users!Come
<1>6. ASSUME NEW w \in Watchers, Gone(w)
      PROVE  Users!WatcherStep
  <2>1. /\ life[w] = "leaving" /\ life' = [life EXCEPT ![w] = "none"] /\ running' = running
        /\ slot' = (slot /\ EventHeld(running, life'))
    BY <1>6 DEF Gone
  <2>2. \A v \in Watchers : life'[v] \in {"none", "new"}
    BY <2>1 DEF Single, OneWatcher, Lives
  <2>3. Hand # "down" /\ Hand' = "down"
    BY <2>1, <2>2, HandTells DEF Hand
  <2>4. slot' = (slot /\ running # {})
    BY <2>1, <2>2, Zenon DEF EventHeld
  <2>5. QED
    BY <2>1, <2>3, <2>4, Zenon DEF Users!WatcherStep, Users!Go
<1>7. ASSUME NEW k \in {"insert", "toggle"}, Key(k)
      PROVE  UNCHANGED Users!vars
  BY <1>1, <1>7 DEF Key, loop
<1>8. CASE DemoKey \/ Button \/ ChangeFront
  BY <1>1, <1>8 DEF DemoKey, Button, ChangeFront, loop
<1>9. CASE DllMoves
  <2>1. UNCHANGED <<running, Hand>>
    BY <1>9 DEF DllMoves, Hand, loop
  <2>2. QED
    BY <1>9, <2>1, Zenon DEF DllMoves, Users!ProgramStep, Users!Flip
<1>10. ASSUME NEW r \in Keys, Hook(r) \/ Raw(r)
       PROVE  UNCHANGED Users!vars
  BY <1>1, <1>10 DEF Hook, Raw, Stays, Desk
<1>11. CASE Pumped \/ Pad \/ Seen \/ Wake \/ Tick
  BY <1>1, <1>11 DEF Pumped, Pad, Seen, Wake, Tick, Stays, Desk
<1>12. CASE Insert
  BY <1>12, ConsiderDecides DEF Insert, Go, Kinds, Users!WatcherStep
<1>13. CASE Toggle
  BY <1>13, ConsiderDecides DEF Toggle, Go, Kinds, Users!WatcherStep
<1>14. CASE PadToggle
  BY <1>14, ConsiderDecides DEF PadToggle, Go, Kinds, Users!WatcherStep
<1>15. CASE Act
  <2>1. /\ InLoop # {} /\ act # NoAct /\ act' = NoAct /\ slot' = act.in
        /\ UNCHANGED <<running, life>>
    BY <1>15 DEF Act, Stays, Desk
  <2>2. Hand = (IF act.in THEN "set" ELSE "reset") /\ Hand' = "idle"
    BY <2>1 DEF Hand, InLoop
  <2>3. act.in \in BOOLEAN
    BY <2>1 DEF TypeOK
  <2>4. Hand \in {"set", "reset"} /\ (Hand = "set" <=> act.in)
    BY <2>2
  <2>5. slot' = (Hand = "set")
    <3>1. CASE act.in = TRUE
      BY <2>1, <2>4, <3>1
    <3>2. CASE act.in = FALSE
      BY <2>1, <2>4, <3>2
    <3>3. QED
      BY <2>3, <3>1, <3>2
  <2>6. QED
    BY <2>1, <2>2, <2>4, <2>5, Zenon DEF Users!WatcherStep, Users!Move
<1>16. CASE UNCHANGED vars
  BY <1>1, <1>16 DEF vars, loop
<1> HIDE DEF Users!vars
<1>17. CASE Turns \/ Wake \/ Tick
  BY <1>4, <1>10, <1>11, <1>12, <1>13, <1>14, <1>15, <1>17 DEF Turns
<1>18. CASE Processes
  BY <1>4, <1>5, <1>6, <1>18 DEF Processes
<1>19. CASE \E p \in Games : Start(p) \/ Exit(p) \/ \E w \in Watchers : Launch(p, w)
  BY <1>2, <1>3, <1>4, <1>19
<1>20. CASE (\E k \in {"insert", "toggle"} : Key(k)) \/ DemoKey \/ Button \/ ChangeFront
            \/ DllMoves
  BY <1>7, <1>8, <1>9, <1>20
<1>21. QED
  BY <1>16, <1>17, <1>18, <1>19, <1>20 DEF Next

\* The watcher touches the event only as SlotUsers has it, with whatever keys
\* and pads, and however its processes come and go: with CardSlotProofs'
\* WatcherIsFree, what is proved about CardSlot with an impatient player holds
\* with this watcher beside it.
THEOREM WatcherSharesSlot == Spec => SharesSlot
<1>1. Init => Users!Init /\ Single
  BY DEF Init, Users!Init, Hand, Single, OneWatcher, Lives
<1>2. TypeOK /\ Single /\ [Next]_vars => [Users!Next]_(Users!vars)
  BY UsersStep
<1>3. QED
  BY <1>1, <1>2, SingleStep, TypeCorrect, PTL DEF Spec, SharesSlot, Users!Spec

\* The card is out once the last program and the last watcher are gone, however
\* they go: the event goes with its last handle (the safety half of WatcherEnds).
THEOREM CardGoesWithTheLast == Spec => [](running = {} /\ Hand = "down" => ~slot)
<1>1. Users!Init => (running = {} /\ Hand = "down" => ~slot)
  BY DEF Users!Init
<1>2. /\ running = {} /\ Hand = "down" => ~slot
      /\ [Users!Next]_(Users!vars)
      => (running = {} /\ Hand = "down" => ~slot)'
  <2> SUFFICES ASSUME running = {} /\ Hand = "down" => ~slot,
                      [Users!Next]_(Users!vars), running' = {}, Hand' = "down"
               PROVE  ~slot'
    OBVIOUS
  <2>1. ASSUME NEW p \in Games, Users!Start(p) \/ Users!Exit(p) PROVE ~slot'
    BY <2>1 DEF Users!Start, Users!Exit
  <2>2. CASE Users!Flip
    BY <2>2 DEF Users!Flip
  <2>3. CASE Users!Come \/ Users!Decide \/ Users!Move
    BY <2>3 DEF Users!Come, Users!Decide, Users!Move
  <2>4. CASE Users!Go
    BY <2>4 DEF Users!Go
  <2>5. CASE UNCHANGED Users!vars
    BY <2>5 DEF Users!vars
  <2> QED
    BY <2>1, <2>2, <2>3, <2>4, <2>5 DEF Users!Next, Users!ProgramStep, Users!WatcherStep
<1> QED
  BY <1>1, <1>2, WatcherSharesSlot, PTL DEF SharesSlot, Users!Spec

\* ... and in turn, whatever SlotUsers lets the programs do is a step of
\* CardKey: it holds with any card DLLs that keep to SlotUsers.
THEOREM ProgramsAreFree ==
  ASSUME TypeOK, Users!ProgramStep, UNCHANGED <<front, life, keys, pad, owed, machine, loop>>,
         started' = started \cap running'
  PROVE  DllMoves \/ \E p \in Games : Start(p) \/ Exit(p)
<1>1. started \subseteq running /\ running \subseteq Games
  BY DEF TypeOK
<1>2. CASE Users!Flip
  <2>1. running' = running /\ running # {} /\ slot' = ~slot
    BY <1>2 DEF Users!Flip
  <2>2. started' = started
    BY <1>1, <2>1
  <2>3. QED
    BY <2>1, <2>2 DEF DllMoves
<1>3. ASSUME NEW p \in Games, Users!Start(p)
      PROVE  Start(p)
  <2>1. p \notin running /\ running' = running \cup {p} /\ slot' = slot
    BY <1>3 DEF Users!Start
  <2>2. started' = started
    BY <1>1, <2>1
  <2>3. QED
    BY <2>1, <2>2 DEF Start
<1>4. ASSUME NEW p \in Games, Users!Exit(p)
      PROVE  Exit(p)
  <2>1. p \in running /\ running' = running \ {p}
        /\ slot' = (slot /\ (running' # {} \/ Hand # "down"))
    BY <1>4 DEF Users!Exit
  <2>2. (Hand # "down") = \E w \in Watchers : life[w] \in {"loop", "leaving"}
    BY HandTells DEF TypeOK
  <2>3. slot' = (slot /\ EventHeld(running', life))
    BY <2>1, <2>2, Zenon DEF EventHeld
  <2>4. started' = started \ {p}
    BY <1>1, <2>1
  <2>5. QED
    BY <2>1, <2>3, <2>4 DEF Exit
<1>5. QED
  BY <1>2, <1>3, <1>4 DEF Users!ProgramStep
=============================================================================
