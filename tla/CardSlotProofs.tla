--------------------------- MODULE CardSlotProofs ---------------------------
(***************************************************************************)
(* Proofs about CardSlot, for every set of programs and every setting of   *)
(* the timers.  The safety of the idle rules rests on one induction:       *)
(* under a patient player and without timed re-insert, whatever a running  *)
(* program remembers about a card it believes to be in happened during the *)
(* present stay of the card (TimersHonest).  The three other conjuncts of  *)
(* the inductive invariant say what the timers are when a program is down, *)
(* when the re-insert is off, and when the slot is empty.                  *)
(***************************************************************************)
EXTENDS CardSlot, TLAPS

\* A program that is down has the statics its DLL starts with.
DownClean ==
  \A p \in Procs \ up :
    /\ pc[p] = "ready" /\ inserted[p] = StartIn /\ ~armed[p]
    /\ lastIo[p] = Never /\ insertedAt[p] = Never /\ reinsertIn[p] = Never

NoReinsert == \A p \in Procs : reinsertIn[p] = Never /\ pc[p] # "insert"

OutClean == ~slot => dwell = 0 /\ ~wrote

Honest == DownClean /\ NoReinsert /\ OutClean /\ TimersHonest /\ VerdictsHold

-----------------------------------------------------------------------------
\* Ages stay ages, never shrink as time passes, and keep their order.
LEMMA OlderAge ==
  ASSUME NEW a \in Ages
  PROVE  /\ Older(a) \in Ages
         /\ Older(a) >= a
         /\ a >= 0 => Older(a) \in 0 .. Cap
         /\ \A b \in Ages : a <= b => Older(a) <= Older(b)
BY SlotAssumption DEF Ages, Older, Never

\* A re-insert timer stays within its range (g_reinsertAt).
LEMMA SoonerWait ==
  ASSUME NEW n \in Nat, NEW w \in Never .. n
  PROVE  Sooner(w) \in Never .. n /\ (w = Never => Sooner(w) = Never)
BY DEF Sooner, Never

\* Pulling the card leaves the slot and its history typed.
LEMMA PullOutTyped ==
  ASSUME PullOut
  PROVE  slot' \in BOOLEAN /\ dwell' \in 0 .. Cap /\ wrote' \in BOOLEAN
<1>1. slot' \in BOOLEAN /\ wrote' \in BOOLEAN
  BY DEF PullOut
<1>2. dwell' \in 0 .. Cap
  BY SlotAssumption DEF PullOut
<1>3. QED
  BY <1>1, <1>2

-----------------------------------------------------------------------------
\* Every variable keeps its type (all of GvrCardEmu.cpp's slot state).
THEOREM TypeCorrect == Spec => []TypeOK
<1>1. Init => TypeOK
  <2> SUFFICES ASSUME Init PROVE TypeOK
    OBVIOUS
  <2>1. slot \in BOOLEAN /\ wrote \in BOOLEAN
    BY DEF Init
  <2>2. inserted \in [Procs -> BOOLEAN] /\ armed \in [Procs -> BOOLEAN]
    BY SlotAssumption DEF Init
  <2>3. dwell \in 0 .. Cap
    BY SlotAssumption DEF Init
  <2>4. /\ lastIo \in [Procs -> Ages] /\ insertedAt \in [Procs -> Ages]
        /\ reinsertIn \in [Procs -> Never .. Reinsert]
    BY SlotAssumption DEF Init, Ages, Never
  <2>5. QED
    BY <2>1, <2>2, <2>3, <2>4 DEF Init, TypeOK
<1>2. TypeOK /\ [Next]_vars => TypeOK'
  <2> SUFFICES ASSUME TypeOK, [Next]_vars PROVE TypeOK'
    OBVIOUS
  <2> USE SlotAssumption DEF TypeOK, Ages, Never, Ejecting
  <2>1. ASSUME NEW p \in Procs, Start(p) PROVE TypeOK'
    BY <2>1 DEF Start, timers, history
  <2>2. ASSUME NEW p \in Procs, Exit(p) PROVE TypeOK'
    <3>1. slot' \in BOOLEAN /\ dwell' \in 0 .. Cap /\ wrote' \in BOOLEAN
      BY <2>2, PullOutTyped DEF Exit, history
    <3>2. inserted' \in [Procs -> BOOLEAN] /\ armed' \in [Procs -> BOOLEAN]
      BY <2>2 DEF Exit
    <3>3. QED
      BY <2>2, <3>1, <3>2 DEF Exit
  <2>3. ASSUME NEW p \in Procs, NEW c \in {"GetStatus", "Connect"}, Poll(p, c)
        PROVE  TypeOK'
    <3>1. inserted' \in [Procs -> BOOLEAN] /\ armed' \in [Procs -> BOOLEAN]
      BY <2>3 DEF Poll, Notice
    <3>2. lastIo' \in [Procs -> Ages] /\ insertedAt' \in [Procs -> Ages]
      BY <2>3 DEF Poll, Notice
    <3>3. Verdict(p) \in {"ready", "insert", "return"} \cup Ejecting
      BY DEF Verdict
    <3>4. pc' \in [Procs -> {"ready", "insert", "return"} \cup Ejecting]
      BY <2>3, <3>3 DEF Poll
    <3>5. call' \in [Procs -> {"GetStatus", "Connect"}]
      BY <2>3 DEF Poll
    <3>6. QED
      BY <2>3, <3>1, <3>2, <3>4, <3>5 DEF Poll, history
  <2>4. ASSUME NEW p \in Procs, DoInsert(p) PROVE TypeOK'
    BY <2>4 DEF DoInsert, PutIn
  <2>5. ASSUME NEW p \in Procs, DoEject(p) PROVE TypeOK'
    <3>1. inserted' \in [Procs -> BOOLEAN] /\ armed' \in [Procs -> BOOLEAN]
      BY <2>5 DEF DoEject
    <3>2. QED
      BY <2>5, <3>1, PullOutTyped DEF DoEject
  <2>6. ASSUME NEW p \in Procs, Answer(p) PROVE TypeOK'
    BY <2>6 DEF Answer, history
  <2>7. ASSUME NEW p \in Procs, ReadCard(p) PROVE TypeOK'
    BY <2>7 DEF ReadCard, history
  <2>8. ASSUME NEW p \in Procs, WriteCard(p) PROVE TypeOK'
    BY <2>8 DEF WriteCard
  <2>9. CASE LaunchWatcher
    BY <2>9 DEF LaunchWatcher, timers, history
  <2>10. CASE Press
    BY <2>10 DEF Press, timers, history
  <2>11. CASE Move
    <3>1. CASE watcher = "set"
      BY <2>11, <3>1 DEF Move, PutIn, timers
    <3>2. CASE watcher # "set"
      BY <2>11, <3>2, PullOutTyped DEF Move, timers
    <3>3. QED
      BY <3>1, <3>2
  <2>12. CASE WatcherExit
    BY <2>12, PullOutTyped DEF WatcherExit, timers, history
  <2>13. CASE Tick
    <3>1. lastIo' \in [Procs -> Ages] /\ insertedAt' \in [Procs -> Ages]
      BY <2>13, OlderAge DEF Tick
    <3>2. reinsertIn' \in [Procs -> Never .. Reinsert]
      BY <2>13, SoonerWait DEF Tick
    <3>3. dwell' \in 0 .. Cap
      BY <2>13, OlderAge DEF Tick
    <3>4. QED
      BY <2>13, <3>1, <3>2, <3>3 DEF Tick
  <2>14. CASE UNCHANGED vars
    BY <2>14 DEF vars, timers, history
  <2>15. QED
    BY <2>1, <2>2, <2>3, <2>4, <2>5, <2>6, <2>7, <2>8, <2>9, <2>10, <2>11,
       <2>12, <2>13, <2>14 DEF Next, Evaluate
<1>3. QED
  BY <1>1, <1>2, PTL DEF Spec

-----------------------------------------------------------------------------
\* With the re-insert off no program ever holds a re-insert timer, nor puts
\* the card in (g_reinsertMs = 0 in DoEject).
LEMMA NoReinsertStep ==
  ASSUME Reinsert = 0, TypeOK, NoReinsert, [Next]_vars
  PROVE  NoReinsert'
<1> USE DEF NoReinsert, TypeOK, Never
<1>1. ASSUME NEW p \in Procs, Start(p) PROVE NoReinsert'
  BY <1>1 DEF Start, timers
<1>2. ASSUME NEW p \in Procs, Exit(p) PROVE NoReinsert'
  BY <1>2 DEF Exit
<1>3. ASSUME NEW p \in Procs, NEW c \in {"GetStatus", "Connect"}, Poll(p, c)
      PROVE  NoReinsert'
  <2>1. Verdict(p) # "insert"
    BY DEF Verdict, ReinsertDue
  <2>2. QED
    BY <1>3, <2>1 DEF Poll
<1>4. ASSUME NEW p \in Procs, DoInsert(p) PROVE NoReinsert'
  BY <1>4 DEF DoInsert
<1>5. ASSUME NEW p \in Procs, DoEject(p) PROVE NoReinsert'
  BY <1>5 DEF DoEject
<1>6. ASSUME NEW p \in Procs, Answer(p) \/ ReadCard(p) \/ WriteCard(p)
      PROVE  NoReinsert'
  BY <1>6 DEF Answer, ReadCard, WriteCard
<1>7. CASE LaunchWatcher \/ Press \/ Move \/ WatcherExit
  BY <1>7 DEF LaunchWatcher, Press, Move, WatcherExit, timers
<1>8. CASE Tick
  BY <1>8, SoonerWait DEF Tick, Sooner
<1>9. CASE UNCHANGED vars
  BY <1>9 DEF vars, timers
<1>10. QED
  BY <1>1, <1>2, <1>3, <1>4, <1>5, <1>6, <1>7, <1>8, <1>9 DEF Next, Evaluate

\* With the timed re-insert off, only the player's hand puts the card in.
THEOREM CardStaysOut ==
  ASSUME Reinsert = 0
  PROVE  Spec => StaysOut
<1>1. Init => NoReinsert
  BY DEF Init, NoReinsert, Never
<1>2. TypeOK /\ NoReinsert /\ [Next]_vars => NoReinsert'
  BY NoReinsertStep
<1>3. TypeOK /\ NoReinsert /\ [Next]_vars
        => [~slot /\ slot' => watcher = "set"]_vars
  <2> SUFFICES ASSUME TypeOK, NoReinsert, Next, ~slot, slot'
               PROVE  watcher = "set"
    OBVIOUS
  <2>1. ASSUME NEW p \in Procs, DoInsert(p) PROVE FALSE
    BY <2>1 DEF DoInsert, NoReinsert
  <2>2. ASSUME NEW p \in Procs, Exit(p) \/ DoEject(p) PROVE FALSE
    BY <2>2 DEF Exit, DoEject, PullOut
  <2>3. ASSUME NEW p \in Procs, NEW c \in {"GetStatus", "Connect"},
               Start(p) \/ Poll(p, c) \/ Answer(p) \/ ReadCard(p) \/ WriteCard(p)
        PROVE  FALSE
    BY <2>3 DEF Start, Poll, Answer, ReadCard, WriteCard
  <2>4. CASE Move
    BY <2>4 DEF Move, PullOut
  <2>5. CASE LaunchWatcher \/ Press \/ WatcherExit \/ Tick
    BY <2>5 DEF LaunchWatcher, Press, WatcherExit, Tick, PullOut
  <2>6. QED
    BY <2>1, <2>2, <2>3, <2>4, <2>5 DEF Next, Evaluate
<1>4. QED
  BY <1>1, <1>2, <1>3, TypeCorrect, PTL DEF Spec, StaysOut

-----------------------------------------------------------------------------
\* Honest is inductive for a patient player: each action in turn.
LEMMA HonestStep ==
  ASSUME PatientPlayer, Reinsert = 0, TypeOK, Honest, [Next]_vars
  PROVE  Honest'
<1> USE SlotAssumption
    DEF Honest, TypeOK, Never, Ages, DownClean, OutClean, TimersHonest, VerdictsHold
<1>0. NoReinsert'
  BY NoReinsertStep DEF Honest
<1>1. ASSUME NEW p \in Procs, Start(p) PROVE Honest'
  BY <1>0, <1>1 DEF Start, timers, history
<1>2. ASSUME NEW p \in Procs, Exit(p) PROVE Honest'
  <2>1. DownClean'
    BY <1>2 DEF Exit
  <2>2. \A q \in up' : q # p /\ q \in up
    BY <1>2 DEF Exit
  <2>3. CASE up' = {} /\ watcher = "down"
    BY <1>0, <1>2, <2>1, <2>3 DEF Exit, PullOut
  <2>4. CASE ~(up' = {} /\ watcher = "down")
    BY <1>0, <1>2, <2>1, <2>2, <2>4 DEF Exit, history
  <2>5. QED
    BY <2>3, <2>4
<1>3. ASSUME NEW p \in Procs, NEW c \in {"GetStatus", "Connect"}, Poll(p, c)
      PROVE  Honest'
  <2>1. /\ slot' = slot /\ up' = up /\ dwell' = dwell /\ wrote' = wrote
        /\ p \in up /\ reinsertIn' = reinsertIn
    BY <1>3 DEF Poll, history
  <2>2. ASSUME slot
        PROVE  /\ inserted'[p] /\ (armed'[p] => wrote)
               /\ lastIo'[p] <= dwell /\ insertedAt'[p] <= dwell
    <3>0. /\ inserted'[p] = slot
          /\ armed'[p] = (armed[p] /\ slot = inserted[p])
          /\ lastIo'[p] = (IF slot # inserted[p] THEN 0 ELSE lastIo[p])
          /\ insertedAt'[p] = (IF slot # inserted[p] THEN 0 ELSE insertedAt[p])
      BY <1>3 DEF Poll, Notice
    <3>1. CASE inserted[p]
      BY <2>1, <2>2, <3>0, <3>1
    <3>2. CASE ~inserted[p]
      <4>1. slot # inserted[p]
        BY <2>2, <3>2
      <4>2. inserted'[p] /\ ~armed'[p]
        BY <2>2, <3>0, <4>1
      <4>3. lastIo'[p] <= dwell /\ insertedAt'[p] <= dwell
        BY <3>0, <4>1
      <4>4. QED
        BY <4>2, <4>3
    <3>3. QED
      BY <3>1, <3>2
  <2>3. \A q \in Procs \ {p} :
          /\ inserted'[q] = inserted[q] /\ lastIo'[q] = lastIo[q]
          /\ insertedAt'[q] = insertedAt[q] /\ armed'[q] = armed[q]
          /\ pc'[q] = pc[q]
    BY <1>3 DEF Poll, Notice
  <2>4. TimersHonest'
    BY <2>1, <2>2, <2>3
  <2>5. DownClean' /\ OutClean'
    BY <2>1, <2>3
  <2>6. VerdictsHold'
    <3>1. pc'[p] = Verdict(p)
      BY <1>3 DEF Poll
    <3>2. lastIo'[p] \in Int
      BY <1>3 DEF Poll, Notice
    <3>3. ASSUME slot, pc'[p] = "autoEject" PROVE AutoEject > 0 /\ wrote /\ dwell > AutoEject
      BY <2>2, <3>1, <3>2, <3>3 DEF Verdict, ReinsertDue, AutoDue, IdleDue
    <3>4. ASSUME slot, pc'[p] = "idleEject" PROVE IdleEject > 0 /\ dwell > IdleEject
      BY <2>2, <3>1, <3>2, <3>4 DEF Verdict, ReinsertDue, AutoDue, IdleDue
    <3>5. QED
      BY <2>1, <2>3, <3>3, <3>4
  <2>7. QED
    BY <1>0, <2>4, <2>5, <2>6
<1>4. ASSUME NEW p \in Procs, DoInsert(p) PROVE Honest'
  BY <1>4 DEF DoInsert, NoReinsert
<1>5. ASSUME NEW p \in Procs, DoEject(p) PROVE Honest'
  <2>1. p \in up
    BY <1>5 DEF DoEject, Ejecting
  <2>2. QED
    BY <1>0, <1>5, <2>1 DEF DoEject, PullOut
<1>6. ASSUME NEW p \in Procs, Answer(p) PROVE Honest'
  <2>1. p \in up
    BY <1>6 DEF Answer
  <2>2. lastIo'[p] <= lastIo[p] \/ lastIo'[p] = 0
    BY <1>6 DEF Answer
  <2>3. QED
    BY <1>0, <1>6, <2>1, <2>2 DEF Answer, history
<1>7. ASSUME NEW p \in Procs, ReadCard(p) PROVE Honest'
  BY <1>0, <1>7 DEF ReadCard, history
<1>8. ASSUME NEW p \in Procs, WriteCard(p) PROVE Honest'
  BY <1>0, <1>8 DEF WriteCard
<1>9. CASE LaunchWatcher
  BY <1>0, <1>9 DEF LaunchWatcher, timers, history
<1>10. CASE Press
  BY <1>0, <1>10 DEF Press, timers, history
<1>11. CASE Move
  <2>1. Settled
    BY <1>11 DEF Move
  <2>2. CASE watcher = "set"
    BY <1>0, <1>11, <2>1, <2>2 DEF Move, PutIn, Settled, timers
  <2>3. CASE watcher # "set"
    BY <1>0, <1>11, <2>3 DEF Move, PullOut, timers
  <2>4. QED
    BY <2>2, <2>3
<1>12. CASE WatcherExit
  <2>1. CASE up = {}
    BY <1>0, <1>12, <2>1 DEF WatcherExit, PullOut, timers
  <2>2. CASE up # {}
    BY <1>0, <1>12, <2>2 DEF WatcherExit, timers, history
  <2>3. QED
    BY <2>1, <2>2
<1>13. CASE Tick
  <2>1. DownClean'
    BY <1>13 DEF Tick, Older, Sooner
  <2>2. TimersHonest'
    BY <1>13, OlderAge DEF Tick
  <2>3. VerdictsHold' /\ OutClean'
    BY <1>13, OlderAge DEF Tick
  <2>4. QED
    BY <1>0, <2>1, <2>2, <2>3
<1>14. CASE UNCHANGED vars
  BY <1>0, <1>14 DEF vars, timers, history
<1>15. QED
  BY <1>1, <1>2, <1>3, <1>4, <1>5, <1>6, <1>7, <1>8, <1>9, <1>10, <1>11,
     <1>12, <1>13, <1>14 DEF Next, Evaluate

\* For a patient player that stays so throughout.
LEMMA HonestThroughout ==
  ASSUME PatientPlayer, Reinsert = 0
  PROVE  Spec => []Honest
<1>1. Init => Honest
  BY DEF Init, Honest, DownClean, NoReinsert, OutClean, TimersHonest, VerdictsHold, Never
<1>2. TypeOK /\ Honest /\ [Next]_vars => Honest'
  BY HonestStep
<1>3. QED
  BY <1>1, <1>2, TypeCorrect, PTL DEF Spec

\* For a patient player the timers never outlive the card's stay (the restart
\* of the timers in Ejected()).
THEOREM TimersStayHonest ==
  ASSUME PatientPlayer, Reinsert = 0
  PROVE  Spec => []TimersHonest
<1>1. Honest => TimersHonest
  BY DEF Honest
<1>2. QED
  BY <1>1, HonestThroughout, PTL

\* ... and a decision to pull the card, taken inside Ejected(), is never
\* overtaken by what the other program or the player did before it is carried
\* out.
THEOREM VerdictsStayDue ==
  ASSUME PatientPlayer, Reinsert = 0
  PROVE  Spec => []VerdictsHold
<1>1. Honest => VerdictsHold
  BY DEF Honest
<1>2. QED
  BY <1>1, HonestThroughout, PTL

-----------------------------------------------------------------------------
\* Every step of the slot is a step of its contract, or changes nothing that
\* the contract speaks of.
LEMMA PromiseStep ==
  ASSUME PatientPlayer, Reinsert = 0, TypeOK, Honest, [Next]_vars
  PROVE  [Promise!Next]_(Promise!vars)
<1> DEFINE hand == IF watcher = "down" THEN "idle" ELSE watcher
<1> DEFINE held == up # {} \/ watcher # "down"
<1> USE DEF Promise!vars, Honest
<1>1. ASSUME NEW p \in Procs, NEW c \in {"GetStatus", "Connect"},
             Poll(p, c) \/ Answer(p) \/ ReadCard(p)
      PROVE  UNCHANGED <<held, slot, dwell, wrote, hand>>
  BY <1>1 DEF Poll, Answer, ReadCard, history
<1>0. ASSUME NEW p \in Procs, Start(p) PROVE [Promise!Next]_(Promise!vars)
  <2>1. held' /\ UNCHANGED <<slot, dwell, wrote, hand>>
    BY <1>0 DEF Start, history
  <2>2. CASE held
    BY <2>1, <2>2
  <2>3. CASE ~held
    BY <2>1, <2>3 DEF Promise!Next, Promise!Begin
  <2>4. QED
    BY <2>2, <2>3
<1>2. ASSUME NEW p \in Procs, Exit(p) PROVE [Promise!Next]_(Promise!vars)
  <2>0. held
    BY <1>2 DEF Exit
  <2>1. CASE up' = {} /\ watcher = "down"
    <3>1. ~held' /\ watcher' = "down"
      BY <1>2, <2>1 DEF Exit
    <3>2. Promise!Forget
      BY <1>2, <2>0, <2>1, <3>1 DEF Exit, PullOut, Promise!Forget, Promise!Empty
    <3>3. QED
      BY <3>2 DEF Promise!Next
  <2>2. CASE ~(up' = {} /\ watcher = "down")
    BY <1>2, <2>0, <2>2 DEF Exit, history
  <2>3. QED
    BY <2>1, <2>2
<1>3. ASSUME NEW p \in Procs, DoInsert(p) PROVE FALSE
  BY <1>3 DEF DoInsert, NoReinsert
<1>4. ASSUME NEW p \in Procs, DoEject(p) PROVE [Promise!Next]_(Promise!vars)
  <2>1. p \in up
    BY <1>4 DEF DoEject, Ejecting, DownClean
  <2>2. CASE slot
    <3>1. \/ AutoEject > 0 /\ wrote /\ dwell > AutoEject
          \/ IdleEject > 0 /\ dwell > IdleEject
      BY <1>4, <2>1, <2>2 DEF DoEject, Ejecting, VerdictsHold
    <3>2. Promise!Empty /\ UNCHANGED <<held, hand>>
      BY <1>4 DEF DoEject, PullOut, Promise!Empty
    <3>3. Promise!Pull
      BY <2>2, <3>1, <3>2 DEF Promise!Pull
    <3>4. QED
      BY <3>3 DEF Promise!Next
  <2>3. CASE ~slot
    <3>1. ~slot' /\ slot' \in BOOLEAN /\ ~wrote /\ ~wrote' /\ wrote' \in BOOLEAN
      BY <1>4, <2>3, Zenon DEF DoEject, PullOut, OutClean
    <3>2. slot' = slot /\ wrote' = wrote
      BY <2>3, <3>1, Zenon DEF TypeOK
    <3>3. dwell' = dwell /\ watcher' = watcher /\ up' = up
      BY <1>4, <2>3 DEF DoEject, PullOut, OutClean
    <3>4. QED
      BY <3>2, <3>3
  <2>4. QED
    BY <2>2, <2>3
<1>5. ASSUME NEW p \in Procs, WriteCard(p) PROVE [Promise!Next]_(Promise!vars)
  <2>1. CASE slot
    <3>1. Promise!Write
      BY <1>5, <2>1, Zenon DEF WriteCard, Promise!Write
    <3>2. QED
      BY <3>1 DEF Promise!Next
  <2>2. CASE ~slot
    <3>1. wrote' = wrote
      BY <1>5, <2>2, Zenon DEF WriteCard, TypeOK
    <3>2. QED
      BY <1>5, <3>1 DEF WriteCard
  <2>3. QED
    BY <2>1, <2>2
<1>6. CASE LaunchWatcher
  <2>1. held' /\ UNCHANGED <<slot, dwell, wrote, hand>>
    BY <1>6 DEF LaunchWatcher, history
  <2>2. CASE held
    BY <2>1, <2>2
  <2>3. CASE ~held
    BY <2>1, <2>3 DEF Promise!Next, Promise!Begin
  <2>4. QED
    BY <2>2, <2>3
<1>12. CASE Press
  <2>1. held /\ held' /\ hand = "idle" /\ hand' = IF slot THEN "reset" ELSE "set"
    BY <1>12 DEF Press
  <2>2. UNCHANGED <<slot, dwell, wrote>>
    BY <1>12 DEF Press, history
  <2>3. Promise!Reach(hand')
    BY <2>1, <2>2 DEF Promise!Reach
  <2>4. QED
    BY <2>1, <2>3 DEF Promise!Next
<1>7. CASE Move
  <2>0. watcher' = "idle" /\ hand' = "idle" /\ hand = watcher /\ held /\ held'
    BY <1>7 DEF Move
  <2>1. CASE slot = (watcher = "set")
    <3>1. UNCHANGED <<slot, dwell, wrote>>
      BY <1>7, <2>1 DEF Move, PutIn, PullOut, OutClean, TypeOK
    <3>2. Promise!Reach("idle")
      BY <2>0, <3>1 DEF Promise!Reach
    <3>3. QED
      BY <3>2 DEF Promise!Next
  <2>2. CASE ~slot /\ watcher = "set"
    <3>1. slot' = TRUE /\ dwell' = 0
      BY <1>7, <2>2 DEF Move, PutIn
    <3>2. wrote' = FALSE
      BY <1>7, <2>2, Zenon DEF Move, PutIn
    <3>3. Promise!Insert
      BY <2>0, <2>2, <3>1, <3>2 DEF Promise!Insert
    <3>4. QED
      BY <3>3 DEF Promise!Next
  <2>3. CASE slot /\ watcher = "reset"
    <3>1. Promise!Empty
      BY <1>7, <2>3 DEF Move, PullOut, Promise!Empty
    <3>2. Promise!Remove
      BY <2>0, <2>3, <3>1 DEF Promise!Remove
    <3>3. QED
      BY <3>2 DEF Promise!Next
  <2>4. QED
    BY <1>7, <2>1, <2>2, <2>3 DEF Move, TypeOK
<1>8. CASE WatcherExit
  <2>1. hand' = "idle" /\ held /\ up' = up /\ watcher' = "down"
    BY <1>8 DEF WatcherExit
  <2>2. CASE up = {}
    <3>1. Promise!Forget
      BY <1>8, <2>1, <2>2 DEF WatcherExit, PullOut, Promise!Forget, Promise!Empty
    <3>2. QED
      BY <3>1 DEF Promise!Next
  <2>3. CASE up # {}
    <3>1. UNCHANGED <<held, slot, dwell, wrote>>
      BY <1>8, <2>1, <2>3 DEF WatcherExit, history
    <3>2. Promise!Reach("idle")
      BY <2>1, <3>1 DEF Promise!Reach
    <3>3. QED
      BY <3>2 DEF Promise!Next
  <2>4. QED
    BY <2>2, <2>3
<1>9. CASE Tick
  BY <1>9 DEF Tick, Older, Promise!Next, Promise!Pass, Promise!Older
<1>10. CASE UNCHANGED vars
  BY <1>10 DEF vars, history
<1>11. QED
  BY <1>0, <1>1, <1>2, <1>3, <1>4, <1>5, <1>6, <1>7, <1>8, <1>9, <1>10, <1>12
  DEF Next, Evaluate

\* For a patient player the slot keeps its promise: with anybody there, a card
\* is never pulled before its time.
THEOREM SlotKeepsPromise ==
  ASSUME PatientPlayer, Reinsert = 0
  PROVE  Spec => KeepsPromise
<1>1. Init => Promise!Init
  BY DEF Init, Promise!Init
<1>2. TypeOK /\ Honest /\ [Next]_vars => [Promise!Next]_(Promise!vars)
  BY PromiseStep
<1>3. QED
  BY <1>1, <1>2, HonestThroughout, TypeCorrect, PTL DEF Spec, KeepsPromise, Promise!Spec

-----------------------------------------------------------------------------
(* The programs' half of what SlotUsers says, and the watcher's.           *)

\* Only a program that runs is inside Ejected().
Inside == \A p \in Procs \ up : pc[p] = "ready"

LEMMA InsideStep ==
  ASSUME TypeOK, Inside, [Next]_vars
  PROVE  Inside'
<1> USE DEF Inside, TypeOK
<1>1. ASSUME NEW p \in Procs, NEW c \in {"GetStatus", "Connect"},
             Start(p) \/ Exit(p) \/ Poll(p, c) \/ ReadCard(p) \/ WriteCard(p)
      PROVE  Inside'
  BY <1>1 DEF Start, Exit, Poll, ReadCard, WriteCard
<1>2. ASSUME NEW p \in Procs, DoInsert(p) \/ DoEject(p) \/ Answer(p)
      PROVE  Inside'
  <2>1. p \in up
    BY <1>2 DEF DoInsert, DoEject, Answer, Ejecting
  <2>2. QED
    BY <1>2, <2>1 DEF DoInsert, DoEject, Answer
<1>3. CASE LaunchWatcher \/ Press \/ Move \/ WatcherExit \/ Tick
  BY <1>3 DEF LaunchWatcher, Press, Move, WatcherExit, Tick
<1>4. CASE UNCHANGED vars
  BY <1>4 DEF vars
<1>5. QED
  BY <1>1, <1>2, <1>3, <1>4 DEF Next, Evaluate

LEMMA UsersStep ==
  ASSUME TypeOK, Inside, [Next]_vars
  PROVE  [Users!Next]_(Users!vars)
<1> USE DEF Users!vars, Users!Next
<1>1. ASSUME NEW p \in Procs, Start(p)
      PROVE  Users!ProgramStep
  BY <1>1, Zenon DEF Start, Users!ProgramStep, Users!Start
<1>2. ASSUME NEW p \in Procs, Exit(p)
      PROVE  Users!ProgramStep
  <2>1. p \in up /\ up' = up \ {p} /\ watcher' = watcher
    BY <1>2 DEF Exit
  <2>2. slot' = (slot /\ (up' # {} \/ watcher # "down"))
    BY <1>2, Zenon DEF Exit, PullOut, history, TypeOK
  <2>3. Users!Exit(p)
    BY <2>1, <2>2, Zenon DEF Users!Exit
  <2>4. QED
    BY <2>3 DEF Users!ProgramStep
<1>3. ASSUME NEW p \in Procs, DoInsert(p) \/ DoEject(p)
      PROVE  Users!ProgramStep \/ UNCHANGED <<slot, up, watcher>>
  <2>1. up # {} /\ up' = up /\ watcher' = watcher
    BY <1>3 DEF DoInsert, DoEject, Ejecting, Inside
  <2>2. slot' \in BOOLEAN
    BY <1>3, Zenon DEF DoInsert, DoEject, PutIn, PullOut
  <2>3. slot' = slot \/ slot' = ~slot
    BY <2>2, Zenon DEF TypeOK
  <2>4. QED
    BY <2>1, <2>3, Zenon DEF Users!ProgramStep, Users!Flip
<1>4. ASSUME NEW p \in Procs, NEW c \in {"GetStatus", "Connect"},
             Poll(p, c) \/ Answer(p) \/ ReadCard(p) \/ WriteCard(p)
      PROVE  UNCHANGED <<slot, up, watcher>>
  BY <1>4 DEF Poll, Answer, ReadCard, WriteCard
<1>5. CASE LaunchWatcher
  BY <1>5 DEF LaunchWatcher, Users!WatcherStep, Users!Come
<1>6. CASE Press
  BY <1>6 DEF Press, Users!WatcherStep, Users!Decide
<1>7. CASE Move
  <2>1. watcher \in {"set", "reset"} /\ watcher' = "idle" /\ up' = up
    BY <1>7 DEF Move
  <2>2. slot' = (watcher = "set")
    BY <1>7, Zenon DEF Move, PutIn, PullOut
  <2>3. QED
    BY <2>1, <2>2, Zenon DEF Users!WatcherStep, Users!Move
<1>8. CASE WatcherExit
  <2>1. watcher # "down" /\ watcher' = "down" /\ up' = up
    BY <1>8 DEF WatcherExit
  <2>2. slot' = (slot /\ up # {})
    BY <1>8, Zenon DEF WatcherExit, PullOut, history, TypeOK
  <2>3. QED
    BY <2>1, <2>2, Zenon DEF Users!WatcherStep, Users!Go
<1>9. CASE Tick
  BY <1>9 DEF Tick
<1>10. CASE UNCHANGED vars
  BY <1>10 DEF vars
<1>11. QED
  BY <1>1, <1>2, <1>3, <1>4, <1>5, <1>6, <1>7, <1>8, <1>9, <1>10
  DEF Next, Evaluate

\* The card DLLs touch the event only as SlotUsers has it, whatever their
\* settings and however impatient the player: CardKey, which takes them as
\* SlotUsers does, takes them as they are.
THEOREM ProgramsShareSlot == Spec => SharesSlot
<1>1. Init => Users!Init /\ Inside
  BY DEF Init, Users!Init, Inside
<1>2. TypeOK /\ Inside /\ [Next]_vars => Inside' /\ [Users!Next]_(Users!vars)
  BY InsideStep, UsersStep
<1>3. QED
  BY <1>1, <1>2, TypeCorrect, PTL DEF Spec, SharesSlot, Users!Spec

LEMMA OutStaysClean ==
  ASSUME TypeOK, OutClean, [Next]_vars
  PROVE  OutClean'
<1> USE DEF OutClean, TypeOK
<1>1. ASSUME NEW p \in Procs, NEW c \in {"GetStatus", "Connect"},
             Start(p) \/ Poll(p, c) \/ Answer(p) \/ ReadCard(p) \/ WriteCard(p)
      PROVE  OutClean'
  BY <1>1 DEF Start, Poll, Answer, ReadCard, WriteCard, history
<1>2. ASSUME NEW p \in Procs, Exit(p)
      PROVE  OutClean'
  BY <1>2 DEF Exit, PullOut, history
<1>3. ASSUME NEW p \in Procs, DoInsert(p) \/ DoEject(p)
      PROVE  OutClean'
  BY <1>3 DEF DoInsert, DoEject, PutIn, PullOut
<1>4. CASE Move \/ WatcherExit
  BY <1>4 DEF Move, WatcherExit, PutIn, PullOut, history
<1>5. CASE LaunchWatcher \/ Press \/ Tick
  BY <1>5 DEF LaunchWatcher, Press, Tick, history
<1>6. CASE UNCHANGED vars
  BY <1>6 DEF vars, history
<1>7. QED
  BY <1>1, <1>2, <1>3, <1>4, <1>5, <1>6 DEF Next, Evaluate

\* In every state an empty slot has no history.
LEMMA StayKnown == Spec => [](TypeOK /\ OutClean)
<1>1. Init => OutClean
  BY DEF Init, OutClean
<1>2. TypeOK /\ OutClean /\ [Next]_vars => OutClean'
  BY OutStaysClean
<1>3. QED
  BY <1>1, <1>2, TypeCorrect, PTL DEF Spec

\* The history when the slot is moved from outside: a stay goes on, or is over.
StayFollows ==
  IF slot /\ slot' THEN UNCHANGED history ELSE dwell' = 0 /\ wrote' = FALSE

\* ... and in turn, with an impatient player, whatever SlotUsers lets the
\* watcher do is a step of CardSlot, in every state that CardSlot reaches
\* (TypeCorrect, StayKnown): it holds with any watcher that keeps to
\* SlotUsers, as GvrCardKey.exe does (CardKeyProofs).
THEOREM WatcherIsFree ==
  ASSUME ~PatientPlayer, TypeOK, OutClean,
         Users!WatcherStep, UNCHANGED <<pc, call, inserted, timers>>, StayFollows
  PROVE  LaunchWatcher \/ Press \/ Move \/ WatcherExit
<1>1. ASSUME slot' = slot
      PROVE  UNCHANGED history
  BY <1>1, Zenon DEF StayFollows, OutClean, history, TypeOK
<1>2. CASE Users!Come
  BY <1>1, <1>2 DEF Users!Come, LaunchWatcher
<1>3. CASE Users!Decide
  BY <1>1, <1>3 DEF Users!Decide, Press
<1>4. CASE Users!Move
  <2>1. CASE watcher = "set"
    <3>1. slot' = TRUE
      BY <1>4, <2>1 DEF Users!Move
    <3>2. PutIn
      BY <1>1, <3>1, Zenon DEF PutIn, StayFollows, history, TypeOK
    <3>3. QED
      BY <1>4, <2>1, <3>2 DEF Users!Move, Move
  <2>2. CASE watcher # "set"
    <3>1. slot' = FALSE
      BY <1>4, <2>2 DEF Users!Move
    <3>2. PullOut
      BY <3>1, Zenon DEF PullOut, StayFollows
    <3>3. QED
      BY <1>4, <2>2, <3>2 DEF Users!Move, Move
  <2>3. QED
    BY <2>1, <2>2
<1>5. CASE Users!Go
  <2>1. CASE up = {}
    <3>1. PullOut
      BY <1>5, <2>1, Zenon DEF Users!Go, PullOut, StayFollows
    <3>2. QED
      BY <1>5, <2>1, <3>1 DEF Users!Go, WatcherExit
  <2>2. CASE up # {}
    <3>1. slot' = slot
      BY <1>5, <2>2, Zenon DEF Users!Go, TypeOK
    <3>2. QED
      BY <1>1, <1>5, <2>2, <3>1 DEF Users!Go, WatcherExit
  <2>3. QED
    BY <2>1, <2>2
<1>6. QED
  BY <1>2, <1>3, <1>4, <1>5 DEF Users!WatcherStep
=============================================================================
