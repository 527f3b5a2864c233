---------------------------- MODULE SlotPromise ----------------------------
(***************************************************************************)
(* What the emulated card slot promises to a player who waits for the      *)
(* cabinet to notice each move of the card, as long as anybody holds the   *)
(* event: the card goes in only by the player's hand, and the cabinet      *)
(* pulls it out only after it has been in for longer than the idle period, *)
(* or than the auto-eject period with a write made in this very stay.      *)
(* Apart from that it leaves the slot by the player's hand, or with the    *)
(* event itself, when the last holder goes.  This is the contract the      *)
(* comments over Ejected() in GvrCardEmu.cpp describe; CardSlot is shown   *)
(* to implement it.                                                        *)
(***************************************************************************)
EXTENDS Integers

CONSTANTS
  AutoEject,   \* quiet time after a write before the card is pulled, 0 = never
  IdleEject,   \* quiet time before the card is pulled anyway, 0 = never
  Cap          \* an age older than every threshold: ages stop growing here

VARIABLES
  held,    \* TRUE while a program or the watcher has the event open
  slot,    \* TRUE while the card is in
  dwell,   \* how long the card has been in
  wrote,   \* TRUE once a write was made during this stay of the card
  hand     \* what the player is about to do: "idle", "set" or "reset"

vars == <<held, slot, dwell, wrote, hand>>

\* How an age grows when time passes.  Saturation keeps the state finite;
\* no threshold can tell Cap from anything above it.
Older(age) == IF age < 0 \/ age >= Cap THEN age ELSE age + 1

Empty == slot' = FALSE /\ dwell' = 0 /\ wrote' = FALSE

Init == held = FALSE /\ slot = FALSE /\ dwell = 0 /\ wrote = FALSE /\ hand = "idle"

\* Somebody opens the event, the first to do so.
Begin == ~held /\ held' = TRUE /\ UNCHANGED <<slot, dwell, wrote, hand>>

\* The player makes up his mind, seeing the slot as it is now; a request is
\* dropped when the watcher stops or finds the slot moved already.
Reach(h) ==
  /\ held
  /\ h = "idle" \/ (hand = "idle" /\ h = IF slot THEN "reset" ELSE "set")
  /\ hand' = h
  /\ UNCHANGED <<held, slot, dwell, wrote>>

Insert ==
  /\ hand = "set" /\ ~slot
  /\ slot' = TRUE /\ dwell' = 0 /\ wrote' = FALSE /\ hand' = "idle"
  /\ UNCHANGED held

Remove == hand = "reset" /\ slot /\ Empty /\ hand' = "idle" /\ UNCHANGED held

\* The cabinet pulls the card.
Pull ==
  /\ slot
  /\ \/ AutoEject > 0 /\ wrote /\ dwell > AutoEject
     \/ IdleEject > 0 /\ dwell > IdleEject
  /\ Empty
  /\ UNCHANGED <<held, hand>>

\* A card write by one of the programs.
Write == slot /\ wrote' = TRUE /\ UNCHANGED <<held, slot, dwell, hand>>

Pass == slot /\ dwell' = Older(dwell) /\ UNCHANGED <<held, slot, wrote, hand>>

\* The last holder of the event is gone, and the slot with it.
Forget == held /\ held' = FALSE /\ Empty /\ hand' = "idle"

Next ==
  \/ Begin \/ \E h \in {"idle", "set", "reset"} : Reach(h)
  \/ Insert \/ Remove \/ Pull \/ Write \/ Pass \/ Forget

Spec == Init /\ [][Next]_vars
=============================================================================
