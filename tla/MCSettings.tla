---------------------------- MODULE MCSettings ----------------------------
(* Settings for TLC: two buttons, one bit of each by default, and one place  *)
(* more, so that a line of two bits may or may not find room.                *)
EXTENDS Settings

MCRaceDefault == <<<<"A", "brake">>, <<"B", "boost">>>>
MCSpecialDefault == [s \in {"camera", "quit"} |-> IF s = "camera" THEN "B" ELSE "A"]
MCFrontDefault == <<<<"A", "select">>, <<"B", "exit">>>>
=============================================================================
