------------------------------- MODULE MCPad -------------------------------
(* Pad for TLC: controls of the shipped gvr_settings.ini, with the shift down *)
(* and the camera on buttons that do something else too, and a stick that    *)
(* trembles about the edge of a bucket.                                      *)
EXTENDS Pad

MCButtons == {"cross", "ddown", "square"}
MCKeys == {"Q", "N4", "N6"}
MCDoes ==
  [c \in MCButtons \cup MCKeys |->
    CASE c = "cross" -> {"ebrake", "confirm", "skipintro", "shiftdown"}
      [] c \in {"ddown", "Q"} -> {"quit"}
      [] c = "square" -> {"shiftup", "camera"}
      [] c = "N4" -> {"left"}
      [] c = "N6" -> {"right"}]
MCSticks == {-16, 0, 7, 8}
=============================================================================
