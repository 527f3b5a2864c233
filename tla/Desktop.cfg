SPECIFICATION FairSpec
CONSTANTS
  Modes = {"keep", "swap", "merge"}
  OnTop = TRUE
  Gone = 1
  Scan = 1
  Grace = 1
INVARIANTS
  KeepOutlives
PROPERTIES
  RaceOnTop
  RaceKeepsTop
  RaceLeavesTop
  LauncherEnds
  RaceGetsFocus
  AltTabStands
  DesktopCovered
CHECK_DEADLOCK FALSE
