SPECIFICATION LoadSpec
CONSTANTS
  Buttons = {"A", "B"}
  BitActions = {"brake", "boost"}
  GoWithBits = {"camera"}
  Stay = {"quit"}
  FrontActions = {"select", "exit"}
  RaceDefault <- MCRaceDefault
  SpecialDefault <- MCSpecialDefault
  FrontDefault <- MCFrontDefault
  Cap = 3
  MaxLines = 3
  MaxWords = 4
  NoButton = "-"
INVARIANTS
  AsWritten
CHECK_DEADLOCK FALSE
