SPECIFICATION FairSpec
CONSTANTS
  Procs = {shell, race}
  AutoEject = 1
  IdleEject = 0
  Reinsert = 1
  StartIn = TRUE
  Cap = 2
  PatientPlayer = TRUE
PROPERTIES
  NeverStuckArmed
  Reappears
