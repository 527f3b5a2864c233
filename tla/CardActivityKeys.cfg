SPECIFICATION ActivitySpec
CONSTANTS
  Procs = {shell}
  AutoEject = 0
  IdleEject = 1
  Reinsert = 0
  StartIn = FALSE
  Cap = 2
  PatientPlayer = TRUE
PROPERTIES
  PlayerKeepsCard
