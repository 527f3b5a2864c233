SPECIFICATION FairSpec
CONSTANTS
  Procs = {shell, race}
  AutoEject = 1
  IdleEject = 2
  Reinsert = 0
  StartIn = FALSE
  Cap = 3
  PatientPlayer = TRUE
INVARIANTS
  TimersHonest
  VerdictsHold
PROPERTIES
  KeepsPromise
  StaysOut
  AttractResumes
