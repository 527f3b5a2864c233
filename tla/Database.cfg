SPECIFICATION Spec
CONSTANTS
  Procs = {shell, race}
  Rows = {r1, r2}
  Contents = {c1, c2}
  None = None
SYMMETRY Symmetry
INVARIANTS
  Coherent
PROPERTIES
  SavedOrPending
