SPECIFICATION Spec
CONSTANTS
  Procs = {shell, race}
  Keys <- MCKeys
  Names = {"v"}
  Under <- MCUnder
  Texts = {"c", "d"}
  Defaults <- MCDefaults
  DefaultKeys = {"Cabinet", "Prog00"}
  FolderNames <- MCFolderNames
  AllKeysExist = FALSE
  None = None
  Missing = Missing
  Deleted = Deleted
  Closed = Closed
SYMMETRY Symmetry
INVARIANTS
  OpenKeysExist
  EnumMatchesQuery
PROPERTIES
  DeletedIsGone
  ActsAsRegistry
