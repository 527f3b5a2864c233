SPECIFICATION Spec
CONSTANTS
  Procs = {shell, race}
  Fields = {career, name}
  Vals = {0, 1}
  Zero = 0
  Absent = Absent
  Empty = Empty
INVARIANTS
  SessionReadsLatest
  NothingLost
  CleanMeansSaved
  SavesAlone
