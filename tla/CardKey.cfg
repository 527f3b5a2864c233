SPECIFICATION FairSpec
CONSTANTS
  Games = {shell, race}
  Watchers = {w1, w2}
  Debounce = 1
  Linger = 0
  Presses = 1
  QuickExit = TRUE
INVARIANTS
  OneWatcher
PROPERTIES
  MovesAreOwed
  GameHasWatcher
  WatcherEnds
  SharesSlot
