SPECIFICATION Spec
CONSTANTS
  Builds = {{"form", "panel", "renderer", "window", "rebuild"}, {"form", "renderer", "rebuild"}}
INVARIANTS
  KeepIsWhole
  KeepHasWatcher
  OwnDatabase
PROPERTIES
  ModeAsAsked
