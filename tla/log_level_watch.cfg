SPECIFICATION Spec
CONSTANTS
  Contents = {"1", "2", "3", "4", "wrong", "none"}
  Faults = {"moved", "removed"}
  MaxChanges = 3
  MaxEvents = 4
  BatchSize = 2
INVARIANTS
  LevelSettled
PROPERTIES
  LevelFollows
\* Everything waits when nobody changes the file.
CHECK_DEADLOCK FALSE
