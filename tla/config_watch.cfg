SPECIFICATION Spec
CONSTANTS
  Contents = {"start", "stop", "large", "badSection"}
  Faults = {"removed"}
  MaxChanges = 4
  MaxEvents = 4
  BatchSize = 3
INVARIANTS
  TraceSettled
PROPERTIES
  WatchQuiets
  HandlingEnds
\* Everything waits when nobody changes the file.
CHECK_DEADLOCK FALSE
