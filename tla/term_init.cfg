SPECIFICATION Spec
CONSTANTS
  Period = 2
  MaxInbox = 2
  MaxRestarts = 1
  Env = {"initLoss"}
INVARIANTS
  KnownIsListening
  StopsAnnounced
  StopsKnown
  AtMostOneLate
PROPERTIES
  MainStops
