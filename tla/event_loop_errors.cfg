SPECIFICATION Spec
CONSTANTS
  Nodes = {e1, e2, e3}
  Null = Null
  MaxEvents = 2
  MaxInbox = 1
  MaxPending = 2
  Env = {"garbage", "bursts", "acceptErrors"}
INVARIANTS
  NoMissedRmr
PROPERTIES
  RicServed
  NoOvertaking
