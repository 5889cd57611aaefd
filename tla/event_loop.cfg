SPECIFICATION Spec
CONSTANTS
  Nodes = {e1, e2}
  Null = Null
  MaxEvents = 2
  MaxInbox = 2
  MaxPending = 2
  Env = {}
INVARIANTS
  TypeOK
  NoMissedData
  NoMissedConnection
PROPERTIES
  LossReported
  ConnectionAccepted
