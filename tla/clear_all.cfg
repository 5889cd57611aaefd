SPECIFICATION Spec
SYMMETRY Symmetry
CONSTANTS
  Names = {n1, n2}
  NoName = NoName
  Tids = {t1}
  NoTid = NoTid
  Peers = {p1, p2}
  Null = Null
  BadId = BadId
  NoStream = NoStream
  StreamConfigs <- TwoStreams
  MaxEvents = 1
  Env = {"clears", "statusFails"}
INVARIANTS
  NamedIsRegistered
  NoUndefinedBehaviour
PROPERTIES
  ImplementsRelay
