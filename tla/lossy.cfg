SPECIFICATION Spec
SYMMETRY Symmetry
CONSTANTS
  Names = {n1}
  NoName = NoName
  Tids = {t1}
  NoTid = NoTid
  Peers = {p1, p2}
  Null = Null
  BadId = BadId
  NoStream = NoStream
  StreamConfigs <- OneOrTwoStreams
  MaxEvents = 2
  Env = {"overlaps", "omitsTid", "rmrLoss"}
INVARIANTS
  StreamExists
  UplinkRegistered
CHECK_DEADLOCK FALSE
