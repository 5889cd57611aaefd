SPECIFICATION Spec
SYMMETRY Symmetry
CONSTANTS
  Names = {n1, n2}
  NoName = NoName
  Tids = {t1}
  NoTid = NoTid
  Peers = {p1, p2, p3}
  Null = Null
  BadId = BadId
  NoStream = NoStream
  StreamConfigs <- TwoStreams
  MaxEvents = 2
  Env = {"overlaps"}
INVARIANTS
  TypeOK
  MapSound
  ProcRegistered
  E2MgrView
  UplinkAfterSetup
  DownlinkToOwner
  NoUndefinedBehaviour
PROPERTIES
  ImplementsRelay
