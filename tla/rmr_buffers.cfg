SPECIFICATION Spec
CONSTANTS
  Buffers = {b1, b2, b3, b4}
  Null = Null
  Contents = {c1, c2}
  Env = {}
SYMMETRY Symmetry
INVARIANTS
  TypeOK
  NoBufferLost
  TracesOwnBuffer
  CarriesItsData
