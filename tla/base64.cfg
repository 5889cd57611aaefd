SPECIFICATION Spec
CONSTANTS
  Octets = {27, 228}
  MaxLength = 5
INVARIANTS
  RecordDecodes
