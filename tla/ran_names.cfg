SPECIFICATION Spec
CONSTANTS
  Identities <- FittingIdentities
  None = None
  MaxNodes = 3
INVARIANTS
  TypeOK
  RoutedToOwner
  DigitsAreValue
  NameFitsMeid
