SPECIFICATION Spec
CONSTANTS
  Key = {k1, k2, k3, k4}
  Val = {1, 2}
  Capacities = {0, 1, 2, 3}
INVARIANTS
  TypeOK
  LengthExact
  HoldsTheMostRecent
PROPERTIES
  PresentIsReturned
  ContractSpec
