SPECIFICATION Spec
CONSTANTS
  Key = {k1, k2, k3}
  Val = {0, 1}
  Capacities = {2}
PROPERTY
  PresentIsReturned
