SPECIFICATION Spec
CONSTANTS
  SizeMax = 3
  Length = {0, 2}
  Value = {0, 1, 2}
  Mapping <- MCMapping
  Predicate <- MCPredicate
  Operation <- MCOperation
  Comparator <- MCComparator
  Base = 2
  WordBits = 4
  IntArg <- MCIntArg
  Node = {n1}
  NULL = NULL
  LIST_N = 1
  MAT_N = 1
  Mask = 1
INVARIANTS
  SortsByAnyComparator
CHECK_DEADLOCK FALSE
