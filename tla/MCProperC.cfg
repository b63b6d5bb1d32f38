SPECIFICATION Spec
CONSTANTS
  SizeMax = 5
  Length = {0, 1, 2, 3}
  Value = {0, 1, 2}
  Mapping <- MCMapping
  Predicate <- MCPredicate
  Operation <- MCOperation
  Comparator <- MCComparator
  Base = 4
  WordBits = 8
  IntArg <- MCIntArg
  Node = {n1, n2, n3, n4}
  NULL = NULL
  LIST_N = 4
  MAT_N = 3
  Mask = 3
INVARIANTS
  WithinBounds
  ArrayResult
  WordsResult
  ListMatches
  ListAnswers
  SameWork
PROPERTIES
  Returns
CHECK_DEADLOCK FALSE
