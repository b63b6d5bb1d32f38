SPECIFICATION FairSpec
CONSTANTS
  MaxWorkers = 3
  MaxItems = 3
  Val <- MCVal
  ItemLists <- MCItemLists
  Requests <- MCRequests
  fn <- MCfn
INVARIANTS
  TypeOK
  DisjointWrites
  ResultsInOrder
  NoneOutlivesReturn
PROPERTIES
  StoredStays
  Returns
  MapFairSpec
\* Process ends: its goroutines are gone and nothing is left to do.
CHECK_DEADLOCK FALSE
