SPECIFICATION Spec
CONSTANTS
  Module <- MCModule
  Routine <- MCRoutine
  Suite <- MCSuite
  Todo <- StubTodo
  Wrong <- StubWrong
  Portion <- MCPortion
  San = {"address,undefined"}
  MaxEdits = 3
INVARIANTS
  UpToDate
  GreenIsEarned
PROPERTIES
  FailsForCause
