SPECIFICATION Spec
CONSTANTS
  Module <- MCModule
  Routine <- MCRoutine
  Suite <- MCSuite
  Todo <- StubTodo
  Wrong <- StubWrong
  Portion <- MCPortion
  San = {"address,undefined", "thread"}
  MaxEdits = 1
INVARIANTS
  SanHonoured
