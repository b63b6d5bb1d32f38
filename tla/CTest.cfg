SPECIFICATION Spec
CONSTANTS
  Section = {s1, s2}
  TopLevel = top
  Timeout = 2
  MaxFailed = 2
  Statements = 6
INVARIANTS
  TypeOK
  VerdictExact
  SummaryExact
  OneBlockPerEntry
  FreshBudget
PROPERTY
  Caught
\* A program that has exited, or hangs before its first SECTION, does nothing more.
CHECK_DEADLOCK FALSE
