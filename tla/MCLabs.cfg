SPECIFICATION LabSpec
CONSTANT Samples = 15
INVARIANTS
  LabTypeOK
  FixedStays
  GoneForGood
  FixedAnswers
  TornDownClean
PROPERTIES
  ArmedIsBroken
  Armed
  Rearmed
  Respawns
  ReversedInTheEnd
  ApiRecovers
  RenewalReaches
