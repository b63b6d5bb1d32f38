SPECIFICATION Spec
CONSTANT Samples = 2
INVARIANT
  TeardownReverses
