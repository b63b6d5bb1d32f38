SPECIFICATION Spec
INVARIANT
  FixedServesValid
