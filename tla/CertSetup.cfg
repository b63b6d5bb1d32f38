SPECIFICATION Spec
PROPERTY
  SetupArms
