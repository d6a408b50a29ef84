SPECIFICATION HSpec
CONSTANTS
  Depth = 2
  ClkDiv = 1
  NBits = 2
  TrimBits = 1
  CalItts = 1
  Inputs <- MCInputs
  Accesses <- Sampling
  MinQuiet = 1
INVARIANTS
  SampledAfterTrigger
