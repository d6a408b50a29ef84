SPECIFICATION BlocksSpec
CONSTANTS
  Data = {d1, d2}
  Depth = 4
  NBits = 3
  TrimBits = 2
  CalItts = 3
  Inputs <- MCInputs
INVARIANTS
  CountMatchesPointers
  ConversionIsIdeal
  SearchInterval
PROPERTIES
  ImplementsQueue
  ResultChangesWithValid
