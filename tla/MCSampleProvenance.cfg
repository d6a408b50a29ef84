SPECIFICATION HSpec
CONSTANTS
  Depth = 2
  ClkDiv = 2
  NBits = 1
  TrimBits = 1
  CalItts = 1
  Inputs <- MCInputs
  Accesses <- AllAccesses
  MinQuiet = 2
INVARIANTS
  NoOverrun
  PopHasSample
  WriteHoldsLastResult
  StatusNotPhantom
  EndedAfterTrigger
  LatencyBounded
