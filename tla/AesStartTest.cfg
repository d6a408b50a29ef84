SPECIFICATION FairSpec
CONSTANTS
  Block = 4
  Word = 2
  MaxXfers = 4
  BufSize = 16
  MaxLen = 12
  Lengths = {4, 8}
  MaxCalls = 1
PROPERTY StartIsSeen
CHECK_DEADLOCK FALSE
