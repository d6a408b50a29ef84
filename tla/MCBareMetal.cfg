SPECIFICATION BareSpec
CONSTANTS
  Lower = {"p0", "p1"}
  Upper = {"p8"}
  MainPins = {"p0", "p8"}
  IsrPins = {"p1", "p8"}
  Reloads = {1, 2}
  Chars = {"x", "y"}
  MainBound = 2
  IsrBound = 2
  Programs = {"watchdog", "self_reset", "fault_recovery"}
  Long = 20
  Threshold = 16
  Short = 10
  Rounds = 3
  PrintTicks = 9
  MaxResets = 2
  Reads = 2
  MessageTicks = 9
  Block = 4
  Word = 2
  MaxXfers = 4
  BufSize = 16
  MaxLen = 12
  Lengths = {3, 4, 8, 10, 12}
  MaxCalls = 2
INVARIANTS
  CallsAreAtomic
  SentInOrder
  LossIsFlagged
  ReportIsTrue
  TestPasses
  ResultIsPrefix
PROPERTIES
  StartsFull
  WritesUnlocked
  DemoEnds
  DriverReturns
CHECK_DEADLOCK FALSE
