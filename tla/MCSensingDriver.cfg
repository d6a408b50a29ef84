SPECIFICATION DSpec
CONSTANTS
  TimeMod = 4
  Offsets <- PollOffsets
  Accesses <- AllAccesses
  TickMin = 4
  SENSING_PARK_SETTLE = 16
INVARIANTS
  AlarmArmed
  AlarmAhead
  TriggerAnswersAlarm
  QuietWhenPaused
  StallBounded
  AlarmServedSoon
  HelperNeverStalls
