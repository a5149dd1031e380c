SPECIFICATION FairSpec
CONSTANTS
  Schedule <- MCSchedule
  Parseable <- MCParseable
  Fires <- MCFires
  Every <- MCEvery
  MaxMissed = 3
  Deadlines <- MCDeadlines
  MaxGap = 2
  MaxTime = 8
  ZeroTime <- MCZeroTime
INVARIANTS
  MissedTypeOK
  LoopIsExact
  OnlyScalingLosesStarts
  DelayIsDue
PROPERTY
  CallEnds
