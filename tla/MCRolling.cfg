SPECIFICATION Spec
CONSTANTS
  c1 = c1
  c2 = c2
  h1 = h1
  h2 = h2
  t1 = t1
  Nil = Nil
  Schedule <- MCSchedule
  Parseable <- MCParseable
  Fires <- MCFires
  Every <- MCEvery
  MaxMissed = 2
  CronHPA = {h1}
  Specs <- ScalerSpecs
  Controller = {c1, c2}
  Target = {t1}
  Autoscaled = {t1}
  Deployed = {t1}
  Size <- MCSize
  TargeSizes <- MCTargeSizes
  MaxDisruptions = 0
  Skew <- Ahead
  MaxTime = 1
  MaxEdits = 1
INVARIANTS
  SnapshotFaithful
PROPERTIES
  LedgerSpec
  ScaleSpec
  PassEnds
  ScaledAsPlanned
