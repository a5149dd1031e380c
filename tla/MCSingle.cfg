SPECIFICATION Spec
CONSTANTS
  c1 = c1
  c2 = c2
  h1 = h1
  h2 = h2
  t1 = t1
  Nil = Nil
  Schedule <- MCSchedule
  Parseable <- MCParseable
  Fires <- MCFires
  Every <- MCEvery
  MaxMissed = 2
  CronHPA = {h1}
  Specs <- EditSpecs
  Controller = {c1}
  Target = {t1}
  Autoscaled = {}
  Deployed = {t1}
  Size <- MCSize
  TargeSizes <- MCTargeSizes
  MaxDisruptions = 2
  Skew <- NoSkew
  MaxTime = 4
  MaxEdits = 2
INVARIANTS
  TypeOK
  SnapshotFaithful
  RecordedMeansApplied
  OnlyLate
PROPERTIES
  LedgerSpec
  WedgedUntilEdited
  CacheNeverGoesBack
