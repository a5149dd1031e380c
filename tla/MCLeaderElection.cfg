SPECIFICATION FairElection
CONSTANTS
  c1 = c1
  c2 = c2
  Controller = {c1, c2}
  Reliable = {c1}
  createCRD <- MCcreateCRD
  Preset = Preset
  Completed = Completed
  Foreign = Foreign
  MaxUpsets = 3
  Nil = Nil
  LeaseDuration = 8
  RenewDeadline = 5
  RetryPeriod = 1
  MaxDelay = 1
INVARIANTS
  ElectionTypeOK
  OneLeader
PROPERTIES
  LedAgain
  ServedUnderLease
  ReplacesWhatItSaw
