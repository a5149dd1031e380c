SPECIFICATION FairStartup
CONSTANTS
  c1 = c1
  c2 = c2
  c3 = c3
  Controller = {c1, c2, c3}
  createCRD <- MCcreateCRD
  Preset = Preset
  Completed = Completed
  Foreign = Foreign
  MaxUpsets = 3
  Nil = Nil
INVARIANTS
  StartupTypeOK
PROPERTIES
  ReplacesWhatItSaw
  ServesOnceDefined
CHECK_DEADLOCK FALSE
