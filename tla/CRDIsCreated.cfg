SPECIFICATION FairStartup
CONSTANTS
  c1 = c1
  c2 = c2
  c3 = c3
  Controller = {c1}
  createCRD <- MCcreateCRD
  Preset = Preset
  Completed = Completed
  Foreign = Foreign
  MaxUpsets = 1
  Nil = Nil
PROPERTIES
  CRDIsCreated
CHECK_DEADLOCK FALSE
