SPECIFICATION ScaleSpec
CONSTANTS
  Nil = Nil
  Controller = {c1, c2}
  Target = {t1}
  Autoscaled = {t1}
  Deployed = {t1}
  Size <- MCSize
  TargeSizes <- MCTargeSizes
  MaxDisruptions = 1
INVARIANTS
  ScaleTypeOK
  EditIsValid
  BelowOneIsRefused
  RaisedBoundHolds
PROPERTIES
  UpdateHPAIsAtomic
  OkMeansApplied
SYMMETRY
  MCSymmetry
