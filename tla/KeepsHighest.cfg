SPECIFICATION ScaleSpec
CONSTANTS
  Nil = Nil
  Controller = {c1}
  Target = {t1}
  Autoscaled = {t1}
  Deployed = {t1}
  Size <- MCSize
  TargeSizes <- MCTargeSizes
  MaxDisruptions = 0
PROPERTY
  KeepsHighest
