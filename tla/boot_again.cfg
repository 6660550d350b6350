\* faults of every kind but a lost image, with fairness
CONSTANTS
  a = a aa = aa b = b d = d l = l x = x
  da = da db = db alt = alt torn = torn
  Path = {a, b, d, l, x}
  NoPath = NoPath
  Data = {da, db, alt, torn}
  Torn = torn
  NoData = NoData
  Above <- MCAbove
  Into <- MCInto
  MaxLinks = 3
  Orig <- MCOrig
  Hidden = {}
  Tools = {}
  Working <- MCWorking
  Kernels = {"1"}
  Images <- GoodImage
  Drifts <- LiveDrifts
  Faults = {"power", "mount", "copy", "ro"}
  MaxEvents = 3
SPECIFICATION FairSpec
PROPERTY AlwaysRightAgain
