\* a listed file replaced by a directory or a dead link
CONSTANTS
  a = a aa = aa b = b d = d l = l x = x
  da = da db = db alt = alt torn = torn
  Path = {a, aa, b, d, l, x}
  NoPath = NoPath
  Data = {da, db, alt, torn}
  Torn = torn
  NoData = NoData
  Above <- MCAbove
  Into <- MCInto
  MaxLinks = 3
  Orig <- MCOrig
  Hidden = {}
  Tools = {}
  Working <- MCWorking
  Kernels = {"1"}
  Images <- GoodImage
  Drifts <- AllDrifts
  Faults = {}
  MaxEvents = 1
SPECIFICATION Spec
INVARIANTS RecoversModified
