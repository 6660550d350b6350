\* drift of every kind, no fault of the scripts' commands
CONSTANTS
  a = a aa = aa b = b d = d l = l x = x
  da = da db = db alt = alt torn = torn
  Path = {a, aa, b, d, l, x}
  NoPath = NoPath
  Data = {da, db, alt, torn}
  Torn = torn
  NoData = NoData
  Above <- MCAbove
  Into <- MCInto
  MaxLinks = 3
  Orig <- MCOrig
  Hidden = {}
  Tools = {}
  Working <- MCWorking
  Kernels = {"absent", "0", "1"}
  Images <- AllImages
  Drifts <- AllDrifts
  Faults = {}
  MaxEvents = 2
SPECIFICATION Spec
INVARIANTS TypeOK DetectionExact RecoveryExact CleanBoot
