\* every fault of the environment; a is a file busybox is loaded from
CONSTANTS
  a = a aa = aa b = b d = d l = l x = x
  da = da db = db alt = alt torn = torn
  Path = {a, b, d, l, x}
  NoPath = NoPath
  Data = {da, db, alt, torn}
  Torn = torn
  NoData = NoData
  Above <- MCAbove
  Into <- MCInto
  MaxLinks = 3
  Orig <- MCOrig
  Hidden = {l}
  Tools = {a}
  Working <- MCWorking
  Kernels = {"1"}
  Images <- SomeImages
  Drifts <- FileDrifts
  Faults = {"power", "mount", "copy", "ro", "image"}
  MaxEvents = 3
SPECIFICATION Spec
INVARIANTS CleanBoot NoImageNoBoot
