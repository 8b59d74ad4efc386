SPECIFICATION Spec
CONSTANTS
  gfs = gfs
  ecmwf = ecmwf
  f1 = f1
  f2 = f2
  imported = imported
  platform = platform
  Origin = {imported, platform}
  None = None
  Worker = {w1, w2}
  Cycle = {gfs, ecmwf}
  Field = {f1, f2}
  Inventory <- MCInventory
  Ask <- MCAsk
  MaxCalls = 3
INVARIANTS
  CountsAreNotInflated
CHECK_DEADLOCK FALSE
