SPECIFICATION FairSpec
CONSTANTS
  u = u
  v = v
  g = g
  UGRD = UGRD
  VGRD = VGRD
  GUST = GUST
  above = above
  f6 = f6
  f9 = f9
  Worker = {w1, w2}
  Name = {u, v, g}
  Token = {UGRD, VGRD, GUST, above, f6, f9}
  Tokens <- MCTokens
  Minimum = {u, v}
  Complete = {u, v, g}
  Requirement <- MCRequirement
  Publication <- MCPublication
  MaxPublications = 1
  MaxRuns = 2
INVARIANTS
  TypeOK
  UsableMeansMinimum
  SliceIsItsMessage
PROPERTIES
  NeverBackwards
  MinimumPromotes
CHECK_DEADLOCK FALSE
