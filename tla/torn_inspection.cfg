SPECIFICATION Spec
CONSTANTS
  w1 = w1
  w2 = w2
  d1 = d1
  i1 = i1
  g1 = g1
  g2 = g2
  g3 = g3
  NoDoc = NoDoc
  NoGeneration = NoGeneration
  Docs = {d1}
  Workers = {w1}
  Inspectors = {i1}
  Generations = {g1, g2}
  Length <- UnequalLengths
  MaxMigrations = 2
INVARIANTS
  InspectionIsWhole
CHECK_DEADLOCK FALSE
