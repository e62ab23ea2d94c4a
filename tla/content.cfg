SPECIFICATION Spec
CONSTANTS
  w1 = w1
  w2 = w2
  d1 = d1
  i1 = i1
  g1 = g1
  g2 = g2
  g3 = g3
  NoDoc = NoDoc
  NoGeneration = NoGeneration
  Docs = {d1}
  Workers = {w1, w2}
  Inspectors = {i1}
  Generations = {g1, g2, g3}
  Length <- UnequalLengths
  MaxMigrations = 4
SYMMETRY Alike
INVARIANTS
  TypeOK
  ContentWhole
  ReadyHasContent
  ContentHasDocument
  EveryDocumentHasJob
  MigrationsApply
CHECK_DEADLOCK FALSE
