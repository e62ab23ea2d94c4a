SPECIFICATION Spec
CONSTANTS
  r1 = r1
  r2 = r2
  r3 = r3
  d1 = d1
  d2 = d2
  d3 = d3
  k1 = k1
  NoDoc = NoDoc
  NoEntity = NoEntity
  Trash = Trash
  Requests = {r1, r2, r3}
  Kbs = {k1}
  Docs = {d1, d2, d3}
  KbOf <- AllInOne
  Calls = {"upload", "delete", "deletekb"}
  Faults = {"io", "cleanup", "refuse", "crash"}
  MaxRequests = 6
  MaxFaults = 3
SYMMETRY Alike
INVARIANTS
  TypeOK
  BytesOutliveRows
  CarefulDeletionsKeepFiles
  OrphansHaveCauses
PROPERTIES
  ImplementsStore
