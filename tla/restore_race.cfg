SPECIFICATION Spec
CONSTANTS
  r1 = r1
  r2 = r2
  r3 = r3
  d1 = d1
  d2 = d2
  d3 = d3
  k1 = k1
  NoDoc = NoDoc
  NoEntity = NoEntity
  Trash = Trash
  Requests = {r1, r2}
  Kbs = {k1}
  Docs = {d1, d2}
  KbOf <- AllInOne
  Calls = {"upload", "delete", "deletekb"}
  Faults = {}
  MaxRequests = 4
  MaxFaults = 0
INVARIANTS
  DocumentsKeepFiles
