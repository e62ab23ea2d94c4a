SPECIFICATION FairSpec
CONSTANTS
  w1 = w1
  w2 = w2
  r1 = r1
  r2 = r2
  j1 = j1
  j2 = j2
  api = api
  worker = worker
  c1 = c1
  c2 = c2
  c3 = c3
  c4 = c4
  Jobs = {j1}
  Workers = {w1, w2}
  Requests = {r1}
  Procs = {w1, w2, r1}
  ProcOf <- OneThreadEach
  Conns = {c1, c2, c3}
  PoolSize = 1
  MaxProcessingAttempts = 4
  MaxRetries = 3
  NoJob = NoJob
  NoConn = NoConn
  Calls = {"upload", "delete"}
  Faults = {"crash", "unsent"}
  MaxRequests = 2
  MaxFaults = 1
INVARIANTS
  PendingIsObservable
PROPERTIES
  DispatchedJobFinishes
