---------------------- MODULE IngestionPipelineProofs ----------------------
(***************************************************************************)
(* Theorems about IngestionPipeline, for every number of jobs, threads,    *)
(* processes, connections, attempts and retries.                           *)
(***************************************************************************)
EXTENDS IngestionPipeline, JobRowsProofs, FiniteSetTheorems, TLAPS

-----------------------------------------------------------------------------
(***************************************************************************)
(* Connections and locks.                                                  *)
(***************************************************************************)
\* A statement runs on a connection, and leaves the others in the pool.
LEMMA StatementConnection ==
  ASSUME PoolOK, NEW s \in Sessions, Connectable(s)
  PROVE  ConnFor(s) \in Conns /\ Rest(s) \in Seq(Conns)
<1>1. ProcOf[s] \in Procs
  BY SessionsAssumption
<1>2. PoolOf(s) \in Seq(Conns)
  BY <1>1 DEF PoolOK, PoolOf
<1>3. Rest(s) \in Seq(Conns)
  BY <1>2 DEF Rest
<1>4. CASE conn[s] # NoConn
  BY <1>3, <1>4 DEF PoolOK, ConnFor
<1>5. CASE conn[s] = NoConn /\ PoolOf(s) # <<>>
  BY <1>2, <1>3, <1>5 DEF ConnFor
<1>6. CASE conn[s] = NoConn /\ PoolOf(s) = <<>>
  <2>1. \E c \in Conns : c \notin Open
    BY <1>6 DEF Connectable
  <2>2. (CHOOSE c \in Conns : c \notin Open) \in Conns
    BY <2>1
  <2> QED
    BY <1>3, <1>6, <2>2 DEF ConnFor
<1> QED
  BY <1>4, <1>5, <1>6

\* Running a statement, with or without ending the transaction, keeps the pool
\* well formed.
LEMMA PoolStepType ==
  ASSUME PoolOK, NEW s \in Sessions, NEW lk \in LockTables,
         Hold(s, lk) \/ GiveBack(s, lk)
  PROVE  PoolOK'
<1>1. ConnFor(s) \in Conns /\ Rest(s) \in Seq(Conns) /\ ProcOf[s] \in Procs
  BY StatementConnection, SessionsAssumption DEF Hold, GiveBack
<1>2. conn' \in [Sessions -> Conns \cup {NoConn}]
  BY <1>1 DEF Hold, GiveBack, PoolOK
<1>3. idle' \in [Procs -> Seq(Conns)]
  <2>1. Append(Rest(s), ConnFor(s)) \in Seq(Conns)
    BY <1>1
  <2> QED
    BY <1>1, <2>1 DEF Hold, GiveBack, PoolOK
<1>4. locks' \in LockTables
  <2>1. NoLocks \in [Jobs -> Nat]
    BY DEF NoLocks
  <2> QED
    BY <1>1, <2>1 DEF Hold, GiveBack, LockTables
<1> QED
  BY <1>2, <1>3, <1>4 DEF PoolOK

\* Changing one entry of a table of counts leaves a table of counts.
LEMMA CountTable ==
  ASSUME NEW D, NEW E, NEW f \in [D -> [E -> Nat]],
         NEW d \in D, NEW e \in E, NEW v \in Nat
  PROVE  [f EXCEPT ![d][e] = v] \in [D -> [E -> Nat]]
<1>1. [f[d] EXCEPT ![e] = v] \in [E -> Nat]
  OBVIOUS
<1> QED
  BY <1>1

\* Taking and releasing advisory locks keeps the lock table well formed.
LEMMA LockTableType ==
  ASSUME PoolOK, NEW s \in Sessions, Connectable(s), NEW j \in Jobs
  PROVE  Locked(s, j) \in LockTables /\ Unlocked(s, j) \in LockTables
<1>1. ConnFor(s) \in Conns
  BY StatementConnection
<1>2. locks \in [Conns -> [Jobs -> Nat]] /\ locks[ConnFor(s)][j] \in Nat
  BY <1>1 DEF PoolOK, LockTables
<1>3. Locked(s, j) \in LockTables
  <2>1. locks[ConnFor(s)][j] + 1 \in Nat
    BY <1>2
  <2> QED
    BY <1>1, <1>2, <2>1, CountTable DEF Locked, LockTables
<1>4. Unlocked(s, j) \in LockTables
  <2>1. (IF locks[ConnFor(s)][j] = 0 THEN 0 ELSE locks[ConnFor(s)][j] - 1) \in Nat
    BY <1>2
  <2> QED
    BY <1>1, <1>2, <2>1, CountTable DEF Unlocked, LockTables
<1> QED
  BY <1>3, <1>4

-----------------------------------------------------------------------------
(***************************************************************************)
(* Messages and threads.                                                   *)
(***************************************************************************)
LEMMA PutType ==
  ASSUME QueueOK, NEW j \in Jobs, NEW n \in Deliveries
  PROVE  Put(j, n) \in [Jobs -> [Deliveries -> Nat]]
<1>1. queue[j][n] + 1 \in Nat
  BY DEF QueueOK
<1> QED
  BY <1>1, CountTable DEF QueueOK, Put

LEMMA TakeType ==
  ASSUME QueueOK, NEW j \in Jobs, NEW n \in Deliveries, queue[j][n] > 0
  PROVE  Take(j, n) \in [Jobs -> [Deliveries -> Nat]]
<1>1. queue[j][n] - 1 \in Nat
  BY DEF QueueOK
<1> QED
  BY <1>1, CountTable DEF QueueOK, Take

\* A thread that is not idle has a job.
LEMMA BusyHasJob ==
  ASSUME SessionOK, NEW s \in Sessions, pc[s] # "idle"
  PROVE  task[s] \in Jobs
BY DEF SessionOK

\* A thread that moves to another of its steps keeps its job.
LEMMA GotoType ==
  ASSUME SessionOK, NEW s \in Sessions, pc[s] # "idle",
         NEW step \in StepsOf(s), Goto(s, step),
         obj' \in [Sessions -> Row], UNCHANGED <<task, retries>>
  PROVE  SessionOK'
<1>1. step # "idle" /\ step \in WorkerSteps \cup RequestSteps
  BY DEF StepsOf, WorkerSteps, RequestSteps
<1>2. pc' \in [Sessions -> {"idle"} \cup WorkerSteps \cup RequestSteps]
  BY <1>1 DEF Goto, SessionOK
<1>3. \A t \in Sessions : /\ pc'[t] \in {"idle"} \cup StepsOf(t)
                          /\ pc'[t] = "idle" <=> task[t] = NoJob
  BY <1>1 DEF Goto, SessionOK
<1> QED
  BY <1>2, <1>3 DEF SessionOK, StepsOf

LEMMA LeaveType ==
  ASSUME SessionOK, NEW s \in Sessions, Leave(s)
  PROVE  SessionOK'
<1>1. NoRow \in Row /\ 0 \in Deliveries
  BY LimitsAssumption DEF Row, Deliveries
<1> QED
  BY <1>1 DEF Leave, Goto, SessionOK, StepsOf

LEMMA RaiseType ==
  ASSUME SessionOK, QueueOK, NEW w \in Workers, pc[w] # "idle", Raise(w)
  PROVE  SessionOK' /\ QueueOK'
<1>1. w \in Sessions
  BY DEF Sessions
<1>2. SessionOK'
  BY <1>1, LeaveType DEF Raise
<1>3. task[w] \in Jobs
  BY <1>1, BusyHasJob
<1>4. CASE retries[w] < MaxRetries
  <2>1. retries[w] + 1 \in Deliveries
    BY <1>1, <1>4, LimitsAssumption DEF SessionOK, Deliveries
  <2> QED
    BY <1>2, <1>3, <1>4, <2>1, PutType DEF Raise, QueueOK
<1>5. CASE ~(retries[w] < MaxRetries)
  BY <1>2, <1>5 DEF Raise, QueueOK
<1> QED
  BY <1>4, <1>5

LEMMA FailType ==
  ASSUME SessionOK, QueueOK, NEW s \in Sessions, pc[s] # "idle", Fail(s)
  PROVE  SessionOK' /\ QueueOK'
<1>1. CASE s \in Workers
  BY <1>1, RaiseType DEF Fail
<1>2. CASE s \notin Workers
  BY <1>2, LeaveType DEF Fail, Return, QueueOK
<1> QED
  BY <1>1, <1>2

\* A commit, successful or not, keeps every part of the state well formed.
LEMMA SaveType ==
  ASSUME TypeOK, NEW s \in Sessions, pc[s] # "idle",
         NEW lk \in LockTables, NEW new \in JobRow, NEW step \in StepsOf(s),
         Save(s, lk, new, step)
  PROVE  PoolOK' /\ SessionOK' /\ QueueOK' /\ job' \in [Jobs -> Row]
<1>1. PoolOK'
  BY PoolStepType DEF Save, TypeOK
<1>2. task[s] \in Jobs /\ job[task[s]] \in Row /\ obj[s] \in Row
  BY BusyHasJob DEF TypeOK, DbOK, SessionOK
<1>3. CASE Accepts(s, new)
  <2>1. Flush(job[task[s]], obj[s], new) \in JobRow
    BY <1>2, <1>3, PresentRow, FlushedRow DEF Accepts
  <2>2. job' \in [Jobs -> Row]
    BY <1>2, <1>3, <2>1 DEF Save, TypeOK, DbOK, Row
  <2>3. obj' \in [Sessions -> Row]
    BY <1>3 DEF Save, TypeOK, SessionOK, Row
  <2>4. SessionOK'
    BY <1>3, <2>3, GotoType DEF Save, TypeOK
  <2> QED
    BY <1>1, <1>3, <2>2, <2>4 DEF Save, TypeOK, QueueOK
<1>4. CASE ~Accepts(s, new)
  BY <1>1, <1>4, FailType DEF Save, TypeOK, DbOK
<1> QED
  BY <1>3, <1>4

-----------------------------------------------------------------------------
(***************************************************************************)
(* Type correctness, action by action.                                     *)
(***************************************************************************)
LEMMA WorkerStepType ==
  ASSUME TypeOK, NEW w \in Workers, WorkerStep(w)
  PROVE  TypeOK'
<1> USE DEF TypeOK
<1>1. w \in Sessions /\ StepsOf(w) = WorkerSteps
  BY DEF Sessions, StepsOf
<1>2. locks \in LockTables
  BY DEF PoolOK
<1>3. pc[w] # "idle" => task[w] \in Jobs /\ job[task[w]] \in Row /\ obj[w] \in Row
  BY <1>1, BusyHasJob DEF DbOK, SessionOK
<1>4. CASE \E j \in Jobs, n \in Deliveries : Receive(w, j, n)
  <2>1. PICK j \in Jobs, n \in Deliveries : Receive(w, j, n)
    BY <1>4
  <2>2. QueueOK'
    BY <2>1, TakeType DEF Receive, QueueOK
  <2>3. SessionOK'
    <3>1. "lock" \in WorkerSteps
      BY DEF WorkerSteps
    <3>2. j # NoJob /\ "lock" # "idle"
      BY NullAssumption
    <3>3. \A t \in Sessions : /\ pc'[t] \in {"idle"} \cup StepsOf(t)
                              /\ pc'[t] = "idle" <=> task'[t] = NoJob
      BY <1>1, <2>1, <3>1, <3>2 DEF Receive, Goto, SessionOK
    <3>4. /\ pc' \in [Sessions -> {"idle"} \cup WorkerSteps \cup RequestSteps]
          /\ task' \in [Sessions -> Jobs \cup {NoJob}]
          /\ retries' \in [Sessions -> Deliveries]
          /\ obj' \in [Sessions -> Row]
      BY <1>1, <2>1, <3>1 DEF Receive, Goto, SessionOK
    <3> QED
      BY <3>3, <3>4 DEF SessionOK, StepsOf
  <2> QED
    BY <2>1, <2>2, <2>3 DEF Receive, db, pool, budget, DbOK, PoolOK
<1>5. CASE TryLock(w)
  <2>1. pc[w] # "idle" /\ "load" \in StepsOf(w)
    BY <1>1, <1>5 DEF TryLock, WorkerSteps
  <2>2. CASE Grantable(w, task[w])
    <3>1. Hold(w, Locked(w, task[w])) /\ Connectable(w)
      BY <1>5, <2>2 DEF TryLock, Hold
    <3>2. PoolOK'
      BY <1>1, <1>3, <2>1, <3>1, LockTableType, PoolStepType
    <3>3. SessionOK'
      BY <1>1, <1>5, <2>1, <2>2, GotoType DEF TryLock, SessionOK
    <3> QED
      BY <1>5, <2>2, <3>2, <3>3 DEF TryLock, db, budget, DbOK, QueueOK
  <2>3. CASE ~Grantable(w, task[w])
    <3>1. PoolOK'
      BY <1>1, <1>2, <1>5, <2>3, PoolStepType DEF TryLock
    <3>2. SessionOK' /\ QueueOK'
      BY <1>5, <2>1, <2>3, RaiseType DEF TryLock
    <3> QED
      BY <1>5, <3>1, <3>2 DEF TryLock, db, budget, DbOK
  <2> QED
    BY <2>2, <2>3
<1>6. CASE LoadFinished(w)
  <2>1. pc[w] # "idle" /\ "release" \in StepsOf(w)
    BY <1>1, <1>6 DEF LoadFinished, WorkerSteps
  <2>2. SessionOK'
    BY <1>1, <1>6, <2>1, GotoType DEF LoadFinished, SessionOK
  <2> QED
    BY <1>6, <2>2 DEF LoadFinished, db, pool, budget, DbOK, PoolOK, QueueOK
<1>7. ASSUME NEW row \in JobRow, NEW step \in StepsOf(w), pc[w] # "idle",
             LoadedAs(w, row, step)
      PROVE  TypeOK'
  <2>1. row \in Row
    BY DEF Row
  <2>2. PoolOK'
    BY <1>1, <1>2, <1>7, PoolStepType DEF LoadedAs
  <2>3. DbOK'
    BY <1>7, <2>1 DEF LoadedAs, DbOK
  <2>4. obj' \in [Sessions -> Row]
    BY <1>1, <1>7, <2>1 DEF LoadedAs, SessionOK
  <2>5. SessionOK'
    BY <1>1, <1>7, <2>4, GotoType DEF LoadedAs
  <2> QED
    BY <1>7, <2>2, <2>3, <2>5 DEF LoadedAs, budget, QueueOK
<1>8. CASE LoadQueued(w)
  <2>1. pc[w] # "idle" /\ "document" \in StepsOf(w)
    BY <1>1, <1>8 DEF LoadQueued, WorkerSteps
  <2> QED
    BY <1>3, <1>7, <1>8, <2>1, ChangedRows DEF LoadQueued
<1>9. CASE LoadInterrupted(w)
  <2>1. pc[w] # "idle" /\ "verify" \in StepsOf(w)
    BY <1>1, <1>9 DEF LoadInterrupted, WorkerSteps
  <2> QED
    BY <1>3, <1>7, <1>9, <2>1, ChangedRows DEF LoadInterrupted
<1>10. ASSUME NEW new \in JobRow, NEW step \in StepsOf(w), pc[w] # "idle",
              Save(w, locks, new, step)
       PROVE  PoolOK' /\ SessionOK' /\ QueueOK' /\ job' \in [Jobs -> Row]
  BY <1>1, <1>2, <1>10, SaveType
<1>11. CASE Verify(w)
  <2>1. pc[w] # "idle" /\ "document" \in StepsOf(w)
    BY <1>1, <1>11 DEF Verify, WorkerSteps
  <2>2. StartAttempt(obj[w]) \in JobRow
    BY <1>3, <2>1, ChangedRows
  <2> QED
    BY <1>10, <1>11, <2>1, <2>2 DEF Verify, DbOK, budget
<1>12. CASE GetDocument(w)
  <2>1. pc[w] # "idle" /\ "inspect" \in StepsOf(w)
    BY <1>1, <1>12 DEF GetDocument, WorkerSteps
  <2>2. PoolOK'
    BY <1>1, <1>2, <1>12, PoolStepType DEF GetDocument
  <2>3. SessionOK' /\ QueueOK'
    <3>1. CASE job[task[w]] = NoRow
      BY <1>12, <2>1, <3>1, RaiseType DEF GetDocument
    <3>2. CASE job[task[w]] # NoRow
      BY <1>1, <1>12, <2>1, <3>2, GotoType DEF GetDocument, SessionOK, QueueOK
    <3> QED
      BY <3>1, <3>2
  <2> QED
    BY <1>12, <2>2, <2>3 DEF GetDocument, db, budget, DbOK
<1>13. ASSUME pc[w] # "idle",
              \/ StageFailed(w)
              \/ StageUnavailable(w)
              \/ \E status \in JobStatuses, step \in WorkerSteps :
                   StageDone(w, status, step)
       PROVE  PoolOK' /\ SessionOK' /\ QueueOK' /\ job' \in [Jobs -> Row]
  <2>1. {"release", "abort"} \subseteq StepsOf(w)
    BY <1>1 DEF WorkerSteps
  <2>2. /\ \A code \in FailureCodes : MarkFailed(obj[w], code) \in JobRow
        /\ \A status \in JobStatuses : Transition(obj[w], status) \in JobRow
    BY <1>3, <1>13, ChangedRows, TransitionType
  <2>3. /\ "permanent" \in FailureCodes
        /\ "storage_temporarily_unavailable" \in FailureCodes
        /\ "queued" \in JobStatuses
    BY DEF FailureCodes, JobStatuses
  <2>4. CASE StageFailed(w)
    BY <1>10, <1>13, <2>1, <2>2, <2>3, <2>4 DEF StageFailed
  <2>5. CASE StageUnavailable(w)
    BY <1>10, <1>13, <2>1, <2>2, <2>3, <2>5 DEF StageUnavailable
  <2>6. ASSUME NEW status \in JobStatuses, NEW step \in WorkerSteps,
               StageDone(w, status, step)
        PROVE  PoolOK' /\ SessionOK' /\ QueueOK' /\ job' \in [Jobs -> Row]
    BY <1>1, <1>10, <1>13, <2>2, <2>6 DEF StageDone
  <2> QED
    BY <1>13, <2>4, <2>5, <2>6
<1>14. CASE Inspect(w)
  <2>1. pc[w] # "idle" /\ "extract" \in WorkerSteps /\ "extracting" \in JobStatuses
    BY <1>14 DEF Inspect, WorkerSteps, JobStatuses, ActiveStatuses
  <2> QED
    BY <1>13, <1>14, <2>1 DEF Inspect, DbOK, budget
<1>15. CASE Extract(w)
  <2>1. pc[w] # "idle" /\ "chunk" \in WorkerSteps /\ "chunking" \in JobStatuses
    BY <1>15 DEF Extract, WorkerSteps, JobStatuses, ActiveStatuses
  <2> QED
    BY <1>13, <1>15, <2>1 DEF Extract, DbOK, budget
<1>16. CASE ChunkFailed(w)
  <2>1. pc[w] # "idle"
    BY <1>16 DEF ChunkFailed
  <2> QED
    BY <1>13, <1>16, <2>1 DEF ChunkFailed, DbOK, budget
<1>17. CASE ReplaceCanonicalContent(w)
  <2>1. /\ pc[w] # "idle" /\ "release" \in WorkerSteps
        /\ "ready_for_indexing" \in JobStatuses
    BY <1>17 DEF ReplaceCanonicalContent, WorkerSteps, JobStatuses, FinalStatuses
  <2>2. PoolOK' /\ SessionOK' /\ QueueOK' /\ job' \in [Jobs -> Row]
    BY <1>13, <1>17, <2>1 DEF ReplaceCanonicalContent
  <2>3. content' \in SUBSET Jobs
    BY <1>3, <1>17, <2>1 DEF ReplaceCanonicalContent, Stored, DbOK
  <2> QED
    BY <1>17, <2>2, <2>3 DEF ReplaceCanonicalContent, DbOK, budget
<1>18. CASE RejectCanonicalContent(w)
  <2>1. pc[w] # "idle"
    BY <1>18 DEF RejectCanonicalContent
  <2>2. PoolOK' /\ SessionOK' /\ QueueOK'
    BY <1>1, <1>2, <1>18, <2>1, PoolStepType, RaiseType DEF RejectCanonicalContent
  <2> QED
    BY <1>18, <2>2 DEF RejectCanonicalContent, Fault, db, DbOK
<1>19. CASE Release(w)
  <2>1. pc[w] # "idle"
    BY <1>19 DEF Release
  <2>2. Unlocked(w, task[w]) \in LockTables
    BY <1>1, <1>3, <1>19, <2>1, LockTableType DEF Release, GiveBack
  <2>3. PoolOK'
    BY <1>1, <1>19, <2>2, PoolStepType DEF Release
  <2>4. SessionOK' /\ QueueOK'
    BY <1>1, <1>19, <2>1, LeaveType, RaiseType DEF Release, Return, QueueOK
  <2> QED
    BY <1>19, <2>3, <2>4 DEF Release, db, budget, DbOK
<1> QED
  BY <1>4, <1>5, <1>6, <1>8, <1>9, <1>11, <1>12, <1>14, <1>15, <1>16, <1>17,
     <1>18, <1>19 DEF WorkerStep

LEMMA StartCallType ==
  ASSUME TypeOK, NEW r \in Requests, StartCall(r)
  PROVE  TypeOK'
<1> USE DEF TypeOK
<1>1. /\ r \in Sessions /\ r \notin Workers
      /\ StepsOf(r) = RequestSteps
  BY SessionsAssumption DEF Sessions, StepsOf
<1>2. locks \in LockTables
  BY DEF PoolOK
<1>3. PICK j \in Jobs : \/ Upload(r, j) \/ FindForRetry(r, j)
                        \/ Delete(r, j) \/ FindForReprocessing(r, j)
  BY DEF StartCall
<1>4. ASSUME NEW kind, Call(r, kind)
      PROVE  QueueOK' /\ requests' \in Nat /\ faults' \in Nat
  BY <1>4 DEF Call, QueueOK
<1>5. ASSUME NEW row \in Row, NEW step \in RequestSteps, Begin(r, j, row, step)
      PROVE  SessionOK'
  <2>1. step # "idle" /\ j # NoJob
    BY NullAssumption DEF RequestSteps
  <2>2. \A t \in Sessions : /\ pc'[t] \in {"idle"} \cup StepsOf(t)
                            /\ pc'[t] = "idle" <=> task'[t] = NoJob
    BY <1>1, <1>5, <2>1 DEF Begin, Goto, SessionOK
  <2> QED
    BY <1>1, <1>5, <2>2 DEF Begin, Goto, SessionOK, StepsOf
<1>6. ASSUME Hold(r, locks) \/ GiveBack(r, locks)
      PROVE  PoolOK'
  BY <1>1, <1>2, <1>6, PoolStepType
<1>7. CASE Upload(r, j)
  <2>1. "refresh" \in RequestSteps /\ QueuedRow \in Row
    BY QueuedRowType DEF RequestSteps, Row
  <2>2. SessionOK' /\ PoolOK' /\ QueueOK' /\ requests' \in Nat /\ faults' \in Nat
    BY <1>4, <1>5, <1>6, <1>7, <2>1 DEF Upload
  <2>3. DbOK'
    BY <1>7, <2>1 DEF Upload, DbOK
  <2> QED
    BY <2>2, <2>3
<1>8. CASE FindForRetry(r, j)
  <2>1. job[j] \in JobRow
    BY <1>8, PresentRow DEF FindForRetry, DbOK
  <2>2. CASE job[j].status = "ready_for_indexing"
    BY <1>4, <1>6, <1>8, <2>2 DEF FindForRetry, session, SessionOK, db, DbOK
  <2>3. CASE job[j].status # "ready_for_indexing"
    <3>1. RetryStep(job[j].status) \in RequestSteps
      <4>1. job[j].status \in {"queued", "failed"} \cup ActiveStatuses
        BY <2>1, <2>3 DEF JobRow, JobStatuses, FinalStatuses
      <4> QED
        BY <4>1 DEF RetryStep, RequestSteps, ActiveStatuses
    <3>2. SessionOK' /\ PoolOK' /\ QueueOK' /\ requests' \in Nat /\ faults' \in Nat
      BY <1>4, <1>5, <1>6, <1>8, <2>1, <2>3, <3>1 DEF FindForRetry, Row
    <3> QED
      BY <1>8, <3>2 DEF FindForRetry, db, DbOK
  <2> QED
    BY <2>2, <2>3
<1>9. CASE Delete(r, j)
  <2>1. NoRow \in Row
    BY DEF Row
  <2>2. PoolOK' /\ QueueOK' /\ requests' \in Nat /\ faults' \in Nat
    BY <1>4, <1>6, <1>9 DEF Delete
  <2>3. DbOK'
    BY <1>9, <2>1 DEF Delete, DbOK
  <2> QED
    BY <1>9, <2>2, <2>3 DEF Delete, session, SessionOK
<1>10. CASE FindForReprocessing(r, j)
  <2>1. "reprocess" \in RequestSteps /\ job[j] \in Row
    BY DEF RequestSteps, DbOK
  <2>2. SessionOK' /\ PoolOK' /\ QueueOK' /\ requests' \in Nat /\ faults' \in Nat
    BY <1>4, <1>5, <1>6, <1>10, <2>1 DEF FindForReprocessing
  <2> QED
    BY <1>10, <2>2 DEF FindForReprocessing, db, DbOK
<1> QED
  BY <1>3, <1>7, <1>8, <1>9, <1>10

LEMMA RequestStepType ==
  ASSUME TypeOK, NEW r \in Requests, RequestStep(r)
  PROVE  TypeOK'
<1> USE DEF TypeOK
<1>1. /\ r \in Sessions /\ r \notin Workers
      /\ StepsOf(r) = RequestSteps
  BY SessionsAssumption DEF Sessions, StepsOf
<1>2. locks \in LockTables
  BY DEF PoolOK
<1>3. pc[r] # "idle"
  BY DEF RequestStep, Refresh, ResetFailed, LockReset, Unlock, Send, SendFails,
         RecordDispatch, Reprocess
<1>4. task[r] \in Jobs /\ job[task[r]] \in Row /\ obj[r] \in Row
  BY <1>1, <1>3, BusyHasJob DEF DbOK, SessionOK
<1>5. ResetJob(obj[r]) \in JobRow
  BY <1>4, ChangedRows
<1>6. ASSUME Hold(r, locks) \/ GiveBack(r, locks)
      PROVE  PoolOK'
  BY <1>1, <1>2, <1>6, PoolStepType
<1>7. ASSUME Return(r)
      PROVE  SessionOK' /\ QueueOK'
  BY <1>1, <1>7, LeaveType DEF Return, QueueOK
<1>8. {"send", "unlock", "record"} \subseteq StepsOf(r)
  BY <1>1 DEF RequestSteps
<1>9. CASE Refresh(r)
  <2>1. PoolOK'
    BY <1>6, <1>9 DEF Refresh
  <2>2. SessionOK' /\ QueueOK'
    <3>1. CASE job[task[r]] = NoRow
      BY <1>7, <1>9, <3>1 DEF Refresh
    <3>2. CASE job[task[r]] # NoRow
      <4>1. obj' \in [Sessions -> Row]
        BY <1>4, <1>9, <3>2 DEF Refresh, SessionOK
      <4>2. SessionOK'
        BY <1>1, <1>3, <1>8, <1>9, <3>2, <4>1, GotoType DEF Refresh
      <4> QED
        BY <1>9, <3>2, <4>2 DEF Refresh, QueueOK
    <3> QED
      BY <3>1, <3>2
  <2> QED
    BY <1>9, <2>1, <2>2 DEF Refresh, db, budget, DbOK
<1>10. CASE ResetFailed(r)
  <2>1. PoolOK' /\ SessionOK' /\ QueueOK' /\ job' \in [Jobs -> Row]
    BY <1>1, <1>2, <1>3, <1>5, <1>8, <1>10, SaveType DEF ResetFailed
  <2> QED
    BY <1>10, <2>1 DEF ResetFailed, DbOK, budget
<1>11. CASE LockReset(r)
  <2>1. PoolOK' /\ SessionOK' /\ QueueOK' /\ job' \in [Jobs -> Row]
    <3>1. CASE Grantable(r, task[r])
      <4>1. Save(r, Locked(r, task[r]), ResetJob(obj[r]), "unlock")
        BY <1>11, <3>1 DEF LockReset
      <4>2. Locked(r, task[r]) \in LockTables
        BY <1>1, <1>4, <4>1, LockTableType DEF Save, GiveBack
      <4> QED
        BY <1>1, <1>3, <1>5, <1>8, <4>1, <4>2, SaveType
    <3>2. CASE ~Grantable(r, task[r])
      BY <1>6, <1>7, <1>11, <3>2 DEF LockReset, DbOK
    <3> QED
      BY <3>1, <3>2
  <2> QED
    BY <1>11, <2>1 DEF LockReset, DbOK, budget
<1>12. CASE Unlock(r)
  <2>1. Unlocked(r, task[r]) \in LockTables
    BY <1>1, <1>4, <1>12, LockTableType DEF Unlock, Hold
  <2>2. PoolOK'
    BY <1>1, <1>12, <2>1, PoolStepType DEF Unlock
  <2>3. SessionOK'
    BY <1>1, <1>3, <1>8, <1>12, GotoType DEF Unlock, SessionOK
  <2> QED
    BY <1>12, <2>2, <2>3 DEF Unlock, db, budget, DbOK, QueueOK
<1>13. CASE Send(r)
  <2>1. 0 \in Deliveries
    BY LimitsAssumption DEF Deliveries
  <2>2. QueueOK'
    BY <1>4, <1>13, <2>1, PutType DEF Send, QueueOK
  <2>3. SessionOK'
    BY <1>1, <1>3, <1>8, <1>13, GotoType DEF Send, SessionOK
  <2> QED
    BY <1>13, <2>2, <2>3 DEF Send, db, pool, budget, DbOK, PoolOK
<1>14. CASE SendFails(r)
  <2>1. PoolOK'
    BY <1>6, <1>14 DEF SendFails, Close, pool, PoolOK
  <2>2. SessionOK' /\ QueueOK'
    BY <1>7, <1>14 DEF SendFails
  <2> QED
    BY <1>14, <2>1, <2>2 DEF SendFails, Fault, db, DbOK
<1>15. CASE RecordDispatch(r)
  <2>1. [job[task[r]] EXCEPT !.dispatched = TRUE] \in JobRow
        \/ job[task[r]] = NoRow
    BY <1>4, PresentRow DEF JobRow
  <2>2. job' \in [Jobs -> Row]
    BY <1>4, <1>15, <2>1 DEF RecordDispatch, DbOK, Row
  <2>3. PoolOK' /\ SessionOK' /\ QueueOK'
    BY <1>6, <1>7, <1>15 DEF RecordDispatch
  <2> QED
    BY <1>15, <2>2, <2>3 DEF RecordDispatch, DbOK, budget
<1>16. CASE Reprocess(r)
  <2>1. job' \in [Jobs -> Row]
    <3>1. CASE Accepts(r, ResetJob(obj[r]))
      <4>1. Flush(job[task[r]], obj[r], ResetJob(obj[r])) \in JobRow
        BY <1>4, <1>5, <3>1, PresentRow, FlushedRow DEF Accepts
      <4> QED
        BY <1>4, <1>16, <3>1, <4>1 DEF Reprocess, DbOK, Row
    <3>2. CASE ~Accepts(r, ResetJob(obj[r]))
      BY <1>16, <3>2 DEF Reprocess, DbOK
    <3> QED
      BY <3>1, <3>2
  <2>2. PoolOK' /\ SessionOK' /\ QueueOK'
    BY <1>6, <1>7, <1>16 DEF Reprocess
  <2> QED
    BY <1>16, <2>1, <2>2 DEF Reprocess, DbOK, budget
<1> QED
  BY <1>9, <1>10, <1>11, <1>12, <1>13, <1>14, <1>15, <1>16 DEF RequestStep

LEMMA FailureType ==
  ASSUME TypeOK, Failure
  PROVE  TypeOK'
<1> USE DEF TypeOK
<1>1. ASSUME NEW kind, Fault(kind)
      PROVE  requests' \in Nat /\ faults' \in Nat
  BY <1>1 DEF Fault
<1>2. ASSUME NEW p \in Procs, Crash(p)
      PROVE  TypeOK'
  <2>1. NoRow \in Row /\ 0 \in Deliveries /\ NoLocks \in [Jobs -> Nat]
    BY LimitsAssumption DEF Row, Deliveries, NoLocks
  <2>2. SessionOK'
    BY <1>2, <2>1 DEF Crash, SessionOK, StepsOf
  <2>3. PoolOK'
    <3>1. <<>> \in Seq(Conns)
      OBVIOUS
    <3>2. conn' \in [Sessions -> Conns \cup {NoConn}]
      BY <1>2 DEF Crash, PoolOK
    <3>3. idle' \in [Procs -> Seq(Conns)]
      BY <1>2, <3>1 DEF Crash, PoolOK
    <3>4. locks' \in LockTables
      BY <1>2, <2>1 DEF Crash, PoolOK, LockTables
    <3> QED
      BY <3>2, <3>3, <3>4 DEF PoolOK
  <2>4. QueueOK'
    <3>1. ASSUME NEW j \in Jobs, NEW n \in Deliveries
          PROVE  queue[j][n] + Cardinality(Unacknowledged(p, j, n)) \in Nat
      <4>1. Unacknowledged(p, j, n) \subseteq Sessions
        BY DEF Unacknowledged, Sessions
      <4>2. IsFiniteSet(Unacknowledged(p, j, n))
        BY <4>1, SessionsAssumption, FS_Subset
      <4>3. Cardinality(Unacknowledged(p, j, n)) \in Nat
        BY <4>2, FS_CardinalityType
      <4> QED
        BY <4>3 DEF QueueOK
    <3> QED
      BY <1>2, <3>1 DEF Crash, QueueOK
  <2> QED
    BY <1>1, <1>2, <2>2, <2>3, <2>4 DEF Crash, db, DbOK
<1>3. ASSUME NEW w \in Workers, Redeliver(w)
      PROVE  TypeOK'
  <2>1. w \in Sessions /\ task[w] \in Jobs /\ retries[w] \in Deliveries
    BY <1>3, BusyHasJob DEF Redeliver, Sessions, SessionOK
  <2>2. QueueOK'
    BY <1>3, <2>1, PutType DEF Redeliver, QueueOK
  <2> QED
    BY <1>1, <1>3, <2>2 DEF Redeliver, db, session, pool, DbOK, SessionOK, PoolOK
<1>4. ASSUME NEW j \in Jobs, NEW n \in Deliveries, LoseMessage(j, n)
      PROVE  TypeOK'
  <2>1. QueueOK'
    BY <1>4, TakeType DEF LoseMessage, QueueOK
  <2> QED
    BY <1>1, <1>4, <2>1 DEF LoseMessage, db, session, pool, DbOK, SessionOK, PoolOK
<1> QED
  BY <1>2, <1>3, <1>4 DEF Failure

LEMMA InitType == Init => TypeOK
<1> SUFFICES ASSUME Init PROVE TypeOK
  OBVIOUS
<1>1. NoRow \in Row /\ 0 \in Deliveries /\ <<>> \in Seq(Conns)
  BY LimitsAssumption DEF Row, Deliveries
<1> QED
  BY <1>1 DEF Init, TypeOK, DbOK, SessionOK, PoolOK, QueueOK, StepsOf, LockTables, NoLocks

LEMMA StutterType == TypeOK /\ UNCHANGED vars => TypeOK'
BY DEF TypeOK, DbOK, SessionOK, PoolOK, QueueOK, vars, db, session, pool, budget

\* Rows, threads, pools, locks and messages keep their types in every behaviour
\* of the pipeline: no count goes below zero, no thread is left busy without a
\* job, no step yields a row the table could not hold.
THEOREM TypeCorrect == Spec => []TypeOK
<1>1. TypeOK /\ [Next]_vars => TypeOK'
  BY WorkerStepType, StartCallType, RequestStepType, FailureType, StutterType DEF Next
<1> QED
  BY InitType, <1>1, PTL DEF Spec

-----------------------------------------------------------------------------
(***************************************************************************)
(* Rows and content.  Nothing is assumed about threads and processes here: *)
(* rows stay consistent also where the lock does not exclude anybody.      *)
(***************************************************************************)
\* The statuses the service layer's changes lead to.
LEMMA ChangedStatus ==
  ASSUME NEW row \in Row
  PROVE  /\ \A target \in JobStatuses : Transition(row, target).status = target
         /\ ResetJob(row).status = "queued"
         /\ StartAttempt(row).status = "verifying"
         /\ \A code \in FailureCodes : MarkFailed(row, code).status = "failed"
<1>1. row \in RowShape
  BY RowsHaveShape
<1>2. \A target \in JobStatuses : Transition(row, target).status = target
  BY <1>1 DEF Transition, RowShape
<1>3. /\ Transition(row, "queued") \in JobRow /\ Transition(row, "queued").status = "queued"
      /\ Transition(row, "verifying") \in JobRow
      /\ Transition(row, "verifying").status = "verifying"
      /\ Transition(row, "failed") \in JobRow /\ Transition(row, "failed").status = "failed"
  BY <1>2, TransitionType DEF JobStatuses, ActiveStatuses, FinalStatuses
<1>4. ResetJob(row).status = "queued"
  BY <1>3 DEF ResetJob, JobRow
<1>5. StartAttempt(row).status = "verifying"
  BY <1>3 DEF StartAttempt, JobRow
<1>6. \A code \in FailureCodes : MarkFailed(row, code).status = "failed"
  BY <1>3 DEF MarkFailed, JobRow
<1> QED
  BY <1>2, <1>4, <1>5, <1>6

\* The changes made without asking the constraints satisfy them.
LEMMA FreshRowsConsistent ==
  /\ ChecksHold(NoRow)
  /\ ChecksHold(QueuedRow)
  /\ \A row \in JobRow : ChecksHold(row) =>
       /\ row.status = "queued" => ChecksHold(StartAttempt(row))
       /\ row.status \in ActiveStatuses => ChecksHold(RecoverInterruptedJob(row))
       /\ ChecksHold([row EXCEPT !.dispatched = TRUE])
<1>1. ChecksHold(NoRow) /\ ChecksHold(QueuedRow)
  BY DEF ChecksHold, NoRow, QueuedRow, FinalStatuses
<1>2. ASSUME NEW row \in JobRow, ChecksHold(row)
      PROVE  /\ row.status = "queued" => ChecksHold(StartAttempt(row))
             /\ row.status \in ActiveStatuses => ChecksHold(RecoverInterruptedJob(row))
             /\ ChecksHold([row EXCEPT !.dispatched = TRUE])
  <2>1. CASE row.status = "queued"
    BY <1>2, <2>1
       DEF ChecksHold, StartAttempt, Transition, JobRow, FinalStatuses, ActiveStatuses
  <2>2. ChecksHold(RecoverInterruptedJob(row))
    BY <1>2
       DEF ChecksHold, RecoverInterruptedJob, Transition, JobRow, FinalStatuses
  <2>3. ChecksHold([row EXCEPT !.dispatched = TRUE])
    BY <1>2 DEF ChecksHold, JobRow
  <2>4. row.status = "queued" => row.status \notin ActiveStatuses
    BY DEF ActiveStatuses
  <2> QED
    BY <2>1, <2>2, <2>3
<1> QED
  BY <1>1, <1>2

\* The CHECK constraints hold of every committed row: PostgreSQL's own rule,
\* stated only because the proofs below need it of the rows they read.
RowsAreConsistent == \A j \in Jobs : ChecksHold(job[j])

DbInv == RowsAreConsistent /\ ReadyHasContent

\* A row replaced by one that is present, consistent and not newly ready.
LEMMA RowReplaced ==
  ASSUME TypeOK, DbInv, NEW j \in Jobs, NEW row \in JobRow, ChecksHold(row),
         row.status = "ready_for_indexing" => j \in content,
         job' = [job EXCEPT ![j] = row], content' = content
  PROVE  DbInv'
<1>1. row # NoRow
  BY DEF JobRow, NoRow, JobStatuses, ActiveStatuses, FinalStatuses
<1>2. \A k \in Jobs : job'[k] = IF k = j THEN row ELSE job[k]
  BY DEF TypeOK, DbOK
<1>3. RowsAreConsistent'
  BY <1>2 DEF DbInv, RowsAreConsistent
<1>4. ReadyHasContent'
  BY <1>1, <1>2 DEF DbInv, ReadyHasContent
<1> QED
  BY <1>3, <1>4 DEF DbInv

\* A commit that does not publish keeps rows consistent and ready jobs with
\* their content, whatever row it meets.
LEMMA SaveKeepsDb ==
  ASSUME TypeOK, DbInv, NEW s \in Sessions, pc[s] # "idle",
         NEW lk, NEW new \in JobRow, new.status # "ready_for_indexing", NEW step,
         Save(s, lk, new, step), content' = content
  PROVE  DbInv'
<1>1. task[s] \in Jobs /\ job[task[s]] \in Row /\ obj[s] \in Row
  BY BusyHasJob DEF TypeOK, DbOK, SessionOK
<1>2. CASE Accepts(s, new)
  <2> DEFINE row == Flush(job[task[s]], obj[s], new)
  <2>1. job[task[s]] \in JobRow /\ ChecksHold(row)
    BY <1>1, <1>2, PresentRow DEF Accepts
  <2>2. row \in JobRow
    BY <1>1, <2>1, FlushedRow
  <2>3. row.status \in {job[task[s]].status, new.status}
    BY DEF Flush
  <2>4. job' = [job EXCEPT ![task[s]] = row]
    BY <1>2 DEF Save
  <2>5. row.status = "ready_for_indexing" => task[s] \in content
    BY <1>1, <2>3 DEF DbInv, ReadyHasContent
  <2> HIDE DEF row
  <2> QED
    BY <1>1, <2>1, <2>2, <2>4, <2>5, RowReplaced
<1>3. CASE ~Accepts(s, new)
  BY <1>3 DEF Save, DbInv, RowsAreConsistent, ReadyHasContent
<1> QED
  BY <1>2, <1>3

LEMMA UnchangedDb ==
  ASSUME DbInv, UNCHANGED <<job, content>>
  PROVE  DbInv'
BY DEF DbInv, RowsAreConsistent, ReadyHasContent

LEMMA WorkerStepKeepsDb ==
  ASSUME TypeOK, DbInv, NEW w \in Workers, WorkerStep(w)
  PROVE  DbInv'
<1>1. w \in Sessions
  BY DEF Sessions
<1>2. pc[w] # "idle" => task[w] \in Jobs /\ job[task[w]] \in Row /\ obj[w] \in Row
  BY <1>1, BusyHasJob DEF TypeOK, DbOK, SessionOK
<1>3. CASE UNCHANGED <<job, content>>
  BY <1>3, UnchangedDb
<1>4. ASSUME NEW row \in JobRow, NEW step, pc[w] # "idle", ChecksHold(row),
             row.status # "ready_for_indexing", LoadedAs(w, row, step)
      PROVE  DbInv'
  BY <1>2, <1>4, RowReplaced DEF LoadedAs
<1>5. CASE LoadQueued(w)
  <2>1. pc[w] # "idle" /\ job[task[w]].status = "queued"
    BY <1>5 DEF LoadQueued
  <2>2. job[task[w]] \in JobRow /\ ChecksHold(job[task[w]])
    BY <1>2, <2>1, PresentRow DEF NoRow, DbInv, RowsAreConsistent
  <2>3. /\ StartAttempt(job[task[w]]) \in JobRow
        /\ StartAttempt(job[task[w]]).status # "ready_for_indexing"
        /\ ChecksHold(StartAttempt(job[task[w]]))
    BY <1>2, <2>1, <2>2, ChangedRows, ChangedStatus, FreshRowsConsistent
  <2> QED
    BY <1>4, <1>5, <2>1, <2>3 DEF LoadQueued
<1>6. CASE LoadInterrupted(w)
  <2>1. pc[w] # "idle" /\ job[task[w]].status \in ActiveStatuses
    BY <1>6 DEF LoadInterrupted
  <2>2. job[task[w]] \in JobRow /\ ChecksHold(job[task[w]])
    BY <1>2, <2>1, PresentRow DEF NoRow, ActiveStatuses, DbInv, RowsAreConsistent
  <2>3. /\ RecoverInterruptedJob(job[task[w]]) \in JobRow
        /\ ChecksHold(RecoverInterruptedJob(job[task[w]]))
    BY <1>2, <2>1, <2>2, ChangedRows, FreshRowsConsistent
  <2>4. RecoverInterruptedJob(job[task[w]]).status = "queued"
    BY <2>2 DEF RecoverInterruptedJob, Transition, JobRow
  <2> QED
    BY <1>4, <1>6, <2>1, <2>3, <2>4 DEF LoadInterrupted
<1>7. ASSUME NEW new \in JobRow, new.status # "ready_for_indexing", NEW step,
             pc[w] # "idle", Save(w, locks, new, step), content' = content
      PROVE  DbInv'
  BY <1>1, <1>7, SaveKeepsDb
<1>8. CASE Verify(w)
  <2>1. pc[w] # "idle" /\ StartAttempt(obj[w]) \in JobRow
        /\ StartAttempt(obj[w]).status = "verifying"
    BY <1>2, <1>8, ChangedRows, ChangedStatus DEF Verify
  <2> QED
    BY <1>7, <1>8, <2>1 DEF Verify
<1>9. ASSUME pc[w] # "idle", content' = content,
             \/ StageFailed(w)
             \/ StageUnavailable(w)
             \/ \E status \in JobStatuses \ {"ready_for_indexing"}, step \in WorkerSteps :
                  StageDone(w, status, step)
      PROVE  DbInv'
  <2>1. \A code \in FailureCodes : /\ MarkFailed(obj[w], code) \in JobRow
                                   /\ MarkFailed(obj[w], code).status = "failed"
    BY <1>2, <1>9, ChangedRows, ChangedStatus
  <2>2. \A status \in JobStatuses : /\ Transition(obj[w], status) \in JobRow
                                    /\ Transition(obj[w], status).status = status
    BY <1>2, <1>9, TransitionType, ChangedStatus
  <2>3. /\ "permanent" \in FailureCodes
        /\ "storage_temporarily_unavailable" \in FailureCodes
        /\ "queued" \in JobStatuses
    BY DEF FailureCodes, JobStatuses
  <2>4. CASE StageFailed(w)
    BY <1>7, <1>9, <2>1, <2>3, <2>4 DEF StageFailed
  <2>5. CASE StageUnavailable(w)
    BY <1>7, <1>9, <2>1, <2>2, <2>3, <2>5 DEF StageUnavailable
  <2>6. ASSUME NEW status \in JobStatuses \ {"ready_for_indexing"},
               NEW step \in WorkerSteps, StageDone(w, status, step)
        PROVE  DbInv'
    BY <1>7, <1>9, <2>2, <2>6 DEF StageDone
  <2> QED
    BY <1>9, <2>4, <2>5, <2>6
<1>10. CASE Inspect(w)
  <2>1. pc[w] # "idle" /\ "extract" \in WorkerSteps
        /\ "extracting" \in JobStatuses \ {"ready_for_indexing"}
    BY <1>10 DEF Inspect, WorkerSteps, JobStatuses, ActiveStatuses
  <2> QED
    BY <1>9, <1>10, <2>1 DEF Inspect
<1>11. CASE Extract(w)
  <2>1. pc[w] # "idle" /\ "chunk" \in WorkerSteps
        /\ "chunking" \in JobStatuses \ {"ready_for_indexing"}
    BY <1>11 DEF Extract, WorkerSteps, JobStatuses, ActiveStatuses
  <2> QED
    BY <1>9, <1>11, <2>1 DEF Extract
<1>12. CASE ChunkFailed(w)
  BY <1>9, <1>12 DEF ChunkFailed
<1>13. CASE ReplaceCanonicalContent(w)
  <2> DEFINE new == Transition(obj[w], "ready_for_indexing")
             row == Flush(job[task[w]], obj[w], new)
  <2>1. pc[w] # "idle" /\ Save(w, locks, new, "release") /\ content' = Stored(w)
    BY <1>13 DEF ReplaceCanonicalContent, StageDone
  <2>2. CASE Accepts(w, new)
    <3>1. /\ job[task[w]] # NoRow /\ ChecksHold(row)
          /\ job' = [job EXCEPT ![task[w]] = row]
          /\ content' = content \cup {task[w]}
      BY <2>1, <2>2 DEF Save, Accepts, Stored
    <3>2. row \in JobRow
      BY <1>2, <2>1, <3>1, PresentRow, FlushedRow, TransitionType
         DEF JobStatuses, FinalStatuses
    <3>3. row # NoRow
      BY <3>2 DEF JobRow, NoRow, JobStatuses, ActiveStatuses, FinalStatuses
    <3> HIDE DEF row
    <3>4. \A k \in Jobs : job'[k] = IF k = task[w] THEN row ELSE job[k]
      BY <3>1 DEF TypeOK, DbOK
    <3>5. RowsAreConsistent'
      BY <3>1, <3>4 DEF DbInv, RowsAreConsistent
    <3>6. ReadyHasContent'
      BY <3>1, <3>3, <3>4 DEF DbInv, ReadyHasContent
    <3> QED
      BY <3>5, <3>6 DEF DbInv
  <2>3. CASE ~Accepts(w, new)
    BY <2>1, <2>3, UnchangedDb DEF Save, Stored
  <2> QED
    BY <2>2, <2>3
<1>14. CASE \/ \E j \in Jobs, n \in Deliveries : Receive(w, j, n)
            \/ TryLock(w) \/ LoadFinished(w) \/ GetDocument(w)
            \/ RejectCanonicalContent(w) \/ Release(w)
  BY <1>3, <1>14
     DEF Receive, TryLock, LoadFinished, GetDocument, RejectCanonicalContent, Release, db
<1> QED
  BY <1>5, <1>6, <1>8, <1>10, <1>11, <1>12, <1>13, <1>14 DEF WorkerStep

LEMMA RequestKeepsDb ==
  ASSUME TypeOK, DbInv, NEW r \in Requests, StartCall(r) \/ RequestStep(r)
  PROVE  DbInv'
<1>1. r \in Sessions
  BY DEF Sessions
<1>2. pc[r] # "idle" => task[r] \in Jobs /\ job[task[r]] \in Row /\ obj[r] \in Row
  BY <1>1, BusyHasJob DEF TypeOK, DbOK, SessionOK
<1>3. pc[r] # "idle" => /\ ResetJob(obj[r]) \in JobRow
                        /\ ResetJob(obj[r]).status = "queued"
  BY <1>2, ChangedRows, ChangedStatus
<1>4. ASSUME NEW j \in Jobs, Upload(r, j)
      PROVE  DbInv'
  <2>1. QueuedRow.status = "queued"
    BY DEF QueuedRow, NoRow
  <2> QED
    BY <1>4, <2>1, QueuedRowType, FreshRowsConsistent, RowReplaced DEF Upload
<1>5. ASSUME NEW j \in Jobs, Delete(r, j)
      PROVE  DbInv'
  <2>1. \A k \in Jobs : job'[k] = IF k = j THEN NoRow ELSE job[k]
    BY <1>5 DEF Delete, TypeOK, DbOK
  <2>2. RowsAreConsistent'
    BY <2>1, FreshRowsConsistent DEF DbInv, RowsAreConsistent
  <2>3. NoRow.status # "ready_for_indexing"
    BY DEF NoRow
  <2>4. ReadyHasContent'
    BY <1>5, <2>1, <2>3 DEF Delete, DbInv, ReadyHasContent
  <2> QED
    BY <2>2, <2>4 DEF DbInv
<1>6. CASE ResetFailed(r)
  <2>1. pc[r] # "idle" /\ Save(r, locks, ResetJob(obj[r]), "send") /\ content' = content
    BY <1>6 DEF ResetFailed
  <2> QED
    BY <1>1, <1>3, <2>1, SaveKeepsDb
<1>7. CASE LockReset(r)
  <2>1. pc[r] # "idle" /\ content' = content
    BY <1>7 DEF LockReset
  <2>2. CASE Grantable(r, task[r])
    BY <1>1, <1>3, <1>7, <2>1, <2>2, SaveKeepsDb DEF LockReset
  <2>3. CASE ~Grantable(r, task[r])
    BY <1>7, <2>3, UnchangedDb DEF LockReset
  <2> QED
    BY <2>2, <2>3
<1>8. CASE RecordDispatch(r)
  <2>1. pc[r] # "idle" /\ content' = content
    BY <1>8 DEF RecordDispatch
  <2>2. CASE job[task[r]] = NoRow
    BY <1>8, <2>1, <2>2, UnchangedDb DEF RecordDispatch
  <2>3. CASE job[task[r]] # NoRow
    <3> DEFINE row == [job[task[r]] EXCEPT !.dispatched = TRUE]
    <3>1. job[task[r]] \in JobRow /\ ChecksHold(job[task[r]])
      BY <1>2, <2>1, <2>3, PresentRow DEF DbInv, RowsAreConsistent
    <3>2. row \in JobRow /\ row.status = job[task[r]].status
      BY <3>1 DEF JobRow
    <3>3. ChecksHold(row)
      BY <3>1, FreshRowsConsistent
    <3>4. job' = [job EXCEPT ![task[r]] = row]
      BY <1>8, <2>3 DEF RecordDispatch
    <3>5. row.status = "ready_for_indexing" => task[r] \in content
      BY <1>2, <2>1, <3>2 DEF DbInv, ReadyHasContent
    <3> HIDE DEF row
    <3> QED
      BY <1>2, <2>1, <3>2, <3>3, <3>4, <3>5, RowReplaced
  <2> QED
    BY <2>2, <2>3
<1>9. CASE Reprocess(r)
  <2> DEFINE row == Flush(job[task[r]], obj[r], ResetJob(obj[r]))
  <2>1. pc[r] # "idle" /\ content' = content
    BY <1>9 DEF Reprocess
  <2>2. CASE Accepts(r, ResetJob(obj[r]))
    <3>1. /\ job[task[r]] # NoRow /\ ChecksHold(row)
          /\ job' = [job EXCEPT ![task[r]] = row]
      BY <1>9, <2>2 DEF Reprocess, Accepts
    <3>2. row \in JobRow
      BY <1>2, <1>3, <2>1, <3>1, PresentRow, FlushedRow
    <3>3. row.status \in {job[task[r]].status, ResetJob(obj[r]).status}
      BY DEF Flush
    <3>4. row.status = "ready_for_indexing" => task[r] \in content
      BY <1>2, <1>3, <2>1, <3>3 DEF DbInv, ReadyHasContent
    <3> HIDE DEF row
    <3> QED
      BY <1>2, <2>1, <3>1, <3>2, <3>4, RowReplaced
  <2>3. CASE ~Accepts(r, ResetJob(obj[r]))
    BY <1>9, <2>1, <2>3, UnchangedDb DEF Reprocess
  <2> QED
    BY <2>2, <2>3
<1>10. CASE UNCHANGED db
  BY <1>10, UnchangedDb DEF db
<1>11. CASE \/ \E j \in Jobs : FindForRetry(r, j) \/ FindForReprocessing(r, j)
            \/ Refresh(r) \/ Unlock(r) \/ Send(r) \/ SendFails(r)
  BY <1>10, <1>11
     DEF FindForRetry, FindForReprocessing, Refresh, Unlock, Send, SendFails
<1> QED
  BY <1>4, <1>5, <1>6, <1>7, <1>8, <1>9, <1>11 DEF StartCall, RequestStep

LEMMA OtherStepsKeepDb ==
  ASSUME DbInv, Failure \/ UNCHANGED vars
  PROVE  DbInv'
BY UnchangedDb DEF Failure, Crash, Redeliver, LoseMessage, vars, db

LEMMA DbStaysSound == Spec => []DbInv
<1>1. Init => DbInv
  BY FreshRowsConsistent
     DEF Init, DbInv, RowsAreConsistent, ReadyHasContent, NoRow
<1>2. TypeOK /\ DbInv /\ [Next]_vars => DbInv'
  BY WorkerStepKeepsDb, RequestKeepsDb, OtherStepsKeepDb DEF Next
<1> QED
  BY <1>1, <1>2, TypeCorrect, PTL DEF Spec

\* A ready job always has its content, for any number of threads in a process
\* and whether or not the advisory lock keeps them apart: the status commits
\* in one transaction with the content, and no later commit of a stale copy
\* makes a job ready whose content a deletion or a reset removed.
THEOREM ReadyJobsHaveContent == Spec => []ReadyHasContent
BY DbStaysSound, PTL DEF DbInv

-----------------------------------------------------------------------------
(***************************************************************************)
(* The step a thread is at agrees with the status of the job it keeps in   *)
(* memory, so transition_job is never asked for a transition it refuses.   *)
(* The invariant is inductive thread by thread: it speaks of the job in    *)
(* memory only, which no other thread changes, and so it needs neither the *)
(* advisory lock nor a process per thread.                                 *)
(***************************************************************************)
\* What a thread at a step knows of the job it keeps in memory.
StageOK(step, row) ==
  /\ step = "verify" => row.status = "queued"
  /\ step \in {"document", "inspect"} => row.status = "verifying"
  /\ step = "extract" => row.status = "extracting"
  /\ step = "chunk" => row.status = "chunking"
  /\ step = "reset" => row.status = "failed"
  /\ step = "lockreset" => row.status \in ActiveStatuses
  /\ step = "reprocess" => row.status = "ready_for_indexing"

\* The steps at which it knows nothing.
FreeSteps ==
  {"idle", "lock", "load", "release", "abort", "refresh", "unlock", "send", "record"}

LEMMA StageByStage ==
  StageMatchesStatus <=> \A s \in Sessions : StageOK(pc[s], obj[s])
BY DEF StageMatchesStatus, StageOK

LEMMA FreeStep ==
  ASSUME NEW step \in FreeSteps, NEW row
  PROVE  StageOK(step, row)
BY DEF FreeSteps, StageOK

\* A step of one thread that leaves it where it knows what it should.
LEMMA ThreadMoves ==
  ASSUME TypeOK, StageMatchesStatus, NEW s \in Sessions, NEW step, NEW row,
         Goto(s, step), obj' = [obj EXCEPT ![s] = row] \/ (obj' = obj /\ row = obj[s]),
         StageOK(step, row)
  PROVE  StageMatchesStatus'
<1>1. pc'[s] = step /\ obj'[s] = row
  BY DEF Goto, TypeOK, SessionOK
<1>2. \A t \in Sessions \ {s} : pc'[t] = pc[t] /\ obj'[t] = obj[t]
  BY DEF Goto, TypeOK, SessionOK
<1>3. \A t \in Sessions : StageOK(pc'[t], obj'[t])
  BY <1>1, <1>2, StageByStage
<1> QED
  BY <1>3 DEF StageMatchesStatus, StageOK

\* A call that ends, well or not, leaves its thread idle.
LEMMA ThreadLeaves ==
  ASSUME TypeOK, StageMatchesStatus, NEW s \in Sessions,
         Return(s) \/ Raise(s) \/ Fail(s)
  PROVE  StageMatchesStatus'
<1>1. Goto(s, "idle") /\ obj' = [obj EXCEPT ![s] = NoRow]
  BY DEF Return, Raise, Fail, Leave
<1>2. StageOK("idle", NoRow)
  BY FreeStep DEF FreeSteps
<1> QED
  BY <1>1, <1>2, ThreadMoves

\* A commit either goes on with the row it saved or ends the call.
LEMMA ThreadSaves ==
  ASSUME TypeOK, StageMatchesStatus, NEW s \in Sessions,
         NEW lk, NEW new, NEW step, Save(s, lk, new, step), StageOK(step, new)
  PROVE  StageMatchesStatus'
<1>1. CASE Accepts(s, new)
  BY <1>1, ThreadMoves DEF Save
<1>2. CASE ~Accepts(s, new)
  BY <1>2, ThreadLeaves DEF Save
<1> QED
  BY <1>1, <1>2

\* A thread that only changes its step, to one where it knows nothing.
LEMMA ThreadGoes ==
  ASSUME TypeOK, StageMatchesStatus, NEW s \in Sessions, NEW step \in FreeSteps,
         Goto(s, step), obj' = obj \/ \E row : obj' = [obj EXCEPT ![s] = row]
  PROVE  StageMatchesStatus'
BY FreeStep, ThreadMoves

LEMMA ThreadsStay ==
  ASSUME StageMatchesStatus, UNCHANGED <<pc, obj>>
  PROVE  StageMatchesStatus'
BY DEF StageMatchesStatus

LEMMA WorkerKeepsStages ==
  ASSUME TypeOK, StageMatchesStatus, NEW w \in Workers, WorkerStep(w)
  PROVE  StageMatchesStatus'
<1>1. w \in Sessions
  BY DEF Sessions
<1>2. pc[w] # "idle" => /\ task[w] \in Jobs /\ job[task[w]] \in Row
                        /\ obj[w] \in Row /\ StageOK(pc[w], obj[w])
  BY <1>1, BusyHasJob, StageByStage DEF TypeOK, DbOK, SessionOK
<1>3. pc[w] # "idle" =>
        /\ StartAttempt(obj[w]).status = "verifying"
        /\ Transition(obj[w], "extracting").status = "extracting"
        /\ Transition(obj[w], "chunking").status = "chunking"
  BY <1>2, ChangedStatus DEF JobStatuses, ActiveStatuses
<1>4. /\ "idle" \in FreeSteps /\ "lock" \in FreeSteps /\ "load" \in FreeSteps
      /\ "release" \in FreeSteps /\ "abort" \in FreeSteps
  BY DEF FreeSteps
<1>5. ASSUME StageFailed(w)
      PROVE  StageMatchesStatus'
  BY <1>1, <1>4, <1>5, FreeStep, ThreadSaves DEF StageFailed
<1>6. ASSUME StageUnavailable(w)
      PROVE  StageMatchesStatus'
  BY <1>1, <1>4, <1>6, FreeStep, ThreadSaves DEF StageUnavailable
<1>7. CASE \E j \in Jobs, n \in Deliveries : Receive(w, j, n)
  BY <1>1, <1>4, <1>7, ThreadGoes DEF Receive
<1>8. CASE TryLock(w)
  <2>1. CASE Grantable(w, task[w])
    BY <1>1, <1>4, <1>8, <2>1, ThreadGoes DEF TryLock
  <2>2. CASE ~Grantable(w, task[w])
    BY <1>1, <1>8, <2>2, ThreadLeaves DEF TryLock
  <2> QED
    BY <2>1, <2>2
<1>9. CASE LoadFinished(w)
  BY <1>1, <1>4, <1>9, ThreadGoes DEF LoadFinished
<1>10. CASE LoadQueued(w)
  <2>1. StartAttempt(job[task[w]]).status = "verifying"
    BY <1>2, <1>10, ChangedStatus DEF LoadQueued
  <2>2. StageOK("document", StartAttempt(job[task[w]]))
    BY <2>1 DEF StageOK
  <2> QED
    BY <1>1, <1>10, <2>2, ThreadMoves DEF LoadQueued, LoadedAs
<1>11. CASE LoadInterrupted(w)
  <2>1. job[task[w]] \in RowShape
    BY <1>2, <1>11, RowsHaveShape DEF LoadInterrupted
  <2>2. RecoverInterruptedJob(job[task[w]]).status = "queued"
    BY <2>1 DEF RecoverInterruptedJob, Transition, RowShape
  <2>3. StageOK("verify", RecoverInterruptedJob(job[task[w]]))
    BY <2>2 DEF StageOK
  <2> QED
    BY <1>1, <1>11, <2>3, ThreadMoves DEF LoadInterrupted, LoadedAs
<1>12. CASE Verify(w)
  <2>1. StageOK("document", StartAttempt(obj[w]))
    BY <1>3, <1>12 DEF Verify, StageOK
  <2> QED
    BY <1>1, <1>12, <2>1, ThreadSaves DEF Verify
<1>13. CASE GetDocument(w)
  <2>1. CASE job[task[w]] = NoRow
    BY <1>1, <1>13, <2>1, ThreadLeaves DEF GetDocument
  <2>2. CASE job[task[w]] # NoRow
    <3>1. Goto(w, "inspect") /\ obj' = obj
      BY <1>13, <2>2 DEF GetDocument
    <3>2. StageOK("inspect", obj[w])
      BY <1>2, <1>13 DEF GetDocument, StageOK
    <3> QED
      BY <1>1, <3>1, <3>2, ThreadMoves
  <2> QED
    BY <2>1, <2>2
<1>14. CASE Inspect(w)
  <2>1. StageOK("extract", Transition(obj[w], "extracting"))
    BY <1>3, <1>14 DEF Inspect, StageOK
  <2>2. CASE StageDone(w, "extracting", "extract")
    BY <1>1, <2>1, <2>2, ThreadSaves DEF StageDone
  <2> QED
    BY <1>5, <1>6, <1>14, <2>2 DEF Inspect
<1>15. CASE Extract(w)
  <2>1. StageOK("chunk", Transition(obj[w], "chunking"))
    BY <1>3, <1>15 DEF Extract, StageOK
  <2>2. CASE StageDone(w, "chunking", "chunk")
    BY <1>1, <2>1, <2>2, ThreadSaves DEF StageDone
  <2> QED
    BY <1>5, <1>6, <1>15, <2>2 DEF Extract
<1>16. CASE ChunkFailed(w)
  BY <1>5, <1>16 DEF ChunkFailed
<1>17. CASE ReplaceCanonicalContent(w)
  BY <1>1, <1>4, <1>17, FreeStep, ThreadSaves DEF ReplaceCanonicalContent, StageDone
<1>18. CASE RejectCanonicalContent(w)
  BY <1>1, <1>18, ThreadLeaves DEF RejectCanonicalContent
<1>19. CASE Release(w)
  BY <1>1, <1>19, ThreadLeaves DEF Release
<1> QED
  BY <1>7, <1>8, <1>9, <1>10, <1>11, <1>12, <1>13, <1>14, <1>15, <1>16, <1>17,
     <1>18, <1>19 DEF WorkerStep

\* The step a retry goes on to suits the status it read.
LEMMA RetryStepFits ==
  ASSUME NEW row \in JobRow, row.status # "ready_for_indexing"
  PROVE  StageOK(RetryStep(row.status), row)
<1>1. row.status \in {"queued", "failed", "verifying", "extracting", "chunking"}
  BY DEF JobRow, JobStatuses, ActiveStatuses, FinalStatuses
<1>2. CASE row.status = "queued"
  <2>1. RetryStep(row.status) = "send"
    BY <1>2 DEF RetryStep, ActiveStatuses
  <2> QED
    BY <2>1 DEF StageOK
<1>3. CASE row.status = "failed"
  <2>1. RetryStep(row.status) = "reset"
    BY <1>3 DEF RetryStep, ActiveStatuses
  <2> QED
    BY <1>3, <2>1 DEF StageOK
<1>4. CASE row.status \in ActiveStatuses
  <2>1. RetryStep(row.status) = "lockreset"
    BY <1>4 DEF RetryStep, ActiveStatuses
  <2> QED
    BY <1>4, <2>1 DEF StageOK
<1> QED
  BY <1>1, <1>2, <1>3, <1>4 DEF ActiveStatuses

LEMMA StartCallKeepsStages ==
  ASSUME TypeOK, StageMatchesStatus, NEW r \in Requests, StartCall(r)
  PROVE  StageMatchesStatus'
<1>1. r \in Sessions
  BY DEF Sessions
<1>2. ASSUME NEW j \in Jobs, Upload(r, j)
      PROVE  StageMatchesStatus'
  <2>1. "refresh" \in FreeSteps
    BY DEF FreeSteps
  <2> QED
    BY <1>1, <1>2, <2>1, ThreadGoes DEF Upload, Begin
<1>3. ASSUME NEW j \in Jobs, FindForRetry(r, j)
      PROVE  StageMatchesStatus'
  <2>1. job[j] \in JobRow
    BY <1>3, PresentRow DEF FindForRetry, TypeOK, DbOK
  <2>2. CASE job[j].status = "ready_for_indexing"
    BY <1>3, <2>2, ThreadsStay DEF FindForRetry, session
  <2>3. CASE job[j].status # "ready_for_indexing"
    <3>1. StageOK(RetryStep(job[j].status), job[j])
      BY <2>1, <2>3, RetryStepFits
    <3> QED
      BY <1>1, <1>3, <2>3, <3>1, ThreadMoves DEF FindForRetry, Begin
  <2> QED
    BY <2>2, <2>3
<1>4. ASSUME NEW j \in Jobs, Delete(r, j)
      PROVE  StageMatchesStatus'
  BY <1>4, ThreadsStay DEF Delete, session
<1>5. ASSUME NEW j \in Jobs, FindForReprocessing(r, j)
      PROVE  StageMatchesStatus'
  <2>1. StageOK("reprocess", job[j])
    BY <1>5 DEF FindForReprocessing, StageOK
  <2> QED
    BY <1>1, <1>5, <2>1, ThreadMoves DEF FindForReprocessing, Begin
<1> QED
  BY <1>2, <1>3, <1>4, <1>5 DEF StartCall

LEMMA RequestKeepsStages ==
  ASSUME TypeOK, StageMatchesStatus, NEW r \in Requests, RequestStep(r)
  PROVE  StageMatchesStatus'
<1>1. r \in Sessions
  BY DEF Sessions
<1>2. "send" \in FreeSteps /\ "unlock" \in FreeSteps /\ "record" \in FreeSteps
  BY DEF FreeSteps
<1>3. CASE Refresh(r)
  <2>1. CASE job[task[r]] = NoRow
    BY <1>1, <1>3, <2>1, ThreadLeaves DEF Refresh
  <2>2. CASE job[task[r]] # NoRow
    BY <1>1, <1>2, <1>3, <2>2, ThreadGoes DEF Refresh
  <2> QED
    BY <2>1, <2>2
<1>4. CASE ResetFailed(r)
  BY <1>1, <1>2, <1>4, FreeStep, ThreadSaves DEF ResetFailed
<1>5. CASE LockReset(r)
  <2>1. CASE Grantable(r, task[r])
    BY <1>1, <1>2, <1>5, <2>1, FreeStep, ThreadSaves DEF LockReset
  <2>2. CASE ~Grantable(r, task[r])
    BY <1>1, <1>5, <2>2, ThreadLeaves DEF LockReset
  <2> QED
    BY <2>1, <2>2
<1>6. CASE Unlock(r)
  BY <1>1, <1>2, <1>6, ThreadGoes DEF Unlock
<1>7. CASE Send(r)
  BY <1>1, <1>2, <1>7, ThreadGoes DEF Send
<1>8. CASE SendFails(r) \/ RecordDispatch(r) \/ Reprocess(r)
  BY <1>1, <1>8, ThreadLeaves DEF SendFails, RecordDispatch, Reprocess
<1> QED
  BY <1>3, <1>4, <1>5, <1>6, <1>7, <1>8 DEF RequestStep

LEMMA FailureKeepsStages ==
  ASSUME TypeOK, StageMatchesStatus, Failure \/ UNCHANGED vars
  PROVE  StageMatchesStatus'
<1>1. ASSUME NEW p \in Procs, Crash(p)
      PROVE  StageMatchesStatus'
  <2>1. \A s \in Sessions : (pc'[s] = pc[s] /\ obj'[s] = obj[s]) \/ pc'[s] = "idle"
    BY <1>1 DEF Crash
  <2>2. \A s \in Sessions : StageOK(pc'[s], obj'[s])
    BY <2>1, StageByStage, FreeStep DEF FreeSteps
  <2> QED
    BY <2>2 DEF StageMatchesStatus, StageOK
<1>2. CASE UNCHANGED <<pc, obj>>
  BY <1>2, ThreadsStay
<1> QED
  BY <1>1, <1>2 DEF Failure, Redeliver, LoseMessage, session, vars

\* Whatever is retried, redelivered or crashes, and however many threads a
\* process has, transition_job is asked for allowed transitions only: a thread
\* of process_ingestion_job, reset_job_for_retry or reset_job_for_reprocessing
\* is never at a step its job's status does not suit, so InvalidJobTransition
\* is never raised.
THEOREM StagesMatch == Spec => []StageMatchesStatus
<1>1. Init => StageMatchesStatus
  BY DEF Init, StageMatchesStatus
<1>2. TypeOK /\ StageMatchesStatus /\ [Next]_vars => StageMatchesStatus'
  BY WorkerKeepsStages, StartCallKeepsStages, RequestKeepsStages, FailureKeepsStages
     DEF Next
<1> QED
  BY <1>1, <1>2, TypeCorrect, PTL DEF Spec
=============================================================================
